------------------------ MODULE DroneTasksRefinement ------------------------
(***************************************************************************)
(* DroneTasks implements TaskBoard when clients send versions they have    *)
(* seen: reading without a lock, checking, and updating by version amount  *)
(* to moves that are checked and made at one instant, the update's.        *)
(***************************************************************************)
EXTENDS DroneTasks

StatusOfMissions == [m \in Missions |-> drone_missions[m].status]
StatusOfTasks == [t \in Tasks |-> drone_tasks[t].status]
CompletedTasks == {t \in Tasks : drone_tasks[t].completed}

Board == INSTANCE TaskBoard WITH
  mission <- StatusOfMissions,
  task    <- StatusOfTasks,
  done    <- CompletedTasks

\* Requests that overlap leave missions, tasks and completions as some sequence
\* of atomic, checked moves would; all other steps are invisible on the board.
ImplementsTaskBoard == Board!BoardSpec

=============================================================================
