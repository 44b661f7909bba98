---------------------------- MODULE MCDroneTasks ----------------------------
(* Instances of DroneTasks and DroneTasksRefinement for TLC. *)
EXTENDS DroneTasksRefinement, TLC

CONSTANTS m1, u1, u2, t1, t2

\* Both tasks belong to one unit, which asks for a single task.
MCMissionOf == [u \in Units |-> m1]
MCRequiredOne == [u \in Units |-> 1]
MCRequiredTwo == [u \in Units |-> 2]
MCUnitOf == [t \in Tasks |-> u1]

Symmetry == Permutations(Requests) \union Permutations(Tasks)

=============================================================================
