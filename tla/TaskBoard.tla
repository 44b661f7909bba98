------------------------------ MODULE TaskBoard ------------------------------
(***************************************************************************)
(* What the services promise about missions and drone tasks, with neither  *)
(* transactions nor row versions: a board on which every move is checked   *)
(* and made at one instant.  A unit's place is taken by a member of        *)
(* `done', not counted.                                                    *)
(***************************************************************************)
EXTENDS Lifecycle, FiniteSets

CONSTANTS Missions, Units, Tasks, MissionOf, Required, UnitOf

VARIABLES
  mission,  \* the status of each mission
  task,     \* the status of each task
  done      \* the tasks that were completed, whatever became of them later

board_vars == <<mission, task, done>>

BoardInit ==
  /\ mission = [m \in Missions |-> "absent"]
  /\ task = [t \in Tasks |-> "absent"]
  /\ done = {}

Draft(m) ==
  /\ mission[m] = "absent"
  /\ mission' = [mission EXCEPT ![m] = "draft"]
  /\ UNCHANGED <<task, done>>

Advance(m, status) ==
  /\ MissionCanMoveTo(mission[m], status)
  /\ mission' = [mission EXCEPT ![m] = status]
  /\ UNCHANGED <<task, done>>

Queue(t) ==
  /\ task[t] = "absent"
  /\ mission[MissionOf[UnitOf[t]]] # "absent"
  /\ task' = [task EXCEPT ![t] = "queued"]
  /\ UNCHANGED <<mission, done>>

\* A completion takes a free place of the unit, once.  The mission may have
\* been closed since the service looked at it.
Complete(t) ==
  /\ DroneTaskCanMoveTo(task[t], "completed")
  /\ mission[MissionOf[UnitOf[t]]] \in {"active", "closed"}
  /\ t \notin done
  /\ Cardinality({x \in done : UnitOf[x] = UnitOf[t]}) < Required[UnitOf[t]]
  /\ task' = [task EXCEPT ![t] = "completed"]
  /\ done' = done \union {t}
  /\ UNCHANGED mission

Archive(t) ==
  /\ DroneTaskCanMoveTo(task[t], "archived")
  /\ task' = [task EXCEPT ![t] = "archived"]
  /\ UNCHANGED <<mission, done>>

\* A transfer is written from any status.
Transfer(t, status) ==
  /\ task[t] # "absent"
  /\ task' = [task EXCEPT ![t] = status]
  /\ UNCHANGED <<mission, done>>

\* One pass of the expiration worker.
Expire(S) ==
  /\ \A t \in S : task[t] \in UnfinishedStatus
  /\ task' = [t \in Tasks |-> IF t \in S THEN "rejected" ELSE task[t]]
  /\ UNCHANGED <<mission, done>>

BoardNext ==
  \/ \E m \in Missions : Draft(m)
  \/ \E m \in Missions, status \in MissionStatus : Advance(m, status)
  \/ \E t \in Tasks : Queue(t) \/ Complete(t) \/ Archive(t)
  \/ \E t \in Tasks, status \in {"device_transfer_pending", "accepted"} :
       Transfer(t, status)
  \/ \E S \in SUBSET Tasks : Expire(S)

BoardSpec == BoardInit /\ [][BoardNext]_board_vars

=============================================================================
