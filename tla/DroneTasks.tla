------------------------------ MODULE DroneTasks ------------------------------
(***************************************************************************)
(* Missions, drone units and drone tasks: the services that create and     *)
(* move them, over the PostgreSQL tables they share, with the expiration   *)
(* worker running beside them.                                             *)
(*                                                                         *)
(* Repository.InTx is a READ COMMITTED transaction.  A handler that first  *)
(* reads a row without locking it and later updates the row is split at    *)
(* its reads: `requests' holds what it has read.  The write statement, its *)
(* audit row and COMMIT are one step, because an updated row stays locked  *)
(* until COMMIT and its WHERE clause is evaluated on the latest committed  *)
(* version.  An error, a violated constraint, a cancelled context and a    *)
(* process that dies before COMMIT all roll back: Fail.                    *)
(***************************************************************************)
EXTENDS Lifecycle, FiniteSets

CONSTANTS
  Missions,    \* mission ids
  Units,       \* ids of mission_drones rows
  Tasks,       \* ids of drone_tasks rows
  Requests,    \* slots for read-then-write HTTP requests in progress
  MissionOf,   \* mission_drones.mission_id, which no statement changes
  Required,    \* mission_drones.required_tasks, which no statement changes
  UnitOf,      \* drone_tasks.drone_id, which no statement changes
  Foresight,   \* how far past the row's version a client's version may be
  Limit,       \* rows one pass of the expiration worker takes
  MaxTime,     \* bound: the clock stops here
  MaxVersion,  \* bound: clients stop moving a task at this row version
  MaxMissionVersion  \* bound: clients stop moving a mission at this one

ASSUME StructureAssumption ==
  /\ MissionOf \in [Units -> Missions]
  /\ Required \in [Units -> Nat \ {0}]
  /\ UnitOf \in [Tasks -> Units]

ASSUME FiniteAssumption == IsFiniteSet(Tasks)

ASSUME BoundAssumption ==
  /\ Foresight \in Nat
  /\ Limit \in Nat \ {0}
  /\ MaxTime \in Nat
  /\ MaxVersion \in Nat \ {0}
  /\ MaxMissionVersion \in Nat \ {0}

VARIABLES
  now,                     \* the service's and the worker's clock
  drone_missions,
  mission_drones,          \* completed_tasks of each unit
  drone_tasks,
  device_transfer_events,  \* number of transfer rows of each task
  audit_events,            \* number of audit rows of each <<type, id>>
  requests

vars == <<now, drone_missions, mission_drones, drone_tasks,
          device_transfer_events, audit_events, requests>>

Time == 0 .. MaxTime
Horizon == 0 .. MaxTime + 1     \* instants a window or an expiry may name

\* The versions clients send: with a row's last one nothing could be written.
TaskVersions == 1 .. MaxVersion - 1
MissionVersions == 1 .. MaxMissionVersion - 1

TaskOps == {"complete", "archive"}
MissionOps == {"schedule", "activate", "close"}

\* The status each handler passes to the repository.
Target(op) ==
  CASE op = "complete" -> "completed"
    [] op = "archive"  -> "archived"
    [] op = "schedule" -> "scheduled"
    [] op = "activate" -> "active"
    [] op = "close"    -> "closed"

MissionRow ==
  [status : MissionStatus \union {"absent"}, version : Nat,
   starts_at : Nat, ends_at : Nat]

TaskRow ==
  [status : DroneTaskStatus \union {"absent"}, version : Nat,
   expires_at : Nat, completed : BOOLEAN]   \* completed: completed_at is set

AuditKeys ==
  ({"drone_mission"} \X Missions) \union ({"drone_task", "task"} \X Tasks)

Idle == [pc |-> "idle"]

TaskRequest ==
  [pc : {"read", "checked"}, op : TaskOps, id : Tasks,
   version : Nat, seen : DroneTaskStatus]

MissionRequest ==
  [pc : {"checked"}, op : MissionOps, id : Missions,
   version : Nat, seen : MissionStatus]

TypeOK ==
  /\ now \in Time
  /\ drone_missions \in [Missions -> MissionRow]
  /\ mission_drones \in [Units -> Nat]
  /\ drone_tasks \in [Tasks -> TaskRow]
  /\ device_transfer_events \in [Tasks -> Nat]
  /\ audit_events \in [AuditKeys -> Nat]
  /\ requests \in [Requests -> {Idle} \union TaskRequest \union MissionRequest]

Init ==
  /\ now = 0
  /\ drone_missions = [m \in Missions |->
       [status |-> "absent", version |-> 0, starts_at |-> 0, ends_at |-> 0]]
  /\ mission_drones = [u \in Units |-> 0]
  /\ drone_tasks = [t \in Tasks |->
       [status |-> "absent", version |-> 0, expires_at |-> 0,
        completed |-> FALSE]]
  /\ device_transfer_events = [t \in Tasks |-> 0]
  /\ audit_events = [k \in AuditKeys |-> 0]
  /\ requests = [r \in Requests |-> Idle]

MissionExists(m) == drone_missions[m].status # "absent"
TaskExists(t) == drone_tasks[t].status # "absent"

-----------------------------------------------------------------------------
(***************************************************************************)
(* The repository's statements.  None of the updates looks at the status   *)
(* the row has: a matching version is all they ask for.                    *)
(***************************************************************************)

(***************************************************************************)
(* A definition whose name starts with `Bad' is a plausible mistake in the *)
(* definition that follows it.  No specification uses it; a property that  *)
(* holds with it in place would say nothing about the code.                *)
(***************************************************************************)

\* SET status = ..., version = version + 1
WithStatus(row, status) ==
  [row EXCEPT !.status = status, !.version = @ + 1]

AsCompleted(row) == [WithStatus(row, "completed") EXCEPT !.completed = TRUE]

WriteAudit(type, id) ==
  audit_events' = [audit_events EXCEPT ![<<type, id>>] = @ + 1]

AdvanceMissionRow(m, status, version) ==
  /\ drone_missions[m].version = version
  /\ version < MaxMissionVersion
  /\ drone_missions' = [drone_missions EXCEPT ![m] = WithStatus(@, status)]

\* <= in place of <
BadCompleteTaskRow(t, version) ==
  /\ drone_tasks[t].version = version
  /\ version < MaxVersion
  /\ mission_drones[UnitOf[t]] <= Required[UnitOf[t]]
  /\ drone_tasks' = [drone_tasks EXCEPT ![t] = AsCompleted(@)]
  /\ mission_drones' = [mission_drones EXCEPT ![UnitOf[t]] = @ + 1]

\* Counting the unit of `eligible_drone' in place of the one of `updated': a
\* stale version moves no task and counts one.
BadCountedCompletion(t, version) ==
  /\ mission_drones[UnitOf[t]] < Required[UnitOf[t]]
  /\ drone_tasks' = IF drone_tasks[t].version = version /\ version < MaxVersion
                    THEN [drone_tasks EXCEPT ![t] = AsCompleted(@)]
                    ELSE drone_tasks
  /\ mission_drones' = [mission_drones EXCEPT ![UnitOf[t]] = @ + 1]

\* Moving the task by the other branch, which leaves the counter alone.
BadUncountedCompletion(t, version) ==
  /\ drone_tasks[t].version = version
  /\ version < MaxVersion
  /\ drone_tasks' = [drone_tasks EXCEPT ![t] = AsCompleted(@)]
  /\ UNCHANGED mission_drones

\* The completed branch of moveDroneTask: the unit row is locked while it has
\* room, and task and counter change in the same statement.
CompleteTaskRow(t, version) ==
  /\ drone_tasks[t].version = version
  /\ version < MaxVersion
  /\ mission_drones[UnitOf[t]] < Required[UnitOf[t]]
  /\ drone_tasks' = [drone_tasks EXCEPT ![t] = AsCompleted(@)]
  /\ mission_drones' = [mission_drones EXCEPT ![UnitOf[t]] = @ + 1]

\* The other branch of moveDroneTask.
MoveTaskRow(t, status, version) ==
  /\ drone_tasks[t].version = version
  /\ version < MaxVersion
  /\ drone_tasks' = [drone_tasks EXCEPT ![t] = WithStatus(@, status)]
  /\ UNCHANGED mission_drones

RecordHandoff(t) ==
  device_transfer_events' = [device_transfer_events EXCEPT ![t] = @ + 1]

-----------------------------------------------------------------------------
(***************************************************************************)
(* Missions.                                                               *)
(***************************************************************************)

\* The mission and its units are inserted together; a unit's counter has the
\* column's default, 0, from the start.
CreateMission(m, starts_at, ends_at) ==
  /\ ~ MissionExists(m)
  /\ ValidateWindow(starts_at, ends_at, now)
  /\ drone_missions' = [drone_missions EXCEPT ![m] =
       [status |-> "draft", version |-> 1,
        starts_at |-> starts_at, ends_at |-> ends_at]]
  /\ WriteAudit("drone_mission", m)
  /\ UNCHANGED <<now, mission_drones, drone_tasks, device_transfer_events,
                 requests>>

\* advanceMission up to its CanMoveTo check.  The version is the client's: one
\* that the row has already left behind can only fail, and is not followed.
ReadMission(r, op, m, version) ==
  /\ requests[r] = Idle
  /\ MissionExists(m)
  /\ version \in drone_missions[m].version .. drone_missions[m].version + Foresight
  /\ MissionCanMoveTo(drone_missions[m].status, Target(op))
  /\ requests' = [requests EXCEPT ![r] =
       [pc |-> "checked", op |-> op, id |-> m, version |-> version,
        seen |-> drone_missions[m].status]]
  /\ UNCHANGED <<now, drone_missions, mission_drones, drone_tasks,
                 device_transfer_events, audit_events>>

\* advanceMission from its UPDATE to COMMIT.
WriteMission(r) ==
  LET req == requests[r] IN
  /\ req \in MissionRequest
  /\ AdvanceMissionRow(req.id, Target(req.op), req.version)
  /\ WriteAudit("drone_mission", req.id)
  /\ requests' = [requests EXCEPT ![r] = Idle]
  /\ UNCHANGED <<now, mission_drones, drone_tasks, device_transfer_events>>

-----------------------------------------------------------------------------
(***************************************************************************)
(* Tasks.                                                                  *)
(***************************************************************************)

\* Only the unit's mission must exist, in whatever status.
CreateDroneTask(t, expires_at) ==
  /\ ~ TaskExists(t)
  /\ ValidateTaskRequest(expires_at, now)
  /\ MissionExists(MissionOf[UnitOf[t]])
  /\ drone_tasks' = [drone_tasks EXCEPT ![t] =
       [status |-> "queued", version |-> 1, expires_at |-> expires_at,
        completed |-> FALSE]]
  /\ WriteAudit("drone_task", t)
  /\ UNCHANGED <<now, drone_missions, mission_drones, device_transfer_events,
                 requests>>

\* moveDroneTask's GetDroneTask.
ReadTask(r, op, t, version) ==
  /\ requests[r] = Idle
  /\ TaskExists(t)
  /\ version \in drone_tasks[t].version .. drone_tasks[t].version + Foresight
  /\ requests' = [requests EXCEPT ![r] =
       [pc |-> "read", op |-> op, id |-> t, version |-> version,
        seen |-> drone_tasks[t].status]]
  /\ UNCHANGED <<now, drone_missions, mission_drones, drone_tasks,
                 device_transfer_events, audit_events>>

\* moveDroneTask's GetMission, for a completion, and its Move.
CheckMove(r) ==
  LET req == requests[r] IN
  /\ req \in TaskRequest
  /\ req.pc = "read"
  /\ req.op = "complete" =>
       CanExecuteAt(drone_missions[MissionOf[UnitOf[req.id]]], now)
  /\ MoveAllowed(req.seen, Target(req.op), drone_tasks[req.id].expires_at, now)
  /\ requests' = [requests EXCEPT ![r] = [@ EXCEPT !.pc = "checked"]]
  /\ UNCHANGED <<now, drone_missions, mission_drones, drone_tasks,
                 device_transfer_events, audit_events>>

\* moveDroneTask from its UPDATE to COMMIT.
WriteMove(r) ==
  LET req == requests[r] IN
  /\ req \in TaskRequest
  /\ req.pc = "checked"
  /\ \/ req.op = "complete" /\ CompleteTaskRow(req.id, req.version)
     \/ req.op = "archive" /\ MoveTaskRow(req.id, "archived", req.version)
  /\ WriteAudit("drone_task", req.id)
  /\ requests' = [requests EXCEPT ![r] = Idle]
  /\ UNCHANGED <<now, drone_missions, device_transfer_events>>

\* The request ends without a commit.
Fail(r) ==
  /\ requests[r] # Idle
  /\ requests' = [requests EXCEPT ![r] = Idle]
  /\ UNCHANGED <<now, drone_missions, mission_drones, drone_tasks,
                 device_transfer_events, audit_events>>

\* Without its audit row.
BadHandoffDroneTask(t, version) ==
  /\ TaskExists(t)
  /\ MoveTaskRow(t, "device_transfer_pending", version)
  /\ RecordHandoff(t)
  /\ UNCHANGED <<now, drone_missions, audit_events, requests>>

\* Neither handler reads the task first: no status, no expiry is looked at.
HandoffDroneTask(t, version) ==
  /\ TaskExists(t)
  /\ MoveTaskRow(t, "device_transfer_pending", version)
  /\ RecordHandoff(t)
  /\ WriteAudit("drone_task", t)
  /\ UNCHANGED <<now, drone_missions, requests>>

AcceptDroneTask(t, version) ==
  /\ TaskExists(t)
  /\ MoveTaskRow(t, "accepted", version)
  /\ RecordHandoff(t)
  /\ WriteAudit("drone_task", t)
  /\ UNCHANGED <<now, drone_missions, requests>>

-----------------------------------------------------------------------------
(***************************************************************************)
(* The expiration worker and the clock.                                    *)
(***************************************************************************)

Expirable(t) ==
  /\ drone_tasks[t].status \in UnfinishedStatus
  /\ drone_tasks[t].expires_at < now

\* SELECT ... ORDER BY expires_at LIMIT ... FOR UPDATE SKIP LOCKED, when other
\* transactions hold the rows in `locked'.
SelectedBatch(S, locked) ==
  LET Free == {t \in Tasks : Expirable(t)} \ locked IN
  /\ S \subseteq Free
  /\ Cardinality(S) <= Limit
  /\ S # Free => Cardinality(S) = Limit
  /\ \A s \in S, t \in Free \ S :
       drone_tasks[s].expires_at <= drone_tasks[t].expires_at

\* The audit row is written under the object type 'task'.
MarkExpiredDroneTasks(locked) ==
  \E S \in SUBSET {t \in Tasks : Expirable(t)} :
    /\ S # {}
    /\ SelectedBatch(S, locked)
    /\ drone_tasks' = [t \in Tasks |->
         IF t \in S
         THEN WithStatus(drone_tasks[t], "rejected")
         ELSE drone_tasks[t]]
    /\ audit_events' = [k \in AuditKeys |->
         IF k[1] = "task" /\ k[2] \in S
         THEN audit_events[k] + 1
         ELSE audit_events[k]]
    /\ UNCHANGED <<now, drone_missions, mission_drones,
                   device_transfer_events, requests>>

Tick ==
  /\ now < MaxTime
  /\ now' = now + 1
  /\ UNCHANGED <<drone_missions, mission_drones, drone_tasks,
                 device_transfer_events, audit_events, requests>>

-----------------------------------------------------------------------------

Next ==
  \/ Tick
  \/ \E m \in Missions, s, e \in Horizon : CreateMission(m, s, e)
  \/ \E t \in Tasks, x \in Horizon : CreateDroneTask(t, x)
  \/ \E t \in Tasks, v \in TaskVersions : HandoffDroneTask(t, v)
  \/ \E t \in Tasks, v \in TaskVersions : AcceptDroneTask(t, v)
  \/ \E locked \in SUBSET {t \in Tasks : Expirable(t)} :
       MarkExpiredDroneTasks(locked)
  \/ \E r \in Requests :
       \/ \E op \in MissionOps, m \in Missions, v \in MissionVersions :
            ReadMission(r, op, m, v)
       \/ \E op \in TaskOps, t \in Tasks, v \in TaskVersions :
            ReadTask(r, op, t, v)
       \/ WriteMission(r)
       \/ CheckMove(r)
       \/ WriteMove(r)
       \/ Fail(r)

\* The periodic worker keeps running, and every row lock is released in the
\* end: a pass that finds no row locked is taken again and again.  Clients owe
\* nothing, and time may stop.
Fairness == WF_vars(MarkExpiredDroneTasks({}))

Spec == Init /\ [][Next]_vars /\ Fairness

-----------------------------------------------------------------------------
(***************************************************************************)
(* Properties.                                                             *)
(***************************************************************************)

\* Tasks of unit u whose completed_at is set.
CompletedTasksOf(u) == {t \in Tasks : UnitOf[t] = u /\ drone_tasks[t].completed}

\* No interleaving of completions fills a unit past required_tasks: the check
\* the completion statement makes is made on the locked unit row.
UnitNeverOverfull == \A u \in Units : mission_drones[u] <= Required[u]

\* A unit's counter never falls behind its completed tasks, whatever versions
\* clients send.
CounterCoversCompletions ==
  \A u \in Units : Cardinality(CompletedTasksOf(u)) <= mission_drones[u]

\* A unit counts each of its completed tasks exactly once, although the status
\* check of moveDroneTask and its update are two statements.
CounterIsExact ==
  \A u \in Units : mission_drones[u] = Cardinality(CompletedTasksOf(u))

\* Only a mission that has been activated has completions, and it stays active
\* or closed from then on: the mission row a completion checks is not locked.
CompletionsFollowActivation ==
  \A u \in Units :
    mission_drones[u] > 0 =>
      drone_missions[MissionOf[u]].status \in {"active", "closed"}

\* Every committed change of a mission or a task left exactly one audit row:
\* the row is in the transaction of the change, also the worker's.
AuditTrailIsComplete ==
  /\ \A m \in Missions :
       audit_events[<<"drone_mission", m>>] = drone_missions[m].version
  /\ \A t \in Tasks :
       audit_events[<<"drone_task", t>>] + audit_events[<<"task", t>>]
         = drone_tasks[t].version

\* A mission's status changes only along the transition table, although the
\* check reads a row it does not lock and the update ignores the status.
MissionFollowsMachine ==
  [][\A m \in Missions :
       drone_missions[m].status \notin {"absent", drone_missions'[m].status} =>
         MissionCanMoveTo(drone_missions[m].status, drone_missions'[m].status)
    ]_vars

\* A task is completed or archived only from a status the table allows, also
\* when handoffs and the worker move it between the check and the update.
CheckedMovesFollowMachine ==
  [][\A t \in Tasks :
       /\ drone_tasks'[t] # drone_tasks[t]
       /\ drone_tasks'[t].status \in {"completed", "archived"}
       => DroneTaskCanMoveTo(drone_tasks[t].status, drone_tasks'[t].status)
    ]_vars

\* What a row that does not exist yet, or was never moved, looks like.
FreshRows ==
  /\ \A m \in Missions :
       drone_missions[m].status = "absent" => drone_missions[m].version = 0
  /\ \A t \in Tasks :
       /\ drone_tasks[t].status = "absent" => drone_tasks[t].version = 0
       /\ drone_tasks[t].status \in {"absent", "queued"} =>
            ~ drone_tasks[t].completed

\* A request whose version still is the row's version has seen the status the
\* row still has: any change in between has made its version stale.  What it
\* checked on the row it read therefore holds of the row it is about to write.
TaskReadsAreCurrent ==
  \A r \in Requests :
    requests[r] \in TaskRequest =>
      LET req == requests[r]
          row == drone_tasks[req.id]
      IN  /\ req.version <= row.version
          /\ req.version = row.version => req.seen = row.status
          /\ req.pc = "checked" => DroneTaskCanMoveTo(req.seen, Target(req.op))
          /\ req.pc = "checked" /\ req.op = "complete" =>
               drone_missions[MissionOf[UnitOf[req.id]]].status
                 \in {"active", "closed"}

MissionReadsAreCurrent ==
  \A r \in Requests :
    requests[r] \in MissionRequest =>
      LET req == requests[r]
          row == drone_missions[req.id]
      IN  /\ req.version <= row.version
          /\ req.version = row.version => req.seen = row.status
          /\ MissionCanMoveTo(req.seen, Target(req.op))

\* Inductive when no client sends a version its row has not reached yet.
HonestInv ==
  /\ TypeOK
  /\ FreshRows
  /\ UnitNeverOverfull
  /\ CounterIsExact
  /\ CompletionsFollowActivation
  /\ TaskReadsAreCurrent
  /\ MissionReadsAreCurrent

\* state_machine.go:69-71 and status.go:43-62: a task's status changes only
\* along the transition table.  A handoff or an acceptance does not look at it.
TaskFollowsMachine ==
  [][\A t \in Tasks :
       drone_tasks[t].status \notin {"absent", drone_tasks'[t].status} =>
         DroneTaskCanMoveTo(drone_tasks[t].status, drone_tasks'[t].status)
    ]_vars

\* service.go's moveDroneTask: "mission is not active for task execution".
\* The mission may be closed between GetMission and the update.
CompletionInActiveMission ==
  [][\A u \in Units :
       mission_drones'[u] # mission_drones[u] =>
         drone_missions[MissionOf[u]].status = "active"
    ]_vars

=============================================================================
