-------------------------- MODULE DroneTasksProofs --------------------------
(***************************************************************************)
(* Proofs about DroneTasks, for every number of missions, units, tasks and *)
(* requests and every bound.                                               *)
(***************************************************************************)
EXTENDS DroneTasksRefinement, MissionProgress, FiniteSetTheorems, TLAPS

-----------------------------------------------------------------------------
(***************************************************************************)
(* Type correctness.                                                       *)
(***************************************************************************)

\* Writing an audit row keeps the audit table well typed.
LEMMA WriteAuditType ==
  ASSUME TypeOK, NEW type, NEW id, <<type, id>> \in AuditKeys,
         WriteAudit(type, id)
  PROVE  audit_events' \in [AuditKeys -> Nat]
  BY DEF TypeOK, WriteAudit

\* The audit keys of missions and of tasks, as WriteAudit and the worker use them.
LEMMA AuditKeysFact ==
  /\ \A m \in Missions : <<"drone_mission", m>> \in AuditKeys
  /\ \A t \in Tasks : <<"drone_task", t>> \in AuditKeys
  /\ \A t \in Tasks : <<"task", t>> \in AuditKeys
  BY DEF AuditKeys

\* A handler's target status belongs to the vocabulary of what it moves.
LEMMA TargetType ==
  /\ \A op \in MissionOps : Target(op) \in MissionStatus
  /\ \A op \in TaskOps : Target(op) \in DroneTaskStatus
  BY DEF Target, MissionOps, TaskOps, MissionStatus, DroneTaskStatus

\* What WithStatus changes in a task row, and what it leaves alone.
LEMMA TaskWithStatus ==
  ASSUME NEW row \in TaskRow, NEW status \in DroneTaskStatus
  PROVE  /\ WithStatus(row, status) \in TaskRow
         /\ WithStatus(row, status).status = status
         /\ WithStatus(row, status).version = row.version + 1
         /\ WithStatus(row, status).expires_at = row.expires_at
         /\ WithStatus(row, status).completed = row.completed
<1>1. row.version + 1 \in Nat
  BY DEF TaskRow
<1>2. WithStatus(row, status) \in TaskRow
  BY <1>1, Zenon DEF WithStatus, TaskRow
<1>3. QED
  BY <1>2 DEF WithStatus, TaskRow

\* The same, for the completion, which also sets completed_at.
LEMMA TaskCompleted ==
  ASSUME NEW row \in TaskRow
  PROVE  /\ AsCompleted(row) \in TaskRow
         /\ AsCompleted(row).status = "completed"
         /\ AsCompleted(row).version = row.version + 1
         /\ AsCompleted(row).expires_at = row.expires_at
         /\ AsCompleted(row).completed
<1>1. "completed" \in DroneTaskStatus
  BY DEF DroneTaskStatus
<1>2. QED
  BY <1>1, TaskWithStatus DEF AsCompleted, TaskRow

\* What WithStatus changes in a mission row, and what it leaves alone.
LEMMA MissionWithStatus ==
  ASSUME NEW row \in MissionRow, NEW status \in MissionStatus
  PROVE  /\ WithStatus(row, status) \in MissionRow
         /\ WithStatus(row, status).status = status
         /\ WithStatus(row, status).version = row.version + 1
<1>1. row.version + 1 \in Nat
  BY DEF MissionRow
<1>2. WithStatus(row, status) \in MissionRow
  BY <1>1, Zenon DEF WithStatus, MissionRow
<1>3. QED
  BY <1>2 DEF WithStatus, MissionRow

\* Each update keeps its table well typed.
LEMMA MoveTaskRowType ==
  ASSUME TypeOK, NEW t \in Tasks, NEW status \in DroneTaskStatus, NEW v,
         MoveTaskRow(t, status, v)
  PROVE  /\ drone_tasks' \in [Tasks -> TaskRow]
         /\ mission_drones' \in [Units -> Nat]
  BY TaskWithStatus DEF MoveTaskRow, TypeOK

\* The same for a completion, which also changes the unit's counter.
LEMMA CompleteTaskRowType ==
  ASSUME TypeOK, NEW t \in Tasks, NEW v, CompleteTaskRow(t, v)
  PROVE  /\ drone_tasks' \in [Tasks -> TaskRow]
         /\ mission_drones' \in [Units -> Nat]
<1>1. drone_tasks' \in [Tasks -> TaskRow]
  BY TaskCompleted DEF CompleteTaskRow, TypeOK
<1>2. mission_drones' \in [Units -> Nat]
  <2>1. UnitOf[t] \in Units /\ mission_drones \in [Units -> Nat]
    BY StructureAssumption DEF TypeOK
  <2>2. mission_drones' = [mission_drones EXCEPT ![UnitOf[t]] = @ + 1]
    BY DEF CompleteTaskRow
  <2>3. QED
    BY <2>1, <2>2
<1>3. QED
  BY <1>1, <1>2

\* The same for the update of a mission.
LEMMA AdvanceMissionRowType ==
  ASSUME TypeOK, NEW m \in Missions, NEW status \in MissionStatus, NEW v,
         AdvanceMissionRow(m, status, v)
  PROVE  drone_missions' \in [Missions -> MissionRow]
  BY MissionWithStatus DEF AdvanceMissionRow, TypeOK

\* The empty database is well typed.
LEMMA InitType == Init => TypeOK
  BY BoundAssumption
  DEF Init, TypeOK, Time, MissionRow, TaskRow, Idle

\* Every step keeps the state well typed, one case per action.
LEMMA TypeStep == TypeOK /\ [Next]_vars => TypeOK'
<1> SUFFICES ASSUME TypeOK, [Next]_vars PROVE TypeOK'
  OBVIOUS
<1> USE BoundAssumption, StructureAssumption
<1>1. CASE Tick
  BY <1>1 DEF Tick, TypeOK, Time
<1>2. ASSUME NEW m \in Missions, NEW s \in Horizon, NEW e \in Horizon,
             CreateMission(m, s, e)
      PROVE  TypeOK'
  <2>1. audit_events' \in [AuditKeys -> Nat]
    BY <1>2, WriteAuditType, AuditKeysFact DEF CreateMission
  <2>2. drone_missions' \in [Missions -> MissionRow]
    BY <1>2 DEF CreateMission, TypeOK, MissionRow, MissionStatus, Horizon
  <2>3. QED
    BY <1>2, <2>1, <2>2 DEF CreateMission, TypeOK
<1>3. ASSUME NEW t \in Tasks, NEW x \in Horizon, CreateDroneTask(t, x)
      PROVE  TypeOK'
  <2>1. audit_events' \in [AuditKeys -> Nat]
    BY <1>3, WriteAuditType, AuditKeysFact DEF CreateDroneTask
  <2>2. drone_tasks' \in [Tasks -> TaskRow]
    BY <1>3 DEF CreateDroneTask, TypeOK, TaskRow, DroneTaskStatus, Horizon
  <2>3. QED
    BY <1>3, <2>1, <2>2 DEF CreateDroneTask, TypeOK
<1>4. ASSUME NEW t \in Tasks, NEW v \in TaskVersions,
             HandoffDroneTask(t, v) \/ AcceptDroneTask(t, v)
      PROVE  TypeOK'
  <2>1. audit_events' \in [AuditKeys -> Nat]
    BY <1>4, WriteAuditType, AuditKeysFact
    DEF HandoffDroneTask, AcceptDroneTask
  <2>2. drone_tasks' \in [Tasks -> TaskRow]
    BY <1>4, MoveTaskRowType
    DEF HandoffDroneTask, AcceptDroneTask, DroneTaskStatus
  <2>3. device_transfer_events' \in [Tasks -> Nat]
    BY <1>4 DEF HandoffDroneTask, AcceptDroneTask, RecordHandoff, TypeOK
  <2>4. QED
    BY <1>4, <2>1, <2>2, <2>3
    DEF HandoffDroneTask, AcceptDroneTask, MoveTaskRow, TypeOK
<1>5. ASSUME NEW locked \in SUBSET Tasks, MarkExpiredDroneTasks(locked)
      PROVE  TypeOK'
  <2>1. PICK S \in SUBSET Tasks :
          /\ drone_tasks' = [t \in Tasks |->
               IF t \in S
               THEN WithStatus(drone_tasks[t], "rejected")
               ELSE drone_tasks[t]]
          /\ audit_events' = [k \in AuditKeys |->
               IF k[1] = "task" /\ k[2] \in S
               THEN audit_events[k] + 1
               ELSE audit_events[k]]
    BY <1>5 DEF MarkExpiredDroneTasks
  <2>2. drone_tasks' \in [Tasks -> TaskRow]
    <3>1. \A t \in Tasks : drone_tasks[t] \in TaskRow
      BY DEF TypeOK
    <3>2. "rejected" \in DroneTaskStatus
      BY DEF DroneTaskStatus
    <3>3. \A t \in Tasks : WithStatus(drone_tasks[t], "rejected") \in TaskRow
      BY <3>1, <3>2, TaskWithStatus
    <3>4. QED
      BY <2>1, <3>1, <3>3
  <2>3. audit_events' \in [AuditKeys -> Nat]
    BY <2>1 DEF TypeOK
  <2>4. QED
    BY <1>5, <2>2, <2>3 DEF MarkExpiredDroneTasks, TypeOK
<1>6. ASSUME NEW r \in Requests, NEW op \in MissionOps, NEW m \in Missions,
             NEW v \in MissionVersions, ReadMission(r, op, m, v)
      PROVE  TypeOK'
  <2>1. drone_missions[m].status \in MissionStatus /\ v \in Nat
    BY <1>6
    DEF ReadMission, MissionExists, TypeOK, MissionRow, MissionVersions
  <2>2. [pc |-> "checked", op |-> op, id |-> m, version |-> v,
         seen |-> drone_missions[m].status] \in MissionRequest
    BY <2>1 DEF MissionRequest
  <2>3. QED
    BY <1>6, <2>2 DEF ReadMission, TypeOK
<1>7. ASSUME NEW r \in Requests, NEW op \in TaskOps, NEW t \in Tasks,
             NEW v \in TaskVersions, ReadTask(r, op, t, v)
      PROVE  TypeOK'
  <2>1. drone_tasks[t].status \in DroneTaskStatus /\ v \in Nat
    BY <1>7 DEF ReadTask, TaskExists, TypeOK, TaskRow, TaskVersions
  <2>2. [pc |-> "read", op |-> op, id |-> t, version |-> v,
         seen |-> drone_tasks[t].status] \in TaskRequest
    BY <2>1 DEF TaskRequest
  <2>3. QED
    BY <1>7, <2>2 DEF ReadTask, TypeOK
<1>8. ASSUME NEW r \in Requests, WriteMission(r)
      PROVE  TypeOK'
  <2> DEFINE req == requests[r]
  <2>1. req.id \in Missions /\ Target(req.op) \in MissionStatus
    BY <1>8, TargetType DEF WriteMission, MissionRequest
  <2>2. audit_events' \in [AuditKeys -> Nat]
    BY <1>8, <2>1, WriteAuditType, AuditKeysFact DEF WriteMission
  <2>3. drone_missions' \in [Missions -> MissionRow]
    BY <1>8, <2>1, AdvanceMissionRowType DEF WriteMission
  <2>4. QED
    BY <1>8, <2>2, <2>3 DEF WriteMission, TypeOK
<1>9. ASSUME NEW r \in Requests, CheckMove(r)
      PROVE  TypeOK'
  <2>1. [requests[r] EXCEPT !.pc = "checked"] \in TaskRequest
    BY <1>9 DEF CheckMove, TaskRequest
  <2>2. QED
    BY <1>9, <2>1 DEF CheckMove, TypeOK
<1>10. ASSUME NEW r \in Requests, WriteMove(r)
       PROVE  TypeOK'
  <2> DEFINE req == requests[r]
  <2>1. req.id \in Tasks
    BY <1>10 DEF WriteMove, TaskRequest
  <2>2. audit_events' \in [AuditKeys -> Nat]
    BY <1>10, <2>1, WriteAuditType, AuditKeysFact DEF WriteMove
  <2>3. /\ drone_tasks' \in [Tasks -> TaskRow]
        /\ mission_drones' \in [Units -> Nat]
    BY <1>10, <2>1, MoveTaskRowType, CompleteTaskRowType
    DEF WriteMove, DroneTaskStatus
  <2>4. QED
    BY <1>10, <2>2, <2>3 DEF WriteMove, TypeOK
<1>11. ASSUME NEW r \in Requests, Fail(r)
       PROVE  TypeOK'
  BY <1>11 DEF Fail, TypeOK
<1>12. CASE UNCHANGED vars
  BY <1>12 DEF vars, TypeOK
<1>13. QED
  BY <1>1, <1>2, <1>3, <1>4, <1>5, <1>6, <1>7, <1>8, <1>9, <1>10, <1>11, <1>12
  DEF Next

\* Every reachable state is well typed: every column keeps its domain and every
\* request in progress holds a row that it read.
THEOREM TypeCorrect == Spec => []TypeOK
<1>1. QED
  BY InitType, TypeStep, PTL DEF Spec

-----------------------------------------------------------------------------
(***************************************************************************)
(* What one step does to the tables, when no client runs ahead of a row.   *)
(***************************************************************************)

TaskCreated(t) ==
  /\ drone_tasks[t].status = "absent"
  /\ drone_tasks'[t].status = "queued"
  /\ drone_tasks'[t].version = 1
  /\ drone_tasks'[t].completed = FALSE

\* Moved by a statement that leaves the unit's counter alone.
TaskMoved(t) ==
  /\ drone_tasks[t].status # "absent"
  /\ drone_tasks'[t].status \in DroneTaskStatus \ {"queued", "completed"}
  /\ drone_tasks'[t].version = drone_tasks[t].version + 1
  /\ drone_tasks'[t].completed = drone_tasks[t].completed
  /\ drone_tasks'[t].status = "archived" =>
       DroneTaskCanMoveTo(drone_tasks[t].status, "archived")

\* Completed together with its unit's counter.
TaskCompletion(t) ==
  /\ drone_tasks[t].status = "queued"
  /\ drone_tasks'[t].status = "completed"
  /\ drone_tasks'[t].version = drone_tasks[t].version + 1
  /\ drone_tasks'[t].completed = TRUE
  /\ \A x \in Tasks \ {t} : drone_tasks'[x] = drone_tasks[x]
  /\ mission_drones[UnitOf[t]] < Required[UnitOf[t]]
  /\ mission_drones' = [mission_drones EXCEPT ![UnitOf[t]] = @ + 1]
  /\ drone_missions' = drone_missions
  /\ drone_missions[MissionOf[UnitOf[t]]].status \in {"active", "closed"}

TaskEffect ==
  \/ /\ mission_drones' = mission_drones
     /\ \A t \in Tasks :
          drone_tasks'[t] = drone_tasks[t] \/ TaskCreated(t) \/ TaskMoved(t)
  \/ \E t \in Tasks : TaskCompletion(t)

MissionEffect ==
  \A m \in Missions :
    \/ drone_missions'[m] = drone_missions[m]
    \/ /\ drone_missions[m].status = "absent"
       /\ drone_missions'[m].status = "draft"
       /\ drone_missions'[m].version = 1
    \/ /\ drone_missions[m].status # "absent"
       /\ MissionCanMoveTo(drone_missions[m].status, drone_missions'[m].status)
       /\ drone_missions'[m].version = drone_missions[m].version + 1

\* A completion or an archival by a current version has the effect TaskEffect names.
LEMMA WriteMoveEffect ==
  ASSUME HonestInv, NEW r \in Requests, WriteMove(r)
  PROVE  TaskEffect /\ MissionEffect
<1> DEFINE req == requests[r]
           t == req.id
<1>1. /\ req \in TaskRequest
      /\ req.pc = "checked"
      /\ t \in Tasks
      /\ drone_missions' = drone_missions
  BY DEF WriteMove, TaskRequest
<1>2. /\ req.version = drone_tasks[t].version => req.seen = drone_tasks[t].status
      /\ DroneTaskCanMoveTo(req.seen, Target(req.op))
      /\ req.op = "complete" =>
           drone_missions[MissionOf[UnitOf[t]]].status \in {"active", "closed"}
  BY <1>1 DEF HonestInv, TaskReadsAreCurrent
<1>3. drone_tasks[t] \in TaskRow /\ DOMAIN drone_tasks = Tasks
  BY <1>1 DEF HonestInv, TypeOK
<1>4. CASE req.op = "complete"
  <2>1. CompleteTaskRow(t, req.version)
    BY <1>4 DEF WriteMove
  <2>2. drone_tasks[t].status = "queued"
    BY <1>2, <1>4, <2>1
    DEF CompleteTaskRow, DroneTaskCanMoveTo, DroneTaskMoves, Target
  <2>3. /\ drone_tasks'[t] = AsCompleted(drone_tasks[t])
        /\ \A x \in Tasks \ {t} : drone_tasks'[x] = drone_tasks[x]
    BY <1>1, <1>3, <2>1 DEF CompleteTaskRow
  <2>4. TaskCompletion(t)
    BY <1>1, <1>2, <1>3, <1>4, <2>1, <2>2, <2>3, TaskCompleted
    DEF TaskCompletion, CompleteTaskRow
  <2>5. QED
    BY <1>1, <2>4 DEF TaskEffect, MissionEffect
<1>5. CASE req.op = "archive"
  <2>1. MoveTaskRow(t, "archived", req.version)
    BY <1>5 DEF WriteMove
  <2>2. /\ DroneTaskCanMoveTo(drone_tasks[t].status, "archived")
        /\ drone_tasks[t].status # "absent"
    BY <1>2, <1>5, <2>1
    DEF MoveTaskRow, DroneTaskCanMoveTo, DroneTaskMoves, Target
  <2>3. /\ drone_tasks'[t] = WithStatus(drone_tasks[t], "archived")
        /\ \A x \in Tasks \ {t} : drone_tasks'[x] = drone_tasks[x]
    BY <1>1, <1>3, <2>1 DEF MoveTaskRow
  <2>4. TaskMoved(t)
    BY <1>3, <2>2, <2>3, TaskWithStatus DEF TaskMoved, DroneTaskStatus
  <2>5. QED
    BY <1>1, <2>1, <2>3, <2>4 DEF TaskEffect, MissionEffect, MoveTaskRow
<1>6. QED
  BY <1>1, <1>4, <1>5 DEF TaskRequest, TaskOps

\* A mission's update by a current version has the effect MissionEffect names.
LEMMA WriteMissionEffect ==
  ASSUME HonestInv, NEW r \in Requests, WriteMission(r)
  PROVE  TaskEffect /\ MissionEffect
<1> DEFINE req == requests[r]
           m == req.id
<1>1. /\ req \in MissionRequest
      /\ m \in Missions
      /\ AdvanceMissionRow(m, Target(req.op), req.version)
      /\ UNCHANGED <<drone_tasks, mission_drones>>
  BY DEF WriteMission, MissionRequest
<1>2. /\ drone_missions[m].status = req.seen
      /\ MissionCanMoveTo(req.seen, Target(req.op))
  BY <1>1 DEF HonestInv, MissionReadsAreCurrent, AdvanceMissionRow
<1>3. Target(req.op) \in MissionStatus /\ req.seen # "absent"
  BY <1>1, TargetType DEF MissionRequest, MissionStatus
<1>4. drone_missions[m] \in MissionRow /\ DOMAIN drone_missions = Missions
  BY <1>1 DEF HonestInv, TypeOK
<1>5. /\ drone_missions'[m] = WithStatus(drone_missions[m], Target(req.op))
      /\ \A x \in Missions \ {m} : drone_missions'[x] = drone_missions[x]
  BY <1>1, <1>4 DEF AdvanceMissionRow
<1>6. /\ drone_missions'[m].status = Target(req.op)
      /\ drone_missions'[m].version = drone_missions[m].version + 1
  BY <1>3, <1>4, <1>5, MissionWithStatus
<1>7. MissionEffect
  BY <1>2, <1>3, <1>5, <1>6 DEF MissionEffect
<1>8. QED
  BY <1>1, <1>7 DEF TaskEffect

\* The expiration worker only rejects tasks, and never one that is finished.
LEMMA ExpireEffect ==
  ASSUME TypeOK, NEW locked, MarkExpiredDroneTasks(locked)
  PROVE  TaskEffect /\ MissionEffect
<1>1. PICK S \in SUBSET Tasks :
        /\ SelectedBatch(S, locked)
        /\ drone_tasks' = [t \in Tasks |->
             IF t \in S
             THEN WithStatus(drone_tasks[t], "rejected")
             ELSE drone_tasks[t]]
        /\ UNCHANGED <<drone_missions, mission_drones>>
  BY DEF MarkExpiredDroneTasks
<1>2. ASSUME NEW t \in S
      PROVE  TaskMoved(t)
  <2>1. drone_tasks[t] \in TaskRow /\ "rejected" \in DroneTaskStatus
    BY DEF TypeOK, DroneTaskStatus
  <2>2. drone_tasks[t].status # "absent"
    BY <1>1 DEF SelectedBatch, Expirable, UnfinishedStatus
  <2>3. drone_tasks'[t] = WithStatus(drone_tasks[t], "rejected")
    BY <1>1
  <2>4. QED
    BY <2>1, <2>2, <2>3, TaskWithStatus DEF TaskMoved
<1>3. \A t \in Tasks \ S : drone_tasks'[t] = drone_tasks[t]
  BY <1>1
<1>4. QED
  BY <1>1, <1>2, <1>3 DEF TaskEffect, MissionEffect

\* A handoff or an acceptance leaves completions and counters as they are.
LEMMA TransferEffect ==
  ASSUME TypeOK, NEW t \in Tasks, NEW v,
         HandoffDroneTask(t, v) \/ AcceptDroneTask(t, v)
  PROVE  TaskEffect /\ MissionEffect
<1>1. PICK status \in {"device_transfer_pending", "accepted"} :
        MoveTaskRow(t, status, v)
  BY DEF HandoffDroneTask, AcceptDroneTask
<1>2. /\ drone_tasks[t].status # "absent"
      /\ drone_missions' = drone_missions
  BY DEF HandoffDroneTask, AcceptDroneTask, TaskExists
<1>3. drone_tasks[t] \in TaskRow /\ DOMAIN drone_tasks = Tasks
  BY DEF TypeOK
<1>4. /\ drone_tasks'[t] = WithStatus(drone_tasks[t], status)
      /\ \A x \in Tasks \ {t} : drone_tasks'[x] = drone_tasks[x]
      /\ mission_drones' = mission_drones
  BY <1>1, <1>3 DEF MoveTaskRow
<1>5. TaskMoved(t)
  BY <1>1, <1>2, <1>3, <1>4, TaskWithStatus DEF TaskMoved, DroneTaskStatus
<1>6. QED
  BY <1>2, <1>4, <1>5 DEF TaskEffect, MissionEffect

\* Every step changes missions along the table, and tasks as TaskEffect says.
LEMMA StepEffect == HonestInv /\ [Next]_vars => TaskEffect /\ MissionEffect
<1> SUFFICES ASSUME HonestInv, [Next]_vars
             PROVE  TaskEffect /\ MissionEffect
  OBVIOUS
<1>1. TypeOK
  BY DEF HonestInv
<1>2. ASSUME UNCHANGED <<drone_missions, mission_drones, drone_tasks>>
      PROVE  TaskEffect /\ MissionEffect
  BY <1>2 DEF TaskEffect, MissionEffect
<1>3. ASSUME NEW m \in Missions, NEW s \in Horizon, NEW e \in Horizon,
             CreateMission(m, s, e)
      PROVE  TaskEffect /\ MissionEffect
  BY <1>1, <1>3
  DEF CreateMission, MissionExists, TaskEffect, MissionEffect, TypeOK
<1>4. ASSUME NEW t \in Tasks, NEW x \in Horizon, CreateDroneTask(t, x)
      PROVE  TaskEffect /\ MissionEffect
  BY <1>1, <1>4
  DEF CreateDroneTask, TaskExists, TaskEffect, TaskCreated, MissionEffect,
      TypeOK
<1>5. QED
  BY <1>1, <1>2, <1>3, <1>4, WriteMoveEffect, WriteMissionEffect,
     ExpireEffect, TransferEffect
  DEF Next, vars, Tick, ReadMission, ReadTask, CheckMove, Fail

-----------------------------------------------------------------------------
(***************************************************************************)
(* The inductive invariant of honest clients.                              *)
(***************************************************************************)

\* HonestInv holds of the empty database.
LEMMA InitHonest == Init => HonestInv
<1> SUFFICES ASSUME Init PROVE HonestInv
  OBVIOUS
<1>1. TypeOK
  BY InitType
<1>2. \A u \in Units : CompletedTasksOf(u) = {}
  BY DEF Init, CompletedTasksOf
<1>3. CounterIsExact
  BY <1>2, FS_EmptySet DEF Init, CounterIsExact
<1>4. UnitNeverOverfull /\ CompletionsFollowActivation
  BY StructureAssumption
  DEF Init, UnitNeverOverfull, CompletionsFollowActivation
<1>5. FreshRows
  BY DEF Init, FreshRows
<1>6. TaskReadsAreCurrent /\ MissionReadsAreCurrent
  BY DEF Init, TaskReadsAreCurrent, MissionReadsAreCurrent, Idle, TaskRequest,
         MissionRequest
<1>7. QED
  BY <1>1, <1>3, <1>4, <1>5, <1>6 DEF HonestInv

\* A row gets its first version with its first status, and completed_at later.
LEMMA FreshRowsStep ==
  ASSUME HonestInv, TaskEffect, MissionEffect
  PROVE  FreshRows'
<1>1. \A m \in Missions :
        drone_missions'[m].status = "absent" => drone_missions'[m].version = 0
  BY DEF HonestInv, FreshRows, MissionEffect, MissionCanMoveTo, MissionMoves
<1>2. ASSUME NEW t \in Tasks
      PROVE  /\ drone_tasks'[t].status = "absent" => drone_tasks'[t].version = 0
             /\ drone_tasks'[t].status \in {"absent", "queued"} =>
                  ~ drone_tasks'[t].completed
  <2>1. \/ drone_tasks'[t] = drone_tasks[t]
        \/ TaskCreated(t) \/ TaskMoved(t) \/ TaskCompletion(t)
    BY DEF TaskEffect, TaskCompletion
  <2>2. CASE drone_tasks'[t] = drone_tasks[t]
    BY <2>2 DEF HonestInv, FreshRows
  <2>3. QED
    BY <2>1, <2>2
    DEF TaskCreated, TaskMoved, TaskCompletion, DroneTaskStatus
<1>3. QED
  BY <1>1, <1>2 DEF FreshRows

\* A step leaves a unit's completed tasks and its counter alone, or completes
\* one more task and counts it.
LEMMA CompletedTasksStep ==
  ASSUME HonestInv, TaskEffect, NEW u \in Units
  PROVE  \/ /\ CompletedTasksOf(u)' = CompletedTasksOf(u)
            /\ mission_drones'[u] = mission_drones[u]
         \/ /\ \E t \in Tasks \ CompletedTasksOf(u) :
                 CompletedTasksOf(u)' = CompletedTasksOf(u) \union {t}
            /\ mission_drones'[u] = mission_drones[u] + 1
            /\ mission_drones[u] < Required[u]
            /\ drone_missions[MissionOf[u]].status \in {"active", "closed"}
<1>1. CASE /\ mission_drones' = mission_drones
           /\ \A t \in Tasks :
                drone_tasks'[t] = drone_tasks[t] \/ TaskCreated(t) \/ TaskMoved(t)
  <2>1. \A t \in Tasks :
          drone_tasks[t].status = "absent" => drone_tasks[t].completed = FALSE
    <3>1. \A t \in Tasks : drone_tasks[t].completed \in BOOLEAN
      BY DEF HonestInv, TypeOK, TaskRow
    <3>2. QED
      BY <3>1 DEF HonestInv, FreshRows
  <2>2. \A t \in Tasks : drone_tasks'[t].completed = drone_tasks[t].completed
    BY <1>1, <2>1 DEF TaskCreated, TaskMoved
  <2>3. QED
    BY <1>1, <2>2 DEF CompletedTasksOf
<1>2. ASSUME NEW t \in Tasks, TaskCompletion(t), UnitOf[t] # u
      PROVE  /\ CompletedTasksOf(u)' = CompletedTasksOf(u)
             /\ mission_drones'[u] = mission_drones[u]
  <2>1. \A x \in Tasks : UnitOf[x] = u => drone_tasks'[x] = drone_tasks[x]
    BY <1>2 DEF TaskCompletion
  <2>2. CompletedTasksOf(u)' = CompletedTasksOf(u)
    BY <2>1 DEF CompletedTasksOf
  <2>3. QED
    BY <1>2, <2>2, StructureAssumption DEF TaskCompletion, HonestInv, TypeOK
<1>3. ASSUME NEW t \in Tasks, TaskCompletion(t), UnitOf[t] = u
      PROVE  /\ t \notin CompletedTasksOf(u)
             /\ CompletedTasksOf(u)' = CompletedTasksOf(u) \union {t}
             /\ mission_drones'[u] = mission_drones[u] + 1
             /\ mission_drones[u] < Required[u]
             /\ drone_missions[MissionOf[u]].status \in {"active", "closed"}
  <2>1. ~ drone_tasks[t].completed
    BY <1>3 DEF TaskCompletion, HonestInv, FreshRows
  <2>2. /\ drone_tasks'[t].completed
        /\ \A x \in Tasks \ {t} : drone_tasks'[x] = drone_tasks[x]
    BY <1>3 DEF TaskCompletion
  <2>3. CompletedTasksOf(u)' = CompletedTasksOf(u) \union {t}
    BY <1>3, <2>2 DEF CompletedTasksOf
  <2>4. /\ mission_drones'[u] = mission_drones[u] + 1
        /\ mission_drones[u] < Required[u]
        /\ drone_missions[MissionOf[u]].status \in {"active", "closed"}
    BY <1>3 DEF TaskCompletion, HonestInv, TypeOK
  <2>5. QED
    BY <2>1, <2>3, <2>4 DEF CompletedTasksOf
<1>4. QED
  BY <1>1, <1>2, <1>3 DEF TaskEffect

\* The counters stay exact and within their units' requirements.
LEMMA CountersStep ==
  ASSUME HonestInv, TaskEffect
  PROVE  UnitNeverOverfull' /\ CounterIsExact'
<1>1. ASSUME NEW u \in Units
      PROVE  /\ mission_drones'[u] <= Required[u]
             /\ mission_drones'[u] = Cardinality(CompletedTasksOf(u)')
  <2>1. /\ mission_drones[u] \in Nat
        /\ mission_drones[u] <= Required[u]
        /\ mission_drones[u] = Cardinality(CompletedTasksOf(u))
        /\ Required[u] \in Nat
    BY StructureAssumption
    DEF HonestInv, TypeOK, UnitNeverOverfull, CounterIsExact
  <2>2. IsFiniteSet(CompletedTasksOf(u))
    BY FiniteAssumption, FS_Subset DEF CompletedTasksOf
  <2>3. \A t : t \notin CompletedTasksOf(u) =>
          Cardinality(CompletedTasksOf(u) \union {t})
            = Cardinality(CompletedTasksOf(u)) + 1
    BY <2>2, FS_AddElement
  <2>4. QED
    BY <2>1, <2>3, CompletedTasksStep
<1>2. QED
  BY <1>1 DEF UnitNeverOverfull, CounterIsExact

\* A counted completion keeps its mission active or closed.
LEMMA ActivationStep ==
  ASSUME HonestInv, TaskEffect, MissionEffect
  PROVE  CompletionsFollowActivation'
<1>1. ASSUME NEW m \in Missions,
             drone_missions[m].status \in {"active", "closed"}
      PROVE  drone_missions'[m].status \in {"active", "closed"}
  BY <1>1 DEF MissionEffect, MissionCanMoveTo, MissionMoves
<1>2. ASSUME NEW u \in Units, mission_drones'[u] > 0
      PROVE  drone_missions'[MissionOf[u]].status \in {"active", "closed"}
  <2>1. \/ mission_drones'[u] = mission_drones[u]
        \/ drone_missions[MissionOf[u]].status \in {"active", "closed"}
    BY CompletedTasksStep
  <2>2. drone_missions[MissionOf[u]].status \in {"active", "closed"}
    BY <1>2, <2>1 DEF HonestInv, CompletionsFollowActivation
  <2>3. MissionOf[u] \in Missions
    BY StructureAssumption
  <2>4. QED
    BY <1>1, <2>2, <2>3
<1>3. QED
  BY <1>2 DEF CompletionsFollowActivation

\* A step leaves a row alone or gives it a version no earlier request holds.
LEMMA VersionsGrow ==
  ASSUME HonestInv, TaskEffect, MissionEffect
  PROVE  /\ \A t \in Tasks :
              /\ drone_tasks[t].version \in Nat
              /\ \/ drone_tasks'[t] = drone_tasks[t]
                 \/ drone_tasks'[t].version > drone_tasks[t].version
         /\ \A m \in Missions :
              /\ drone_missions[m].version \in Nat
              /\ \/ drone_missions'[m] = drone_missions[m]
                 \/ drone_missions'[m].version > drone_missions[m].version
<1>1. ASSUME NEW t \in Tasks
      PROVE  /\ drone_tasks[t].version \in Nat
             /\ \/ drone_tasks'[t] = drone_tasks[t]
                \/ drone_tasks'[t].version > drone_tasks[t].version
  <2>1. \/ drone_tasks'[t] = drone_tasks[t]
        \/ TaskCreated(t) \/ TaskMoved(t) \/ TaskCompletion(t)
    BY DEF TaskEffect, TaskCompletion
  <2>2. /\ drone_tasks[t].version \in Nat
        /\ drone_tasks[t].status = "absent" => drone_tasks[t].version = 0
    BY DEF HonestInv, TypeOK, TaskRow, FreshRows
  <2>3. QED
    BY <2>1, <2>2 DEF TaskCreated, TaskMoved, TaskCompletion
<1>2. ASSUME NEW m \in Missions
      PROVE  /\ drone_missions[m].version \in Nat
             /\ \/ drone_missions'[m] = drone_missions[m]
                \/ drone_missions'[m].version > drone_missions[m].version
  <2>1. /\ drone_missions[m].version \in Nat
        /\ drone_missions[m].status = "absent" => drone_missions[m].version = 0
    BY DEF HonestInv, TypeOK, MissionRow, FreshRows
  <2>2. QED
    BY <2>1 DEF MissionEffect
<1>3. QED
  BY <1>1, <1>2

\* What a step may leave in slot r: a row just read, or a read just checked.
TaskJustRead(r) ==
  LET req == requests'[r] IN
  /\ req \in TaskRequest
  /\ req.pc = "read"
  /\ req.version = drone_tasks[req.id].version
  /\ req.seen = drone_tasks[req.id].status

TaskJustChecked(r) ==
  LET req == requests[r] IN
  /\ req \in TaskRequest
  /\ requests'[r] = [req EXCEPT !.pc = "checked"]
  /\ DroneTaskCanMoveTo(req.seen, Target(req.op))
  /\ req.op = "complete" =>
       drone_missions[MissionOf[UnitOf[req.id]]].status = "active"

MissionJustRead(r) ==
  LET req == requests'[r] IN
  /\ req \in MissionRequest
  /\ req.version = drone_missions[req.id].version
  /\ req.seen = drone_missions[req.id].status
  /\ MissionCanMoveTo(req.seen, Target(req.op))

RequestKept(r) == requests'[r] = requests[r] \/ requests'[r] = Idle

\* A step either keeps or ends every request, or it only reads: then it leaves
\* the tables alone and gives some slot a current row.
LEMMA RequestsStep ==
  ASSUME Foresight = 0, TypeOK, [Next]_vars
  PROVE  \A r \in Requests :
           \/ RequestKept(r)
           \/ /\ UNCHANGED <<drone_tasks, drone_missions>>
              /\ TaskJustRead(r) \/ TaskJustChecked(r) \/ MissionJustRead(r)
<1> DEFINE Goal == \A r \in Requests :
             \/ RequestKept(r)
             \/ /\ UNCHANGED <<drone_tasks, drone_missions>>
                /\ TaskJustRead(r) \/ TaskJustChecked(r) \/ MissionJustRead(r)
<1>1. DOMAIN requests = Requests
  BY DEF TypeOK
<1>2. ASSUME UNCHANGED requests
      PROVE  Goal
  BY <1>2 DEF RequestKept
<1>3. ASSUME NEW r \in Requests, requests' = [requests EXCEPT ![r] = Idle]
      PROVE  Goal
  BY <1>1, <1>3 DEF RequestKept
<1>4. ASSUME NEW r \in Requests, NEW op \in MissionOps, NEW m \in Missions,
             NEW v \in MissionVersions, ReadMission(r, op, m, v)
      PROVE  Goal
  <2>1. /\ drone_missions[m].status \in MissionStatus
        /\ drone_missions[m].version \in Nat
    BY <1>4 DEF ReadMission, MissionExists, TypeOK, MissionRow
  <2>2. v = drone_missions[m].version
    BY <1>4, <2>1 DEF ReadMission
  <2> DEFINE req == [pc |-> "checked", op |-> op, id |-> m, version |-> v,
                     seen |-> drone_missions[m].status]
  <2>3. req \in MissionRequest
    BY <2>1, <2>2 DEF MissionRequest
  <2>4. /\ requests'[r] = req
        /\ \A x \in Requests \ {r} : requests'[x] = requests[x]
    BY <1>1, <1>4 DEF ReadMission
  <2>5. MissionJustRead(r)
    BY <1>4, <2>2, <2>3, <2>4 DEF MissionJustRead, ReadMission
  <2>6. QED
    BY <1>4, <2>4, <2>5 DEF RequestKept, ReadMission
<1>5. ASSUME NEW r \in Requests, NEW op \in TaskOps, NEW t \in Tasks,
             NEW v \in TaskVersions, ReadTask(r, op, t, v)
      PROVE  Goal
  <2>1. /\ drone_tasks[t].status \in DroneTaskStatus
        /\ drone_tasks[t].version \in Nat
    BY <1>5 DEF ReadTask, TaskExists, TypeOK, TaskRow
  <2>2. v = drone_tasks[t].version
    BY <1>5, <2>1 DEF ReadTask
  <2> DEFINE req == [pc |-> "read", op |-> op, id |-> t, version |-> v,
                     seen |-> drone_tasks[t].status]
  <2>3. req \in TaskRequest
    BY <2>1, <2>2 DEF TaskRequest
  <2>4. /\ requests'[r] = req
        /\ \A x \in Requests \ {r} : requests'[x] = requests[x]
    BY <1>1, <1>5 DEF ReadTask
  <2>5. TaskJustRead(r)
    BY <2>2, <2>3, <2>4 DEF TaskJustRead
  <2>6. QED
    BY <1>5, <2>4, <2>5 DEF RequestKept, ReadTask
<1>6. ASSUME NEW r \in Requests, CheckMove(r)
      PROVE  Goal
  <2>1. /\ requests'[r] = [requests[r] EXCEPT !.pc = "checked"]
        /\ \A x \in Requests \ {r} : requests'[x] = requests[x]
    BY <1>1, <1>6 DEF CheckMove
  <2>2. TaskJustChecked(r)
    BY <1>6, <2>1 DEF TaskJustChecked, CheckMove, MoveAllowed, CanExecuteAt
  <2>3. QED
    BY <1>6, <2>1, <2>2 DEF RequestKept, CheckMove
<1>7. QED
  BY <1>2, <1>3, <1>4, <1>5, <1>6
  DEF Next, vars, Tick, CreateMission, CreateDroneTask, HandoffDroneTask,
      AcceptDroneTask, MarkExpiredDroneTasks, WriteMission, WriteMove, Fail

\* A task request stays as good as its version: its row has not changed, or it
\* has a version the request does not hold.
LEMMA TaskReadsStep ==
  ASSUME Foresight = 0, HonestInv, [Next]_vars
  PROVE  TaskReadsAreCurrent'
<1>1. TypeOK /\ TypeOK' /\ TaskEffect /\ MissionEffect
  BY StepEffect, TypeStep DEF HonestInv
<1>2. ASSUME NEW r \in Requests, requests'[r] \in TaskRequest
      PROVE  LET req == requests'[r]
                 row == drone_tasks'[req.id]
             IN  /\ req.version <= row.version
                 /\ req.version = row.version => req.seen = row.status
                 /\ req.pc = "checked" =>
                      DroneTaskCanMoveTo(req.seen, Target(req.op))
                 /\ req.pc = "checked" /\ req.op = "complete" =>
                      drone_missions'[MissionOf[UnitOf[req.id]]].status
                        \in {"active", "closed"}
  <2> DEFINE req == requests'[r]
             t == req.id
             m == MissionOf[UnitOf[t]]
  <2>1. /\ t \in Tasks /\ m \in Missions /\ req.version \in Nat
        /\ drone_tasks[t].version \in Nat
    BY <1>1, <1>2, StructureAssumption DEF TaskRequest, TypeOK, TaskRow
  <2>2. CASE requests'[r] = requests[r]
    <3>1. /\ req.version <= drone_tasks[t].version
          /\ req.version = drone_tasks[t].version =>
               req.seen = drone_tasks[t].status
          /\ req.pc = "checked" => DroneTaskCanMoveTo(req.seen, Target(req.op))
          /\ req.pc = "checked" /\ req.op = "complete" =>
               drone_missions[m].status \in {"active", "closed"}
      BY <1>2, <2>2 DEF HonestInv, TaskReadsAreCurrent
    <3>2. \/ drone_tasks'[t] = drone_tasks[t]
          \/ drone_tasks'[t].version > drone_tasks[t].version
      BY <1>1, <2>1, VersionsGrow
    <3>3. drone_tasks'[t].version \in Nat
      BY <1>1, <2>1 DEF TypeOK, TaskRow
    <3>4. drone_missions[m].status \in {"active", "closed"} =>
            drone_missions'[m].status \in {"active", "closed"}
      BY <1>1, <2>1 DEF MissionEffect, MissionCanMoveTo, MissionMoves
    <3>5. /\ req.version <= drone_tasks'[t].version
          /\ req.version = drone_tasks'[t].version =>
               req.seen = drone_tasks'[t].status
      BY <2>1, <3>1, <3>2, <3>3
    <3>6. QED
      BY <3>1, <3>4, <3>5
  <2>3. CASE UNCHANGED <<drone_tasks, drone_missions>> /\ TaskJustRead(r)
    BY <2>1, <2>3 DEF TaskJustRead
  <2>4. CASE UNCHANGED <<drone_tasks, drone_missions>> /\ TaskJustChecked(r)
    <3>1. /\ requests[r].id = t
          /\ requests[r].op = req.op
          /\ requests[r].version = req.version
          /\ requests[r].seen = req.seen
      BY <2>4 DEF TaskJustChecked, TaskRequest
    <3>2. QED
      BY <2>4, <3>1 DEF TaskJustChecked, HonestInv, TaskReadsAreCurrent
  <2>5. requests'[r] # Idle /\ ~ MissionJustRead(r)
    BY <1>2
    DEF TaskRequest, Idle, MissionJustRead, MissionRequest, TaskOps, MissionOps
  <2>6. QED
    BY <1>1, <2>2, <2>3, <2>4, <2>5, RequestsStep DEF RequestKept
<1>3. QED
  BY <1>2 DEF TaskReadsAreCurrent

\* The same, for a mission request.
LEMMA MissionReadsStep ==
  ASSUME Foresight = 0, HonestInv, [Next]_vars
  PROVE  MissionReadsAreCurrent'
<1>1. TypeOK /\ TypeOK' /\ TaskEffect /\ MissionEffect
  BY StepEffect, TypeStep DEF HonestInv
<1>2. ASSUME NEW r \in Requests, requests'[r] \in MissionRequest
      PROVE  LET req == requests'[r]
                 row == drone_missions'[req.id]
             IN  /\ req.version <= row.version
                 /\ req.version = row.version => req.seen = row.status
                 /\ MissionCanMoveTo(req.seen, Target(req.op))
  <2> DEFINE req == requests'[r]
             m == req.id
  <2>1. /\ m \in Missions /\ req.version \in Nat
        /\ drone_missions[m].version \in Nat
        /\ drone_missions'[m].version \in Nat
    BY <1>1, <1>2 DEF MissionRequest, TypeOK, MissionRow
  <2>2. CASE requests'[r] = requests[r]
    <3>1. /\ req.version <= drone_missions[m].version
          /\ req.version = drone_missions[m].version =>
               req.seen = drone_missions[m].status
          /\ MissionCanMoveTo(req.seen, Target(req.op))
      BY <1>2, <2>2 DEF HonestInv, MissionReadsAreCurrent
    <3>2. \/ drone_missions'[m] = drone_missions[m]
          \/ drone_missions'[m].version > drone_missions[m].version
      BY <1>1, <2>1, VersionsGrow
    <3>3. QED
      BY <2>1, <3>1, <3>2
  <2>3. CASE UNCHANGED <<drone_tasks, drone_missions>> /\ MissionJustRead(r)
    BY <2>1, <2>3 DEF MissionJustRead
  <2>4. requests'[r] # Idle /\ ~ TaskJustRead(r) /\ ~ TaskJustChecked(r)
    BY <1>2
    DEF MissionRequest, Idle, TaskJustRead, TaskJustChecked, TaskRequest,
        TaskOps, MissionOps
  <2>5. QED
    BY <1>1, <2>2, <2>3, <2>4, RequestsStep DEF RequestKept
<1>3. QED
  BY <1>2 DEF MissionReadsAreCurrent

\* HonestInv is inductive when no client runs ahead of a row.
LEMMA HonestStep ==
  ASSUME Foresight = 0
  PROVE  HonestInv /\ [Next]_vars => HonestInv'
<1> SUFFICES ASSUME HonestInv, [Next]_vars
             PROVE  HonestInv'
  OBVIOUS
<1>1. TypeOK' /\ TaskEffect /\ MissionEffect
  BY StepEffect, TypeStep DEF HonestInv
<1>2. FreshRows'
  BY <1>1, FreshRowsStep
<1>3. UnitNeverOverfull' /\ CounterIsExact'
  BY <1>1, CountersStep
<1>4. CompletionsFollowActivation'
  BY <1>1, ActivationStep
<1>5. TaskReadsAreCurrent' /\ MissionReadsAreCurrent'
  BY TaskReadsStep, MissionReadsStep
<1>6. QED
  BY <1>1, <1>2, <1>3, <1>4, <1>5 DEF HonestInv

-----------------------------------------------------------------------------
(***************************************************************************)
(* The theorems.                                                           *)
(***************************************************************************)

\* While clients only send versions they have seen, all of HonestInv holds.
THEOREM HonestInvariant ==
  ASSUME Foresight = 0
  PROVE  Spec => []HonestInv
<1>1. QED
  BY InitHonest, HonestStep, PTL DEF Spec

\* Then a unit's counter is the number of its completed tasks: two completions
\* of one task, or of two tasks of one unit, never lose or double a count.
THEOREM CounterExact ==
  ASSUME Foresight = 0
  PROVE  Spec => []CounterIsExact
<1>1. HonestInv => CounterIsExact
  BY DEF HonestInv
<1>2. QED
  BY <1>1, HonestInvariant, PTL

\* Then no completion is counted in a mission that was never activated.
THEOREM CompletionNeedsActivation ==
  ASSUME Foresight = 0
  PROVE  Spec => []CompletionsFollowActivation
<1>1. HonestInv => CompletionsFollowActivation
  BY DEF HonestInv
<1>2. QED
  BY <1>1, HonestInvariant, PTL

\* Then the version check of the update makes the check of the transition
\* table, made on a row read without a lock, as good as an atomic one.
THEOREM MissionMachine ==
  ASSUME Foresight = 0
  PROVE  Spec => MissionFollowsMachine
<1> DEFINE A == \A m \in Missions :
       drone_missions[m].status \notin {"absent", drone_missions'[m].status} =>
         MissionCanMoveTo(drone_missions[m].status, drone_missions'[m].status)
<1>1. HonestInv /\ [Next]_vars => A
  <2> SUFFICES ASSUME HonestInv, [Next]_vars PROVE A
    OBVIOUS
  <2>1. MissionEffect
    BY StepEffect
  <2>2. QED
    BY <2>1 DEF MissionEffect
<1>2. HonestInv /\ [Next]_vars => [A]_vars
  BY <1>1
<1>3. QED
  BY <1>2, HonestInvariant, PTL DEF Spec, MissionFollowsMachine

\* The same for completing and archiving a task, whatever handoffs and the
\* expiration worker do between the check and the update.
THEOREM CheckedMoves ==
  ASSUME Foresight = 0
  PROVE  Spec => CheckedMovesFollowMachine
<1> DEFINE A == \A t \in Tasks :
       /\ drone_tasks'[t] # drone_tasks[t]
       /\ drone_tasks'[t].status \in {"completed", "archived"}
       => DroneTaskCanMoveTo(drone_tasks[t].status, drone_tasks'[t].status)
<1>1. HonestInv /\ [Next]_vars => A
  <2> SUFFICES ASSUME HonestInv, [Next]_vars PROVE A
    OBVIOUS
  <2>1. TaskEffect
    BY StepEffect
  <2>2. \A t \in Tasks :
          \/ drone_tasks'[t] = drone_tasks[t]
          \/ TaskCreated(t) \/ TaskMoved(t) \/ TaskCompletion(t)
    BY <2>1 DEF TaskEffect, TaskCompletion
  <2>3. QED
    BY <2>2
    DEF TaskCreated, TaskMoved, TaskCompletion, DroneTaskCanMoveTo,
        DroneTaskMoves
<1>2. HonestInv /\ [Next]_vars => [A]_vars
  BY <1>1
<1>3. QED
  BY <1>2, HonestInvariant, PTL DEF Spec, CheckedMovesFollowMachine

\* Then a request that has read its task knows the row as it is, or its version
\* is too old for the update.
THEOREM TaskReadsCurrent ==
  ASSUME Foresight = 0
  PROVE  Spec => []TaskReadsAreCurrent
<1>1. HonestInv => TaskReadsAreCurrent
  BY DEF HonestInv
<1>2. QED
  BY <1>1, HonestInvariant, PTL

\* The same for a request that has read its mission.
THEOREM MissionReadsCurrent ==
  ASSUME Foresight = 0
  PROVE  Spec => []MissionReadsAreCurrent
<1>1. HonestInv => MissionReadsAreCurrent
  BY DEF HonestInv
<1>2. QED
  BY <1>1, HonestInvariant, PTL

-----------------------------------------------------------------------------
(***************************************************************************)
(* What holds whatever versions clients send, with no assumption on        *)
(* Foresight from here on.  First the counters of the units.               *)
(***************************************************************************)

\* No task gets its completed_at and no counter moves.
CountersKept ==
  /\ mission_drones' = mission_drones
  /\ \A t \in Tasks : drone_tasks'[t].completed => drone_tasks[t].completed

\* One task is completed, perhaps once more, and its unit had room.
CountedOnce(t) ==
  /\ mission_drones[UnitOf[t]] < Required[UnitOf[t]]
  /\ mission_drones' = [mission_drones EXCEPT ![UnitOf[t]] = @ + 1]
  /\ \A x \in Tasks \ {t} : drone_tasks'[x] = drone_tasks[x]

\* Every step keeps the counters, or counts one completion.
LEMMA CountingStep ==
  ASSUME TypeOK, [Next]_vars
  PROVE  CountersKept \/ \E t \in Tasks : CountedOnce(t)
<1>1. \A t \in Tasks : drone_tasks[t] \in TaskRow
  BY DEF TypeOK
<1>2. ASSUME UNCHANGED <<mission_drones, drone_tasks>>
      PROVE  CountersKept
  BY <1>2 DEF CountersKept
<1>3. ASSUME NEW t \in Tasks, NEW x \in Horizon, CreateDroneTask(t, x)
      PROVE  CountersKept
  BY <1>3 DEF CreateDroneTask, CountersKept, TypeOK
<1>4. ASSUME NEW t \in Tasks, NEW status \in DroneTaskStatus, NEW v,
             MoveTaskRow(t, status, v)
      PROVE  CountersKept
  <2>1. /\ drone_tasks'[t] = WithStatus(drone_tasks[t], status)
        /\ \A x \in Tasks \ {t} : drone_tasks'[x] = drone_tasks[x]
        /\ mission_drones' = mission_drones
    BY <1>4 DEF MoveTaskRow, TypeOK
  <2>2. drone_tasks'[t].completed = drone_tasks[t].completed
    BY <1>1, <2>1, TaskWithStatus
  <2>3. QED
    BY <2>1, <2>2 DEF CountersKept
<1>5. ASSUME NEW locked, MarkExpiredDroneTasks(locked)
      PROVE  CountersKept
  <2>1. PICK S \in SUBSET Tasks :
          /\ drone_tasks' = [t \in Tasks |->
               IF t \in S
               THEN WithStatus(drone_tasks[t], "rejected")
               ELSE drone_tasks[t]]
          /\ mission_drones' = mission_drones
    BY <1>5 DEF MarkExpiredDroneTasks
  <2>2. "rejected" \in DroneTaskStatus
    BY DEF DroneTaskStatus
  <2>3. \A t \in Tasks :
          WithStatus(drone_tasks[t], "rejected").completed
            = drone_tasks[t].completed
    BY <1>1, <2>2, TaskWithStatus
  <2>4. \A t \in Tasks : drone_tasks'[t].completed = drone_tasks[t].completed
    BY <2>1, <2>3
  <2>5. QED
    BY <2>1, <2>4 DEF CountersKept
<1>6. ASSUME NEW t \in Tasks, NEW v, CompleteTaskRow(t, v)
      PROVE  CountedOnce(t)
  <2>1. \A x \in Tasks \ {t} : drone_tasks'[x] = drone_tasks[x]
    BY <1>6 DEF CompleteTaskRow, TypeOK
  <2>2. QED
    BY <1>6, <2>1 DEF CompleteTaskRow, CountedOnce
<1>7. ASSUME NEW r \in Requests, WriteMove(r)
      PROVE  CountersKept \/ \E t \in Tasks : CountedOnce(t)
  <2>1. requests[r].id \in Tasks /\ "archived" \in DroneTaskStatus
    BY <1>7 DEF WriteMove, TaskRequest, DroneTaskStatus
  <2>2. \/ CompleteTaskRow(requests[r].id, requests[r].version)
        \/ MoveTaskRow(requests[r].id, "archived", requests[r].version)
    BY <1>7 DEF WriteMove
  <2>3. QED
    BY <1>4, <1>6, <2>1, <2>2
<1>8. ASSUME NEW t \in Tasks, NEW v,
             HandoffDroneTask(t, v) \/ AcceptDroneTask(t, v)
      PROVE  CountersKept
  <2>1. PICK status \in {"device_transfer_pending", "accepted"} :
          MoveTaskRow(t, status, v)
    BY <1>8 DEF HandoffDroneTask, AcceptDroneTask
  <2>2. QED
    BY <1>4, <2>1 DEF DroneTaskStatus
<1>9. QED
  BY <1>2, <1>3, <1>5, <1>7, <1>8
  DEF Next, vars, Tick, CreateMission, ReadMission, WriteMission, ReadTask,
      CheckMove, Fail

\* Counters within their units' requirements that cover the completed tasks.
CountersInv == TypeOK /\ UnitNeverOverfull /\ CounterCoversCompletions

\* It holds of the empty database.
LEMMA InitCounters == Init => CountersInv
<1> SUFFICES ASSUME Init PROVE CountersInv
  OBVIOUS
<1>1. \A u \in Units : mission_drones[u] = 0 /\ Required[u] \in Nat
  BY StructureAssumption DEF Init
<1>2. \A u \in Units : CompletedTasksOf(u) = {}
  BY DEF Init, CompletedTasksOf
<1>3. Cardinality({}) = 0
  BY FS_EmptySet
<1>4. UnitNeverOverfull
  BY <1>1 DEF UnitNeverOverfull
<1>5. CounterCoversCompletions
  BY <1>1, <1>2, <1>3 DEF CounterCoversCompletions
<1>6. QED
  BY <1>4, <1>5, InitType DEF CountersInv

\* It is kept by a step of either kind, whoever takes it.
LEMMA CountersNext ==
  ASSUME CountersInv, TypeOK',
         CountersKept \/ \E t \in Tasks : CountedOnce(t)
  PROVE  CountersInv'
<1>1. TypeOK /\ TypeOK'
  BY DEF CountersInv
<1>2. \A u \in Units :
        /\ mission_drones[u] \in Nat
        /\ Required[u] \in Nat
        /\ mission_drones[u] <= Required[u]
        /\ Cardinality(CompletedTasksOf(u)) <= mission_drones[u]
        /\ IsFiniteSet(CompletedTasksOf(u))
        /\ Cardinality(CompletedTasksOf(u)) \in Nat
  <2>1. \A u \in Units : IsFiniteSet(CompletedTasksOf(u))
    BY FiniteAssumption, FS_Subset DEF CompletedTasksOf
  <2>2. QED
    BY <1>1, <2>1, StructureAssumption, FS_CardinalityType
    DEF CountersInv, TypeOK, UnitNeverOverfull, CounterCoversCompletions
<1>3. CASE CountersKept
  <2>1. \A u \in Units : CompletedTasksOf(u)' \subseteq CompletedTasksOf(u)
    BY <1>3 DEF CountersKept, CompletedTasksOf
  <2>2. \A u \in Units :
          Cardinality(CompletedTasksOf(u)') <= Cardinality(CompletedTasksOf(u))
    BY <1>2, <2>1, FS_Subset
  <2>3. \A u \in Units : Cardinality(CompletedTasksOf(u)') \in Nat
    BY <1>2, <2>1, FS_Subset, FS_CardinalityType
  <2>4. UnitNeverOverfull'
    BY <1>2, <1>3 DEF CountersKept, UnitNeverOverfull
  <2>5. CounterCoversCompletions'
    BY <1>2, <1>3, <2>2, <2>3 DEF CountersKept, CounterCoversCompletions
  <2>6. QED
    BY <1>1, <2>4, <2>5 DEF CountersInv
<1>4. ASSUME NEW t \in Tasks, CountedOnce(t)
      PROVE  CountersInv'
  <2>1. UnitOf[t] \in Units
    BY StructureAssumption
  <2>2. \A u \in Units :
          mission_drones'[u] = IF u = UnitOf[t] THEN mission_drones[u] + 1
                                                ELSE mission_drones[u]
    BY <1>1, <1>4, <2>1 DEF CountedOnce, TypeOK
  <2>3. ASSUME NEW u \in Units, u # UnitOf[t]
        PROVE  CompletedTasksOf(u)' = CompletedTasksOf(u)
    BY <1>4, <2>3 DEF CountedOnce, CompletedTasksOf
  <2>4. CompletedTasksOf(UnitOf[t])'
          \subseteq CompletedTasksOf(UnitOf[t]) \union {t}
    BY <1>4 DEF CountedOnce, CompletedTasksOf
  <2>5. /\ Cardinality(CompletedTasksOf(UnitOf[t])')
             <= Cardinality(CompletedTasksOf(UnitOf[t])) + 1
        /\ Cardinality(CompletedTasksOf(UnitOf[t])') \in Nat
    <3> DEFINE C == CompletedTasksOf(UnitOf[t])
               D == CompletedTasksOf(UnitOf[t])'
    <3>1. IsFiniteSet(C) /\ Cardinality(C) \in Nat
      BY <1>2, <2>1
    <3>2. /\ IsFiniteSet(C \union {t})
          /\ Cardinality(C \union {t}) \in Nat
          /\ Cardinality(C \union {t}) <= Cardinality(C) + 1
      <4> HIDE DEF C
      <4>1. /\ IsFiniteSet(C \union {t})
            /\ Cardinality(C \union {t})
                 = IF t \in C THEN Cardinality(C) ELSE Cardinality(C) + 1
        BY <3>1, FS_AddElement
      <4>2. QED
        BY <3>1, <4>1
    <3>3. D \subseteq C \union {t}
      BY <2>4
    <3> HIDE DEF C, D
    <3>4. /\ IsFiniteSet(D)
          /\ Cardinality(D) <= Cardinality(C \union {t})
      BY <3>2, <3>3, FS_Subset
    <3>5. Cardinality(D) \in Nat
      BY <3>4, FS_CardinalityType
    <3>6. Cardinality(D) <= Cardinality(C) + 1
      BY <3>1, <3>2, <3>4, <3>5
    <3>7. QED
      BY <3>5, <3>6 DEF C, D
  <2>6. UnitNeverOverfull'
    BY <1>2, <1>4, <2>1, <2>2 DEF CountedOnce, UnitNeverOverfull
  <2>7. \A u \in Units :
          Cardinality(CompletedTasksOf(u)') <= mission_drones'[u]
    BY <1>2, <2>1, <2>2, <2>3, <2>5
  <2>8. CounterCoversCompletions'
    BY <2>7 DEF CounterCoversCompletions
  <2>9. QED
    BY <1>1, <2>6, <2>8 DEF CountersInv
<1>5. QED
  BY <1>3, <1>4

\* It is inductive, for every version a client may send.
LEMMA CountersInvStep == CountersInv /\ [Next]_vars => CountersInv'
<1> SUFFICES ASSUME CountersInv, [Next]_vars PROVE CountersInv'
  OBVIOUS
<1>1. TypeOK /\ TypeOK'
  BY TypeStep DEF CountersInv
<1>2. QED
  BY <1>1, CountersNext, CountingStep

\* Whatever versions clients send, the locked row of a unit keeps its counter
\* within required_tasks.
THEOREM NeverOverfull == Spec => []UnitNeverOverfull
<1>1. CountersInv => UnitNeverOverfull
  BY DEF CountersInv
<1>2. QED
  BY <1>1, InitCounters, CountersInvStep, PTL DEF Spec

\* Whatever versions clients send, a unit's counter never falls behind its
\* completed tasks: task and counter change in one statement.
THEOREM CounterCovers == Spec => []CounterCoversCompletions
<1>1. CountersInv => CounterCoversCompletions
  BY DEF CountersInv
<1>2. QED
  BY <1>1, InitCounters, CountersInvStep, PTL DEF Spec

-----------------------------------------------------------------------------
(***************************************************************************)
(* The audit trail.                                                        *)
(***************************************************************************)

MissionAudits(m) == audit_events[<<"drone_mission", m>>]

TaskAudits(t) ==
  audit_events[<<"drone_task", t>>] + audit_events[<<"task", t>>]

\* A row gets its next version with one audit row, or neither.
Audited ==
  /\ \A m \in Missions :
       \/ /\ drone_missions'[m] = drone_missions[m]
          /\ MissionAudits(m)' = MissionAudits(m)
       \/ /\ drone_missions'[m].status # "absent"
          /\ drone_missions'[m].version = drone_missions[m].version + 1
          /\ MissionAudits(m)' = MissionAudits(m) + 1
  /\ \A t \in Tasks :
       \/ /\ drone_tasks'[t] = drone_tasks[t]
          /\ TaskAudits(t)' = TaskAudits(t)
       \/ /\ drone_tasks'[t].status # "absent"
          /\ drone_tasks'[t].version = drone_tasks[t].version + 1
          /\ TaskAudits(t)' = TaskAudits(t) + 1

\* A row that does not exist has no version.
AbsentRows ==
  /\ \A m \in Missions :
       drone_missions[m].status = "absent" => drone_missions[m].version = 0
  /\ \A t \in Tasks :
       drone_tasks[t].status = "absent" => drone_tasks[t].version = 0

\* What an audit row under one key does to the counts of all objects.
LEMMA MissionAuditWritten ==
  ASSUME TypeOK, NEW m \in Missions, WriteAudit("drone_mission", m)
  PROVE  /\ MissionAudits(m)' = MissionAudits(m) + 1
         /\ \A x \in Missions \ {m} : MissionAudits(x)' = MissionAudits(x)
         /\ \A t \in Tasks : TaskAudits(t)' = TaskAudits(t)
  BY AuditKeysFact DEF WriteAudit, MissionAudits, TaskAudits, TypeOK

\* The same for an audit row of a task.
LEMMA TaskAuditWritten ==
  ASSUME TypeOK, NEW t \in Tasks, WriteAudit("drone_task", t)
  PROVE  /\ TaskAudits(t)' = TaskAudits(t) + 1
         /\ \A x \in Tasks \ {t} : TaskAudits(x)' = TaskAudits(x)
         /\ \A m \in Missions : MissionAudits(m)' = MissionAudits(m)
  BY AuditKeysFact DEF WriteAudit, MissionAudits, TaskAudits, TypeOK

\* One task gets its next version and its audit row.
LEMMA TaskAuditedOnce ==
  ASSUME TypeOK, NEW t \in Tasks, WriteAudit("drone_task", t),
         drone_missions' = drone_missions,
         \A x \in Tasks \ {t} : drone_tasks'[x] = drone_tasks[x],
         drone_tasks'[t].status # "absent",
         drone_tasks'[t].version = drone_tasks[t].version + 1
  PROVE  Audited
  BY TaskAuditWritten DEF Audited

\* One mission gets its next version and its audit row.
LEMMA MissionAuditedOnce ==
  ASSUME TypeOK, NEW m \in Missions, WriteAudit("drone_mission", m),
         drone_tasks' = drone_tasks,
         \A x \in Missions \ {m} : drone_missions'[x] = drone_missions[x],
         drone_missions'[m].status # "absent",
         drone_missions'[m].version = drone_missions[m].version + 1
  PROVE  Audited
  BY MissionAuditWritten DEF Audited

\* One pass of the worker audits each task it rejects, once.
LEMMA ExpireAudited ==
  ASSUME TypeOK, NEW locked, MarkExpiredDroneTasks(locked)
  PROVE  Audited
<1>1. PICK S \in SUBSET Tasks :
        /\ drone_tasks' = [t \in Tasks |->
             IF t \in S
             THEN WithStatus(drone_tasks[t], "rejected")
             ELSE drone_tasks[t]]
        /\ audit_events' = [k \in AuditKeys |->
             IF k[1] = "task" /\ k[2] \in S
             THEN audit_events[k] + 1
             ELSE audit_events[k]]
        /\ drone_missions' = drone_missions
  BY DEF MarkExpiredDroneTasks
<1>2. \A m \in Missions : MissionAudits(m)' = MissionAudits(m)
  BY <1>1, AuditKeysFact DEF MissionAudits
<1>3. ASSUME NEW t \in Tasks
      PROVE  /\ audit_events'[<<"drone_task", t>>]
                  = audit_events[<<"drone_task", t>>]
             /\ audit_events'[<<"task", t>>] =
                  IF t \in S THEN audit_events[<<"task", t>>] + 1
                             ELSE audit_events[<<"task", t>>]
             /\ audit_events[<<"drone_task", t>>] \in Nat
             /\ audit_events[<<"task", t>>] \in Nat
  BY <1>1, AuditKeysFact DEF TypeOK
<1>4. \A t \in Tasks :
        TaskAudits(t)' = IF t \in S THEN TaskAudits(t) + 1 ELSE TaskAudits(t)
  <2> SUFFICES ASSUME NEW t \in Tasks
               PROVE  TaskAudits(t)' =
                        IF t \in S THEN TaskAudits(t) + 1 ELSE TaskAudits(t)
    OBVIOUS
  <2> DEFINE a == audit_events[<<"drone_task", t>>]
             b == audit_events[<<"task", t>>]
  <2>1. /\ a \in Nat /\ b \in Nat
        /\ a' = a
        /\ b' = IF t \in S THEN b + 1 ELSE b
    BY <1>3
  <2>2. TaskAudits(t) = a + b /\ TaskAudits(t)' = a' + b'
    BY DEF TaskAudits
  <2> HIDE DEF a, b
  <2>3. QED
    BY <2>1, <2>2
<1>5. \A t \in S :
        /\ WithStatus(drone_tasks[t], "rejected").status = "rejected"
        /\ WithStatus(drone_tasks[t], "rejected").version
             = drone_tasks[t].version + 1
  <2>1. "rejected" \in DroneTaskStatus /\ \A t \in S : drone_tasks[t] \in TaskRow
    BY DEF TypeOK, DroneTaskStatus
  <2>2. QED
    BY <2>1, TaskWithStatus
<1>6. \A t \in S :
        /\ drone_tasks'[t].status = "rejected"
        /\ drone_tasks'[t].version = drone_tasks[t].version + 1
  BY <1>1, <1>5
<1>7. \A t \in Tasks \ S : drone_tasks'[t] = drone_tasks[t]
  BY <1>1
<1>8. QED
  BY <1>1, <1>2, <1>4, <1>6, <1>7 DEF Audited

\* Every step audits what it changes.
LEMMA AuditStep ==
  ASSUME TypeOK, AbsentRows, [Next]_vars
  PROVE  Audited
<1>1. /\ \A t \in Tasks : drone_tasks[t] \in TaskRow
      /\ \A m \in Missions : drone_missions[m] \in MissionRow
  BY DEF TypeOK
<1>2. ASSUME UNCHANGED <<drone_missions, drone_tasks, audit_events>>
      PROVE  Audited
  BY <1>2 DEF Audited, MissionAudits, TaskAudits
<1>3. ASSUME NEW m \in Missions, NEW s \in Horizon, NEW e \in Horizon,
             CreateMission(m, s, e)
      PROVE  Audited
  <2>1. /\ drone_missions'[m].status = "draft"
        /\ drone_missions'[m].version = 1
        /\ \A x \in Missions \ {m} : drone_missions'[x] = drone_missions[x]
        /\ drone_tasks' = drone_tasks
        /\ WriteAudit("drone_mission", m)
    BY <1>3 DEF CreateMission, TypeOK
  <2>2. drone_missions[m].version = 0
    BY <1>3 DEF CreateMission, MissionExists, AbsentRows
  <2>3. QED
    BY <2>1, <2>2, MissionAuditedOnce
<1>4. ASSUME NEW t \in Tasks, NEW x \in Horizon, CreateDroneTask(t, x)
      PROVE  Audited
  <2>1. /\ drone_tasks'[t].status = "queued"
        /\ drone_tasks'[t].version = 1
        /\ \A y \in Tasks \ {t} : drone_tasks'[y] = drone_tasks[y]
        /\ drone_missions' = drone_missions
        /\ WriteAudit("drone_task", t)
    BY <1>4 DEF CreateDroneTask, TypeOK
  <2>2. drone_tasks[t].version = 0
    BY <1>4 DEF CreateDroneTask, TaskExists, AbsentRows
  <2>3. QED
    BY <2>1, <2>2, TaskAuditedOnce
<1>5. ASSUME NEW t \in Tasks, NEW status \in DroneTaskStatus, NEW v,
             MoveTaskRow(t, status, v), WriteAudit("drone_task", t),
             drone_missions' = drone_missions
      PROVE  Audited
  <2>1. /\ drone_tasks'[t] = WithStatus(drone_tasks[t], status)
        /\ \A x \in Tasks \ {t} : drone_tasks'[x] = drone_tasks[x]
    BY <1>5 DEF MoveTaskRow, TypeOK
  <2>2. /\ drone_tasks'[t].status = status
        /\ drone_tasks'[t].version = drone_tasks[t].version + 1
    BY <1>1, <2>1, TaskWithStatus
  <2>3. status # "absent"
    BY DEF DroneTaskStatus
  <2>4. QED
    BY <1>5, <2>1, <2>2, <2>3, TaskAuditedOnce
<1>6. ASSUME NEW t \in Tasks, NEW v,
             CompleteTaskRow(t, v), WriteAudit("drone_task", t),
             drone_missions' = drone_missions
      PROVE  Audited
  <2>1. /\ drone_tasks'[t] = AsCompleted(drone_tasks[t])
        /\ \A x \in Tasks \ {t} : drone_tasks'[x] = drone_tasks[x]
    BY <1>6 DEF CompleteTaskRow, TypeOK
  <2>2. /\ drone_tasks'[t].status = "completed"
        /\ drone_tasks'[t].version = drone_tasks[t].version + 1
    BY <1>1, <2>1, TaskCompleted
  <2>3. QED
    BY <1>6, <2>1, <2>2, TaskAuditedOnce
<1>7. ASSUME NEW r \in Requests, WriteMove(r)
      PROVE  Audited
  <2>1. /\ requests[r].id \in Tasks
        /\ "archived" \in DroneTaskStatus
        /\ WriteAudit("drone_task", requests[r].id)
        /\ drone_missions' = drone_missions
    BY <1>7 DEF WriteMove, TaskRequest, DroneTaskStatus
  <2>2. \/ CompleteTaskRow(requests[r].id, requests[r].version)
        \/ MoveTaskRow(requests[r].id, "archived", requests[r].version)
    BY <1>7 DEF WriteMove
  <2>3. QED
    BY <1>5, <1>6, <2>1, <2>2
<1>8. ASSUME NEW t \in Tasks, NEW v,
             HandoffDroneTask(t, v) \/ AcceptDroneTask(t, v)
      PROVE  Audited
  <2>1. PICK status \in {"device_transfer_pending", "accepted"} :
          MoveTaskRow(t, status, v)
    BY <1>8 DEF HandoffDroneTask, AcceptDroneTask
  <2>2. WriteAudit("drone_task", t) /\ drone_missions' = drone_missions
    BY <1>8 DEF HandoffDroneTask, AcceptDroneTask
  <2>3. QED
    BY <1>5, <2>1, <2>2 DEF DroneTaskStatus
<1>9. ASSUME NEW r \in Requests, WriteMission(r)
      PROVE  Audited
  <2> DEFINE m == requests[r].id
             status == Target(requests[r].op)
  <2>1. m \in Missions /\ status \in MissionStatus
    BY <1>9, TargetType DEF WriteMission, MissionRequest
  <2>2. /\ WriteAudit("drone_mission", m)
        /\ AdvanceMissionRow(m, status, requests[r].version)
        /\ drone_tasks' = drone_tasks
    BY <1>9 DEF WriteMission
  <2> HIDE DEF m, status
  <2>3. /\ drone_missions'[m] = WithStatus(drone_missions[m], status)
        /\ \A x \in Missions \ {m} : drone_missions'[x] = drone_missions[x]
    BY <2>1, <2>2 DEF AdvanceMissionRow, TypeOK
  <2>4. /\ drone_missions'[m].status = status
        /\ drone_missions'[m].version = drone_missions[m].version + 1
    BY <1>1, <2>1, <2>3, MissionWithStatus
  <2>5. status # "absent"
    BY <2>1 DEF MissionStatus
  <2>6. QED
    BY <2>1, <2>2, <2>3, <2>4, <2>5, MissionAuditedOnce
<1>10. QED
  BY <1>2, <1>3, <1>4, <1>7, <1>8, <1>9, ExpireAudited
  DEF Next, vars, Tick, ReadMission, ReadTask, CheckMove, Fail

\* Inductive, for every version a client may send.
AuditInv == TypeOK /\ AbsentRows /\ AuditTrailIsComplete

\* AuditInv holds of the empty database.
LEMMA InitAudit == Init => AuditInv
  BY InitType, AuditKeysFact
  DEF Init, AuditInv, AbsentRows, AuditTrailIsComplete

\* AuditInv is inductive.
LEMMA AuditInvStep == AuditInv /\ [Next]_vars => AuditInv'
<1> SUFFICES ASSUME AuditInv, [Next]_vars PROVE AuditInv'
  OBVIOUS
<1>1. TypeOK' /\ Audited
  BY TypeStep, AuditStep DEF AuditInv
<1>2. AbsentRows'
  BY <1>1 DEF AuditInv, AbsentRows, Audited
<1>3. \A m \in Missions : MissionAudits(m)' = drone_missions'[m].version
  BY <1>1 DEF AuditInv, AuditTrailIsComplete, Audited, MissionAudits
<1>4. \A t \in Tasks : TaskAudits(t)' = drone_tasks'[t].version
  <2>1. \A t \in Tasks : TaskAudits(t) = drone_tasks[t].version
    BY DEF AuditInv, AuditTrailIsComplete, TaskAudits
  <2>2. QED
    BY <1>1, <2>1 DEF Audited
<1>5. AuditTrailIsComplete'
  BY <1>3, <1>4 DEF AuditTrailIsComplete, MissionAudits, TaskAudits
<1>6. QED
  BY <1>1, <1>2, <1>5 DEF AuditInv

\* Whatever versions clients send, each version of a mission or a task has
\* exactly one audit row, written by the transaction that made it.
THEOREM AuditComplete == Spec => []AuditTrailIsComplete
<1>1. AuditInv => AuditTrailIsComplete
  BY DEF AuditInv
<1>2. QED
  BY <1>1, InitAudit, AuditInvStep, PTL DEF Spec

-----------------------------------------------------------------------------
(***************************************************************************)
(* DroneTasks implements TaskBoard while clients send versions they have   *)
(* seen.  Every step of DroneTasks is a step of the board or leaves the    *)
(* board as it is; HonestInv gives the checks of a request's earlier reads *)
(* back at the moment of its update.                                       *)
(***************************************************************************)

\* An update of one task is seen on the board as a change of its status alone,
\* unless it completes the task.
LEMMA TaskUpdateOnBoard ==
  ASSUME TypeOK, NEW t \in Tasks, NEW row \in TaskRow,
         drone_tasks' = [drone_tasks EXCEPT ![t] = row]
  PROVE  /\ StatusOfTasks' = [StatusOfTasks EXCEPT ![t] = row.status]
         /\ row.completed = drone_tasks[t].completed =>
              CompletedTasks' = CompletedTasks
         /\ row.completed = TRUE => CompletedTasks' = CompletedTasks \union {t}
<1>1. DOMAIN drone_tasks = Tasks /\ \A x \in Tasks : drone_tasks[x] \in TaskRow
  BY DEF TypeOK
<1>2. /\ drone_tasks'[t] = row
      /\ \A x \in Tasks \ {t} : drone_tasks'[x] = drone_tasks[x]
  BY <1>1
<1>3. QED
  BY <1>1, <1>2 DEF StatusOfTasks, CompletedTasks

\* An update of one mission is seen as a change of its status.
LEMMA MissionUpdateOnBoard ==
  ASSUME TypeOK, NEW m \in Missions, NEW row,
         drone_missions' = [drone_missions EXCEPT ![m] = row]
  PROVE  StatusOfMissions' = [StatusOfMissions EXCEPT ![m] = row.status]
<1>1. DOMAIN drone_missions = Missions
  BY DEF TypeOK
<1>2. /\ drone_missions'[m] = row
      /\ \A x \in Missions \ {m} : drone_missions'[x] = drone_missions[x]
  BY <1>1
<1>3. QED
  BY <1>1, <1>2 DEF StatusOfMissions

\* The empty database is the empty board.
LEMMA InitOnBoard == Init => Board!BoardInit
BY DEF Init, Board!BoardInit, StatusOfMissions, StatusOfTasks, CompletedTasks

\* A transfer or an archival writes a status and leaves completions alone.
LEMMA MoveOnBoard ==
  ASSUME TypeOK, NEW t \in Tasks, NEW status \in DroneTaskStatus, NEW v,
         MoveTaskRow(t, status, v)
  PROVE  /\ StatusOfTasks' = [StatusOfTasks EXCEPT ![t] = status]
         /\ CompletedTasks' = CompletedTasks
<1>1. drone_tasks[t] \in TaskRow /\ DOMAIN drone_tasks = Tasks
  BY DEF TypeOK
<1> DEFINE row == WithStatus(drone_tasks[t], status)
<1>2. /\ row \in TaskRow
      /\ row.status = status
      /\ row.completed = drone_tasks[t].completed
  BY <1>1, TaskWithStatus
<1> HIDE DEF row
<1>3. drone_tasks' = [drone_tasks EXCEPT ![t] = row]
  BY <1>1 DEF MoveTaskRow, row
<1>4. QED
  BY <1>2, <1>3, TaskUpdateOnBoard

\* The instance counts as the module does.
LEMMA CountOnBoard == \A S : Board!Cardinality(S) = Cardinality(S)
BY Zenon DEF Board!Cardinality, Cardinality

\* A completion that passed its checks finds a free place on the board.
LEMMA CompletionOnBoard ==
  ASSUME HonestInv, NEW t \in Tasks, NEW v, CompleteTaskRow(t, v),
         drone_missions' = drone_missions,
         DroneTaskCanMoveTo(drone_tasks[t].status, "completed"),
         drone_missions[MissionOf[UnitOf[t]]].status \in {"active", "closed"}
  PROVE  Board!Complete(t)
<1>1. /\ TypeOK
      /\ drone_tasks[t] \in TaskRow
      /\ MissionOf[UnitOf[t]] \in Missions
      /\ UnitOf[t] \in Units
  BY StructureAssumption DEF HonestInv, TypeOK
<1>2. t \notin CompletedTasks
  BY DEF HonestInv, FreshRows, DroneTaskCanMoveTo, DroneTaskMoves,
         CompletedTasks
<1>3. {x \in CompletedTasks : UnitOf[x] = UnitOf[t]}
        = CompletedTasksOf(UnitOf[t])
  BY DEF CompletedTasks, CompletedTasksOf
<1>4. Cardinality({x \in CompletedTasks : UnitOf[x] = UnitOf[t]})
        < Required[UnitOf[t]]
  BY <1>1, <1>3 DEF CompleteTaskRow, HonestInv, CounterIsExact
<1>5. /\ StatusOfTasks' = [StatusOfTasks EXCEPT ![t] = "completed"]
      /\ CompletedTasks' = CompletedTasks \union {t}
  <2> DEFINE row == AsCompleted(drone_tasks[t])
  <2>1. row \in TaskRow /\ row.status = "completed" /\ row.completed = TRUE
    BY <1>1, TaskCompleted
  <2> HIDE DEF row
  <2>2. drone_tasks' = [drone_tasks EXCEPT ![t] = row]
    BY <1>1 DEF CompleteTaskRow, row, TypeOK
  <2>3. QED
    BY <1>1, <2>1, <2>2, TaskUpdateOnBoard
<1>6. StatusOfMissions' = StatusOfMissions
  BY DEF StatusOfMissions
<1>7. /\ StatusOfMissions[MissionOf[UnitOf[t]]] \in {"active", "closed"}
      /\ Board!DroneTaskCanMoveTo(StatusOfTasks[t], "completed")
  BY <1>1
  DEF StatusOfMissions, StatusOfTasks, Board!DroneTaskCanMoveTo,
      Board!DroneTaskMoves, DroneTaskCanMoveTo, DroneTaskMoves
<1>8. QED
  BY <1>2, <1>4, <1>5, <1>6, <1>7, CountOnBoard, Zenon DEF Board!Complete

\* An archival that passed its check is the board's.
LEMMA ArchivalOnBoard ==
  ASSUME TypeOK, NEW t \in Tasks, NEW v, MoveTaskRow(t, "archived", v),
         drone_missions' = drone_missions,
         DroneTaskCanMoveTo(drone_tasks[t].status, "archived")
  PROVE  Board!Archive(t)
<1>1. /\ StatusOfTasks' = [StatusOfTasks EXCEPT ![t] = "archived"]
      /\ CompletedTasks' = CompletedTasks
  BY MoveOnBoard DEF DroneTaskStatus
<1>2. StatusOfMissions' = StatusOfMissions
  BY DEF StatusOfMissions
<1>3. Board!DroneTaskCanMoveTo(StatusOfTasks[t], "archived")
  BY DEF StatusOfTasks, Board!DroneTaskCanMoveTo, Board!DroneTaskMoves,
         DroneTaskCanMoveTo, DroneTaskMoves
<1>4. QED
  BY <1>1, <1>2, <1>3 DEF Board!Archive

\* The update of a checked request by a version that still is the row's.
LEMMA WriteMoveOnBoard ==
  ASSUME HonestInv, NEW r \in Requests, WriteMove(r)
  PROVE  Board!BoardNext
<1>1. PICK req \in TaskRequest :
        /\ req = requests[r]
        /\ req.pc = "checked"
        /\ \/ req.op = "complete" /\ CompleteTaskRow(req.id, req.version)
           \/ req.op = "archive" /\ MoveTaskRow(req.id, "archived", req.version)
  BY DEF WriteMove
<1>2. PICK t \in Tasks : t = req.id
  BY DEF TaskRequest
<1>3. /\ req.version = drone_tasks[t].version => req.seen = drone_tasks[t].status
      /\ DroneTaskCanMoveTo(req.seen, Target(req.op))
      /\ req.op = "complete" =>
           drone_missions[MissionOf[UnitOf[t]]].status \in {"active", "closed"}
  BY <1>1, <1>2 DEF HonestInv, TaskReadsAreCurrent
<1>4. TypeOK /\ drone_missions' = drone_missions
  BY DEF WriteMove, HonestInv
<1>5. CASE req.op = "complete"
  <2>1. CompleteTaskRow(t, req.version)
    BY <1>1, <1>2, <1>5
  <2>2. DroneTaskCanMoveTo(drone_tasks[t].status, "completed")
    BY <1>3, <1>5, <2>1 DEF CompleteTaskRow, Target
  <2>3. Board!Complete(t)
    BY <1>3, <1>4, <1>5, <2>1, <2>2, CompletionOnBoard
  <2>4. QED
    BY <2>3 DEF Board!BoardNext
<1>6. CASE req.op = "archive"
  <2>1. MoveTaskRow(t, "archived", req.version)
    BY <1>1, <1>2, <1>6
  <2>2. DroneTaskCanMoveTo(drone_tasks[t].status, "archived")
    BY <1>3, <1>6, <2>1 DEF MoveTaskRow, Target
  <2>3. Board!Archive(t)
    BY <1>4, <2>1, <2>2, ArchivalOnBoard
  <2>4. QED
    BY <2>3 DEF Board!BoardNext
<1>7. QED
  BY <1>1, <1>5, <1>6

\* The update of a checked mission by a version that still is the row's.
LEMMA WriteMissionOnBoard ==
  ASSUME HonestInv, NEW r \in Requests, WriteMission(r)
  PROVE  Board!BoardNext
<1>1. PICK req \in MissionRequest :
        /\ req = requests[r]
        /\ AdvanceMissionRow(req.id, Target(req.op), req.version)
  BY DEF WriteMission
<1>2. PICK m \in Missions : m = req.id
  BY DEF MissionRequest
<1> DEFINE status == Target(req.op)
<1>3. /\ MissionCanMoveTo(drone_missions[m].status, status)
      /\ status \in MissionStatus
  <2>1. status \in MissionStatus
    BY TargetType DEF MissionRequest
  <2>2. QED
    BY <1>1, <1>2, <2>1 DEF HonestInv, MissionReadsAreCurrent, AdvanceMissionRow
<1>4. /\ TypeOK
      /\ drone_missions[m] \in MissionRow
      /\ drone_tasks' = drone_tasks
  BY DEF WriteMission, HonestInv, TypeOK
<1>5. StatusOfMissions' = [StatusOfMissions EXCEPT ![m] = status]
  <2> DEFINE row == WithStatus(drone_missions[m], status)
  <2>1. row.status = status
    BY <1>3, <1>4, MissionWithStatus
  <2> HIDE DEF row
  <2>2. drone_missions' = [drone_missions EXCEPT ![m] = row]
    BY <1>1, <1>2, <1>4 DEF AdvanceMissionRow, row, TypeOK
  <2>3. QED
    BY <1>4, <2>1, <2>2, MissionUpdateOnBoard
<1>6. StatusOfTasks' = StatusOfTasks /\ CompletedTasks' = CompletedTasks
  BY <1>4 DEF StatusOfTasks, CompletedTasks
<1> HIDE DEF status
<1>7. Board!MissionCanMoveTo(StatusOfMissions[m], status)
  BY <1>3
  DEF StatusOfMissions, Board!MissionCanMoveTo, Board!MissionMoves,
      MissionCanMoveTo, MissionMoves
<1>8. Board!Advance(m, status)
  BY <1>5, <1>6, <1>7 DEF Board!Advance
<1>9. QED
  BY <1>3, <1>8 DEF Board!BoardNext, Board!MissionStatus, MissionStatus

\* A handoff or an acceptance is a transfer on the board.
LEMMA TransferOnBoard ==
  ASSUME TypeOK, NEW t \in Tasks, NEW v,
         HandoffDroneTask(t, v) \/ AcceptDroneTask(t, v)
  PROVE  Board!BoardNext
<1>1. PICK status \in {"device_transfer_pending", "accepted"} :
        MoveTaskRow(t, status, v)
  BY DEF HandoffDroneTask, AcceptDroneTask
<1>2. drone_tasks[t].status # "absent" /\ drone_missions' = drone_missions
  BY DEF HandoffDroneTask, AcceptDroneTask, TaskExists
<1>3. /\ StatusOfTasks' = [StatusOfTasks EXCEPT ![t] = status]
      /\ CompletedTasks' = CompletedTasks
  BY <1>1, MoveOnBoard DEF DroneTaskStatus
<1>4. Board!Transfer(t, status)
  BY <1>2, <1>3 DEF Board!Transfer, StatusOfTasks, StatusOfMissions
<1>5. QED
  BY <1>4 DEF Board!BoardNext

\* A pass of the worker is the board's, with the batch it selected.
LEMMA ExpireOnBoard ==
  ASSUME TypeOK, NEW locked, MarkExpiredDroneTasks(locked)
  PROVE  Board!BoardNext
<1>1. PICK S \in SUBSET Tasks :
        /\ SelectedBatch(S, locked)
        /\ drone_tasks' = [t \in Tasks |->
             IF t \in S
             THEN WithStatus(drone_tasks[t], "rejected")
             ELSE drone_tasks[t]]
        /\ drone_missions' = drone_missions
  BY DEF MarkExpiredDroneTasks
<1>2. \A t \in S : drone_tasks[t].status \in UnfinishedStatus
  BY <1>1 DEF SelectedBatch, Expirable
<1>3. \A t \in S : /\ drone_tasks'[t].status = "rejected"
                   /\ drone_tasks'[t].completed = drone_tasks[t].completed
  <2> SUFFICES ASSUME NEW t \in S
               PROVE  /\ drone_tasks'[t].status = "rejected"
                      /\ drone_tasks'[t].completed = drone_tasks[t].completed
    OBVIOUS
  <2>1. drone_tasks[t] \in TaskRow /\ "rejected" \in DroneTaskStatus
    BY DEF TypeOK, DroneTaskStatus
  <2>2. drone_tasks'[t] = WithStatus(drone_tasks[t], "rejected")
    BY <1>1
  <2>3. QED
    BY <2>1, <2>2, TaskWithStatus
<1>4. \A t \in Tasks \ S : drone_tasks'[t] = drone_tasks[t]
  BY <1>1
<1>5. StatusOfTasks' =
        [t \in Tasks |-> IF t \in S THEN "rejected" ELSE StatusOfTasks[t]]
  BY <1>3, <1>4 DEF StatusOfTasks
<1>6. CompletedTasks' = CompletedTasks
  BY <1>3, <1>4 DEF CompletedTasks
<1>7. Board!Expire(S)
  BY <1>1, <1>2, <1>5, <1>6
  DEF Board!Expire, StatusOfTasks, StatusOfMissions, Board!UnfinishedStatus,
      UnfinishedStatus
<1>8. QED
  BY <1>7 DEF Board!BoardNext

\* A new mission is a draft, a new task is queued.
LEMMA CreationOnBoard ==
  ASSUME HonestInv,
         \/ \E m \in Missions, s, e \in Horizon : CreateMission(m, s, e)
         \/ \E t \in Tasks, x \in Horizon : CreateDroneTask(t, x)
  PROVE  Board!BoardNext
<1>0. TypeOK
  BY DEF HonestInv
<1>1. ASSUME NEW m \in Missions, NEW s \in Horizon, NEW e \in Horizon,
             CreateMission(m, s, e)
      PROVE  Board!Draft(m)
  <2> DEFINE row == [status |-> "draft", version |-> 1,
                     starts_at |-> s, ends_at |-> e]
  <2>1. row.status = "draft"
    OBVIOUS
  <2> HIDE DEF row
  <2>2. drone_missions' = [drone_missions EXCEPT ![m] = row]
    BY <1>1 DEF CreateMission, row
  <2>3. StatusOfMissions' = [StatusOfMissions EXCEPT ![m] = "draft"]
    BY <1>0, <2>1, <2>2, MissionUpdateOnBoard
  <2>4. StatusOfTasks' = StatusOfTasks /\ CompletedTasks' = CompletedTasks
    BY <1>1 DEF CreateMission, StatusOfTasks, CompletedTasks
  <2>5. QED
    BY <1>1, <2>3, <2>4
    DEF CreateMission, MissionExists, Board!Draft, StatusOfMissions
<1>2. ASSUME NEW t \in Tasks, NEW x \in Horizon, CreateDroneTask(t, x)
      PROVE  Board!Queue(t)
  <2> DEFINE row == [status |-> "queued", version |-> 1, expires_at |-> x,
                     completed |-> FALSE]
  <2>1. row \in TaskRow /\ row.status = "queued" /\ row.completed = FALSE
    BY BoundAssumption DEF TaskRow, DroneTaskStatus, Horizon
  <2> HIDE DEF row
  <2>2. drone_tasks' = [drone_tasks EXCEPT ![t] = row]
    BY <1>2 DEF CreateDroneTask, row
  <2>3. drone_tasks[t].status = "absent" /\ drone_tasks[t] \in TaskRow
    BY <1>0, <1>2 DEF CreateDroneTask, TaskExists, TypeOK
  <2>4. drone_tasks[t].completed = FALSE
    BY <2>3 DEF HonestInv, FreshRows, TaskRow
  <2>5. /\ StatusOfTasks' = [StatusOfTasks EXCEPT ![t] = "queued"]
        /\ CompletedTasks' = CompletedTasks
    BY <1>0, <2>1, <2>2, <2>4, TaskUpdateOnBoard
  <2>6. /\ StatusOfMissions' = StatusOfMissions
        /\ StatusOfMissions[MissionOf[UnitOf[t]]] # "absent"
        /\ StatusOfTasks[t] = "absent"
    BY <1>2, <2>3, StructureAssumption
    DEF CreateDroneTask, MissionExists, StatusOfMissions, StatusOfTasks
  <2>7. QED
    BY <2>5, <2>6 DEF Board!Queue
<1>3. QED
  BY <1>1, <1>2 DEF Board!BoardNext

\* A read, a check, a failure and a tick of the clock are not seen.
LEMMA UnseenOnBoard ==
  ASSUME UNCHANGED <<drone_missions, drone_tasks>>
  PROVE  UNCHANGED Board!board_vars
BY DEF Board!board_vars, StatusOfMissions, StatusOfTasks, CompletedTasks

\* Every step of DroneTasks is a step of the board or is not seen on it.
LEMMA StepOnBoard ==
  HonestInv /\ [Next]_vars => [Board!BoardNext]_(Board!board_vars)
<1> SUFFICES ASSUME HonestInv, [Next]_vars
             PROVE  Board!BoardNext \/ UNCHANGED Board!board_vars
  OBVIOUS
<1>1. TypeOK
  BY DEF HonestInv
<1>2. QED
  BY <1>1, CreationOnBoard, TransferOnBoard, ExpireOnBoard, WriteMoveOnBoard,
     WriteMissionOnBoard, UnseenOnBoard
  DEF Next, vars, Tick, ReadMission, ReadTask, CheckMove, Fail

\* DroneTasks implements TaskBoard for any numbers of missions, units, tasks and
\* overlapping requests, as long as clients send versions they have seen.
THEOREM TasksImplementBoard ==
  ASSUME Foresight = 0
  PROVE  Spec => ImplementsTaskBoard
<1>1. Init => Board!BoardInit
  BY InitOnBoard
<1>2. HonestInv /\ [Next]_vars => [Board!BoardNext]_(Board!board_vars)
  BY StepOnBoard
<1>3. Spec => []HonestInv
  BY HonestInvariant
<1>4. QED
  BY <1>1, <1>2, <1>3, PTL DEF Spec, ImplementsTaskBoard, Board!BoardSpec

-----------------------------------------------------------------------------
(***************************************************************************)
(* The progress report, whatever versions clients send.                    *)
(***************************************************************************)

\* Who is completed has its completed_at: no statement writes one without the
\* other.
CompletedIsStamped ==
  \A t \in Tasks : drone_tasks[t].status = "completed" => drone_tasks[t].completed

\* Only a completion writes that status.
LEMMA StampingStep ==
  ASSUME TypeOK, [Next]_vars, NEW t \in Tasks
  PROVE  \/ drone_tasks'[t] = drone_tasks[t]
         \/ drone_tasks'[t].status # "completed"
         \/ drone_tasks'[t].completed
<1> DEFINE Effect == \/ drone_tasks'[t] = drone_tasks[t]
                     \/ drone_tasks'[t].status # "completed"
                     \/ drone_tasks'[t].completed
<1> HIDE DEF Effect
<1>1. \A x \in Tasks : drone_tasks[x] \in TaskRow
  BY DEF TypeOK
<1>2. ASSUME drone_tasks' = drone_tasks
      PROVE  Effect
  BY <1>2 DEF Effect
<1>3. ASSUME NEW x \in Tasks, NEW e \in Horizon, CreateDroneTask(x, e)
      PROVE  Effect
  BY <1>3 DEF CreateDroneTask, TypeOK, Effect
<1>4. ASSUME NEW x \in Tasks, NEW v,
             NEW status \in {"device_transfer_pending", "accepted", "archived"},
             MoveTaskRow(x, status, v)
      PROVE  Effect
  <2>1. drone_tasks' = [drone_tasks EXCEPT ![x] = WithStatus(drone_tasks[x], status)]
    BY <1>4 DEF MoveTaskRow
  <2>2. WithStatus(drone_tasks[x], status).status = status
    BY <1>1, <1>4, TaskWithStatus DEF DroneTaskStatus
  <2>3. QED
    BY <1>4, <2>1, <2>2 DEF TypeOK, Effect
<1>5. ASSUME NEW locked, MarkExpiredDroneTasks(locked)
      PROVE  Effect
  <2>1. WithStatus(drone_tasks[t], "rejected").status = "rejected"
    BY <1>1, TaskWithStatus DEF DroneTaskStatus
  <2>2. QED
    BY <1>5, <2>1 DEF MarkExpiredDroneTasks, Effect
<1>6. ASSUME NEW x \in Tasks, NEW v, CompleteTaskRow(x, v)
      PROVE  Effect
  BY <1>1, <1>6, TaskCompleted DEF CompleteTaskRow, TypeOK, Effect
<1>7. ASSUME NEW r \in Requests, WriteMove(r)
      PROVE  Effect
  BY <1>4, <1>6, <1>7 DEF WriteMove, TaskRequest
<1>8. ASSUME NEW x \in Tasks, NEW v,
             HandoffDroneTask(x, v) \/ AcceptDroneTask(x, v)
      PROVE  Effect
  BY <1>4, <1>8 DEF HandoffDroneTask, AcceptDroneTask
<1>9. Effect
  BY <1>2, <1>3, <1>5, <1>7, <1>8
  DEF Next, vars, Tick, CreateMission, ReadMission, WriteMission, ReadTask,
      CheckMove, Fail
<1>10. QED
  BY <1>9 DEF Effect

\* What the report rests on.
ProgressInv == CountersInv /\ CompletedIsStamped

\* If as many tasks are completed as there are places, each has one: tasks of a
\* unit are no more than its places, so they can be put in different ones, and
\* as many tasks as places leave none free.
LEMMA PlacesTaken ==
  ASSUME ProgressInv, NEW m \in Missions, MissionComplete(m), NEW u \in UnitsOf(m)
  PROVE  Required[u] <= Cardinality(CompletedTasksOf(u))
<1> DEFINE Done == TasksIn(m, "completed")
           Count(x) == Cardinality(CompletedTasksOf(x))
           SeatsOf(x) == CHOOSE g : g \in Bijection(1 .. Count(x), CompletedTasksOf(x))
           SeatOf(t) == CHOOSE k \in 1 .. Count(UnitOf[t]) : SeatsOf(UnitOf[t])[k] = t
           place == [t \in Done |-> <<UnitOf[t], SeatOf(t)>>]
<1>1. \A x \in Units :
        /\ IsFiniteSet(CompletedTasksOf(x))
        /\ Count(x) \in Nat
        /\ Required[x] \in Nat \ {0}
        /\ Count(x) <= Required[x]
  <2>1. \A x \in Units : IsFiniteSet(CompletedTasksOf(x)) /\ Count(x) \in Nat
    BY FiniteAssumption, FS_Subset, FS_CardinalityType DEF CompletedTasksOf
  <2>2. QED
    BY <2>1, StructureAssumption
    DEF ProgressInv, CountersInv, TypeOK, UnitNeverOverfull, CounterCoversCompletions
<1>2. \A x \in Units : SeatsOf(x) \in Bijection(1 .. Count(x), CompletedTasksOf(x))
  BY <1>1, FS_CardinalityType DEF ExistsBijection
<1>3. \A t \in Done : /\ t \in Tasks
                      /\ UnitOf[t] \in UnitsOf(m)
                      /\ UnitOf[t] \in Units
                      /\ t \in CompletedTasksOf(UnitOf[t])
  BY DEF TasksIn, UnitsOf, CompletedTasksOf, ProgressInv, CompletedIsStamped
<1> HIDE DEF Done, SeatsOf, Count
<1>4. \A t \in Done : /\ SeatOf(t) \in 1 .. Count(UnitOf[t])
                      /\ SeatsOf(UnitOf[t])[SeatOf(t)] = t
  BY <1>2, <1>3 DEF Bijection, Surjection
<1> HIDE DEF SeatOf
<1>5. /\ IsFiniteSet(Places(m))
      /\ \A x \in UnitsOf(m), k \in Nat :
           <<x, k>> \in Places(m) <=> k \in 1 .. Required[x]
  <2>1. UnitsOf(m) \subseteq Units /\ IsFiniteSet(UnitsOf(m))
    BY ProgressAssumption, FS_Subset DEF UnitsOf
  <2> DEFINE row == [x \in UnitsOf(m) |-> {x} \X (1 .. Required[x])]
             Rows == {row[x] : x \in UnitsOf(m)}
  <2>2. IsFiniteSet(Rows)
    <3>1. row \in Surjection(UnitsOf(m), Rows)
      BY DEF Surjection
    <3>2. QED
      BY <2>1, <3>1, FS_Surjection
  <2>3. ASSUME NEW x \in UnitsOf(m)
        PROVE  IsFiniteSet(row[x])
    <3>1. IsFiniteSet({x})
      BY FS_Singleton
    <3>2. 1 \in Int /\ Required[x] \in Int
      BY <1>1, <2>1
    <3>3. IsFiniteSet(1 .. Required[x])
      BY <3>2, FS_Interval
    <3>4. QED
      BY <3>1, <3>3, FS_Product
  <2>4. Places(m) = UNION Rows
    BY DEF Places
  <2>5. IsFiniteSet(UNION Rows)
    BY <2>2, <2>3, FS_UNION
  <2>6. \A x \in UnitsOf(m), k \in Nat :
          <<x, k>> \in Places(m) <=> k \in 1 .. Required[x]
    BY <1>1, <2>1 DEF Places
  <2>7. QED
    BY <2>4, <2>5, <2>6
<1>6. place \in Injection(Done, Places(m))
  <2>1. \A t \in Done : <<UnitOf[t], SeatOf(t)>> \in Places(m)
    BY <1>1, <1>3, <1>4, <1>5
  <2>2. \A s, t \in Done : place[s] = place[t] => s = t
    BY <1>4
  <2>3. QED
    BY <2>1, <2>2 DEF Injection, IsInjective
<1>7. /\ Cardinality(Done) <= Cardinality(Places(m))
      /\ Cardinality(Done) >= Cardinality(Places(m))
      /\ IsFiniteSet(Done)
  BY <1>5, <1>6, FS_Injection DEF MissionComplete, RequiredOf, Done
<1>8. place \in Surjection(Done, Places(m))
  BY <1>5, <1>6, <1>7, FS_Injection, FS_CardinalityType
<1>9. u \in Units /\ <<u, Required[u]>> \in Places(m)
  BY <1>1, <1>5 DEF UnitsOf
<1>10. PICK t \in Done : place[t] = <<u, Required[u]>>
  BY <1>8, <1>9 DEF Surjection
<1>11. UnitOf[t] = u /\ Required[u] \in 1 .. Count(u)
  BY <1>4, <1>10
<1>12. QED
  BY <1>1, <1>9, <1>11 DEF Count

\* The empty database has nothing to report.
LEMMA InitProgress == Init => ProgressInv
  BY InitCounters DEF Init, ProgressInv, CompletedIsStamped

\* The invariant is inductive, for every version a client may send.
LEMMA ProgressInvStep == ProgressInv /\ [Next]_vars => ProgressInv'
<1> SUFFICES ASSUME ProgressInv, [Next]_vars PROVE ProgressInv'
  OBVIOUS
<1>1. CountersInv' /\ TypeOK
  BY CountersInvStep DEF ProgressInv, CountersInv
<1>2. CompletedIsStamped'
  BY <1>1, StampingStep DEF ProgressInv, CompletedIsStamped
<1>3. QED
  BY <1>1, <1>2 DEF ProgressInv

\* And it is enough: the counter of a unit is between its completed tasks and
\* its places.
LEMMA ReportIsRight == ProgressInv => CompleteReportMeansFull
<1> SUFFICES ASSUME ProgressInv, NEW m \in Missions, MissionComplete(m),
                    NEW u \in UnitsOf(m)
             PROVE  mission_drones[u] = Required[u]
  BY DEF CompleteReportMeansFull
<1>1. Required[u] <= Cardinality(CompletedTasksOf(u))
  BY PlacesTaken
<1>2. IsFiniteSet(CompletedTasksOf(u))
  BY FiniteAssumption, FS_Subset DEF CompletedTasksOf
<1>3. /\ Required[u] \in Nat
      /\ mission_drones[u] \in Nat
      /\ Cardinality(CompletedTasksOf(u)) \in Nat
      /\ Cardinality(CompletedTasksOf(u)) <= mission_drones[u]
      /\ mission_drones[u] <= Required[u]
  BY <1>2, StructureAssumption, FS_CardinalityType
  DEF UnitsOf, ProgressInv, CountersInv, TypeOK, UnitNeverOverfull,
      CounterCoversCompletions
<1>4. QED
  BY <1>1, <1>3

\* No unit makes up for another: a mission that is reported complete has every
\* unit full, whatever versions clients send.
THEOREM CompleteMeansFull == Spec => []CompleteReportMeansFull
  BY InitProgress, ProgressInvStep, ReportIsRight, PTL DEF Spec

=============================================================================
