------------------------- MODULE MissionBatchesProofs -------------------------
(***************************************************************************)
(* Proofs about MissionBatches, for every number of batches, tasks and     *)
(* alerts and whatever versions clients send.                              *)
(***************************************************************************)
EXTENDS MissionBatches, DroneTasksProofs

-----------------------------------------------------------------------------
(***************************************************************************)
(* Type correctness.                                                       *)
(***************************************************************************)

\* A batch row keeps its type, and what WithStatus changes in it.
LEMMA BatchWithStatus ==
  ASSUME NEW row \in BatchRow, NEW status \in BatchStatus
  PROVE  /\ WithStatus(row, status) \in BatchRow
         /\ WithStatus(row, status).status = status
         /\ WithStatus(row, status).version = row.version + 1
<1>1. row.version + 1 \in Nat
  BY DEF BatchRow
<1>2. WithStatus(row, status) \in BatchRow
  BY <1>1, Zenon DEF WithStatus, BatchRow
<1>3. QED
  BY <1>2 DEF WithStatus, BatchRow

\* The same for a row of telemetry.
LEMMA TelemetryWithStatus ==
  ASSUME NEW row \in TelemetryRow, NEW status \in TelemetryStatus
  PROVE  /\ WithStatus(row, status) \in TelemetryRow
         /\ WithStatus(row, status).status = status
         /\ WithStatus(row, status).version = row.version + 1
<1>1. row.version + 1 \in Nat
  BY DEF TelemetryRow
<1>2. WithStatus(row, status) \in TelemetryRow
  BY <1>1, Zenon DEF WithStatus, TelemetryRow
<1>3. QED
  BY <1>2 DEF WithStatus, TelemetryRow

\* Writing an audit row keeps the audit table of batches well typed.
LEMMA WriteBatchAuditType ==
  ASSUME BatchTypeOK, NEW type, NEW id, <<type, id>> \in BatchAuditKeys,
         WriteBatchAudit(type, id)
  PROVE  batch_audit_events' \in [BatchAuditKeys -> Nat]
  BY DEF BatchTypeOK, WriteBatchAudit

\* The audit keys of batches, telemetry and alerts.
LEMMA BatchAuditKeysFact ==
  /\ \A b \in Batches : <<"mission_batch", b>> \in BatchAuditKeys
  /\ \A t \in Tasks, b \in Batches :
       <<"telemetry", <<t, b>>>> \in BatchAuditKeys
  /\ \A t \in Tasks, kind \in AlertKinds :
       <<"safety_alert", <<t, kind>>>> \in BatchAuditKeys
  /\ "reassess" \in AlertKinds
  BY BatchAssumption DEF BatchAuditKeys

\* Moving some tasks to one status keeps the table of tasks well typed.
LEMMA TasksMovedType ==
  ASSUME TypeOK, NEW S, NEW status \in DroneTaskStatus,
         drone_tasks' = [t \in Tasks |->
           IF t \in S THEN WithStatus(drone_tasks[t], status)
                      ELSE drone_tasks[t]],
         UNCHANGED <<now, drone_missions, mission_drones,
                     device_transfer_events, audit_events, requests>>
  PROVE  TypeOK'
<1>1. \A t \in Tasks : drone_tasks[t] \in TaskRow
  BY DEF TypeOK
<1>2. \A t \in Tasks : WithStatus(drone_tasks[t], status) \in TaskRow
  BY <1>1, TaskWithStatus
<1>3. drone_tasks' \in [Tasks -> TaskRow]
  BY <1>1, <1>2
<1>4. QED
  BY <1>3 DEF TypeOK

\* The update of a batch keeps the table of batches well typed.
LEMMA ChangeBatchRowType ==
  ASSUME BatchTypeOK, NEW b \in Batches, NEW from, NEW to \in BatchStatus,
         NEW v, ChangeBatchRow(b, from, to, v)
  PROVE  /\ mission_batches' \in [Batches -> BatchRow]
         /\ mission_batches[b].status \in from
         /\ mission_batches'[b].status = to
         /\ mission_batches'[b].version = mission_batches[b].version + 1
         /\ \A c \in Batches \ {b} : mission_batches'[c] = mission_batches[c]
<1>1. mission_batches \in [Batches -> BatchRow]
  BY DEF BatchTypeOK
<1>2. /\ WithStatus(mission_batches[b], to) \in BatchRow
      /\ WithStatus(mission_batches[b], to).status = to
      /\ WithStatus(mission_batches[b], to).version
           = mission_batches[b].version + 1
  BY <1>1, BatchWithStatus
<1>3. /\ mission_batches' =
           [mission_batches EXCEPT ![b] = WithStatus(mission_batches[b], to)]
      /\ mission_batches[b].status \in from
  BY DEF ChangeBatchRow
<1>4. QED
  BY <1>1, <1>2, <1>3

\* The verdict of a review keeps the table of telemetry well typed.
LEMMA ReviewType ==
  ASSUME BatchTypeOK, NEW t \in Tasks, NEW b \in Batches,
         NEW status \in TelemetryStatus, NEW v,
         ReviewObservationRecord(t, b, status, v)
  PROVE  /\ telemetry_events' \in [Tasks \X Batches -> TelemetryRow]
         /\ telemetry_events[<<t, b>>].status = "pending"
         /\ telemetry_events'[<<t, b>>].status = status
         /\ telemetry_events'[<<t, b>>].version
              = telemetry_events[<<t, b>>].version + 1
         /\ \A tb \in (Tasks \X Batches) \ {<<t, b>>} :
              telemetry_events'[tb] = telemetry_events[tb]
<1>1. /\ telemetry_events \in [Tasks \X Batches -> TelemetryRow]
      /\ <<t, b>> \in Tasks \X Batches
  BY DEF BatchTypeOK
<1> DEFINE tb == <<t, b>>
<1>2. /\ WithStatus(telemetry_events[tb], status) \in TelemetryRow
      /\ WithStatus(telemetry_events[tb], status).status = status
      /\ WithStatus(telemetry_events[tb], status).version
           = telemetry_events[tb].version + 1
  BY <1>1, TelemetryWithStatus
<1>3. /\ telemetry_events' = [telemetry_events EXCEPT
           ![tb] = WithStatus(telemetry_events[tb], status)]
      /\ telemetry_events[tb].status = "pending"
  BY DEF ReviewObservationRecord
<1> HIDE DEF tb
<1>4. tb \in Tasks \X Batches
  BY <1>1 DEF tb
<1>5. /\ telemetry_events' \in [Tasks \X Batches -> TelemetryRow]
      /\ telemetry_events[tb].status = "pending"
      /\ telemetry_events'[tb].status = status
      /\ telemetry_events'[tb].version = telemetry_events[tb].version + 1
      /\ \A x \in (Tasks \X Batches) \ {tb} :
           telemetry_events'[x] = telemetry_events[x]
  BY <1>1, <1>2, <1>3, <1>4
<1>6. QED
  BY <1>5 DEF tb

\* Opening or moving an alert keeps the table of alerts well typed.
LEMMA AlertTypes ==
  ASSUME BatchTypeOK, NEW t \in Tasks, NEW kind \in AlertKinds
  PROVE  /\ CreateIntervention(t, kind) =>
              safety_alerts' \subseteq Tasks \X AlertKinds \X AlertStatus
         /\ \A from, to \in AlertStatus :
              MoveAlert(t, kind, from, to) =>
                safety_alerts' \subseteq Tasks \X AlertKinds \X AlertStatus
  BY DEF CreateIntervention, MoveAlert, BatchTypeOK, AlertStatus

\* The empty database is well typed.
LEMMA BatchInitType == BatchInit => BatchTypeOK
  BY InitType DEF BatchInit, BatchTypeOK, NoRow, BatchRow, TelemetryRow

\* Every step keeps the state well typed, one case per action.
LEMMA BatchTypeStep == BatchTypeOK /\ [BatchNext]_batch_vars => BatchTypeOK'
<1> SUFFICES ASSUME BatchTypeOK, [BatchNext]_batch_vars PROVE BatchTypeOK'
  OBVIOUS
<1>0. TypeOK
  BY DEF BatchTypeOK
<1>1. CASE UNCHANGED batch_vars
  BY <1>1 DEF batch_vars, vars, batch_tables, BatchTypeOK, TypeOK
<1>2. CASE Next /\ UNCHANGED batch_tables
  <2>1. TypeOK'
    BY <1>0, <1>2, TypeStep
  <2>2. QED
    BY <1>2, <2>1 DEF batch_tables, BatchTypeOK
<1>3. ASSUME NEW b \in Batches, NEW S \in SUBSET Tasks, NEW began,
             CreateDroneMissionBatch(b, S, began)
      PROVE  BatchTypeOK'
  <2>1. TypeOK'
    BY <1>0, <1>3, TasksMovedType
    DEF CreateDroneMissionBatch, DroneTaskStatus
  <2>2. batch_audit_events' \in [BatchAuditKeys -> Nat]
    BY <1>3, WriteBatchAuditType, BatchAuditKeysFact
    DEF CreateDroneMissionBatch
  <2>3. mission_batches' \in [Batches -> BatchRow]
    BY <1>3 DEF CreateDroneMissionBatch, BatchTypeOK, BatchRow, BatchStatus
  <2>4. mission_batch_tasks' \subseteq Batches \X Tasks
    BY <1>3 DEF CreateDroneMissionBatch, BatchTypeOK
  <2>5. QED
    BY <1>3, <2>1, <2>2, <2>3, <2>4 DEF CreateDroneMissionBatch, BatchTypeOK
<1>4. ASSUME NEW b \in Batches, NEW v,
             StartDroneMissionBatch(b, v) \/ CompleteDroneMissionBatch(b, v)
      PROVE  BatchTypeOK'
  <2>1. mission_batches' \in [Batches -> BatchRow]
    BY <1>4, ChangeBatchRowType
    DEF StartDroneMissionBatch, CompleteDroneMissionBatch, BatchStatus
  <2>2. batch_audit_events' \in [BatchAuditKeys -> Nat]
    BY <1>4, WriteBatchAuditType, BatchAuditKeysFact
    DEF StartDroneMissionBatch, CompleteDroneMissionBatch
  <2>3. TypeOK'
    BY <1>0, <1>4
    DEF StartDroneMissionBatch, CompleteDroneMissionBatch, vars, TypeOK
  <2>4. QED
    BY <1>4, <2>1, <2>2, <2>3
    DEF StartDroneMissionBatch, CompleteDroneMissionBatch, BatchTypeOK
<1>5. ASSUME NEW b \in Batches, NEW v, CancelDroneMissionBatch(b, v)
      PROVE  BatchTypeOK'
  <2>1. mission_batches' \in [Batches -> BatchRow]
    BY <1>5, ChangeBatchRowType DEF CancelDroneMissionBatch, BatchStatus
  <2>2. batch_audit_events' \in [BatchAuditKeys -> Nat]
    BY <1>5, WriteBatchAuditType, BatchAuditKeysFact
    DEF CancelDroneMissionBatch
  <2>3. TypeOK'
    <3> DEFINE S == {t \in Tasks :
                       t \in TasksOf(b) /\ drone_tasks[t].status = "in_progress"}
    <3>1. drone_tasks' = [t \in Tasks |->
            IF t \in S THEN WithStatus(drone_tasks[t], "accepted")
                       ELSE drone_tasks[t]]
      BY <1>5 DEF CancelDroneMissionBatch, RestoredTasks
    <3>2. QED
      BY <1>0, <1>5, <3>1, TasksMovedType
      DEF CancelDroneMissionBatch, DroneTaskStatus
  <2>4. QED
    BY <1>5, <2>1, <2>2, <2>3 DEF CancelDroneMissionBatch, BatchTypeOK
<1>6. ASSUME NEW t \in Tasks, NEW b \in Batches,
             \/ ValidateObservationTarget(t, b)
             \/ AbandonObservation(t, b)
      PROVE  BatchTypeOK'
  BY <1>0, <1>6
  DEF ValidateObservationTarget, AbandonObservation, vars, BatchTypeOK, TypeOK
<1>7. ASSUME NEW t \in Tasks, NEW b \in Batches, CreateObservation(t, b)
      PROVE  BatchTypeOK'
  <2>1. batch_audit_events' \in [BatchAuditKeys -> Nat]
    BY <1>7, WriteBatchAuditType, BatchAuditKeysFact DEF CreateObservation
  <2>2. [status |-> "pending", version |-> 1] \in TelemetryRow
    BY DEF TelemetryRow, TelemetryStatus
  <2>3. telemetry_events' \in [Tasks \X Batches -> TelemetryRow]
    BY <1>7, <2>2 DEF CreateObservation, BatchTypeOK
  <2>4. TypeOK'
    BY <1>0, <1>7 DEF CreateObservation, vars, TypeOK
  <2>5. QED
    BY <1>7, <2>1, <2>3, <2>4 DEF CreateObservation, BatchTypeOK
<1>8. ASSUME NEW t \in Tasks, NEW b \in Batches, NEW w, NEW v,
             AcceptObservation(t, b, w, v) \/ RejectObservation(t, b, w, v)
      PROVE  BatchTypeOK'
  <2>1. batch_audit_events' \in [BatchAuditKeys -> Nat]
    <3>1. CASE AcceptObservation(t, b, w, v)
      BY <3>1, WriteBatchAuditType, BatchAuditKeysFact DEF AcceptObservation
    <3>2. CASE RejectObservation(t, b, w, v)
      <4> DEFINE x == <<"telemetry", <<t, b>>>>
                 y == <<"safety_alert", <<t, "reassess">>>>
      <4>1. x \in BatchAuditKeys /\ y \in BatchAuditKeys
        BY BatchAuditKeysFact
      <4>2. batch_audit_events' =
              [batch_audit_events EXCEPT ![x] = @ + 1, ![y] = @ + 1]
        BY <3>2 DEF RejectObservation
      <4> HIDE DEF x, y
      <4>3. QED
        BY <4>1, <4>2 DEF BatchTypeOK
    <3>3. QED
      BY <1>8, <3>1, <3>2
  <2>2. telemetry_events' \in [Tasks \X Batches -> TelemetryRow]
    BY <1>8, ReviewType
    DEF AcceptObservation, RejectObservation, TelemetryStatus
  <2>3. /\ drone_tasks' \in [Tasks -> TaskRow]
        /\ mission_drones' \in [Units -> Nat]
    BY <1>0, <1>8, MoveTaskRowType
    DEF AcceptObservation, RejectObservation, DroneTaskStatus
  <2>4. safety_alerts' \subseteq Tasks \X AlertKinds \X AlertStatus
    BY <1>8, AlertTypes, BatchAuditKeysFact
    DEF AcceptObservation, RejectObservation, BatchTypeOK
  <2>5. TypeOK'
    BY <1>0, <1>8, <2>3 DEF AcceptObservation, RejectObservation, TypeOK
  <2>6. QED
    BY <1>8, <2>1, <2>2, <2>4, <2>5
    DEF AcceptObservation, RejectObservation, BatchTypeOK
<1>9. ASSUME NEW t \in Tasks, NEW kind \in AlertKinds,
             \/ OpenIntervention(t, kind)
             \/ MarkInterventionInProgress(t, kind)
             \/ CloseIntervention(t, kind)
      PROVE  BatchTypeOK'
  <2>1. batch_audit_events' \in [BatchAuditKeys -> Nat]
    BY <1>9, WriteBatchAuditType, BatchAuditKeysFact
    DEF OpenIntervention, MarkInterventionInProgress, CloseIntervention
  <2>2. safety_alerts' \subseteq Tasks \X AlertKinds \X AlertStatus
    BY <1>9, AlertTypes
    DEF OpenIntervention, MarkInterventionInProgress, CloseIntervention,
        AlertStatus
  <2>3. TypeOK'
    BY <1>0, <1>9
    DEF OpenIntervention, MarkInterventionInProgress, CloseIntervention, vars,
        TypeOK
  <2>4. QED
    BY <1>9, <2>1, <2>2, <2>3
    DEF OpenIntervention, MarkInterventionInProgress, CloseIntervention,
        BatchTypeOK
<1>10. QED
  BY <1>1, <1>2, <1>3, <1>4, <1>5, <1>6, <1>7, <1>8, <1>9
  DEF BatchNext, BatchStep

\* Every reachable state is well typed.
THEOREM BatchTypeCorrect == BatchSpec => []BatchTypeOK
<1>1. QED
  BY BatchInitType, BatchTypeStep, PTL DEF BatchSpec

-----------------------------------------------------------------------------
(***************************************************************************)
(* What one step does to the tables.                                       *)
(***************************************************************************)

TransferStep(t) == device_transfer_events'[t] >= device_transfer_events[t]

BatchCreated(b) ==
  /\ mission_batches[b].status = "absent"
  /\ mission_batches'[b].status = "queued"

\* A task moves without a batch, with a new one, or back from one it is in.
TaskStep(t) ==
  \/ drone_tasks'[t].status = drone_tasks[t].status
  \/ drone_tasks'[t].status \in {"queued", "completed", "rejected", "archived"}
  \/ /\ drone_tasks'[t].status \in {"device_transfer_pending", "accepted"}
     /\ device_transfer_events'[t] > 0
  \/ /\ drone_tasks[t].status = "in_progress"
     /\ drone_tasks'[t].status = "accepted"
  \/ /\ drone_tasks'[t].status = "verified"
     /\ \E b \in Batches : HasTelemetry(t, b)
  \/ /\ drone_tasks[t].status = "accepted"
     /\ drone_tasks'[t].status = "in_progress"
     /\ \E b \in Batches : BatchCreated(b) /\ t \in TasksOf(b)'

BatchRowStep(b) ==
  \/ mission_batches'[b].status = mission_batches[b].status
  \/ BatchCreated(b)
  \/ /\ mission_batches[b].status = "queued"
     /\ mission_batches'[b].status = "running"
  \/ /\ mission_batches[b].status = "running"
     /\ mission_batches'[b].status = "completed"
     /\ AllReviewed(b)
  \/ /\ mission_batches[b].status \in {"queued", "running"}
     /\ mission_batches'[b].status = "cancelled"
     /\ \A t \in TasksOf(b) : drone_tasks'[t].status # "in_progress"

\* Tasks are linked to a batch when it is created, and never again.
LinkStep(b) ==
  \/ TasksOf(b)' = TasksOf(b)
  \/ /\ mission_batches[b].status = "absent"
     /\ TasksOf(b) \subseteq TasksOf(b)'
     /\ \A t \in TasksOf(b)' : t \in TasksOf(b) \/ drone_tasks[t].status = "accepted"

TelemetryStep(t, b) ==
  \/ telemetry_events'[<<t, b>>].status = telemetry_events[<<t, b>>].status
  \/ /\ telemetry_events[<<t, b>>].status = "absent"
     /\ telemetry_events'[<<t, b>>].status = "pending"
     /\ <<t, b>> \in submissions
  \/ /\ telemetry_events[<<t, b>>].status = "pending"
     /\ telemetry_events'[<<t, b>>].status \in {"verified", "rejected"}
     /\ drone_tasks'[t].status # "in_progress"

SubmissionStep(t, b) ==
  <<t, b>> \in submissions' =>
    \/ <<t, b>> \in submissions
    \/ t \in TasksOf(b) /\ mission_batches[b].status = "running"

BatchEffect ==
  /\ \A t \in Tasks : TransferStep(t) /\ TaskStep(t)
  /\ \A b \in Batches : BatchRowStep(b) /\ LinkStep(b)
  /\ \A t \in Tasks, b \in Batches : TelemetryStep(t, b) /\ SubmissionStep(t, b)

\* A step that leaves transfers and tasks alone.
LEMMA TasksKept ==
  ASSUME TypeOK, UNCHANGED <<drone_tasks, device_transfer_events>>, NEW t \in Tasks
  PROVE  TransferStep(t) /\ TaskStep(t)
  BY DEF TransferStep, TaskStep, TypeOK

\* A step that leaves batches and their tasks alone.
LEMMA BatchesKept ==
  ASSUME UNCHANGED <<mission_batches, mission_batch_tasks>>, NEW b \in Batches
  PROVE  BatchRowStep(b) /\ LinkStep(b)
  BY DEF BatchRowStep, LinkStep, TasksOf

\* A step that leaves telemetry alone and checks no submission.
LEMMA TelemetryKept ==
  ASSUME telemetry_events' = telemetry_events,
         submissions' \subseteq submissions,
         NEW t \in Tasks, NEW b \in Batches
  PROVE  TelemetryStep(t, b) /\ SubmissionStep(t, b)
  BY DEF TelemetryStep, SubmissionStep

\* An update of a task by its version moves that task alone.
LEMMA MoveTaskRowEffect ==
  ASSUME TypeOK, NEW t \in Tasks, NEW status \in DroneTaskStatus, NEW v,
         MoveTaskRow(t, status, v)
  PROVE  /\ drone_tasks'[t].status = status
         /\ \A x \in Tasks \ {t} : drone_tasks'[x] = drone_tasks[x]
<1>1. /\ drone_tasks[t] \in TaskRow
      /\ drone_tasks'[t] = WithStatus(drone_tasks[t], status)
      /\ \A x \in Tasks \ {t} : drone_tasks'[x] = drone_tasks[x]
  BY DEF MoveTaskRow, TypeOK
<1>2. QED
  BY <1>1, TaskWithStatus

\* The steps of DroneTasks put no task in progress, and none in custody without
\* recording the transfer.
LEMMA BaseTaskStep ==
  ASSUME TypeOK, [Next]_vars
  PROVE  \A t \in Tasks : TransferStep(t) /\ TaskStep(t)
<1>1. ASSUME UNCHANGED <<drone_tasks, device_transfer_events>>
      PROVE  \A t \in Tasks : TransferStep(t) /\ TaskStep(t)
  BY <1>1, TasksKept
<1>2. ASSUME NEW t \in Tasks, NEW x \in Horizon, CreateDroneTask(t, x)
      PROVE  \A y \in Tasks : TransferStep(y) /\ TaskStep(y)
  BY <1>2 DEF CreateDroneTask, TransferStep, TaskStep, TypeOK
<1>3. ASSUME NEW t \in Tasks, NEW v,
             HandoffDroneTask(t, v) \/ AcceptDroneTask(t, v)
      PROVE  \A y \in Tasks : TransferStep(y) /\ TaskStep(y)
  <2>1. PICK status \in {"device_transfer_pending", "accepted"} :
          MoveTaskRow(t, status, v)
    BY <1>3 DEF HandoffDroneTask, AcceptDroneTask
  <2>2. /\ drone_tasks'[t].status = status
        /\ \A x \in Tasks \ {t} : drone_tasks'[x] = drone_tasks[x]
    BY <2>1, MoveTaskRowEffect DEF DroneTaskStatus
  <2>3. /\ device_transfer_events'[t] = device_transfer_events[t] + 1
        /\ \A x \in Tasks \ {t} :
             device_transfer_events'[x] = device_transfer_events[x]
        /\ \A x \in Tasks : device_transfer_events[x] \in Nat
    BY <1>3 DEF HandoffDroneTask, AcceptDroneTask, RecordHandoff, TypeOK
  <2>4. QED
    BY <2>2, <2>3 DEF TransferStep, TaskStep
<1>4. ASSUME NEW locked, MarkExpiredDroneTasks(locked)
      PROVE  \A t \in Tasks : TransferStep(t) /\ TaskStep(t)
  <2>1. PICK S \in SUBSET Tasks :
          /\ drone_tasks' = [t \in Tasks |->
               IF t \in S
               THEN WithStatus(drone_tasks[t], "rejected")
               ELSE drone_tasks[t]]
          /\ device_transfer_events' = device_transfer_events
    BY <1>4 DEF MarkExpiredDroneTasks
  <2>2. /\ \A t \in Tasks : drone_tasks[t] \in TaskRow
        /\ "rejected" \in DroneTaskStatus
    BY DEF TypeOK, DroneTaskStatus
  <2>3. \A t \in Tasks : WithStatus(drone_tasks[t], "rejected").status = "rejected"
    BY <2>2, TaskWithStatus
  <2>4. \A t \in Tasks :
          drone_tasks'[t].status \in {drone_tasks[t].status, "rejected"}
    BY <2>1, <2>3
  <2>5. QED
    BY <2>1, <2>4 DEF TransferStep, TaskStep, TypeOK
<1>5. ASSUME NEW r \in Requests, WriteMove(r)
      PROVE  \A t \in Tasks : TransferStep(t) /\ TaskStep(t)
  <2> DEFINE t == requests[r].id
             v == requests[r].version
  <2>1. /\ t \in Tasks
        /\ device_transfer_events' = device_transfer_events
        /\ CompleteTaskRow(t, v) \/ MoveTaskRow(t, "archived", v)
    BY <1>5 DEF WriteMove, TaskRequest
  <2> HIDE DEF t, v
  <2>2. CASE CompleteTaskRow(t, v)
    <3>1. /\ drone_tasks[t] \in TaskRow
          /\ drone_tasks'[t] = AsCompleted(drone_tasks[t])
          /\ \A x \in Tasks \ {t} : drone_tasks'[x] = drone_tasks[x]
      BY <2>1, <2>2 DEF CompleteTaskRow, TypeOK
    <3>2. drone_tasks'[t].status = "completed"
      BY <3>1, TaskCompleted
    <3>3. QED
      BY <2>1, <3>1, <3>2 DEF TransferStep, TaskStep, TypeOK
  <2>3. CASE MoveTaskRow(t, "archived", v)
    <3>1. /\ drone_tasks'[t].status = "archived"
          /\ \A x \in Tasks \ {t} : drone_tasks'[x] = drone_tasks[x]
      BY <2>1, <2>3, MoveTaskRowEffect DEF DroneTaskStatus
    <3>2. QED
      BY <2>1, <3>1 DEF TransferStep, TaskStep, TypeOK
  <2>4. QED
    BY <2>1, <2>2, <2>3
<1>6. QED
  BY <1>1, <1>2, <1>3, <1>4, <1>5
  DEF Next, vars, Tick, CreateMission, ReadMission, WriteMission, ReadTask,
      CheckMove, Fail

\* A new batch puts accepted tasks in progress.
LEMMA CreateBatchEffect ==
  ASSUME BatchTypeOK, NEW b \in Batches, NEW S \in SUBSET Tasks, NEW began,
         CreateDroneMissionBatch(b, S, began)
  PROVE  BatchEffect
<1>1. /\ mission_batches[b].status = "absent"
      /\ mission_batches'[b].status = "queued"
      /\ \A c \in Batches \ {b} : mission_batches'[c] = mission_batches[c]
  BY DEF CreateDroneMissionBatch, BatchTypeOK
<1>2. /\ TasksOf(b)' = TasksOf(b) \union S
      /\ \A c \in Batches \ {b} : TasksOf(c)' = TasksOf(c)
  BY DEF CreateDroneMissionBatch, TasksOf
<1>3. \A t \in S : drone_tasks[t].status = "accepted"
  BY DEF CreateDroneMissionBatch, Attachable
<1>4. /\ \A t \in Tasks : drone_tasks[t] \in TaskRow
      /\ "in_progress" \in DroneTaskStatus
  BY DEF BatchTypeOK, TypeOK, DroneTaskStatus
<1>5. \A t \in Tasks :
        WithStatus(drone_tasks[t], "in_progress").status = "in_progress"
  BY <1>4, TaskWithStatus
<1>6. /\ \A t \in S : drone_tasks'[t].status = "in_progress"
      /\ \A t \in Tasks \ S : drone_tasks'[t] = drone_tasks[t]
  BY <1>5 DEF CreateDroneMissionBatch
<1>7. \A t \in Tasks : TransferStep(t) /\ TaskStep(t)
  <2>1. \A t \in Tasks : TransferStep(t)
    BY DEF CreateDroneMissionBatch, BatchTypeOK, TypeOK, TransferStep
  <2>2. \A t \in S : \E c \in Batches : BatchCreated(c) /\ t \in TasksOf(c)'
    BY <1>1, <1>2 DEF BatchCreated
  <2>3. \A t \in S : TaskStep(t)
    BY <1>3, <1>6, <2>2 DEF TaskStep
  <2>4. \A t \in Tasks \ S : TaskStep(t)
    BY <1>6 DEF TaskStep
  <2>5. QED
    BY <2>1, <2>3, <2>4
<1>8. \A c \in Batches : BatchRowStep(c) /\ LinkStep(c)
  BY <1>1, <1>2, <1>3 DEF BatchRowStep, LinkStep, BatchCreated
<1>9. \A t \in Tasks, c \in Batches : TelemetryStep(t, c) /\ SubmissionStep(t, c)
  BY TelemetryKept DEF CreateDroneMissionBatch
<1>10. QED
  BY <1>7, <1>8, <1>9 DEF BatchEffect

\* A batch is started, or completed with every task reviewed.
LEMMA AdvanceBatchEffect ==
  ASSUME BatchTypeOK, NEW b \in Batches, NEW v,
         StartDroneMissionBatch(b, v) \/ CompleteDroneMissionBatch(b, v)
  PROVE  BatchEffect
<1>1. /\ UNCHANGED <<drone_tasks, device_transfer_events, telemetry_events,
                     submissions, mission_batch_tasks>>
      /\ TypeOK
  BY DEF StartDroneMissionBatch, CompleteDroneMissionBatch, vars, BatchTypeOK
<1>2. \/ /\ mission_batches[b].status = "queued"
         /\ mission_batches'[b].status = "running"
      \/ /\ mission_batches[b].status = "running"
         /\ mission_batches'[b].status = "completed"
         /\ AllReviewed(b)
  <2>1. CASE StartDroneMissionBatch(b, v)
    <3>1. ChangeBatchRow(b, {"queued"}, "running", v) /\ "running" \in BatchStatus
      BY <2>1 DEF StartDroneMissionBatch, BatchStatus
    <3>2. /\ mission_batches[b].status \in {"queued"}
          /\ mission_batches'[b].status = "running"
      BY <3>1, ChangeBatchRowType
    <3>3. QED
      BY <3>2
  <2>2. CASE CompleteDroneMissionBatch(b, v)
    <3>1. /\ ChangeBatchRow(b, {"running"}, "completed", v)
          /\ "completed" \in BatchStatus
          /\ AllReviewed(b)
      BY <2>2 DEF CompleteDroneMissionBatch, BatchStatus
    <3>2. /\ mission_batches[b].status \in {"running"}
          /\ mission_batches'[b].status = "completed"
      BY <3>1, ChangeBatchRowType
    <3>3. QED
      BY <3>1, <3>2
  <2>3. QED
    BY <2>1, <2>2
<1>3. \A c \in Batches \ {b} : mission_batches'[c] = mission_batches[c]
  BY ChangeBatchRowType
  DEF StartDroneMissionBatch, CompleteDroneMissionBatch, BatchStatus
<1>4. \A c \in Batches : BatchRowStep(c) /\ LinkStep(c)
  BY <1>1, <1>2, <1>3 DEF BatchRowStep, LinkStep, TasksOf
<1>5. QED
  BY <1>1, <1>4, TasksKept, TelemetryKept DEF BatchEffect

\* A cancelled batch leaves none of its tasks in progress.
LEMMA CancelBatchEffect ==
  ASSUME BatchTypeOK, NEW b \in Batches, NEW v, CancelDroneMissionBatch(b, v)
  PROVE  BatchEffect
<1>1. /\ UNCHANGED <<device_transfer_events, telemetry_events, submissions,
                     mission_batch_tasks>>
      /\ TypeOK
  BY DEF CancelDroneMissionBatch, BatchTypeOK
<1>2. /\ mission_batches[b].status \in {"queued", "running"}
      /\ mission_batches'[b].status = "cancelled"
      /\ \A c \in Batches \ {b} : mission_batches'[c] = mission_batches[c]
  BY ChangeBatchRowType DEF CancelDroneMissionBatch, BatchStatus
<1>3. /\ \A t \in Tasks : drone_tasks[t] \in TaskRow
      /\ "accepted" \in DroneTaskStatus
  BY <1>1 DEF TypeOK, DroneTaskStatus
<1>4. \A t \in Tasks : WithStatus(drone_tasks[t], "accepted").status = "accepted"
  BY <1>3, TaskWithStatus
<1>5. \A t \in Tasks :
        drone_tasks'[t] =
          IF t \in TasksOf(b) /\ drone_tasks[t].status = "in_progress"
          THEN WithStatus(drone_tasks[t], "accepted")
          ELSE drone_tasks[t]
  BY DEF CancelDroneMissionBatch, RestoredTasks
<1>6. \A t \in Tasks : TransferStep(t) /\ TaskStep(t)
  BY <1>1, <1>4, <1>5 DEF TransferStep, TaskStep, TypeOK
<1>7. \A t \in TasksOf(b) : drone_tasks'[t].status # "in_progress"
  BY <1>4, <1>5 DEF TasksOf
<1>8. \A c \in Batches : BatchRowStep(c) /\ LinkStep(c)
  BY <1>1, <1>2, <1>7 DEF BatchRowStep, LinkStep, TasksOf
<1>9. QED
  BY <1>1, <1>6, <1>8, TelemetryKept DEF BatchEffect

\* A submission is checked, inserted or abandoned.
LEMMA SubmitEffect ==
  ASSUME BatchTypeOK, NEW t \in Tasks, NEW b \in Batches,
         \/ ValidateObservationTarget(t, b)
         \/ CreateObservation(t, b)
         \/ AbandonObservation(t, b)
  PROVE  BatchEffect
<1>1. /\ UNCHANGED <<drone_tasks, device_transfer_events, mission_batches,
                     mission_batch_tasks>>
      /\ TypeOK
  BY DEF ValidateObservationTarget, CreateObservation, AbandonObservation, vars,
         BatchTypeOK
<1>2. ASSUME NEW x \in Tasks, NEW c \in Batches
      PROVE  TelemetryStep(x, c) /\ SubmissionStep(x, c)
  <2>1. CASE ValidateObservationTarget(t, b)
    BY <2>1
    DEF ValidateObservationTarget, TelemetryStep, SubmissionStep, TasksOf
  <2>2. CASE CreateObservation(t, b)
    <3>1. SubmissionStep(x, c)
      BY <2>2 DEF CreateObservation, SubmissionStep
    <3>2. TelemetryStep(x, c)
      BY <2>2 DEF CreateObservation, HasTelemetry, TelemetryStep, BatchTypeOK
    <3>3. QED
      BY <3>1, <3>2
  <2>3. CASE AbandonObservation(t, b)
    BY <2>3, TelemetryKept DEF AbandonObservation
  <2>4. QED
    BY <2>1, <2>2, <2>3
<1>3. QED
  BY <1>1, <1>2, TasksKept, BatchesKept DEF BatchEffect

\* A review gives its verdict to the telemetry and to the task.
LEMMA ReviewEffect ==
  ASSUME BatchTypeOK, NEW t \in Tasks, NEW b \in Batches, NEW w, NEW v,
         AcceptObservation(t, b, w, v) \/ RejectObservation(t, b, w, v)
  PROVE  BatchEffect
<1>1. /\ UNCHANGED <<device_transfer_events, mission_batches,
                     mission_batch_tasks, submissions>>
      /\ TypeOK
  BY DEF AcceptObservation, RejectObservation, BatchTypeOK
<1>2. PICK verdict \in {"verified", "rejected"} :
        /\ ReviewObservationRecord(t, b, verdict, w)
        /\ MoveTaskRow(t, verdict, v)
  BY DEF AcceptObservation, RejectObservation
<1>3. verdict \in TelemetryStatus /\ verdict \in DroneTaskStatus
  BY DEF TelemetryStatus, DroneTaskStatus
<1>4. /\ telemetry_events[<<t, b>>].status = "pending"
      /\ telemetry_events'[<<t, b>>].status = verdict
      /\ \A tb \in (Tasks \X Batches) \ {<<t, b>>} :
           telemetry_events'[tb] = telemetry_events[tb]
  BY <1>2, <1>3, ReviewType
<1>5. /\ drone_tasks'[t].status = verdict
      /\ \A x \in Tasks \ {t} : drone_tasks'[x] = drone_tasks[x]
  BY <1>1, <1>2, <1>3, MoveTaskRowEffect
<1>6. \A x \in Tasks : TransferStep(x) /\ TaskStep(x)
  BY <1>1, <1>4, <1>5 DEF TransferStep, TaskStep, HasTelemetry, TypeOK
<1>7. \A x \in Tasks, c \in Batches : TelemetryStep(x, c) /\ SubmissionStep(x, c)
  BY <1>1, <1>4, <1>5 DEF TelemetryStep, SubmissionStep
<1>8. QED
  BY <1>1, <1>6, <1>7, BatchesKept DEF BatchEffect

\* Every step changes the tables as BatchEffect says.
LEMMA BatchStepEffect ==
  ASSUME BatchTypeOK, [BatchNext]_batch_vars
  PROVE  BatchEffect
<1>0. TypeOK
  BY DEF BatchTypeOK
<1>1. CASE UNCHANGED <<drone_tasks, device_transfer_events, mission_batches,
                       mission_batch_tasks, telemetry_events, submissions>>
  BY <1>0, <1>1, TasksKept, BatchesKept, TelemetryKept DEF BatchEffect
<1>2. CASE Next /\ UNCHANGED batch_tables
  <2>1. \A t \in Tasks : TransferStep(t) /\ TaskStep(t)
    BY <1>0, <1>2, BaseTaskStep
  <2>2. QED
    BY <1>2, <2>1, BatchesKept, TelemetryKept DEF batch_tables, BatchEffect
<1>3. QED
  BY <1>1, <1>2, CreateBatchEffect, AdvanceBatchEffect, CancelBatchEffect,
     SubmitEffect, ReviewEffect
  DEF BatchNext, BatchStep, batch_vars, vars, batch_tables, OpenIntervention,
      MarkInterventionInProgress, CloseIntervention

-----------------------------------------------------------------------------
(***************************************************************************)
(* The invariant.                                                          *)
(***************************************************************************)

\* A submission past its checks belongs to a batch that was started.
SubmissionsFollowStart ==
  \A t \in Tasks, b \in Batches :
    <<t, b>> \in submissions =>
      /\ t \in TasksOf(b)
      /\ mission_batches[b].status \notin {"absent", "queued"}

\* A task that was ever linked to a batch was accepted before.
LinkedTasksHaveCustody ==
  \A b \in Batches : \A t \in TasksOf(b) : device_transfer_events[t] > 0

BatchInv ==
  /\ BatchTypeOK
  /\ CompletedBatchesAreReviewed
  /\ WorkInProgressHasLiveBatch
  /\ TelemetryFollowsStart
  /\ SubmissionsFollowStart
  /\ CustodyIsRecorded
  /\ LinkedTasksHaveCustody

\* BatchInv holds of the empty database.
LEMMA BatchInitInv == BatchInit => BatchInv
  BY BatchInitType
  DEF BatchInit, Init, BatchInv, NoRow, CompletedBatchesAreReviewed,
      WorkInProgressHasLiveBatch, TelemetryFollowsStart, HasTelemetry,
      SubmissionsFollowStart, CustodyIsRecorded, LinkedTasksHaveCustody, TasksOf

\* A completed batch gets no more tasks and loses no review.
LEMMA ReviewedStep ==
  ASSUME BatchInv, BatchEffect
  PROVE  CompletedBatchesAreReviewed'
<1> SUFFICES ASSUME NEW b \in Batches, mission_batches'[b].status = "completed",
                    NEW t \in Tasks, t \in TasksOf(b)'
             PROVE  telemetry_events'[<<t, b>>].status \in {"verified", "rejected"}
  BY DEF CompletedBatchesAreReviewed, TasksOf
<1>1. BatchRowStep(b) /\ LinkStep(b) /\ TelemetryStep(t, b)
  BY DEF BatchEffect
<1>2. /\ mission_batches[b].status \in {"running", "completed"}
      /\ mission_batches[b].status = "running" => AllReviewed(b)
  BY <1>1 DEF BatchRowStep, BatchCreated
<1>3. t \in TasksOf(b)
  BY <1>1, <1>2 DEF LinkStep
<1>4. telemetry_events[<<t, b>>].status \in {"verified", "rejected"}
  BY <1>2, <1>3 DEF AllReviewed, BatchInv, CompletedBatchesAreReviewed
<1>5. QED
  BY <1>1, <1>4 DEF TelemetryStep

\* A task stays in progress only with its batch; a new one comes with its own.
LEMMA LiveBatchStep ==
  ASSUME BatchInv, BatchEffect
  PROVE  WorkInProgressHasLiveBatch'
<1> SUFFICES ASSUME NEW t \in Tasks, drone_tasks'[t].status = "in_progress"
             PROVE  \E b \in Batches :
                      /\ t \in TasksOf(b)'
                      /\ mission_batches'[b].status \in {"queued", "running"}
                      /\ telemetry_events'[<<t, b>>].status
                           \in {"absent", "pending"}
  BY DEF WorkInProgressHasLiveBatch
<1>1. \/ drone_tasks[t].status = "in_progress"
      \/ \E b \in Batches : BatchCreated(b) /\ t \in TasksOf(b)'
  BY DEF BatchEffect, TaskStep
<1>2. CASE drone_tasks[t].status = "in_progress"
  <2>1. PICK b \in Batches :
          /\ t \in TasksOf(b)
          /\ mission_batches[b].status \in {"queued", "running"}
          /\ telemetry_events[<<t, b>>].status \in {"absent", "pending"}
    BY <1>2 DEF BatchInv, WorkInProgressHasLiveBatch
  <2>2. BatchRowStep(b) /\ LinkStep(b) /\ TelemetryStep(t, b)
    BY DEF BatchEffect
  <2>3. ~ AllReviewed(b)
    BY <2>1 DEF AllReviewed
  <2>4. mission_batches'[b].status \in {"queued", "running"}
    BY <2>1, <2>2, <2>3 DEF BatchRowStep, BatchCreated
  <2>5. t \in TasksOf(b)'
    BY <2>1, <2>2 DEF LinkStep
  <2>6. telemetry_events'[<<t, b>>].status \in {"absent", "pending"}
    BY <2>1, <2>2 DEF TelemetryStep
  <2>7. QED
    BY <2>4, <2>5, <2>6
<1>3. ASSUME NEW b \in Batches, BatchCreated(b), t \in TasksOf(b)'
      PROVE  /\ mission_batches'[b].status \in {"queued", "running"}
             /\ telemetry_events'[<<t, b>>].status \in {"absent", "pending"}
  <2>1. telemetry_events[<<t, b>>].status = "absent"
    BY <1>3 DEF BatchCreated, BatchInv, TelemetryFollowsStart, HasTelemetry
  <2>2. TelemetryStep(t, b)
    BY DEF BatchEffect
  <2>3. QED
    BY <1>3, <2>1, <2>2 DEF BatchCreated, TelemetryStep
<1>4. QED
  BY <1>1, <1>2, <1>3

\* A started batch stays one, and keeps its tasks.
LEMMA StartedStep ==
  ASSUME BatchInv, BatchEffect, NEW t \in Tasks, NEW b \in Batches,
         t \in TasksOf(b), mission_batches[b].status \notin {"absent", "queued"}
  PROVE  /\ t \in TasksOf(b)'
         /\ mission_batches'[b].status \notin {"absent", "queued"}
<1>1. BatchRowStep(b) /\ LinkStep(b)
  BY DEF BatchEffect
<1>2. QED
  BY <1>1 DEF BatchRowStep, LinkStep, BatchCreated

\* Telemetry comes from a submission, and a submission from a running batch.
LEMMA TelemetryOriginStep ==
  ASSUME BatchInv, BatchEffect
  PROVE  TelemetryFollowsStart' /\ SubmissionsFollowStart'
<1>1. ASSUME NEW t \in Tasks, NEW b \in Batches,
             telemetry_events'[<<t, b>>].status # "absent"
      PROVE  /\ t \in TasksOf(b)'
             /\ mission_batches'[b].status \notin {"absent", "queued"}
  <2>1. TelemetryStep(t, b)
    BY DEF BatchEffect
  <2>2. HasTelemetry(t, b) \/ <<t, b>> \in submissions
    BY <1>1, <2>1 DEF TelemetryStep, HasTelemetry
  <2>3. /\ t \in TasksOf(b)
        /\ mission_batches[b].status \notin {"absent", "queued"}
    BY <2>2 DEF BatchInv, TelemetryFollowsStart, SubmissionsFollowStart
  <2>4. QED
    BY <2>3, StartedStep
<1>2. ASSUME NEW t \in Tasks, NEW b \in Batches, <<t, b>> \in submissions'
      PROVE  /\ t \in TasksOf(b)'
             /\ mission_batches'[b].status \notin {"absent", "queued"}
  <2>1. SubmissionStep(t, b)
    BY DEF BatchEffect
  <2>2. /\ t \in TasksOf(b)
        /\ mission_batches[b].status \notin {"absent", "queued"}
    BY <1>2, <2>1 DEF SubmissionStep, BatchInv, SubmissionsFollowStart
  <2>3. QED
    BY <2>2, StartedStep
<1>3. TelemetryFollowsStart'
  BY <1>1 DEF TelemetryFollowsStart, HasTelemetry
<1>4. SubmissionsFollowStart'
  BY <1>2 DEF SubmissionsFollowStart
<1>5. QED
  BY <1>3, <1>4

\* Transfers are never lost, and batches link only tasks that were accepted.
LEMMA CustodyStep ==
  ASSUME BatchInv, BatchEffect, TypeOK'
  PROVE  CustodyIsRecorded' /\ LinkedTasksHaveCustody'
<1>1. \A t \in Tasks :
        /\ device_transfer_events[t] \in Nat
        /\ device_transfer_events'[t] \in Nat
        /\ device_transfer_events'[t] >= device_transfer_events[t]
  BY DEF BatchInv, BatchTypeOK, TypeOK, BatchEffect, TransferStep
<1>2. \A t \in Tasks :
        drone_tasks[t].status \in
          {"device_transfer_pending", "accepted", "in_progress", "verified"} =>
            device_transfer_events'[t] > 0
  BY <1>1 DEF BatchInv, CustodyIsRecorded
<1>3. \A b \in Batches : \A t \in TasksOf(b) : device_transfer_events'[t] > 0
  BY <1>1 DEF BatchInv, LinkedTasksHaveCustody, TasksOf
<1>4. ASSUME NEW t \in Tasks,
             drone_tasks'[t].status \in
               {"device_transfer_pending", "accepted", "in_progress", "verified"}
      PROVE  device_transfer_events'[t] > 0
  <2>1. TaskStep(t)
    BY DEF BatchEffect
  <2>2. \A b \in Batches : HasTelemetry(t, b) => device_transfer_events'[t] > 0
    BY <1>3 DEF BatchInv, TelemetryFollowsStart
  <2>3. QED
    BY <1>2, <1>4, <2>1, <2>2 DEF TaskStep
<1>5. ASSUME NEW b \in Batches, NEW t \in TasksOf(b)'
      PROVE  device_transfer_events'[t] > 0
  <2>1. t \in Tasks /\ LinkStep(b)
    BY <1>5 DEF BatchEffect, TasksOf
  <2>2. QED
    BY <1>2, <1>3, <1>5, <2>1 DEF LinkStep
<1>6. QED
  BY <1>4, <1>5 DEF CustodyIsRecorded, LinkedTasksHaveCustody

\* BatchInv is inductive, for every version a client may send.
LEMMA BatchInvStep == BatchInv /\ [BatchNext]_batch_vars => BatchInv'
<1> SUFFICES ASSUME BatchInv, [BatchNext]_batch_vars PROVE BatchInv'
  OBVIOUS
<1>1. BatchTypeOK' /\ BatchEffect
  BY BatchTypeStep, BatchStepEffect DEF BatchInv
<1>2. TypeOK'
  BY <1>1 DEF BatchTypeOK
<1>3. CompletedBatchesAreReviewed' /\ WorkInProgressHasLiveBatch'
  BY <1>1, ReviewedStep, LiveBatchStep
<1>4. TelemetryFollowsStart' /\ SubmissionsFollowStart'
  BY <1>1, TelemetryOriginStep
<1>5. CustodyIsRecorded' /\ LinkedTasksHaveCustody'
  BY <1>1, <1>2, CustodyStep
<1>6. QED
  BY <1>1, <1>3, <1>4, <1>5 DEF BatchInv

\* BatchInv always holds.
LEMMA BatchInvariant == BatchSpec => []BatchInv
<1>1. QED
  BY BatchInitInv, BatchInvStep, PTL DEF BatchSpec

\* A completed batch is fully reviewed and stays so, whatever submissions,
\* reviews, handoffs and expiries go on while it is completed and afterwards.
THEOREM CompletedReviewed == BatchSpec => []CompletedBatchesAreReviewed
<1>1. BatchInv => CompletedBatchesAreReviewed
  BY DEF BatchInv
<1>2. QED
  BY <1>1, BatchInvariant, PTL

\* No batch ends and leaves a task in progress behind.
THEOREM WorkHasLiveBatch == BatchSpec => []WorkInProgressHasLiveBatch
<1>1. BatchInv => WorkInProgressHasLiveBatch
  BY DEF BatchInv
<1>2. QED
  BY <1>1, BatchInvariant, PTL

\* Telemetry belongs to a batch that was started, although it is inserted after
\* unlocked checks.
THEOREM TelemetryStarted == BatchSpec => []TelemetryFollowsStart
<1>1. BatchInv => TelemetryFollowsStart
  BY DEF BatchInv
<1>2. QED
  BY <1>1, BatchInvariant, PTL

\* No path through batches, cancellations and reviews goes around the custody
\* record of a task.
THEOREM CustodyRecorded == BatchSpec => []CustodyIsRecorded
<1>1. BatchInv => CustodyIsRecorded
  BY DEF BatchInv
<1>2. QED
  BY <1>1, BatchInvariant, PTL

-----------------------------------------------------------------------------
(***************************************************************************)
(* Rejections and their alerts.                                            *)
(***************************************************************************)

RejectedIn(t) == {b \in Batches : telemetry_events[<<t, b>>].status = "rejected"}
OpenedFor(t) == {s \in AlertStatus : <<t, "reassess", s>> \in safety_alerts}

\* No step loses an alert, and a rejection opens one.
FollowUpStep(t) ==
  \/ /\ RejectedIn(t)' \subseteq RejectedIn(t)
     /\ Cardinality(OpenedFor(t)') >= Cardinality(OpenedFor(t))
  \/ /\ \E b \in Batches : RejectedIn(t)' \subseteq RejectedIn(t) \union {b}
     /\ "open" \notin OpenedFor(t)
     /\ OpenedFor(t)' = OpenedFor(t) \union {"open"}

\* Sets of alert statuses are finite, and so are sets of batches.
LEMMA FollowUpFinite ==
  /\ \A t : IsFiniteSet(OpenedFor(t)) /\ IsFiniteSet(OpenedFor(t)')
  /\ \A t : IsFiniteSet(RejectedIn(t)) /\ IsFiniteSet(RejectedIn(t)')
<1>1. IsFiniteSet(AlertStatus)
  <2>1. IsFiniteSet({"open"})
    BY FS_Singleton
  <2>2. IsFiniteSet({"open"} \union {"in_progress"})
    BY <2>1, FS_AddElement
  <2>3. IsFiniteSet(({"open"} \union {"in_progress"}) \union {"closed"})
    BY <2>2, FS_AddElement
  <2>4. AlertStatus = ({"open"} \union {"in_progress"}) \union {"closed"}
    BY DEF AlertStatus
  <2>5. QED
    BY <2>3, <2>4
<1>2. \A t : OpenedFor(t) \subseteq AlertStatus /\ OpenedFor(t)' \subseteq AlertStatus
  BY DEF OpenedFor
<1>3. \A t : RejectedIn(t) \subseteq Batches /\ RejectedIn(t)' \subseteq Batches
  BY DEF RejectedIn
<1>4. IsFiniteSet(Batches)
  BY BatchAssumption
<1>5. QED
  BY <1>1, <1>2, <1>3, <1>4, FS_Subset

\* Replacing an element of a finite set by a new one keeps its size.
LEMMA ReplaceOne ==
  ASSUME NEW A, IsFiniteSet(A), NEW x \in A, NEW y, y \notin A
  PROVE  Cardinality((A \ {x}) \union {y}) = Cardinality(A)
<1>1. /\ IsFiniteSet(A \ {x})
      /\ Cardinality(A \ {x}) = Cardinality(A) - 1
      /\ Cardinality(A) \in Nat
  BY FS_RemoveElement, FS_CardinalityType
<1>2. y \notin A \ {x}
  OBVIOUS
<1>3. Cardinality((A \ {x}) \union {y}) = Cardinality(A \ {x}) + 1
  BY <1>1, <1>2, FS_AddElement
<1>4. QED
  BY <1>1, <1>3

\* Opening an alert adds one, and moving it keeps their number.
LEMMA AlertCounts ==
  ASSUME NEW t \in Tasks, NEW x \in Tasks, NEW kind
  PROVE  /\ CreateIntervention(x, kind) =>
              Cardinality(OpenedFor(t)') >= Cardinality(OpenedFor(t))
         /\ \A from, to \in AlertStatus :
              MoveAlert(x, kind, from, to) =>
                Cardinality(OpenedFor(t)') >= Cardinality(OpenedFor(t))
<1>1. /\ Cardinality(OpenedFor(t)) \in Nat
      /\ IsFiniteSet(OpenedFor(t)) /\ IsFiniteSet(OpenedFor(t)')
  BY FollowUpFinite, FS_CardinalityType
<1>2. ASSUME CreateIntervention(x, kind)
      PROVE  Cardinality(OpenedFor(t)') >= Cardinality(OpenedFor(t))
  <2>1. OpenedFor(t) \subseteq OpenedFor(t)'
    BY <1>2 DEF CreateIntervention, OpenedFor
  <2>2. /\ Cardinality(OpenedFor(t)) <= Cardinality(OpenedFor(t)')
        /\ Cardinality(OpenedFor(t)') \in Nat
    BY <1>1, <2>1, FS_Subset, FS_CardinalityType
  <2>3. QED
    BY <1>1, <2>2
<1>3. ASSUME NEW from \in AlertStatus, NEW to \in AlertStatus,
             MoveAlert(x, kind, from, to)
      PROVE  Cardinality(OpenedFor(t)') >= Cardinality(OpenedFor(t))
  <2>1. CASE x = t /\ kind = "reassess"
    <3>1. from \in OpenedFor(t) /\ to \notin OpenedFor(t)
      BY <1>3, <2>1 DEF MoveAlert, OpenedFor
    <3>2. OpenedFor(t)' = (OpenedFor(t) \ {from}) \union {to}
      BY <1>3, <2>1 DEF MoveAlert, OpenedFor
    <3>3. QED
      BY <1>1, <3>1, <3>2, ReplaceOne
  <2>2. CASE ~ (x = t /\ kind = "reassess")
    <3>1. OpenedFor(t)' = OpenedFor(t)
      BY <1>3, <2>2 DEF MoveAlert, OpenedFor
    <3>2. QED
      BY <1>1, <3>1
  <2>3. QED
    BY <2>1, <2>2
<1>4. QED
  BY <1>2, <1>3

\* Every step follows its rejections up.
LEMMA FollowUpNext ==
  ASSUME BatchTypeOK, [BatchNext]_batch_vars, NEW t \in Tasks
  PROVE  FollowUpStep(t)
<1>1. Cardinality(OpenedFor(t)) \in Nat
  BY FollowUpFinite, FS_CardinalityType
<1>2. ASSUME UNCHANGED <<telemetry_events, safety_alerts>>
      PROVE  FollowUpStep(t)
  BY <1>1, <1>2 DEF FollowUpStep, RejectedIn, OpenedFor
<1>3. ASSUME NEW x \in Tasks, NEW b \in Batches, CreateObservation(x, b)
      PROVE  FollowUpStep(t)
  <2>1. /\ telemetry_events'[<<x, b>>].status = "pending"
        /\ \A tb \in (Tasks \X Batches) \ {<<x, b>>} :
             telemetry_events'[tb] = telemetry_events[tb]
    BY <1>3 DEF CreateObservation, BatchTypeOK
  <2>2. RejectedIn(t)' \subseteq RejectedIn(t)
    BY <2>1 DEF RejectedIn
  <2>3. OpenedFor(t)' = OpenedFor(t)
    BY <1>3 DEF CreateObservation, OpenedFor
  <2>4. QED
    BY <1>1, <2>2, <2>3 DEF FollowUpStep
<1>4. ASSUME NEW x \in Tasks, NEW b \in Batches, NEW w, NEW v,
             AcceptObservation(x, b, w, v)
      PROVE  FollowUpStep(t)
  <2>1. /\ ReviewObservationRecord(x, b, "verified", w)
        /\ "verified" \in TelemetryStatus
    BY <1>4 DEF AcceptObservation, TelemetryStatus
  <2>2. /\ telemetry_events'[<<x, b>>].status = "verified"
        /\ \A tb \in (Tasks \X Batches) \ {<<x, b>>} :
             telemetry_events'[tb] = telemetry_events[tb]
    BY <2>1, ReviewType
  <2>3. RejectedIn(t)' \subseteq RejectedIn(t)
    BY <2>2 DEF RejectedIn
  <2>4. OpenedFor(t)' = OpenedFor(t)
    BY <1>4 DEF AcceptObservation, OpenedFor
  <2>5. QED
    BY <1>1, <2>3, <2>4 DEF FollowUpStep
<1>5. ASSUME NEW x \in Tasks, NEW b \in Batches, NEW w, NEW v,
             RejectObservation(x, b, w, v)
      PROVE  FollowUpStep(t)
  <2>1. /\ ReviewObservationRecord(x, b, "rejected", w)
        /\ "rejected" \in TelemetryStatus
        /\ CreateIntervention(x, "reassess")
    BY <1>5 DEF RejectObservation, TelemetryStatus
  <2>2. \A tb \in (Tasks \X Batches) \ {<<x, b>>} :
          telemetry_events'[tb] = telemetry_events[tb]
    BY <2>1, ReviewType
  <2>3. CASE x = t
    <3>1. RejectedIn(t)' \subseteq RejectedIn(t) \union {b}
      BY <2>2, <2>3 DEF RejectedIn
    <3>2. /\ "open" \notin OpenedFor(t)
          /\ OpenedFor(t)' = OpenedFor(t) \union {"open"}
      BY <2>1, <2>3 DEF CreateIntervention, OpenedFor, AlertStatus
    <3>3. QED
      BY <3>1, <3>2 DEF FollowUpStep
  <2>4. CASE x # t
    <3>1. RejectedIn(t)' \subseteq RejectedIn(t)
      BY <2>2, <2>4 DEF RejectedIn
    <3>2. OpenedFor(t)' = OpenedFor(t)
      BY <2>1, <2>4 DEF CreateIntervention, OpenedFor
    <3>3. QED
      BY <1>1, <3>1, <3>2 DEF FollowUpStep
  <2>5. QED
    BY <2>3, <2>4
<1>6. ASSUME NEW x \in Tasks, NEW kind \in AlertKinds,
             \/ OpenIntervention(x, kind)
             \/ MarkInterventionInProgress(x, kind)
             \/ CloseIntervention(x, kind)
      PROVE  FollowUpStep(t)
  <2>1. telemetry_events' = telemetry_events
    BY <1>6
    DEF OpenIntervention, MarkInterventionInProgress, CloseIntervention
  <2>2. \/ CreateIntervention(x, kind)
        \/ \E from, to \in AlertStatus : MoveAlert(x, kind, from, to)
    BY <1>6
    DEF OpenIntervention, MarkInterventionInProgress, CloseIntervention,
        AlertStatus
  <2>3. Cardinality(OpenedFor(t)') >= Cardinality(OpenedFor(t))
    BY <2>2, AlertCounts
  <2>4. RejectedIn(t)' \subseteq RejectedIn(t)
    BY <2>1 DEF RejectedIn
  <2>5. QED
    BY <2>3, <2>4 DEF FollowUpStep
<1>7. QED
  BY <1>2, <1>3, <1>4, <1>5, <1>6
  DEF BatchNext, BatchStep, batch_vars, vars, batch_tables,
      CreateDroneMissionBatch, StartDroneMissionBatch,
      CompleteDroneMissionBatch, CancelDroneMissionBatch,
      ValidateObservationTarget, AbandonObservation

\* RejectionsAreFollowedUp is inductive.
LEMMA FollowUpInductive ==
  ASSUME BatchTypeOK, RejectionsAreFollowedUp, [BatchNext]_batch_vars
  PROVE  RejectionsAreFollowedUp'
<1> SUFFICES ASSUME NEW t \in Tasks
             PROVE  Cardinality(RejectedIn(t)') <= Cardinality(OpenedFor(t)')
  BY DEF RejectionsAreFollowedUp, RejectedIn, OpenedFor
<1> DEFINE R == RejectedIn(t)
           A == OpenedFor(t)
<1>1. /\ IsFiniteSet(R) /\ IsFiniteSet(R') /\ IsFiniteSet(A) /\ IsFiniteSet(A')
      /\ Cardinality(R) \in Nat /\ Cardinality(R') \in Nat
      /\ Cardinality(A) \in Nat /\ Cardinality(A') \in Nat
  BY FollowUpFinite, FS_CardinalityType
<1>2. Cardinality(R) <= Cardinality(A)
  BY DEF RejectionsAreFollowedUp, RejectedIn, OpenedFor
<1>3. \/ R' \subseteq R /\ Cardinality(A') >= Cardinality(A)
      \/ /\ \E b \in Batches : R' \subseteq R \union {b}
         /\ "open" \notin A
         /\ A' = A \union {"open"}
  BY FollowUpNext DEF FollowUpStep
<1> HIDE DEF R, A
<1>4. CASE R' \subseteq R /\ Cardinality(A') >= Cardinality(A)
  <2>1. Cardinality(R') <= Cardinality(R)
    BY <1>1, <1>4, FS_Subset
  <2>2. Cardinality(R') <= Cardinality(A')
    BY <1>1, <1>2, <1>4, <2>1
  <2>3. QED
    BY <2>2 DEF R, A
<1>5. ASSUME NEW b \in Batches, R' \subseteq R \union {b},
             "open" \notin A, A' = A \union {"open"}
      PROVE  Cardinality(R') <= Cardinality(A')
  <2>1. /\ IsFiniteSet(R \union {b})
        /\ Cardinality(R \union {b})
             = IF b \in R THEN Cardinality(R) ELSE Cardinality(R) + 1
    BY <1>1, FS_AddElement
  <2>2. Cardinality(R') <= Cardinality(R \union {b})
    BY <1>5, <2>1, FS_Subset
  <2>3. Cardinality(R \union {b}) <= Cardinality(R) + 1
    BY <1>1, <2>1
  <2>4. Cardinality(A') = Cardinality(A) + 1
    BY <1>1, <1>5, FS_AddElement
  <2>5. Cardinality(R \union {b}) \in Nat
    BY <2>1, FS_CardinalityType
  <2>6. QED
    BY <1>1, <1>2, <2>2, <2>3, <2>4, <2>5
<1>6. QED
  BY <1>3, <1>4, <1>5 DEF R, A

\* Each rejected review of a task left an alert of its own: a review that could
\* not open one has not happened, and no alert is lost later.
THEOREM RejectionsFollowed == BatchSpec => []RejectionsAreFollowedUp
<1>1. BatchInit => BatchTypeOK /\ RejectionsAreFollowedUp
  <2> SUFFICES ASSUME BatchInit PROVE BatchTypeOK /\ RejectionsAreFollowedUp
    OBVIOUS
  <2>1. \A t \in Tasks : RejectedIn(t) = {} /\ OpenedFor(t) = {}
    BY DEF BatchInit, NoRow, RejectedIn, OpenedFor
  <2>2. Cardinality({}) = 0
    BY FS_EmptySet
  <2>3. \A t \in Tasks : Cardinality(RejectedIn(t)) <= Cardinality(OpenedFor(t))
    BY <2>1, <2>2
  <2>4. RejectionsAreFollowedUp
    BY <2>3 DEF RejectionsAreFollowedUp, RejectedIn, OpenedFor
  <2>5. QED
    BY <2>4, BatchInitType
<1>2. /\ BatchTypeOK /\ RejectionsAreFollowedUp
      /\ [BatchNext]_batch_vars
      => (BatchTypeOK /\ RejectionsAreFollowedUp)'
  BY BatchTypeStep, FollowUpInductive
<1>3. QED
  BY <1>1, <1>2, PTL DEF BatchSpec

-----------------------------------------------------------------------------
(***************************************************************************)
(* The audit trail of batches and telemetry.                               *)
(***************************************************************************)

BatchAudits(b) == batch_audit_events[<<"mission_batch", b>>]
TelemetryAudits(tb) == batch_audit_events[<<"telemetry", tb>>]

\* A row gets its next version with one audit row, or neither.
BatchAuditStep ==
  /\ \A b \in Batches :
       \/ /\ mission_batches'[b] = mission_batches[b]
          /\ BatchAudits(b)' = BatchAudits(b)
       \/ /\ mission_batches'[b].status # "absent"
          /\ mission_batches'[b].version = mission_batches[b].version + 1
          /\ BatchAudits(b)' = BatchAudits(b) + 1
  /\ \A tb \in Tasks \X Batches :
       \/ /\ telemetry_events'[tb] = telemetry_events[tb]
          /\ TelemetryAudits(tb)' = TelemetryAudits(tb)
       \/ /\ telemetry_events'[tb].status # "absent"
          /\ telemetry_events'[tb].version = telemetry_events[tb].version + 1
          /\ TelemetryAudits(tb)' = TelemetryAudits(tb) + 1

\* A row that does not exist has no version.
AbsentBatchRows ==
  /\ \A b \in Batches :
       mission_batches[b].status = "absent" => mission_batches[b].version = 0
  /\ \A tb \in Tasks \X Batches :
       telemetry_events[tb].status = "absent" => telemetry_events[tb].version = 0

\* The keys of all rows with an audit trail.
LEMMA RowAuditKeys ==
  /\ \A b \in Batches : <<"mission_batch", b>> \in BatchAuditKeys
  /\ \A tb \in Tasks \X Batches : <<"telemetry", tb>> \in BatchAuditKeys
  BY DEF BatchAuditKeys

\* One batch gets its next version and its audit row.
LEMMA BatchAuditedOnce ==
  ASSUME BatchTypeOK, NEW b \in Batches, WriteBatchAudit("mission_batch", b),
         telemetry_events' = telemetry_events,
         \A c \in Batches \ {b} : mission_batches'[c] = mission_batches[c],
         mission_batches'[b].status # "absent",
         mission_batches'[b].version = mission_batches[b].version + 1
  PROVE  BatchAuditStep
<1>1. /\ BatchAudits(b)' = BatchAudits(b) + 1
      /\ \A c \in Batches \ {b} : BatchAudits(c)' = BatchAudits(c)
      /\ \A tb \in Tasks \X Batches : TelemetryAudits(tb)' = TelemetryAudits(tb)
  BY RowAuditKeys DEF WriteBatchAudit, BatchAudits, TelemetryAudits, BatchTypeOK
<1>2. QED
  BY <1>1 DEF BatchAuditStep

\* One row of telemetry gets its next version and its audit row.
LEMMA TelemetryAuditedOnce ==
  ASSUME mission_batches' = mission_batches, NEW x \in Tasks \X Batches,
         TelemetryAudits(x)' = TelemetryAudits(x) + 1,
         \A tb \in (Tasks \X Batches) \ {x} :
           TelemetryAudits(tb)' = TelemetryAudits(tb),
         \A b \in Batches : BatchAudits(b)' = BatchAudits(b),
         \A tb \in (Tasks \X Batches) \ {x} :
           telemetry_events'[tb] = telemetry_events[tb],
         telemetry_events'[x].status # "absent",
         telemetry_events'[x].version = telemetry_events[x].version + 1
  PROVE  BatchAuditStep
  BY DEF BatchAuditStep

\* What an audit row of telemetry does to the counts.
LEMMA TelemetryAuditWritten ==
  ASSUME BatchTypeOK, NEW x \in Tasks \X Batches, WriteBatchAudit("telemetry", x)
  PROVE  /\ TelemetryAudits(x)' = TelemetryAudits(x) + 1
         /\ \A tb \in (Tasks \X Batches) \ {x} :
              TelemetryAudits(tb)' = TelemetryAudits(tb)
         /\ \A b \in Batches : BatchAudits(b)' = BatchAudits(b)
  BY RowAuditKeys DEF WriteBatchAudit, BatchAudits, TelemetryAudits, BatchTypeOK

\* The audit row of an alert counts for neither.
LEMMA AlertAuditWritten ==
  ASSUME BatchTypeOK, NEW id, WriteBatchAudit("safety_alert", id)
  PROVE  /\ \A tb \in Tasks \X Batches : TelemetryAudits(tb)' = TelemetryAudits(tb)
         /\ \A b \in Batches : BatchAudits(b)' = BatchAudits(b)
  BY RowAuditKeys DEF WriteBatchAudit, BatchAudits, TelemetryAudits, BatchTypeOK

\* A rejection writes an audit row of the telemetry and one of the alert.
LEMMA RejectionAuditWritten ==
  ASSUME BatchTypeOK, NEW t \in Tasks, NEW b \in Batches, NEW w, NEW v,
         RejectObservation(t, b, w, v)
  PROVE  /\ TelemetryAudits(<<t, b>>)' = TelemetryAudits(<<t, b>>) + 1
         /\ \A tb \in (Tasks \X Batches) \ {<<t, b>>} :
              TelemetryAudits(tb)' = TelemetryAudits(tb)
         /\ \A c \in Batches : BatchAudits(c)' = BatchAudits(c)
<1> DEFINE x == <<t, b>>
           y == <<"safety_alert", <<t, "reassess">>>>
<1>1. batch_audit_events' = [batch_audit_events EXCEPT
        ![<<"telemetry", x>>] = @ + 1, ![y] = @ + 1]
  BY DEF RejectObservation
<1>2. /\ x \in Tasks \X Batches
      /\ <<"telemetry", x>> \in BatchAuditKeys
      /\ <<"telemetry", x>> # y
      /\ \A tb \in Tasks \X Batches : <<"telemetry", tb>> # y
      /\ \A c \in Batches : <<"mission_batch", c>> # y
  BY RowAuditKeys
<1> HIDE DEF x, y
<1>3. \A k \in BatchAuditKeys :
        k # y => batch_audit_events'[k] =
          IF k = <<"telemetry", x>> THEN batch_audit_events[k] + 1
                                    ELSE batch_audit_events[k]
  BY <1>1, <1>2 DEF BatchTypeOK
<1>4. /\ TelemetryAudits(x)' = TelemetryAudits(x) + 1
      /\ \A tb \in (Tasks \X Batches) \ {x} :
           TelemetryAudits(tb)' = TelemetryAudits(tb)
      /\ \A c \in Batches : BatchAudits(c)' = BatchAudits(c)
  BY <1>2, <1>3, RowAuditKeys DEF BatchAudits, TelemetryAudits
<1>5. QED
  BY <1>4 DEF x

\* Every step audits what it changes.
LEMMA BatchAuditNext ==
  ASSUME BatchTypeOK, AbsentBatchRows, [BatchNext]_batch_vars
  PROVE  BatchAuditStep
<1>1. ASSUME UNCHANGED <<mission_batches, telemetry_events, batch_audit_events>>
      PROVE  BatchAuditStep
  BY <1>1 DEF BatchAuditStep, BatchAudits, TelemetryAudits
<1>2. ASSUME NEW b \in Batches, NEW S, NEW began,
             CreateDroneMissionBatch(b, S, began)
      PROVE  BatchAuditStep
  <2>1. /\ mission_batches'[b].status = "queued"
        /\ mission_batches'[b].version = 1
        /\ \A c \in Batches \ {b} : mission_batches'[c] = mission_batches[c]
        /\ mission_batches[b].version = 0
        /\ telemetry_events' = telemetry_events
        /\ WriteBatchAudit("mission_batch", b)
    BY <1>2 DEF CreateDroneMissionBatch, BatchTypeOK, AbsentBatchRows
  <2>2. QED
    BY <2>1, BatchAuditedOnce
<1>3. ASSUME NEW b \in Batches, NEW from, NEW to \in BatchStatus, NEW v,
             ChangeBatchRow(b, from, to, v),
             WriteBatchAudit("mission_batch", b),
             telemetry_events' = telemetry_events
      PROVE  BatchAuditStep
  <2>1. /\ mission_batches'[b].status = to
        /\ mission_batches'[b].version = mission_batches[b].version + 1
        /\ \A c \in Batches \ {b} : mission_batches'[c] = mission_batches[c]
    BY <1>3, ChangeBatchRowType
  <2>2. to # "absent"
    BY DEF BatchStatus
  <2>3. QED
    BY <1>3, <2>1, <2>2, BatchAuditedOnce
<1>4. ASSUME NEW b \in Batches, NEW v,
             \/ StartDroneMissionBatch(b, v)
             \/ CompleteDroneMissionBatch(b, v)
             \/ CancelDroneMissionBatch(b, v)
      PROVE  BatchAuditStep
  <2>1. /\ WriteBatchAudit("mission_batch", b)
        /\ telemetry_events' = telemetry_events
    BY <1>4
    DEF StartDroneMissionBatch, CompleteDroneMissionBatch,
        CancelDroneMissionBatch
  <2>2. PICK from, to \in BatchStatus : ChangeBatchRow(b, {from}, to, v)
                                     \/ ChangeBatchRow(b, {"queued", "running"}, to, v)
    BY <1>4
    DEF StartDroneMissionBatch, CompleteDroneMissionBatch,
        CancelDroneMissionBatch, BatchStatus
  <2>3. QED
    BY <1>3, <2>1, <2>2
<1>5. ASSUME NEW t \in Tasks, NEW b \in Batches, CreateObservation(t, b)
      PROVE  BatchAuditStep
  <2> DEFINE x == <<t, b>>
  <2>1. /\ x \in Tasks \X Batches
        /\ WriteBatchAudit("telemetry", x)
        /\ mission_batches' = mission_batches
        /\ telemetry_events[x].status = "absent"
        /\ telemetry_events' = [telemetry_events EXCEPT ![x] =
             [status |-> "pending", version |-> 1]]
    BY <1>5 DEF CreateObservation, HasTelemetry
  <2> HIDE DEF x
  <2>2. /\ telemetry_events'[x].status = "pending"
        /\ telemetry_events'[x].version = 1
        /\ telemetry_events[x].version = 0
        /\ \A tb \in (Tasks \X Batches) \ {x} :
             telemetry_events'[tb] = telemetry_events[tb]
    BY <2>1 DEF BatchTypeOK, AbsentBatchRows
  <2>3. QED
    BY <2>1, <2>2, TelemetryAuditWritten, TelemetryAuditedOnce
<1>6. ASSUME NEW t \in Tasks, NEW b \in Batches, NEW w, NEW v,
             AcceptObservation(t, b, w, v) \/ RejectObservation(t, b, w, v)
      PROVE  BatchAuditStep
  <2> DEFINE x == <<t, b>>
  <2>1. PICK verdict \in {"verified", "rejected"} :
          ReviewObservationRecord(t, b, verdict, w)
    BY <1>6 DEF AcceptObservation, RejectObservation
  <2>2. verdict \in TelemetryStatus
    BY DEF TelemetryStatus
  <2>3. /\ telemetry_events'[x].status # "absent"
        /\ telemetry_events'[x].version = telemetry_events[x].version + 1
        /\ \A tb \in (Tasks \X Batches) \ {x} :
             telemetry_events'[tb] = telemetry_events[tb]
    BY <2>1, <2>2, ReviewType
  <2>4. /\ TelemetryAudits(x)' = TelemetryAudits(x) + 1
        /\ \A tb \in (Tasks \X Batches) \ {x} :
             TelemetryAudits(tb)' = TelemetryAudits(tb)
        /\ \A c \in Batches : BatchAudits(c)' = BatchAudits(c)
    <3>1. CASE AcceptObservation(t, b, w, v)
      BY <3>1, TelemetryAuditWritten DEF AcceptObservation
    <3>2. CASE RejectObservation(t, b, w, v)
      BY <3>2, RejectionAuditWritten
    <3>3. QED
      BY <1>6, <3>1, <3>2
  <2>5. x \in Tasks \X Batches /\ mission_batches' = mission_batches
    BY <1>6 DEF AcceptObservation, RejectObservation
  <2> HIDE DEF x
  <2>6. QED
    BY <2>3, <2>4, <2>5, TelemetryAuditedOnce
<1>7. ASSUME NEW t \in Tasks, NEW kind,
             \/ OpenIntervention(t, kind)
             \/ MarkInterventionInProgress(t, kind)
             \/ CloseIntervention(t, kind)
      PROVE  BatchAuditStep
  <2>1. /\ WriteBatchAudit("safety_alert", <<t, kind>>)
        /\ UNCHANGED <<mission_batches, telemetry_events>>
    BY <1>7
    DEF OpenIntervention, MarkInterventionInProgress, CloseIntervention
  <2>2. QED
    BY <2>1, AlertAuditWritten DEF BatchAuditStep
<1>8. QED
  BY <1>1, <1>2, <1>4, <1>5, <1>6, <1>7
  DEF BatchNext, BatchStep, batch_vars, vars, batch_tables,
      ValidateObservationTarget, AbandonObservation

BatchAuditInv == BatchTypeOK /\ AbsentBatchRows /\ BatchAuditIsComplete

\* BatchAuditInv is inductive.
LEMMA BatchAuditInductive ==
  BatchAuditInv /\ [BatchNext]_batch_vars => BatchAuditInv'
<1> SUFFICES ASSUME BatchAuditInv, [BatchNext]_batch_vars PROVE BatchAuditInv'
  OBVIOUS
<1>1. BatchTypeOK' /\ BatchAuditStep
  BY BatchTypeStep, BatchAuditNext DEF BatchAuditInv
<1>2. AbsentBatchRows'
  BY <1>1 DEF BatchAuditInv, AbsentBatchRows, BatchAuditStep
<1>3. /\ \A b \in Batches : BatchAudits(b) = mission_batches[b].version
      /\ \A tb \in Tasks \X Batches :
           TelemetryAudits(tb) = telemetry_events[tb].version
  BY DEF BatchAuditInv, BatchAuditIsComplete, BatchAudits, TelemetryAudits
<1>4. /\ \A b \in Batches : BatchAudits(b)' = mission_batches'[b].version
      /\ \A tb \in Tasks \X Batches :
           TelemetryAudits(tb)' = telemetry_events'[tb].version
  BY <1>1, <1>3 DEF BatchAuditStep
<1>5. BatchAuditIsComplete'
  BY <1>4 DEF BatchAuditIsComplete, BatchAudits, TelemetryAudits
<1>6. QED
  BY <1>1, <1>2, <1>5 DEF BatchAuditInv

\* Each version of a batch or of telemetry has exactly one audit row.
THEOREM BatchAuditComplete == BatchSpec => []BatchAuditIsComplete
<1>1. BatchInit => BatchAuditInv
  BY BatchInitType, RowAuditKeys
  DEF BatchInit, NoRow, BatchAuditInv, AbsentBatchRows, BatchAuditIsComplete
<1>2. BatchAuditInv => BatchAuditIsComplete
  BY DEF BatchAuditInv
<1>3. QED
  BY <1>1, <1>2, BatchAuditInductive, PTL DEF BatchSpec

-----------------------------------------------------------------------------
(***************************************************************************)
(* What DroneTasks promises of counters and reports survives the batches   *)
(* and reviews that move tasks beside it.                                  *)
(***************************************************************************)

\* The statuses a batch or a review gives a task.
WorkStatus == {"accepted", "in_progress", "verified", "rejected"}

\* No counter moves, and the tasks that move get one of these.
WorkMoves ==
  /\ mission_drones' = mission_drones
  /\ \A t \in Tasks :
       \/ drone_tasks'[t] = drone_tasks[t]
       \/ \E status \in WorkStatus :
            drone_tasks'[t] = WithStatus(drone_tasks[t], status)

\* Which is all that the steps of batches do to tasks.
LEMMA BatchStepMoves ==
  ASSUME TypeOK, BatchStep
  PROVE  WorkMoves
<1>1. ASSUME UNCHANGED <<mission_drones, drone_tasks>>
      PROVE  WorkMoves
  BY <1>1 DEF WorkMoves
<1>2. ASSUME NEW b \in Batches, NEW S \in SUBSET Tasks, NEW began,
             CreateDroneMissionBatch(b, S, began)
      PROVE  WorkMoves
  BY <1>2 DEF CreateDroneMissionBatch, WorkMoves, WorkStatus
<1>3. ASSUME NEW b \in Batches, NEW v, CancelDroneMissionBatch(b, v)
      PROVE  WorkMoves
  BY <1>3 DEF CancelDroneMissionBatch, RestoredTasks, WorkMoves, WorkStatus
<1>4. ASSUME NEW t \in Tasks, NEW b \in Batches, NEW w, NEW v,
             AcceptObservation(t, b, w, v) \/ RejectObservation(t, b, w, v)
      PROVE  WorkMoves
  <2>1. PICK verdict \in {"verified", "rejected"} : MoveTaskRow(t, verdict, v)
    BY <1>4 DEF AcceptObservation, RejectObservation
  <2>2. QED
    BY <2>1 DEF MoveTaskRow, TypeOK, WorkMoves, WorkStatus
<1>5. QED
  BY <1>1, <1>2, <1>3, <1>4
  DEF BatchStep, vars, StartDroneMissionBatch, CompleteDroneMissionBatch,
      ValidateObservationTarget, CreateObservation, AbandonObservation,
      OpenIntervention, MarkInterventionInProgress, CloseIntervention

\* Such moves neither complete a task nor take back a completion's time.
LEMMA WorkKeepsProgress ==
  ASSUME ProgressInv, TypeOK', WorkMoves
  PROVE  ProgressInv'
<1>1. \A t \in Tasks : drone_tasks[t] \in TaskRow
  BY DEF ProgressInv, CountersInv, TypeOK
<1>2. \A t \in Tasks, status \in WorkStatus :
        /\ WithStatus(drone_tasks[t], status).status = status
        /\ WithStatus(drone_tasks[t], status).completed = drone_tasks[t].completed
  BY <1>1, TaskWithStatus DEF WorkStatus, DroneTaskStatus
<1>3. \A t \in Tasks : drone_tasks'[t].completed = drone_tasks[t].completed
  BY <1>2 DEF WorkMoves
<1>4. CountersInv'
  BY <1>3, CountersNext DEF WorkMoves, CountersKept, ProgressInv
<1>5. \A t \in Tasks :
        drone_tasks'[t].status = "completed" => drone_tasks[t].status = "completed"
  BY <1>2 DEF WorkMoves, WorkStatus
<1>6. CompletedIsStamped'
  BY <1>3, <1>5 DEF ProgressInv, CompletedIsStamped
<1>7. QED
  BY <1>4, <1>6 DEF ProgressInv

\* The invariant of the report beside batches.
LEMMA BatchProgress == BatchSpec => []ProgressInv
<1>1. BatchInit => BatchTypeOK /\ ProgressInv
  BY BatchInitType, InitProgress DEF BatchInit
<1>2. BatchTypeOK /\ ProgressInv /\ [BatchNext]_batch_vars => ProgressInv'
  <2> SUFFICES ASSUME BatchTypeOK, ProgressInv, [BatchNext]_batch_vars
               PROVE  ProgressInv'
    OBVIOUS
  <2>1. TypeOK /\ TypeOK'
    BY BatchTypeStep DEF BatchTypeOK
  <2>2. CASE BatchStep
    BY <2>1, <2>2, BatchStepMoves, WorkKeepsProgress
  <2>3. CASE [Next]_vars
    BY <2>3, ProgressInvStep
  <2>4. QED
    BY <2>2, <2>3 DEF BatchNext, batch_vars
<1>3. QED
  BY <1>1, <1>2, BatchTypeStep, PTL DEF BatchSpec

\* The counters of the units stay within required_tasks whatever batches,
\* cancellations and reviews do to the tasks meanwhile.
THEOREM BatchesNeverOverfill == BatchSpec => []UnitNeverOverfull
<1>1. ProgressInv => UnitNeverOverfull
  BY DEF ProgressInv, CountersInv
<1>2. QED
  BY <1>1, BatchProgress, PTL

\* And a task that is reviewed again after its completion does not make the
\* report of its mission say complete too early.
THEOREM BatchesReportFull == BatchSpec => []CompleteReportMeansFull
  BY BatchProgress, ReportIsRight, PTL

=============================================================================
