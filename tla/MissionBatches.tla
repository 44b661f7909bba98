---------------------------- MODULE MissionBatches ----------------------------
(***************************************************************************)
(* Execution batches of drone tasks, the telemetry recorded in them, its   *)
(* review and the safety alerts, on top of DroneTasks, whose steps go on   *)
(* beside these.                                                           *)
(*                                                                         *)
(* Starting, completing and cancelling a batch are single SQL statements,  *)
(* and so is each half of a review: a step.  Submitting telemetry first    *)
(* reads task and batch without locking them and inserts later: two steps, *)
(* with the request in `submissions' between them.                         *)
(*                                                                         *)
(* As in DroneTasks, a definition whose name starts with `Bad' is a        *)
(* plausible mistake in one that follows it, used to test the properties.  *)
(***************************************************************************)
EXTENDS DroneTasks

CONSTANTS
  Batches,     \* mission_batches ids
  AlertKinds   \* safety alert kinds that occur; a rejected review opens "reassess"

ASSUME BatchAssumption ==
  /\ IsFiniteSet(Batches)
  /\ "reassess" \in AlertKinds

VARIABLES
  mission_batches,
  mission_batch_tasks,  \* set of <<batch, task>>, the table's primary key
  telemetry_events,     \* row of each <<task, batch>>, the table's unique key
  safety_alerts,        \* set of <<task, kind, status>>, the table's unique key
  batch_audit_events,   \* number of audit rows of each object named here
  submissions           \* <<task, batch>> of the submissions past validation

batch_tables == <<mission_batches, mission_batch_tasks, telemetry_events,
                  safety_alerts, batch_audit_events, submissions>>

batch_vars == <<vars, batch_tables>>

BatchStatus == {"queued", "running", "completed", "cancelled"}
TelemetryStatus == {"pending", "verified", "rejected"}
AlertStatus == {"open", "in_progress", "closed"}

BatchRow == [status : BatchStatus \union {"absent"}, version : Nat]
TelemetryRow == [status : TelemetryStatus \union {"absent"}, version : Nat]

BatchAuditKeys ==
  ({"mission_batch"} \X Batches)
    \union ({"telemetry"} \X (Tasks \X Batches))
    \union ({"safety_alert"} \X (Tasks \X AlertKinds))

BatchTypeOK ==
  /\ TypeOK
  /\ mission_batches \in [Batches -> BatchRow]
  /\ mission_batch_tasks \subseteq Batches \X Tasks
  /\ telemetry_events \in [Tasks \X Batches -> TelemetryRow]
  /\ safety_alerts \subseteq Tasks \X AlertKinds \X AlertStatus
  /\ batch_audit_events \in [BatchAuditKeys -> Nat]
  /\ submissions \subseteq Tasks \X Batches

NoRow == [status |-> "absent", version |-> 0]

BatchInit ==
  /\ Init
  /\ mission_batches = [b \in Batches |-> NoRow]
  /\ mission_batch_tasks = {}
  /\ telemetry_events = [tb \in Tasks \X Batches |-> NoRow]
  /\ safety_alerts = {}
  /\ batch_audit_events = [k \in BatchAuditKeys |-> 0]
  /\ submissions = {}

HasTelemetry(t, b) == telemetry_events[<<t, b>>].status # "absent"
TasksOf(b) == {t \in Tasks : <<b, t>> \in mission_batch_tasks}

WriteBatchAudit(type, id) ==
  batch_audit_events' = [batch_audit_events EXCEPT ![<<type, id>>] = @ + 1]

-----------------------------------------------------------------------------
(***************************************************************************)
(* Batches.                                                                *)
(***************************************************************************)

\* Without AND status = 'accepted'.
BadAttachable(t, began) ==
  /\ TaskExists(t)
  /\ drone_tasks[t].version < MaxVersion
  /\ began <= drone_tasks[t].expires_at

\* attachDroneTasks for one task.  SQL's now() is the instant the transaction
\* began.
Attachable(t, began) ==
  /\ drone_tasks[t].status = "accepted"
  /\ drone_tasks[t].version < MaxVersion
  /\ began <= drone_tasks[t].expires_at

\* The batch and all its links, or nothing: the first task that cannot be
\* attached rolls the transaction back.  The capacity is the client's and is
\* compared with the tasks of this request only.
CreateDroneMissionBatch(b, S, began) ==
  /\ mission_batches[b].status = "absent"
  /\ S # {}
  /\ \A t \in S : Attachable(t, began)
  /\ mission_batches' = [mission_batches EXCEPT ![b] =
       [status |-> "queued", version |-> 1]]
  /\ mission_batch_tasks' = mission_batch_tasks \union ({b} \X S)
  /\ drone_tasks' = [t \in Tasks |->
       IF t \in S
       THEN WithStatus(drone_tasks[t], "in_progress")
       ELSE drone_tasks[t]]
  /\ WriteBatchAudit("mission_batch", b)
  /\ UNCHANGED <<now, drone_missions, mission_drones, device_transfer_events,
                 audit_events, requests, telemetry_events, safety_alerts,
                 submissions>>

\* Without version = version + 1.
BadChangeBatchRow(b, from, to, version) ==
  /\ mission_batches[b].version = version
  /\ mission_batches[b].status \in from
  /\ mission_batches' = [mission_batches EXCEPT ![b] = [@ EXCEPT !.status = to]]

\* The update of changeDroneMissionBatch, with the version the client sent.
ChangeBatchRow(b, from, to, version) ==
  /\ mission_batches[b].version = version
  /\ mission_batches[b].status \in from
  /\ mission_batches' = [mission_batches EXCEPT ![b] = WithStatus(@, to)]

StartDroneMissionBatch(b, version) ==
  /\ ChangeBatchRow(b, {"queued"}, "running", version)
  /\ WriteBatchAudit("mission_batch", b)
  /\ UNCHANGED <<vars, mission_batch_tasks, telemetry_events, safety_alerts,
                 submissions>>

\* An inner join in place of the left join: a task without telemetry is missed.
BadAllReviewed(b) ==
  \A t \in TasksOf(b) : telemetry_events[<<t, b>>].status # "pending"

AllReviewed(b) ==
  \A t \in TasksOf(b) :
    telemetry_events[<<t, b>>].status \in {"verified", "rejected"}

CompleteDroneMissionBatch(b, version) ==
  /\ AllReviewed(b)
  /\ ChangeBatchRow(b, {"running"}, "completed", version)
  /\ WriteBatchAudit("mission_batch", b)
  /\ UNCHANGED <<vars, mission_batch_tasks, telemetry_events, safety_alerts,
                 submissions>>

\* Without the statement that restores the tasks.
BadRestoredTasks(b) == drone_tasks

\* The tasks of the batch that are in progress, in this batch or in another one
\* since.
RestoredTasks(b) ==
  [t \in Tasks |->
     IF t \in TasksOf(b) /\ drone_tasks[t].status = "in_progress"
     THEN WithStatus(drone_tasks[t], "accepted")
     ELSE drone_tasks[t]]

CancelDroneMissionBatch(b, version) ==
  /\ \A t \in Tasks : ~ HasTelemetry(t, b)
  /\ ChangeBatchRow(b, {"queued", "running"}, "cancelled", version)
  /\ drone_tasks' = RestoredTasks(b)
  /\ WriteBatchAudit("mission_batch", b)
  /\ UNCHANGED <<now, drone_missions, mission_drones, device_transfer_events,
                 audit_events, requests, mission_batch_tasks, telemetry_events,
                 safety_alerts, submissions>>

-----------------------------------------------------------------------------
(***************************************************************************)
(* Telemetry.                                                              *)
(***************************************************************************)

\* Without the comparison of the two statuses.
BadValidateObservationTarget(t, b) ==
  /\ <<b, t>> \in mission_batch_tasks
  /\ <<t, b>> \notin submissions
  /\ submissions' = submissions \union {<<t, b>>}
  /\ UNCHANGED <<vars, mission_batches, mission_batch_tasks, telemetry_events,
                 safety_alerts, batch_audit_events>>

\* SubmitObservation up to its checks.  Two submissions of one pair are as good
\* as one: the second insert would violate the unique key.
ValidateObservationTarget(t, b) ==
  /\ <<b, t>> \in mission_batch_tasks
  /\ drone_tasks[t].status = "in_progress"
  /\ mission_batches[b].status = "running"
  /\ <<t, b>> \notin submissions
  /\ submissions' = submissions \union {<<t, b>>}
  /\ UNCHANGED <<vars, mission_batches, mission_batch_tasks, telemetry_events,
                 safety_alerts, batch_audit_events>>

\* SubmitObservation from its INSERT to COMMIT.
CreateObservation(t, b) ==
  /\ <<t, b>> \in submissions
  /\ ~ HasTelemetry(t, b)
  /\ telemetry_events' = [telemetry_events EXCEPT ![<<t, b>>] =
       [status |-> "pending", version |-> 1]]
  /\ WriteBatchAudit("telemetry", <<t, b>>)
  /\ submissions' = submissions \ {<<t, b>>}
  /\ UNCHANGED <<vars, mission_batches, mission_batch_tasks, safety_alerts>>

\* The submission ends without a commit.
AbandonObservation(t, b) ==
  /\ <<t, b>> \in submissions
  /\ submissions' = submissions \ {<<t, b>>}
  /\ UNCHANGED <<vars, mission_batches, mission_batch_tasks, telemetry_events,
                 safety_alerts, batch_audit_events>>

ReviewObservationRecord(t, b, status, version) ==
  /\ telemetry_events[<<t, b>>].status = "pending"
  /\ telemetry_events[<<t, b>>].version = version
  /\ telemetry_events' = [telemetry_events EXCEPT ![<<t, b>>] =
       WithStatus(@, status)]

\* UNIQUE (drone_task_id, kind, status) refuses a second open alert.
CreateIntervention(t, kind) ==
  /\ <<t, kind, "open">> \notin safety_alerts
  /\ safety_alerts' = safety_alerts \union {<<t, kind, "open">>}

\* The task moves on its version alone; its status, its expiry and the batch
\* are not looked at.
AcceptObservation(t, b, telemetry_version, task_version) ==
  /\ ReviewObservationRecord(t, b, "verified", telemetry_version)
  /\ MoveTaskRow(t, "verified", task_version)
  /\ WriteBatchAudit("telemetry", <<t, b>>)
  /\ UNCHANGED <<now, drone_missions, device_transfer_events, audit_events,
                 requests, mission_batches, mission_batch_tasks, safety_alerts,
                 submissions>>

\* Ignoring the violated key: the alert that is open will do.
BadRejectObservation(t, b, telemetry_version, task_version) ==
  /\ ReviewObservationRecord(t, b, "rejected", telemetry_version)
  /\ MoveTaskRow(t, "rejected", task_version)
  /\ safety_alerts' = safety_alerts \union {<<t, "reassess", "open">>}
  /\ WriteBatchAudit("telemetry", <<t, b>>)
  /\ UNCHANGED <<now, drone_missions, device_transfer_events, audit_events,
                 requests, mission_batches, mission_batch_tasks, submissions>>

RejectObservation(t, b, telemetry_version, task_version) ==
  /\ ReviewObservationRecord(t, b, "rejected", telemetry_version)
  /\ MoveTaskRow(t, "rejected", task_version)
  /\ CreateIntervention(t, "reassess")
  /\ batch_audit_events' = [batch_audit_events EXCEPT
       ![<<"telemetry", <<t, b>>>>] = @ + 1,
       ![<<"safety_alert", <<t, "reassess">>>>] = @ + 1]
  /\ UNCHANGED <<now, drone_missions, device_transfer_events, audit_events,
                 requests, mission_batches, mission_batch_tasks, submissions>>

-----------------------------------------------------------------------------
(***************************************************************************)
(* Safety alerts.                                                          *)
(***************************************************************************)

OpenIntervention(t, kind) ==
  /\ TaskExists(t)
  /\ CreateIntervention(t, kind)
  /\ WriteBatchAudit("safety_alert", <<t, kind>>)
  /\ UNCHANGED <<vars, mission_batches, mission_batch_tasks, telemetry_events,
                 submissions>>

\* The same key refuses an alert a status another one of its kind has.
MoveAlert(t, kind, from, to) ==
  /\ <<t, kind, from>> \in safety_alerts
  /\ <<t, kind, to>> \notin safety_alerts
  /\ safety_alerts' = (safety_alerts \ {<<t, kind, from>>})
                        \union {<<t, kind, to>>}

MarkInterventionInProgress(t, kind) ==
  /\ MoveAlert(t, kind, "open", "in_progress")
  /\ WriteBatchAudit("safety_alert", <<t, kind>>)
  /\ UNCHANGED <<vars, mission_batches, mission_batch_tasks, telemetry_events,
                 submissions>>

CloseIntervention(t, kind) ==
  /\ \E from \in {"open", "in_progress"} : MoveAlert(t, kind, from, "closed")
  /\ WriteBatchAudit("safety_alert", <<t, kind>>)
  /\ UNCHANGED <<vars, mission_batches, mission_batch_tasks, telemetry_events,
                 submissions>>

-----------------------------------------------------------------------------

\* A batch is created at version 1 and changed at most twice.
BatchVersions == 1 .. 2

BatchStep ==
  \/ \E b \in Batches :
       \/ \E S \in SUBSET Tasks, began \in 0 .. now :
            CreateDroneMissionBatch(b, S, began)
       \/ \E v \in BatchVersions : StartDroneMissionBatch(b, v)
       \/ \E v \in BatchVersions : CompleteDroneMissionBatch(b, v)
       \/ \E v \in BatchVersions : CancelDroneMissionBatch(b, v)
  \/ \E t \in Tasks, b \in Batches :
       \/ ValidateObservationTarget(t, b)
       \/ CreateObservation(t, b)
       \/ AbandonObservation(t, b)
       \/ \E w \in 1 .. 2, v \in TaskVersions : AcceptObservation(t, b, w, v)
       \/ \E w \in 1 .. 2, v \in TaskVersions : RejectObservation(t, b, w, v)
  \/ \E t \in Tasks, kind \in AlertKinds :
       \/ OpenIntervention(t, kind)
       \/ MarkInterventionInProgress(t, kind)
       \/ CloseIntervention(t, kind)

BatchNext ==
  \/ BatchStep
  \/ Next /\ UNCHANGED batch_tables

BatchSpec == BatchInit /\ [][BatchNext]_batch_vars

-----------------------------------------------------------------------------
(***************************************************************************)
(* Properties.                                                             *)
(***************************************************************************)

\* A completed batch stays fully reviewed: no task is attached to it later, no
\* review is undone, and no telemetry slips in between the check and the end.
CompletedBatchesAreReviewed ==
  \A b \in Batches :
    mission_batches[b].status = "completed" =>
      \A t \in TasksOf(b) :
        telemetry_events[<<t, b>>].status \in {"verified", "rejected"}

\* A task in progress belongs to a batch that has not ended and in which it is
\* still to be reviewed, although handoffs, reviews and the worker move tasks
\* without looking at their batches: a batch cannot end and leave a task in
\* progress behind.
WorkInProgressHasLiveBatch ==
  \A t \in Tasks :
    drone_tasks[t].status = "in_progress" =>
      \E b \in Batches :
        /\ t \in TasksOf(b)
        /\ mission_batches[b].status \in {"queued", "running"}
        /\ telemetry_events[<<t, b>>].status \in {"absent", "pending"}

\* Each rejected review of a task left an alert of its own to reassess it, and
\* alerts are never lost: opening, starting and closing one by hand included.
RejectionsAreFollowedUp ==
  \A t \in Tasks :
    Cardinality({b \in Batches : telemetry_events[<<t, b>>].status = "rejected"})
      <= Cardinality({s \in AlertStatus : <<t, "reassess", s>> \in safety_alerts})

\* No telemetry without the batch it was flown in: the task is linked to the
\* batch and the batch was started, also when the insert comes long after the
\* checks.
TelemetryFollowsStart ==
  \A t \in Tasks, b \in Batches :
    HasTelemetry(t, b) =>
      /\ t \in TasksOf(b)
      /\ mission_batches[b].status \notin {"absent", "queued"}

\* A task that was handed over, is in a batch or passed its review has a custody
\* record: no path through batches, cancellations or reviews goes around it.
CustodyIsRecorded ==
  \A t \in Tasks :
    drone_tasks[t].status \in
      {"device_transfer_pending", "accepted", "in_progress", "verified"} =>
        device_transfer_events[t] > 0

\* Every committed change of a batch or of telemetry left exactly one audit row.
BatchAuditIsComplete ==
  /\ \A b \in Batches :
       batch_audit_events[<<"mission_batch", b>>] = mission_batches[b].version
  /\ \A tb \in Tasks \X Batches :
       batch_audit_events[<<"telemetry", tb>>] = telemetry_events[tb].version

\* business_checks.go:48: "task and drone round are not ready for an telemetry",
\* and the cancellation's NOT EXISTS: telemetry and a cancelled batch exclude
\* each other.  The insert may come after the cancellation.
NoTelemetryInCancelledBatch ==
  \A t \in Tasks, b \in Batches :
    HasTelemetry(t, b) => mission_batches[b].status # "cancelled"

=============================================================================
