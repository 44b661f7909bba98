------------------------------ MODULE AttachLocks ------------------------------
(***************************************************************************)
(* The transactions that make and cancel execution batches, statement by   *)
(* statement and with PostgreSQL's row locks.  MissionBatches takes each   *)
(* of them for one step; here they wait for one another, meet the          *)
(* expiration worker, handoffs and reviews, are rolled back, and deadlock. *)
(*                                                                         *)
(* A transaction is named by the batch it makes or cancels.  What it wrote *)
(* to a task is in `held' until it commits: the row keeps its committed    *)
(* status, which is what everyone else reads.  A batch is `queued' until   *)
(* it is cancelled: to start and to complete one touches none of its       *)
(* tasks.  Versions are left out: the statements of batches check none of  *)
(* a task, and a client that has just read a task knows its own.           *)
(*                                                                         *)
(* A definition whose name starts with `Bad' is a plausible mistake in one *)
(* that follows it, used to test the properties.                           *)
(***************************************************************************)
EXTENDS Naturals, Sequences, FiniteSets

CONSTANTS
  Tasks,
  Batches,      \* the ids the server draws, each for one request
  Codes,        \* mission_batches.code
  Requests,     \* the creations clients send: a code, a list of tasks, a capacity
  ExpiresAt,    \* ExpiresAt[t]: the task's expires_at
  Limit,        \* rows of a pass of the expiration worker
  MaxTime,      \* bound of the clock
  Worker, Nobody

ASSUME AttachAssumption ==
  /\ IsFiniteSet(Tasks)
  /\ Requests \subseteq [code : Codes, tasks : Seq(Tasks), capacity : Nat]
  /\ ExpiresAt \in [Tasks -> Nat]
  /\ MaxTime \in Nat
  /\ Worker \notin Batches
  /\ Nobody \notin Batches \union {Worker}

VARIABLES
  now,
  status,     \* committed status of each task
  held,       \* the transaction with the row lock of each task
  phase,      \* how far the request for each batch has come
  code,       \* mission_batches.code of each batch
  ids,        \* the list of each request
  next,       \* the place in it the loop of attachDroneTasks has reached
  began,      \* SQL's now() of each transaction
  links,      \* rows of mission_batch_tasks, those not yet committed included
  restoring,  \* the tasks a cancellation has found and not yet updated, in order
  observed    \* batches with telemetry

request_vars == <<code, ids, began, observed>>
lock_vars == <<now, status, held, phase, code, ids, next, began, links, restoring,
               observed>>

\* "closed": verified, rejected or archived, which every statement here treats alike.
TaskStatus == {"device_transfer_pending", "accepted", "in_progress", "closed"}

\* "insert", "attach" and "cancel" are open transactions; others see the batch
\* as before them.
Open == {"insert", "attach", "cancel"}
Phase == {"new", "failed", "queued", "cancelled"} \union Open

AttachTypeOK ==
  /\ now \in Nat
  /\ status \in [Tasks -> TaskStatus]
  /\ held \in [Tasks -> Batches \union {Worker, Nobody}]
  /\ phase \in [Batches -> Phase]
  /\ code \in [Batches -> Codes \union {Nobody}]
  /\ ids \in [Batches -> Seq(Tasks)]
  /\ next \in [Batches -> Nat]
  /\ began \in [Batches -> Nat]
  /\ links \subseteq Batches \X Tasks
  /\ restoring \in [Batches -> Seq(Tasks)]
  /\ observed \subseteq Batches

AttachInit ==
  /\ now = 0
  /\ status = [t \in Tasks |-> "device_transfer_pending"]
  /\ held = [t \in Tasks |-> Nobody]
  /\ phase = [b \in Batches |-> "new"]
  /\ code = [b \in Batches |-> Nobody]
  /\ ids = [b \in Batches |-> <<>>]
  /\ next = [b \in Batches |-> 1]
  /\ began = [b \in Batches |-> 0]
  /\ links = {}
  /\ restoring = [b \in Batches |-> <<>>]
  /\ observed = {}

HeldBy(x) == {t \in Tasks : held[t] = x}
TasksOf(b) == {t \in Tasks : <<b, t>> \in links}
Listed(b) == {ids[b][i] : i \in 1 .. Len(ids[b])}
Unrestored(b) == {restoring[b][i] : i \in 1 .. Len(restoring[b])}

\* Committed batches, a cancellation that is still open included.
Visible(b) == phase[b] \in {"queued", "cancel", "cancelled"}

Release(x) == held' = [t \in Tasks |-> IF held[t] = x THEN Nobody ELSE held[t]]

-----------------------------------------------------------------------------
(***************************************************************************)
(* Making a batch: Service.CreateDroneMissionBatch.                        *)
(***************************************************************************)

\* Validate and validateIDs: the list fits the capacity and names no task twice.
ValidRequest(r) ==
  /\ Len(r.tasks) \in 1 .. r.capacity
  /\ \A i, j \in 1 .. Len(r.tasks) : r.tasks[i] = r.tasks[j] => i = j

\* The id a request draws; which one it is makes no difference.
FreshId == CHOOSE b \in Batches : phase[b] = "new"

\* A valid request begins its transaction.
CreateDroneMissionBatch(b, r) ==
  /\ phase[b] = "new"
  /\ b = FreshId
  /\ ValidRequest(r)
  /\ phase' = [phase EXCEPT ![b] = "insert"]
  /\ code' = [code EXCEPT ![b] = r.code]
  /\ ids' = [ids EXCEPT ![b] = r.tasks]
  /\ began' = [began EXCEPT ![b] = now]
  /\ UNCHANGED <<now, status, held, next, links, restoring, observed>>

\* Looking for the code first, in place of the unique key.
BadInsertBatch(b) ==
  /\ phase[b] = "insert"
  /\ phase' = [phase EXCEPT ![b] =
       IF \E c \in Batches : Visible(c) /\ code[c] = code[b]
       THEN "failed" ELSE "attach"]
  /\ UNCHANGED <<now, status, held, request_vars, next, links, restoring>>

\* INSERT INTO mission_batches: code is UNIQUE, so the statement waits for an
\* open transaction that inserted the same one.
InsertBatch(b) ==
  /\ phase[b] = "insert"
  /\ \A c \in Batches : code[c] = code[b] => phase[c] # "attach"
  /\ phase' = [phase EXCEPT ![b] =
       IF \E c \in Batches : Visible(c) /\ code[c] = code[b]
       THEN "failed" ELSE "attach"]
  /\ UNCHANGED <<now, status, held, request_vars, next, links, restoring>>

\* The task the loop of attachDroneTasks is at.
AtTask(b, t) ==
  /\ phase[b] = "attach"
  /\ next[b] <= Len(ids[b])
  /\ t = ids[b][next[b]]

\* INSERT INTO mission_batch_tasks: the foreign key locks the task's row FOR KEY
\* SHARE, which only the worker's FOR UPDATE keeps waiting.
InsertLink(b, t) ==
  /\ AtTask(b, t)
  /\ <<b, t>> \notin links
  /\ held[t] # Worker
  /\ links' = links \union {<<b, t>>}
  /\ UNCHANGED <<now, status, held, phase, request_vars, next, restoring>>

\* Without AND status = 'accepted'.
BadEligible(b, t) == began[b] <= ExpiresAt[t]

Eligible(b, t) ==
  /\ status[t] = "accepted"
  /\ began[b] <= ExpiresAt[t]

\* Taking the task through the pool in place of the transaction.
BadTakeTask(b, t) ==
  /\ AtTask(b, t)
  /\ <<b, t>> \in links
  /\ Eligible(b, t)
  /\ held[t] = Nobody
  /\ status' = [status EXCEPT ![t] = "in_progress"]
  /\ next' = [next EXCEPT ![b] = @ + 1]
  /\ UNCHANGED <<now, held, phase, request_vars, links, restoring>>

\* UPDATE drone_tasks: a row another transaction has updated is waited for, and
\* looked at again once that transaction ends.
TakeTask(b, t) ==
  /\ AtTask(b, t)
  /\ <<b, t>> \in links
  /\ Eligible(b, t)
  /\ held[t] = Nobody
  /\ held' = [held EXCEPT ![t] = b]
  /\ next' = [next EXCEPT ![b] = @ + 1]
  /\ UNCHANGED <<now, status, phase, request_vars, links, restoring>>

\* Nothing a creation wrote is left, and its request is over.
UndoAttach(b) ==
  /\ phase' = [phase EXCEPT ![b] = "failed"]
  /\ code' = [code EXCEPT ![b] = Nobody]
  /\ ids' = [ids EXCEPT ![b] = <<>>]
  /\ next' = [next EXCEPT ![b] = 1]
  /\ began' = [began EXCEPT ![b] = 0]
  /\ links' = links \ ({b} \X Tasks)
  /\ UNCHANGED restoring

UndoCancel(b) ==
  /\ phase' = [phase EXCEPT ![b] = "queued"]
  /\ restoring' = [restoring EXCEPT ![b] = <<>>]
  /\ UNCHANGED <<code, ids, next, began, links>>

\* Returning the error without tx.Rollback: the transaction stays open.
BadRollback(b) ==
  /\ IF phase[b] = "cancel" THEN UndoCancel(b) ELSE UndoAttach(b)
  /\ UNCHANGED <<now, status, held, observed>>

\* InTx after an error.
Rollback(b) ==
  /\ Release(b)
  /\ IF phase[b] = "cancel" THEN UndoCancel(b) ELSE UndoAttach(b)
  /\ UNCHANGED <<now, status, observed>>

\* Leaving the loop, in place of returning an error, when the update finds no row.
BadRefuseTask(b, t) ==
  /\ AtTask(b, t)
  /\ <<b, t>> \in links
  /\ ~ Eligible(b, t)
  /\ next' = [next EXCEPT ![b] = Len(ids[b]) + 1]
  /\ UNCHANGED <<now, status, held, phase, request_vars, links, restoring>>

\* No row updated: the whole transaction is rolled back.
RefuseTask(b, t) ==
  /\ AtTask(b, t)
  /\ <<b, t>> \in links
  /\ ~ Eligible(b, t)
  /\ Rollback(b)

CommitAttach(b) ==
  /\ phase[b] = "attach"
  /\ next[b] > Len(ids[b])
  /\ phase' = [phase EXCEPT ![b] = "queued"]
  /\ status' = [t \in Tasks |->
       IF held[t] = b THEN "in_progress" ELSE status[t]]
  /\ Release(b)
  /\ UNCHANGED <<now, request_vars, next, links, restoring>>

-----------------------------------------------------------------------------
(***************************************************************************)
(* Cancelling a batch: one statement that updates the batch and then, one  *)
(* row after the other, the tasks it sees in progress.  Nothing says in    *)
(* which order.                                                            *)
(***************************************************************************)

Orders(S) ==
  {order \in [1 .. Cardinality(S) -> S] :
     \A i, j \in DOMAIN order : order[i] = order[j] => i = j}

\* Only a batch without telemetry is cancelled.
BeginCancel(b) ==
  /\ phase[b] = "queued"
  /\ b \notin observed
  /\ phase' = [phase EXCEPT ![b] = "cancel"]
  /\ \E order \in Orders({t \in TasksOf(b) : status[t] = "in_progress"}) :
       restoring' = [restoring EXCEPT ![b] = order]
  /\ UNCHANGED <<now, status, held, request_vars, next, links>>

\* The row the statement is at.
AtRow(b, t) ==
  /\ phase[b] = "cancel"
  /\ restoring[b] # <<>>
  /\ t = Head(restoring[b])

\* Not looking at the row again after waiting for its lock.
BadRestoreTask(b, t) ==
  /\ AtRow(b, t)
  /\ held[t] = Nobody
  /\ restoring' = [restoring EXCEPT ![b] = Tail(@)]
  /\ held' = [held EXCEPT ![t] = b]
  /\ UNCHANGED <<now, status, phase, request_vars, next, links>>

\* A row that is no longer in progress after the wait is left alone.
RestoreTask(b, t) ==
  /\ AtRow(b, t)
  /\ held[t] = Nobody
  /\ restoring' = [restoring EXCEPT ![b] = Tail(@)]
  /\ held' = [held EXCEPT ![t] = IF status[t] = "in_progress" THEN b ELSE @]
  /\ UNCHANGED <<now, status, phase, request_vars, next, links>>

CommitCancel(b) ==
  /\ phase[b] = "cancel"
  /\ restoring[b] = <<>>
  /\ phase' = [phase EXCEPT ![b] = "cancelled"]
  /\ status' = [t \in Tasks |-> IF held[t] = b THEN "accepted" ELSE status[t]]
  /\ Release(b)
  /\ UNCHANGED <<now, request_vars, next, links, restoring>>

-----------------------------------------------------------------------------
(***************************************************************************)
(* The expiration worker, clients, failures and the deadlock detector.     *)
(***************************************************************************)

\* Locks of any kind on the row of a task.
Unlocked(t) ==
  /\ held[t] = Nobody
  /\ \A b \in Batches : phase[b] = "attach" => <<b, t>> \notin links

Overdue(t) ==
  /\ status[t] \in {"device_transfer_pending", "accepted", "in_progress"}
  /\ ExpiresAt[t] < now


Expirable(t) ==
  /\ Overdue(t)
  /\ Unlocked(t)

\* SELECT ... ORDER BY expires_at LIMIT ... FOR UPDATE SKIP LOCKED.
LockExpired(S) ==
  /\ HeldBy(Worker) = {}
  /\ S # {}
  /\ \A t \in S : Expirable(t)
  /\ Cardinality(S) <= Limit
  /\ \A t \in Tasks \ S :
       Expirable(t) =>
         /\ Cardinality(S) = Limit
         /\ \A s \in S : ExpiresAt[s] <= ExpiresAt[t]
  /\ held' = [t \in Tasks |-> IF t \in S THEN Worker ELSE held[t]]
  /\ UNCHANGED <<now, status, phase, request_vars, next, links, restoring>>

MarkExpired ==
  /\ HeldBy(Worker) # {}
  /\ status' = [t \in Tasks |->
       IF held[t] = Worker THEN "closed" ELSE status[t]]
  /\ Release(Worker)
  /\ UNCHANGED <<now, phase, request_vars, next, links, restoring>>

\* The worker's transaction fails.
AbandonExpired ==
  /\ HeldBy(Worker) # {}
  /\ Release(Worker)
  /\ UNCHANGED <<now, status, phase, request_vars, next, links, restoring>>

\* UPDATE drone_tasks by id and version, from any status.  The transactions that
\* do so wait for no batch once they have the row, so they are one step.
MoveDroneTask(t, new) ==
  /\ held[t] = Nobody
  /\ status' = [status EXCEPT ![t] = new]
  /\ UNCHANGED <<now, held, phase, code, ids, began, next, links, restoring>>

HandoffDroneTask(t) ==
  /\ MoveDroneTask(t, "device_transfer_pending")
  /\ UNCHANGED observed

AcceptDroneTask(t) ==
  /\ MoveDroneTask(t, "accepted")
  /\ UNCHANGED observed

\* The telemetry was recorded at some time while t was in progress in b, which is
\* visible since then; what matters of it here is that b is not cancelled after.
ReviewObservation(b, t) ==
  /\ Visible(b)
  /\ t \in TasksOf(b)
  /\ MoveDroneTask(t, "closed")
  /\ observed' = observed \union {b}

\* What clients do to one task.
ClientMoves(t) ==
  \/ HandoffDroneTask(t)
  \/ AcceptDroneTask(t)
  \/ \E b \in Batches : ReviewObservation(b, t)

\* The connection is lost, the client goes away, a statement fails.
Abort(b) ==
  /\ phase[b] \in Open
  /\ Rollback(b)

\* b waits for c: the loop for a task it could take, a cancellation for the row it
\* is at.
Waits(b, c) ==
  \/ \E t \in Tasks :
       /\ AtTask(b, t)
       /\ <<b, t>> \in links
       /\ Eligible(b, t)
       /\ held[t] = c
  \/ \E t \in Tasks : AtRow(b, t) /\ held[t] = c

\* Transactions each of which waits for one of them and keeps one of them waiting.
Cycle(W) ==
  \A b \in W : /\ \E c \in W : Waits(b, c)
               /\ \E a \in W : Waits(a, b)

\* PostgreSQL ends one transaction of a cycle; nobody tries it again.
EndVictim(b) ==
  /\ \E W \in SUBSET Batches : b \in W /\ Cycle(W)
  /\ Rollback(b)

Tick ==
  /\ now < MaxTime
  /\ now' = now + 1
  /\ UNCHANGED <<status, held, phase, request_vars, next, links, restoring>>

-----------------------------------------------------------------------------

\* What the server goes on with once a request has come in.
Proceed(b) ==
  \/ InsertBatch(b)
  \/ \E t \in Tasks : InsertLink(b, t) \/ TakeTask(b, t) \/ RefuseTask(b, t)
  \/ CommitAttach(b)
  \/ \E t \in Tasks : RestoreTask(b, t)
  \/ CommitCancel(b)

AttachNext ==
  \/ \E b \in Batches, r \in Requests : CreateDroneMissionBatch(b, r)
  \/ \E b \in Batches :
       Proceed(b) \/ BeginCancel(b) \/ Abort(b) \/ EndVictim(b)
  \/ \E S \in SUBSET Tasks : LockExpired(S)
  \/ MarkExpired
  \/ AbandonExpired
  \/ \E t \in Tasks : ClientMoves(t)
  \/ Tick

AttachSafety == AttachInit /\ [][AttachNext]_lock_vars

\* A lock that is free again and again comes to those who wait for it (the
\* database queues them), the detector looks at waiting transactions after
\* deadlock_timeout, and the worker runs again and again, also when passes fail
\* or find rows locked.  Clients owe nothing.
AttachFairness ==
  /\ \A b \in Batches :
       /\ SF_lock_vars(Proceed(b))
       /\ WF_lock_vars(EndVictim(b))
  /\ SF_lock_vars(\E S \in SUBSET Tasks : LockExpired(S))
  /\ SF_lock_vars(MarkExpired)

AttachSpec == AttachSafety /\ AttachFairness

-----------------------------------------------------------------------------
(***************************************************************************)
(* Properties.                                                             *)
(***************************************************************************)

\* A batch one can see has all the tasks of its request; a request that failed
\* left nothing, and only open transactions keep rows locked.
BatchesAreWhole ==
  \A b \in Batches :
    /\ Visible(b) => TasksOf(b) = Listed(b)
    /\ phase[b] = "failed" => TasksOf(b) = {}
    /\ phase[b] \notin Open => HeldBy(b) = {}

\* Whatever fails, waits or is moved by a client in between, a task in progress
\* belongs to a batch that is not cancelled: no cancellation and no rollback
\* strands one.  (It may belong to several, and the cancellation of one of them
\* gives back what another works on.)
WorkIsNeverOrphaned ==
  \A t \in Tasks :
    status[t] = "in_progress" =>
      \E b \in Batches : phase[b] \in {"queued", "cancel"} /\ <<b, t>> \in links

\* A creation sent twice under one code, the second while the first is open
\* included, makes one batch.
OneBatchPerCode ==
  \A b, c \in Batches : Visible(b) /\ Visible(c) /\ code[b] = code[c] => b = c

\* Every list agrees with one order of the tasks.
Ascending(rank) ==
  \A b \in Batches : \A i, j \in 1 .. Len(ids[b]) :
    i < j => rank[ids[b][i]] < rank[ids[b][j]]

\* The service takes tasks in the client's order, so creations can deadlock.  When
\* all lists follow one order only cancellations can, of batches that have a task
\* in common: no list fixes the order of their rows.
OnlyCancellationsDeadlock ==
  (\E rank \in [Tasks -> 1 .. Cardinality(Tasks)] : Ascending(rank)) =>
    \A W \in SUBSET Batches : Cycle(W) =>
      \A b \in W :
        /\ phase[b] = "cancel"
        /\ \E c \in W \ {b} : TasksOf(b) \intersect TasksOf(c) # {}

\* No transaction stays open for ever, those that wait for one another included.
RequestsEnd == \A b \in Batches : []<>(phase[b] \notin Open)


VisibleStatus ==
  [b \in Batches |->
     IF ~ Visible(b) THEN "absent"
     ELSE IF phase[b] = "cancel" THEN "queued" ELSE phase[b]]
VisibleTasks == [b \in Batches |-> IF Visible(b) THEN TasksOf(b) ELSE {}]

Board == INSTANCE BatchBoard WITH
  task <- status, batch <- VisibleStatus, members <- VisibleTasks

\* Statements that interleave amount to batches made and cancelled at one instant.
ImplementsBatchBoard == Board!BoardSpec

=============================================================================
