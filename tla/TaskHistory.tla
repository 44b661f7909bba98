------------------------------ MODULE TaskHistory ------------------------------
(***************************************************************************)
(* The two records a task leaves behind, its chain of custody and its      *)
(* audit trail, and the two queries that read them: VerifyHandoff, which   *)
(* sorts the transfers by recorded_at, and QueryAudit, which pages through *)
(* the audit rows of a window of created_at.                               *)
(*                                                                         *)
(* Neither column says when a row was committed.  recorded_at is read when *)
(* the request arrives, unless the client sent one; created_at is SQL's    *)
(* now(), the instant the transaction began, the same in all the rows that *)
(* a transaction writes.  Rows are kept in the order of their commits;     *)
(* every reading of the clock takes a value of its own.                    *)
(*                                                                         *)
(* One task whose expires_at has passed, which transfers do not look at,   *)
(* and the other tasks that the expiration worker marks in the same passes *)
(* or in passes of their own; of these only the audit rows matter.         *)
(* A definition whose name starts with `Bad' is a plausible mistake in one *)
(* that follows it, used to test the properties.                           *)
(***************************************************************************)
EXTENDS Naturals, Sequences, FiniteSets

CONSTANTS
  Clients,    \* each with one request at a time
  Operators,  \* who hands over and who receives
  NoOperator, \* a transfer without from_operator
  Claims,     \* the times clients send, 0 for none
  Tolerance,  \* how far in the future a client's recorded_at may be
  PageSizes,
  Limit,      \* tasks of a pass of the expiration worker
  MaxTime,    \* bound of the readings of the clock
  MaxVersion  \* bound of the task's version

ASSUME HistoryAssumption ==
  /\ NoOperator \notin Operators
  /\ Claims \subseteq Nat
  /\ Tolerance \in Nat
  /\ PageSizes \subseteq Nat \ {0}
  /\ Limit \in Nat
  /\ MaxTime \in Nat \ {0}
  /\ MaxVersion \in Nat \ {0}

VARIABLES
  now,
  version,   \* of the task's row
  rejected,  \* whether the worker has marked the task as expired
  device_transfer_events,
  audit_events,
  request,   \* what each client has sent
  worker,    \* the instant the worker's transaction began, 0 if it is not open
  walk       \* a client that pages through a window of the audit trail

table_vars == <<version, rejected, device_transfer_events, audit_events>>
history_vars == <<now, table_vars, request, worker, walk>>

\* `named' says that the sender is the receiver before him and the time was
\* left to the server; it is no column.
Transfer == [from : Operators \union {NoOperator}, to : Operators,
             recorded_at : Nat \ {0}, named : BOOLEAN]

\* object: whether the row is about the task or about another one.
AuditRow == [by : {"client", "worker"}, object : {"task", "other"}, created_at : Nat]

Idle == [pc |-> "idle"]

Request == [pc : {"received", "begun"}, version : 1 .. MaxVersion,
            began : 0 .. MaxTime, transfer : Transfer]

\* object: the filter, "any" for none.
Walk == [pc : {"page", "done"}, to : 1 .. MaxTime, object : {"task", "any"},
         limit : PageSizes, offset : Nat, seen : SUBSET Nat, open : SUBSET Nat]

\* The last conjuncts say that nobody has read a clock or a version that is
\* still to come.
HistoryTypeOK ==
  /\ now \in 1 .. MaxTime
  /\ version \in 1 .. MaxVersion
  /\ rejected \in BOOLEAN
  /\ device_transfer_events \in Seq(Transfer)
  /\ audit_events \in Seq(AuditRow)
  /\ request \in [Clients -> Request \union {Idle}]
  /\ worker \in 0 .. now
  /\ walk \in Walk \union {Idle}
  /\ \A c \in Clients :
       request[c] # Idle => request[c].version <= version /\ request[c].began <= now
  /\ walk # Idle => walk.seen \subseteq DOMAIN audit_events

HistoryInit ==
  /\ now = 1
  /\ version = 1
  /\ rejected = FALSE
  /\ device_transfer_events = <<>>
  /\ audit_events = <<>>
  /\ request = [c \in Clients |-> Idle]
  /\ worker = 0
  /\ walk = Idle

\* Everyone reads a clock that has moved since it was read last.
ReadClock == now < MaxTime /\ now' = now + 1

Last(s) == s[Len(s)]

Holder ==
  IF device_transfer_events = <<>> THEN NoOperator
  ELSE Last(device_transfer_events).to

\* n rows of one transaction, one of them about the task or none.
WriteAudit(by, created_at, n, own) ==
  audit_events' = audit_events \o
    [k \in 1 .. n |-> [by |-> by,
                       object |-> IF own /\ k = 1 THEN "task" ELSE "other",
                       created_at |-> created_at]]

-----------------------------------------------------------------------------
(***************************************************************************)
(* Transfers: device_transfer, HandoffChecked and AcceptChecked.           *)
(***************************************************************************)

\* Handoff.Validate, with 0 for a time the client left out.
ValidTime(claimed) == claimed <= now + Tolerance

\* Without the default.
BadRecordedAt(claimed) == claimed

RecordedAt(claimed) == IF claimed = 0 THEN now ELSE claimed

\* A client sends the version it has seen.  It may name anyone as the sender
\* and any time.
ReceiveTransfer(c, from, to, claimed) ==
  /\ request[c] = Idle
  /\ ValidTime(claimed)
  /\ ReadClock
  /\ request' = [request EXCEPT ![c] =
       [pc |-> "received", version |-> version, began |-> 0,
        transfer |-> [from |-> from, to |-> to,
                      recorded_at |-> RecordedAt(claimed),
                      named |-> claimed = 0 /\ from = Holder]]]
  /\ UNCHANGED <<table_vars, worker, walk>>

BeginTransfer(c) ==
  /\ request[c] # Idle
  /\ request[c].pc = "received"
  /\ ReadClock
  /\ request' = [request EXCEPT ![c].pc = "begun", ![c].began = now]
  /\ UNCHANGED <<table_vars, worker, walk>>

\* Without AND version = ...
BadMoveDroneTask(v) ==
  /\ version < MaxVersion
  /\ version' = version + 1

\* The update of moveDroneTask, from any status.
MoveDroneTask(v) ==
  /\ version < MaxVersion
  /\ version = v
  /\ version' = version + 1

\* HandoffDroneTask and AcceptDroneTask, from the update to COMMIT.
CommitTransfer(c) ==
  /\ request[c] # Idle
  /\ request[c].pc = "begun"
  /\ MoveDroneTask(request[c].version)
  /\ rejected' = FALSE
  /\ device_transfer_events' =
       Append(device_transfer_events, request[c].transfer)
  /\ WriteAudit("client", request[c].began, 1, TRUE)
  /\ request' = [request EXCEPT ![c] = Idle]
  /\ UNCHANGED <<now, worker, walk>>

\* A conflict, or any other failure.
FailTransfer(c) ==
  /\ request[c] # Idle
  /\ request' = [request EXCEPT ![c] = Idle]
  /\ UNCHANGED <<now, table_vars, worker, walk>>

-----------------------------------------------------------------------------
(***************************************************************************)
(* The expiration worker.                                                  *)
(***************************************************************************)

BeginExpiration ==
  /\ worker = 0
  /\ ReadClock
  /\ worker' = now
  /\ UNCHANGED <<table_vars, request, walk>>

\* From SELECT ... FOR UPDATE SKIP LOCKED to COMMIT: n tasks are marked, and the
\* task, which may be locked or not among the first, is one of them or is not.
MarkExpired(n) ==
  /\ worker # 0
  /\ \/ /\ ~ rejected
        /\ version < MaxVersion
        /\ version' = version + 1
        /\ rejected' = TRUE
        /\ WriteAudit("worker", worker, n, TRUE)
     \/ /\ UNCHANGED <<version, rejected>>
        /\ WriteAudit("worker", worker, n, FALSE)
  /\ worker' = 0
  /\ UNCHANGED <<now, device_transfer_events, request, walk>>

\* Nothing to mark, or a failure.
EndExpiration ==
  /\ worker # 0
  /\ worker' = 0
  /\ UNCHANGED <<now, table_vars, request, walk>>

-----------------------------------------------------------------------------
(***************************************************************************)
(* Reading.                                                                *)
(***************************************************************************)

\* The orders in which a query may return the rows n of a table that is ordered
\* by a column: ties are broken by random ids.
Listings(n, Before(_, _)) ==
  {order \in [1 .. n -> 1 .. n] :
     /\ \A i, j \in 1 .. n : order[i] = order[j] => i = j
     /\ \A i, j \in 1 .. n : i < j => ~ Before(order[j], order[i])}

\* ORDER BY id alone.
BadListHandoff ==
  Listings(Len(device_transfer_events), LAMBDA i, j : FALSE)

ListHandoff ==
  Listings(Len(device_transfer_events),
    LAMBDA i, j : device_transfer_events[i].recorded_at
                    < device_transfer_events[j].recorded_at)

\* The first transfer may name anyone.
ValidateHandoffSequence(order) ==
  \A i \in 2 .. Len(device_transfer_events) :
    LET item == device_transfer_events[order[i]]
        previous == device_transfer_events[order[i - 1]]
    IN  /\ previous.recorded_at <= item.recorded_at
        /\ item.from # NoOperator
        /\ item.from = previous.to

VerifyHandoff == \A order \in ListHandoff : ValidateHandoffSequence(order)

\* WHERE created_at < $2 AND object_id = ...; the window begins with the first row.
InWindow(to, object) ==
  {i \in DOMAIN audit_events :
     /\ audit_events[i].created_at < to
     /\ object \in {audit_events[i].object, "any"}}

\* What ORDER BY created_at DESC may put first of a window: n of its rows, or all if
\* there are fewer, none of them older than one that is left.  Rows with one time
\* come in no order.
Newest(n, to, object) ==
  {A \in SUBSET InWindow(to, object) :
     /\ A # InWindow(to, object) => Cardinality(A) = n
     /\ Cardinality(A) <= n
     /\ \A i \in A, j \in InWindow(to, object) \ A :
          audit_events[j].created_at <= audit_events[i].created_at}

\* Skipping a row from page to page.
BadQueryAudit(w) ==
  {pages \in Newest(w.offset, w.to, w.object)
               \X Newest(w.offset + w.limit - 1, w.to, w.object) :
     pages[1] \subseteq pages[2]}

\* ORDER BY created_at DESC LIMIT $3 OFFSET $4: the rows before the page and those
\* up to its end.  Each query breaks ties in its own way.
QueryAudit(w) ==
  {pages \in Newest(w.offset, w.to, w.object)
               \X Newest(w.offset + w.limit, w.to, w.object) :
     pages[1] \subseteq pages[2]}

\* The transactions that are open.
OpenSince == {request[c].began : c \in {d \in Clients : request[d] # Idle}}
               \union {worker}

\* A client asks for the window that ends now, page after page.
BeginWalk(object, limit) ==
  /\ walk = Idle
  /\ ReadClock
  /\ walk' = [pc |-> "page", to |-> now, object |-> object, limit |-> limit,
              offset |-> 0, seen |-> {}, open |-> OpenSince]
  /\ UNCHANGED <<table_vars, request, worker>>

\* Rows and total are two statements; by the second one the total, which only
\* tells the client when to stop, may have grown.
ReadPage ==
  /\ walk # Idle
  /\ walk.pc = "page"
  /\ LET next == walk.offset + walk.limit
         total == Cardinality(InWindow(walk.to, walk.object))
     IN  \E pages \in QueryAudit(walk) :
           walk' = [walk EXCEPT
             !.seen = @ \union (pages[2] \ pages[1]),
             !.offset = next,
             !.pc = IF next < total THEN @ ELSE "done"]
  /\ UNCHANGED <<now, table_vars, request, worker>>

-----------------------------------------------------------------------------

HistoryNext ==
  \/ \E c \in Clients, from \in Operators \union {NoOperator},
        to \in Operators, claimed \in Claims :
       ReceiveTransfer(c, from, to, claimed)
  \/ \E c \in Clients :
       BeginTransfer(c) \/ CommitTransfer(c) \/ FailTransfer(c)
  \/ BeginExpiration
  \/ \E n \in 1 .. Limit : MarkExpired(n)
  \/ EndExpiration
  \/ \E object \in {"task", "any"}, limit \in PageSizes : BeginWalk(object, limit)
  \/ ReadPage

HistorySpec == HistoryInit /\ [][HistoryNext]_history_vars

-----------------------------------------------------------------------------
(***************************************************************************)
(* Properties.                                                             *)
(***************************************************************************)

\* Clients that name the receiver before them and leave the time to the server
\* leave a chain that verifies, however their requests overlap: who comes second
\* has an old version, whatever time it was stamped with.
NamedTransfersVerify ==
  (\A i \in DOMAIN device_transfer_events : device_transfer_events[i].named)
    => VerifyHandoff

\* The times of the audit rows about a task order its changes as they happened; a
\* row that claims to be older than one before it is the expiration worker's.
AuditOrderFollowsCommits ==
  \A i, j \in DOMAIN audit_events :
    /\ i < j
    /\ audit_events[i].object = "task"
    /\ audit_events[j].object = "task"
    /\ audit_events[j].created_at < audit_events[i].created_at
    => audit_events[j].by = "worker"

\* Another row of the window has the same time.
Tied(i, to, object) ==
  \E j \in InWindow(to, object) \ {i} :
    audit_events[j].created_at = audit_events[i].created_at

\* Reading a window that has ended shows every row there will ever be in it,
\* except those of transactions that were open when the reading began, although
\* rows that turn up late move the others from page to page.  Of rows with one time
\* some may be shown twice and others never; the rows about one task have none.
WindowsMissOnlyOpenOrTied ==
  walk # Idle /\ walk.pc = "done" =>
    \A i \in InWindow(walk.to, walk.object) \ walk.seen :
      \/ audit_events[i].created_at \in walk.open
      \/ walk.object = "any" /\ Tied(i, walk.to, walk.object)

=============================================================================
