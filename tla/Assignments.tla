----------------------------- MODULE Assignments -----------------------------
(***************************************************************************)
(* Assignments of drone units to operators: requests that create and       *)
(* advance them, and the worker that activates those that are due.  Every  *)
(* handler writes with one statement that checks what it relies on, so a   *)
(* transaction is one step.  Operators' roles never change while the       *)
(* server runs (no route changes them) and restrict only who is assigned.  *)
(***************************************************************************)
EXTENDS Integers, FiniteSets

CONSTANTS
  Assignments,  \* ids
  Units,        \* ids of mission_drones rows
  NoUnit,       \* the unit of a row that does not exist
  Limit,        \* rows one pass of the worker takes
  MaxTime       \* bound: the clock stops here

ASSUME LimitAssumption == Limit \in Nat \ {0} /\ MaxTime \in Nat

VARIABLES
  now,
  assignments,
  audit_events  \* audit rows of each assignment

vars == <<now, assignments, audit_events>>

Horizon == 0 .. MaxTime + 1

AssignmentStatus == {"queued", "active", "completed", "cancelled"}

\* The statuses the handler lets through.
AssignmentTargets == {"active", "completed", "cancelled"}

\* Versions clients send; an update by any other finds no row.
ClientVersions == 1 .. 3

AssignmentRow ==
  [status : AssignmentStatus \union {"absent"}, version : Nat,
   drone_id : Units \union {NoUnit}, starts_at : Nat, ends_at : Nat]

TypeOK ==
  /\ now \in 0 .. MaxTime
  /\ assignments \in [Assignments -> AssignmentRow]
  /\ \A a \in Assignments :
       assignments[a].status # "absent" =>
         assignments[a].starts_at < assignments[a].ends_at
  /\ audit_events \in [Assignments -> Nat]

Init ==
  /\ now = 0
  /\ assignments = [a \in Assignments |->
       [status |-> "absent", version |-> 0, drone_id |-> NoUnit,
        starts_at |-> 0, ends_at |-> 0]]
  /\ audit_events = [a \in Assignments |-> 0]

Exists(a) == assignments[a].status # "absent"

\* Assignment.CanMoveTo, which the services do not call.
CanMoveTo(from, to) ==
  \/ from = "queued" /\ to \in {"active", "cancelled"}
  \/ from = "active" /\ to \in {"completed", "cancelled"}

\* Allowing a move from the status itself.
BadAssignmentSourcesFor(next) ==
  CASE next = "active"    -> {"queued", "active"}
    [] next = "completed" -> {"active"}
    [] next = "cancelled" -> {"queued", "active"}

\* AssignmentSourcesFor: the statuses the update accepts.
AssignmentSourcesFor(next) ==
  CASE next = "active"    -> {"queued"}
    [] next = "completed" -> {"active"}
    [] next = "cancelled" -> {"queued", "active"}

WithStatus(row, status) ==
  [row EXCEPT !.status = status, !.version = @ + 1]

WriteAudit(a) == audit_events' = [audit_events EXCEPT ![a] = @ + 1]

\* AssignDroneUnit.  UNIQUE (drone_id, starts_at) counts rows of any status;
\* windows may overlap, and may be over already.
AssignDroneUnit(a, u, starts_at, ends_at) ==
  /\ ~ Exists(a)
  /\ starts_at < ends_at
  /\ \A b \in Assignments :
       Exists(b) => <<assignments[b].drone_id, assignments[b].starts_at>>
                      # <<u, starts_at>>
  /\ assignments' = [assignments EXCEPT ![a] =
       [status |-> "queued", version |-> 1, drone_id |-> u,
        starts_at |-> starts_at, ends_at |-> ends_at]]
  /\ WriteAudit(a)
  /\ UNCHANGED now

\* Without its audit row.
BadAdvanceAssignment(a, next, version) ==
  /\ Exists(a)
  /\ assignments[a].version = version
  /\ assignments[a].status \in AssignmentSourcesFor(next)
  /\ assignments' = [assignments EXCEPT ![a] = WithStatus(@, next)]
  /\ UNCHANGED <<now, audit_events>>

\* AdvanceAssignment: any client, any version, no look at the clock.
AdvanceAssignment(a, next, version) ==
  /\ Exists(a)
  /\ assignments[a].version = version
  /\ assignments[a].status \in AssignmentSourcesFor(next)
  /\ assignments' = [assignments EXCEPT ![a] = WithStatus(@, next)]
  /\ WriteAudit(a)
  /\ UNCHANGED now

\* Forgetting status = 'queued'.
BadDue(a) ==
  /\ assignments[a].status \in {"queued", "active"}
  /\ assignments[a].starts_at <= now
  /\ now < assignments[a].ends_at

\* < in place of <=
BadDueLater(a) ==
  /\ assignments[a].status = "queued"
  /\ assignments[a].starts_at < now
  /\ now < assignments[a].ends_at

Due(a) ==
  /\ assignments[a].status = "queued"
  /\ assignments[a].starts_at <= now
  /\ now < assignments[a].ends_at

\* ORDER BY starts_at LIMIT ... FOR UPDATE SKIP LOCKED.
SelectedBatch(S, locked) ==
  LET Free == {a \in Assignments : Due(a)} \ locked IN
  /\ S \subseteq Free
  /\ Cardinality(S) <= Limit
  /\ S # Free => Cardinality(S) = Limit
  /\ \A s \in S, a \in Free \ S :
       assignments[s].starts_at <= assignments[a].starts_at

\* A pass of the worker, when other transactions hold the rows in `locked'.
\* It writes no audit row.
ActivateDue(locked) ==
  \E S \in SUBSET Assignments :
    /\ S # {}
    /\ SelectedBatch(S, locked)
    /\ assignments' = [a \in Assignments |->
         IF a \in S
         THEN WithStatus(assignments[a], "active")
         ELSE assignments[a]]
    /\ UNCHANGED <<now, audit_events>>

Tick ==
  /\ now < MaxTime
  /\ now' = now + 1
  /\ UNCHANGED <<assignments, audit_events>>

Next ==
  \/ Tick
  \/ \E a \in Assignments, u \in Units, s, e \in Horizon :
       AssignDroneUnit(a, u, s, e)
  \/ \E a \in Assignments, next \in AssignmentTargets,
       v \in ClientVersions : AdvanceAssignment(a, next, v)
  \/ \E locked \in SUBSET Assignments : ActivateDue(locked)

\* The worker keeps running and row locks are released in the end.
Fairness == WF_vars(ActivateDue({}))

Spec == Init /\ [][Next]_vars /\ Fairness

-----------------------------------------------------------------------------
(***************************************************************************)
(* Properties.                                                             *)
(***************************************************************************)

\* An assignment starts once, whoever starts it: the worker and clients race to
\* activate, and what follows is one completion or one cancellation.  The row's
\* version tells how far it has come.
StartsOnce ==
  \A a \in Assignments :
    LET row == assignments[a] IN
    /\ row.version = 0 <=> row.status = "absent"
    /\ row.version = 1 <=> row.status = "queued"
    /\ row.version = 2 => row.status \in {"active", "cancelled"}
    /\ row.version = 3 => row.status \in {"completed", "cancelled"}
    /\ row.version <= 3

\* At most one change of an assignment has no audit row, and that is one made
\* after it was created: the worker's activation.
AuditMissesOneAtMost ==
  \A a \in Assignments :
    LET row == assignments[a] IN
    /\ audit_events[a] <= row.version
    /\ row.version <= audit_events[a] + 1
    /\ row.status \in {"absent", "queued"} => audit_events[a] = row.version

\* The statuses the updates accept and the worker's condition agree with the
\* table of domain.Assignment, which neither of them calls.
AssignmentFollowsTable ==
  [][\A a \in Assignments :
       /\ Exists(a)
       /\ assignments'[a] # assignments[a]
       => CanMoveTo(assignments[a].status, assignments'[a].status)]_vars

\* A due assignment does not stay due and queued for ever: the worker activates it, a
\* client moves it, or its window ends.  The limit may leave it out of one pass after
\* another until then, and nothing promises that it starts.
DueAssignmentsStart ==
  \A a \in Assignments :
    (/\ assignments[a].status = "queued"
     /\ now \in assignments[a].starts_at .. assignments[a].ends_at - 1)
    ~> \/ assignments[a].status # "queued"
       \/ now >= assignments[a].ends_at

=============================================================================
