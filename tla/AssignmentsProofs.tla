------------------------- MODULE AssignmentsProofs -------------------------
(***************************************************************************)
(* Proofs about Assignments, for any assignments, units and limit.         *)
(***************************************************************************)
EXTENDS Assignments, TLAPS

\* What an update does to a row.
LEMMA RowWithStatus ==
  ASSUME NEW row \in AssignmentRow, NEW status \in AssignmentStatus
  PROVE  /\ WithStatus(row, status) \in AssignmentRow
         /\ WithStatus(row, status).status = status
         /\ WithStatus(row, status).version = row.version + 1
         /\ WithStatus(row, status).starts_at = row.starts_at
         /\ WithStatus(row, status).ends_at = row.ends_at
<1>1. row.version + 1 \in Nat
  BY DEF AssignmentRow
<1>2. WithStatus(row, status) \in AssignmentRow
  BY <1>1, Zenon DEF WithStatus, AssignmentRow
<1>3. QED
  BY <1>2 DEF WithStatus, AssignmentRow

-----------------------------------------------------------------------------
(***************************************************************************)
(* What one step does to an assignment.                                    *)
(***************************************************************************)

SameWindow(a) ==
  /\ assignments'[a].starts_at = assignments[a].starts_at
  /\ assignments'[a].ends_at = assignments[a].ends_at

Created(a) ==
  /\ assignments[a].status = "absent"
  /\ assignments'[a].status = "queued"
  /\ assignments'[a].version = 1
  /\ assignments'[a].starts_at < assignments'[a].ends_at
  /\ audit_events'[a] = audit_events[a] + 1

Advanced(a) ==
  /\ CanMoveTo(assignments[a].status, assignments'[a].status)
  /\ assignments'[a].version = assignments[a].version + 1
  /\ audit_events'[a] = audit_events[a] + 1
  /\ SameWindow(a)

ActivatedByWorker(a) ==
  /\ assignments[a].status = "queued"
  /\ assignments'[a].status = "active"
  /\ assignments'[a].version = assignments[a].version + 1
  /\ audit_events'[a] = audit_events[a]
  /\ SameWindow(a)

Untouched(a) ==
  assignments'[a] = assignments[a] /\ audit_events'[a] = audit_events[a]

Effect ==
  /\ assignments' \in [Assignments -> AssignmentRow]
  /\ audit_events' \in [Assignments -> Nat]
  /\ now' \in 0 .. MaxTime
  /\ \A a \in Assignments :
       Untouched(a) \/ Created(a) \/ Advanced(a) \/ ActivatedByWorker(a)

\* A request that creates an assignment.
LEMMA CreateEffect ==
  ASSUME TypeOK, NEW a \in Assignments, NEW u \in Units,
         NEW s \in Horizon, NEW e \in Horizon, AssignDroneUnit(a, u, s, e)
  PROVE  Effect
<1> DEFINE row == [status |-> "queued", version |-> 1, drone_id |-> u,
                   starts_at |-> s, ends_at |-> e]
<1>1. s \in Nat /\ e \in Nat /\ s < e
  BY LimitAssumption DEF Horizon, AssignDroneUnit
<1>2. /\ row \in AssignmentRow
      /\ row.status = "queued"
      /\ row.version = 1
      /\ row.starts_at < row.ends_at
  BY <1>1 DEF AssignmentRow, AssignmentStatus
<1> HIDE DEF row
<1>3. /\ assignments' = [assignments EXCEPT ![a] = row]
      /\ audit_events' = [audit_events EXCEPT ![a] = @ + 1]
      /\ now' = now
      /\ assignments[a].status = "absent"
  BY DEF AssignDroneUnit, WriteAudit, Exists, row
<1>4. /\ assignments \in [Assignments -> AssignmentRow]
      /\ audit_events \in [Assignments -> Nat]
      /\ now \in 0 .. MaxTime
  BY DEF TypeOK
<1>5. \A b \in Assignments \ {a} : Untouched(b)
  BY <1>3, <1>4 DEF Untouched
<1>6. assignments'[a] = row /\ audit_events'[a] = audit_events[a] + 1
  BY <1>3, <1>4
<1>7. Created(a)
  BY <1>2, <1>3, <1>6 DEF Created
<1>8. assignments' \in [Assignments -> AssignmentRow]
  BY <1>2, <1>3, <1>4
<1>9. audit_events' \in [Assignments -> Nat]
  BY <1>3, <1>4
<1>10. QED
  BY <1>3, <1>4, <1>5, <1>7, <1>8, <1>9 DEF Effect

\* A request that advances one.
LEMMA AdvanceEffect ==
  ASSUME TypeOK, NEW a \in Assignments, NEW next \in AssignmentTargets,
         NEW v, AdvanceAssignment(a, next, v)
  PROVE  Effect
<1> DEFINE row == WithStatus(assignments[a], next)
<1>1. /\ assignments \in [Assignments -> AssignmentRow]
      /\ audit_events \in [Assignments -> Nat]
      /\ now \in 0 .. MaxTime
      /\ assignments[a] \in AssignmentRow
      /\ next \in AssignmentStatus
  BY DEF TypeOK, AssignmentTargets, AssignmentStatus
<1>2. /\ row \in AssignmentRow
      /\ row.status = next
      /\ row.version = assignments[a].version + 1
      /\ row.starts_at = assignments[a].starts_at
      /\ row.ends_at = assignments[a].ends_at
  BY <1>1, RowWithStatus
<1> HIDE DEF row
<1>3. /\ assignments' = [assignments EXCEPT ![a] = row]
      /\ audit_events' = [audit_events EXCEPT ![a] = @ + 1]
      /\ now' = now
  BY <1>1 DEF AdvanceAssignment, WriteAudit, row
<1>4. CanMoveTo(assignments[a].status, next)
  BY DEF AdvanceAssignment, AssignmentSourcesFor, AssignmentTargets, CanMoveTo
<1>5. \A b \in Assignments \ {a} : Untouched(b)
  BY <1>1, <1>3 DEF Untouched
<1>6. assignments'[a] = row /\ audit_events'[a] = audit_events[a] + 1
  BY <1>1, <1>3
<1>7. Advanced(a)
  BY <1>2, <1>4, <1>6 DEF Advanced, SameWindow
<1>8. assignments' \in [Assignments -> AssignmentRow]
  BY <1>1, <1>2, <1>3
<1>9. audit_events' \in [Assignments -> Nat]
  BY <1>1, <1>3
<1>10. QED
  BY <1>1, <1>3, <1>5, <1>7, <1>8, <1>9 DEF Effect

\* A pass of the worker.
LEMMA ActivateEffect ==
  ASSUME TypeOK, NEW locked, ActivateDue(locked)
  PROVE  Effect
<1>1. PICK S \in SUBSET Assignments :
        /\ SelectedBatch(S, locked)
        /\ assignments' = [a \in Assignments |->
             IF a \in S
             THEN WithStatus(assignments[a], "active")
             ELSE assignments[a]]
        /\ UNCHANGED <<now, audit_events>>
  BY DEF ActivateDue
<1>2. /\ \A a \in Assignments : assignments[a] \in AssignmentRow
      /\ audit_events \in [Assignments -> Nat]
      /\ now \in 0 .. MaxTime
  BY DEF TypeOK
<1>3. ASSUME NEW a \in S
      PROVE  /\ ActivatedByWorker(a)
             /\ assignments'[a] \in AssignmentRow
  <2>1. assignments[a].status = "queued"
    BY <1>1 DEF SelectedBatch, Due
  <2>2. assignments'[a] = WithStatus(assignments[a], "active")
    BY <1>1
  <2>3. "active" \in AssignmentStatus
    BY DEF AssignmentStatus
  <2>4. QED
    BY <1>1, <1>2, <2>1, <2>2, <2>3, RowWithStatus
    DEF ActivatedByWorker, SameWindow
<1>4. \A a \in Assignments \ S :
        Untouched(a) /\ assignments'[a] = assignments[a]
  BY <1>1 DEF Untouched
<1>5. assignments' \in [Assignments -> AssignmentRow]
  <2>1. \A a \in Assignments : assignments'[a] \in AssignmentRow
    BY <1>2, <1>3, <1>4
  <2>2. assignments' = [a \in Assignments |-> assignments'[a]]
    BY <1>1
  <2>3. QED
    BY <2>1, <2>2
<1>6. QED
  BY <1>1, <1>2, <1>3, <1>4, <1>5 DEF Effect

\* Every step has one of these effects on each assignment.
LEMMA StepEffect == TypeOK /\ [Next]_vars => Effect
<1> SUFFICES ASSUME TypeOK, [Next]_vars PROVE Effect
  OBVIOUS
<1>1. CASE Tick \/ UNCHANGED vars
  BY <1>1, LimitAssumption DEF TypeOK, Tick, vars, Effect, Untouched
<1>2. QED
  BY <1>1, CreateEffect, AdvanceEffect, ActivateEffect DEF Next

-----------------------------------------------------------------------------
(***************************************************************************)
(* The theorems.                                                           *)
(***************************************************************************)

AssignmentInv == TypeOK /\ StartsOnce /\ AuditMissesOneAtMost

\* The empty table.
LEMMA InitAssignments == Init => AssignmentInv
BY LimitAssumption
DEF Init, AssignmentInv, TypeOK, StartsOnce, AuditMissesOneAtMost,
    AssignmentRow, AssignmentStatus

\* No step breaks AssignmentInv.
LEMMA AssignmentStep == AssignmentInv /\ [Next]_vars => AssignmentInv'
<1> SUFFICES ASSUME AssignmentInv, [Next]_vars PROVE AssignmentInv'
  OBVIOUS
<1>1. Effect /\ TypeOK
  BY StepEffect DEF AssignmentInv
<1>2. \A a \in Assignments :
        /\ assignments[a].version \in Nat
        /\ assignments[a].status \in AssignmentStatus \union {"absent"}
        /\ audit_events[a] \in Nat
  BY <1>1 DEF TypeOK, AssignmentRow
<1>3. TypeOK'
  BY <1>1
  DEF Effect, TypeOK, Untouched, Created, Advanced, ActivatedByWorker,
      SameWindow, CanMoveTo
<1>4. StartsOnce'
  BY <1>1, <1>2
  DEF AssignmentInv, StartsOnce, Effect, Untouched, Created, Advanced,
      ActivatedByWorker, CanMoveTo
<1>5. AuditMissesOneAtMost'
  BY <1>1, <1>2
  DEF AssignmentInv, StartsOnce, AuditMissesOneAtMost, Effect, Untouched,
      Created, Advanced, ActivatedByWorker, CanMoveTo
<1>6. QED
  BY <1>3, <1>4, <1>5 DEF AssignmentInv

\* AssignmentInv holds of every reachable state.
LEMMA AssignmentInvariant == Spec => []AssignmentInv
BY InitAssignments, AssignmentStep, PTL DEF Spec

\* Every row is one the table can hold.
THEOREM AssignmentTypes == Spec => []TypeOK
<1>1. AssignmentInv => TypeOK
  BY DEF AssignmentInv
<1>2. QED
  BY <1>1, AssignmentInvariant, PTL

\* An assignment starts at most once, whoever starts it.
THEOREM StartedOnce == Spec => []StartsOnce
<1>1. AssignmentInv => StartsOnce
  BY DEF AssignmentInv
<1>2. QED
  BY <1>1, AssignmentInvariant, PTL

\* The audit trail of an assignment misses one change at most.
THEOREM AuditMissesOne == Spec => []AuditMissesOneAtMost
<1>1. AssignmentInv => AuditMissesOneAtMost
  BY DEF AssignmentInv
<1>2. QED
  BY <1>1, AssignmentInvariant, PTL

\* Clients and worker follow the domain's table.
THEOREM TableFollowed == Spec => AssignmentFollowsTable
<1> DEFINE A == \A a \in Assignments :
       /\ Exists(a)
       /\ assignments'[a] # assignments[a]
       => CanMoveTo(assignments[a].status, assignments'[a].status)
<1>1. AssignmentInv /\ [Next]_vars => A
  <2> SUFFICES ASSUME AssignmentInv, [Next]_vars PROVE A
    OBVIOUS
  <2>1. Effect
    BY StepEffect DEF AssignmentInv
  <2>2. QED
    BY <2>1
    DEF Effect, Untouched, Created, Advanced, ActivatedByWorker, Exists,
        CanMoveTo
<1>2. AssignmentInv /\ [Next]_vars => [A]_vars
  BY <1>1
<1>3. QED
  BY <1>2, AssignmentInvariant, PTL DEF Spec, AssignmentFollowsTable

=============================================================================
