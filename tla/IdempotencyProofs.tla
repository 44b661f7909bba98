-------------------------- MODULE IdempotencyProofs --------------------------
(***************************************************************************)
(* Proofs about Idempotency, for any requests and bodies.                  *)
(***************************************************************************)
EXTENDS Idempotency, TLAPS

\* Once a request is answered there is a record, so a repeat never gets as far
\* as its creation; whoever stores has created.
ReplayInv ==
  /\ TypeOK
  /\ ReplaysAreStored
  /\ RecordHasEffect
  /\ \A r \in Requests :
       /\ pc[r] \in Answered => record # NoRecord
       /\ pc[r] = "effect" => r \in created
       /\ r \in repeats => pc[r] \notin {"new", "absent", "effect"}
       /\ r \in repeats => r \notin created
       /\ pc[r] = "new" => r \notin created

\* No step breaks ReplayInv.
LEMMA ReplayStep == ReplayInv /\ [Next]_vars => ReplayInv'
<1> SUFFICES ASSUME ReplayInv, [Next]_vars PROVE ReplayInv'
  OBVIOUS
<1> USE DEF ReplayInv, TypeOK, ReplaysAreStored, RecordHasEffect, Answered
<1>1. ASSUME NEW r \in Requests, Get(r)
      PROVE  ReplayInv'
  BY <1>1, NoRecordAssumption DEF Get, Matches, Records
<1>2. ASSUME NEW r \in Requests, Create(r)
      PROVE  ReplayInv'
  BY <1>2 DEF Create
<1>3. ASSUME NEW r \in Requests, Put(r)
      PROVE  ReplayInv'
  <2>1. /\ record = NoRecord => Stored(r) = [body |-> body[r], response |-> r]
        /\ record # NoRecord => Stored(r) = record
    BY DEF Stored
  <2>2. [body |-> body[r], response |-> r] \in Records
    BY DEF Records
  <2>3. Stored(r) \in Records
    BY <2>1, <2>2
  <2>4. Stored(r) # NoRecord
    BY <2>3, NoRecordAssumption DEF Records
  <2>5. /\ Stored(r).response \in created
        /\ Stored(r).body = body[Stored(r).response]
    BY <1>3, <2>1 DEF Put
  <2>6. QED
    BY <1>3, <2>1, <2>3, <2>4, <2>5 DEF Put
<1>4. ASSUME NEW r \in Requests, Fail(r)
      PROVE  ReplayInv'
  BY <1>4 DEF Fail
<1>5. CASE UNCHANGED vars
  BY <1>5 DEF vars
<1>6. QED
  BY <1>1, <1>2, <1>3, <1>4, <1>5 DEF Next

\* ReplayInv holds of every reachable state.
LEMMA ReplayInvariant == Spec => []ReplayInv
<1>1. Init => ReplayInv
  BY NoRecordAssumption
  DEF Init, ReplayInv, TypeOK, ReplaysAreStored, RecordHasEffect, Answered
<1>2. QED
  BY <1>1, ReplayStep, PTL DEF Spec

\* A request that begins after an answer for its key never creates anything.
THEOREM RepeatsAreSafe == Spec => []RepeatsCreateNothing
<1>1. ReplayInv => RepeatsCreateNothing
  BY DEF ReplayInv, TypeOK, RepeatsCreateNothing
<1>2. QED
  BY <1>1, ReplayInvariant, PTL

\* Every record is one the table can hold.
THEOREM IdempotencyTypes == Spec => []TypeOK
<1>1. ReplayInv => TypeOK
  BY DEF ReplayInv
<1>2. QED
  BY <1>1, ReplayInvariant, PTL

\* Replays answer with what is stored.
THEOREM ReplaysStored == Spec => []ReplaysAreStored
<1>1. ReplayInv => ReplaysAreStored
  BY DEF ReplayInv
<1>2. QED
  BY <1>1, ReplayInvariant, PTL

\* What is stored was created.
THEOREM RecordsHaveEffect == Spec => []RecordHasEffect
<1>1. ReplayInv => RecordHasEffect
  BY DEF ReplayInv
<1>2. QED
  BY <1>1, ReplayInvariant, PTL

=============================================================================
