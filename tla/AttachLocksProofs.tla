------------------------- MODULE AttachLocksProofs -------------------------
(***************************************************************************)
(* Proofs about AttachLocks, for any tasks, batches and requests.          *)
(***************************************************************************)
EXTENDS AttachLocks, FiniteSetTheorems, WellFoundedInduction, TLAPS

Live(b) == phase[b] \in {"queued", "cancel"}

Works(b, t) == Live(b) /\ <<b, t>> \in links

\* A task of a live batch that the batch's cancellation will not forget.
Keeps(b, t) ==
  /\ Works(b, t)
  /\ phase[b] = "cancel" => t \in Unrestored(b) \/ held[t] = b

\* How far a request has come with its list and its links.
ListOf(b) ==
  /\ phase[b] \in {"new", "insert"} => next[b] = 1
  /\ phase[b] \notin {"new", "failed"} => ids[b] # <<>>
  /\ \A i, j \in 1 .. Len(ids[b]) : ids[b][i] = ids[b][j] => i = j
  /\ phase[b] \in {"new", "insert", "failed"} => \A t \in Tasks : <<b, t>> \notin links
  /\ phase[b] = "attach" => next[b] \in 1 .. Len(ids[b]) + 1
  /\ phase[b] = "attach" \/ Visible(b) =>
       \A t \in Tasks : <<b, t>> \in links => t \in Listed(b)
  /\ Visible(b) => \A t \in Listed(b) : <<b, t>> \in links

\* The tasks the loop of attachDroneTasks has passed are taken.
TakenOf(b) ==
  phase[b] = "attach" =>
    \A i \in 1 .. Len(ids[b]) :
      i < next[b] => held[ids[b][i]] = b /\ <<b, ids[b][i]>> \in links

\* The rows a cancellation has yet to look at: each once, and the batch's own.
RestoringOf(b) ==
  /\ \A i, j \in 1 .. Len(restoring[b]) : restoring[b][i] = restoring[b][j] => i = j
  /\ phase[b] = "cancel" => \A t \in Unrestored(b) : <<b, t>> \in links

\* What a lock on a row says of its holder and of the row.
LockOf(b, t) ==
  held[t] = b =>
    \/ /\ phase[b] = "attach"
       /\ status[t] = "accepted"
       /\ \E i \in 1 .. Len(ids[b]) : i < next[b] /\ t = ids[b][i]
    \/ /\ phase[b] = "cancel"
       /\ status[t] = "in_progress"
       /\ <<b, t>> \in links
       /\ t \notin Unrestored(b)

WorkedOn(t) == status[t] = "in_progress" => \E b \in Batches : Keeps(b, t)

CodesUnique ==
  \A b, c \in Batches :
    /\ phase[b] = "attach" \/ Visible(b)
    /\ phase[c] = "attach" \/ Visible(c)
    /\ code[b] = code[c]
    => b = c

\* Inductive.
LockInv ==
  /\ AttachTypeOK
  /\ CodesUnique
  /\ \A b \in Batches : ListOf(b) /\ TakenOf(b) /\ RestoringOf(b)
  /\ \A b \in Batches, t \in Tasks : LockOf(b, t)
  /\ \A t \in Tasks : WorkedOn(t)

\* Work stays with the batch that keeps it.
LEMMA WorkStays ==
  ASSUME NEW t \in Tasks, WorkedOn(t),
         status'[t] = "in_progress" => status[t] = "in_progress",
         \A b \in Batches : Keeps(b, t) => Keeps(b, t)'
  PROVE  WorkedOn(t)'
BY DEF WorkedOn

\* Nothing has been asked for.
LEMMA InitLocks == AttachInit => LockInv
<1> SUFFICES ASSUME AttachInit PROVE LockInv
  OBVIOUS
<1>1. AttachTypeOK
  BY DEF AttachInit, AttachTypeOK, TaskStatus, Phase
<1>2. CodesUnique
  BY DEF AttachInit, CodesUnique, Visible
<1>3. ASSUME NEW b \in Batches
      PROVE  ListOf(b) /\ TakenOf(b) /\ RestoringOf(b)
  BY DEF AttachInit, ListOf, TakenOf, RestoringOf, Visible, Live
<1>4. ASSUME NEW b \in Batches, NEW t \in Tasks
      PROVE  LockOf(b, t)
  BY AttachAssumption DEF AttachInit, LockOf
<1>5. ASSUME NEW t \in Tasks
      PROVE  WorkedOn(t)
  BY DEF AttachInit, WorkedOn
<1>6. QED
  BY <1>1, <1>2, <1>3, <1>4, <1>5 DEF LockInv

\* The place of a task in a list.
LEMMA ListedAt ==
  ASSUME NEW b \in Batches
  PROVE  /\ \A i \in 1 .. Len(ids[b]) : ids[b][i] \in Listed(b)
         /\ \A t \in Listed(b) : \E i \in 1 .. Len(ids[b]) : t = ids[b][i]
BY DEF Listed

\* What is left of an order when its first row has been looked at.
LEMMA RestOfOrder ==
  ASSUME NEW order \in Seq(Tasks), order # <<>>,
         \A i, j \in 1 .. Len(order) : order[i] = order[j] => i = j
  PROVE  /\ Head(order) \in Tasks
         /\ Tail(order) \in Seq(Tasks)
         /\ \A i, j \in 1 .. Len(Tail(order)) : Tail(order)[i] = Tail(order)[j] => i = j
         /\ {Tail(order)[i] : i \in 1 .. Len(Tail(order))} =
              {order[i] : i \in 1 .. Len(order)} \ {Head(order)}
<1>1. /\ Len(order) \in Nat \ {0}
      /\ Head(order) = order[1]
      /\ Tail(order) \in Seq(Tasks)
      /\ Len(Tail(order)) = Len(order) - 1
      /\ \A i \in 1 .. Len(order) - 1 : Tail(order)[i] = order[i + 1]
  OBVIOUS
<1>2. \A i, j \in 1 .. Len(Tail(order)) : Tail(order)[i] = Tail(order)[j] => i = j
  BY <1>1
<1>3. ASSUME NEW t
      PROVE  (\E i \in 1 .. Len(Tail(order)) : t = Tail(order)[i]) <=>
               (\E i \in 1 .. Len(order) : t = order[i]) /\ t # order[1]
  <2>1. ASSUME NEW i \in 1 .. Len(Tail(order)), t = Tail(order)[i]
        PROVE  (\E k \in 1 .. Len(order) : t = order[k]) /\ t # order[1]
    <3>1. i + 1 \in 1 .. Len(order) /\ t = order[i + 1] /\ 1 \in 1 .. Len(order)
      BY <1>1, <2>1
    <3>2. i + 1 # 1
      BY <1>1
    <3>3. QED
      BY <3>1, <3>2
  <2>2. ASSUME NEW i \in 1 .. Len(order), t = order[i], t # order[1]
        PROVE  \E k \in 1 .. Len(Tail(order)) : t = Tail(order)[k]
    <3>1. i - 1 \in 1 .. Len(order) - 1 /\ (i - 1) + 1 = i
      BY <1>1, <2>2
    <3>2. QED
      BY <1>1, <2>2, <3>1
  <2>3. QED
    BY <2>1, <2>2
<1> DEFINE All == {order[i] : i \in 1 .. Len(order)}
           Rest == {Tail(order)[i] : i \in 1 .. Len(Tail(order))}
<1>4. ASSUME NEW t
      PROVE  t \in Rest <=> t \in All \ {order[1]}
  <2>1. t \in Rest <=> \E i \in 1 .. Len(Tail(order)) : t = Tail(order)[i]
    OBVIOUS
  <2>2. t \in All <=> \E i \in 1 .. Len(order) : t = order[i]
    OBVIOUS
  <2>3. QED
    BY <1>3, <2>1, <2>2
<1>5. Rest = All \ {order[1]}
  <2> HIDE DEF All, Rest
  <2> QED
    BY <1>4
<1>6. Head(order) \in Tasks
  BY <1>1
<1>7. QED
  BY <1>1, <1>2, <1>5, <1>6

\* An order of some tasks names each of them once.
LEMMA FoundInOrder ==
  ASSUME NEW S \in SUBSET Tasks, NEW order \in Orders(S)
  PROVE  /\ order \in Seq(Tasks)
         /\ \A i, j \in 1 .. Len(order) : order[i] = order[j] => i = j
         /\ {order[i] : i \in 1 .. Len(order)} = S
<1>1. IsFiniteSet(S)
  BY AttachAssumption, FS_Subset
<1>2. Cardinality(S) \in Nat
  BY <1>1, FS_CardinalityType
<1>3. /\ order \in [1 .. Cardinality(S) -> S]
      /\ \A i, j \in 1 .. Cardinality(S) : order[i] = order[j] => i = j
  BY DEF Orders
<1>4. order \in Seq(S) /\ Len(order) = Cardinality(S)
  BY <1>2, <1>3
<1>5. order \in Seq(Tasks)
  BY <1>4
<1>6. {order[i] : i \in 1 .. Len(order)} = S
  <2> DEFINE I == 1 .. Cardinality(S)
  <2>1. IsFiniteSet(I) /\ Cardinality(I) = Cardinality(S)
    BY <1>2, FS_Interval
  <2>2. order \in Injection(I, S)
    BY <1>3 DEF Injection, IsInjective
  <2>3. order \in Surjection(I, S)
    BY <1>1, <2>1, <2>2, FS_Injection
  <2>4. QED
    BY <1>4, <2>3 DEF Surjection
<1>7. QED
  BY <1>3, <1>4, <1>5, <1>6

\* A request begins its transaction, or its batch is inserted.
LEMMA BeginStep ==
  ASSUME LockInv, NEW b \in Batches,
         \/ \E r \in Requests : CreateDroneMissionBatch(b, r)
         \/ InsertBatch(b)
         \/ BeginCancel(b)
  PROVE  LockInv'
<1> USE DEF LockInv
<1>1. CASE \E r \in Requests : CreateDroneMissionBatch(b, r)
  <2>1. PICK r \in Requests : CreateDroneMissionBatch(b, r)
    BY <1>1
  <2>2. \E c \in Codes, list \in Seq(Tasks) :
          /\ phase[b] = "new"
          /\ list # <<>>
          /\ \A i, j \in 1 .. Len(list) : list[i] = list[j] => i = j
          /\ phase' = [phase EXCEPT ![b] = "insert"]
          /\ code' = [code EXCEPT ![b] = c]
          /\ ids' = [ids EXCEPT ![b] = list]
          /\ began' = [began EXCEPT ![b] = now]
          /\ UNCHANGED <<now, status, held, next, links, restoring, observed>>
    <3>1. r.code \in Codes /\ r.tasks \in Seq(Tasks)
      BY AttachAssumption
    <3>2. Len(r.tasks) \in 1 .. r.capacity => r.tasks # <<>>
      OBVIOUS
    <3>3. QED
      BY <2>1, <3>1, <3>2 DEF CreateDroneMissionBatch, ValidRequest
  <2>3. AttachTypeOK'
    BY <2>2 DEF AttachTypeOK, Phase, Open
  <2>4. CodesUnique'
    BY <2>2 DEF AttachTypeOK, CodesUnique, Visible
  <2>5. ASSUME NEW x \in Batches \ {b}
        PROVE  (ListOf(x) /\ TakenOf(x) /\ RestoringOf(x))'
    <3>1. /\ phase'[x] = phase[x] /\ ids'[x] = ids[x]
          /\ UNCHANGED <<held, next, links, restoring>>
      BY <2>2 DEF AttachTypeOK
    <3>2. /\ Visible(x)' = Visible(x)
          /\ Listed(x)' = Listed(x)
          /\ Unrestored(x)' = Unrestored(x)
      BY <3>1 DEF Visible, Listed, Unrestored
    <3>3. ListOf(x)'
      BY <3>1, <3>2 DEF ListOf
    <3>4. TakenOf(x)' /\ RestoringOf(x)'
      BY <3>1, <3>2 DEF TakenOf, RestoringOf
    <3>5. QED
      BY <3>3, <3>4
  <2>6. (ListOf(b) /\ TakenOf(b) /\ RestoringOf(b))'
    BY <2>2 DEF AttachTypeOK, ListOf, TakenOf, RestoringOf, Visible
  <2>7. ASSUME NEW x \in Batches, NEW t \in Tasks
        PROVE  LockOf(x, t)'
    <3>1. Unrestored(x)' = Unrestored(x)
      BY <2>2 DEF Unrestored
    <3>2. LockOf(x, t) /\ phase[b] \notin {"attach", "cancel"}
      BY <2>2
    <3>3. QED
      BY <2>2, <3>1, <3>2 DEF AttachTypeOK, LockOf
  <2>8. ASSUME NEW t \in Tasks
        PROVE  WorkedOn(t)'
    <3>1. ASSUME NEW x \in Batches, Keeps(x, t)
          PROVE  Keeps(x, t)'
      <4>1. x # b
        BY <2>2, <3>1 DEF Keeps, Works, Live
      <4>2. Unrestored(x)' = Unrestored(x)
        BY <2>2 DEF Unrestored
      <4>3. QED
        BY <2>2, <3>1, <4>1, <4>2 DEF AttachTypeOK, Keeps, Works, Live
    <3>2. QED
      BY <2>2, <3>1, WorkStays
  <2>9. QED
    BY <2>3, <2>4, <2>5, <2>6, <2>7, <2>8
<1>2. CASE InsertBatch(b)
  <2>1. \E new \in {"attach", "failed"} :
          /\ phase[b] = "insert"
          /\ phase' = [phase EXCEPT ![b] = new]
          /\ new = "attach" => \A c \in Batches :
               code[c] = code[b] => phase[c] # "attach" /\ ~ Visible(c)
          /\ UNCHANGED <<now, status, held, code, ids, began, observed, next, links,
                         restoring>>
    BY <1>2 DEF InsertBatch, request_vars
  <2>2. AttachTypeOK'
    BY <2>1 DEF AttachTypeOK, Phase, Open
  <2>3. CodesUnique'
    BY <2>1 DEF AttachTypeOK, CodesUnique, Visible
  <2>4. ASSUME NEW x \in Batches
        PROVE  (ListOf(x) /\ TakenOf(x) /\ RestoringOf(x))'
    BY <2>1
    DEF AttachTypeOK, ListOf, TakenOf, RestoringOf, Visible, Listed, Unrestored
  <2>5. ASSUME NEW x \in Batches, NEW t \in Tasks
        PROVE  LockOf(x, t)'
    <3>1. Unrestored(x)' = Unrestored(x)
      BY <2>1 DEF Unrestored
    <3>2. LockOf(x, t) /\ phase[b] \notin {"attach", "cancel"}
      BY <2>1
    <3>3. QED
      BY <2>1, <3>1, <3>2 DEF AttachTypeOK, LockOf
  <2>6. ASSUME NEW t \in Tasks
        PROVE  WorkedOn(t)'
    <3>1. ASSUME NEW x \in Batches, Keeps(x, t)
          PROVE  Keeps(x, t)'
      <4>1. x # b
        BY <2>1, <3>1 DEF Keeps, Works, Live
      <4>2. Unrestored(x)' = Unrestored(x)
        BY <2>1 DEF Unrestored
      <4>3. QED
        BY <2>1, <3>1, <4>1, <4>2 DEF AttachTypeOK, Keeps, Works, Live
    <3>2. QED
      BY <2>1, <3>1, WorkStays
  <2>7. QED
    BY <2>2, <2>3, <2>4, <2>5, <2>6
<1>3. CASE BeginCancel(b)
  <2> DEFINE Found == {t \in TasksOf(b) : status[t] = "in_progress"}
  <2>1. PICK order \in Orders(Found) :
          /\ phase[b] = "queued"
          /\ phase' = [phase EXCEPT ![b] = "cancel"]
          /\ restoring' = [restoring EXCEPT ![b] = order]
          /\ UNCHANGED <<now, status, held, code, ids, began, observed, next, links>>
    BY <1>3 DEF BeginCancel, request_vars
  <2>2. /\ order \in Seq(Tasks)
        /\ \A i, j \in 1 .. Len(order) : order[i] = order[j] => i = j
        /\ {order[i] : i \in 1 .. Len(order)} = Found
    BY FoundInOrder DEF TasksOf
  <2>3. /\ restoring'[b] = order
        /\ phase'[b] = "cancel"
        /\ Unrestored(b)' = Found
        /\ \A x \in Batches \ {b} :
             /\ phase'[x] = phase[x]
             /\ restoring'[x] = restoring[x]
             /\ Unrestored(x)' = Unrestored(x)
    BY <2>1, <2>2 DEF AttachTypeOK, Unrestored
  <2>4. AttachTypeOK'
    BY <2>1, <2>2 DEF AttachTypeOK, Phase, Open
  <2>5. CodesUnique'
    BY <2>1, <2>3 DEF CodesUnique, Visible
  <2>6. ASSUME NEW x \in Batches
        PROVE  (ListOf(x) /\ TakenOf(x) /\ RestoringOf(x))'
    <3>1. Listed(x)' = Listed(x) /\ Visible(x)' = Visible(x)
      BY <2>1, <2>3 DEF Listed, Visible
    <3>2. ListOf(x)'
      BY <2>1, <2>3, <3>1 DEF ListOf
    <3>3. TakenOf(x)'
      BY <2>1, <2>3 DEF TakenOf
    <3>4. RestoringOf(x)'
      BY <2>1, <2>2, <2>3 DEF RestoringOf, TasksOf
    <3>5. QED
      BY <3>2, <3>3, <3>4
  <2>7. ASSUME NEW x \in Batches, NEW t \in Tasks
        PROVE  LockOf(x, t)'
    BY <2>1, <2>3 DEF LockOf
  <2>8. ASSUME NEW t \in Tasks
        PROVE  WorkedOn(t)'
    <3>1. CASE status[t] = "in_progress"
      <4>1. ASSUME NEW x \in Batches, Keeps(x, t)
            PROVE  Keeps(x, t)'
        <5>1. CASE x = b
          <6>1. t \in Found
            BY <3>1, <4>1, <5>1 DEF Keeps, Works, TasksOf
          <6>2. QED
            BY <2>1, <2>3, <4>1, <5>1, <6>1 DEF Keeps, Works, Live
        <5>2. CASE x # b
          BY <2>1, <2>3, <4>1, <5>2 DEF Keeps, Works, Live
        <5>3. QED
          BY <5>1, <5>2
      <4>2. QED
        BY <2>1, <4>1, WorkStays
    <3>2. CASE status[t] # "in_progress"
      BY <2>1, <3>2 DEF WorkedOn
    <3>3. QED
      BY <3>1, <3>2
  <2>9. QED
    BY <2>4, <2>5, <2>6, <2>7, <2>8
<1>4. QED
  BY <1>1, <1>2, <1>3

\* The loop of attachDroneTasks: a link.
LEMMA LinkStep ==
  ASSUME LockInv, NEW b \in Batches, NEW t \in Tasks, InsertLink(b, t)
  PROVE  LockInv'
<1> USE DEF LockInv
<1>1. /\ phase[b] = "attach"
      /\ t \in Listed(b)
      /\ links' = links \union {<<b, t>>}
      /\ UNCHANGED <<now, status, held, phase, code, ids, began, next, restoring, observed>>
  BY DEF InsertLink, AtTask, AttachTypeOK, ListOf, Listed, request_vars
<1>2. \A x \in Batches, u \in Tasks :
        <<x, u>> \in links' <=> <<x, u>> \in links \/ (x = b /\ u = t)
  BY <1>1
<1>3. AttachTypeOK'
  BY <1>1 DEF AttachTypeOK
<1>4. CodesUnique'
  BY <1>1 DEF CodesUnique, Visible
<1>5. ASSUME NEW x \in Batches
      PROVE  (ListOf(x) /\ TakenOf(x) /\ RestoringOf(x))'
  <2>1. Listed(x)' = Listed(x) /\ Visible(x)' = Visible(x)
    BY <1>1 DEF Listed, Visible
  <2>2. Visible(x) => x # b
    BY <1>1 DEF Visible
  <2>3. ListOf(x)'
    <3>1. Listed(x) \subseteq Tasks
      BY DEF Listed, AttachTypeOK
    <3>2. QED
      BY <1>1, <1>2, <2>1, <2>2, <3>1 DEF ListOf
  <2>4. TakenOf(x)'
    <3>1. \A i \in 1 .. Len(ids[x]) : ids[x][i] \in Tasks
      BY DEF AttachTypeOK
    <3>2. QED
      BY <1>1, <1>2, <3>1 DEF TakenOf
  <2>5. RestoringOf(x)'
    BY <1>1 DEF RestoringOf, Unrestored
  <2>6. QED
    BY <2>3, <2>4, <2>5
<1>6. ASSUME NEW x \in Batches, NEW u \in Tasks
      PROVE  LockOf(x, u)'
  BY <1>1, <1>2 DEF LockOf, Unrestored
<1>7. ASSUME NEW u \in Tasks
      PROVE  WorkedOn(u)'
  <2>1. ASSUME NEW x \in Batches, Keeps(x, u)
        PROVE  Keeps(x, u)'
    <3>1. Unrestored(x)' = Unrestored(x)
      BY <1>1 DEF Unrestored
    <3>2. QED
      BY <1>1, <1>2, <2>1, <3>1 DEF Keeps, Works, Live
  <2>2. QED
    BY <1>1, <2>1, WorkStays
<1>8. QED
  BY <1>3, <1>4, <1>5, <1>6, <1>7

\* The loop of attachDroneTasks: a task is taken.
LEMMA TakeStep ==
  ASSUME LockInv, NEW b \in Batches, NEW t \in Tasks, TakeTask(b, t)
  PROVE  LockInv'
<1> USE DEF LockInv
<1>1. /\ phase[b] = "attach"
      /\ next[b] <= Len(ids[b])
      /\ t = ids[b][next[b]]
      /\ <<b, t>> \in links
      /\ status[t] = "accepted"
      /\ held[t] = Nobody
      /\ held' = [held EXCEPT ![t] = b]
      /\ next' = [next EXCEPT ![b] = @ + 1]
      /\ UNCHANGED <<now, status, phase, code, ids, began, links, restoring, observed>>
  BY DEF TakeTask, AtTask, Eligible, request_vars
<1>2. AttachTypeOK /\ next[b] \in 1 .. Len(ids[b])
  BY <1>1 DEF ListOf, AttachTypeOK
<1>3. AttachTypeOK'
  <2>1. next' \in [Batches -> Nat]
    BY <1>1, <1>2 DEF AttachTypeOK
  <2>2. held' \in [Tasks -> Batches \union {Worker, Nobody}]
    BY <1>1, <1>2 DEF AttachTypeOK
  <2>3. QED
    BY <1>1, <1>2, <2>1, <2>2 DEF AttachTypeOK
<1>4. CodesUnique'
  BY <1>1 DEF CodesUnique, Visible
<1>5. ASSUME NEW x \in Batches
      PROVE  (ListOf(x) /\ TakenOf(x) /\ RestoringOf(x))'
  <2>1. Listed(x)' = Listed(x) /\ Visible(x)' = Visible(x)
    BY <1>1 DEF Listed, Visible
  <2>2. ListOf(x)'
    BY <1>1, <1>2, <2>1 DEF ListOf, AttachTypeOK
  <2>3. TakenOf(x)'
    <3>1. ListOf(x) /\ TakenOf(x)
      OBVIOUS
    <3>2. Nobody # x
      BY AttachAssumption
    <3>3. /\ \A i \in 1 .. Len(ids[x]) : ids[x][i] \in Tasks
          /\ \A u \in Tasks \ {t} : held'[u] = held[u]
          /\ held'[t] = b
      BY <1>1, <1>2 DEF AttachTypeOK
    <3>4. CASE x = b
      <4>1. next'[b] = next[b] + 1 /\ next[b] \in Nat
        BY <1>1, <1>2 DEF AttachTypeOK
      <4>2. \A i \in 1 .. Len(ids[b]) :
              i < next[b] + 1 => i < next[b] \/ i = next[b]
        BY <4>1
      <4>3. ASSUME NEW i \in 1 .. Len(ids[b]), i < next[b] + 1
            PROVE  held'[ids[b][i]] = b /\ <<b, ids[b][i]>> \in links
        <5>1. CASE i = next[b]
          BY <1>1, <3>3, <5>1
        <5>2. CASE i < next[b]
          <6>1. held[ids[b][i]] = b /\ <<b, ids[b][i]>> \in links
            BY <1>1, <3>1, <3>4, <5>2 DEF TakenOf
          <6>2. ids[b][i] \in Tasks
            BY <3>3, <3>4
          <6>3. QED
            BY <3>3, <6>1, <6>2
        <5>3. QED
          BY <4>2, <4>3, <5>1, <5>2
      <4>4. QED
        BY <1>1, <3>4, <4>1, <4>3 DEF TakenOf
    <3>5. CASE x # b
      <4>1. next'[x] = next[x]
        BY <1>1, <1>2, <3>5 DEF AttachTypeOK
      <4>2. QED
        BY <1>1, <3>1, <3>2, <3>3, <4>1 DEF TakenOf
    <3>6. QED
      BY <3>4, <3>5
  <2>4. RestoringOf(x)'
    BY <1>1 DEF RestoringOf, Unrestored
  <2>5. QED
    BY <2>2, <2>3, <2>4
<1>6. ASSUME NEW x \in Batches, NEW u \in Tasks
      PROVE  LockOf(x, u)'
  <2>1. LockOf(x, u)
    OBVIOUS
  <2>2. next[x] \in Nat /\ next'[x] = IF x = b THEN next[x] + 1 ELSE next[x]
    BY <1>1, <1>2 DEF AttachTypeOK
  <2>3. held'[u] = IF u = t THEN b ELSE held[u]
    BY <1>1, <1>2 DEF AttachTypeOK
  <2>4. CASE u = t
    BY <1>1, <1>2, <2>2, <2>3, <2>4 DEF LockOf
  <2>5. CASE u # t
    <3>1. \A i \in 1 .. Len(ids[x]) : i < next[x] => i < next'[x]
      BY <2>2
    <3>2. QED
      BY <1>1, <2>1, <2>3, <2>5, <3>1 DEF LockOf, Unrestored
  <2>6. QED
    BY <2>4, <2>5
<1>7. ASSUME NEW u \in Tasks
      PROVE  WorkedOn(u)'
  <2>1. \A x \in Batches : phase[x] = "cancel" /\ held[u] = x => held'[u] = x
    BY <1>1, <1>2, AttachAssumption DEF AttachTypeOK
  <2>2. ASSUME NEW x \in Batches, Keeps(x, u)
        PROVE  Keeps(x, u)'
    <3>1. Unrestored(x)' = Unrestored(x)
      BY <1>1 DEF Unrestored
    <3>2. QED
      BY <1>1, <2>1, <2>2, <3>1 DEF Keeps, Works, Live
  <2>3. QED
    BY <1>1, <2>2, WorkStays
<1>8. QED
  BY <1>3, <1>4, <1>5, <1>6, <1>7

\* A creation that fails leaves nothing.
LEMMA UndoAttachStep ==
  ASSUME LockInv, NEW b \in Batches, phase[b] \in {"attach", "insert"}, Rollback(b)
  PROVE  LockInv'
<1> USE DEF LockInv
<1>1. AttachTypeOK
  OBVIOUS
<1>2. /\ held' = [t \in Tasks |-> IF held[t] = b THEN Nobody ELSE held[t]]
      /\ phase' = [phase EXCEPT ![b] = "failed"]
      /\ code' = [code EXCEPT ![b] = Nobody]
      /\ ids' = [ids EXCEPT ![b] = <<>>]
      /\ next' = [next EXCEPT ![b] = 1]
      /\ began' = [began EXCEPT ![b] = 0]
      /\ links' = links \ ({b} \X Tasks)
      /\ UNCHANGED <<now, status, observed, restoring>>
  BY DEF Rollback, Release, UndoAttach
<1>3. \A x \in Batches, u \in Tasks :
        <<x, u>> \in links' <=> <<x, u>> \in links /\ x # b
  BY <1>2
<1>4. AttachTypeOK'
  BY <1>1, <1>2 DEF AttachTypeOK, Phase
<1>5. /\ phase'[b] = "failed"
      /\ ids'[b] = <<>>
      /\ \A u \in Tasks : held'[u] = IF held[u] = b THEN Nobody ELSE held[u]
      /\ \A x \in Batches \ {b} :
           /\ phase'[x] = phase[x]
           /\ code'[x] = code[x]
           /\ ids'[x] = ids[x]
           /\ next'[x] = next[x]
  BY <1>1, <1>2 DEF AttachTypeOK
<1>6. \A x \in Batches \ {b} :
        /\ Visible(x)' = Visible(x)
        /\ Listed(x)' = Listed(x)
  BY <1>5 DEF Visible, Listed
<1>7. CodesUnique'
  BY <1>5, <1>6 DEF CodesUnique, Visible
<1>8. \A x \in Batches :
        /\ \A i \in 1 .. Len(ids[x]) : ids[x][i] \in Tasks
        /\ Listed(x) \subseteq Tasks
        /\ Unrestored(x)' = Unrestored(x)
        /\ Unrestored(x) \subseteq Tasks
  BY <1>1, <1>2 DEF AttachTypeOK, Listed, Unrestored
<1>9. ASSUME NEW x \in Batches \ {b}
      PROVE  (ListOf(x) /\ TakenOf(x) /\ RestoringOf(x))'
  <2>1. ListOf(x) /\ TakenOf(x) /\ RestoringOf(x)
    OBVIOUS
  <2>2. \A u \in Tasks : <<x, u>> \in links' <=> <<x, u>> \in links
    BY <1>3
  <2>3. \A u \in Tasks : held[u] = x => held'[u] = x
    BY <1>5
  <2>4. ListOf(x)'
    BY <1>5, <1>6, <1>8, <2>1, <2>2 DEF ListOf
  <2>5. TakenOf(x)'
    BY <1>5, <1>8, <2>1, <2>2, <2>3 DEF TakenOf
  <2>6. RestoringOf(x)'
    BY <1>2, <1>5, <1>8, <2>1, <2>2 DEF RestoringOf
  <2>7. QED
    BY <2>4, <2>5, <2>6
<1>10. (ListOf(b) /\ TakenOf(b) /\ RestoringOf(b))'
  <2>1. ListOf(b)'
    BY <1>3, <1>5 DEF ListOf, Visible
  <2>2. TakenOf(b)'
    BY <1>5 DEF TakenOf
  <2>3. RestoringOf(b)'
    BY <1>2, <1>5 DEF RestoringOf
  <2>4. QED
    BY <2>1, <2>2, <2>3
<1>11. ASSUME NEW x \in Batches, NEW u \in Tasks
       PROVE  LockOf(x, u)'
  <2>1. LockOf(x, u) /\ Nobody # x
    BY AttachAssumption
  <2>2. CASE x = b
    BY <1>5, <2>1, <2>2 DEF LockOf
  <2>3. CASE x # b
    BY <1>2, <1>3, <1>5, <1>8, <2>1, <2>3 DEF LockOf
  <2>4. QED
    BY <2>2, <2>3
<1>12. ASSUME NEW u \in Tasks
       PROVE  WorkedOn(u)'
  <2>1. ASSUME NEW x \in Batches, Keeps(x, u)
        PROVE  Keeps(x, u)'
    <3>1. x # b
      BY <2>1 DEF Keeps, Works, Live
    <3>2. QED
      BY <1>3, <1>5, <1>8, <2>1, <3>1 DEF Keeps, Works, Live
  <2>2. QED
    BY <1>2, <2>1, WorkStays
<1>13. QED
  BY <1>4, <1>7, <1>9, <1>10, <1>11, <1>12

\* A cancellation that fails leaves the batch and its tasks as they were.
LEMMA UndoCancelStep ==
  ASSUME LockInv, NEW b \in Batches, phase[b] = "cancel", Rollback(b)
  PROVE  LockInv'
<1> USE DEF LockInv
<1>1. AttachTypeOK
  OBVIOUS
<1>2. /\ held' = [t \in Tasks |-> IF held[t] = b THEN Nobody ELSE held[t]]
      /\ phase' = [phase EXCEPT ![b] = "queued"]
      /\ restoring' = [restoring EXCEPT ![b] = <<>>]
      /\ UNCHANGED <<now, status, code, ids, next, began, links, observed>>
  BY DEF Rollback, Release, UndoCancel
<1>3. AttachTypeOK'
  BY <1>1, <1>2 DEF AttachTypeOK, Phase
<1>4. /\ phase'[b] = "queued"
      /\ restoring'[b] = <<>>
      /\ \A u \in Tasks : held'[u] = IF held[u] = b THEN Nobody ELSE held[u]
      /\ \A x \in Batches \ {b} :
           /\ phase'[x] = phase[x]
           /\ restoring'[x] = restoring[x]
  BY <1>1, <1>2 DEF AttachTypeOK
<1>5. \A x \in Batches :
        /\ Visible(x)' <=> Visible(x)
        /\ Listed(x)' = Listed(x)
        /\ \A i \in 1 .. Len(ids[x]) : ids[x][i] \in Tasks
  BY <1>1, <1>2, <1>4 DEF AttachTypeOK, Visible, Listed
<1>6. \A x \in Batches \ {b} : Unrestored(x)' = Unrestored(x)
  BY <1>4 DEF Unrestored
<1>7. CodesUnique'
  BY <1>2, <1>4, <1>5 DEF CodesUnique
<1>8. ASSUME NEW x \in Batches
      PROVE  (ListOf(x) /\ TakenOf(x) /\ RestoringOf(x))'
  <2>1. ListOf(x) /\ TakenOf(x) /\ RestoringOf(x)
    OBVIOUS
  <2>2. ListOf(x)'
    BY <1>2, <1>4, <1>5, <2>1 DEF ListOf
  <2>3. TakenOf(x)'
    BY <1>2, <1>4, <1>5, <2>1 DEF TakenOf
  <2>4. RestoringOf(x)'
    <3>1. CASE x = b
      BY <1>4, <3>1 DEF RestoringOf
    <3>2. CASE x # b
      BY <1>2, <1>4, <1>6, <2>1, <3>2 DEF RestoringOf
    <3>3. QED
      BY <3>1, <3>2
  <2>5. QED
    BY <2>2, <2>3, <2>4
<1>9. ASSUME NEW x \in Batches, NEW u \in Tasks
      PROVE  LockOf(x, u)'
  <2>1. LockOf(x, u) /\ Nobody # x
    BY AttachAssumption
  <2>2. CASE x = b
    BY <1>4, <2>1, <2>2 DEF LockOf
  <2>3. CASE x # b
    BY <1>2, <1>4, <1>6, <2>1, <2>3 DEF LockOf
  <2>4. QED
    BY <2>2, <2>3
<1>10. ASSUME NEW u \in Tasks
       PROVE  WorkedOn(u)'
  <2>1. ASSUME NEW x \in Batches, Keeps(x, u)
        PROVE  Keeps(x, u)'
    <3>1. CASE x = b
      BY <1>2, <1>4, <2>1, <3>1 DEF Keeps, Works, Live
    <3>2. CASE x # b
      BY <1>2, <1>4, <1>6, <2>1, <3>2 DEF Keeps, Works, Live
    <3>3. QED
      BY <3>1, <3>2
  <2>2. QED
    BY <1>2, <2>1, WorkStays
<1>11. QED
  BY <1>3, <1>7, <1>8, <1>9, <1>10

\* What the lock of a transaction that made a batch covers at its end.
LEMMA WholeList ==
  ASSUME LockInv, NEW b \in Batches, phase[b] = "attach",
         next[b] > Len(ids[b])
  PROVE  /\ \A t \in Tasks : held[t] = b <=> t \in Listed(b)
         /\ \A t \in Tasks : <<b, t>> \in links <=> t \in Listed(b)
         /\ \A t \in Listed(b) : status[t] = "accepted"
         /\ Listed(b) \subseteq Tasks
         /\ Listed(b) # {}
<1> USE DEF LockInv
<1>1. /\ ids[b] \in Seq(Tasks)
      /\ ids[b] # <<>>
      /\ next[b] \in Nat
  BY DEF AttachTypeOK, ListOf
<1>2. Listed(b) \subseteq Tasks /\ Listed(b) # {}
  <2>1. 1 \in 1 .. Len(ids[b]) /\ \A i \in 1 .. Len(ids[b]) : ids[b][i] \in Tasks
    BY <1>1
  <2>2. ids[b][1] \in Listed(b)
    BY <2>1 DEF Listed
  <2>3. Listed(b) \subseteq Tasks
    BY <2>1 DEF Listed
  <2>4. QED
    BY <2>2, <2>3
<1>3. \A i \in 1 .. Len(ids[b]) : held[ids[b][i]] = b /\ <<b, ids[b][i]>> \in links
  BY <1>1 DEF TakenOf
<1>4. \A t \in Listed(b) : held[t] = b /\ <<b, t>> \in links
  BY <1>3, ListedAt
<1>5. ASSUME NEW t \in Tasks, held[t] = b
      PROVE  t \in Listed(b) /\ status[t] = "accepted"
  <2>1. status[t] = "accepted" /\ \E i \in 1 .. Len(ids[b]) : t = ids[b][i]
    BY <1>5 DEF LockOf
  <2>2. QED
    BY <2>1 DEF Listed
<1>6. \A t \in Tasks : <<b, t>> \in links => t \in Listed(b)
  BY DEF ListOf
<1>7. QED
  BY <1>2, <1>4, <1>5, <1>6

\* A batch is made.
LEMMA CommitAttachStep ==
  ASSUME LockInv, NEW b \in Batches, CommitAttach(b)
  PROVE  LockInv'
<1> USE DEF LockInv
<1>1. /\ phase[b] = "attach"
      /\ next[b] > Len(ids[b])
      /\ phase' = [phase EXCEPT ![b] = "queued"]
      /\ status' = [t \in Tasks |->
           IF held[t] = b THEN "in_progress" ELSE status[t]]
      /\ held' = [t \in Tasks |-> IF held[t] = b THEN Nobody ELSE held[t]]
      /\ UNCHANGED <<now, code, ids, began, next, links, restoring, observed>>
  BY DEF CommitAttach, Release, request_vars
<1>2. /\ \A t \in Tasks : held[t] = b <=> t \in Listed(b)
      /\ \A t \in Tasks : <<b, t>> \in links <=> t \in Listed(b)
      /\ \A t \in Listed(b) : status[t] = "accepted"
      /\ Listed(b) \subseteq Tasks
  BY <1>1, WholeList
<1>3. AttachTypeOK
  OBVIOUS
<1>4. AttachTypeOK'
  BY <1>1, <1>3 DEF AttachTypeOK, Phase, TaskStatus
<1>5. /\ phase'[b] = "queued"
      /\ \A x \in Batches \ {b} : phase'[x] = phase[x]
      /\ \A u \in Tasks : held'[u] = IF held[u] = b THEN Nobody ELSE held[u]
      /\ \A u \in Tasks : status'[u] = IF held[u] = b THEN "in_progress"
                                       ELSE status[u]
  BY <1>1, <1>3 DEF AttachTypeOK
<1>6. CodesUnique'
  BY <1>1, <1>5 DEF CodesUnique, Visible
<1>7. \A x \in Batches :
        /\ \A i \in 1 .. Len(ids[x]) : ids[x][i] \in Tasks
        /\ Listed(x)' = Listed(x)
  BY <1>1, <1>3 DEF AttachTypeOK, Listed
<1>8. \A x \in Batches \ {b} : Visible(x)' = Visible(x)
  BY <1>5 DEF Visible
<1>9. \A x \in Batches : Unrestored(x)' = Unrestored(x)
  BY <1>1 DEF Unrestored
<1>10. ASSUME NEW x \in Batches
       PROVE  (ListOf(x) /\ TakenOf(x) /\ RestoringOf(x))'
  <2>1. ListOf(x) /\ TakenOf(x) /\ RestoringOf(x)
    OBVIOUS
  <2>2. CASE x = b
    <3>1. ListOf(b)'
      BY <1>1, <1>2, <1>5, <1>7, <2>1, <2>2 DEF ListOf
    <3>2. TakenOf(b)' /\ RestoringOf(b)'
      BY <1>1, <1>5, <2>1, <2>2 DEF TakenOf, RestoringOf
    <3>3. QED
      BY <2>2, <3>1, <3>2
  <2>3. CASE x # b
    <3>1. ListOf(x)'
      BY <1>1, <1>5, <1>7, <1>8, <2>1, <2>3 DEF ListOf
    <3>2. TakenOf(x)'
      BY <1>1, <1>5, <1>7, <2>1, <2>3 DEF TakenOf
    <3>3. RestoringOf(x)'
      BY <1>1, <1>5, <1>9, <2>1, <2>3 DEF RestoringOf
    <3>4. QED
      BY <3>1, <3>2, <3>3
  <2>4. QED
    BY <2>2, <2>3
<1>11. ASSUME NEW x \in Batches, NEW u \in Tasks
       PROVE  LockOf(x, u)'
  <2>1. LockOf(x, u) /\ Nobody # x
    BY AttachAssumption
  <2>2. CASE x = b
    BY <1>5, <2>1, <2>2 DEF LockOf
  <2>3. CASE x # b
    BY <1>1, <1>5, <1>9, <2>1, <2>3 DEF LockOf
  <2>4. QED
    BY <2>2, <2>3
<1>12. ASSUME NEW u \in Tasks
       PROVE  WorkedOn(u)'
  <2>1. CASE u \in Listed(b)
    <3>1. Keeps(b, u)'
      BY <1>1, <1>2, <1>5, <2>1 DEF Keeps, Works, Live
    <3>2. QED
      BY <3>1 DEF WorkedOn
  <2>2. CASE u \notin Listed(b)
    <3>1. status'[u] = status[u] /\ held'[u] = held[u] /\ WorkedOn(u)
      BY <1>2, <1>5, <2>2
    <3>2. ASSUME NEW x \in Batches, Keeps(x, u)
          PROVE  Keeps(x, u)'
      <4>1. x # b
        BY <1>1, <3>2 DEF Keeps, Works, Live
      <4>2. QED
        BY <1>1, <1>5, <1>9, <3>1, <3>2, <4>1 DEF Keeps, Works, Live
    <3>3. QED
      BY <3>1, <3>2, WorkStays
  <2>3. QED
    BY <2>1, <2>2
<1>13. QED
  BY <1>4, <1>6, <1>10, <1>11, <1>12

\* A cancellation gives back one of the tasks it has found.
LEMMA RestoreStep ==
  ASSUME LockInv, NEW b \in Batches, NEW t \in Tasks, RestoreTask(b, t)
  PROVE  LockInv'
<1> USE DEF LockInv
<1>1. /\ AttachTypeOK
      /\ phase[b] = "cancel"
      /\ restoring[b] # <<>>
      /\ t = Head(restoring[b])
      /\ held[t] = Nobody
      /\ restoring' = [restoring EXCEPT ![b] = Tail(@)]
      /\ held' = [held EXCEPT ![t] = IF status[t] = "in_progress" THEN b ELSE @]
      /\ UNCHANGED <<now, status, phase, code, ids, began, observed, next, links>>
  BY DEF RestoreTask, AtRow, request_vars
<1>2. /\ Tail(restoring[b]) \in Seq(Tasks)
      /\ restoring'[b] = Tail(restoring[b])
      /\ \A i, j \in 1 .. Len(Tail(restoring[b])) :
           Tail(restoring[b])[i] = Tail(restoring[b])[j] => i = j
      /\ {Tail(restoring[b])[i] : i \in 1 .. Len(Tail(restoring[b]))} =
           {restoring[b][i] : i \in 1 .. Len(restoring[b])} \ {t}
  <2>1. RestoringOf(b) /\ restoring[b] \in Seq(Tasks)
    BY <1>1 DEF AttachTypeOK
  <2>2. restoring'[b] = Tail(restoring[b])
    BY <1>1 DEF AttachTypeOK
  <2>3. QED
    BY <1>1, <2>1, <2>2, RestOfOrder DEF RestoringOf
<1>3. /\ Unrestored(b)' = Unrestored(b) \ {t}
      /\ \A x \in Batches \ {b} :
           /\ restoring'[x] = restoring[x]
           /\ Unrestored(x)' = Unrestored(x)
      /\ \A u \in Tasks \ {t} : held'[u] = held[u]
      /\ held'[t] = IF status[t] = "in_progress" THEN b ELSE Nobody
  <2>1. \A x \in Batches \ {b} : restoring'[x] = restoring[x]
    BY <1>1 DEF AttachTypeOK
  <2>2. \A x \in Batches \ {b} : Unrestored(x)' = Unrestored(x)
    BY <2>1 DEF Unrestored
  <2>3. Unrestored(b)' = Unrestored(b) \ {t}
    BY <1>2 DEF Unrestored
  <2>4. /\ \A u \in Tasks \ {t} : held'[u] = held[u]
        /\ held'[t] = IF status[t] = "in_progress" THEN b ELSE Nobody
    BY <1>1 DEF AttachTypeOK
  <2>5. QED
    BY <2>1, <2>2, <2>3, <2>4
<1>4. AttachTypeOK'
  BY <1>1, <1>2 DEF AttachTypeOK
<1>5. CodesUnique'
  BY <1>1 DEF CodesUnique, Visible
<1>6. \A x \in Batches :
        /\ \A i \in 1 .. Len(ids[x]) : ids[x][i] \in Tasks
        /\ Listed(x)' = Listed(x)
        /\ Visible(x)' = Visible(x)
  BY <1>1 DEF AttachTypeOK, Listed, Visible
<1>7. \A x \in Batches : Nobody # x
  BY AttachAssumption
<1>8. t \in Unrestored(b)
  <2>1. Len(restoring[b]) \in Nat \ {0} /\ t = restoring[b][1]
    BY <1>1 DEF AttachTypeOK
  <2>2. QED
    BY <2>1 DEF Unrestored
<1>9. ASSUME NEW x \in Batches
      PROVE  (ListOf(x) /\ TakenOf(x) /\ RestoringOf(x))'
  <2>1. ListOf(x) /\ TakenOf(x) /\ RestoringOf(x)
    OBVIOUS
  <2>2. ListOf(x)'
    BY <1>1, <1>6, <2>1 DEF ListOf
  <2>3. TakenOf(x)'
    BY <1>1, <1>3, <1>6, <1>7, <2>1 DEF TakenOf
  <2>4. RestoringOf(x)'
    <3>1. CASE x = b
      BY <1>1, <1>2, <1>3, <2>1, <3>1 DEF RestoringOf
    <3>2. CASE x # b
      BY <1>1, <1>3, <2>1, <3>2 DEF RestoringOf
    <3>3. QED
      BY <3>1, <3>2
  <2>5. QED
    BY <2>2, <2>3, <2>4
<1>10. ASSUME NEW x \in Batches, NEW u \in Tasks
       PROVE  LockOf(x, u)'
  <2>1. LockOf(x, u) /\ RestoringOf(b)
    OBVIOUS
  <2>2. CASE u = t
    BY <1>1, <1>3, <1>7, <1>8, <2>1, <2>2 DEF LockOf, RestoringOf
  <2>3. CASE u # t
    <3>1. Unrestored(x)' \subseteq Unrestored(x)
      BY <1>3
    <3>2. QED
      BY <1>1, <1>3, <2>1, <2>3, <3>1 DEF LockOf
  <2>4. QED
    BY <2>2, <2>3
<1>11. ASSUME NEW u \in Tasks
       PROVE  WorkedOn(u)'
  <2>1. CASE status[u] = "in_progress"
    <3>1. ASSUME NEW x \in Batches, Keeps(x, u)
          PROVE  Keeps(x, u)'
      <4>1. phase[x] = "cancel" => u \in Unrestored(x)' \/ held'[u] = x
        BY <1>1, <1>3, <1>7, <2>1, <3>1 DEF Keeps
      <4>2. QED
        BY <1>1, <3>1, <4>1 DEF Keeps, Works, Live
    <3>2. QED
      BY <1>1, <3>1, WorkStays
  <2>2. CASE status[u] # "in_progress"
    BY <1>1, <2>2 DEF WorkedOn
  <2>3. QED
    BY <2>1, <2>2
<1>12. QED
  BY <1>4, <1>5, <1>9, <1>10, <1>11

\* A batch is cancelled.
LEMMA CommitCancelStep ==
  ASSUME LockInv, NEW b \in Batches, CommitCancel(b)
  PROVE  LockInv'
<1> USE DEF LockInv
<1>1. /\ AttachTypeOK
      /\ phase[b] = "cancel"
      /\ restoring[b] = <<>>
      /\ phase' = [phase EXCEPT ![b] = "cancelled"]
      /\ status' = [t \in Tasks |->
           IF held[t] = b THEN "accepted" ELSE status[t]]
      /\ held' = [t \in Tasks |-> IF held[t] = b THEN Nobody ELSE held[t]]
      /\ UNCHANGED <<now, code, ids, began, next, links, restoring, observed>>
  BY DEF CommitCancel, Release, request_vars
<1>2. AttachTypeOK'
  BY <1>1 DEF AttachTypeOK, Phase, TaskStatus
<1>3. /\ phase'[b] = "cancelled"
      /\ \A x \in Batches \ {b} : phase'[x] = phase[x]
      /\ \A u \in Tasks : held'[u] = IF held[u] = b THEN Nobody ELSE held[u]
      /\ \A u \in Tasks : status'[u] = IF held[u] = b THEN "accepted"
                                       ELSE status[u]
  BY <1>1 DEF AttachTypeOK
<1>4. CodesUnique'
  BY <1>1, <1>3 DEF CodesUnique, Visible
<1>5. \A x \in Batches :
        /\ \A i \in 1 .. Len(ids[x]) : ids[x][i] \in Tasks
        /\ Listed(x)' = Listed(x)
        /\ Visible(x)' = Visible(x)
  BY <1>1, <1>3 DEF AttachTypeOK, Listed, Visible
<1>6. /\ Unrestored(b) = {}
      /\ \A x \in Batches : Unrestored(x)' = Unrestored(x)
  BY <1>1 DEF Unrestored
<1>7. ASSUME NEW x \in Batches
      PROVE  (ListOf(x) /\ TakenOf(x) /\ RestoringOf(x))'
  <2>1. ListOf(x) /\ TakenOf(x) /\ RestoringOf(x)
    OBVIOUS
  <2>2. ListOf(x)'
    <3>1. phase[x] # "attach" => phase'[x] # "attach"
      BY <1>3
    <3>2. phase'[x] \in {"new", "insert", "failed"} => phase[x] = phase'[x]
      BY <1>3
    <3>3. phase'[x] \notin {"new", "failed"} => phase[x] \notin {"new", "failed"}
      BY <1>1, <1>3
    <3>4. QED
      BY <1>1, <1>5, <2>1, <3>1, <3>2, <3>3 DEF ListOf
  <2>3. TakenOf(x)'
    BY <1>1, <1>3, <1>5, <2>1 DEF TakenOf
  <2>4. RestoringOf(x)'
    BY <1>1, <1>3, <1>6, <2>1 DEF RestoringOf
  <2>5. QED
    BY <2>2, <2>3, <2>4
<1>8. ASSUME NEW x \in Batches, NEW u \in Tasks
      PROVE  LockOf(x, u)'
  <2>1. LockOf(x, u) /\ Nobody # x
    BY AttachAssumption
  <2>2. CASE x = b
    BY <1>3, <2>1, <2>2 DEF LockOf
  <2>3. CASE x # b
    BY <1>1, <1>3, <1>6, <2>1, <2>3 DEF LockOf
  <2>4. QED
    BY <2>2, <2>3
<1>9. ASSUME NEW u \in Tasks
      PROVE  WorkedOn(u)'
  <2>1. CASE held[u] = b
    BY <1>3, <2>1 DEF WorkedOn
  <2>2. CASE held[u] # b
    <3>1. ASSUME NEW x \in Batches, Keeps(x, u)
          PROVE  Keeps(x, u)'
      <4>1. x # b
        BY <1>1, <1>6, <2>2, <3>1 DEF Keeps
      <4>2. QED
        BY <1>1, <1>3, <1>6, <2>2, <3>1, <4>1 DEF Keeps, Works, Live
    <3>2. QED
      BY <1>3, <2>2, <3>1, WorkStays
  <2>3. QED
    BY <2>1, <2>2
<1>10. QED
  BY <1>2, <1>4, <1>7, <1>8, <1>9

\* The worker locks expired rows, rejects them or fails.
LEMMA WorkerStep ==
  ASSUME LockInv,
         \/ \E S \in SUBSET Tasks : LockExpired(S)
         \/ MarkExpired
         \/ AbandonExpired
  PROVE  LockInv'
<1> USE DEF LockInv
<1>1. AttachTypeOK
  OBVIOUS
<1> DEFINE RowsOfTheWorker ==
      /\ status' \in [Tasks -> TaskStatus]
      /\ held' \in [Tasks -> Batches \union {Worker, Nobody}]
      /\ \A u \in Tasks : held'[u] # held[u] =>
           held[u] \in {Worker, Nobody} /\ held'[u] \in {Worker, Nobody}
      /\ \A u \in Tasks : status'[u] # status[u] =>
           held[u] = Worker /\ status'[u] = "closed"
      /\ UNCHANGED <<now, phase, code, ids, began, next, links, restoring, observed>>
<1>2. RowsOfTheWorker
  <2>1. ASSUME NEW S \in SUBSET Tasks, LockExpired(S)
        PROVE  RowsOfTheWorker
    BY <1>1, <2>1
    DEF AttachTypeOK, LockExpired, Expirable, Unlocked, request_vars
  <2>2. CASE MarkExpired
    BY <1>1, <2>2
    DEF AttachTypeOK, MarkExpired, Release, request_vars, TaskStatus
  <2>3. CASE AbandonExpired
    BY <1>1, <2>3 DEF AttachTypeOK, AbandonExpired, Release, request_vars
  <2>4. QED
    BY <2>1, <2>2, <2>3
<1>3. AttachTypeOK'
  BY <1>1, <1>2 DEF AttachTypeOK
<1>4. CodesUnique'
  BY <1>2 DEF CodesUnique, Visible
<1>5. \A x \in Batches : x \notin {Worker, Nobody}
  BY AttachAssumption
<1>6. \A x \in Batches :
        /\ \A i \in 1 .. Len(ids[x]) : ids[x][i] \in Tasks
        /\ Listed(x)' = Listed(x)
        /\ Visible(x)' = Visible(x)
        /\ Unrestored(x)' = Unrestored(x)
  BY <1>1, <1>2 DEF AttachTypeOK, Listed, Visible, Unrestored
<1>7. ASSUME NEW x \in Batches
      PROVE  (ListOf(x) /\ TakenOf(x) /\ RestoringOf(x))'
  <2>1. ListOf(x) /\ TakenOf(x) /\ RestoringOf(x)
    OBVIOUS
  <2>2. ListOf(x)'
    BY <1>2, <1>6, <2>1 DEF ListOf
  <2>3. \A u \in Tasks : held[u] = x => held'[u] = x
    BY <1>2, <1>5
  <2>4. TakenOf(x)'
    BY <1>2, <1>6, <2>1, <2>3 DEF TakenOf
  <2>5. RestoringOf(x)'
    BY <1>2, <1>6, <2>1 DEF RestoringOf
  <2>6. QED
    BY <2>2, <2>4, <2>5
<1>8. ASSUME NEW x \in Batches, NEW u \in Tasks
      PROVE  LockOf(x, u)'
  BY <1>2, <1>5, <1>6 DEF LockOf
<1>9. ASSUME NEW u \in Tasks
      PROVE  WorkedOn(u)'
  <2>1. ASSUME NEW x \in Batches, Keeps(x, u)
        PROVE  Keeps(x, u)'
    BY <1>2, <1>5, <1>6, <2>1 DEF Keeps, Works, Live
  <2>2. QED
    BY <1>2, <2>1, WorkStays
<1>10. QED
  BY <1>3, <1>4, <1>7, <1>8, <1>9

\* A client moves a task that nobody has locked, or time passes.
LEMMA ClientStep ==
  ASSUME LockInv, (\E t \in Tasks : ClientMoves(t)) \/ Tick
  PROVE  LockInv'
<1> USE DEF LockInv
<1>1. AttachTypeOK
  OBVIOUS
<1> DEFINE FreeRows ==
      /\ now' \in Nat
      /\ status' \in [Tasks -> TaskStatus]
      /\ observed' \subseteq Batches
      /\ \A u \in Tasks : status'[u] # status[u] =>
           held[u] = Nobody /\ status'[u] # "in_progress"
      /\ UNCHANGED <<held, phase, code, ids, began, next, links, restoring>>
<1>2. FreeRows
  <2>1. CASE Tick
    BY <1>1, <2>1 DEF AttachTypeOK, Tick, request_vars
  <2>2. ASSUME NEW t \in Tasks,
               NEW new \in {"device_transfer_pending", "accepted", "closed"},
               MoveDroneTask(t, new), observed' \subseteq Batches
        PROVE  FreeRows
    BY <1>1, <2>2 DEF AttachTypeOK, MoveDroneTask, TaskStatus
  <2>3. ASSUME NEW t \in Tasks, ClientMoves(t)
        PROVE  FreeRows
    <3>1. observed \subseteq Batches
      BY <1>1 DEF AttachTypeOK
    <3>2. CASE HandoffDroneTask(t)
      BY <2>2, <3>1, <3>2 DEF HandoffDroneTask
    <3>3. CASE AcceptDroneTask(t)
      BY <2>2, <3>1, <3>3 DEF AcceptDroneTask
    <3>4. ASSUME NEW b \in Batches, ReviewObservation(b, t)
          PROVE  FreeRows
      BY <2>2, <3>1, <3>4 DEF ReviewObservation
    <3>5. QED
      BY <2>3, <3>2, <3>3, <3>4 DEF ClientMoves
  <2>4. QED
    BY <2>1, <2>3
<1>3. AttachTypeOK'
  BY <1>1, <1>2 DEF AttachTypeOK
<1>4. CodesUnique'
  BY <1>2 DEF CodesUnique, Visible
<1>5. \A x \in Batches :
        /\ Listed(x)' = Listed(x)
        /\ Visible(x)' = Visible(x)
        /\ Unrestored(x)' = Unrestored(x)
        /\ Nobody # x
  BY <1>2, AttachAssumption DEF Listed, Visible, Unrestored
<1>6. ASSUME NEW x \in Batches
      PROVE  (ListOf(x) /\ TakenOf(x) /\ RestoringOf(x))'
  <2>1. ListOf(x) /\ TakenOf(x) /\ RestoringOf(x)
    OBVIOUS
  <2>2. QED
    BY <1>2, <1>5, <2>1 DEF ListOf, TakenOf, RestoringOf
<1>7. ASSUME NEW x \in Batches, NEW u \in Tasks
      PROVE  LockOf(x, u)'
  BY <1>2, <1>5 DEF LockOf
<1>8. ASSUME NEW u \in Tasks
      PROVE  WorkedOn(u)'
  <2>1. ASSUME NEW x \in Batches, Keeps(x, u)
        PROVE  Keeps(x, u)'
    BY <1>2, <1>5, <2>1 DEF Keeps, Works, Live
  <2>2. QED
    BY <1>2, <2>1, WorkStays
<1>9. QED
  BY <1>3, <1>4, <1>6, <1>7, <1>8

\* Only an open transaction waits.
LEMMA WaitsOpen ==
  ASSUME NEW b, NEW c, Waits(b, c)
  PROVE  phase[b] \in {"attach", "cancel"}
BY DEF Waits, AtTask, AtRow

\* What a rollback is of, and why it is made.
LEMMA RollbackOf ==
  ASSUME NEW b \in Batches,
         \/ \E t \in Tasks : RefuseTask(b, t)
         \/ Abort(b)
         \/ EndVictim(b)
  PROVE  Rollback(b) /\ phase[b] \in {"attach", "insert", "cancel"}
<1>1. Rollback(b)
  BY DEF RefuseTask, Abort, EndVictim
<1>2. EndVictim(b) => phase[b] \in {"attach", "cancel"}
  BY WaitsOpen DEF EndVictim, Cycle
<1>3. QED
  BY <1>1, <1>2 DEF RefuseTask, AtTask, Abort, Open

\* Every action preserves LockInv: inserts and commits of a batch, cancellations,
\* the passes of the worker, clients' moves, failures and the deadlock detector.
LEMMA LockStep == LockInv /\ [AttachNext]_lock_vars => LockInv'
<1> SUFFICES ASSUME LockInv, [AttachNext]_lock_vars PROVE LockInv'
  OBVIOUS
<1>1. ASSUME NEW b \in Batches,
             \/ \E r \in Requests : CreateDroneMissionBatch(b, r)
             \/ InsertBatch(b)
             \/ BeginCancel(b)
      PROVE  LockInv'
  BY <1>1, BeginStep
<1>2. ASSUME NEW b \in Batches, NEW t \in Tasks, InsertLink(b, t)
      PROVE  LockInv'
  BY <1>2, LinkStep
<1>3. ASSUME NEW b \in Batches, NEW t \in Tasks, TakeTask(b, t)
      PROVE  LockInv'
  BY <1>3, TakeStep
<1>4. ASSUME NEW b \in Batches,
             \/ \E t \in Tasks : RefuseTask(b, t)
             \/ Abort(b)
             \/ EndVictim(b)
      PROVE  LockInv'
  <2>1. Rollback(b) /\ phase[b] \in {"attach", "insert", "cancel"}
    BY <1>4, RollbackOf
  <2>2. QED
    BY <2>1, UndoAttachStep, UndoCancelStep
<1>5. ASSUME NEW b \in Batches, CommitAttach(b)
      PROVE  LockInv'
  BY <1>5, CommitAttachStep
<1>6. ASSUME NEW b \in Batches, NEW t \in Tasks, RestoreTask(b, t)
      PROVE  LockInv'
  BY <1>6, RestoreStep
<1>7. ASSUME NEW b \in Batches, CommitCancel(b)
      PROVE  LockInv'
  BY <1>7, CommitCancelStep
<1>8. CASE UNCHANGED lock_vars
  <2>1. UNCHANGED <<now, status, held, phase, code, ids, began, next, links, restoring,
                    observed>>
    BY <1>8 DEF lock_vars
  <2>2. AttachTypeOK' /\ CodesUnique'
    BY <2>1 DEF LockInv, AttachTypeOK, CodesUnique, Visible
  <2>3. \A x \in Batches : Unrestored(x)' = Unrestored(x)
    BY <2>1 DEF Unrestored
  <2>4. ASSUME NEW x \in Batches
        PROVE  (ListOf(x) /\ TakenOf(x) /\ RestoringOf(x))'
    BY <2>1, <2>3 DEF LockInv, ListOf, TakenOf, RestoringOf, Visible, Listed
  <2>5. ASSUME NEW x \in Batches, NEW u \in Tasks
        PROVE  LockOf(x, u)'
    BY <2>1, <2>3 DEF LockInv, LockOf
  <2>6. ASSUME NEW u \in Tasks
        PROVE  WorkedOn(u)'
    BY <2>1, <2>3 DEF LockInv, WorkedOn, Keeps, Works, Live
  <2>7. QED
    BY <2>2, <2>4, <2>5, <2>6 DEF LockInv
<1>9. QED
  BY <1>1, <1>2, <1>3, <1>4, <1>5, <1>6, <1>7, <1>8, WorkerStep, ClientStep
  DEF AttachNext, Proceed

\* LockInv holds of every reachable state: what a transaction holds, has linked
\* and has passed fits together, however its statements interleave with others.
THEOREM LockInvariant == AttachSafety => []LockInv
<1>1. AttachInit => LockInv
  BY InitLocks
<1>2. QED
  BY <1>1, LockStep, PTL DEF AttachSafety

-----------------------------------------------------------------------------
(***************************************************************************)
(* What follows.                                                           *)
(***************************************************************************)

\* Type correctness.
THEOREM AttachTypes == AttachSafety => []AttachTypeOK
<1>1. LockInv => AttachTypeOK
  BY DEF LockInv
<1>2. QED
  BY <1>1, LockInvariant, PTL

\* LockInv implies that batches are whole: the loop ends with every listed task
\* linked, and what is rolled back is unlinked and unlocked.
LEMMA WholeNow == LockInv => BatchesAreWhole
<1> SUFFICES ASSUME LockInv, NEW b \in Batches
             PROVE  /\ Visible(b) => TasksOf(b) = Listed(b)
                    /\ phase[b] = "failed" => TasksOf(b) = {}
                    /\ phase[b] \notin Open => HeldBy(b) = {}
  BY DEF BatchesAreWhole
<1>1. ListOf(b) /\ ids[b] \in Seq(Tasks)
  BY DEF LockInv, AttachTypeOK
<1>2. Listed(b) \subseteq Tasks
  BY <1>1 DEF Listed
<1>3. Visible(b) => TasksOf(b) = Listed(b)
  BY <1>1, <1>2 DEF ListOf, TasksOf
<1>4. phase[b] = "failed" => TasksOf(b) = {}
  BY <1>1 DEF ListOf, TasksOf
<1>5. phase[b] \notin Open => HeldBy(b) = {}
  BY DEF HeldBy, LockInv, LockOf, Open
<1>6. QED
  BY <1>3, <1>4, <1>5

\* Whatever transactions interleave, fail and are ended, a batch one can see has
\* all its tasks, and a request that failed left nothing.
THEOREM WholeBatches == AttachSafety => []BatchesAreWhole
BY LockInvariant, WholeNow, PTL

\* LockInv implies that a task in progress has a batch that keeps it.
LEMMA WorkedOnNow == LockInv => WorkIsNeverOrphaned
BY DEF LockInv, WorkedOn, Keeps, Works, Live, WorkIsNeverOrphaned

\* A task in progress is never left without a batch, also when it was handed over,
\* accepted and attached elsewhere while a batch it belonged to was cancelled.
THEOREM NeverOrphaned == AttachSafety => []WorkIsNeverOrphaned
BY LockInvariant, WorkedOnNow, PTL

\* LockInv has the unique key of codes as a part.
LEMMA CodesNow == LockInv => OneBatchPerCode
BY DEF LockInv, CodesUnique, OneBatchPerCode

\* A creation sent twice makes one batch.
THEOREM UniqueCodes == AttachSafety => []OneBatchPerCode
BY LockInvariant, CodesNow, PTL

\* The loop of attachDroneTasks waits only for another such loop that is past the
\* task: a row that a cancellation has updated is in progress, not accepted.
LEMMA WaitsInLoop ==
  ASSUME LockInv, NEW b \in Batches, NEW c \in Batches, Waits(b, c),
         phase[b] = "attach"
  PROVE  /\ phase[c] = "attach"
         /\ \E t \in Tasks : /\ AtTask(b, t)
                             /\ \E i \in 1 .. Len(ids[c]) :
                                  i < next[c] /\ t = ids[c][i]
<1>1. PICK t \in Tasks : AtTask(b, t) /\ status[t] = "accepted" /\ held[t] = c
  BY DEF Waits, Eligible, AtRow
<1>2. LockOf(c, t)
  BY DEF LockInv
<1>3. QED
  BY <1>1, <1>2 DEF LockOf

\* A cancellation waits for a cancellation only at a task they have in common.
LEMMA WaitsAtRow ==
  ASSUME LockInv, NEW b \in Batches, NEW c \in Batches, Waits(b, c),
         phase[b] = "cancel", phase[c] = "cancel"
  PROVE  b # c /\ TasksOf(b) \intersect TasksOf(c) # {}
<1>1. PICK t \in Tasks : AtRow(b, t) /\ held[t] = c
  BY DEF Waits, AtTask
<1>2. t \in Unrestored(b)
  <2>1. Len(restoring[b]) \in Nat \ {0} /\ t = restoring[b][1]
    BY <1>1 DEF AtRow, LockInv, AttachTypeOK
  <2>2. QED
    BY <2>1 DEF Unrestored
<1>3. <<b, t>> \in links
  BY <1>2 DEF LockInv, RestoringOf
<1>4. <<c, t>> \in links /\ t \notin Unrestored(c)
  BY <1>1 DEF LockInv, LockOf
<1>5. t \in TasksOf(b) /\ t \in TasksOf(c)
  BY <1>3, <1>4 DEF TasksOf
<1>6. QED
  BY <1>2, <1>4, <1>5

\* In a circle of sorted lists each creation would wait for one that is further on
\* in its own.
LEMMA NoCreationDeadlocks ==
  ASSUME LockInv,
         NEW rank \in [Tasks -> 1 .. Cardinality(Tasks)], Ascending(rank),
         NEW W \in SUBSET Batches, Cycle(W)
  PROVE  \A b \in W : phase[b] # "attach"
<1> SUFFICES ASSUME \E b \in W : phase[b] = "attach" PROVE FALSE
  OBVIOUS
<1> DEFINE A == {b \in W : phase[b] = "attach"}
           N == Cardinality(Tasks)
           Left(b) == N - rank[ids[b][next[b]]]
           T == {Left(b) : b \in A}
<1>1. N \in Nat
  BY AttachAssumption, FS_CardinalityType
<1>2. \A b \in A : ids[b] \in Seq(Tasks) /\ next[b] \in Nat
  BY DEF LockInv, AttachTypeOK
<1>3. ASSUME NEW b \in A
      PROVE  /\ next[b] \in 1 .. Len(ids[b])
             /\ \E c \in A : \E i \in 1 .. Len(ids[c]) :
                  i < next[c] /\ ids[b][next[b]] = ids[c][i]
  <2>1. PICK c \in W : Waits(b, c)
    BY DEF Cycle
  <2>2. /\ c \in A
        /\ \E t \in Tasks :
             /\ AtTask(b, t)
             /\ \E i \in 1 .. Len(ids[c]) : i < next[c] /\ t = ids[c][i]
    BY <2>1, WaitsInLoop
  <2>3. PICK t \in Tasks :
          /\ AtTask(b, t)
          /\ \E i \in 1 .. Len(ids[c]) : i < next[c] /\ t = ids[c][i]
    BY <2>2
  <2>4. next[b] \in 1 .. Len(ids[b])
    BY <1>2, <2>3 DEF AtTask, LockInv, ListOf
  <2>5. QED
    BY <2>2, <2>3, <2>4 DEF AtTask
<1>4. \A b \in A : \A i \in 1 .. Len(ids[b]) : rank[ids[b][i]] \in 1 .. N
  BY <1>2
<1>5. ASSUME NEW b \in A
      PROVE  Left(b) \in Nat /\ \E c \in A : Left(c) < Left(b)
  <2>1. PICK c \in A :
          \E i \in 1 .. Len(ids[c]) : i < next[c] /\ ids[b][next[b]] = ids[c][i]
    BY <1>3
  <2>2. PICK i \in 1 .. Len(ids[c]) : i < next[c] /\ ids[b][next[b]] = ids[c][i]
    BY <2>1
  <2>3. next[b] \in 1 .. Len(ids[b]) /\ next[c] \in 1 .. Len(ids[c])
    BY <1>3
  <2>4. rank[ids[c][i]] < rank[ids[c][next[c]]]
    BY <2>2, <2>3 DEF Ascending
  <2>5. rank[ids[b][next[b]]] \in 1 .. N /\ rank[ids[c][next[c]]] \in 1 .. N
    BY <1>4, <2>3
  <2>6. rank[ids[b][next[b]]] < rank[ids[c][next[c]]]
    BY <2>2, <2>4
  <2>7. QED
    BY <1>1, <2>5, <2>6
<1>6. A # {}
  OBVIOUS
<1> HIDE DEF Left, A
<1>7. T \subseteq Nat /\ T # {}
  BY <1>5, <1>6
<1>8. PICK x \in T : \A y \in T : ~ (<<y, x>> \in OpToRel(<, Nat))
  BY <1>7, NatLessThanWellFounded, WFMin
<1>9. QED
  BY <1>5, <1>7, <1>8 DEF OpToRel

\* With sorted lists a circle is of cancellations, each of which waits for another
\* at a task they have in common.
LEMMA DeadlockNow == LockInv => OnlyCancellationsDeadlock
<1> SUFFICES ASSUME LockInv,
                    NEW rank \in [Tasks -> 1 .. Cardinality(Tasks)], Ascending(rank),
                    NEW W \in SUBSET Batches, Cycle(W), NEW b \in W
             PROVE  /\ phase[b] = "cancel"
                    /\ \E c \in W \ {b} : TasksOf(b) \intersect TasksOf(c) # {}
  BY DEF OnlyCancellationsDeadlock
<1>1. ASSUME NEW x \in W
      PROVE  phase[x] = "cancel"
  <2>1. \E c \in W : Waits(x, c)
    BY DEF Cycle
  <2>2. phase[x] # "attach"
    BY NoCreationDeadlocks
  <2>3. QED
    BY <2>1, <2>2, WaitsOpen
<1>2. PICK c \in W : Waits(b, c)
  BY DEF Cycle
<1>3. QED
  BY <1>1, <1>2, WaitsAtRow

\* Creations whose lists follow one order never wait in a circle, whatever clients,
\* cancellations and the worker do; cancellations of batches that share a task may.
THEOREM SortedCreationsNeverDeadlock == AttachSafety => []OnlyCancellationsDeadlock
BY LockInvariant, DeadlockNow, PTL

-----------------------------------------------------------------------------
(***************************************************************************)
(* The statements implement BatchBoard.                                    *)
(***************************************************************************)

Unfinished == {"device_transfer_pending", "accepted", "in_progress"}

\* The worker holds rows it has yet to reject.
WorkerInv == \A t \in Tasks : held[t] = Worker => status[t] \in Unfinished

BoardInv == LockInv /\ WorkerInv

\* No step closes a task whose row the worker still holds, but the worker's own.
LEMMA WorkerInvStep == LockInv /\ WorkerInv /\ [AttachNext]_lock_vars => WorkerInv'
<1> SUFFICES ASSUME LockInv, WorkerInv, [AttachNext]_lock_vars, NEW t \in Tasks
             PROVE  (held[t] = Worker => status[t] \in Unfinished)'
  BY DEF WorkerInv
<1>1. AttachTypeOK /\ (held[t] = Worker => status[t] \in Unfinished)
  BY DEF LockInv, WorkerInv
<1>2. Worker # Nobody /\ \A b \in Batches : b # Worker
  BY AttachAssumption
<1> DEFINE Done == held'[t] = Worker => status'[t] \in Unfinished
<1>3. ASSUME NEW b \in Batches, held' = held \/ Release(b),
             UNCHANGED status
      PROVE  Done
  BY <1>1, <1>2, <1>3 DEF Release
<1>4. ASSUME NEW b \in Batches, NEW u \in Tasks, TakeTask(b, u) \/ RestoreTask(b, u)
      PROVE  Done
  BY <1>1, <1>2, <1>4 DEF TakeTask, RestoreTask, AttachTypeOK
<1>5. ASSUME NEW b \in Batches, CommitAttach(b) \/ CommitCancel(b)
      PROVE  Done
  BY <1>1, <1>2, <1>5 DEF CommitAttach, CommitCancel, Release
<1>6. ASSUME NEW S \in SUBSET Tasks, LockExpired(S)
      PROVE  Done
  BY <1>1, <1>6 DEF LockExpired, Expirable, Overdue, Unfinished
<1>7. CASE MarkExpired \/ AbandonExpired
  BY <1>1, <1>2, <1>7 DEF MarkExpired, AbandonExpired, Release
<1>8. ASSUME NEW u \in Tasks, ClientMoves(u)
      PROVE  Done
  <2>1. PICK new \in TaskStatus : MoveDroneTask(u, new)
    BY <1>8 DEF ClientMoves, HandoffDroneTask, AcceptDroneTask, ReviewObservation,
                TaskStatus
  <2>2. QED
    BY <1>1, <1>2, <2>1 DEF MoveDroneTask, AttachTypeOK
<1>9. CASE Tick \/ UNCHANGED lock_vars
  BY <1>1, <1>9 DEF Tick, lock_vars
<1>10. ASSUME NEW b \in Batches, BeginCancel(b) \/ Abort(b) \/ EndVictim(b)
       PROVE  Done
  BY <1>3, <1>10 DEF BeginCancel, Abort, EndVictim, Rollback
<1>11. ASSUME NEW b \in Batches, Proceed(b)
       PROVE  Done
  BY <1>3, <1>4, <1>5, <1>11
  DEF Proceed, InsertBatch, InsertLink, RefuseTask, Rollback
<1>12. ASSUME NEW b \in Batches, NEW r \in Requests, CreateDroneMissionBatch(b, r)
       PROVE  Done
  BY <1>3, <1>12 DEF CreateDroneMissionBatch
<1>13. QED
  BY <1>6, <1>7, <1>8, <1>9, <1>10, <1>11, <1>12 DEF AttachNext

\* What the refinement rests on.
LEMMA BoardInvariant == AttachSafety => []BoardInv
<1>1. AttachInit => BoardInv
  BY InitLocks, AttachAssumption DEF AttachInit, BoardInv, WorkerInv
<1>2. BoardInv /\ [AttachNext]_lock_vars => BoardInv'
  BY LockStep, WorkerInvStep DEF BoardInv
<1>3. QED
  BY <1>1, <1>2, PTL DEF AttachSafety

\* What the board shows of a batch stays as it is.
SameBoard(b) == VisibleStatus'[b] = VisibleStatus[b] /\ VisibleTasks'[b] = VisibleTasks[b]

\* A step that changes no status and nothing others see of a batch is not seen.
LEMMA StutterStep ==
  ASSUME status' = status, \A b \in Batches : SameBoard(b)
  PROVE  UNCHANGED Board!board_vars
BY DEF SameBoard, VisibleStatus, VisibleTasks, Board!board_vars

\* A batch that keeps its phase, and its links if it is visible, looks the same.
LEMMA SamePhase ==
  ASSUME NEW b \in Batches, phase'[b] = phase[b],
         Visible(b) => \A t \in Tasks : <<b, t>> \in links' <=> <<b, t>> \in links
  PROVE  SameBoard(b)
<1>1. Visible(b)' <=> Visible(b)
  BY DEF Visible
<1>2. Visible(b) => TasksOf(b)' = TasksOf(b)
  BY DEF TasksOf
<1>3. QED
  BY <1>1, <1>2 DEF SameBoard, VisibleStatus, VisibleTasks

\* A batch that is made appears on the board with all its tasks.
LEMMA BoardCreate ==
  ASSUME LockInv, NEW b \in Batches, CommitAttach(b)
  PROVE  Board!Create(b, Listed(b)) /\ Listed(b) \subseteq Tasks
<1>1. /\ phase[b] = "attach"
      /\ next[b] > Len(ids[b])
      /\ phase' = [phase EXCEPT ![b] = "queued"]
      /\ status' = [t \in Tasks |->
           IF held[t] = b THEN "in_progress" ELSE status[t]]
      /\ links' = links
  BY DEF CommitAttach
<1>2. /\ \A t \in Tasks : held[t] = b <=> t \in Listed(b)
      /\ \A t \in Tasks : <<b, t>> \in links <=> t \in Listed(b)
      /\ \A t \in Listed(b) : status[t] = "accepted"
      /\ Listed(b) \subseteq Tasks
      /\ Listed(b) # {}
  BY <1>1, WholeList
<1>3. phase'[b] = "queued" /\ \A x \in Batches \ {b} : phase'[x] = phase[x]
  BY <1>1 DEF LockInv, AttachTypeOK
<1>4. \A x \in Batches \ {b} : SameBoard(x)
  BY <1>1, <1>3, SamePhase
<1>5. VisibleStatus[b] = "absent" /\ VisibleStatus'[b] = "queued"
  BY <1>1, <1>3 DEF VisibleStatus, Visible
<1>6. VisibleTasks'[b] = Listed(b)
  <2>1. TasksOf(b)' = Listed(b)
    BY <1>1, <1>2 DEF TasksOf
  <2>2. QED
    BY <1>3, <2>1 DEF VisibleTasks, Visible
<1>7. VisibleStatus' = [VisibleStatus EXCEPT ![b] = "queued"]
  BY <1>4, <1>5 DEF SameBoard, VisibleStatus
<1>8. VisibleTasks' = [VisibleTasks EXCEPT ![b] = Listed(b)]
  BY <1>4, <1>6 DEF SameBoard, VisibleTasks
<1>9. status' = [t \in Tasks |->
        IF t \in Listed(b) THEN "in_progress" ELSE status[t]]
  BY <1>1, <1>2
<1>10. QED
  BY <1>2, <1>5, <1>7, <1>8, <1>9 DEF Board!Create

\* A cancelled batch gives back, at one instant, the rows it has locked; a task
\* that it leaves in progress has another batch.
LEMMA BoardCancel ==
  ASSUME LockInv, NEW b \in Batches, CommitCancel(b)
  PROVE  Board!Cancel(b, HeldBy(b))
<1>1. /\ phase[b] = "cancel"
      /\ restoring[b] = <<>>
      /\ phase' = [phase EXCEPT ![b] = "cancelled"]
      /\ status' = [t \in Tasks |-> IF held[t] = b THEN "accepted" ELSE status[t]]
      /\ links' = links
  BY DEF CommitCancel
<1>2. phase'[b] = "cancelled" /\ \A x \in Batches \ {b} : phase'[x] = phase[x]
  BY <1>1 DEF LockInv, AttachTypeOK
<1>3. \A x \in Batches \ {b} : SameBoard(x)
  BY <1>1, <1>2, SamePhase
<1>4. VisibleStatus[b] = "queued" /\ VisibleStatus'[b] = "cancelled"
  BY <1>1, <1>2 DEF VisibleStatus, Visible
<1>5. VisibleTasks'[b] = VisibleTasks[b] /\ VisibleTasks[b] = TasksOf(b)
  BY <1>1, <1>2 DEF VisibleTasks, Visible, TasksOf
<1>6. VisibleStatus' = [VisibleStatus EXCEPT ![b] = "cancelled"]
  BY <1>3, <1>4 DEF SameBoard, VisibleStatus
<1>7. VisibleTasks' = VisibleTasks
  BY <1>3, <1>5 DEF SameBoard, VisibleTasks
<1>8. /\ HeldBy(b) \subseteq VisibleTasks[b]
      /\ \A t \in HeldBy(b) : status[t] = "in_progress"
  BY <1>1, <1>5 DEF LockInv, LockOf, HeldBy, TasksOf
<1>9. ASSUME NEW t \in VisibleTasks[b] \ HeldBy(b), status[t] = "in_progress"
      PROVE  \E c \in Batches \ {b} :
               VisibleStatus[c] = "queued" /\ t \in VisibleTasks[c]
  <2>1. t \in Tasks /\ held[t] # b /\ Unrestored(b) = {}
    BY <1>1, <1>5, <1>9 DEF TasksOf, HeldBy, Unrestored
  <2>2. PICK c \in Batches : Keeps(c, t)
    BY <1>9, <2>1 DEF LockInv, WorkedOn
  <2>3. c # b
    BY <1>1, <2>1, <2>2 DEF Keeps
  <2>4. VisibleStatus[c] = "queued" /\ VisibleTasks[c] = TasksOf(c) /\ t \in TasksOf(c)
    BY <2>1, <2>2 DEF Keeps, Works, Live, VisibleStatus, VisibleTasks, Visible, TasksOf
  <2>5. QED
    BY <2>3, <2>4
<1>10. status' = [t \in Tasks |-> IF t \in HeldBy(b) THEN "accepted" ELSE status[t]]
  BY <1>1 DEF HeldBy
<1>11. QED
  BY <1>4, <1>6, <1>7, <1>8, <1>9, <1>10 DEF Board!Cancel

\* The empty database is the empty board.
LEMMA BoardInitial == AttachInit => Board!BoardInit
BY DEF AttachInit, Board!BoardInit, VisibleStatus, VisibleTasks, Visible

\* A transaction that is rolled back was never seen.
LEMMA RollbackUnseen ==
  ASSUME AttachTypeOK, NEW b \in Batches, Rollback(b),
         phase[b] \in {"attach", "insert", "cancel"}
  PROVE  /\ status' = status
         /\ \A x \in Batches : SameBoard(x)
<1>1. status' = status
  BY DEF Rollback
<1>2. CASE phase[b] = "cancel"
  <2>1. phase' = [phase EXCEPT ![b] = "queued"] /\ links' = links
    BY <1>2 DEF Rollback, UndoCancel
  <2>2. phase'[b] = "queued" /\ \A x \in Batches \ {b} : phase'[x] = phase[x]
    BY <2>1 DEF AttachTypeOK
  <2>3. \A x \in Batches \ {b} : SameBoard(x)
    BY <2>1, <2>2, SamePhase
  <2>4. TasksOf(b)' = TasksOf(b)
    BY <2>1 DEF TasksOf
  <2>5. SameBoard(b)
    BY <1>2, <2>2, <2>4 DEF SameBoard, VisibleStatus, VisibleTasks, Visible
  <2>6. QED
    BY <1>1, <2>3, <2>5
<1>3. CASE phase[b] # "cancel"
  <2>1. phase' = [phase EXCEPT ![b] = "failed"] /\ links' = links \ ({b} \X Tasks)
    BY <1>3 DEF Rollback, UndoAttach
  <2>2. /\ phase'[b] = "failed"
        /\ \A x \in Batches \ {b} :
             /\ phase'[x] = phase[x]
             /\ \A t \in Tasks : <<x, t>> \in links' <=> <<x, t>> \in links
    BY <2>1 DEF AttachTypeOK
  <2>3. \A x \in Batches \ {b} : SameBoard(x)
    BY <2>2, SamePhase
  <2>4. SameBoard(b)
    BY <1>3, <2>2 DEF SameBoard, VisibleStatus, VisibleTasks, Visible
  <2>5. QED
    BY <1>1, <2>3, <2>4
<1>4. QED
  BY <1>2, <1>3

\* Each step is one of the board or is not seen on it.
LEMMA BoardStep ==
  BoardInv /\ [AttachNext]_lock_vars => [Board!BoardNext]_(Board!board_vars)
<1> SUFFICES ASSUME BoardInv, [AttachNext]_lock_vars
             PROVE  Board!BoardNext \/ UNCHANGED Board!board_vars
  OBVIOUS
<1> DEFINE Mapped == Board!BoardNext \/ UNCHANGED Board!board_vars
<1>1. LockInv /\ WorkerInv /\ AttachTypeOK
  BY DEF BoardInv, LockInv
<1>2. ASSUME status' = status, phase' = phase, links' = links
      PROVE  Mapped
  BY <1>2, SamePhase, StutterStep
<1>3. ASSUME NEW b \in Batches, status' = status,
             \A x \in Batches \ {b} : phase'[x] = phase[x],
             \A x \in Batches \ {b}, t \in Tasks :
               <<x, t>> \in links' <=> <<x, t>> \in links,
             SameBoard(b)
      PROVE  Mapped
  <2>1. \A x \in Batches \ {b} : SameBoard(x)
    BY <1>3, SamePhase
  <2>2. QED
    BY <1>3, <2>1, StutterStep
<1>4. ASSUME NEW b \in Batches, NEW r \in Requests, CreateDroneMissionBatch(b, r)
      PROVE  Mapped
  <2>1. /\ phase[b] = "new"
        /\ phase' = [phase EXCEPT ![b] = "insert"]
        /\ links' = links
        /\ status' = status
    BY <1>4 DEF CreateDroneMissionBatch
  <2>2. SameBoard(b)
    BY <1>1, <2>1 DEF SameBoard, VisibleStatus, VisibleTasks, Visible, AttachTypeOK
  <2>3. \A x \in Batches \ {b} : phase'[x] = phase[x]
    BY <1>1, <2>1 DEF AttachTypeOK
  <2>4. QED
    BY <1>3, <2>1, <2>2, <2>3
<1>5. ASSUME NEW b \in Batches, InsertBatch(b)
      PROVE  Mapped
  <2>1. \E new \in {"attach", "failed"} :
          /\ phase[b] = "insert"
          /\ phase' = [phase EXCEPT ![b] = new]
          /\ links' = links
          /\ status' = status
    BY <1>5 DEF InsertBatch
  <2>2. SameBoard(b)
    BY <1>1, <2>1 DEF SameBoard, VisibleStatus, VisibleTasks, Visible, AttachTypeOK
  <2>3. \A x \in Batches \ {b} : phase'[x] = phase[x]
    BY <1>1, <2>1 DEF AttachTypeOK
  <2>4. QED
    BY <1>3, <2>1, <2>2, <2>3
<1>6. ASSUME NEW b \in Batches, NEW t \in Tasks, InsertLink(b, t)
      PROVE  Mapped
  <2>1. /\ phase[b] = "attach"
        /\ links' = links \union {<<b, t>>}
        /\ UNCHANGED <<status, phase>>
    BY <1>6 DEF InsertLink, AtTask
  <2>2. SameBoard(b)
    BY <2>1, SamePhase DEF Visible
  <2>3. QED
    BY <1>3, <2>1, <2>2
<1>7. ASSUME NEW b \in Batches,
             \/ \E t \in Tasks : RefuseTask(b, t)
             \/ Abort(b)
             \/ EndVictim(b)
      PROVE  Mapped
  <2>1. Rollback(b) /\ phase[b] \in {"attach", "insert", "cancel"}
    BY <1>7, RollbackOf
  <2>2. QED
    BY <1>1, <2>1, RollbackUnseen, StutterStep
<1>8. ASSUME NEW b \in Batches, BeginCancel(b)
      PROVE  Mapped
  <2>1. /\ phase[b] = "queued"
        /\ phase' = [phase EXCEPT ![b] = "cancel"]
        /\ links' = links
        /\ status' = status
    BY <1>8 DEF BeginCancel
  <2>2. phase'[b] = "cancel" /\ \A x \in Batches \ {b} : phase'[x] = phase[x]
    BY <1>1, <2>1 DEF AttachTypeOK
  <2>3. SameBoard(b)
    BY <2>1, <2>2 DEF SameBoard, VisibleStatus, VisibleTasks, Visible, TasksOf
  <2>4. QED
    BY <1>3, <2>1, <2>2, <2>3
<1>9. ASSUME NEW b \in Batches, CommitAttach(b)
      PROVE  Mapped
  BY <1>1, <1>9, BoardCreate DEF Board!BoardNext
<1>10. ASSUME NEW b \in Batches, CommitCancel(b)
       PROVE  Mapped
  <2>1. HeldBy(b) \subseteq Tasks
    BY DEF HeldBy
  <2>2. QED
    BY <1>1, <1>10, <2>1, BoardCancel DEF Board!BoardNext
<1>11. ASSUME phase' = phase, links' = links
       PROVE  UNCHANGED <<VisibleStatus, VisibleTasks>>
  BY <1>11, SamePhase DEF VisibleStatus, VisibleTasks, SameBoard
<1>12. CASE MarkExpired
  <2>1. UNCHANGED <<VisibleStatus, VisibleTasks>>
    BY <1>11, <1>12 DEF MarkExpired
  <2>2. status' = [t \in Tasks |->
          IF t \in HeldBy(Worker) THEN "closed" ELSE status[t]]
    BY <1>12 DEF MarkExpired, HeldBy
  <2>3. \A t \in HeldBy(Worker) : status[t] \in Unfinished
    BY <1>1 DEF HeldBy, WorkerInv
  <2>4. Board!Expire(HeldBy(Worker))
    BY <2>1, <2>2, <2>3 DEF Board!Expire, Unfinished
  <2>5. QED
    BY <2>4 DEF Board!BoardNext, HeldBy
<1>13. ASSUME NEW t \in Tasks, ClientMoves(t)
       PROVE  Mapped
  <2>1. PICK new \in {"device_transfer_pending", "accepted", "closed"} :
          MoveDroneTask(t, new)
    BY <1>13 DEF ClientMoves, HandoffDroneTask, AcceptDroneTask, ReviewObservation
  <2>2. UNCHANGED <<VisibleStatus, VisibleTasks>>
    BY <1>11, <2>1 DEF MoveDroneTask
  <2>3. Board!Move(t, new)
    BY <2>1, <2>2 DEF MoveDroneTask, Board!Move
  <2>4. QED
    BY <2>3 DEF Board!BoardNext
<1>14. ASSUME \/ \E S \in SUBSET Tasks : LockExpired(S)
              \/ AbandonExpired
              \/ Tick
              \/ UNCHANGED lock_vars
              \/ \E b \in Batches, t \in Tasks : TakeTask(b, t) \/ RestoreTask(b, t)
       PROVE  Mapped
  BY <1>2, <1>14
  DEF LockExpired, AbandonExpired, Tick, lock_vars, TakeTask, RestoreTask
<1>15. QED
  BY <1>4, <1>5, <1>6, <1>7, <1>8, <1>9, <1>10, <1>12, <1>13, <1>14
  DEF AttachNext, Proceed

\* Statement by statement, with locks, waiting, rollbacks and deadlocks, batches
\* are made and cancelled as if at one instant.
THEOREM AttachImplementsBoard == AttachSafety => ImplementsBatchBoard
<1>1. AttachInit => Board!BoardInit
  BY BoardInitial
<1>2. QED
  BY <1>1, BoardInvariant, BoardStep, PTL
  DEF AttachSafety, ImplementsBatchBoard, Board!BoardSpec

=============================================================================
