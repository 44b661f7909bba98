--------------------------- MODULE TaskHistoryProofs ---------------------------
(***************************************************************************)
(* Theorems about TaskHistory, for any clients, operators, claimed times,  *)
(* page sizes, passes of the worker and bounds.                            *)
(***************************************************************************)
EXTENDS TaskHistory, FiniteSetTheorems, SequenceTheorems, TLAPS

-----------------------------------------------------------------------------
(***************************************************************************)
(* Requests, walks and appends.                                            *)
(***************************************************************************)

\* What is known of a request that is not idle.
LEMMA RequestFields ==
  ASSUME NEW r \in Request
  PROVE  /\ r # Idle
         /\ r.pc \in {"received", "begun"}
         /\ r.version \in 1 .. MaxVersion
         /\ r.began \in 0 .. MaxTime
         /\ r.transfer \in Transfer
BY DEF Request, Idle

\* BEGIN changes where a request is and when it began, nothing else.
LEMMA BegunFields ==
  ASSUME NEW r \in Request, NEW n \in 0 .. MaxTime
  PROVE  LET b == [r EXCEPT !.pc = "begun", !.began = n] IN
         /\ b \in Request
         /\ b.pc = "begun"
         /\ b.began = n
         /\ b.version = r.version
         /\ b.transfer = r.transfer
BY DEF Request

\* A sequence and what is appended to it.
LEMMA Appended ==
  ASSUME NEW S, NEW s \in Seq(S), NEW e \in S
  PROVE  /\ Append(s, e) \in Seq(S)
         /\ Len(Append(s, e)) = Len(s) + 1
         /\ DOMAIN Append(s, e) = DOMAIN s \union {Len(s) + 1}
         /\ Len(s) + 1 \notin DOMAIN s
         /\ \A i \in DOMAIN s : Append(s, e)[i] = s[i]
         /\ Append(s, e)[Len(s) + 1] = e
BY AppendProperties, LenProperties

\* The trail and the rows that a transaction adds to it.
LEMMA Written ==
  ASSUME audit_events \in Seq(AuditRow),
         NEW by \in {"client", "worker"}, NEW began \in Nat, NEW n \in Nat, NEW own,
         WriteAudit(by, began, n, own)
  PROVE  /\ audit_events' \in Seq(AuditRow)
         /\ DOMAIN audit_events \subseteq DOMAIN audit_events'
         /\ \A i \in DOMAIN audit_events : audit_events'[i] = audit_events[i]
         /\ \A i \in DOMAIN audit_events' \ DOMAIN audit_events :
              /\ audit_events'[i].by = by
              /\ audit_events'[i].created_at = began
              /\ audit_events'[i].object = "task" =>
                   own /\ i = Len(audit_events) + 1
              /\ \A j \in DOMAIN audit_events : j < i
<1> DEFINE Row(k) == [by |-> by,
                      object |-> IF own /\ k = 1 THEN "task" ELSE "other",
                      created_at |-> began]
           rows == [k \in 1 .. n |-> Row(k)]
           m == Len(audit_events)
<1>1. \A k \in 1 .. n : Row(k) \in AuditRow
  BY DEF AuditRow
<1>2. rows \in Seq(AuditRow) /\ Len(rows) = n /\ \A k \in 1 .. n : rows[k] = Row(k)
  <2> HIDE DEF Row
  <2> QED
    BY <1>1
<1>3. audit_events' = audit_events \o rows
  BY DEF WriteAudit
<1>4. m \in Nat /\ DOMAIN audit_events = 1 .. m
  BY LenProperties
<1>5. /\ audit_events' \in Seq(AuditRow)
      /\ DOMAIN audit_events' = 1 .. m + n
      /\ \A i \in 1 .. m + n :
           audit_events'[i] = IF i <= m THEN audit_events[i] ELSE rows[i - m]
  <2> HIDE DEF rows
  <2>1. /\ audit_events \o rows \in Seq(AuditRow)
        /\ Len(audit_events \o rows) = m + n
        /\ \A i \in 1 .. m + Len(rows) :
             (audit_events \o rows)[i] =
               IF i <= m THEN audit_events[i] ELSE rows[i - m]
    BY <1>2, ConcatProperties
  <2>2. DOMAIN (audit_events \o rows) = 1 .. m + n
    BY <2>1, LenProperties
  <2>3. QED
    BY <1>2, <1>3, <2>1, <2>2
<1>6. ASSUME NEW i \in DOMAIN audit_events
      PROVE  audit_events'[i] = audit_events[i]
  <2>1. i \in 1 .. m + n /\ i <= m
    BY <1>4
  <2>2. QED
    BY <1>5, <2>1
<1>7. ASSUME NEW i \in DOMAIN audit_events' \ DOMAIN audit_events
      PROVE  /\ audit_events'[i].by = by
             /\ audit_events'[i].created_at = began
             /\ audit_events'[i].object = "task" => own /\ i = m + 1
             /\ \A j \in DOMAIN audit_events : j < i
  <2>1. /\ i \in m + 1 .. m + n
        /\ i - m \in 1 .. n
        /\ i - m = 1 => i = m + 1
    BY <1>4, <1>5
  <2>2. audit_events'[i] = Row(i - m)
    <3> HIDE DEF rows, Row
    <3> QED
      BY <1>2, <1>4, <1>5, <2>1
  <2>3. Row(i - m).object = "task" => own /\ i - m = 1
    OBVIOUS
  <2>4. \A j \in DOMAIN audit_events : j < i
    BY <1>4, <2>1
  <2>5. QED
    BY <2>1, <2>2, <2>3, <2>4
<1>8. DOMAIN audit_events \subseteq DOMAIN audit_events'
  BY <1>4, <1>5
<1>9. QED
  BY <1>5, <1>6, <1>7, <1>8

-----------------------------------------------------------------------------
(***************************************************************************)
(* Types.                                                                  *)
(***************************************************************************)

\* A new task, without transfers and readers, is well typed.
LEMMA TypeInit == HistoryInit => HistoryTypeOK
<1> SUFFICES ASSUME HistoryInit
             PROVE  HistoryTypeOK
  OBVIOUS
<1>1. /\ now \in 1 .. MaxTime
      /\ version \in 1 .. MaxVersion
  BY HistoryAssumption DEF HistoryInit
<1>2. /\ device_transfer_events \in Seq(Transfer)
      /\ audit_events \in Seq(AuditRow)
  BY EmptySeq DEF HistoryInit
<1>3. request \in [Clients -> Request \union {Idle}]
  BY DEF HistoryInit
<1>4. /\ rejected \in BOOLEAN
      /\ walk \in Walk \union {Idle}
  BY DEF HistoryInit
<1>5. /\ worker \in 0 .. now
      /\ \A c \in Clients : request[c] = Idle
      /\ walk = Idle
  BY DEF HistoryInit
<1>6. QED
  BY <1>1, <1>2, <1>3, <1>4, <1>5 DEF HistoryTypeOK

\* Every step keeps the state well typed, one case per action.
LEMMA TypeStep ==
  HistoryTypeOK /\ [HistoryNext]_history_vars => HistoryTypeOK'
<1> SUFFICES ASSUME HistoryTypeOK, [HistoryNext]_history_vars
             PROVE  HistoryTypeOK'
  OBVIOUS
<1> USE HistoryAssumption DEF HistoryTypeOK, table_vars
<1>1. ASSUME NEW c \in Clients, NEW from \in Operators \union {NoOperator},
             NEW to \in Operators, NEW claimed \in Claims,
             ReceiveTransfer(c, from, to, claimed)
      PROVE  HistoryTypeOK'
  <2> DEFINE item == [from |-> from, to |-> to, recorded_at |-> RecordedAt(claimed),
                      named |-> claimed = 0 /\ from = Holder]
             r == [pc |-> "received", version |-> version, began |-> 0,
                   transfer |-> item]
  <2>1. RecordedAt(claimed) \in Nat \ {0}
    BY DEF RecordedAt
  <2>2. item \in Transfer
    BY <2>1 DEF Transfer
  <2>3. /\ request' = [request EXCEPT ![c] = r]
        /\ now' = now + 1
        /\ now' \in 1 .. MaxTime
        /\ UNCHANGED <<table_vars, worker, walk>>
    BY <1>1 DEF ReceiveTransfer, ReadClock
  <2> HIDE DEF item
  <2>4. r \in Request /\ r.version = version /\ r.began = 0
    BY <2>2 DEF Request
  <2> HIDE DEF r
  <2>5. request' \in [Clients -> Request \union {Idle}]
    BY <2>3, <2>4
  <2>6. \A d \in Clients :
          request'[d] # Idle => request'[d].version <= version /\ request'[d].began <= now'
    BY <2>3, <2>4, RequestFields
  <2>7. QED
    BY <2>3, <2>5, <2>6
<1>2. ASSUME NEW c \in Clients, BeginTransfer(c)
      PROVE  HistoryTypeOK'
  <2>1. /\ request[c] \in Request
        /\ now \in 0 .. MaxTime
        /\ now' = now + 1
        /\ now' \in 1 .. MaxTime
    BY <1>2 DEF BeginTransfer, ReadClock
  <2> DEFINE b == [request[c] EXCEPT !.pc = "begun", !.began = now]
  <2>2. request' = [request EXCEPT ![c] = b]
    BY <1>2 DEF BeginTransfer
  <2>3. b \in Request /\ b.began = now /\ b.version = request[c].version
    <3> HIDE HistoryAssumption DEF HistoryTypeOK, table_vars
    <3> QED
      BY <2>1, BegunFields
  <2>4. \A d \in Clients :
          request'[d] # Idle => request'[d].version <= version /\ request'[d].began <= now'
    BY <1>2, <2>1, <2>2, <2>3, RequestFields DEF BeginTransfer
  <2>5. request' \in [Clients -> Request \union {Idle}]
    BY <2>2, <2>3
  <2>6. UNCHANGED <<version, rejected, device_transfer_events, audit_events, worker, walk>>
    BY <1>2 DEF BeginTransfer
  <2>7. worker' \in 0 .. now'
    BY <2>1, <2>6
  <2>8. QED
    BY <2>1, <2>4, <2>5, <2>6, <2>7
<1>3. ASSUME NEW c \in Clients, CommitTransfer(c)
      PROVE  HistoryTypeOK'
  <2>1. /\ request[c] \in Request
        /\ request[c].transfer \in Transfer
        /\ request[c].began \in Nat
    BY <1>3, RequestFields DEF CommitTransfer
  <2>2. device_transfer_events' \in Seq(Transfer)
    BY <1>3, <2>1, Appended DEF CommitTransfer
  <2>3. /\ audit_events' \in Seq(AuditRow)
        /\ DOMAIN audit_events \subseteq DOMAIN audit_events'
    BY <1>3, <2>1, Written DEF CommitTransfer
  <2>4. /\ version' \in 1 .. MaxVersion
        /\ version' = version + 1
    BY <1>3 DEF CommitTransfer, MoveDroneTask
  <2>5. rejected' \in BOOLEAN
    BY <1>3 DEF CommitTransfer
  <2>6. /\ request' \in [Clients -> Request \union {Idle}]
        /\ \A d \in Clients :
             request'[d] # Idle => request'[d].version <= version' /\ request'[d].began <= now
    BY <1>3, <2>4, RequestFields DEF CommitTransfer
  <2>7. QED
    BY <1>3, <2>2, <2>3, <2>4, <2>5, <2>6 DEF CommitTransfer
<1>4. ASSUME NEW c \in Clients, FailTransfer(c)
      PROVE  HistoryTypeOK'
  BY <1>4 DEF FailTransfer
<1>5. CASE BeginExpiration
  BY <1>5, RequestFields DEF BeginExpiration, ReadClock
<1>6. ASSUME NEW n \in 1 .. Limit, MarkExpired(n)
      PROVE  HistoryTypeOK'
  <2>1. /\ audit_events' \in Seq(AuditRow)
        /\ DOMAIN audit_events \subseteq DOMAIN audit_events'
    <3>1. \E own \in BOOLEAN : WriteAudit("worker", worker, n, own)
      BY <1>6 DEF MarkExpired
    <3>2. worker \in Nat /\ n \in Nat /\ audit_events \in Seq(AuditRow)
      OBVIOUS
    <3>3. QED
      BY <3>1, <3>2, Written
  <2>2. /\ version' \in 1 .. MaxVersion
        /\ version' \in {version, version + 1}
    <3>1. version' = version \/ (version < MaxVersion /\ version' = version + 1)
      BY <1>6 DEF MarkExpired
    <3>2. version \in 1 .. MaxVersion /\ MaxVersion \in Nat
      OBVIOUS
    <3>3. QED
      BY <3>1, <3>2
  <2>3. rejected' \in BOOLEAN
    BY <1>6 DEF MarkExpired
  <2>4. \A d \in Clients : request[d] # Idle => request[d].version <= version'
    BY <2>2, RequestFields
  <2>5. QED
    BY <1>6, <2>1, <2>2, <2>3, <2>4 DEF MarkExpired
<1>7. CASE EndExpiration
  BY <1>7 DEF EndExpiration
<1>8. ASSUME NEW object \in {"task", "any"}, NEW limit \in PageSizes,
             BeginWalk(object, limit)
      PROVE  HistoryTypeOK'
  <2>1. OpenSince \subseteq Nat
    BY RequestFields DEF OpenSince
  <2>2. walk' \in Walk /\ walk'.seen = {}
    BY <1>8, <2>1 DEF BeginWalk, ReadClock, Walk
  <2>3. QED
    BY <1>8, <2>2, RequestFields DEF BeginWalk, ReadClock
<1>9. CASE ReadPage
  <2>1. PICK pages \in QueryAudit(walk) :
          walk' = [walk EXCEPT
            !.seen = @ \union (pages[2] \ pages[1]),
            !.offset = walk.offset + walk.limit,
            !.pc = IF walk.offset + walk.limit
                        < Cardinality(InWindow(walk.to, walk.object))
                   THEN @ ELSE "done"]
    BY <1>9 DEF ReadPage
  <2>2. /\ walk \in Walk
        /\ DOMAIN audit_events \subseteq Nat
        /\ pages[2] \subseteq DOMAIN audit_events
        /\ walk.offset + walk.limit \in Nat
    <3>1. walk \in Walk
      BY <1>9 DEF ReadPage
    <3>2. audit_events \in Seq(AuditRow)
      OBVIOUS
    <3>3. walk.offset \in Nat /\ walk.limit \in Nat
      BY <3>1 DEF Walk
    <3> HIDE HistoryAssumption DEF HistoryTypeOK, table_vars
    <3>4. DOMAIN audit_events \subseteq Nat
      BY <3>2, LenProperties
    <3>5. pages[2] \in SUBSET InWindow(walk.to, walk.object)
      BY DEF QueryAudit, Newest
    <3>6. QED
      BY <3>1, <3>3, <3>4, <3>5 DEF InWindow
  <2>3. /\ walk' \in Walk
        /\ walk'.seen \subseteq DOMAIN audit_events
    BY <1>9, <2>1, <2>2 DEF ReadPage, Walk
  <2>4. QED
    BY <1>9, <2>3 DEF ReadPage
<1>10. CASE UNCHANGED history_vars
  BY <1>10 DEF history_vars
<1>11. QED
  BY <1>1, <1>2, <1>3, <1>4, <1>5, <1>6, <1>7, <1>8, <1>9, <1>10
  DEF HistoryNext

\* Reachable states are well typed, and nobody holds a reading of the clock or a
\* version of the task that is still to come.
THEOREM HistoryTypes == HistorySpec => []HistoryTypeOK
  BY TypeInit, TypeStep, PTL DEF HistorySpec

-----------------------------------------------------------------------------
(***************************************************************************)
(* The audit trail: created_at is the instant a transaction began, no two  *)
(* transactions began at one instant, and each changes the task once.      *)
(***************************************************************************)

Begun(c) == request[c] # Idle /\ request[c].pc = "begun"

\* Every instant at which something began is over, and is its own.
InstantsDiffer ==
  /\ worker < now
  /\ \A c \in Clients :
       Begun(c) => request[c].began \in 1 .. now - 1 /\ request[c].began # worker
  /\ \A c, d \in Clients :
       Begun(c) /\ Begun(d) /\ c # d => request[c].began # request[d].began
  /\ \A i \in DOMAIN audit_events :
       /\ audit_events[i].created_at \in 1 .. now - 1
       /\ audit_events[i].created_at # worker
       /\ \A c \in Clients :
            Begun(c) => audit_events[i].created_at # request[c].began
  /\ \A i, j \in DOMAIN audit_events :
       /\ i # j
       /\ audit_events[i].object = "task"
       /\ audit_events[j].object = "task"
       => audit_events[i].created_at # audit_events[j].created_at

\* A client whose version is still the row's began after every change of the task.
CurrentBeganLast ==
  \A c \in Clients :
    Begun(c) /\ request[c].version = version =>
      \A i \in DOMAIN audit_events :
        audit_events[i].object = "task" =>
          audit_events[i].created_at < request[c].began

AuditInv ==
  /\ HistoryTypeOK
  /\ InstantsDiffer
  /\ CurrentBeganLast
  /\ AuditOrderFollowsCommits

\* An empty trail is in order.
LEMMA AuditInit == HistoryInit => AuditInv
<1> SUFFICES ASSUME HistoryInit
             PROVE  AuditInv
  OBVIOUS
<1>1. DOMAIN audit_events = {}
  BY EmptySeq DEF HistoryInit
<1>2. \A c \in Clients : ~ Begun(c)
  BY DEF HistoryInit, Begun
<1>3. QED
  BY <1>1, <1>2, TypeInit
  DEF HistoryInit, AuditInv, InstantsDiffer, CurrentBeganLast, AuditOrderFollowsCommits

\* What a step does to the open transactions and the trail, if it writes nothing.
LEMMA QuietAuditStep ==
  ASSUME AuditInv, HistoryTypeOK', now' >= now,
         version' = version, audit_events' = audit_events,
         \/ worker' \in {worker, 0}
         \/ /\ worker' = now
            /\ now' = now + 1
            /\ request' = request,
         \A c \in Clients : Begun(c)' =>
           \/ Begun(c) /\ request'[c] = request[c]
           \/ /\ request'[c].began = now
              /\ now' = now + 1
              /\ worker' = worker
              /\ \A d \in Clients \ {c} : request'[d] = request[d]
  PROVE  AuditInv'
<1> USE DEF AuditInv
<1>1. /\ now \in Nat \ {0}
      /\ now' \in Nat \ {0}
      /\ worker \in Nat
      /\ worker' \in Nat
      /\ \A i \in DOMAIN audit_events : audit_events[i].created_at \in Nat
      /\ \A c \in Clients : Begun(c) => request[c].began \in Nat
  BY DEF HistoryTypeOK, InstantsDiffer
<1>2. InstantsDiffer'
  <2>1. worker' < now'
    BY <1>1 DEF InstantsDiffer
  <2>2. ASSUME NEW c \in Clients, Begun(c)'
        PROVE  request'[c].began \in 1 .. now' - 1 /\ request'[c].began # worker'
    BY <1>1, <2>2 DEF InstantsDiffer
  <2>3. ASSUME NEW c \in Clients, NEW d \in Clients, Begun(c)', Begun(d)', c # d
        PROVE  request'[c].began # request'[d].began
    BY <1>1, <2>3 DEF InstantsDiffer, Begun
  <2>4. ASSUME NEW i \in DOMAIN audit_events
        PROVE  /\ audit_events[i].created_at \in 1 .. now' - 1
               /\ audit_events[i].created_at # worker'
               /\ \A c \in Clients :
                    Begun(c)' => audit_events[i].created_at # request'[c].began
    BY <1>1, <2>4 DEF InstantsDiffer
  <2>5. QED
    BY <2>1, <2>2, <2>3, <2>4 DEF InstantsDiffer
<1>3. CurrentBeganLast'
  BY <1>1 DEF InstantsDiffer, CurrentBeganLast
<1>4. AuditOrderFollowsCommits'
  BY DEF AuditOrderFollowsCommits
<1>5. QED
  BY <1>2, <1>3, <1>4

\* What a step does that writes audit rows: at the instant began, which no other
\* row and no open transaction has.
LEMMA WritingAuditStep ==
  ASSUME AuditInv, HistoryTypeOK', now' = now,
         NEW by \in {"client", "worker"}, NEW began \in 1 .. now - 1, NEW n \in Nat,
         NEW own, WriteAudit(by, began, n, own),
         version' = version \/ version' = version + 1,
         own => version' = version + 1,
         \A c \in Clients : Begun(c)' => Begun(c) /\ request'[c] = request[c],
         worker' \in {worker, 0},
         \A i \in DOMAIN audit_events : audit_events[i].created_at # began,
         \A c \in Clients : Begun(c)' => request[c].began # began,
         worker' # began,
         by = "client" =>
           \A i \in DOMAIN audit_events :
             audit_events[i].object = "task" => audit_events[i].created_at < began
  PROVE  AuditInv'
<1> USE DEF AuditInv
<1> DEFINE Old == DOMAIN audit_events
           New == DOMAIN audit_events' \ Old
<1>1. /\ audit_events \in Seq(AuditRow)
      /\ began \in Nat
      /\ Len(audit_events) \in Nat
  BY LenProperties DEF HistoryTypeOK
<1>2. /\ Old \subseteq DOMAIN audit_events'
      /\ \A i \in Old : audit_events'[i] = audit_events[i]
      /\ \A i \in New :
           /\ audit_events'[i].by = by
           /\ audit_events'[i].created_at = began
           /\ \A j \in Old : j < i
  BY <1>1, Written
<1>3. /\ \A i, j \in New :
           audit_events'[i].object = "task" /\ audit_events'[j].object = "task" => i = j
      /\ \A i \in New : audit_events'[i].object = "task" => version' = version + 1
  <2>1. \A i \in New : audit_events'[i].object = "task" =>
          own /\ i = Len(audit_events) + 1
    BY <1>1, Written
  <2>2. QED
    BY <2>1
<1>4. /\ now \in Nat \ {0}
      /\ \A i \in Old : audit_events[i].created_at \in Nat
      /\ Old \subseteq Nat /\ DOMAIN audit_events' \subseteq Nat
      /\ \A c \in Clients : Begun(c) => request[c].version <= version
      /\ version \in Nat
      /\ \A c \in Clients : Begun(c) => request[c].version \in Nat
  <2>1. Old \subseteq Nat /\ DOMAIN audit_events' \subseteq Nat
    BY LenProperties DEF HistoryTypeOK
  <2>2. \A c \in Clients : Begun(c) => request[c].version \in Nat
    BY RequestFields DEF HistoryTypeOK, Begun
  <2>3. /\ \A i \in Old : audit_events[i].created_at \in Nat
        /\ \A c \in Clients : Begun(c) => request[c].version <= version
    BY DEF HistoryTypeOK, InstantsDiffer, Begun
  <2>4. now \in Nat \ {0} /\ version \in Nat
    BY DEF HistoryTypeOK
  <2>5. QED
    BY <2>1, <2>2, <2>3, <2>4
<1>5. \A i \in DOMAIN audit_events' : i \in Old \/ i \in New
  OBVIOUS
<1> HIDE DEF Old, New
<1>6. InstantsDiffer'
  <2>1. /\ worker' < now'
        /\ \A c \in Clients :
             Begun(c)' => request'[c].began \in 1 .. now' - 1 /\ request'[c].began # worker'
        /\ \A c, d \in Clients :
             Begun(c)' /\ Begun(d)' /\ c # d => request'[c].began # request'[d].began
    BY <1>4 DEF InstantsDiffer
  <2>2. \A i \in DOMAIN audit_events' :
          /\ audit_events'[i].created_at \in 1 .. now' - 1
          /\ audit_events'[i].created_at # worker'
          /\ \A c \in Clients :
               Begun(c)' => audit_events'[i].created_at # request'[c].began
    BY <1>2, <1>4, <1>5 DEF InstantsDiffer, Old
  <2>3. \A i, j \in DOMAIN audit_events' :
          /\ i # j
          /\ audit_events'[i].object = "task"
          /\ audit_events'[j].object = "task"
          => audit_events'[i].created_at # audit_events'[j].created_at
    BY <1>2, <1>3, <1>5 DEF InstantsDiffer, Old
  <2>4. QED
    BY <2>1, <2>2, <2>3 DEF InstantsDiffer
<1>7. CurrentBeganLast'
  <2> SUFFICES ASSUME NEW c \in Clients, Begun(c)', request'[c].version = version',
                      NEW i \in DOMAIN audit_events', audit_events'[i].object = "task"
               PROVE  audit_events'[i].created_at < request'[c].began
    BY DEF CurrentBeganLast
  <2>1. request[c].version = version /\ version' = version
    BY <1>4
  <2>2. i \in Old
    BY <1>3, <1>4, <1>5, <2>1
  <2>3. QED
    BY <1>2, <2>1, <2>2 DEF CurrentBeganLast, Old
<1>8. AuditOrderFollowsCommits'
  <2> SUFFICES ASSUME NEW i \in DOMAIN audit_events', NEW j \in DOMAIN audit_events', i < j,
                      audit_events'[i].object = "task", audit_events'[j].object = "task",
                      audit_events'[j].created_at < audit_events'[i].created_at
               PROVE  audit_events'[j].by = "worker"
    BY DEF AuditOrderFollowsCommits
  <2>1. CASE i \in Old /\ j \in Old
    BY <1>2, <2>1 DEF AuditOrderFollowsCommits, Old
  <2>2. CASE i \in Old /\ j \in New
    <3>1. began < audit_events[i].created_at /\ audit_events'[j].by = by
      BY <1>2, <2>2
    <3>2. by # "client"
      BY <1>2, <1>4, <2>2, <3>1 DEF Old
    <3>3. QED
      BY <3>1, <3>2
  <2>3. CASE i \in New
    <3>1. j \in New
      BY <1>2, <1>4, <1>5, <2>3
    <3>2. QED
      BY <1>3, <1>4, <2>3, <3>1
  <2>4. QED
    BY <1>5, <2>1, <2>2, <2>3
<1>9. QED
  BY <1>6, <1>7, <1>8

\* The invariant of the trail is inductive: what a step writes has the instant
\* at which its transaction began.
LEMMA AuditStep ==
  AuditInv /\ [HistoryNext]_history_vars => AuditInv'
<1> SUFFICES ASSUME AuditInv, [HistoryNext]_history_vars
             PROVE  AuditInv'
  OBVIOUS
<1>1. HistoryTypeOK /\ HistoryTypeOK'
  BY TypeStep DEF AuditInv
<1>2. /\ now \in Nat
      /\ request \in [Clients -> Request \union {Idle}]
  BY <1>1 DEF HistoryTypeOK
<1> USE DEF table_vars
<1>3. ASSUME NEW c \in Clients, NEW from \in Operators \union {NoOperator},
             NEW to \in Operators, NEW claimed \in Claims,
             ReceiveTransfer(c, from, to, claimed)
      PROVE  AuditInv'
  <2>1. \A d \in Clients : Begun(d)' => Begun(d) /\ request'[d] = request[d]
    BY <1>2, <1>3 DEF ReceiveTransfer, Begun
  <2>2. QED
    BY <1>1, <1>2, <1>3, <2>1, QuietAuditStep DEF ReceiveTransfer, ReadClock
<1>4. ASSUME NEW c \in Clients, BeginTransfer(c)
      PROVE  AuditInv'
  <2>1. /\ now' = now + 1
        /\ request[c] \in Request
        /\ now \in 0 .. MaxTime
    BY <1>1, <1>2, <1>4 DEF BeginTransfer, ReadClock, HistoryTypeOK
  <2>2. request' = [request EXCEPT ![c] =
                     [request[c] EXCEPT !.pc = "begun", !.began = now]]
    BY <1>4 DEF BeginTransfer
  <2>3. request'[c].began = now /\ \A d \in Clients \ {c} : request'[d] = request[d]
    BY <1>2, <2>1, <2>2, BegunFields
  <2>4. \A d \in Clients : Begun(d)' =>
          \/ Begun(d) /\ request'[d] = request[d]
          \/ d = c
    BY <2>3 DEF Begun
  <2>5. QED
    BY <1>1, <1>2, <1>4, <2>1, <2>3, <2>4, QuietAuditStep DEF BeginTransfer
<1>5. ASSUME NEW c \in Clients, CommitTransfer(c)
      PROVE  AuditInv'
  <2>1. /\ Begun(c)
        /\ request[c].version = version
        /\ version' = version + 1
        /\ WriteAudit("client", request[c].began, 1, TRUE)
        /\ UNCHANGED <<now, worker>>
    BY <1>5 DEF CommitTransfer, MoveDroneTask, Begun
  <2>2. /\ request'[c] = Idle
        /\ \A d \in Clients \ {c} : request'[d] = request[d]
    BY <1>2, <1>5 DEF CommitTransfer
  <2>3. \A d \in Clients : Begun(d)' => d # c /\ Begun(d) /\ request'[d] = request[d]
    BY <2>2 DEF Begun
  <2>4. /\ request[c].began \in 1 .. now - 1
        /\ worker # request[c].began
        /\ \A i \in DOMAIN audit_events :
             /\ audit_events[i].created_at # request[c].began
             /\ audit_events[i].object = "task" =>
                  audit_events[i].created_at < request[c].began
        /\ \A d \in Clients : Begun(d)' => request[d].began # request[c].began
    BY <2>1, <2>3 DEF AuditInv, InstantsDiffer, CurrentBeganLast
  <2>5. QED
    BY <1>1, <2>1, <2>3, <2>4, WritingAuditStep
<1>6. ASSUME NEW c \in Clients, FailTransfer(c)
      PROVE  AuditInv'
  <2>1. \A d \in Clients : Begun(d)' => Begun(d) /\ request'[d] = request[d]
    BY <1>2, <1>6 DEF FailTransfer, Begun
  <2>2. QED
    BY <1>1, <1>2, <1>6, <2>1, QuietAuditStep DEF FailTransfer
<1>7. CASE BeginExpiration
  <2>1. \A d \in Clients : Begun(d)' => Begun(d) /\ request'[d] = request[d]
    BY <1>7 DEF BeginExpiration, Begun
  <2>2. QED
    BY <1>1, <1>2, <1>7, <2>1, QuietAuditStep DEF BeginExpiration, ReadClock
<1>8. ASSUME NEW n \in 1 .. Limit, MarkExpired(n)
      PROVE  AuditInv'
  <2>1. /\ worker # 0
        /\ worker \in Nat
        /\ worker' = 0
        /\ n \in Nat
        /\ UNCHANGED <<now, request>>
    BY <1>1, <1>8 DEF MarkExpired, HistoryTypeOK
  <2>2. \/ version' = version + 1 /\ WriteAudit("worker", worker, n, TRUE)
        \/ version' = version /\ WriteAudit("worker", worker, n, FALSE)
    BY <1>8 DEF MarkExpired
  <2>3. \A d \in Clients : Begun(d)' => Begun(d) /\ request'[d] = request[d]
    BY <2>1 DEF Begun
  <2>4. /\ worker \in 1 .. now - 1
        /\ \A i \in DOMAIN audit_events : audit_events[i].created_at # worker
        /\ \A d \in Clients : Begun(d)' => request[d].began # worker
    BY <1>2, <2>1, <2>3 DEF AuditInv, InstantsDiffer
  <2>5. QED
    BY <1>1, <2>1, <2>2, <2>3, <2>4, WritingAuditStep
<1>9. CASE EndExpiration
  <2>1. \A d \in Clients : Begun(d)' => Begun(d) /\ request'[d] = request[d]
    BY <1>9 DEF EndExpiration, Begun
  <2>2. QED
    BY <1>1, <1>2, <1>9, <2>1, QuietAuditStep DEF EndExpiration
<1>10. ASSUME NEW object \in {"task", "any"}, NEW limit \in PageSizes,
              BeginWalk(object, limit)
       PROVE  AuditInv'
  <2>1. \A d \in Clients : Begun(d)' => Begun(d) /\ request'[d] = request[d]
    BY <1>10 DEF BeginWalk, Begun
  <2>2. QED
    BY <1>1, <1>2, <1>10, <2>1, QuietAuditStep DEF BeginWalk, ReadClock
<1>11. CASE ReadPage \/ UNCHANGED history_vars
  <2>1. UNCHANGED <<now, version, audit_events, request, worker>>
    BY <1>11 DEF ReadPage, history_vars
  <2>2. \A d \in Clients : Begun(d)' => Begun(d) /\ request'[d] = request[d]
    BY <2>1 DEF Begun
  <2>3. QED
    BY <1>1, <1>2, <2>1, <2>2, QuietAuditStep
<1>12. QED
  BY <1>3, <1>4, <1>5, <1>6, <1>7, <1>8, <1>9, <1>10, <1>11 DEF HistoryNext

\* AuditInv holds of every reachable state: a transfer that can still commit
\* began after all the changes that its client has seen.
THEOREM AuditInvariant == HistorySpec => []AuditInv
  BY AuditInit, AuditStep, PTL DEF HistorySpec

\* The audit rows of a task are ordered as its changes were, but for those of the
\* expiration worker, whose transactions may have begun before changes they follow.
THEOREM AuditOrdered == HistorySpec => []AuditOrderFollowsCommits
  BY AuditInvariant, PTL DEF AuditInv

-----------------------------------------------------------------------------
(***************************************************************************)
(* Reading a window page by page.                                          *)
(***************************************************************************)

\* The rows of the window that were there when the reading began, but for those
\* that share their time.
Settled(to, object, open) ==
  {i \in InWindow(to, object) :
     audit_events[i].created_at \notin open /\ ~ Tied(i, to, object)}

\* The rows of the window that are listed before row i.
Newer(i, to, object) ==
  {j \in InWindow(to, object) :
     audit_events[i].created_at < audit_events[j].created_at}

\* Whoever can still write into the window was open when the reading began.
LateWritersWereOpen ==
  walk # Idle =>
    /\ walk.to < now
    /\ \A c \in Clients :
         Begun(c) /\ request[c].began < walk.to => request[c].began \in walk.open
    /\ worker # 0 /\ worker < walk.to => worker \in walk.open

\* A settled row that the offset has passed was seen.
PassedWasSeen ==
  walk # Idle =>
    \A i \in Settled(walk.to, walk.object, walk.open) :
      Cardinality(Newer(i, walk.to, walk.object)) < walk.offset \/ walk.pc = "done"
        => i \in walk.seen

WalkInv ==
  /\ AuditInv
  /\ LateWritersWereOpen
  /\ PassedWasSeen

\* The rows of a window are finitely many, and no row is newer than itself.
LEMMA NewerFinite ==
  ASSUME HistoryTypeOK, NEW to \in Nat, NEW object, NEW i \in InWindow(to, object),
         \A j \in DOMAIN audit_events : audit_events[j].created_at \in Nat
  PROVE  /\ IsFiniteSet(InWindow(to, object))
         /\ Cardinality(InWindow(to, object)) \in Nat
         /\ Cardinality(Newer(i, to, object)) \in Nat
         /\ Cardinality(Newer(i, to, object)) < Cardinality(InWindow(to, object))
<1> DEFINE W == InWindow(to, object)
           N == Newer(i, to, object)
<1>1. IsFiniteSet(DOMAIN audit_events)
  <2>1. audit_events \in Seq(AuditRow)
    BY DEF HistoryTypeOK
  <2>2. Len(audit_events) \in Nat /\ DOMAIN audit_events = 1 .. Len(audit_events)
    BY <2>1, LenProperties
  <2>3. QED
    BY <2>2, FS_Interval
<1>2. IsFiniteSet(W) /\ Cardinality(W) \in Nat
  BY <1>1, FS_Subset, FS_CardinalityType DEF InWindow
<1>3. N \subseteq W /\ i \notin N /\ i \in W
  BY DEF Newer, InWindow
<1> HIDE DEF W, N
<1>4. /\ Cardinality(N) \in Nat
      /\ Cardinality(N) <= Cardinality(W)
      /\ Cardinality(N) # Cardinality(W)
  BY <1>2, <1>3, FS_Subset, FS_CardinalityType
<1>5. QED
  BY <1>2, <1>4 DEF W, N

\* Rows that are added to a table move others away from the first page, and
\* themselves come from a transaction that was open.
LEMMA LateRowStep ==
  ASSUME WalkInv, AuditInv', walk' = walk, now' = now,
         NEW by \in {"client", "worker"}, NEW began \in 1 .. now - 1, NEW n \in Nat,
         NEW own, WriteAudit(by, began, n, own),
         walk # Idle /\ began < walk.to => began \in walk.open
  PROVE  PassedWasSeen'
<1> SUFFICES ASSUME walk # Idle,
                    NEW i \in Settled(walk.to, walk.object, walk.open)',
                    \/ Cardinality(Newer(i, walk.to, walk.object)') < walk.offset
                    \/ walk.pc = "done"
             PROVE  i \in walk.seen
  BY DEF PassedWasSeen
<1>1. /\ audit_events \in Seq(AuditRow)
      /\ walk \in Walk
      /\ walk.to \in Nat /\ walk.offset \in Nat
      /\ began \in Nat
  BY DEF WalkInv, AuditInv, HistoryTypeOK, Walk
<1>2. /\ DOMAIN audit_events \subseteq DOMAIN audit_events'
      /\ \A j \in DOMAIN audit_events : audit_events'[j] = audit_events[j]
      /\ \A j \in DOMAIN audit_events' \ DOMAIN audit_events :
           audit_events'[j].created_at = began
  BY <1>1, Written
<1> DEFINE W == InWindow(walk.to, walk.object)
           N == Newer(i, walk.to, walk.object)
<1>3. i \in DOMAIN audit_events
  BY <1>2 DEF Settled, InWindow
<1>4. W \subseteq W'
  BY <1>2 DEF InWindow
<1>5. i \in W /\ i \in W'
  BY <1>2, <1>3 DEF Settled, InWindow
<1>6. i \in Settled(walk.to, walk.object, walk.open)
  <2>1. audit_events'[i] = audit_events[i] /\ \A j \in W : audit_events'[j] = audit_events[j]
    BY <1>2, <1>3 DEF InWindow
  <2>2. Tied(i, walk.to, walk.object) => Tied(i, walk.to, walk.object)'
    BY <1>4, <2>1 DEF Tied
  <2>3. QED
    BY <1>5, <2>1, <2>2 DEF Settled
<1>7. N \subseteq N'
  BY <1>2, <1>3, <1>4 DEF Newer, InWindow
<1>8. /\ IsFiniteSet(W')
      /\ N' \subseteq W'
      /\ Cardinality(N) \in Nat
  <2>1. \A j \in DOMAIN audit_events : audit_events[j].created_at \in Nat
    BY DEF WalkInv, AuditInv, InstantsDiffer
  <2>2. IsFiniteSet(W')
    <3>1. IsFiniteSet(DOMAIN audit_events')
      BY FS_Interval, LenProperties DEF AuditInv, HistoryTypeOK
    <3>2. QED
      BY <3>1, FS_Subset DEF InWindow
  <2>3. N' \subseteq W'
    BY DEF Newer
  <2>4. QED
    BY <1>1, <1>5, <2>1, <2>2, <2>3, NewerFinite DEF WalkInv, AuditInv
<1>9. Cardinality(N') \in Nat /\ Cardinality(N) <= Cardinality(N')
  <2> HIDE DEF N, W
  <2>1. IsFiniteSet(N')
    BY <1>8, FS_Subset
  <2>2. QED
    BY <1>7, <2>1, FS_Subset, FS_CardinalityType
<1>10. QED
  BY <1>1, <1>6, <1>8, <1>9 DEF WalkInv, PassedWasSeen

\* Whichever rows come first, one that has its time alone is among the first n
\* exactly if fewer than n are newer.
LEMMA FirstRows ==
  ASSUME NEW to, NEW object, NEW n \in Nat, NEW A \in Newest(n, to, object),
         NEW i \in InWindow(to, object), ~ Tied(i, to, object),
         IsFiniteSet(InWindow(to, object)),
         \A j \in InWindow(to, object) : audit_events[j].created_at \in Nat
  PROVE  i \in A <=> Cardinality(Newer(i, to, object)) < n
<1> DEFINE W == InWindow(to, object)
           N == Newer(i, to, object)
<1>1. /\ A \subseteq W
      /\ A # W => Cardinality(A) = n
      /\ Cardinality(A) <= n
      /\ \A k \in A, j \in W \ A :
           audit_events[j].created_at <= audit_events[k].created_at
  BY DEF Newest
<1>2. N \subseteq W /\ i \notin N
  BY DEF Newer
<1>3. /\ IsFiniteSet(A) /\ Cardinality(A) \in Nat
      /\ IsFiniteSet(N) /\ Cardinality(N) \in Nat
  BY <1>1, <1>2, FS_Subset, FS_CardinalityType
<1>4. CASE i \in A
  <2>1. N \subseteq A
    BY <1>1, <1>2, <1>4 DEF Newer
  <2>2. Cardinality(N) <= Cardinality(A) /\ Cardinality(N) # Cardinality(A)
    <3> HIDE DEF N
    <3>1. QED
      BY <1>2, <1>3, <1>4, <2>1, FS_Subset
  <2>3. QED
    BY <1>1, <1>3, <1>4, <2>2
<1>5. CASE i \notin A
  <2>1. \A k \in A : audit_events[i].created_at # audit_events[k].created_at
    BY <1>1, <1>5 DEF Tied
  <2>2. A \subseteq N
    BY <1>1, <1>5, <2>1 DEF Newer
  <2>3. Cardinality(A) = n
    BY <1>1, <1>5
  <2>4. Cardinality(A) <= Cardinality(N)
    <3> HIDE DEF N
    <3>1. QED
      BY <1>3, <2>2, FS_Subset
  <2>5. QED
    BY <1>3, <1>5, <2>3, <2>4
<1>6. QED
  BY <1>4, <1>5

\* A page shows the rows between two offsets.
LEMMA PageStep ==
  ASSUME WalkInv, ReadPage
  PROVE  PassedWasSeen'
<1> DEFINE next == walk.offset + walk.limit
           to == walk.to
           object == walk.object
<1>1. PICK pages \in QueryAudit(walk) :
        walk' = [walk EXCEPT
          !.seen = @ \union (pages[2] \ pages[1]),
          !.offset = next,
          !.pc = IF next < Cardinality(InWindow(to, object)) THEN @ ELSE "done"]
  BY DEF ReadPage
<1>2. /\ audit_events' = audit_events
      /\ walk # Idle /\ walk.pc = "page"
      /\ walk \in Walk
      /\ walk.to \in Nat /\ walk.offset \in Nat /\ walk.limit \in Nat \ {0}
      /\ next \in Nat
  BY HistoryAssumption DEF WalkInv, AuditInv, HistoryTypeOK, ReadPage, table_vars, Walk
<1>3. /\ walk'.to = walk.to /\ walk'.open = walk.open /\ walk'.object = walk.object
      /\ walk'.offset = next
      /\ walk'.seen = walk.seen \union (pages[2] \ pages[1])
      /\ walk'.pc = IF next < Cardinality(InWindow(to, object)) THEN "page" ELSE "done"
  BY <1>1, <1>2 DEF Walk
<1> SUFFICES ASSUME NEW i \in Settled(to, object, walk.open)',
                    \/ Cardinality(Newer(i, to, object)') < next
                    \/ walk'.pc = "done"
             PROVE  i \in walk'.seen
  BY <1>3 DEF PassedWasSeen
<1>4. /\ i \in Settled(to, object, walk.open)
      /\ i \in InWindow(to, object)
      /\ ~ Tied(i, to, object)
  BY <1>2, <1>3 DEF Settled, InWindow, Tied
<1>5. /\ IsFiniteSet(InWindow(to, object))
      /\ Cardinality(Newer(i, to, object)) \in Nat
      /\ Cardinality(InWindow(to, object)) \in Nat
      /\ Cardinality(Newer(i, to, object)) < Cardinality(InWindow(to, object))
  BY <1>2, <1>4, NewerFinite DEF WalkInv, AuditInv, InstantsDiffer
<1>6. Cardinality(Newer(i, to, object)) < next
  <2>1. Newer(i, to, object)' = Newer(i, to, object)
    BY <1>2, <1>3 DEF Newer, InWindow
  <2>2. QED
    BY <1>2, <1>3, <1>5, <2>1
<1>7. /\ pages[1] \in Newest(walk.offset, to, object)
      /\ pages[2] \in Newest(next, to, object)
  BY DEF QueryAudit
<1>8. \A j \in InWindow(to, object) : audit_events[j].created_at \in Nat
  BY DEF WalkInv, AuditInv, InstantsDiffer, InWindow
<1>9. i \in pages[2]
  BY <1>2, <1>4, <1>5, <1>6, <1>7, <1>8, FirstRows
<1>10. i \in pages[1] => Cardinality(Newer(i, to, object)) < walk.offset
  BY <1>2, <1>4, <1>5, <1>7, <1>8, FirstRows
<1>11. CASE Cardinality(Newer(i, to, object)) < walk.offset
  BY <1>2, <1>3, <1>4, <1>11 DEF WalkInv, PassedWasSeen
<1>12. CASE i \notin pages[1]
  BY <1>3, <1>9, <1>12
<1>13. QED
  BY <1>10, <1>11, <1>12

\* A step that leaves the trail and the reader alone, and does not begin at an
\* instant in the window.
LEMMA QuietWalkStep ==
  ASSUME WalkInv, now' \in Nat, now' >= now, walk' = walk, audit_events' = audit_events,
         worker' \in {worker, 0, now},
         \A c \in Clients : Begun(c)' =>
           (Begun(c) /\ request'[c] = request[c]) \/ request'[c].began = now
  PROVE  LateWritersWereOpen' /\ PassedWasSeen'
<1>1. now \in Nat /\ worker \in Nat /\ (walk # Idle => walk.to \in Nat)
  <2>1. now \in Nat /\ worker \in Nat /\ walk \in Walk \union {Idle}
    BY DEF WalkInv, AuditInv, HistoryTypeOK
  <2>2. QED
    BY <2>1 DEF Walk
<1>2. LateWritersWereOpen'
  BY <1>1 DEF WalkInv, LateWritersWereOpen
<1>3. PassedWasSeen'
  BY DEF WalkInv, PassedWasSeen, Settled, Tied, Newer, InWindow
<1>4. QED
  BY <1>2, <1>3

\* The window a walk is given ends now, and notes who can still write into it.
LEMMA BeginWalkStep ==
  ASSUME WalkInv, NEW object \in {"task", "any"}, NEW limit \in PageSizes,
         BeginWalk(object, limit)
  PROVE  LateWritersWereOpen' /\ PassedWasSeen'
<1>1. /\ walk' = [pc |-> "page", to |-> now, object |-> object, limit |-> limit,
                  offset |-> 0, seen |-> {}, open |-> OpenSince]
      /\ now' = now + 1
      /\ UNCHANGED <<request, worker, audit_events>>
  BY DEF BeginWalk, ReadClock, table_vars
<1>2. /\ now \in Nat
      /\ HistoryTypeOK
      /\ \A i \in DOMAIN audit_events : audit_events[i].created_at \in Nat
  BY DEF WalkInv, AuditInv, InstantsDiffer, HistoryTypeOK
<1>3. LateWritersWereOpen'
  <2>1. worker \in OpenSince /\ \A c \in Clients : Begun(c) => request[c].began \in OpenSince
    BY DEF OpenSince, Begun
  <2>2. QED
    BY <1>1, <1>2, <2>1 DEF LateWritersWereOpen, Begun
<1>4. PassedWasSeen'
  <2>1. walk'.offset = 0 /\ walk'.pc = "page" /\ walk'.to = now /\ walk'.object = object
    BY <1>1
  <2>2. ASSUME NEW i \in Settled(walk.to, walk.object, walk.open)'
        PROVE  Cardinality(Newer(i, walk.to, walk.object)') \in Nat
    <3>1. i \in InWindow(now, object)
      BY <1>1, <2>1, <2>2 DEF Settled, InWindow
    <3>2. Newer(i, walk.to, walk.object)' = Newer(i, now, object)
      BY <1>1, <2>1 DEF Newer, InWindow
    <3>3. QED
      BY <1>2, <3>1, <3>2, NewerFinite
  <2>3. QED
    BY <2>1, <2>2 DEF PassedWasSeen
<1>5. QED
  BY <1>3, <1>4

\* The invariant of the reader is inductive.
LEMMA WalkStep ==
  WalkInv /\ [HistoryNext]_history_vars => WalkInv'
<1> SUFFICES ASSUME WalkInv, [HistoryNext]_history_vars
             PROVE  LateWritersWereOpen' /\ PassedWasSeen'
  BY AuditStep DEF WalkInv
<1>1. AuditInv /\ AuditInv'
  BY AuditStep DEF WalkInv
<1>2. /\ now \in Nat
      /\ now' \in Nat
      /\ worker \in Nat
      /\ request \in [Clients -> Request \union {Idle}]
      /\ walk # Idle => walk.to \in Nat
  BY <1>1 DEF AuditInv, HistoryTypeOK, Walk
<1> USE DEF table_vars
<1>3. ASSUME NEW c \in Clients, NEW from \in Operators \union {NoOperator},
             NEW to \in Operators, NEW claimed \in Claims,
             ReceiveTransfer(c, from, to, claimed)
      PROVE  LateWritersWereOpen' /\ PassedWasSeen'
  <2>1. \A d \in Clients : Begun(d)' => Begun(d) /\ request'[d] = request[d]
    BY <1>2, <1>3 DEF ReceiveTransfer, Begun
  <2>2. QED
    BY <1>2, <1>3, <2>1, QuietWalkStep DEF ReceiveTransfer, ReadClock
<1>4. ASSUME NEW c \in Clients, BeginTransfer(c)
      PROVE  LateWritersWereOpen' /\ PassedWasSeen'
  <2>1. /\ request[c] \in Request
        /\ now \in 0 .. MaxTime
    BY <1>1, <1>2, <1>4 DEF BeginTransfer, AuditInv, HistoryTypeOK
  <2>2. request' = [request EXCEPT ![c] =
                     [request[c] EXCEPT !.pc = "begun", !.began = now]]
    BY <1>4 DEF BeginTransfer
  <2>3. request'[c].began = now /\ \A d \in Clients \ {c} : request'[d] = request[d]
    BY <1>2, <2>1, <2>2, BegunFields
  <2>4. \A d \in Clients : Begun(d)' =>
          (Begun(d) /\ request'[d] = request[d]) \/ request'[d].began = now
    BY <2>3 DEF Begun
  <2>5. QED
    BY <1>2, <1>4, <2>4, QuietWalkStep DEF BeginTransfer, ReadClock
<1>5. ASSUME NEW c \in Clients, CommitTransfer(c)
      PROVE  LateWritersWereOpen' /\ PassedWasSeen'
  <2>1. /\ Begun(c)
        /\ WriteAudit("client", request[c].began, 1, TRUE)
        /\ UNCHANGED <<now, worker, walk>>
        /\ request[c].began \in 1 .. now - 1
    BY <1>5 DEF CommitTransfer, Begun, WalkInv, AuditInv, InstantsDiffer
  <2>2. /\ request'[c] = Idle
        /\ \A d \in Clients \ {c} : request'[d] = request[d]
    BY <1>2, <1>5 DEF CommitTransfer
  <2>3. \A d \in Clients : Begun(d)' => Begun(d) /\ request'[d] = request[d]
    BY <2>2 DEF Begun
  <2>4. walk # Idle /\ request[c].began < walk.to => request[c].began \in walk.open
    BY <2>1 DEF WalkInv, LateWritersWereOpen
  <2>5. LateWritersWereOpen'
    BY <2>1, <2>3 DEF WalkInv, LateWritersWereOpen
  <2>6. QED
    BY <1>1, <2>1, <2>4, <2>5, LateRowStep
<1>6. ASSUME NEW c \in Clients, FailTransfer(c)
      PROVE  LateWritersWereOpen' /\ PassedWasSeen'
  <2>1. \A d \in Clients : Begun(d)' => Begun(d) /\ request'[d] = request[d]
    BY <1>2, <1>6 DEF FailTransfer, Begun
  <2>2. QED
    BY <1>2, <1>6, <2>1, QuietWalkStep DEF FailTransfer
<1>7. CASE BeginExpiration
  <2>1. \A d \in Clients : Begun(d)' => Begun(d) /\ request'[d] = request[d]
    BY <1>7 DEF BeginExpiration, Begun
  <2>2. QED
    BY <1>2, <1>7, <2>1, QuietWalkStep DEF BeginExpiration, ReadClock
<1>8. ASSUME NEW n \in 1 .. Limit, MarkExpired(n)
      PROVE  LateWritersWereOpen' /\ PassedWasSeen'
  <2>1. /\ worker # 0 /\ worker' = 0
        /\ \E own \in BOOLEAN : WriteAudit("worker", worker, n, own)
        /\ UNCHANGED <<now, request, walk>>
    BY <1>8 DEF MarkExpired
  <2>2. worker \in 1 .. now - 1 /\ n \in Nat
    BY <1>2, <2>1 DEF WalkInv, AuditInv, InstantsDiffer
  <2>3. walk # Idle /\ worker < walk.to => worker \in walk.open
    BY <2>1 DEF WalkInv, LateWritersWereOpen
  <2>4. LateWritersWereOpen'
    BY <2>1 DEF WalkInv, LateWritersWereOpen, Begun
  <2>5. QED
    BY <1>1, <2>1, <2>2, <2>3, <2>4, LateRowStep
<1>9. CASE EndExpiration
  <2>1. \A d \in Clients : Begun(d)' => Begun(d) /\ request'[d] = request[d]
    BY <1>9 DEF EndExpiration, Begun
  <2>2. QED
    BY <1>2, <1>9, <2>1, QuietWalkStep DEF EndExpiration
<1>10. ASSUME NEW object \in {"task", "any"}, NEW limit \in PageSizes,
              BeginWalk(object, limit)
       PROVE  LateWritersWereOpen' /\ PassedWasSeen'
  BY <1>10, BeginWalkStep
<1>11. CASE ReadPage
  <2>1. LateWritersWereOpen'
    <3>1. /\ walk # Idle
          /\ walk'.to = walk.to
          /\ walk'.open = walk.open
          /\ UNCHANGED <<now, request, worker>>
      BY <1>1, <1>11 DEF ReadPage, AuditInv, HistoryTypeOK, Walk
    <3>2. QED
      BY <3>1 DEF WalkInv, LateWritersWereOpen, Begun
  <2>2. QED
    BY <1>11, <2>1, PageStep
<1>12. CASE UNCHANGED history_vars
  <2>1. \A d \in Clients : Begun(d)' => Begun(d) /\ request'[d] = request[d]
    BY <1>12 DEF history_vars, Begun
  <2>2. QED
    BY <1>2, <1>12, <2>1, QuietWalkStep DEF history_vars
<1>13. QED
  BY <1>3, <1>4, <1>5, <1>6, <1>7, <1>8, <1>9, <1>10, <1>11, <1>12 DEF HistoryNext

\* A window of the audit trail that has ended is read completely, but for rows of
\* transactions that were open when the reading began and, unless it is of one task,
\* for rows that share their time.
THEOREM WindowsRead == HistorySpec => []WindowsMissOnlyOpenOrTied
<1>1. HistoryInit => WalkInv
  BY AuditInit DEF HistoryInit, WalkInv, LateWritersWereOpen, PassedWasSeen
<1>2. WalkInv => WindowsMissOnlyOpenOrTied
  <2> SUFFICES ASSUME WalkInv, walk # Idle, walk.pc = "done",
                      NEW i \in InWindow(walk.to, walk.object) \ walk.seen,
                      audit_events[i].created_at \notin walk.open
               PROVE  walk.object = "any" /\ Tied(i, walk.to, walk.object)
    BY DEF WindowsMissOnlyOpenOrTied
  <2>1. Tied(i, walk.to, walk.object)
    BY DEF WalkInv, PassedWasSeen, Settled
  <2>2. walk.object \in {"task", "any"}
    BY DEF WalkInv, AuditInv, HistoryTypeOK, Walk
  <2>3. walk.object = "task" => ~ Tied(i, walk.to, walk.object)
    BY DEF Tied, InWindow, WalkInv, AuditInv, InstantsDiffer
  <2>4. QED
    BY <2>1, <2>2, <2>3
<1>3. QED
  BY <1>1, <1>2, WalkStep, PTL DEF HistorySpec

-----------------------------------------------------------------------------
(***************************************************************************)
(* The chain of custody.                                                   *)
(***************************************************************************)

\* The server's times are in the past.
NamedTimesArePast ==
  /\ \A i \in DOMAIN device_transfer_events :
       LET item == device_transfer_events[i] IN
       item.named => item.recorded_at < now
  /\ \A c \in Clients :
       request[c] # Idle /\ request[c].transfer.named =>
         request[c].transfer.recorded_at < now

\* A request that can still commit names the holder, and its time is later than
\* the times of the transfers that were made.
CurrentNamesHolder ==
  \A c \in Clients :
    request[c] # Idle /\ request[c].transfer.named /\ request[c].version = version =>
      /\ request[c].transfer.from = Holder
      /\ \A i \in DOMAIN device_transfer_events :
           LET item == device_transfer_events[i] IN
           item.named => item.recorded_at < request[c].transfer.recorded_at

\* Named transfers were received in the order of their commits, each from the
\* one before it.
NamedTransfersChain ==
  /\ \A i, j \in DOMAIN device_transfer_events :
       /\ i < j
       /\ device_transfer_events[i].named
       /\ device_transfer_events[j].named
       => device_transfer_events[i].recorded_at < device_transfer_events[j].recorded_at
  /\ \A j \in 2 .. Len(device_transfer_events) :
       device_transfer_events[j].named =>
         device_transfer_events[j].from = device_transfer_events[j - 1].to

CustodyInv ==
  /\ HistoryTypeOK
  /\ NamedTimesArePast
  /\ CurrentNamesHolder
  /\ NamedTransfersChain

\* What a row of the chain is made of.
LEMMA TransferFields ==
  ASSUME HistoryTypeOK, NEW i \in DOMAIN device_transfer_events
  PROVE  /\ device_transfer_events[i].recorded_at \in Nat
         /\ device_transfer_events[i].to \in Operators
<1>1. device_transfer_events[i] \in Transfer
  BY ElementOfSeq, LenProperties DEF HistoryTypeOK
<1>2. QED
  BY <1>1 DEF Transfer

\* An empty chain is in order.
LEMMA CustodyInit == HistoryInit => CustodyInv
<1> SUFFICES ASSUME HistoryInit
             PROVE  CustodyInv
  OBVIOUS
<1>1. /\ Len(device_transfer_events) = 0
      /\ DOMAIN device_transfer_events = {}
  BY EmptySeq DEF HistoryInit
<1>2. \A c \in Clients : request[c] = Idle
  BY DEF HistoryInit
<1>3. QED
  BY <1>1, <1>2, TypeInit
  DEF CustodyInv, NamedTimesArePast, CurrentNamesHolder, NamedTransfersChain

\* A transfer is added to the chain only by a client that names its end.
LEMMA CommitCustodyStep ==
  ASSUME CustodyInv, HistoryTypeOK', NEW c \in Clients, CommitTransfer(c)
  PROVE  CustodyInv'
<1> DEFINE item == request[c].transfer
           events == device_transfer_events
           n == Len(events) + 1
<1>1. /\ events \in Seq(Transfer)
      /\ request \in [Clients -> Request \union {Idle}]
      /\ request[c] \in Request
      /\ item \in Transfer
      /\ events' = Append(events, item)
      /\ version \in Nat /\ version' = version + 1
      /\ now' = now
      /\ request[c].version = version
      /\ request[c] # Idle
  BY RequestFields
  DEF CustodyInv, HistoryTypeOK, CommitTransfer, MoveDroneTask
<1>2. /\ DOMAIN events' = DOMAIN events \union {n}
      /\ DOMAIN events = 1 .. n - 1
      /\ n \in Nat \ {0}
      /\ Len(events') = n
      /\ \A i \in DOMAIN events : events'[i] = events[i]
      /\ events'[n] = item
  BY <1>1, Appended, LenProperties
<1>3. /\ request'[c] = Idle
      /\ \A d \in Clients \ {c} : request'[d] = request[d]
  BY <1>1 DEF CommitTransfer
<1>4. item.named =>
        /\ item.recorded_at < now
        /\ item.from = Holder
        /\ \A i \in DOMAIN events : events[i].named => events[i].recorded_at < item.recorded_at
  BY <1>1 DEF CustodyInv, NamedTimesArePast, CurrentNamesHolder
<1>5. NamedTimesArePast'
  BY <1>1, <1>2, <1>3, <1>4 DEF CustodyInv, NamedTimesArePast
<1>6. CurrentNamesHolder'
  <2>1. \A d \in Clients : request[d] # Idle => request[d].version \in Nat /\ request[d].version <= version
    BY <1>1, RequestFields DEF CustodyInv, HistoryTypeOK
  <2>2. \A d \in Clients : request'[d] # Idle => request'[d].version # version'
    BY <1>1, <1>3, <2>1
  <2>3. QED
    BY <2>2 DEF CurrentNamesHolder
<1>7. NamedTransfersChain'
  <2>1. ASSUME NEW i \in DOMAIN events', NEW j \in DOMAIN events',
               i < j, events'[i].named, events'[j].named
        PROVE  events'[i].recorded_at < events'[j].recorded_at
    <3>1. i \in DOMAIN events
      BY <1>2, <2>1
    <3>2. QED
      BY <1>2, <1>4, <2>1, <3>1 DEF CustodyInv, NamedTransfersChain
  <2>2. ASSUME NEW j \in 2 .. n, events'[j].named
        PROVE  events'[j].from = events'[j - 1].to
    <3>1. CASE j \in DOMAIN events
      BY <1>2, <2>2, <3>1 DEF CustodyInv, NamedTransfersChain
    <3>2. CASE j = n
      <4>1. Holder = events[n - 1].to
        BY <1>2, <2>2, <3>2, EmptySeq DEF Holder, Last
      <4>2. QED
        BY <1>2, <1>4, <2>2, <3>2, <4>1, n - 1 \in DOMAIN events
    <3>3. QED
      BY <1>2, <3>1, <3>2
  <2>3. QED
    BY <1>2, <2>1, <2>2 DEF NamedTransfersChain
<1>8. QED
  BY <1>5, <1>6, <1>7 DEF CustodyInv

\* A step that adds no transfer and lets nobody send one.
LEMMA QuietCustodyStep ==
  ASSUME CustodyInv, HistoryTypeOK', now' >= now,
         device_transfer_events' = device_transfer_events,
         version' \in {version, version + 1},
         \A c \in Clients : request'[c] # Idle =>
           /\ request[c] # Idle
           /\ request'[c].transfer = request[c].transfer
           /\ request'[c].version = request[c].version
  PROVE  CustodyInv'
<1>1. /\ now \in Nat /\ now' \in Nat /\ version \in Nat
      /\ \A i \in DOMAIN device_transfer_events :
           device_transfer_events[i].recorded_at \in Nat
      /\ \A c \in Clients : request[c] # Idle =>
           /\ request[c].version \in Nat
           /\ request[c].version <= version
           /\ request[c].transfer.recorded_at \in Nat
  <2>1. \A c \in Clients : request[c] # Idle => request[c] \in Request
    BY DEF CustodyInv, HistoryTypeOK
  <2>2. \A c \in Clients : request[c] # Idle => request[c].transfer.recorded_at \in Nat
    BY <2>1, RequestFields DEF Transfer
  <2>3. \A c \in Clients : request[c] # Idle => request[c].version \in Nat
    BY <2>1, RequestFields
  <2>4. QED
    BY <2>2, <2>3, TransferFields DEF CustodyInv, HistoryTypeOK
<1>2. NamedTimesArePast'
  BY <1>1 DEF CustodyInv, NamedTimesArePast
<1>3. CurrentNamesHolder'
  <2>1. Holder' = Holder
    BY DEF Holder
  <2>2. ASSUME NEW c \in Clients, request'[c] # Idle, request'[c].version = version'
        PROVE  request[c].version = version
    BY <1>1, <2>2
  <2>3. QED
    BY <2>1, <2>2 DEF CustodyInv, CurrentNamesHolder
<1>4. NamedTransfersChain'
  BY DEF CustodyInv, NamedTransfersChain
<1>5. QED
  BY <1>2, <1>3, <1>4 DEF CustodyInv

\* The invariant of the chain is inductive.
LEMMA CustodyStep ==
  CustodyInv /\ [HistoryNext]_history_vars => CustodyInv'
<1> SUFFICES ASSUME CustodyInv, [HistoryNext]_history_vars
             PROVE  CustodyInv'
  OBVIOUS
<1>1. HistoryTypeOK /\ HistoryTypeOK'
  BY TypeStep DEF CustodyInv
<1>2. /\ now \in Nat
      /\ request \in [Clients -> Request \union {Idle}]
  BY <1>1 DEF HistoryTypeOK
<1> USE DEF table_vars
<1>3. ASSUME NEW c \in Clients, NEW from \in Operators \union {NoOperator},
             NEW to \in Operators, NEW claimed \in Claims,
             ReceiveTransfer(c, from, to, claimed)
      PROVE  CustodyInv'
  <2> DEFINE item == [from |-> from, to |-> to, recorded_at |-> RecordedAt(claimed),
                      named |-> claimed = 0 /\ from = Holder]
  <2>1. /\ request'[c] = [pc |-> "received", version |-> version, began |-> 0,
                          transfer |-> item]
        /\ \A d \in Clients \ {c} : request'[d] = request[d]
        /\ now' = now + 1
        /\ UNCHANGED <<version, device_transfer_events>>
    BY <1>2, <1>3 DEF ReceiveTransfer, ReadClock
  <2>2. item.named => item.from = Holder /\ item.recorded_at = now
    BY DEF RecordedAt
  <2>3. /\ request'[c].transfer = item
        /\ Holder' = Holder
    BY <2>1 DEF Holder
  <2>4. \A i \in DOMAIN device_transfer_events :
          device_transfer_events[i].recorded_at \in Nat
    BY <1>1, TransferFields
  <2>5. NamedTimesArePast'
    <3>1. \A d \in Clients : request[d] # Idle => request[d].transfer.recorded_at \in Nat
      BY <1>2, RequestFields DEF Transfer
    <3>2. QED
      BY <1>2, <2>1, <2>2, <2>3, <2>4, <3>1 DEF CustodyInv, NamedTimesArePast
  <2>6. CurrentNamesHolder'
    BY <1>2, <2>1, <2>2, <2>3, <2>4 DEF CustodyInv, NamedTimesArePast, CurrentNamesHolder
  <2>7. NamedTransfersChain'
    BY <2>1 DEF CustodyInv, NamedTransfersChain
  <2>8. QED
    BY <1>1, <2>5, <2>6, <2>7 DEF CustodyInv
<1>4. ASSUME NEW c \in Clients, BeginTransfer(c)
      PROVE  CustodyInv'
  <2>1. /\ request[c] \in Request
        /\ now \in 0 .. MaxTime
    BY <1>1, <1>2, <1>4 DEF BeginTransfer, HistoryTypeOK
  <2>2. request' = [request EXCEPT ![c] =
                     [request[c] EXCEPT !.pc = "begun", !.began = now]]
    BY <1>4 DEF BeginTransfer
  <2>3. \A d \in Clients : request'[d] # Idle =>
          /\ request[d] # Idle
          /\ request'[d].transfer = request[d].transfer
          /\ request'[d].version = request[d].version
    <3>1. /\ request[c] # Idle
          /\ request'[c].transfer = request[c].transfer
          /\ request'[c].version = request[c].version
      <4>1. request'[c] = [request[c] EXCEPT !.pc = "begun", !.began = now]
        BY <1>2, <2>2
      <4>2. /\ request'[c].transfer = request[c].transfer
            /\ request'[c].version = request[c].version
        BY <4>1
      <4>3. QED
        BY <1>4, <4>2 DEF BeginTransfer
    <3>2. \A d \in Clients \ {c} : request'[d] = request[d]
      BY <1>2, <2>2
    <3>3. QED
      BY <3>1, <3>2
  <2>4. QED
    BY <1>1, <1>2, <1>4, <2>3, QuietCustodyStep DEF BeginTransfer, ReadClock
<1>5. ASSUME NEW c \in Clients, CommitTransfer(c)
      PROVE  CustodyInv'
  BY <1>1, <1>5, CommitCustodyStep
<1>6. ASSUME NEW c \in Clients, FailTransfer(c)
      PROVE  CustodyInv'
  <2>1. \A d \in Clients : request'[d] # Idle => request'[d] = request[d]
    BY <1>2, <1>6 DEF FailTransfer
  <2>2. QED
    BY <1>1, <1>2, <1>6, <2>1, QuietCustodyStep DEF FailTransfer
<1>7. ASSUME \/ BeginExpiration
             \/ \E n \in 1 .. Limit : MarkExpired(n)
             \/ EndExpiration
      PROVE  CustodyInv'
  <2>1. /\ now' >= now
        /\ UNCHANGED <<device_transfer_events, request>>
        /\ version' \in {version, version + 1}
    <3>1. CASE BeginExpiration \/ EndExpiration
      BY <1>2, <3>1 DEF BeginExpiration, EndExpiration, ReadClock
    <3>2. ASSUME NEW n \in 1 .. Limit, MarkExpired(n)
          PROVE  /\ now' = now
                 /\ UNCHANGED <<device_transfer_events, request>>
                 /\ version' \in {version, version + 1}
      BY <3>2 DEF MarkExpired
    <3>3. QED
      BY <1>2, <1>7, <3>1, <3>2
  <2>2. QED
    BY <1>1, <2>1, QuietCustodyStep
<1>8. ASSUME NEW object \in {"task", "any"}, NEW limit \in PageSizes,
             BeginWalk(object, limit)
      PROVE  CustodyInv'
  BY <1>1, <1>2, <1>8, QuietCustodyStep DEF BeginWalk, ReadClock
<1>9. CASE ReadPage \/ UNCHANGED history_vars
  <2>1. UNCHANGED <<now, version, device_transfer_events, request>>
    BY <1>9 DEF ReadPage, history_vars
  <2>2. QED
    BY <1>1, <1>2, <2>1, QuietCustodyStep
<1>10. QED
  BY <1>3, <1>4, <1>5, <1>6, <1>7, <1>8, <1>9 DEF HistoryNext

\* CustodyInv holds of every reachable state: whoever can still commit a named
\* transfer names the holder and has a later time than the transfers before.
THEOREM CustodyInvariant == HistorySpec => []CustodyInv
  BY CustodyInit, CustodyStep, PTL DEF HistorySpec

Increases(f, n) == \A i, j \in 1 .. n : i < j => f[i] < f[j]

\* order lists 1 .. n by Time.
Sorts(order, Time, n) ==
  /\ order \in [1 .. n -> 1 .. n]
  /\ \A i, j \in 1 .. n : order[i] = order[j] => i = j
  /\ \A i, j \in 1 .. n : i < j => ~ Time[order[j]] < Time[order[i]]

\* If the times increase, a query ordered by them has one result: the rows in the
\* order of their commits.  Each position is taken, so none is skipped.
LEMMA OneListing ==
  ASSUME NEW n \in Nat, NEW Time \in [1 .. n -> Nat], Increases(Time, n),
         NEW order, Sorts(order, Time, n),
         NEW k \in 2 .. n
  PROVE  order[k] = order[k - 1] + 1
<1>1. /\ order \in [1 .. n -> 1 .. n]
      /\ Increases(order, n)
  BY DEF Increases, Sorts
<1>2. /\ k \in 1 .. n
      /\ k - 1 \in 1 .. n
      /\ k - 1 < k
  OBVIOUS
<1>3. PICK a \in 1 .. n : a = order[k - 1]
  BY <1>1, <1>2
<1>4. PICK b \in 1 .. n : b = order[k]
  BY <1>1, <1>2
<1>5. a < b
  BY <1>1, <1>2, <1>3, <1>4 DEF Increases
<1>6. ASSUME a + 1 # b
      PROVE  FALSE
  <2>1. a + 1 \in 1 .. n
    BY <1>5, <1>6
  <2>2. PICK p \in 1 .. n : order[p] = a + 1
    <3>1. IsFiniteSet(1 .. n)
      BY FS_Interval
    <3>2. order \in Injection(1 .. n, 1 .. n)
      BY <1>1 DEF Injection, IsInjective, Sorts
    <3>3. order \in Surjection(1 .. n, 1 .. n)
      BY <3>1, <3>2, FS_Injection
    <3>4. QED
      BY <2>1, <3>3 DEF Surjection
  <2>3. ~ p < k - 1 /\ p # k - 1
    <3>1. p < k - 1 => order[p] < order[k - 1]
      BY <1>1, <1>2 DEF Increases
    <3>2. QED
      BY <1>3, <2>2, <3>1
  <2>4. ~ k < p /\ p # k
    <3>1. k < p => order[k] < order[p]
      BY <1>1, <1>2 DEF Increases
    <3>2. QED
      BY <1>4, <1>5, <1>6, <2>2, <3>1
  <2>5. QED
    BY <1>2, <2>2, <2>3, <2>4
<1>7. QED
  BY <1>3, <1>4, <1>6

\* Overlapping requests that name the receiver before them and leave the time to
\* the server leave a chain that VerifyHandoff accepts.
THEOREM NamedChainsVerify == HistorySpec => []NamedTransfersVerify
<1>1. CustodyInv => NamedTransfersVerify
  <2> SUFFICES ASSUME CustodyInv,
                      \A i \in DOMAIN device_transfer_events : device_transfer_events[i].named,
                      NEW order \in ListHandoff,
                      NEW k \in 2 .. Len(device_transfer_events)
               PROVE  LET item == device_transfer_events[order[k]]
                          previous == device_transfer_events[order[k - 1]]
                      IN  /\ previous.recorded_at <= item.recorded_at
                          /\ item.from # NoOperator
                          /\ item.from = previous.to
    BY DEF NamedTransfersVerify, VerifyHandoff, ValidateHandoffSequence
  <2> DEFINE n == Len(device_transfer_events)
             Time == [i \in 1 .. n |-> device_transfer_events[i].recorded_at]
  <2>1. /\ n \in Nat
        /\ DOMAIN device_transfer_events = 1 .. n
        /\ Time \in [1 .. n -> Nat]
    BY TransferFields, LenProperties DEF CustodyInv, HistoryTypeOK
  <2>2. Increases(Time, n)
    BY <2>1 DEF CustodyInv, NamedTransfersChain, Increases
  <2>3. Sorts(order, Time, n)
    BY DEF ListHandoff, Listings, Sorts
  <2>4. order[k] = order[k - 1] + 1
    <3> HIDE DEF Time, n
    <3>1. n \in Nat /\ Time \in [1 .. n -> Nat]
      BY <2>1
    <3>2. k \in 2 .. n
      BY DEF n
    <3>3. QED
      BY <3>1, <3>2, <2>2, <2>3, OneListing
  <2>5. /\ order[k - 1] \in 1 .. n
        /\ order[k] \in 2 .. n
    BY <2>1, <2>3, <2>4 DEF Sorts
  <2>6. Time[order[k - 1]] < Time[order[k]]
    BY <2>2, <2>4, <2>5 DEF Increases
  <2>7. device_transfer_events[order[k]].from = device_transfer_events[order[k - 1]].to
    BY <2>1, <2>4, <2>5 DEF CustodyInv, NamedTransfersChain
  <2>8. /\ device_transfer_events[order[k - 1]].to \in Operators
        /\ device_transfer_events[order[k - 1]].recorded_at \in Nat
        /\ device_transfer_events[order[k]].recorded_at \in Nat
    BY <2>1, <2>5, TransferFields DEF CustodyInv
  <2>9. device_transfer_events[order[k - 1]].recorded_at
          < device_transfer_events[order[k]].recorded_at
    BY <2>5, <2>6
  <2>10. device_transfer_events[order[k]].from # NoOperator
    BY <2>7, <2>8, HistoryAssumption
  <2>11. QED
    BY <2>7, <2>8, <2>9, <2>10
<1>2. QED
  BY <1>1, CustodyInvariant, PTL

=============================================================================
