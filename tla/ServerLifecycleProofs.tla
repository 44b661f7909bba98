----------------------- MODULE ServerLifecycleProofs -----------------------
(***************************************************************************)
(* Proofs about the servers' lives, for any servers, releases, workers and *)
(* requests.  First the migrations alone: what a running server does       *)
(* besides leaves their variables alone.                                   *)
(***************************************************************************)
EXTENDS ServerLifecycle, FiniteSetTheorems, TLAPS

\* A database that nobody has touched.
LEMMA InitUpgrade == Init => UpgradeInv
<1> SUFFICES ASSUME Init PROVE UpgradeInv
  OBVIOUS
<1>1. TypeOK
  BY ReleaseAssumption DEF Init, TypeOK
<1>2. SchemaMatchesRecords
  BY DEF Init, SchemaMatchesRecords
<1>3. LockIsHeld /\ LeftBehindIsRecorded /\ ReadIsCurrent
  BY ReleaseAssumption
  DEF Init, LockIsHeld, LeftBehindIsRecorded, ReadIsCurrent
<1>4. QED
  BY <1>1, <1>2, <1>3 DEF UpgradeInv

\* The steps that write neither the schema nor its records.
LEMMA QuietStep ==
  ASSUME UpgradeInv, NEW s \in Servers,
         Start(s) \/ CreateTable(s) \/ Lock(s) \/ ReadState(s) \/ Fail(s)
  PROVE  UpgradeInv'
<1> USE ReleaseAssumption
<1>0. /\ TypeOK /\ LockIsHeld /\ LeftBehindIsRecorded /\ SchemaMatchesRecords
      /\ ReadIsCurrent
  BY DEF UpgradeInv
<1>1. SchemaMatchesRecords'
  BY <1>0
  DEF SchemaMatchesRecords, Start, CreateTable, Lock, ReadState, Fail
<1>2. CASE Start(s)
  <2>1. TypeOK'
    BY <1>0, <1>2 DEF TypeOK, Start
  <2>2. LockIsHeld' /\ LeftBehindIsRecorded' /\ ReadIsCurrent'
    BY <1>0, <1>2
    DEF TypeOK, Start, LockIsHeld, LeftBehindIsRecorded, ReadIsCurrent
  <2>3. QED
    BY <1>1, <2>1, <2>2 DEF UpgradeInv
<1>3. CASE CreateTable(s)
  <2>1. TypeOK'
    BY <1>0, <1>3 DEF TypeOK, CreateTable
  <2>2. LockIsHeld' /\ LeftBehindIsRecorded' /\ ReadIsCurrent'
    BY <1>0, <1>3
    DEF TypeOK, CreateTable, LockIsHeld, LeftBehindIsRecorded, ReadIsCurrent
  <2>3. QED
    BY <1>1, <2>1, <2>2 DEF UpgradeInv
<1>4. CASE Lock(s)
  <2>1. TypeOK'
    BY <1>0, <1>4 DEF TypeOK, Lock
  <2>2. LockIsHeld' /\ LeftBehindIsRecorded' /\ ReadIsCurrent'
    BY <1>0, <1>4
    DEF TypeOK, Lock, LockIsHeld, LeftBehindIsRecorded, ReadIsCurrent
  <2>3. QED
    BY <1>1, <2>1, <2>2 DEF UpgradeInv
<1>5. CASE ReadState(s)
  <2>1. TypeOK'
    BY <1>0, <1>5 DEF TypeOK, ReadState
  <2>2. LockIsHeld' /\ LeftBehindIsRecorded' /\ ReadIsCurrent'
    BY <1>0, <1>5
    DEF TypeOK, ReadState, LockIsHeld, LeftBehindIsRecorded, ReadIsCurrent
  <2>3. QED
    BY <1>1, <2>1, <2>2 DEF UpgradeInv
<1>6. CASE Fail(s)
  <2>1. TypeOK'
    BY <1>0, <1>6 DEF TypeOK, Fail
  <2>2. LockIsHeld' /\ LeftBehindIsRecorded' /\ ReadIsCurrent'
    BY <1>0, <1>6
    DEF TypeOK, Fail, LockIsHeld, LeftBehindIsRecorded, ReadIsCurrent
  <2>3. QED
    BY <1>1, <2>1, <2>2 DEF UpgradeInv
<1>7. QED
  BY <1>2, <1>3, <1>4, <1>5, <1>6

\* The migration a transaction applies is the next one the schema needs.
LEMMA NextMigration ==
  ASSUME UpgradeInv, NEW s \in Servers, pc[s] = "read", ~ applied[s]
  PROVE  version[s] = Len(schema) + 1
<1>1. /\ schema_migrations = 1 .. Len(schema)
      /\ Len(schema) \in Nat
      /\ version[s] \in Nat \ {0}
      /\ version[s] \notin schema_migrations
      /\ 1 .. (version[s] - 1) \subseteq schema_migrations
  BY DEF UpgradeInv, TypeOK, SchemaMatchesRecords, ReadIsCurrent,
         LeftBehindIsRecorded
<1>2. version[s] > Len(schema)
  BY <1>1
<1>3. version[s] - 1 <= Len(schema)
  <2>1. CASE version[s] = 1
    BY <1>1, <2>1
  <2>2. CASE version[s] # 1
    <3>1. version[s] - 1 \in 1 .. (version[s] - 1)
      BY <1>1, <2>2
    <3>2. QED
      BY <1>1, <3>1
  <2>3. QED
    BY <2>1, <2>2
<1>4. QED
  BY <1>1, <1>2, <1>3

\* Committing appends that migration to the schema and to its records.
LEMMA CommitStep ==
  ASSUME UpgradeInv, NEW s \in Servers, CommitMigration(s)
  PROVE  UpgradeInv'
<1> USE ReleaseAssumption
<1>0. /\ TypeOK /\ LockIsHeld /\ LeftBehindIsRecorded /\ SchemaMatchesRecords
      /\ ReadIsCurrent
      /\ pc[s] = "read"
  BY DEF UpgradeInv, CommitMigration
<1>1. SchemaMatchesRecords' /\ schema' \in Seq(Nat \ {0})
  <2>1. CASE applied[s]
    BY <1>0, <2>1 DEF CommitMigration, SchemaMatchesRecords, TypeOK
  <2>2. CASE ~ applied[s]
    <3>1. version[s] = Len(schema) + 1
      BY <1>0, <2>2, NextMigration
    <3>2. /\ schema \in Seq(Nat \ {0})
          /\ schema' = Append(schema, version[s])
          /\ schema_migrations' = schema_migrations \union {version[s]}
          /\ version[s] \in Nat \ {0}
      BY <1>0, <2>2 DEF CommitMigration, TypeOK
    <3>3. /\ schema' \in Seq(Nat \ {0})
          /\ Len(schema') = Len(schema) + 1
          /\ schema'[Len(schema) + 1] = version[s]
          /\ \A i \in 1 .. Len(schema) : schema'[i] = schema[i]
      BY <3>2
    <3>4. Len(schema) \in Nat
      BY <3>2
    <3>5. QED
      BY <1>0, <3>1, <3>2, <3>3, <3>4 DEF SchemaMatchesRecords
  <2>3. QED
    BY <2>1, <2>2
<1>2. /\ schema_migrations \subseteq schema_migrations'
      /\ version[s] \in schema_migrations'
      /\ schema_migrations' \in SUBSET (Nat \ {0})
  <2>1. /\ version[s] \in Nat \ {0}
        /\ schema_migrations \in SUBSET (Nat \ {0})
        /\ applied[s] => version[s] \in schema_migrations
    BY <1>0 DEF ReadIsCurrent, TypeOK
  <2>2. CASE applied[s]
    BY <2>1, <2>2 DEF CommitMigration
  <2>3. CASE ~ applied[s]
    <3>1. schema_migrations' = schema_migrations \union {version[s]}
      BY <2>3 DEF CommitMigration
    <3>2. QED
      BY <2>1, <3>1
  <2>4. QED
    BY <2>2, <2>3
<1>3. TypeOK'
  BY <1>0, <1>1, <1>2 DEF TypeOK, CommitMigration, After, LeftBehindIsRecorded
<1>4. LockIsHeld'
  BY <1>0 DEF TypeOK, CommitMigration, After, LockIsHeld
<1>5. LeftBehindIsRecorded'
  BY <1>0, <1>2 DEF TypeOK, CommitMigration, After, LeftBehindIsRecorded
<1>6. ReadIsCurrent'
  BY <1>0, <1>4 DEF TypeOK, CommitMigration, After, ReadIsCurrent, LockIsHeld
<1>7. QED
  BY <1>1, <1>3, <1>4, <1>5, <1>6 DEF UpgradeInv

\* No step breaks UpgradeInv.
LEMMA UpgradeStep == UpgradeInv /\ [Next]_vars => UpgradeInv'
<1> SUFFICES ASSUME UpgradeInv, [Next]_vars PROVE UpgradeInv'
  OBVIOUS
<1>1. CASE UNCHANGED vars
  BY <1>1
  DEF UpgradeInv, vars, TypeOK, LockIsHeld, LeftBehindIsRecorded,
      SchemaMatchesRecords, ReadIsCurrent
<1>2. CASE Next
  BY <1>2, QuietStep, CommitStep DEF Next, Migrate
<1>3. QED
  BY <1>1, <1>2

\* A server that serves has every migration of its release below it.
LEMMA UpgradeServing == UpgradeInv => ServingMeansMigrated
<1>1. ASSUME UpgradeInv, NEW s \in Servers, pc[s] = "serving"
      PROVE  1 .. Release[s] \subseteq schema_migrations
  <2>1. /\ version[s] = Release[s] + 1
        /\ 1 .. (version[s] - 1) \subseteq schema_migrations
    BY <1>1 DEF UpgradeInv, LeftBehindIsRecorded
  <2>2. Release[s] \in Nat
    BY ReleaseAssumption
  <2>3. version[s] - 1 = Release[s]
    BY <2>1, <2>2
  <2>4. QED
    BY <2>1, <2>3
<1>2. QED
  BY <1>1 DEF ServingMeansMigrated

-----------------------------------------------------------------------------
(***************************************************************************)
(* A server from its start to its end.                                     *)
(***************************************************************************)

StoppingStages == {"shutdown", "wait", "close"}

\* What its variables say of how far a server has come.  A nil error means more
\* and more while run() stops: nobody accepts a request or begins a pass again.
LifeOf(s) ==
  /\ stage[s] = "none" <=> pc[s] # "serving"
  /\ stage[s] = "none" => workerErr[s] = {} /\ WorkersDone(s)
  /\ stage[s] \in {"none", "select"} /\ pc[s] # "stopped" => exit[s] = "none"
  /\ stage[s] \in StoppingStages => listener[s] = "closed"
  /\ stage[s] \in StoppingStages /\ exit[s] = "nil" => signalled[s]
  /\ stage[s] \in {"wait", "close"} /\ exit[s] = "nil" => NoRequests(s)
  /\ stage[s] = "close" /\ exit[s] = "nil" => WorkersDone(s)
  /\ \A w \in workerErr[s] : worker[s][w] = "done"

\* Inductive.
LifeInv ==
  /\ UpgradeInv
  /\ LifeTypeOK
  /\ \A s \in Servers : LifeOf(s)

\* Servers nobody has started.
LEMMA InitLife == LifeInit => LifeInv
<1> SUFFICES ASSUME LifeInit PROVE LifeInv
  OBVIOUS
<1>1. UpgradeInv
  BY InitUpgrade DEF LifeInit
<1>2. LifeTypeOK
  BY <1>1 DEF UpgradeInv, LifeInit, LifeTypeOK
<1>3. \A s \in Servers : LifeOf(s)
  BY DEF LifeInit, Init, LifeOf, WorkersDone, NoRequests, StoppingStages
<1>4. QED
  BY <1>1, <1>2, <1>3 DEF LifeInv

\* What a step of server s leaves of the others.
OthersKept(s) ==
  \A x \in Servers \ {s} :
    /\ pc'[x] = pc[x]
    /\ signalled'[x] = signalled[x]
    /\ stage'[x] = stage[x]
    /\ listener'[x] = listener[x]
    /\ worker'[x] = worker[x]
    /\ workerErr'[x] = workerErr[x]
    /\ request'[x] = request[x]
    /\ exit'[x] = exit[x]

\* A step of one server leaves what is known of the others.
LEMMA OthersLive ==
  ASSUME LifeInv, UpgradeInv', NEW s \in Servers, LifeTypeOK', OthersKept(s),
         LifeOf(s)'
  PROVE  LifeInv'
<1>1. \A x \in Servers \ {s} : LifeOf(x)'
  BY DEF LifeInv, OthersKept, LifeOf, WorkersDone, NoRequests
<1>2. QED
  BY <1>1 DEF LifeInv

\* A process that is gone has no stage, no worker and no request.
LEMMA GoneStep ==
  ASSUME LifeInv, UpgradeInv', NEW s \in Servers,
         NEW how \in {"none", "nil", "error", "killed"}, Gone(s, how)
  PROVE  LifeInv'
<1> USE DEF LifeInv, LifeTypeOK
<1>1. TypeOK /\ TypeOK'
  BY DEF UpgradeInv
<1>2. LifeTypeOK'
  BY <1>1 DEF Gone
<1>3. OthersKept(s)
  BY <1>1 DEF Gone, Fail, TypeOK, OthersKept
<1>4. LifeOf(s)'
  BY <1>1 DEF Gone, Fail, TypeOK, LifeOf, WorkersDone, NoRequests, StoppingStages
<1>5. QED
  BY <1>2, <1>3, <1>4, OthersLive

\* Starting and migrating.
LEMMA StartingStep ==
  ASSUME LifeInv, UpgradeInv', NEW s \in Servers,
         Boot(s) \/ Signal(s) \/ MigrateFurther(s) \/ Launch(s)
  PROVE  LifeInv'
<1> USE DEF LifeInv, LifeTypeOK
<1>1. TypeOK /\ TypeOK' /\ LifeOf(s)
  BY DEF UpgradeInv
<1>2. CASE Boot(s)
  <2>1. LifeTypeOK'
    BY <1>1, <1>2 DEF Boot
  <2>2. OthersKept(s)
    BY <1>1, <1>2 DEF Boot, Start, TypeOK, OthersKept
  <2>3. LifeOf(s)'
    BY <1>1, <1>2
    DEF Boot, Start, TypeOK, LifeOf, WorkersDone, NoRequests, StoppingStages
  <2>4. QED
    BY <2>1, <2>2, <2>3, OthersLive
<1>3. CASE Signal(s)
  <2>1. LifeTypeOK'
    BY <1>1, <1>3 DEF Signal
  <2>2. OthersKept(s)
    BY <1>1, <1>3 DEF Signal, vars, OthersKept
  <2>3. LifeOf(s)'
    BY <1>1, <1>3
    DEF Signal, vars, LifeOf, WorkersDone, NoRequests, StoppingStages
  <2>4. QED
    BY <2>1, <2>2, <2>3, OthersLive
<1>4. CASE MigrateFurther(s)
  <2>1. LifeTypeOK'
    BY <1>1, <1>4 DEF MigrateFurther, lifeVars
  <2>2. /\ \A x \in Servers \ {s} : pc'[x] = pc[x]
        /\ pc[s] \notin {"stopped", "serving"}
        /\ pc'[s] # "serving"
    BY <1>1, <1>4
    DEF MigrateFurther, Migrate, CreateTable, Lock, ReadState, CommitMigration,
        TypeOK
  <2>3. OthersKept(s)
    BY <1>1, <1>4, <2>2 DEF MigrateFurther, lifeVars, OthersKept
  <2>4. LifeOf(s)'
    BY <1>1, <1>4, <2>2
    DEF MigrateFurther, lifeVars, LifeOf, WorkersDone, NoRequests, StoppingStages
  <2>5. QED
    BY <2>1, <2>3, <2>4, OthersLive
<1>5. CASE Launch(s)
  <2>1. LifeTypeOK'
    BY <1>1, <1>5 DEF Launch
  <2>2. /\ \A x \in Servers \ {s} : pc'[x] = pc[x]
        /\ pc[s] = "read"
        /\ pc'[s] = "serving"
    BY <1>1, <1>5 DEF Launch, CommitMigration, TypeOK
  <2>3. OthersKept(s)
    BY <1>1, <1>5, <2>2 DEF Launch, OthersKept
  <2>4. LifeOf(s)'
    BY <1>1, <1>5, <2>2 DEF Launch, LifeOf, WorkersDone, NoRequests, StoppingStages
  <2>5. QED
    BY <2>1, <2>3, <2>4, OthersLive
<1>6. QED
  BY <1>2, <1>3, <1>4, <1>5

\* The workers.
LEMMA WorkerStep ==
  ASSUME LifeInv, UpgradeInv', NEW s \in Servers, NEW w \in Workers,
         BeginPass(s, w) \/ EndPass(s, w) \/ StopWorker(s, w) \/ WorkerError(s, w) \/ SendError(s, w)
  PROVE  LifeInv'
<1> USE DEF LifeInv, LifeTypeOK
<1>1. TypeOK /\ TypeOK' /\ LifeOf(s)
  BY DEF UpgradeInv
<1>2. CASE BeginPass(s, w)
  <2>1. LifeTypeOK'
    BY <1>1, <1>2 DEF BeginPass, Cancelled, SetWorker
  <2>2. OthersKept(s)
    BY <1>1, <1>2 DEF BeginPass, Cancelled, SetWorker, vars, OthersKept
  <2>3. LifeOf(s)'
    BY <1>1, <1>2
    DEF BeginPass, Cancelled, SetWorker, vars, LifeOf, WorkersDone, NoRequests, StoppingStages
  <2>4. QED
    BY <2>1, <2>2, <2>3, OthersLive
<1>3. CASE EndPass(s, w)
  <2>1. LifeTypeOK'
    BY <1>1, <1>3 DEF EndPass, SetWorker
  <2>2. OthersKept(s)
    BY <1>1, <1>3 DEF EndPass, SetWorker, vars, OthersKept
  <2>3. LifeOf(s)'
    BY <1>1, <1>3
    DEF EndPass, SetWorker, vars, LifeOf, WorkersDone, NoRequests, StoppingStages
  <2>4. QED
    BY <2>1, <2>2, <2>3, OthersLive
<1>4. CASE StopWorker(s, w)
  <2>1. LifeTypeOK'
    BY <1>1, <1>4 DEF StopWorker, SetWorker
  <2>2. OthersKept(s)
    BY <1>1, <1>4 DEF StopWorker, SetWorker, vars, OthersKept
  <2>3. LifeOf(s)'
    BY <1>1, <1>4
    DEF StopWorker, SetWorker, vars, LifeOf, WorkersDone, NoRequests, StoppingStages
  <2>4. QED
    BY <2>1, <2>2, <2>3, OthersLive
<1>5. CASE WorkerError(s, w)
  <2>1. LifeTypeOK'
    BY <1>1, <1>5 DEF WorkerError, SetWorker
  <2>2. OthersKept(s)
    BY <1>1, <1>5 DEF WorkerError, SetWorker, vars, OthersKept
  <2>3. LifeOf(s)'
    BY <1>1, <1>5
    DEF WorkerError, SetWorker, vars, LifeOf, WorkersDone, NoRequests, StoppingStages
  <2>4. QED
    BY <2>1, <2>2, <2>3, OthersLive
<1>6. CASE SendError(s, w)
  <2>1. LifeTypeOK'
    BY <1>1, <1>6 DEF SendError, SetWorker
  <2>2. OthersKept(s)
    BY <1>1, <1>6 DEF SendError, SetWorker, vars, OthersKept
  <2>3. LifeOf(s)'
    BY <1>1, <1>6
    DEF SendError, SetWorker, vars, LifeOf, WorkersDone, NoRequests, StoppingStages
  <2>4. QED
    BY <2>1, <2>2, <2>3, OthersLive
<1>7. QED
  BY <1>2, <1>3, <1>4, <1>5, <1>6

\* The requests.
LEMMA RequestStep ==
  ASSUME LifeInv, UpgradeInv', NEW s \in Servers, NEW r \in Requests,
         Accept(s, r) \/ Query(s, r) \/ EndQuery(s, r) \/ Answer(s, r)
  PROVE  LifeInv'
<1> USE DEF LifeInv, LifeTypeOK
<1>1. TypeOK /\ TypeOK' /\ LifeOf(s)
  BY DEF UpgradeInv
<1>2. CASE Accept(s, r)
  <2>1. LifeTypeOK'
    BY <1>1, <1>2 DEF Accept
  <2>2. OthersKept(s)
    BY <1>1, <1>2 DEF Accept, vars, OthersKept
  <2>3. LifeOf(s)'
    BY <1>1, <1>2
    DEF Accept, vars, LifeOf, WorkersDone, NoRequests, StoppingStages
  <2>4. QED
    BY <2>1, <2>2, <2>3, OthersLive
<1>3. CASE Query(s, r)
  <2>1. LifeTypeOK'
    BY <1>1, <1>3 DEF Query
  <2>2. OthersKept(s)
    BY <1>1, <1>3 DEF Query, vars, OthersKept
  <2>3. LifeOf(s)'
    BY <1>1, <1>3
    DEF Query, vars, LifeOf, WorkersDone, NoRequests, StoppingStages
  <2>4. QED
    BY <2>1, <2>2, <2>3, OthersLive
<1>4. CASE EndQuery(s, r)
  <2>1. LifeTypeOK'
    BY <1>1, <1>4 DEF EndQuery
  <2>2. OthersKept(s)
    BY <1>1, <1>4 DEF EndQuery, vars, OthersKept
  <2>3. LifeOf(s)'
    BY <1>1, <1>4
    DEF EndQuery, vars, LifeOf, WorkersDone, NoRequests, StoppingStages
  <2>4. QED
    BY <2>1, <2>2, <2>3, OthersLive
<1>5. CASE Answer(s, r)
  <2>1. LifeTypeOK'
    BY <1>1, <1>5 DEF Answer
  <2>2. OthersKept(s)
    BY <1>1, <1>5 DEF Answer, vars, OthersKept
  <2>3. LifeOf(s)'
    BY <1>1, <1>5
    DEF Answer, vars, LifeOf, WorkersDone, NoRequests, StoppingStages
  <2>4. QED
    BY <2>1, <2>2, <2>3, OthersLive
<1>6. QED
  BY <1>2, <1>3, <1>4, <1>5

\* The listener, and run() until it closes the pool.
LEMMA StoppingStep ==
  ASSUME LifeInv, UpgradeInv', NEW s \in Servers,
         ListenFails(s) \/ Select(s) \/ Shutdown(s) \/ WaitForWorkers(s)
  PROVE  LifeInv'
<1> USE DEF LifeInv, LifeTypeOK
<1>1. TypeOK /\ TypeOK' /\ LifeOf(s)
  BY DEF UpgradeInv
<1>2. CASE ListenFails(s)
  <2>1. LifeTypeOK'
    BY <1>1, <1>2 DEF ListenFails
  <2>2. OthersKept(s)
    BY <1>1, <1>2 DEF ListenFails, vars, OthersKept
  <2>3. LifeOf(s)'
    BY <1>1, <1>2
    DEF ListenFails, vars, LifeOf, WorkersDone, NoRequests, StoppingStages
  <2>4. QED
    BY <2>1, <2>2, <2>3, OthersLive
<1>3. CASE Select(s)
  <2>1. /\ stage[s] = "select"
        /\ stage' = [stage EXCEPT ![s] = "shutdown"]
        /\ serverErr' = [serverErr EXCEPT ![s] = FALSE]
        /\ listener' = [listener EXCEPT ![s] = "closed"]
        /\ UNCHANGED <<vars, signalled, worker, request>>
    BY <1>3 DEF Select, Stopping
  <2>2. \E how \in {"nil", "error"} :
          /\ exit' = [exit EXCEPT ![s] = how]
          /\ how = "nil" => signalled[s]
    BY <1>3 DEF Select
  <2>3. \E left \in SUBSET workerErr[s] :
          workerErr' = [workerErr EXCEPT ![s] = left]
    <3>1. CASE workerErr' = workerErr
      BY <1>1, <3>1
    <3>2. CASE \E w \in workerErr[s] :
                 workerErr' = [workerErr EXCEPT ![s] = @ \ {w}]
      <4>1. PICK w \in workerErr[s] :
              workerErr' = [workerErr EXCEPT ![s] = @ \ {w}]
        BY <3>2
      <4>2. workerErr[s] \ {w} \in SUBSET workerErr[s]
        OBVIOUS
      <4>3. QED
        BY <4>1, <4>2
    <3>3. QED
      BY <1>3, <3>1, <3>2 DEF Select
  <2>4. LifeTypeOK'
    BY <1>1, <2>1, <2>2, <2>3
  <2>5. OthersKept(s)
    BY <1>1, <2>1, <2>2, <2>3 DEF vars, OthersKept
  <2>6. LifeOf(s)'
    BY <1>1, <2>1, <2>2, <2>3
    DEF vars, LifeOf, WorkersDone, NoRequests, StoppingStages
  <2>7. QED
    BY <2>4, <2>5, <2>6, OthersLive
<1>4. CASE Shutdown(s)
  <2>1. LifeTypeOK'
    BY <1>1, <1>4 DEF Shutdown
  <2>2. OthersKept(s)
    BY <1>1, <1>4 DEF Shutdown, vars, OthersKept
  <2>3. LifeOf(s)'
    BY <1>1, <1>4
    DEF Shutdown, vars, LifeOf, WorkersDone, NoRequests, StoppingStages
  <2>4. QED
    BY <2>1, <2>2, <2>3, OthersLive
<1>5. CASE WaitForWorkers(s)
  <2>1. LifeTypeOK'
    BY <1>1, <1>5 DEF WaitForWorkers
  <2>2. OthersKept(s)
    BY <1>1, <1>5 DEF WaitForWorkers, vars, OthersKept
  <2>3. LifeOf(s)'
    BY <1>1, <1>5
    DEF WaitForWorkers, vars, LifeOf, WorkersDone, NoRequests, StoppingStages
  <2>4. QED
    BY <2>1, <2>2, <2>3, OthersLive
<1>6. QED
  BY <1>2, <1>3, <1>4, <1>5

\* Whatever else a server does, it migrates as in Migrations or not at all.
LEMMA LifeMigrates == [LifeNext]_serverVars => [Next]_vars
<1>1. ASSUME NEW s \in Servers, NEW how, Gone(s, how)
      PROVE  Next
  BY <1>1 DEF Gone, Next
<1>2. ASSUME NEW s \in Servers, MigrateFurther(s) \/ Launch(s) \/ Boot(s)
      PROVE  Next
  BY <1>2 DEF MigrateFurther, Launch, Migrate, Boot, Next
<1>3. QED
  BY <1>1, <1>2
  DEF LifeNext, RunStep, FailToStart, Kill, Close, serverVars,
      Signal, ListenFails, Select, Shutdown, WaitForWorkers,
      BeginPass, EndPass, StopWorker, WorkerError, SendError,
      Accept, Query, EndQuery, Answer

\* No step breaks LifeInv.
LEMMA LifeStep == LifeInv /\ [LifeNext]_serverVars => LifeInv'
<1> SUFFICES ASSUME LifeInv, [LifeNext]_serverVars PROVE LifeInv'
  OBVIOUS
<1>1. UpgradeInv'
  BY LifeMigrates, UpgradeStep DEF LifeInv
<1>2. ASSUME NEW s \in Servers, FailToStart(s) \/ Kill(s) \/ Close(s)
      PROVE  LifeInv'
  <2>1. exit[s] \in {"none", "nil", "error", "killed"}
    BY DEF LifeInv, LifeTypeOK
  <2>2. \E how \in {"none", "nil", "error", "killed"} : Gone(s, how)
    BY <1>2, <2>1 DEF FailToStart, Kill, Close
  <2>3. QED
    BY <1>1, <2>2, GoneStep
<1>3. CASE UNCHANGED serverVars
  BY <1>1, <1>3
  DEF serverVars, lifeVars, vars, LifeInv, LifeTypeOK, UpgradeInv, LifeOf,
      WorkersDone, NoRequests
<1>4. QED
  BY <1>1, <1>2, <1>3, StartingStep, WorkerStep, RequestStep, StoppingStep
  DEF LifeNext, RunStep

-----------------------------------------------------------------------------
(***************************************************************************)
(* The theorems.                                                           *)
(***************************************************************************)

\* LifeInv holds of every reachable state, however many servers start, fail and
\* start again.
THEOREM LifeInvariant == LifeSpec => []LifeInv
BY InitLife, LifeStep, PTL DEF LifeSpec

\* Every variable has its type.
THEOREM LifeTypes == LifeSpec => []LifeTypeOK
<1>1. LifeInv => LifeTypeOK
  BY DEF LifeInv
<1>2. QED
  BY <1>1, LifeInvariant, PTL

\* Each migration takes effect once and in order, and the records say so.
THEOREM SchemaInOrder == LifeSpec => []SchemaMatchesRecords
<1>1. LifeInv => SchemaMatchesRecords
  BY DEF LifeInv, UpgradeInv
<1>2. QED
  BY <1>1, LifeInvariant, PTL

\* What a server read under the lock still holds when it commits.
THEOREM ReadsUnderLock == LifeSpec => []ReadIsCurrent
<1>1. LifeInv => ReadIsCurrent
  BY DEF LifeInv, UpgradeInv
<1>2. QED
  BY <1>1, LifeInvariant, PTL

\* A server that serves has every migration of its release below it.
THEOREM ServingMigrated == LifeSpec => []ServingMeansMigrated
<1>1. LifeInv => ServingMeansMigrated
  BY UpgradeServing DEF LifeInv
<1>2. QED
  BY <1>1, LifeInvariant, PTL

\* The channel has room for the errors of all the workers, so none is stuck.
THEOREM SendersFree == LifeSpec => []NoSenderBlocked
<1>1. ASSUME LifeInv, NEW s \in Servers, NEW w \in Workers,
             worker[s][w] = "sending"
      PROVE  Cardinality(workerErr[s]) < Capacity
  <2>1. workerErr[s] \subseteq Workers /\ w \notin workerErr[s]
    BY <1>1 DEF LifeInv, LifeTypeOK, LifeOf
  <2>2. IsFiniteSet(Workers)
    BY WorkerAssumption
  <2>3. /\ Cardinality(workerErr[s]) \in Nat
        /\ Cardinality(Workers) \in Nat
        /\ Cardinality(workerErr[s]) <= Cardinality(Workers)
        /\ Cardinality(Workers) = Cardinality(workerErr[s])
             => Workers = workerErr[s]
    BY <2>1, <2>2, FS_Subset, FS_CardinalityType
  <2>4. QED
    BY <2>1, <2>3 DEF Capacity
<1>2. LifeInv => NoSenderBlocked
  BY <1>1 DEF NoSenderBlocked
<1>3. QED
  BY <1>2, LifeInvariant, PTL

\* A process that ends without an error was asked to, and has finished.
THEOREM CleanEnd == LifeSpec => CleanExit
<1> DEFINE A == \A s \in Servers :
       exit[s] = "nil" /\ pc[s] # "stopped" /\ pc'[s] = "stopped"
         /\ exit'[s] = "nil" =>
           signalled[s] /\ NoRequests(s) /\ WorkersDone(s)
<1>1. LifeInv /\ [LifeNext]_serverVars => [A]_serverVars
  <2> SUFFICES ASSUME LifeInv, [LifeNext]_serverVars, NEW s \in Servers,
                      exit[s] = "nil", pc[s] # "stopped", pc'[s] = "stopped",
                      exit'[s] = "nil"
               PROVE  signalled[s] /\ NoRequests(s) /\ WorkersDone(s)
    OBVIOUS
  <2>1. LifeOf(s) /\ TypeOK /\ LifeTypeOK
    BY DEF LifeInv, UpgradeInv
  <2>2. ASSUME NEW x \in Servers, NEW how, Gone(x, how)
        PROVE  x = s /\ how = "nil"
    BY <2>1, <2>2 DEF Gone, Fail, TypeOK, LifeTypeOK
  <2>3. Close(s)
    BY <2>1, <2>2
    DEF LifeNext, RunStep, FailToStart, Kill, Close, serverVars, vars,
        Boot, Start, Signal, MigrateFurther, Migrate, CreateTable, Lock,
        ReadState, CommitMigration, After, Launch, TypeOK,
        ListenFails, Select, Shutdown, WaitForWorkers,
        BeginPass, EndPass, StopWorker, WorkerError, SendError,
        Accept, Query, EndQuery, Answer
  <2>4. stage[s] = "close"
    BY <2>3 DEF Close
  <2>5. QED
    BY <2>1, <2>4 DEF LifeOf, StoppingStages
<1>2. QED
  BY <1>1, LifeInvariant, PTL DEF LifeSpec, CleanExit

=============================================================================
