--------------------------- MODULE ServerLifecycle ---------------------------
(***************************************************************************)
(* The whole life of the server processes (cmd/server/main.go): each one   *)
(* migrates the database as in Migrations, then runs its HTTP server and   *)
(* its workers until a signal or an error, and shuts down in stages while  *)
(* others may start.                                                       *)
(*                                                                         *)
(* `stage' says where run() is once the migrations are done.  Goroutines   *)
(* take steps of their own; a channel is the set or the flag of what is in *)
(* its buffer.                                                             *)
(***************************************************************************)
EXTENDS Migrations, FiniteSets

CONSTANTS
  Workers,   \* the three background workers
  Failing,   \* those whose Run may return an error of its own
  Requests   \* slots for HTTP requests of each server

ASSUME WorkerAssumption ==
  /\ IsFiniteSet(Workers)
  /\ Failing \subseteq Workers

VARIABLES
  signalled,  \* SIGINT or SIGTERM arrived: ctx is done
  stage,      \* of run()
  listener,   \* ListenAndServe
  serverErr,  \* serverErr holds an error other than ErrServerClosed
  worker,     \* the workers' goroutines
  workerErr,  \* the workers whose errors are in the channel
  request,    \* the HTTP requests
  exit        \* how the process ended last

lifeVars == <<signalled, stage, listener, serverErr, worker, workerErr,
              request, exit>>

serverVars == <<vars, lifeVars>>

LifeTypeOK ==
  /\ TypeOK
  /\ signalled \in [Servers -> BOOLEAN]
  /\ stage \in [Servers -> {"none", "select", "shutdown", "wait", "close"}]
  /\ listener \in [Servers -> {"closed", "open"}]
  /\ serverErr \in [Servers -> BOOLEAN]
  /\ worker \in [Servers -> [Workers -> {"waiting", "working", "sending", "done"}]]
  /\ workerErr \in [Servers -> SUBSET Workers]
  /\ request \in [Servers -> [Requests -> {"none", "running", "query"}]]
  /\ exit \in [Servers -> {"none", "nil", "error", "killed"}]

LifeInit ==
  /\ Init
  /\ signalled = [s \in Servers |-> FALSE]
  /\ stage = [s \in Servers |-> "none"]
  /\ listener = [s \in Servers |-> "closed"]
  /\ serverErr = [s \in Servers |-> FALSE]
  /\ worker = [s \in Servers |-> [w \in Workers |-> "done"]]
  /\ workerErr = [s \in Servers |-> {}]
  /\ request = [s \in Servers |-> [r \in Requests |-> "none"]]
  /\ exit = [s \in Servers |-> "none"]

\* What a process leaves behind when it is gone: only what it has answered.
Gone(s, how) ==
  /\ Fail(s)
  /\ signalled' = [signalled EXCEPT ![s] = FALSE]
  /\ stage' = [stage EXCEPT ![s] = "none"]
  /\ listener' = [listener EXCEPT ![s] = "closed"]
  /\ serverErr' = [serverErr EXCEPT ![s] = FALSE]
  /\ worker' = [worker EXCEPT ![s] = [w \in Workers |-> "done"]]
  /\ workerErr' = [workerErr EXCEPT ![s] = {}]
  /\ request' = [request EXCEPT ![s] = [r \in Requests |-> "none"]]
  /\ exit' = [exit EXCEPT ![s] = how]

-----------------------------------------------------------------------------
(***************************************************************************)
(* Starting.                                                               *)
(***************************************************************************)

Boot(s) ==
  /\ Start(s)
  /\ exit' = [exit EXCEPT ![s] = "none"]
  /\ UNCHANGED <<signalled, stage, listener, serverErr, worker, workerErr, request>>

\* A signal that comes later finds run() stopping, and is swallowed.
Signal(s) ==
  /\ pc[s] # "stopped"
  /\ stage[s] \in {"none", "select"}
  /\ signalled' = [signalled EXCEPT ![s] = TRUE]
  /\ UNCHANGED <<vars, stage, listener, serverErr, worker, workerErr, request, exit>>

MigrateFurther(s) ==
  /\ Migrate(s)
  /\ pc'[s] # "serving"
  /\ UNCHANGED lifeVars

\* The last migration is in: run() starts the workers and the HTTP server.
Launch(s) ==
  /\ CommitMigration(s)
  /\ pc'[s] = "serving"
  /\ stage' = [stage EXCEPT ![s] = "select"]
  /\ listener' = [listener EXCEPT ![s] = "open"]
  /\ worker' = [worker EXCEPT ![s] = [w \in Workers |-> "waiting"]]
  /\ UNCHANGED <<signalled, serverErr, workerErr, request, exit>>

\* Open and Migrate stop at an error and when their context is done.
FailToStart(s) ==
  /\ stage[s] = "none"
  /\ Gone(s, "error")

Kill(s) ==
  /\ pc[s] # "stopped"
  /\ Gone(s, "killed")

-----------------------------------------------------------------------------
(***************************************************************************)
(* The goroutines of a running server.                                     *)
(***************************************************************************)

\* workerCtx is done.
Cancelled(s) == signalled[s] \/ stage[s] \in {"shutdown", "wait", "close"}

SetWorker(s, w, state) == worker' = [worker EXCEPT ![s][w] = state]

\* The loop of a worker's Run: a pass on the ticker, unless the context is done.
BeginPass(s, w) ==
  /\ worker[s][w] = "waiting"
  /\ ~ Cancelled(s)
  /\ SetWorker(s, w, "working")
  /\ UNCHANGED <<vars, signalled, stage, listener, serverErr, workerErr, request, exit>>

\* The errors of a pass are logged only.
EndPass(s, w) ==
  /\ worker[s][w] = "working"
  /\ SetWorker(s, w, "waiting")
  /\ UNCHANGED <<vars, signalled, stage, listener, serverErr, workerErr, request, exit>>

\* Run returns context.Canceled, which is not reported.
StopWorker(s, w) ==
  /\ worker[s][w] = "waiting"
  /\ Cancelled(s)
  /\ SetWorker(s, w, "done")
  /\ UNCHANGED <<vars, signalled, stage, listener, serverErr, workerErr, request, exit>>

\* Run returns another error.
WorkerError(s, w) ==
  /\ w \in Failing
  /\ worker[s][w] = "waiting"
  /\ SetWorker(s, w, "sending")
  /\ UNCHANGED <<vars, signalled, stage, listener, serverErr, workerErr, request, exit>>

\* make(chan error): an error needs a receiver.
BadCapacity == 0

\* make(chan error, len(workers))
Capacity == Cardinality(Workers)

SendError(s, w) ==
  /\ worker[s][w] = "sending"
  /\ Cardinality(workerErr[s]) < Capacity
  /\ workerErr' = [workerErr EXCEPT ![s] = @ \union {w}]
  /\ SetWorker(s, w, "done")
  /\ UNCHANGED <<vars, signalled, stage, listener, serverErr, request, exit>>

\* ListenAndServe fails, because the port is taken for example.
ListenFails(s) ==
  /\ stage[s] = "select"
  /\ listener[s] = "open"
  /\ listener' = [listener EXCEPT ![s] = "closed"]
  /\ serverErr' = [serverErr EXCEPT ![s] = TRUE]
  /\ UNCHANGED <<vars, signalled, stage, worker, workerErr, request, exit>>

Accept(s, r) ==
  /\ listener[s] = "open"
  /\ request[s][r] = "none"
  /\ request' = [request EXCEPT ![s][r] = "running"]
  /\ UNCHANGED <<vars, signalled, stage, listener, serverErr, worker, workerErr, exit>>

\* A handler takes a connection from the pool; a closed pool has none.
Query(s, r) ==
  /\ request[s][r] = "running"
  /\ stage[s] # "close"
  /\ request' = [request EXCEPT ![s][r] = "query"]
  /\ UNCHANGED <<vars, signalled, stage, listener, serverErr, worker, workerErr, exit>>

EndQuery(s, r) ==
  /\ request[s][r] = "query"
  /\ request' = [request EXCEPT ![s][r] = "running"]
  /\ UNCHANGED <<vars, signalled, stage, listener, serverErr, worker, workerErr, exit>>

Answer(s, r) ==
  /\ request[s][r] = "running"
  /\ request' = [request EXCEPT ![s][r] = "none"]
  /\ UNCHANGED <<vars, signalled, stage, listener, serverErr, worker, workerErr, exit>>

-----------------------------------------------------------------------------
(***************************************************************************)
(* Stopping.  runErr is kept in `exit' from the select on.                 *)
(***************************************************************************)

\* cancelWorkers, and Shutdown closes the listener.
Stopping(s) ==
  /\ stage' = [stage EXCEPT ![s] = "shutdown"]
  /\ serverErr' = [serverErr EXCEPT ![s] = FALSE]   \* nobody reads it again
  /\ listener' = [listener EXCEPT ![s] = "closed"]

\* The worker's error is received and dropped.
BadSelect(s) ==
  /\ stage[s] = "select"
  /\ \/ /\ serverErr[s]
        /\ exit' = [exit EXCEPT ![s] = "error"]
        /\ UNCHANGED workerErr
     \/ \E w \in workerErr[s] :
          /\ workerErr' = [workerErr EXCEPT ![s] = @ \ {w}]
          /\ exit' = [exit EXCEPT ![s] = "nil"]
     \/ /\ signalled[s]
        /\ exit' = [exit EXCEPT ![s] = "nil"]
        /\ UNCHANGED workerErr
  /\ Stopping(s)
  /\ UNCHANGED <<vars, signalled, worker, request>>

\* Any case that is ready may be taken.
Select(s) ==
  /\ stage[s] = "select"
  /\ \/ /\ serverErr[s]
        /\ exit' = [exit EXCEPT ![s] = "error"]
        /\ UNCHANGED workerErr
     \/ \E w \in workerErr[s] :
          /\ workerErr' = [workerErr EXCEPT ![s] = @ \ {w}]
          /\ exit' = [exit EXCEPT ![s] = "error"]
     \/ /\ signalled[s]
        /\ exit' = [exit EXCEPT ![s] = "nil"]
        /\ UNCHANGED workerErr
  /\ Stopping(s)
  /\ UNCHANGED <<vars, signalled, worker, request>>

NoRequests(s) == \A r \in Requests : request[s][r] = "none"

\* Waiting for as long as requests take.
BadShutdown(s) ==
  /\ stage[s] = "shutdown"
  /\ NoRequests(s)
  /\ stage' = [stage EXCEPT ![s] = "wait"]
  /\ UNCHANGED <<vars, signalled, listener, serverErr, worker, workerErr, request, exit>>

\* server.Shutdown returns when no request is left, or after its timeout, which
\* leaves the requests running.
Shutdown(s) ==
  /\ stage[s] = "shutdown"
  /\ exit' = [exit EXCEPT ![s] = IF NoRequests(s) THEN @ ELSE "error"]
  /\ stage' = [stage EXCEPT ![s] = "wait"]
  /\ UNCHANGED <<vars, signalled, listener, serverErr, worker, workerErr, request>>

WorkersDone(s) == \A w \in Workers : worker[s][w] = "done"

\* Until all workers are done or the same timeout has passed once more.
WaitForWorkers(s) ==
  /\ stage[s] = "wait"
  /\ \/ WorkersDone(s) /\ UNCHANGED exit
     \/ exit' = [exit EXCEPT ![s] = "error"]
  /\ stage' = [stage EXCEPT ![s] = "close"]
  /\ UNCHANGED <<vars, signalled, listener, serverErr, worker, workerErr, request>>

\* The deferred p.Close() waits for every connection that is in use.
Close(s) ==
  /\ stage[s] = "close"
  /\ \A r \in Requests : request[s][r] # "query"
  /\ \A w \in Workers : worker[s][w] # "working"
  /\ Gone(s, exit[s])

-----------------------------------------------------------------------------

RunStep(s) == Select(s) \/ Shutdown(s) \/ WaitForWorkers(s) \/ Close(s)

LifeNext ==
  \E s \in Servers :
    \/ Boot(s) \/ Signal(s) \/ MigrateFurther(s) \/ Launch(s)
    \/ FailToStart(s) \/ Kill(s) \/ ListenFails(s) \/ RunStep(s)
    \/ \E w \in Workers :
         \/ BeginPass(s, w) \/ EndPass(s, w) \/ StopWorker(s, w)
         \/ WorkerError(s, w) \/ SendError(s, w)
    \/ \E r \in Requests :
         Accept(s, r) \/ Query(s, r) \/ EndQuery(s, r) \/ Answer(s, r)

\* run() and the goroutines go on; a statement ends.  A handler may take as long
\* as its client likes to read the request and to take the answer.
LifeFairness ==
  \A s \in Servers :
    /\ WF_serverVars(MigrateFurther(s) \/ Launch(s))
    /\ SF_serverVars(Lock(s) /\ UNCHANGED lifeVars)
    /\ WF_serverVars(RunStep(s))
    /\ \A w \in Workers :
         WF_serverVars(EndPass(s, w) \/ StopWorker(s, w) \/ SendError(s, w))
    /\ \A r \in Requests : WF_serverVars(EndQuery(s, r))

LifeSpec == LifeInit /\ [][LifeNext]_serverVars /\ LifeFairness

-----------------------------------------------------------------------------
(***************************************************************************)
(* Properties.                                                             *)
(***************************************************************************)

\* No worker that fails is left waiting for someone to take its error: run()
\* takes one at most, and the workers' WaitGroup would never get to zero.
NoSenderBlocked ==
  \A s \in Servers, w \in Workers :
    worker[s][w] = "sending" => Cardinality(workerErr[s]) < Capacity

\* A process that ends without an error was asked to stop, and has left nothing
\* unfinished: every request is answered and every worker has returned.
CleanExit ==
  [][\A s \in Servers :
       exit[s] = "nil" /\ pc[s] # "stopped" /\ pc'[s] = "stopped" /\ exit'[s] = "nil" =>
         signalled[s] /\ NoRequests(s) /\ WorkersDone(s)
    ]_serverVars

\* A server that has begun to stop does stop, also when its clients keep their
\* requests open: the timeouts end the waiting, and Close waits for statements.
StoppingEnds ==
  \A s \in Servers : stage[s] = "shutdown" ~> pc[s] = "stopped"

=============================================================================
