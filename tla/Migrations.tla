----------------------------- MODULE Migrations -----------------------------
(***************************************************************************)
(* Servers that bring one database up to date when they start              *)
(* (internal/db/migrate.go).  Each goes through the migrations of its own  *)
(* release in order of their numbers, one transaction per migration, under *)
(* an advisory lock that PostgreSQL gives back when the transaction ends.  *)
(*                                                                         *)
(* What a transaction has done is invisible until COMMIT, so the SQL of a  *)
(* migration, its record and COMMIT are one step.  The lock and the query  *)
(* that asks for the record are steps of their own: READ COMMITTED gives   *)
(* the query a snapshot taken after the lock was granted.                  *)
(***************************************************************************)
EXTENDS Naturals, Sequences

CONSTANTS
  Servers,
  Release,  \* a server's migration files are numbered 1 .. Release[s]
  Nobody    \* the holder of a lock that is free

ASSUME ReleaseAssumption ==
  /\ Release \in [Servers -> Nat \ {0}]
  /\ Nobody \notin Servers

VARIABLES
  schema_migrations,  \* the versions recorded
  schema,             \* the migrations that took effect, in that order
  lock,               \* who holds the advisory lock
  pc,                 \* where each server is in Migrate
  version,            \* the migration a server is at
  applied             \* what a server's query for its record returned

vars == <<schema_migrations, schema, lock, pc, version, applied>>

TypeOK ==
  /\ schema_migrations \in SUBSET (Nat \ {0})
  /\ schema \in Seq(Nat \ {0})
  /\ lock \in Servers \union {Nobody}
  /\ pc \in [Servers ->
       {"stopped", "create", "begin", "locked", "read", "serving"}]
  /\ version \in [Servers -> Nat \ {0}]
  /\ \A s \in Servers : version[s] <= Release[s] + 1
  /\ applied \in [Servers -> BOOLEAN]

Init ==
  /\ schema_migrations = {}
  /\ schema = <<>>
  /\ lock = Nobody
  /\ pc = [s \in Servers |-> "stopped"]
  /\ version = [s \in Servers |-> 1]
  /\ applied = [s \in Servers |-> FALSE]

\* A server is started, for the first time or again.
Start(s) ==
  /\ pc[s] = "stopped"
  /\ pc' = [pc EXCEPT ![s] = "create"]
  /\ version' = [version EXCEPT ![s] = 1]
  /\ UNCHANGED <<schema_migrations, schema, lock, applied>>

\* CREATE TABLE IF NOT EXISTS schema_migrations.  Two servers that do this at
\* once on a new database may both see no table, and one of them Fails.
CreateTable(s) ==
  /\ pc[s] = "create"
  /\ pc' = [pc EXCEPT ![s] = "begin"]
  /\ UNCHANGED <<schema_migrations, schema, lock, version, applied>>

\* BEGIN and pg_advisory_xact_lock, which waits for the holder's transaction.
Lock(s) ==
  /\ pc[s] = "begin"
  /\ lock = Nobody
  /\ lock' = s
  /\ pc' = [pc EXCEPT ![s] = "locked"]
  /\ UNCHANGED <<schema_migrations, schema, version, applied>>

\* SELECT EXISTS (... WHERE version = ...)
ReadState(s) ==
  /\ pc[s] = "locked"
  /\ pc' = [pc EXCEPT ![s] = "read"]
  /\ applied' = [applied EXCEPT ![s] = version[s] \in schema_migrations]
  /\ UNCHANGED <<schema_migrations, schema, lock, version>>

\* Forgetting the last file.
BadAfter(s) ==
  IF version[s] + 1 >= Release[s] THEN "serving" ELSE "begin"

\* Where the loop of Migrate goes after the migration a server is at.
After(s) == IF version[s] = Release[s] THEN "serving" ELSE "begin"

\* The migration's SQL and its record, unless it was applied before, and
\* COMMIT.  The record's primary key refuses a version that is recorded.
CommitMigration(s) ==
  /\ pc[s] = "read"
  /\ IF applied[s]
     THEN UNCHANGED <<schema_migrations, schema>>
     ELSE /\ version[s] \notin schema_migrations
          /\ schema' = Append(schema, version[s])
          /\ schema_migrations' = schema_migrations \union {version[s]}
  /\ lock' = Nobody
  /\ pc' = [pc EXCEPT ![s] = After(s)]
  /\ version' = [version EXCEPT ![s] = @ + 1]
  /\ UNCHANGED applied

\* Going on with the next file after an error.
BadFail(s) ==
  /\ pc[s] # "stopped"
  /\ pc' = [pc EXCEPT ![s] = IF @ = "serving" THEN "stopped" ELSE After(s)]
  /\ version' = [version EXCEPT ![s] = @ + 1]
  /\ lock' = IF lock = s THEN Nobody ELSE lock
  /\ UNCHANGED <<schema_migrations, schema, applied>>

\* A lock of the session, which a rollback does not give back.
BadFailKeepingLock(s) ==
  /\ pc[s] # "stopped"
  /\ pc' = [pc EXCEPT ![s] = "stopped"]
  /\ UNCHANGED <<schema_migrations, schema, lock, version, applied>>

\* An error anywhere, a signal or a crash: the transaction is rolled back, its
\* lock is given back, and the process ends.
Fail(s) ==
  /\ pc[s] # "stopped"
  /\ pc' = [pc EXCEPT ![s] = "stopped"]
  /\ lock' = IF lock = s THEN Nobody ELSE lock
  /\ UNCHANGED <<schema_migrations, schema, version, applied>>

Migrate(s) ==
  CreateTable(s) \/ Lock(s) \/ ReadState(s) \/ CommitMigration(s)

Next == \E s \in Servers : Start(s) \/ Migrate(s) \/ Fail(s)

\* A running server goes on.  PostgreSQL queues those who wait for a lock, so
\* a server is not overtaken for ever, even by others that start and fail.
Fairness ==
  \A s \in Servers :
    /\ WF_vars(CreateTable(s))
    /\ SF_vars(Lock(s))
    /\ WF_vars(ReadState(s))
    /\ WF_vars(CommitMigration(s))

Spec == Init /\ [][Next]_vars /\ Fairness

-----------------------------------------------------------------------------
(***************************************************************************)
(* Properties.                                                             *)
(***************************************************************************)

\* Every migration took effect at most once, in order, with none left out, and
\* the records say exactly that: max(version), which CurrentMigration returns,
\* stands for all of them, whatever servers of several releases did and
\* wherever they crashed.
SchemaMatchesRecords ==
  /\ schema_migrations = 1 .. Len(schema)
  /\ \A i \in 1 .. Len(schema) : schema[i] = i

\* What a server has read about its migration is still true when it acts on it:
\* no migration runs on a schema that has it, and no record collides.
ReadIsCurrent ==
  \A s \in Servers :
    pc[s] = "read" => (applied[s] <=> version[s] \in schema_migrations)

\* A server serves only on a schema that has all of its release's migrations.
ServingMeansMigrated ==
  \A s \in Servers :
    pc[s] = "serving" => 1 .. Release[s] \subseteq schema_migrations

\* A server that starts serves in the end, or has failed: no server waits for
\* ever for a lock that a failed one left behind.
StartsEnd ==
  \A s \in Servers : pc[s] = "create" ~> pc[s] \in {"serving", "stopped"}

\* Who is inside a transaction holds the lock, and no one else does.
LockIsHeld ==
  \A s \in Servers : pc[s] \in {"locked", "read"} <=> lock = s

\* A server has left behind only migrations that are recorded.
LeftBehindIsRecorded ==
  \A s \in Servers :
    /\ pc[s] # "stopped" => 1 .. (version[s] - 1) \subseteq schema_migrations
    /\ pc[s] \in {"create", "begin", "locked", "read"} =>
         version[s] <= Release[s]
    /\ pc[s] = "serving" => version[s] = Release[s] + 1

\* Inductive, whatever the releases are and however often servers fail.
UpgradeInv ==
  /\ TypeOK
  /\ LockIsHeld
  /\ LeftBehindIsRecorded
  /\ SchemaMatchesRecords
  /\ ReadIsCurrent

=============================================================================
