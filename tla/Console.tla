-------------------------------- MODULE Console --------------------------------
(***************************************************************************)
(* The console: sessions, the three lists of master data (drones,          *)
(* operators and capabilities), commands, telemetry and the operation log. *)
(*                                                                         *)
(* Every store method that changes something is one SQL statement outside  *)
(* any transaction.  A handler commits its change first and then writes a  *)
(* log row with a second statement whose error it ignores: `logging' holds *)
(* what each request has changed and not logged yet.  A statement that     *)
(* fails, or matches no row, changes nothing and is no step.               *)
(***************************************************************************)
EXTENDS Integers, FiniteSets

CONSTANTS
  Drones, Operators, Capabilities,   \* ids of rows
  Commands,       \* ids of console_commands rows
  Telemetry,      \* ids of console_telemetry_records rows
  LogRows,        \* ids of console_logs rows
  Seeds,          \* drones, operators and capabilities migration 003 inserts
  PendingSeeds,   \* commands it inserts with status 0
  StartedSeeds,   \* commands it inserts with status 1
  TelemetrySeeds, \* telemetry records it inserts
  SeedAge,        \* how many hours old it says each of them is
  LogSeeds,       \* log rows it inserts
  Tokens,         \* uuids Login may draw
  Clients,        \* slots for requests in progress
  SessionLength,  \* Login's 12 hours
  MaxTime,        \* bound: the clock stops here
  MaxChanges      \* bound: clients change nothing after so many changes

Entries == Drones \union Operators \union Capabilities

ASSUME ConsoleAssumption ==
  /\ Seeds \subseteq Entries
  /\ PendingSeeds \subseteq Commands
  /\ StartedSeeds \subseteq Commands \ PendingSeeds
  /\ TelemetrySeeds \subseteq Telemetry
  /\ SeedAge \in [TelemetrySeeds -> {1, 2}]
  /\ LogSeeds \subseteq LogRows
  /\ SessionLength \in Nat
  /\ MaxTime \in Nat
  /\ MaxChanges \in Nat

ASSUME ConsoleFinite ==
  /\ IsFiniteSet(Entries)
  /\ IsFiniteSet(Commands)
  /\ IsFiniteSet(Telemetry)
  /\ IsFiniteSet(LogRows)
  /\ IsFiniteSet(Tokens)
  /\ IsFiniteSet(Clients)

VARIABLES
  now,
  console_entries,            \* console_drones, _operators and _capabilities
  console_commands,
  console_telemetry_records,
  console_sessions,
  console_logs,
  logging                     \* the change a request still has to log

consoleVars == <<now, console_entries, console_commands,
                 console_telemetry_records, console_sessions, console_logs,
                 logging>>

Time == 0 .. MaxTime

\* When the records that migration 003 inserts were made.
PastTime == -2 .. -1

\* What the handlers log.  The texts also tell the three lists apart.
EntryOps == {"create", "update", "delete"}
Ops == EntryOps \union {"login", "command", "status", "telemetry"}

EntryRow == [state : {"absent", "live", "deleted"}, created_at : Time]

CommandRow == [version : Nat, status : 0 .. 3, created_at : Time,
               drone : Drones, capability : Capabilities]

TelemetryRow == [drone : Drones, recorded_at : PastTime \union Time]

SessionRow == [state : {"absent", "open", "revoked"}, expires_at : Nat]

LogRow == [op : Ops \union {"initialise"}, created_at : Time]

NoRow == [absent |-> TRUE]   \* an id no row has yet

ConsoleTypeOK ==
  /\ now \in Time
  /\ console_entries \in [Entries -> EntryRow]
  /\ console_commands \in [Commands -> CommandRow \union {NoRow}]
  /\ console_telemetry_records \in [Telemetry -> TelemetryRow \union {NoRow}]
  /\ console_sessions \in [Tokens -> SessionRow]
  /\ console_logs \in [LogRows -> LogRow \union {NoRow}]
  /\ logging \in [Clients -> Ops \union {"nothing"}]

\* What migration 003 leaves in a row of each table: some with seeds, all of
\* them inserted in one transaction, so that now() is one instant.  Commands get
\* the default version whatever their status.
SeedCommand(k) ==
  LET Inserted(status) ==
        [version : {1}, status : {status}, created_at : {0},
         drone : Drones \intersect Seeds,
         capability : Capabilities \intersect Seeds]
  IN  CASE k \in PendingSeeds -> Inserted(0)
        [] k \in StartedSeeds -> Inserted(1)
        [] OTHER              -> {NoRow}

SeedTelemetry(h) ==
  IF h \in TelemetrySeeds
    THEN [drone : Drones \intersect Seeds, recorded_at : {- SeedAge[h]}]
    ELSE {NoRow}

SeedLog(l) ==
  IF l \in LogSeeds THEN [op |-> "initialise", created_at |-> 0] ELSE NoRow

ConsoleInit ==
  /\ now = 0
  /\ console_entries = [e \in Entries |->
       [state |-> IF e \in Seeds THEN "live" ELSE "absent", created_at |-> 0]]
  /\ console_commands \in [Commands -> UNION {SeedCommand(k) : k \in Commands}]
  /\ \A k \in Commands : console_commands[k] \in SeedCommand(k)
  /\ console_telemetry_records
       \in [Telemetry -> UNION {SeedTelemetry(h) : h \in Telemetry}]
  /\ \A h \in Telemetry : console_telemetry_records[h] \in SeedTelemetry(h)
  /\ console_sessions = [t \in Tokens |-> [state |-> "absent", expires_at |-> 0]]
  /\ console_logs = [l \in LogRows |-> SeedLog(l)]
  /\ logging = [c \in Clients |-> "nothing"]

-----------------------------------------------------------------------------
(***************************************************************************)
(* The store's statements.                                                 *)
(***************************************************************************)

\* The row a foreign key asks for; a deleted one is still there.
Exists(e) == console_entries[e].state # "absent"

Live(e) == console_entries[e].state = "live"

InsertEntry(e) ==
  /\ ~ Exists(e)
  /\ console_entries' = [console_entries EXCEPT ![e] =
       [state |-> "live", created_at |-> now]]

\* SET deleted_at=now() ... WHERE deleted_at IS NULL
DeleteEntry(e) ==
  /\ Live(e)
  /\ console_entries' = [console_entries EXCEPT ![e].state = "deleted"]

\* An update overwrites the columns of a live row, none of which is modelled.
ChangeEntry(e, op) ==
  \/ op = "create" /\ InsertEntry(e)
  \/ op = "update" /\ Live(e) /\ UNCHANGED console_entries
  \/ op = "delete" /\ DeleteEntry(e)

ChangeDrone(op) == \E d \in Drones : ChangeEntry(d, op)

ChangeOperator(op) == \E o \in Operators : ChangeEntry(o, op)

ChangeCapability(op) == \E s \in Capabilities : ChangeEntry(s, op)

\* The operator is optional, and nothing depends on it.
CreateCommand(k, d, s) ==
  /\ console_commands[k] = NoRow
  /\ Exists(d)
  /\ Exists(s)
  /\ console_commands' = [console_commands EXCEPT ![k] =
       [version |-> 1, status |-> 0, created_at |-> now,
        drone |-> d, capability |-> s]]

\* Pending, started, completed and cancelled: `allowed' in UpdateCommandStatus.
AllowedFrom(next) ==
  CASE next = 1 -> {0}
    [] next = 2 -> {1}
    [] next = 3 -> {0}
    [] OTHER    -> {}

\* Without AND status=ANY(...): the check made on an earlier read.
BadUpdateCommandStatus(k, next) ==
  /\ console_commands[k] # NoRow
  /\ AllowedFrom(next) # {}
  /\ console_commands[k].version < 4
  /\ console_commands' = [console_commands EXCEPT
       ![k].status = next, ![k].version = @ + 1]

UpdateCommandStatus(k, next) ==
  /\ console_commands[k] # NoRow
  /\ console_commands[k].status \in AllowedFrom(next)
  /\ console_commands' = [console_commands EXCEPT
       ![k].status = next, ![k].version = @ + 1]

\* A client may send recorded_at; without one the column's default is used.
CreateTelemetry(h, d, recorded_at) ==
  /\ console_telemetry_records[h] = NoRow
  /\ Exists(d)
  /\ console_telemetry_records' = [console_telemetry_records EXCEPT ![h] =
       [drone |-> d, recorded_at |-> recorded_at]]

\* Gives the user the session of the last login again.
BadLogin(t) ==
  console_sessions' = [console_sessions EXCEPT ![t] =
    [state |-> "open", expires_at |-> now + SessionLength]]

Login(t) ==
  /\ console_sessions[t].state = "absent"
  /\ console_sessions' = [console_sessions EXCEPT ![t] =
       [state |-> "open", expires_at |-> now + SessionLength]]

\* The row SessionUser and RevokeSession look for.
SessionUser(t) ==
  /\ console_sessions[t].state = "open"
  /\ console_sessions[t].expires_at > now

RevokeSession(t) ==
  /\ SessionUser(t)
  /\ console_sessions' = [console_sessions EXCEPT ![t].state = "revoked"]

WriteLog(op) ==
  \E l \in LogRows :
    /\ console_logs[l] = NoRow
    /\ console_logs' = [console_logs EXCEPT ![l] =
         [op |-> op, created_at |-> now]]

-----------------------------------------------------------------------------
(***************************************************************************)
(* The handlers, up to the commit of the change.                           *)
(***************************************************************************)

\* What the tables show of the changes of one kind since the installation: a
\* command's version counts its moves.  An update leaves no trace.
Effects(op) ==
  CASE op = "login"     -> {t \in Tokens : console_sessions[t].state # "absent"}
    [] op = "create"    -> {e \in Entries \ Seeds : Exists(e)}
    [] op = "delete"    -> {e \in Entries : console_entries[e].state = "deleted"}
    [] op = "command"   -> {k \in Commands \ (PendingSeeds \union StartedSeeds) :
                              console_commands[k] # NoRow}
    [] op = "status"    -> {m \in Commands \X (2 .. 3) :
                              /\ console_commands[m[1]] # NoRow
                              /\ m[2] <= console_commands[m[1]].version}
    [] op = "telemetry" -> {h \in Telemetry \ TelemetrySeeds :
                              console_telemetry_records[h] # NoRow}

Changes == UNION {{op} \X Effects(op) : op \in Ops \ {"update"}}

Changed(c, op) ==
  /\ logging[c] = "nothing"
  /\ Cardinality(Changes) < MaxChanges
  /\ logging' = [logging EXCEPT ![c] = op]

ConsoleLogin(c) ==
  /\ Changed(c, "login")
  /\ \E t \in Tokens : Login(t)
  /\ UNCHANGED <<now, console_entries, console_commands,
                 console_telemetry_records, console_logs>>

\* Not logged.
ConsoleLogout ==
  /\ \E t \in Tokens : RevokeSession(t)
  /\ UNCHANGED <<now, console_entries, console_commands,
                 console_telemetry_records, console_logs, logging>>

ConsoleChangeDrone(c, op) ==
  /\ Changed(c, op)
  /\ ChangeDrone(op)
  /\ UNCHANGED <<now, console_commands, console_telemetry_records,
                 console_sessions, console_logs>>

ConsoleChangeOperator(c, op) ==
  /\ Changed(c, op)
  /\ ChangeOperator(op)
  /\ UNCHANGED <<now, console_commands, console_telemetry_records,
                 console_sessions, console_logs>>

ConsoleChangeCapability(c, op) ==
  /\ Changed(c, op)
  /\ ChangeCapability(op)
  /\ UNCHANGED <<now, console_commands, console_telemetry_records,
                 console_sessions, console_logs>>

ConsoleCreateCommand(c) ==
  /\ Changed(c, "command")
  /\ \E k \in Commands, d \in Drones, s \in Capabilities : CreateCommand(k, d, s)
  /\ UNCHANGED <<now, console_entries, console_telemetry_records,
                 console_sessions, console_logs>>

\* The log row is written whether or not a row was changed.
BadConsoleUpdateCommandStatus(c) ==
  /\ Changed(c, "status")
  /\ \E k \in Commands, next \in 0 .. 3 :
       UpdateCommandStatus(k, next) \/ UNCHANGED console_commands
  /\ UNCHANGED <<now, console_entries, console_telemetry_records,
                 console_sessions, console_logs>>

ConsoleUpdateCommandStatus(c) ==
  /\ Changed(c, "status")
  /\ \E k \in Commands, next \in 0 .. 3 : UpdateCommandStatus(k, next)
  /\ UNCHANGED <<now, console_entries, console_telemetry_records,
                 console_sessions, console_logs>>

ConsoleCreateTelemetry(c) ==
  /\ Changed(c, "telemetry")
  /\ \E h \in Telemetry, d \in Drones, at \in Time : CreateTelemetry(h, d, at)
  /\ UNCHANGED <<now, console_entries, console_commands, console_sessions,
                 console_logs>>

\* recordConsoleOperation: the error is dropped, so the row may be missing.
RecordConsoleOperation(c) ==
  /\ logging[c] # "nothing"
  /\ WriteLog(logging[c]) \/ UNCHANGED console_logs
  /\ logging' = [logging EXCEPT ![c] = "nothing"]
  /\ UNCHANGED <<now, console_entries, console_commands,
                 console_telemetry_records, console_sessions>>

Tick ==
  /\ now < MaxTime
  /\ now' = now + 1
  /\ UNCHANGED <<console_entries, console_commands, console_telemetry_records,
                 console_sessions, console_logs, logging>>

ConsoleNext ==
  \/ Tick
  \/ ConsoleLogout
  \/ \E c \in Clients :
       \/ ConsoleLogin(c)
       \/ \E op \in EntryOps :
            \/ ConsoleChangeDrone(c, op)
            \/ ConsoleChangeOperator(c, op)
            \/ ConsoleChangeCapability(c, op)
       \/ ConsoleCreateCommand(c)
       \/ ConsoleUpdateCommandStatus(c)
       \/ ConsoleCreateTelemetry(c)
       \/ RecordConsoleOperation(c)

ConsoleSpec == ConsoleInit /\ [][ConsoleNext]_consoleVars

-----------------------------------------------------------------------------
(***************************************************************************)
(* Properties.                                                             *)
(***************************************************************************)

\* The version of a command says how often it moved since it was inserted, and
\* agrees with where it is: of several requests that start, finish or cancel one
\* command at once, each move takes effect once, and a command that was started,
\* by a request or by the migration, is never cancelled.
CommandMovesOnce ==
  \A k \in Commands :
    LET row == console_commands[k] IN
    row # NoRow =>
      <<row.version, row.status>> \in
        IF k \in StartedSeeds
          THEN {<<1, 1>>, <<2, 2>>}
          ELSE {<<1, 0>>, <<2, 1>>, <<3, 2>>, <<2, 3>>}

\* A drone or a capability that is deleted after a command or a telemetry
\* record named it is still joined to it.
ReferencesStay ==
  /\ \A k \in Commands : console_commands[k] # NoRow =>
       Exists(console_commands[k].drone) /\ Exists(console_commands[k].capability)
  /\ \A h \in Telemetry : console_telemetry_records[h] # NoRow =>
       Exists(console_telemetry_records[h].drone)

Logged(op) ==
  {l \in LogRows : console_logs[l] # NoRow /\ console_logs[l].op = op}

Logging(op) == {c \in Clients : logging[c] = op}

\* A log row is evidence: each stands for a change of its own that took effect.
\* Rows may be missing, since the log is written after the change committed and
\* outside any transaction, but none is there for a change that was refused.
LogsAreEvidence ==
  \A op \in Ops \ {"update"} :
    Cardinality(Logged(op)) + Cardinality(Logging(op)) <= Cardinality(Effects(op))

\* A session that was revoked or ran out answers no request again.
SessionsEndForGood ==
  [][\A t \in Tokens :
       console_sessions[t].state # "absent" /\ ~ SessionUser(t) =>
         ~ SessionUser(t)'
    ]_consoleVars

=============================================================================
