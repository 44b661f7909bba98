--------------------------- MODULE ConsoleProofs ---------------------------
(***************************************************************************)
(* Proofs about the console, for any rows, clients, session length and     *)
(* bounds, also while a client pages through a list.                       *)
(***************************************************************************)
EXTENDS ConsolePages, FiniteSetTheorems, TLAPS

\* What migration 003 inserted is there for ever.
SeedsExist ==
  /\ \A e \in Seeds : Exists(e)
  /\ \A k \in PendingSeeds \union StartedSeeds : console_commands[k] # NoRow
  /\ \A h \in TelemetrySeeds : console_telemetry_records[h] # NoRow

\* Inductive.
ConsoleInv ==
  /\ ConsoleTypeOK
  /\ CommandMovesOnce
  /\ ReferencesStay
  /\ SeedsExist

-----------------------------------------------------------------------------
(***************************************************************************)
(* The statements one by one.                                              *)
(***************************************************************************)

\* An insert, an update or a deletion in one of the lists of master data.
LEMMA EntryStep ==
  ASSUME ConsoleInv, NEW e \in Entries, NEW op \in EntryOps, ChangeEntry(e, op)
  PROVE  /\ console_entries' \in [Entries -> EntryRow]
         /\ \A f \in Entries : Exists(f) => Exists(f)'
         /\ op = "create" =>
              /\ ~ Exists(e)
              /\ console_entries'[e].state = "live"
              /\ \A f \in Entries \ {e} : console_entries'[f] = console_entries[f]
         /\ op = "update" => console_entries' = console_entries
         /\ op = "delete" =>
              /\ Live(e)
              /\ console_entries'[e].state = "deleted"
              /\ console_entries'[e].created_at = console_entries[e].created_at
              /\ \A f \in Entries \ {e} : console_entries'[f] = console_entries[f]
<1>1. /\ console_entries \in [Entries -> EntryRow]
      /\ now \in Time
  BY DEF ConsoleInv, ConsoleTypeOK
<1>2. CASE op = "create"
  <2> DEFINE row == [state |-> "live", created_at |-> now]
  <2>1. row \in EntryRow /\ row.state = "live"
    BY <1>1 DEF EntryRow
  <2> HIDE DEF row
  <2>2. ~ Exists(e) /\ console_entries' = [console_entries EXCEPT ![e] = row]
    BY <1>2 DEF ChangeEntry, InsertEntry, row
  <2>3. QED
    BY <1>1, <1>2, <2>1, <2>2 DEF Exists
<1>3. CASE op = "update"
  BY <1>1, <1>3 DEF ChangeEntry, Exists
<1>4. CASE op = "delete"
  <2> DEFINE row == [console_entries[e] EXCEPT !.state = "deleted"]
  <2>1. /\ row \in EntryRow
        /\ row.state = "deleted"
        /\ row.created_at = console_entries[e].created_at
    BY <1>1 DEF EntryRow
  <2> HIDE DEF row
  <2>2. Live(e) /\ console_entries' = [console_entries EXCEPT ![e] = row]
    BY <1>4 DEF ChangeEntry, DeleteEntry, row
  <2>3. QED
    BY <1>1, <1>4, <2>1, <2>2 DEF Exists
<1>5. QED
  BY <1>2, <1>3, <1>4 DEF EntryOps

\* A new command is pending and names rows that exist.
LEMMA CreateCommandStep ==
  ASSUME ConsoleInv, NEW k \in Commands, NEW d \in Drones,
         NEW s \in Capabilities, CreateCommand(k, d, s)
  PROVE  /\ console_commands' \in [Commands -> CommandRow \union {NoRow}]
         /\ console_commands[k] = NoRow
         /\ console_commands'[k] # NoRow
         /\ console_commands'[k].version = 1
         /\ console_commands'[k].status = 0
         /\ Exists(console_commands'[k].drone)
         /\ Exists(console_commands'[k].capability)
         /\ \A j \in Commands \ {k} : console_commands'[j] = console_commands[j]
<1> DEFINE row == [version |-> 1, status |-> 0, created_at |-> now,
                   drone |-> d, capability |-> s]
<1>1. /\ console_commands \in [Commands -> CommandRow \union {NoRow}]
      /\ now \in Time
  BY DEF ConsoleInv, ConsoleTypeOK
<1>2. row \in CommandRow
  BY <1>1 DEF CommandRow
<1>3. row.version = 1 /\ row.status = 0 /\ row.drone = d /\ row.capability = s
  OBVIOUS
<1>4. "version" \in DOMAIN row /\ "version" \notin DOMAIN NoRow
  BY DEF NoRow
<1>5. row # NoRow
  BY <1>4
<1> HIDE DEF row
<1>6. /\ console_commands' = [console_commands EXCEPT ![k] = row]
      /\ console_commands[k] = NoRow
      /\ Exists(d) /\ Exists(s)
  BY DEF CreateCommand, row
<1>7. QED
  BY <1>1, <1>2, <1>3, <1>5, <1>6

\* A command moves along its three moves, and its version counts them.
LEMMA CommandStatusStep ==
  ASSUME ConsoleInv, NEW k \in Commands, NEW next \in 0 .. 3,
         UpdateCommandStatus(k, next)
  PROVE  /\ console_commands' \in [Commands -> CommandRow \union {NoRow}]
         /\ console_commands[k] # NoRow
         /\ console_commands'[k] # NoRow
         /\ console_commands[k].version \in 1 .. 2
         /\ console_commands'[k].version = console_commands[k].version + 1
         /\ console_commands'[k].status = next
         /\ console_commands[k].status \in AllowedFrom(next)
         /\ console_commands'[k].drone = console_commands[k].drone
         /\ console_commands'[k].capability = console_commands[k].capability
         /\ console_commands'[k].created_at = console_commands[k].created_at
         /\ \A j \in Commands \ {k} : console_commands'[j] = console_commands[j]
<1> DEFINE old == console_commands[k]
           row == [old EXCEPT !.status = next, !.version = @ + 1]
<1>1. /\ console_commands \in [Commands -> CommandRow \union {NoRow}]
      /\ old # NoRow
      /\ old.status \in AllowedFrom(next)
      /\ console_commands' = [console_commands EXCEPT ![k] = row]
  BY DEF ConsoleInv, ConsoleTypeOK, UpdateCommandStatus
<1>2. old \in CommandRow
  BY <1>1
<1>3. /\ old.version \in Nat
      /\ old.status \in 0 .. 3
  BY <1>2 DEF CommandRow
<1>4. <<old.version, old.status>> \in
        IF k \in StartedSeeds
          THEN {<<1, 1>>, <<2, 2>>}
          ELSE {<<1, 0>>, <<2, 1>>, <<3, 2>>, <<2, 3>>}
  BY <1>1 DEF ConsoleInv, CommandMovesOnce
<1>5. old.status \in {0, 1}
  BY <1>1 DEF AllowedFrom
<1>6. old.version \in 1 .. 2
  BY <1>4, <1>5
<1>7. old.version + 1 \in Nat
  BY <1>3
<1>8. row \in CommandRow
  BY <1>2, <1>7, Zenon DEF CommandRow
<1>9. /\ row.status = next
      /\ row.version = old.version + 1
      /\ row.drone = old.drone
      /\ row.capability = old.capability
      /\ row.created_at = old.created_at
  BY <1>2 DEF CommandRow
<1>10. "version" \in DOMAIN row /\ "version" \notin DOMAIN NoRow
  BY <1>2 DEF CommandRow, NoRow
<1>11. row # NoRow
  BY <1>10
<1> HIDE DEF row
<1>12. QED
  BY <1>1, <1>6, <1>8, <1>9, <1>11

\* A telemetry record names a drone that exists.
LEMMA TelemetryStep ==
  ASSUME ConsoleInv, NEW h \in Telemetry, NEW d \in Drones, NEW at \in Time,
         CreateTelemetry(h, d, at)
  PROVE  /\ console_telemetry_records'
              \in [Telemetry -> TelemetryRow \union {NoRow}]
         /\ console_telemetry_records[h] = NoRow
         /\ console_telemetry_records'[h] # NoRow
         /\ Exists(console_telemetry_records'[h].drone)
         /\ \A j \in Telemetry \ {h} :
              console_telemetry_records'[j] = console_telemetry_records[j]
<1> DEFINE row == [drone |-> d, recorded_at |-> at]
<1>1. console_telemetry_records \in [Telemetry -> TelemetryRow \union {NoRow}]
  BY DEF ConsoleInv, ConsoleTypeOK
<1>2. row \in TelemetryRow /\ row.drone = d
  BY DEF TelemetryRow
<1>3. "drone" \in DOMAIN row /\ "drone" \notin DOMAIN NoRow
  BY DEF NoRow
<1>4. row # NoRow
  BY <1>3
<1> HIDE DEF row
<1>5. /\ console_telemetry_records' =
           [console_telemetry_records EXCEPT ![h] = row]
      /\ console_telemetry_records[h] = NoRow
      /\ Exists(d)
  BY DEF CreateTelemetry, row
<1>6. QED
  BY <1>1, <1>2, <1>4, <1>5

\* A log row takes a free id.
LEMMA WriteLogStep ==
  ASSUME ConsoleInv, NEW op \in Ops, NEW l \in LogRows,
         console_logs[l] = NoRow,
         console_logs' = [console_logs EXCEPT ![l] =
                            [op |-> op, created_at |-> now]]
  PROVE  /\ console_logs' \in [LogRows -> LogRow \union {NoRow}]
         /\ console_logs'[l] # NoRow
         /\ console_logs'[l].op = op
         /\ \A j \in LogRows \ {l} : console_logs'[j] = console_logs[j]
<1> DEFINE row == [op |-> op, created_at |-> now]
<1>1. /\ console_logs \in [LogRows -> LogRow \union {NoRow}]
      /\ now \in Time
  BY DEF ConsoleInv, ConsoleTypeOK
<1>2. row \in LogRow /\ row.op = op
  BY <1>1 DEF LogRow
<1>3. "op" \in DOMAIN row /\ "op" \notin DOMAIN NoRow
  BY DEF NoRow
<1>4. row # NoRow
  BY <1>3
<1>5. console_logs' = [console_logs EXCEPT ![l] = row]
  OBVIOUS
<1> HIDE DEF row
<1>6. QED
  BY <1>1, <1>2, <1>4, <1>5

-----------------------------------------------------------------------------
(***************************************************************************)
(* The invariant.                                                          *)
(***************************************************************************)

\* The seeds and nothing else.
LEMMA InitConsole == ConsoleInit => ConsoleInv
<1> SUFFICES ASSUME ConsoleInit PROVE ConsoleInv
  OBVIOUS
<1>1. /\ console_entries = [e \in Entries |->
           [state |-> IF e \in Seeds THEN "live" ELSE "absent", created_at |-> 0]]
      /\ \A k \in Commands : console_commands[k] \in SeedCommand(k)
      /\ \A h \in Telemetry : console_telemetry_records[h] \in SeedTelemetry(h)
      /\ console_logs = [l \in LogRows |-> SeedLog(l)]
  BY DEF ConsoleInit
<1>2. \A e \in Seeds : Exists(e)
  BY <1>1, ConsoleAssumption DEF Exists
<1>3. ASSUME NEW k \in Commands
      PROVE  LET row == console_commands[k] IN
             \/ row = NoRow /\ k \notin PendingSeeds \union StartedSeeds
             \/ /\ row \in CommandRow /\ row # NoRow
                /\ row.version = 1
                /\ row.status = IF k \in StartedSeeds THEN 1 ELSE 0
                /\ row.drone \in Seeds /\ row.capability \in Seeds
  <2> DEFINE row == console_commands[k]
             Inserted(status) ==
               [version : {1}, status : {status}, created_at : {0},
                drone : Drones \intersect Seeds,
                capability : Capabilities \intersect Seeds]
  <2>1. 0 \in Time
    BY ConsoleAssumption DEF Time
  <2>2. ASSUME NEW status \in 0 .. 1, row \in Inserted(status)
        PROVE  /\ row \in CommandRow /\ row # NoRow
               /\ row.version = 1 /\ row.status = status
               /\ row.drone \in Seeds /\ row.capability \in Seeds
    <3>1. row \in CommandRow
      BY <2>1, <2>2 DEF CommandRow
    <3>2. "version" \in DOMAIN row /\ "version" \notin DOMAIN NoRow
      BY <2>2 DEF NoRow
    <3>3. row # NoRow
      BY <3>2
    <3>4. QED
      BY <2>2, <3>1, <3>3
  <2>3. CASE k \in PendingSeeds
    <3>1. row \in Inserted(0) /\ k \notin StartedSeeds
      BY <1>1, <2>3, ConsoleAssumption DEF SeedCommand
    <3>2. QED
      BY <2>2, <3>1
  <2>4. CASE k \in StartedSeeds
    <3>1. row \in Inserted(1)
      BY <1>1, <2>4, ConsoleAssumption DEF SeedCommand
    <3>2. QED
      BY <2>2, <2>4, <3>1
  <2>5. CASE k \notin PendingSeeds \union StartedSeeds
    BY <1>1, <2>5 DEF SeedCommand
  <2>6. QED
    BY <2>3, <2>4, <2>5
<1>4. ASSUME NEW h \in Telemetry
      PROVE  LET row == console_telemetry_records[h] IN
             \/ row = NoRow /\ h \notin TelemetrySeeds
             \/ row \in TelemetryRow /\ row # NoRow /\ row.drone \in Seeds
  <2> DEFINE row == console_telemetry_records[h]
  <2>1. CASE h \in TelemetrySeeds
    <3>1. row \in [drone : Drones \intersect Seeds, recorded_at : PastTime]
      <4>1. row \in [drone : Drones \intersect Seeds, recorded_at : {- SeedAge[h]}]
        BY <1>1, <2>1 DEF SeedTelemetry
      <4>2. SeedAge[h] \in {1, 2}
        BY <2>1, ConsoleAssumption
      <4>3. - SeedAge[h] \in PastTime
        BY <4>2 DEF PastTime
      <4>4. row = [drone |-> row.drone, recorded_at |-> row.recorded_at]
            /\ row.drone \in Drones \intersect Seeds /\ row.recorded_at = - SeedAge[h]
        BY <4>1
      <4>5. QED
        BY <4>3, <4>4
    <3>2. "drone" \in DOMAIN row /\ "drone" \notin DOMAIN NoRow
      BY <3>1 DEF NoRow
    <3>3. row # NoRow
      BY <3>2
    <3>4. QED
      BY <3>1, <3>3 DEF TelemetryRow
  <2>2. CASE h \notin TelemetrySeeds
    BY <1>1, <2>2 DEF SeedTelemetry
  <2>3. QED
    BY <2>1, <2>2
<1>5. ConsoleTypeOK
  <2>1. 0 \in Time /\ 0 \in Nat
    BY ConsoleAssumption DEF Time
  <2>2. \A e \in Entries :
          [state |-> IF e \in Seeds THEN "live" ELSE "absent", created_at |-> 0]
            \in EntryRow
    BY <2>1 DEF EntryRow
  <2>3. [state |-> "absent", expires_at |-> 0] \in SessionRow
    BY <2>1 DEF SessionRow
  <2>4. console_commands \in [Commands -> CommandRow \union {NoRow}]
    <3>1. \A k \in Commands : console_commands[k] \in CommandRow \union {NoRow}
      BY <1>3
    <3>2. console_commands \in [Commands -> UNION {SeedCommand(k) : k \in Commands}]
      BY DEF ConsoleInit
    <3>3. QED
      BY <3>1, <3>2
  <2>5. console_telemetry_records \in [Telemetry -> TelemetryRow \union {NoRow}]
    <3>1. \A h \in Telemetry :
            console_telemetry_records[h] \in TelemetryRow \union {NoRow}
      BY <1>4
    <3>2. console_telemetry_records
            \in [Telemetry -> UNION {SeedTelemetry(h) : h \in Telemetry}]
      BY DEF ConsoleInit
    <3>3. QED
      BY <3>1, <3>2
  <2>6. [op |-> "initialise", created_at |-> 0] \in LogRow
    BY <2>1 DEF LogRow
  <2>7. console_logs \in [LogRows -> LogRow \union {NoRow}]
    BY <1>1, <2>6 DEF SeedLog
  <2>8. /\ now \in Time
        /\ console_entries \in [Entries -> EntryRow]
        /\ console_sessions \in [Tokens -> SessionRow]
        /\ logging \in [Clients -> Ops \union {"nothing"}]
    BY <2>1, <2>2, <2>3 DEF ConsoleInit
  <2>9. QED
    BY <2>4, <2>5, <2>7, <2>8 DEF ConsoleTypeOK
<1>6. CommandMovesOnce
  BY <1>3 DEF CommandMovesOnce
<1>7. ReferencesStay
  BY <1>2, <1>3, <1>4 DEF ReferencesStay
<1>8. SeedsExist
  <2>1. \A k \in PendingSeeds \union StartedSeeds : console_commands[k] # NoRow
    BY <1>3, ConsoleAssumption
  <2>2. \A h \in TelemetrySeeds : console_telemetry_records[h] # NoRow
    BY <1>4, ConsoleAssumption
  <2>3. QED
    BY <1>2, <2>1, <2>2 DEF SeedsExist
<1>9. QED
  BY <1>5, <1>6, <1>7, <1>8 DEF ConsoleInv

\* The variables a request's change leaves alone keep their types.
LEMMA ChangedType ==
  ASSUME ConsoleInv, NEW c \in Clients, NEW op \in Ops, Changed(c, op)
  PROVE  logging' \in [Clients -> Ops \union {"nothing"}]
BY DEF ConsoleInv, ConsoleTypeOK, Changed

\* A change of the master data.
LEMMA EntryInv ==
  ASSUME ConsoleInv, NEW e \in Entries, NEW op \in EntryOps, ChangeEntry(e, op),
         NEW c \in Clients, Changed(c, op),
         UNCHANGED <<now, console_commands, console_telemetry_records,
                     console_sessions, console_logs>>
  PROVE  ConsoleInv'
<1>1. /\ console_entries' \in [Entries -> EntryRow]
      /\ \A f \in Entries : Exists(f) => Exists(f)'
  BY EntryStep
<1>2. logging' \in [Clients -> Ops \union {"nothing"}]
  BY ChangedType DEF Ops
<1>3. ConsoleTypeOK'
  BY <1>1, <1>2 DEF ConsoleInv, ConsoleTypeOK
<1>4. CommandMovesOnce'
  BY DEF ConsoleInv, CommandMovesOnce
<1>5. SeedsExist'
  BY <1>1, ConsoleAssumption DEF ConsoleInv, SeedsExist
<1>6. ReferencesStay'
  <2>1. \A k \in Commands : console_commands[k] # NoRow =>
          /\ console_commands[k].drone \in Entries
          /\ console_commands[k].capability \in Entries
    BY DEF ConsoleInv, ConsoleTypeOK, CommandRow, Entries
  <2>2. \A h \in Telemetry : console_telemetry_records[h] # NoRow =>
          console_telemetry_records[h].drone \in Entries
    BY DEF ConsoleInv, ConsoleTypeOK, TelemetryRow, Entries
  <2>3. QED
    BY <1>1, <2>1, <2>2 DEF ConsoleInv, ReferencesStay
<1>7. QED
  BY <1>3, <1>4, <1>5, <1>6 DEF ConsoleInv

\* A new command.
LEMMA CreateCommandInv ==
  ASSUME ConsoleInv, NEW c \in Clients, ConsoleCreateCommand(c)
  PROVE  ConsoleInv'
<1>1. PICK k \in Commands, d \in Drones, s \in Capabilities :
        CreateCommand(k, d, s)
  BY DEF ConsoleCreateCommand
<1> DEFINE row == console_commands'[k]
<1>2. /\ console_commands' \in [Commands -> CommandRow \union {NoRow}]
      /\ row.version = 1
      /\ row.status = 0
      /\ Exists(row.drone)
      /\ Exists(row.capability)
      /\ \A j \in Commands \ {k} : console_commands'[j] = console_commands[j]
  BY <1>1, CreateCommandStep
<1>3. UNCHANGED <<now, console_entries, console_telemetry_records,
                  console_sessions, console_logs>>
  BY DEF ConsoleCreateCommand
<1>4. logging' \in [Clients -> Ops \union {"nothing"}]
  BY ChangedType DEF Ops, ConsoleCreateCommand
<1>5. ConsoleTypeOK'
  BY <1>2, <1>3, <1>4 DEF ConsoleInv, ConsoleTypeOK
<1>6. CommandMovesOnce'
  <2>1. k \notin StartedSeeds
    BY <1>1 DEF ConsoleInv, SeedsExist, CreateCommand
  <2>2. QED
    BY <1>2, <2>1 DEF ConsoleInv, CommandMovesOnce
<1>7. ReferencesStay'
  BY <1>2, <1>3 DEF ConsoleInv, ReferencesStay, Exists
<1>8. SeedsExist'
  <2>1. \A j \in Commands :
          console_commands[j] # NoRow => console_commands'[j] # NoRow
    BY <1>1, <1>2, CreateCommandStep
  <2>2. QED
    BY <1>3, <2>1, ConsoleAssumption DEF ConsoleInv, SeedsExist, Exists
<1>9. QED
  BY <1>5, <1>6, <1>7, <1>8 DEF ConsoleInv

\* A command that starts, is completed or is cancelled.
LEMMA CommandStatusInv ==
  ASSUME ConsoleInv, NEW c \in Clients, ConsoleUpdateCommandStatus(c)
  PROVE  ConsoleInv'
<1>1. PICK k \in Commands, next \in 0 .. 3 : UpdateCommandStatus(k, next)
  BY DEF ConsoleUpdateCommandStatus
<1> DEFINE old == console_commands[k]
           row == console_commands'[k]
<1>2. /\ console_commands' \in [Commands -> CommandRow \union {NoRow}]
      /\ old # NoRow
      /\ row.version = old.version + 1
      /\ row.status = next
      /\ old.status \in AllowedFrom(next)
      /\ row.drone = old.drone
      /\ row.capability = old.capability
      /\ \A j \in Commands \ {k} : console_commands'[j] = console_commands[j]
  BY <1>1, CommandStatusStep
<1>3. UNCHANGED <<now, console_entries, console_telemetry_records,
                  console_sessions, console_logs>>
  BY DEF ConsoleUpdateCommandStatus
<1>4. logging' \in [Clients -> Ops \union {"nothing"}]
  BY ChangedType DEF Ops, ConsoleUpdateCommandStatus
<1>5. ConsoleTypeOK'
  BY <1>2, <1>3, <1>4 DEF ConsoleInv, ConsoleTypeOK
<1>6. CommandMovesOnce'
  <2>1. <<old.version, old.status>> \in
          IF k \in StartedSeeds
            THEN {<<1, 1>>, <<2, 2>>}
            ELSE {<<1, 0>>, <<2, 1>>, <<3, 2>>, <<2, 3>>}
    BY <1>2 DEF ConsoleInv, CommandMovesOnce
  <2>2. <<row.version, row.status>> \in
          IF k \in StartedSeeds
            THEN {<<1, 1>>, <<2, 2>>}
            ELSE {<<1, 0>>, <<2, 1>>, <<3, 2>>, <<2, 3>>}
    BY <1>2, <2>1 DEF AllowedFrom
  <2>3. QED
    BY <1>2, <2>2 DEF ConsoleInv, CommandMovesOnce
<1>7. ReferencesStay'
  BY <1>2, <1>3 DEF ConsoleInv, ReferencesStay, Exists
<1>8. SeedsExist'
  <2>1. \A j \in Commands :
          console_commands[j] # NoRow => console_commands'[j] # NoRow
    BY <1>1, <1>2, CommandStatusStep
  <2>2. QED
    BY <1>3, <2>1, ConsoleAssumption DEF ConsoleInv, SeedsExist, Exists
<1>9. QED
  BY <1>5, <1>6, <1>7, <1>8 DEF ConsoleInv

\* A new telemetry record.
LEMMA TelemetryInv ==
  ASSUME ConsoleInv, NEW c \in Clients, ConsoleCreateTelemetry(c)
  PROVE  ConsoleInv'
<1>1. PICK h \in Telemetry, d \in Drones, at \in Time : CreateTelemetry(h, d, at)
  BY DEF ConsoleCreateTelemetry
<1>2. /\ console_telemetry_records'
           \in [Telemetry -> TelemetryRow \union {NoRow}]
      /\ Exists(console_telemetry_records'[h].drone)
      /\ \A j \in Telemetry \ {h} :
           console_telemetry_records'[j] = console_telemetry_records[j]
  BY <1>1, TelemetryStep
<1>3. UNCHANGED <<now, console_entries, console_commands, console_sessions,
                  console_logs>>
  BY DEF ConsoleCreateTelemetry
<1>4. logging' \in [Clients -> Ops \union {"nothing"}]
  BY ChangedType DEF Ops, ConsoleCreateTelemetry
<1>5. ConsoleTypeOK'
  BY <1>2, <1>3, <1>4 DEF ConsoleInv, ConsoleTypeOK
<1>6. CommandMovesOnce'
  BY <1>3 DEF ConsoleInv, CommandMovesOnce
<1>7. ReferencesStay'
  BY <1>2, <1>3 DEF ConsoleInv, ReferencesStay, Exists
<1>8. SeedsExist'
  <2>1. \A j \in Telemetry :
          console_telemetry_records[j] # NoRow =>
            console_telemetry_records'[j] # NoRow
    BY <1>1, <1>2, TelemetryStep
  <2>2. QED
    BY <1>3, <2>1, ConsoleAssumption DEF ConsoleInv, SeedsExist, Exists
<1>9. QED
  BY <1>5, <1>6, <1>7, <1>8 DEF ConsoleInv

\* A login, a logout, a log row or the clock.
LEMMA OtherInv ==
  ASSUME ConsoleInv,
         \/ Tick
         \/ ConsoleLogout
         \/ \E c \in Clients : ConsoleLogin(c) \/ RecordConsoleOperation(c)
  PROVE  ConsoleInv'
<1>1. ConsoleTypeOK'
  <2>1. CASE Tick
    BY <2>1, ConsoleAssumption DEF ConsoleInv, ConsoleTypeOK, Tick, Time
  <2>2. CASE ConsoleLogout
    <3>1. PICK t \in Tokens : RevokeSession(t)
      BY <2>2 DEF ConsoleLogout
    <3> DEFINE row == [console_sessions[t] EXCEPT !.state = "revoked"]
    <3>2. row \in SessionRow
      BY DEF ConsoleInv, ConsoleTypeOK, SessionRow
    <3>3. console_sessions' = [console_sessions EXCEPT ![t] = row]
      BY <3>1 DEF RevokeSession
    <3> HIDE DEF row
    <3>4. console_sessions' \in [Tokens -> SessionRow]
      BY <3>2, <3>3 DEF ConsoleInv, ConsoleTypeOK
    <3>5. QED
      BY <2>2, <3>4 DEF ConsoleLogout, ConsoleInv, ConsoleTypeOK
  <2>3. ASSUME NEW c \in Clients, ConsoleLogin(c)
        PROVE  ConsoleTypeOK'
    <3>1. PICK t \in Tokens : Login(t)
      BY <2>3 DEF ConsoleLogin
    <3> DEFINE row == [state |-> "open", expires_at |-> now + SessionLength]
    <3>2. now + SessionLength \in Nat
      BY ConsoleAssumption DEF ConsoleInv, ConsoleTypeOK, Time
    <3>3. row \in SessionRow
      BY <3>2 DEF SessionRow
    <3>4. console_sessions' = [console_sessions EXCEPT ![t] = row]
      BY <3>1 DEF Login
    <3> HIDE DEF row
    <3>5. console_sessions' \in [Tokens -> SessionRow]
      BY <3>3, <3>4 DEF ConsoleInv, ConsoleTypeOK
    <3>6. logging' \in [Clients -> Ops \union {"nothing"}]
      BY <2>3, ChangedType DEF ConsoleLogin, Ops
    <3>7. QED
      BY <2>3, <3>5, <3>6 DEF ConsoleLogin, ConsoleInv, ConsoleTypeOK
  <2>4. ASSUME NEW c \in Clients, RecordConsoleOperation(c)
        PROVE  ConsoleTypeOK'
    <3>1. logging[c] \in Ops
      BY <2>4 DEF ConsoleInv, ConsoleTypeOK, RecordConsoleOperation
    <3>2. console_logs' \in [LogRows -> LogRow \union {NoRow}]
      <4>1. CASE WriteLog(logging[c])
        BY <3>1, <4>1, WriteLogStep DEF WriteLog
      <4>2. CASE UNCHANGED console_logs
        BY <4>2 DEF ConsoleInv, ConsoleTypeOK
      <4>3. QED
        BY <2>4, <4>1, <4>2 DEF RecordConsoleOperation
    <3>3. QED
      BY <2>4, <3>2 DEF ConsoleInv, ConsoleTypeOK, RecordConsoleOperation
  <2>5. QED
    BY <2>1, <2>2, <2>3, <2>4
<1>2. UNCHANGED <<console_entries, console_commands, console_telemetry_records>>
  BY DEF Tick, ConsoleLogout, ConsoleLogin, RecordConsoleOperation
<1>3. CommandMovesOnce' /\ ReferencesStay' /\ SeedsExist'
  BY <1>2 DEF ConsoleInv, CommandMovesOnce, ReferencesStay, SeedsExist, Exists
<1>4. QED
  BY <1>1, <1>3 DEF ConsoleInv

\* No step of the console breaks ConsoleInv.
LEMMA ConsoleStep == ConsoleInv /\ [ConsoleNext]_consoleVars => ConsoleInv'
<1> SUFFICES ASSUME ConsoleInv, [ConsoleNext]_consoleVars PROVE ConsoleInv'
  OBVIOUS
<1>1. ASSUME NEW c \in Clients, NEW op \in EntryOps,
             \/ ConsoleChangeDrone(c, op)
             \/ ConsoleChangeOperator(c, op)
             \/ ConsoleChangeCapability(c, op)
      PROVE  ConsoleInv'
  <2>1. PICK e \in Entries : ChangeEntry(e, op)
    BY <1>1
    DEF ConsoleChangeDrone, ConsoleChangeOperator, ConsoleChangeCapability,
        ChangeDrone, ChangeOperator, ChangeCapability, Entries
  <2>2. /\ Changed(c, op)
        /\ UNCHANGED <<now, console_commands, console_telemetry_records,
                       console_sessions, console_logs>>
    BY <1>1
    DEF ConsoleChangeDrone, ConsoleChangeOperator, ConsoleChangeCapability
  <2>3. QED
    BY <2>1, <2>2, EntryInv
<1>2. CASE UNCHANGED consoleVars
  BY <1>2
  DEF consoleVars, ConsoleInv, ConsoleTypeOK, CommandMovesOnce, ReferencesStay,
      SeedsExist, Exists
<1>3. QED
  BY <1>1, <1>2, CreateCommandInv, CommandStatusInv, TelemetryInv, OtherInv
  DEF ConsoleNext

-----------------------------------------------------------------------------
(***************************************************************************)
(* The log.                                                                *)
(***************************************************************************)

LoggedOps == Ops \ {"update"}

\* What is counted is finite.
LEMMA CountsFinite ==
  ASSUME ConsoleInv, NEW op \in LoggedOps
  PROVE  /\ IsFiniteSet(Effects(op)) /\ Cardinality(Effects(op)) \in Nat
         /\ IsFiniteSet(Logged(op)) /\ Cardinality(Logged(op)) \in Nat
         /\ IsFiniteSet(Logging(op)) /\ Cardinality(Logging(op)) \in Nat
<1>1. IsFiniteSet(Commands \X (2 .. 3))
  <2>1. 2 \in Int /\ 3 \in Int
    OBVIOUS
  <2>2. IsFiniteSet(2 .. 3)
    BY <2>1, FS_Interval
  <2>3. QED
    BY <2>2, ConsoleFinite, FS_Product
<1>2. \E S \in {Tokens, Entries, Commands, Commands \X (2 .. 3), Telemetry} :
        IsFiniteSet(S) /\ Effects(op) \subseteq S
  <2>1. CASE op = "login"
    BY <2>1, ConsoleFinite DEF Effects
  <2>2. CASE op = "create"
    BY <2>2, ConsoleFinite DEF Effects
  <2>3. CASE op = "delete"
    BY <2>3, ConsoleFinite DEF Effects
  <2>4. CASE op = "command"
    BY <2>4, ConsoleFinite DEF Effects
  <2>5. CASE op = "status"
    BY <2>5, <1>1 DEF Effects
  <2>6. CASE op = "telemetry"
    BY <2>6, ConsoleFinite DEF Effects
  <2>7. QED
    BY <2>1, <2>2, <2>3, <2>4, <2>5, <2>6 DEF LoggedOps, Ops, EntryOps
<1>3. IsFiniteSet(Effects(op))
  BY <1>2, FS_Subset
<1>4. Logged(op) \subseteq LogRows /\ Logging(op) \subseteq Clients
  BY DEF Logged, Logging
<1>5. IsFiniteSet(Logged(op)) /\ IsFiniteSet(Logging(op))
  BY <1>4, ConsoleFinite, FS_Subset
<1>6. QED
  BY <1>3, <1>5, FS_CardinalityType

\* Exactly one more change of kind op.
OneMore(op) ==
  /\ op # "update" => \E x : x \notin Effects(op)
                             /\ Effects(op)' = Effects(op) \union {x}
  /\ \A q \in LoggedOps \ {op} : Effects(q)' = Effects(q)

\* A request that made one change has one to log.
LEMMA OneMoreToLog ==
  ASSUME ConsoleInv, ConsoleInv', LogsAreEvidence,
         NEW c \in Clients, NEW op \in Ops, Changed(c, op), OneMore(op),
         UNCHANGED console_logs
  PROVE  LogsAreEvidence'
<1> SUFFICES ASSUME NEW q \in LoggedOps
             PROVE  Cardinality(Logged(q)') + Cardinality(Logging(q)')
                      <= Cardinality(Effects(q)')
  BY DEF LogsAreEvidence, LoggedOps
<1>1. Cardinality(Logged(q)) + Cardinality(Logging(q)) <= Cardinality(Effects(q))
  BY DEF LogsAreEvidence, LoggedOps
<1>2. Logged(q)' = Logged(q)
  BY DEF Logged
<1>3. /\ logging \in [Clients -> Ops \union {"nothing"}]
      /\ logging[c] = "nothing"
      /\ logging' = [logging EXCEPT ![c] = op]
  BY DEF ConsoleInv, ConsoleTypeOK, Changed
<1>4. CASE q = op
  <2>1. PICK x : x \notin Effects(q) /\ Effects(q)' = Effects(q) \union {x}
    BY <1>4 DEF OneMore, LoggedOps
  <2>2. Cardinality(Effects(q)') = Cardinality(Effects(q)) + 1
    BY <2>1, CountsFinite, FS_AddElement
  <2>3. Logging(q)' = Logging(q) \union {c} /\ c \notin Logging(q)
    BY <1>3, <1>4 DEF Logging, LoggedOps, Ops, EntryOps
  <2>4. Cardinality(Logging(q)') = Cardinality(Logging(q)) + 1
    BY <2>3, CountsFinite, FS_AddElement
  <2>5. QED
    BY <1>1, <1>2, <2>2, <2>4, CountsFinite
<1>5. CASE q # op
  <2>1. Effects(q)' = Effects(q)
    BY <1>5 DEF OneMore
  <2>2. Logging(q)' = Logging(q)
    BY <1>3, <1>5 DEF Logging, LoggedOps, Ops, EntryOps
  <2>3. QED
    BY <1>1, <1>2, <2>1, <2>2
<1>6. QED
  BY <1>4, <1>5

\* A change of the master data is one more of its kind; a seed is never inserted
\* again.
LEMMA EntryOneMore ==
  ASSUME ConsoleInv, NEW e \in Entries, NEW op \in EntryOps, ChangeEntry(e, op),
         UNCHANGED <<console_commands, console_telemetry_records,
                     console_sessions>>
  PROVE  OneMore(op)
<1>1. \A q \in {"login", "command", "status", "telemetry"} :
        Effects(q)' = Effects(q)
  BY DEF Effects
<1>2. CASE op = "create"
  <2>1. /\ e \notin Seeds
        /\ ~ Exists(e)
        /\ console_entries'[e].state = "live"
        /\ \A f \in Entries \ {e} : console_entries'[f] = console_entries[f]
    BY <1>2, EntryStep DEF ConsoleInv, SeedsExist
  <2>2. /\ e \notin Effects("create")
        /\ Effects("create")' = Effects("create") \union {e}
    BY <2>1 DEF Effects, Exists
  <2>3. Effects("delete")' = Effects("delete")
    BY <2>1 DEF Effects, Exists
  <2>4. QED
    BY <1>1, <1>2, <2>2, <2>3 DEF OneMore, LoggedOps, Ops, EntryOps
<1>3. CASE op = "update"
  <2>1. console_entries' = console_entries
    BY <1>3, EntryStep
  <2>2. \A q \in {"create", "delete"} : Effects(q)' = Effects(q)
    BY <2>1 DEF Effects, Exists
  <2>3. QED
    BY <1>1, <1>3, <2>2 DEF OneMore, LoggedOps, Ops, EntryOps
<1>4. CASE op = "delete"
  <2>1. /\ Live(e)
        /\ console_entries'[e].state = "deleted"
        /\ \A f \in Entries \ {e} : console_entries'[f] = console_entries[f]
    BY <1>4, EntryStep
  <2>2. /\ e \notin Effects("delete")
        /\ Effects("delete")' = Effects("delete") \union {e}
    BY <2>1 DEF Effects, Live
  <2>3. Effects("create")' = Effects("create")
    BY <2>1 DEF Effects, Exists, Live
  <2>4. QED
    BY <1>1, <1>4, <2>2, <2>3 DEF OneMore, LoggedOps, Ops, EntryOps
<1>5. QED
  BY <1>2, <1>3, <1>4 DEF EntryOps

\* A new command is none that has moved.
LEMMA CommandOneMore ==
  ASSUME ConsoleInv, NEW c \in Clients, ConsoleCreateCommand(c)
  PROVE  OneMore("command")
<1>1. PICK k \in Commands, d \in Drones, s \in Capabilities :
        CreateCommand(k, d, s)
  BY DEF ConsoleCreateCommand
<1>2. /\ console_commands[k] = NoRow
      /\ console_commands'[k] # NoRow
      /\ console_commands'[k].version = 1
      /\ \A j \in Commands \ {k} : console_commands'[j] = console_commands[j]
  BY <1>1, CreateCommandStep
<1>3. UNCHANGED <<console_entries, console_telemetry_records, console_sessions>>
  BY DEF ConsoleCreateCommand
<1>4. /\ k \notin Effects("command")
      /\ Effects("command")' = Effects("command") \union {k}
  <2>1. k \notin PendingSeeds \union StartedSeeds
    BY <1>2 DEF ConsoleInv, SeedsExist
  <2>2. QED
    BY <1>2, <2>1 DEF Effects
<1>5. Effects("status")' = Effects("status")
  <2>1. \A m \in Commands \X (2 .. 3) :
          m[1] \in Commands /\ m[2] \in 2 .. 3
    OBVIOUS
  <2>2. \A m \in Commands \X (2 .. 3) :
          (console_commands'[m[1]] # NoRow /\ m[2] <= console_commands'[m[1]].version)
          <=> (console_commands[m[1]] # NoRow /\ m[2] <= console_commands[m[1]].version)
    BY <1>2, <2>1
  <2>3. QED
    BY <2>2 DEF Effects
<1>6. \A q \in {"login", "create", "delete", "telemetry"} : Effects(q)' = Effects(q)
  BY <1>3 DEF Effects, Exists
<1>7. QED
  BY <1>4, <1>5, <1>6 DEF OneMore, LoggedOps, Ops, EntryOps

\* A move of a command is one more: its version says which one.
LEMMA StatusOneMore ==
  ASSUME ConsoleInv, NEW c \in Clients, ConsoleUpdateCommandStatus(c)
  PROVE  OneMore("status")
<1>1. PICK k \in Commands, next \in 0 .. 3 : UpdateCommandStatus(k, next)
  BY DEF ConsoleUpdateCommandStatus
<1> DEFINE v == console_commands[k].version + 1
<1>2. /\ console_commands[k] # NoRow
      /\ console_commands'[k] # NoRow
      /\ console_commands[k].version \in 1 .. 2
      /\ console_commands'[k].version = v
      /\ \A j \in Commands \ {k} : console_commands'[j] = console_commands[j]
  BY <1>1, CommandStatusStep
<1>3. UNCHANGED <<console_entries, console_telemetry_records, console_sessions>>
  BY DEF ConsoleUpdateCommandStatus
<1>4. \A q \in {"login", "create", "delete", "telemetry"} : Effects(q)' = Effects(q)
  BY <1>3 DEF Effects, Exists
<1>5. Effects("command")' = Effects("command")
  BY <1>2 DEF Effects
<1>6. v \in 2 .. 3 /\ <<k, v>> \in Commands \X (2 .. 3)
  BY <1>2
<1>7. <<k, v>> \notin Effects("status")
  BY <1>2 DEF Effects
<1>8. Effects("status")' = Effects("status") \union {<<k, v>>}
  <2>1. ASSUME NEW j \in Commands, NEW n \in 2 .. 3
        PROVE  (console_commands'[j] # NoRow /\ n <= console_commands'[j].version)
               <=> \/ console_commands[j] # NoRow /\ n <= console_commands[j].version
                   \/ j = k /\ n = v
    BY <1>2
  <2>2. \A m \in Commands \X (2 .. 3) :
          /\ m[1] \in Commands /\ m[2] \in 2 .. 3
          /\ m[1] = k /\ m[2] = v <=> m = <<k, v>>
    OBVIOUS
  <2>3. \A m \in Commands \X (2 .. 3) :
          (console_commands'[m[1]] # NoRow /\ m[2] <= console_commands'[m[1]].version)
          <=> \/ /\ console_commands[m[1]] # NoRow
                 /\ m[2] <= console_commands[m[1]].version
              \/ m = <<k, v>>
    BY <2>1, <2>2
  <2>4. QED
    BY <1>6, <2>3 DEF Effects
<1>9. QED
  BY <1>4, <1>5, <1>7, <1>8 DEF OneMore, LoggedOps, Ops, EntryOps

\* A telemetry record is one more, and so is a login.
LEMMA TelemetryOneMore ==
  ASSUME ConsoleInv, NEW c \in Clients, ConsoleCreateTelemetry(c)
  PROVE  OneMore("telemetry")
<1>1. PICK h \in Telemetry, d \in Drones, at \in Time : CreateTelemetry(h, d, at)
  BY DEF ConsoleCreateTelemetry
<1>2. /\ h \notin Effects("telemetry")
      /\ Effects("telemetry")' = Effects("telemetry") \union {h}
  <2>1. /\ console_telemetry_records[h] = NoRow
        /\ console_telemetry_records'[h] # NoRow
        /\ \A j \in Telemetry \ {h} :
             console_telemetry_records'[j] = console_telemetry_records[j]
    BY <1>1, TelemetryStep
  <2>2. h \notin TelemetrySeeds
    BY <2>1 DEF ConsoleInv, SeedsExist
  <2>3. QED
    BY <2>1, <2>2 DEF Effects
<1>3. \A q \in LoggedOps \ {"telemetry"} : Effects(q)' = Effects(q)
  BY DEF ConsoleCreateTelemetry, Effects, Exists, LoggedOps, Ops, EntryOps
<1>4. QED
  BY <1>2, <1>3 DEF OneMore

\* A login adds its session to the changes to be logged.
LEMMA LoginOneMore ==
  ASSUME ConsoleInv, NEW c \in Clients, ConsoleLogin(c)
  PROVE  OneMore("login")
<1>1. PICK t \in Tokens : Login(t)
  BY DEF ConsoleLogin
<1> DEFINE row == [state |-> "open", expires_at |-> now + SessionLength]
<1>2. row.state = "open"
  OBVIOUS
<1>3. /\ console_sessions' = [console_sessions EXCEPT ![t] = row]
      /\ console_sessions[t].state = "absent"
      /\ console_sessions \in [Tokens -> SessionRow]
  BY <1>1 DEF Login, ConsoleInv, ConsoleTypeOK
<1> HIDE DEF row
<1>4. /\ t \notin Effects("login")
      /\ Effects("login")' = Effects("login") \union {t}
  BY <1>2, <1>3 DEF Effects
<1>5. \A q \in LoggedOps \ {"login"} : Effects(q)' = Effects(q)
  BY DEF ConsoleLogin, Effects, Exists, LoggedOps, Ops, EntryOps
<1>6. QED
  BY <1>4, <1>5 DEF OneMore

\* Writing a log row settles one of the changes still to log; losing it, too.
LEMMA RecordEvidence ==
  ASSUME ConsoleInv, ConsoleInv', LogsAreEvidence,
         NEW c \in Clients, RecordConsoleOperation(c)
  PROVE  LogsAreEvidence'
<1> SUFFICES ASSUME NEW q \in LoggedOps
             PROVE  Cardinality(Logged(q)') + Cardinality(Logging(q)')
                      <= Cardinality(Effects(q)')
  BY DEF LogsAreEvidence, LoggedOps
<1> DEFINE op == logging[c]
<1>1. Cardinality(Logged(q)) + Cardinality(Logging(q)) <= Cardinality(Effects(q))
  BY DEF LogsAreEvidence, LoggedOps
<1>2. Effects(q)' = Effects(q)
  BY DEF RecordConsoleOperation, Effects, Exists, LoggedOps, Ops, EntryOps
<1>3. /\ logging \in [Clients -> Ops \union {"nothing"}]
      /\ op \in Ops
      /\ logging' = [logging EXCEPT ![c] = "nothing"]
  BY DEF ConsoleInv, ConsoleTypeOK, RecordConsoleOperation
<1>4. Logging(q)' = Logging(q) \ {c}
  BY <1>3 DEF Logging, LoggedOps, Ops, EntryOps
<1>5. Cardinality(Logging(q)') =
        IF op = q THEN Cardinality(Logging(q)) - 1 ELSE Cardinality(Logging(q))
  <2>1. c \in Logging(q) <=> op = q
    BY DEF Logging
  <2>2. IsFiniteSet(Logging(q))
    BY CountsFinite
  <2>3. QED
    BY <1>4, <2>1, <2>2, FS_RemoveElement
<1>6. Cardinality(Logged(q)') \in
        {Cardinality(Logged(q)),
         Cardinality(Logged(q)) + IF op = q THEN 1 ELSE 0}
  <2>1. CASE UNCHANGED console_logs
    <3>1. Logged(q)' = Logged(q)
      BY <2>1 DEF Logged
    <3>2. QED
      BY <3>1
  <2>2. CASE WriteLog(op)
    <3>1. PICK l \in LogRows :
            /\ console_logs[l] = NoRow
            /\ console_logs' = [console_logs EXCEPT ![l] =
                                  [op |-> op, created_at |-> now]]
      BY <2>2 DEF WriteLog
    <3>2. /\ console_logs'[l] # NoRow
          /\ console_logs'[l].op = op
          /\ \A j \in LogRows \ {l} : console_logs'[j] = console_logs[j]
      BY <1>3, <3>1, WriteLogStep
    <3>3. l \notin Logged(q)
      BY <3>1 DEF Logged
    <3>4. Logged(q)' = IF op = q THEN Logged(q) \union {l} ELSE Logged(q)
      BY <3>1, <3>2 DEF Logged
    <3>5. QED
      BY <3>3, <3>4, CountsFinite, FS_AddElement
  <2>3. QED
    BY <2>1, <2>2 DEF RecordConsoleOperation
<1>7. QED
  BY <1>1, <1>2, <1>5, <1>6, CountsFinite

\* The steps that are no change and log nothing.
LEMMA QuietEvidence ==
  ASSUME LogsAreEvidence, Effects("login")' = Effects("login"),
         UNCHANGED <<console_entries, console_commands,
                     console_telemetry_records, console_logs, logging>>
  PROVE  LogsAreEvidence'
<1>1. \A op \in LoggedOps :
        /\ Effects(op)' = Effects(op)
        /\ Logged(op)' = Logged(op)
        /\ Logging(op)' = Logging(op)
  BY DEF Effects, Exists, Logged, Logging, LoggedOps, Ops, EntryOps
<1>2. QED
  BY <1>1 DEF LogsAreEvidence, LoggedOps

EvidenceInv == ConsoleInv /\ LogsAreEvidence

\* No step of the console makes a log row that stands for nothing.
LEMMA EvidenceStep == EvidenceInv /\ [ConsoleNext]_consoleVars => EvidenceInv'
<1> SUFFICES ASSUME EvidenceInv, [ConsoleNext]_consoleVars
             PROVE  EvidenceInv'
  OBVIOUS
<1>1. ConsoleInv /\ ConsoleInv' /\ LogsAreEvidence
  BY ConsoleStep DEF EvidenceInv
<1>2. ASSUME Tick \/ UNCHANGED consoleVars
      PROVE  LogsAreEvidence'
  <2>1. Effects("login")' = Effects("login")
    BY <1>2 DEF Effects, Tick, consoleVars
  <2>2. UNCHANGED <<console_entries, console_commands,
                    console_telemetry_records, console_logs, logging>>
    BY <1>2 DEF Tick, consoleVars
  <2>3. QED
    BY <1>1, <2>1, <2>2, QuietEvidence
<1>3. ASSUME NEW c \in Clients, RecordConsoleOperation(c)
      PROVE  LogsAreEvidence'
  BY <1>1, <1>3, RecordEvidence
<1>4. ASSUME ConsoleLogout
      PROVE  LogsAreEvidence'
  <2>1. PICK t \in Tokens : RevokeSession(t)
    BY <1>4 DEF ConsoleLogout
  <2> DEFINE row == [console_sessions[t] EXCEPT !.state = "revoked"]
  <2>2. row.state = "revoked"
    BY <1>1 DEF ConsoleInv, ConsoleTypeOK, SessionRow
  <2>3. /\ console_sessions' = [console_sessions EXCEPT ![t] = row]
        /\ console_sessions \in [Tokens -> SessionRow]
        /\ console_sessions[t].state = "open"
    BY <1>1, <2>1 DEF RevokeSession, SessionUser, ConsoleInv, ConsoleTypeOK
  <2> HIDE DEF row
  <2>4. Effects("login")' = Effects("login")
    BY <2>2, <2>3 DEF Effects
  <2>5. UNCHANGED <<console_entries, console_commands,
                    console_telemetry_records, console_logs, logging>>
    BY <1>4 DEF ConsoleLogout
  <2>6. QED
    BY <1>1, <2>4, <2>5, QuietEvidence
<1>5. ASSUME NEW c \in Clients, NEW op \in EntryOps,
             \/ ConsoleChangeDrone(c, op)
             \/ ConsoleChangeOperator(c, op)
             \/ ConsoleChangeCapability(c, op)
      PROVE  LogsAreEvidence'
  <2>1. PICK e \in Entries : ChangeEntry(e, op)
    BY <1>5
    DEF ConsoleChangeDrone, ConsoleChangeOperator, ConsoleChangeCapability,
        ChangeDrone, ChangeOperator, ChangeCapability, Entries
  <2>2. /\ Changed(c, op)
        /\ UNCHANGED <<console_commands, console_telemetry_records,
                       console_sessions, console_logs>>
    BY <1>5
    DEF ConsoleChangeDrone, ConsoleChangeOperator, ConsoleChangeCapability
  <2>3. OneMore(op)
    BY <1>1, <2>1, <2>2, EntryOneMore
  <2>4. op \in Ops
    BY DEF Ops
  <2>5. QED
    BY <1>1, <2>2, <2>3, <2>4, OneMoreToLog
<1>6. ASSUME NEW c \in Clients,
             \/ ConsoleLogin(c) \/ ConsoleCreateCommand(c)
             \/ ConsoleUpdateCommandStatus(c) \/ ConsoleCreateTelemetry(c)
      PROVE  LogsAreEvidence'
  <2>1. PICK op \in Ops : Changed(c, op) /\ OneMore(op)
    BY <1>1, <1>6, LoginOneMore, CommandOneMore, StatusOneMore, TelemetryOneMore
    DEF ConsoleLogin, ConsoleCreateCommand, ConsoleUpdateCommandStatus,
        ConsoleCreateTelemetry, Ops
  <2>2. UNCHANGED console_logs
    BY <1>6
    DEF ConsoleLogin, ConsoleCreateCommand, ConsoleUpdateCommandStatus,
        ConsoleCreateTelemetry
  <2>3. QED
    BY <1>1, <2>1, <2>2, OneMoreToLog
<1>7. LogsAreEvidence'
  BY <1>2, <1>3, <1>4, <1>5, <1>6 DEF ConsoleNext
<1>8. QED
  BY <1>1, <1>7 DEF EvidenceInv

-----------------------------------------------------------------------------
(***************************************************************************)
(* Reading a list page by page.  J holds the rows of the list, W those it  *)
(* held since the walk began, and `at' their times.                        *)
(***************************************************************************)

\* The rows before e in every order the list may come in.
Above(J, at, e) == {f \in J : at[f] > at[e]}

\* No row shares the place of e.
Alone(W, at, e) == \A f \in W \ {e} : at[e] # at[f]

\* The rows of S that a reader who is to skip n rows will not come across.
Passed(S, J, W, at, n) ==
  {e \in S : Alone(W, at, e) /\ Cardinality(Above(J, at, e)) < n}

\* Depths are numbers, and the higher of two rows has the smaller one.
LEMMA Depths ==
  ASSUME NEW J, IsFiniteSet(J), NEW at, \A f \in J : at[f] \in Int
  PROVE  \A e \in J :
           /\ IsFiniteSet(Above(J, at, e))
           /\ Cardinality(Above(J, at, e)) \in Nat
           /\ Cardinality(Above(J, at, e)) < Cardinality(J)
           /\ \A f \in J : at[f] > at[e] =>
                Cardinality(Above(J, at, f)) < Cardinality(Above(J, at, e))
<1> SUFFICES ASSUME NEW e \in J
             PROVE  /\ IsFiniteSet(Above(J, at, e))
                    /\ Cardinality(Above(J, at, e)) \in Nat
                    /\ Cardinality(Above(J, at, e)) < Cardinality(J)
                    /\ \A f \in J : at[f] > at[e] =>
                         Cardinality(Above(J, at, f)) < Cardinality(Above(J, at, e))
  OBVIOUS
<1>1. \A f \in J : IsFiniteSet(Above(J, at, f)) /\ Cardinality(Above(J, at, f)) \in Nat
  BY FS_Subset, FS_CardinalityType DEF Above
<1>2. ASSUME NEW S, S \subseteq J, NEW f \in S,
             NEW T, T \subseteq S \ {f}
      PROVE  Cardinality(T) < Cardinality(S)
  <2>1. IsFiniteSet(S) /\ Cardinality(S) \in Nat
    BY <1>2, FS_Subset, FS_CardinalityType
  <2>2. IsFiniteSet(S \ {f}) /\ Cardinality(S \ {f}) = Cardinality(S) - 1
    BY <1>2, <2>1, FS_RemoveElement
  <2>3. IsFiniteSet(T) /\ Cardinality(T) <= Cardinality(S \ {f})
    BY <1>2, <2>2, FS_Subset
  <2>4. Cardinality(T) \in Nat
    BY <2>3, FS_CardinalityType
  <2>5. QED
    BY <2>1, <2>2, <2>3, <2>4
<1>3. Above(J, at, e) \subseteq J \ {e}
  BY DEF Above
<1>4. \A f \in J : at[f] > at[e] =>
        /\ f \in Above(J, at, e)
        /\ Above(J, at, e) \subseteq J
        /\ Above(J, at, f) \subseteq Above(J, at, e) \ {f}
  BY DEF Above
<1>5. QED
  BY <1>1, <1>2, <1>3, <1>4

\* Rows that appear push others down or end their being alone: nobody passes.
LEMMA GrowthPassesNone ==
  ASSUME NEW J, NEW K, IsFiniteSet(K), J \subseteq K,
         NEW W, NEW V, W \subseteq V, J \subseteq W,
         NEW at, NEW bt, \A f \in W : bt[f] = at[f],
         NEW S \in SUBSET J, NEW n \in Int
  PROVE  Passed(S, K, V, bt, n) \subseteq Passed(S, J, W, at, n)
<1> SUFFICES ASSUME NEW e \in S, Alone(V, bt, e),
                    Cardinality(Above(K, bt, e)) < n
             PROVE  Alone(W, at, e) /\ Cardinality(Above(J, at, e)) < n
  BY DEF Passed
<1>1. Alone(W, at, e)
  BY DEF Alone
<1>2. /\ Above(J, at, e) \subseteq Above(K, bt, e)
      /\ Above(K, bt, e) \subseteq K
  BY DEF Above
<1>3. IsFiniteSet(Above(K, bt, e)) /\ IsFiniteSet(Above(J, at, e))
  BY <1>2, FS_Subset
<1>4. /\ Cardinality(Above(J, at, e)) <= Cardinality(Above(K, bt, e))
      /\ Cardinality(Above(J, at, e)) \in Nat
      /\ Cardinality(Above(K, bt, e)) \in Nat
  BY <1>2, <1>3, FS_Subset, FS_CardinalityType
<1>5. QED
  BY <1>1, <1>4

\* A deletion lifts the rows below by one: at most one row, the one the reader
\* was to read next, slips past.
LEMMA DeletionPassesOne ==
  ASSUME NEW J, IsFiniteSet(J), NEW W, J \subseteq W, NEW x \in J,
         NEW at, \A f \in J : at[f] \in Int,
         NEW S \in SUBSET J, NEW n \in Int
  PROVE  Cardinality(Passed(S \ {x}, J \ {x}, W, at, n))
           <= Cardinality(Passed(S, J, W, at, n)) + 1
<1> DEFINE Old == Passed(S, J, W, at, n)
           New == Passed(S \ {x}, J \ {x}, W, at, n)
           Next == {e \in S : Alone(W, at, e) /\ Cardinality(Above(J, at, e)) = n}
<1>1. \A e \in J : /\ IsFiniteSet(Above(J, at, e))
                   /\ Cardinality(Above(J, at, e)) \in Nat
                   /\ \A f \in J : at[f] > at[e] =>
                        Cardinality(Above(J, at, f)) < Cardinality(Above(J, at, e))
  BY Depths
<1>2. \A e \in J : /\ Cardinality(Above(J \ {x}, at, e)) \in Int
                   /\ Cardinality(Above(J \ {x}, at, e))
                        >= Cardinality(Above(J, at, e)) - 1
  <2> TAKE e \in J
  <2>1. Above(J \ {x}, at, e) = Above(J, at, e) \ {x}
    BY DEF Above
  <2>2. IsFiniteSet(Above(J, at, e)) /\ Cardinality(Above(J, at, e)) \in Nat
    BY <1>1
  <2>3. Cardinality(Above(J, at, e) \ {x}) =
          IF x \in Above(J, at, e) THEN Cardinality(Above(J, at, e)) - 1
                                  ELSE Cardinality(Above(J, at, e))
    BY <2>2, FS_RemoveElement
  <2>4. QED
    BY <2>1, <2>2, <2>3
<1>3. New \subseteq Old \union Next
  <2> SUFFICES ASSUME NEW e \in S, Alone(W, at, e),
                      Cardinality(Above(J \ {x}, at, e)) < n
               PROVE  \/ Cardinality(Above(J, at, e)) < n
                      \/ Cardinality(Above(J, at, e)) = n
    BY DEF Passed
  <2>1. QED
    BY <1>1, <1>2
<1>4. \A e, f \in Next : e = f
  <2> SUFFICES ASSUME NEW e \in Next, NEW f \in Next, e # f
               PROVE  FALSE
    OBVIOUS
  <2>1. e \in J /\ f \in J /\ at[e] \in Int /\ at[f] \in Int
    OBVIOUS
  <2>2. at[e] # at[f]
    BY <2>1 DEF Alone
  <2>3. at[e] > at[f] \/ at[f] > at[e]
    BY <2>1, <2>2
  <2>4. QED
    BY <1>1, <2>1, <2>3
<1>5. IsFiniteSet(Old) /\ IsFiniteSet(New)
  <2>1. Old \subseteq J /\ New \subseteq J
    BY DEF Passed
  <2>2. QED
    BY <2>1, FS_Subset
<1> HIDE DEF Old, New, Next
<1>6. Cardinality(Old) \in Nat /\ Cardinality(New) \in Nat
  BY <1>5, FS_CardinalityType
<1>7. CASE Next = {}
  <2>1. New \subseteq Old
    BY <1>3, <1>7
  <2>2. Cardinality(New) <= Cardinality(Old)
    BY <1>5, <2>1, FS_Subset
  <2>3. QED
    BY <1>6, <2>2 DEF Old, New
<1>8. CASE Next # {}
  <2>1. PICK q \in Next : Next = {q}
    BY <1>4, <1>8
  <2>2. New \subseteq Old \union {q}
    BY <1>3, <2>1
  <2>3. /\ IsFiniteSet(Old \union {q})
        /\ Cardinality(Old \union {q}) <= Cardinality(Old) + 1
        /\ Cardinality(Old \union {q}) \in Nat
    <3>1. /\ IsFiniteSet(Old \union {q})
          /\ Cardinality(Old \union {q}) =
               IF q \in Old THEN Cardinality(Old) ELSE Cardinality(Old) + 1
      BY <1>5, FS_AddElement
    <3>2. QED
      BY <1>6, <3>1
  <2>4. Cardinality(New) <= Cardinality(Old \union {q})
    BY <2>2, <2>3, FS_Subset
  <2>5. QED
    BY <1>6, <2>3, <2>4 DEF Old, New
<1>9. QED
  BY <1>7, <1>8

\* Reading a page: of the rows it was to show, those it did not are not alone.
LEMMA PagePassesNone ==
  ASSUME NEW J, IsFiniteSet(J), NEW W, J \subseteq W,
         NEW at, \A f \in J : at[f] \in Int,
         NEW S \in SUBSET J, NEW n \in Nat, NEW size \in Nat,
         NEW R \in SUBSET J, NEW Before \in SUBSET (J \ R),
         NEW After, After = J \ (Before \union R),
         \A b \in Before, r \in R : at[b] >= at[r],
         \A x \in Before \union R, y \in After : at[x] >= at[y],
         Cardinality(Before) = n \/ (Before = J /\ Cardinality(J) < n),
         Cardinality(R) = size \/ (Cardinality(R) < size /\ After = {})
  PROVE  Passed(S \ R, J, W, at, n + size) \subseteq Passed(S, J, W, at, n)
<1> SUFFICES ASSUME NEW e \in S \ R, Alone(W, at, e),
                    Cardinality(Above(J, at, e)) < n + size
             PROVE  Cardinality(Above(J, at, e)) < n
  BY DEF Passed
<1>1. /\ e \in J
      /\ IsFiniteSet(Above(J, at, e))
      /\ Cardinality(Above(J, at, e)) \in Nat
  BY Depths
<1>2. IsFiniteSet(Before) /\ IsFiniteSet(R)
  BY FS_Subset
<1>3. Cardinality(Before) \in Nat /\ Cardinality(R) \in Nat
  BY <1>2, FS_CardinalityType
<1>4. CASE e \in Before
  <2>1. Above(J, at, e) \subseteq Before \ {e}
    BY <1>4 DEF Above
  <2>2. /\ IsFiniteSet(Before \ {e})
        /\ Cardinality(Before \ {e}) = Cardinality(Before) - 1
    BY <1>2, <1>4, FS_RemoveElement
  <2>3. Cardinality(Above(J, at, e)) <= Cardinality(Before \ {e})
    BY <2>1, <2>2, FS_Subset
  <2>4. Cardinality(Before) <= n
    BY <1>3
  <2>5. QED
    BY <1>1, <1>3, <2>2, <2>3, <2>4
<1>5. CASE e \in After
  <2>1. Cardinality(Before) = n /\ Cardinality(R) = size
    BY <1>5
  <2>2. Before \union R \subseteq Above(J, at, e)
    <3> SUFFICES ASSUME NEW f \in Before \union R
                 PROVE  f \in J /\ at[f] > at[e]
      BY DEF Above
    <3>1. f \in J /\ f # e /\ at[f] >= at[e]
      BY <1>5
    <3>2. at[f] # at[e]
      BY <1>1, <3>1 DEF Alone
    <3>3. at[f] \in Int /\ at[e] \in Int
      BY <1>1, <3>1
    <3>4. QED
      BY <3>1, <3>2, <3>3
  <2>3. Before \intersect R = {} /\ Cardinality(Before \intersect R) = 0
    BY FS_EmptySet
  <2>4. /\ IsFiniteSet(Before \union R)
        /\ Cardinality(Before \union R) =
             Cardinality(Before) + Cardinality(R) - Cardinality(Before \intersect R)
    BY <1>2, FS_Union
  <2>5. Cardinality(Before \union R) = n + size
    <3>1. Cardinality(Before \union R) =
            Cardinality(Before) + Cardinality(R) - Cardinality(Before \intersect R)
      BY <2>4
    <3>2. QED
      BY <2>1, <2>3, <3>1
  <2>6. Cardinality(Before \union R) <= Cardinality(Above(J, at, e))
    BY <1>1, <2>2, FS_Subset
  <2>7. QED
    BY <1>1, <2>5, <2>6
<1>6. QED
  BY <1>1, <1>4, <1>5

-----------------------------------------------------------------------------
(***************************************************************************)
(* What a step of the console does to a list.                              *)
(***************************************************************************)

\* The times a list has been ordered by, of the rows it has shown so far.
Times(list) == [e \in Joined(list) \union Gone(list) |-> At(list, e)]

\* A list stays as it is, gets a row that is new to it or loses one.
ListMoves(list) ==
  \/ Joined(list)' = Joined(list) /\ Gone(list)' = Gone(list)
  \/ \E x : /\ x \notin Joined(list) \union Gone(list)
            /\ Joined(list)' = Joined(list) \union {x}
            /\ Gone(list)' = Gone(list)
  \/ \E x \in Joined(list) \ Gone(list) :
       /\ Joined(list)' = Joined(list) \ {x}
       /\ Gone(list)' = Gone(list) \union {x}

\* The rows that are joined are the rows that are counted.
LEMMA JoinsDropNothing == ReferencesStay => TotalsCountWhatIsListed
<1> SUFFICES ASSUME ReferencesStay, NEW list \in Lists
             PROVE  Joined(list) = Total(list)
  BY DEF TotalsCountWhatIsListed
<1>1. CASE list = "commands"
  BY <1>1 DEF Joined, Total, CommandPage, ReferencesStay
<1>2. CASE list = "telemetry"
  BY <1>2 DEF Joined, Total, TelemetryPage, ReferencesStay
<1>3. CASE list \notin {"commands", "telemetry"}
  BY <1>3 DEF Joined
<1>4. QED
  BY <1>1, <1>2, <1>3

\* The same of the state after a step.
LEMMA JoinsDropNothingNext == ReferencesStay' => TotalsCountWhatIsListed'
BY JoinsDropNothing, PTL

\* A list is finite, ordered by numbers, and shows no row that is gone.
LEMMA ListFacts ==
  ASSUME ConsoleInv, NEW list \in Lists
  PROVE  /\ IsFiniteSet(Joined(list)) /\ IsFiniteSet(Gone(list))
         /\ Joined(list) \intersect Gone(list) = {}
         /\ \A e \in Joined(list) \union Gone(list) :
              At(list, e) \in Int /\ Times(list)[e] = At(list, e)
<1>1. Joined(list) = Total(list)
  BY JoinsDropNothing DEF ConsoleInv, TotalsCountWhatIsListed
<1>2. /\ Total(list) \subseteq Entries \/ Total(list) \subseteq Commands
           \/ Total(list) \subseteq Telemetry \/ Total(list) \subseteq LogRows
      /\ Gone(list) \subseteq Entries
  BY DEF Lists, Total, Gone, DronePage, OperatorPage, CapabilityPage,
         CommandPage, TelemetryPage, LogPage, Entries
<1>3. IsFiniteSet(Joined(list)) /\ IsFiniteSet(Gone(list))
  BY <1>1, <1>2, ConsoleFinite, FS_Subset
<1>4. Joined(list) \intersect Gone(list) = {}
  BY <1>1
  DEF Lists, Total, Gone, DronePage, OperatorPage, CapabilityPage, Live
<1>5. ASSUME NEW e \in Joined(list) \union Gone(list)
      PROVE  At(list, e) \in Int
  <2>1. Time \subseteq Int /\ PastTime \subseteq Int
    BY DEF Time, PastTime
  <2>2. CASE list \in {"drones", "operators", "capabilities"}
    <3>1. e \in Entries
      BY <1>1, <2>2
      DEF Total, Gone, DronePage, OperatorPage, CapabilityPage, Entries
    <3>2. QED
      BY <2>1, <2>2, <3>1 DEF At, ConsoleInv, ConsoleTypeOK, EntryRow
  <2>3. CASE list = "commands"
    BY <1>1, <2>1, <2>3
    DEF Total, Gone, CommandPage, At, ConsoleInv, ConsoleTypeOK, CommandRow
  <2>4. CASE list = "telemetry"
    BY <1>1, <2>1, <2>4
    DEF Total, Gone, TelemetryPage, At, ConsoleInv, ConsoleTypeOK, TelemetryRow
  <2>5. CASE list = "logs"
    BY <1>1, <2>1, <2>5
    DEF Total, Gone, LogPage, At, ConsoleInv, ConsoleTypeOK, LogRow
  <2>6. QED
    BY <2>2, <2>3, <2>4, <2>5 DEF Lists
<1>6. QED
  BY <1>3, <1>4, <1>5 DEF Times

\* The table behind a list.
Table(list) ==
  CASE list = "commands"  -> console_commands
    [] list = "telemetry" -> console_telemetry_records
    [] list = "logs"      -> console_logs
    [] OTHER              -> console_entries

\* The rows of a list keep their times.
TimesStay(list) ==
  \A e \in Joined(list) \union Gone(list) : At(list, e)' = At(list, e)

\* A table that stays shows the same list.
LEMMA QuietList ==
  ASSUME ConsoleInv, ConsoleInv', NEW list \in Lists,
         Table(list)' = Table(list)
  PROVE  ListMoves(list) /\ TimesStay(list)
<1>1. Joined(list) = Total(list) /\ Joined(list)' = Total(list)'
  BY JoinsDropNothing, JoinsDropNothingNext DEF ConsoleInv, TotalsCountWhatIsListed
<1>2. /\ Total(list)' = Total(list)
      /\ Gone(list)' = Gone(list)
      /\ \A e : At(list, e)' = At(list, e)
  BY DEF Lists, Table, Total, Gone, At, DronePage, OperatorPage, CapabilityPage,
         CommandPage, TelemetryPage, LogPage, Live
<1>3. QED
  BY <1>1, <1>2 DEF ListMoves, TimesStay

\* A row that is inserted shows in its list and nothing else changes.
LEMMA InsertList ==
  ASSUME ConsoleInv, ConsoleInv', NEW list \in {"commands", "telemetry", "logs"},
         NEW k,
         Table(list)[k] = NoRow, Table(list)'[k] # NoRow,
         \/ list = "commands" /\ k \in Commands
         \/ list = "telemetry" /\ k \in Telemetry
         \/ list = "logs" /\ k \in LogRows,
         \A j \in DOMAIN Table(list) \ {k} : Table(list)'[j] = Table(list)[j]
  PROVE  ListMoves(list) /\ TimesStay(list)
<1>1. Joined(list) = Total(list) /\ Joined(list)' = Total(list)'
  BY JoinsDropNothing, JoinsDropNothingNext
  DEF ConsoleInv, TotalsCountWhatIsListed, Lists
<1>2. Gone(list) = {} /\ Gone(list)' = {}
  BY DEF Gone
<1>3. /\ DOMAIN console_commands = Commands
      /\ DOMAIN console_telemetry_records = Telemetry
      /\ DOMAIN console_logs = LogRows
  BY DEF ConsoleInv, ConsoleTypeOK
<1>4. /\ k \notin Total(list)
      /\ Total(list)' = Total(list) \union {k}
      /\ \A e \in Total(list) : At(list, e)' = At(list, e)
  BY <1>3 DEF Table, Total, At, CommandPage, TelemetryPage, LogPage
<1>5. QED
  BY <1>1, <1>2, <1>4 DEF ListMoves, TimesStay

\* The master data: a new entry, a deletion, or neither.
LEMMA EntryList ==
  ASSUME ConsoleInv, ConsoleInv', NEW list \in {"drones", "operators", "capabilities"},
         NEW e \in Entries, NEW op \in EntryOps, ChangeEntry(e, op)
  PROVE  ListMoves(list) /\ TimesStay(list)
<1> DEFINE Ids == CASE list = "drones"    -> Drones
                    [] list = "operators" -> Operators
                    [] OTHER              -> Capabilities
<1>1. Joined(list) = Total(list) /\ Joined(list)' = Total(list)'
  BY JoinsDropNothing, JoinsDropNothingNext
  DEF ConsoleInv, TotalsCountWhatIsListed, Lists
<1>2. /\ Ids \subseteq Entries
      /\ Total(list) = {f \in Ids : console_entries[f].state = "live"}
      /\ Total(list)' = {f \in Ids : console_entries'[f].state = "live"}
      /\ Gone(list) = {f \in Ids : console_entries[f].state = "deleted"}
      /\ Gone(list)' = {f \in Ids : console_entries'[f].state = "deleted"}
      /\ \A f : /\ At(list, f) = console_entries[f].created_at
                /\ At(list, f)' = console_entries'[f].created_at
  BY DEF Total, Gone, At, DronePage, OperatorPage, CapabilityPage, Live, Entries
<1> HIDE DEF Ids
<1>3. CASE e \notin Ids \/ op = "update"
  <2>1. \A f \in Ids : console_entries'[f] = console_entries[f]
    BY <1>2, <1>3, EntryStep DEF EntryOps
  <2>2. QED
    BY <1>1, <1>2, <2>1 DEF ListMoves, TimesStay
<1>4. CASE e \in Ids /\ op = "create"
  <2>1. /\ console_entries[e].state = "absent"
        /\ console_entries'[e].state = "live"
        /\ \A f \in Ids \ {e} : console_entries'[f] = console_entries[f]
    BY <1>2, <1>4, EntryStep DEF Exists
  <2>2. /\ e \notin Total(list) \union Gone(list)
        /\ Total(list)' = Total(list) \union {e}
        /\ Gone(list)' = Gone(list)
    BY <1>2, <1>4, <2>1
  <2>3. QED
    BY <1>1, <1>2, <2>1, <2>2 DEF ListMoves, TimesStay
<1>5. CASE e \in Ids /\ op = "delete"
  <2>1. /\ console_entries[e].state = "live"
        /\ console_entries'[e].state = "deleted"
        /\ console_entries'[e].created_at = console_entries[e].created_at
        /\ \A f \in Ids \ {e} : console_entries'[f] = console_entries[f]
    BY <1>2, <1>5, EntryStep DEF Live
  <2>2. /\ e \in Total(list) \ Gone(list)
        /\ Total(list)' = Total(list) \ {e}
        /\ Gone(list)' = Gone(list) \union {e}
    BY <1>2, <1>5, <2>1
  <2>3. QED
    BY <1>1, <1>2, <2>1, <2>2 DEF ListMoves, TimesStay
<1>6. QED
  BY <1>3, <1>4, <1>5 DEF EntryOps

\* Every step of the console moves a list by at most one row.
LEMMA ListStep ==
  ASSUME ConsoleInv, ConsoleInv', [ConsoleNext]_consoleVars, NEW list \in Lists
  PROVE  ListMoves(list) /\ TimesStay(list)
<1>1. CASE Tick \/ ConsoleLogout \/ UNCHANGED consoleVars
           \/ \E c \in Clients : ConsoleLogin(c)
  <2>1. Table(list)' = Table(list)
    BY <1>1 DEF Tick, ConsoleLogout, consoleVars, ConsoleLogin, Table
  <2>2. QED
    BY <2>1, QuietList
<1>2. ASSUME NEW c \in Clients, NEW op \in EntryOps,
             \/ ConsoleChangeDrone(c, op)
             \/ ConsoleChangeOperator(c, op)
             \/ ConsoleChangeCapability(c, op)
      PROVE  ListMoves(list) /\ TimesStay(list)
  <2>1. PICK e \in Entries : ChangeEntry(e, op)
    BY <1>2
    DEF ConsoleChangeDrone, ConsoleChangeOperator, ConsoleChangeCapability,
        ChangeDrone, ChangeOperator, ChangeCapability, Entries
  <2>2. CASE list \in {"drones", "operators", "capabilities"}
    BY <2>1, <2>2, EntryList
  <2>3. CASE list \in {"commands", "telemetry", "logs"}
    <3>1. Table(list)' = Table(list)
      BY <1>2, <2>3
      DEF ConsoleChangeDrone, ConsoleChangeOperator, ConsoleChangeCapability, Table
    <3>2. QED
      BY <3>1, QuietList
  <2>4. QED
    BY <2>2, <2>3 DEF Lists
<1>3. ASSUME NEW c \in Clients, ConsoleCreateCommand(c)
      PROVE  ListMoves(list) /\ TimesStay(list)
  <2>1. CASE list # "commands"
    BY <1>3, <2>1, QuietList DEF ConsoleCreateCommand, Table
  <2>2. CASE list = "commands"
    <3>1. PICK k \in Commands, d \in Drones, s \in Capabilities :
            CreateCommand(k, d, s)
      BY <1>3 DEF ConsoleCreateCommand
    <3>2. /\ console_commands[k] = NoRow
          /\ console_commands'[k] # NoRow
          /\ \A j \in Commands \ {k} : console_commands'[j] = console_commands[j]
          /\ DOMAIN console_commands = Commands
      BY <3>1, CreateCommandStep DEF ConsoleInv, ConsoleTypeOK
    <3>3. QED
      BY <2>2, <3>2, InsertList DEF Table
  <2>3. QED
    BY <2>1, <2>2
<1>4. ASSUME NEW c \in Clients, ConsoleUpdateCommandStatus(c)
      PROVE  ListMoves(list) /\ TimesStay(list)
  <2>1. CASE list # "commands"
    BY <1>4, <2>1, QuietList DEF ConsoleUpdateCommandStatus, Table
  <2>2. CASE list = "commands"
    <3>1. PICK k \in Commands, next \in 0 .. 3 : UpdateCommandStatus(k, next)
      BY <1>4 DEF ConsoleUpdateCommandStatus
    <3>2. /\ console_commands[k] # NoRow
          /\ console_commands'[k] # NoRow
          /\ console_commands'[k].created_at = console_commands[k].created_at
          /\ \A j \in Commands \ {k} : console_commands'[j] = console_commands[j]
      BY <3>1, CommandStatusStep
    <3>3. Joined(list) = Total(list) /\ Joined(list)' = Total(list)'
      BY JoinsDropNothing, JoinsDropNothingNext
      DEF ConsoleInv, TotalsCountWhatIsListed
    <3>4. /\ Total(list)' = Total(list)
          /\ Gone(list)' = {} /\ Gone(list) = {}
          /\ \A e \in Total(list) : At(list, e)' = At(list, e)
      BY <2>2, <3>2 DEF Total, Gone, At, CommandPage
    <3>5. QED
      BY <3>3, <3>4 DEF ListMoves, TimesStay
  <2>3. QED
    BY <2>1, <2>2
<1>5. ASSUME NEW c \in Clients, ConsoleCreateTelemetry(c)
      PROVE  ListMoves(list) /\ TimesStay(list)
  <2>1. CASE list # "telemetry"
    BY <1>5, <2>1, QuietList DEF ConsoleCreateTelemetry, Table
  <2>2. CASE list = "telemetry"
    <3>1. PICK h \in Telemetry, d \in Drones, at \in Time : CreateTelemetry(h, d, at)
      BY <1>5 DEF ConsoleCreateTelemetry
    <3>2. /\ console_telemetry_records[h] = NoRow
          /\ console_telemetry_records'[h] # NoRow
          /\ \A j \in Telemetry \ {h} :
               console_telemetry_records'[j] = console_telemetry_records[j]
          /\ DOMAIN console_telemetry_records = Telemetry
      BY <3>1, TelemetryStep DEF ConsoleInv, ConsoleTypeOK
    <3>3. QED
      BY <2>2, <3>2, InsertList DEF Table
  <2>3. QED
    BY <2>1, <2>2
<1>6. ASSUME NEW c \in Clients, RecordConsoleOperation(c)
      PROVE  ListMoves(list) /\ TimesStay(list)
  <2>1. CASE list # "logs" \/ UNCHANGED console_logs
    BY <1>6, <2>1, QuietList DEF RecordConsoleOperation, Table
  <2>2. CASE list = "logs" /\ WriteLog(logging[c])
    <3>1. PICK l \in LogRows :
            /\ console_logs[l] = NoRow
            /\ console_logs' = [console_logs EXCEPT ![l] =
                                  [op |-> logging[c], created_at |-> now]]
      BY <2>2 DEF WriteLog
    <3>2. logging[c] \in Ops
      BY <1>6 DEF ConsoleInv, ConsoleTypeOK, RecordConsoleOperation
    <3>3. /\ console_logs'[l] # NoRow
          /\ \A j \in LogRows \ {l} : console_logs'[j] = console_logs[j]
          /\ DOMAIN console_logs = LogRows
      BY <3>1, <3>2, WriteLogStep DEF ConsoleInv, ConsoleTypeOK
    <3>4. QED
      BY <2>2, <3>1, <3>3, InsertList DEF Table
  <2>3. QED
    BY <1>6, <2>1, <2>2 DEF RecordConsoleOperation
<1>7. QED
  BY <1>1, <1>2, <1>3, <1>4, <1>5, <1>6 DEF ConsoleNext

-----------------------------------------------------------------------------
(***************************************************************************)
(* The walk.                                                               *)
(***************************************************************************)

\* Every row a list can show.
AnyRow == Entries \union Commands \union Telemetry \union LogRows

Walks == [pc : {"rows", "total", "done"}, list : Lists, size : Sizes,
          current : Nat \ {0}, start : SUBSET AnyRow, gone : SUBSET Entries,
          seen : SUBSET AnyRow]

\* How many rows of the list the pages read so far stand for; in the end, all.
Reached ==
  LET bounds == PageBounds(walk.current, walk.size) IN
  CASE walk.pc = "rows"  -> bounds.offset
    [] walk.pc = "total" -> bounds.offset + bounds.size
    [] walk.pc = "done"  -> Cardinality(AnyRow)

\* The rows the reader has missed for good.
SlippedBy ==
  Passed(Missed, Joined(walk.list), Held, Times(walk.list), Reached)

\* Inductive: a row slips past the reader only when another is deleted.
WalkInv ==
  walk # NotWalking =>
    /\ walk \in Walks
    /\ walk.gone \subseteq Gone(walk.list)
    /\ walk.start \subseteq Joined(walk.list) \union Gone(walk.list)
    /\ Cardinality(SlippedBy) <= Cardinality(Gone(walk.list) \ walk.gone)

\* A page has at least one row, and the pages lie one after the other.
LEMMA Bounds ==
  ASSUME NEW current \in Nat \ {0}, NEW size \in Sizes
  PROVE  LET bounds == PageBounds(current, size)
             next == PageBounds(current + 1, size)
         IN  /\ bounds.size \in Nat
             /\ bounds.offset \in Nat
             /\ next.offset = bounds.offset + bounds.size
             /\ current = 1 => bounds.offset = 0
<1> DEFINE n == IF size < 1 \/ size > MaxSize THEN DefaultSize ELSE size
<1>1. n \in Nat
  BY PageAssumption
<1> HIDE DEF n
<1>2. /\ (current - 1) * n \in Nat
      /\ (current + 1 - 1) * n = (current - 1) * n + n
      /\ current = 1 => (current - 1) * n = 0
  BY <1>1
<1>3. /\ PageBounds(current, size) = [size |-> n, offset |-> (current - 1) * n]
      /\ PageBounds(current + 1, size) = [size |-> n, offset |-> (current + 1 - 1) * n]
  BY DEF PageBounds, n
<1>4. QED
  BY <1>1, <1>2, <1>3

\* Reading the tables again shows the same list.
LEMMA SameTables ==
  ASSUME UNCHANGED consoleVars, NEW list
  PROVE  /\ Joined(list)' = Joined(list)
         /\ Total(list)' = Total(list)
         /\ Gone(list)' = Gone(list)
         /\ Times(list)' = Times(list)
<1>1. /\ Total(list)' = Total(list)
      /\ Gone(list)' = Gone(list)
      /\ \A e : At(list, e)' = At(list, e)
      /\ \A e : Exists(e)' = Exists(e)
  BY DEF consoleVars, Total, Gone, At, DronePage, OperatorPage, CapabilityPage,
         CommandPage, TelemetryPage, LogPage, Live, Exists
<1>2. Joined(list)' = Joined(list)
  BY <1>1 DEF Joined, consoleVars
<1>3. QED
  BY <1>1, <1>2 DEF Times

\* What a reader has to do with is finite.
LEMMA WalkFacts ==
  ASSUME ConsoleInv, NEW list \in Lists
  PROVE  /\ IsFiniteSet(Joined(list))
         /\ IsFiniteSet(Gone(list))
         /\ \A f \in Joined(list) : Times(list)[f] \in Int
         /\ IsFiniteSet(AnyRow) /\ Cardinality(AnyRow) \in Nat
         /\ Joined(list) \subseteq AnyRow
         /\ Gone(list) \subseteq Entries
         /\ Cardinality(Joined(list)) \in Nat
         /\ Cardinality(Joined(list)) <= Cardinality(AnyRow)
<1>1. /\ IsFiniteSet(Joined(list))
      /\ IsFiniteSet(Gone(list))
      /\ \A f \in Joined(list) : Times(list)[f] \in Int
  BY ListFacts
<1>2. IsFiniteSet(AnyRow)
  <2>1. IsFiniteSet(Entries \union Commands)
    BY ConsoleFinite, FS_Union
  <2>2. IsFiniteSet(Entries \union Commands \union Telemetry)
    BY <2>1, ConsoleFinite, FS_Union
  <2>3. QED
    BY <2>2, ConsoleFinite, FS_Union DEF AnyRow
<1>3. Joined(list) \subseteq AnyRow
  BY DEF Joined, Lists, Total, DronePage, OperatorPage, CapabilityPage,
         CommandPage, TelemetryPage, LogPage, Entries, AnyRow
<1>4. Gone(list) \subseteq Entries
  BY DEF Gone, Entries
<1>5. QED
  BY <1>1, <1>2, <1>3, <1>4, FS_Subset, FS_CardinalityType

\* The clients change the list while the reader does nothing.
LEMMA ChangeKeepsWalk ==
  ASSUME ConsoleInv, ConsoleInv', WalkInv, [ConsoleNext]_consoleVars,
         UNCHANGED walk
  PROVE  WalkInv'
<1> SUFFICES ASSUME walk # NotWalking
             PROVE  WalkInv'
  BY DEF WalkInv
<1> DEFINE list == walk.list
           J == Joined(list)
           G == Gone(list)
           W == J \union (G \ walk.gone)
           at == Times(list)
           S == Missed
           n == Reached
<1>1. /\ walk \in Walks
      /\ list \in Lists
      /\ walk.gone \subseteq G
      /\ walk.start \subseteq J \union G
      /\ Cardinality(Passed(S, J, W, at, n)) <= Cardinality(G \ walk.gone)
  BY DEF WalkInv, Walks, SlippedBy, Held
<1>2. /\ IsFiniteSet(J) /\ IsFiniteSet(G) /\ IsFiniteSet(G \ walk.gone)
      /\ \A f \in J : at[f] \in Int
      /\ S \subseteq J
      /\ n \in Int
  <2>1. S \subseteq J
    BY DEF Missed
  <2>2. n \in Int
    BY <1>1, Bounds, WalkFacts DEF Reached, Walks
  <2>3. QED
    BY <1>1, <2>1, <2>2, WalkFacts, FS_Subset
<1>3. /\ IsFiniteSet(Joined(list)')
      /\ ListMoves(list)
      /\ TimesStay(list)
  <2>1. ListMoves(list) /\ TimesStay(list)
    BY <1>1, ListStep
  <2>2. IsFiniteSet(Joined(list)')
    BY <1>2, <2>1, FS_AddElement, FS_RemoveElement DEF ListMoves
  <2>3. QED
    BY <2>1, <2>2
<1>4. /\ Joined(walk.list)' = Joined(list)'
      /\ Gone(walk.list)' = Gone(list)'
      /\ Times(walk.list)' = Times(list)'
      /\ Reached' = n
      /\ Held' = Joined(list)' \union (Gone(list)' \ walk.gone)
      /\ Missed' = {e \in walk.start \intersect Joined(list)' : e \notin walk.seen}
      /\ S = {e \in walk.start \intersect J : e \notin walk.seen}
  BY DEF Held, Missed, Reached
<1>5. \A f \in J \union G :
        f \in Joined(list)' \union Gone(list)' => Times(list)'[f] = at[f]
  BY <1>3 DEF Times, TimesStay
<1>6. SlippedBy' = Passed(Missed', Joined(list)', Held', Times(list)', n)
  BY <1>4 DEF SlippedBy
<1>7. IsFiniteSet(Passed(S, J, W, at, n)) /\ Cardinality(Passed(S, J, W, at, n)) \in Nat
  <2>1. Passed(S, J, W, at, n) \subseteq J
    BY <1>2 DEF Passed
  <2>2. QED
    BY <1>2, <2>1, FS_Subset, FS_CardinalityType
<1> HIDE DEF J, G, at, S, n, list
<1>8. Cardinality(SlippedBy') <= Cardinality(Gone(list)' \ walk.gone)
  <2>1. CASE Joined(list)' = J /\ Gone(list)' = G
    <3>1. Times(list)' = at
      BY <1>3, <2>1 DEF Times, TimesStay, at, J, G
    <3>2. Missed' = S /\ Held' = W
      BY <1>4, <2>1
    <3>3. QED
      BY <1>1, <1>6, <2>1, <3>1, <3>2
  <2>2. ASSUME NEW x, x \notin J \union G,
               Joined(list)' = J \union {x}, Gone(list)' = G
        PROVE  Cardinality(SlippedBy') <= Cardinality(Gone(list)' \ walk.gone)
    <3>1. Missed' = S
      BY <1>1, <1>4, <2>2
    <3>2. Held' = W \union {x}
      BY <1>4, <2>2
    <3>3. \A f \in W : Times(list)'[f] = at[f]
      BY <1>5, <2>2
    <3>4. IsFiniteSet(J \union {x})
      BY <1>3, <2>2
    <3>5. Passed(S, J \union {x}, W \union {x}, Times(list)', n)
            \subseteq Passed(S, J, W, at, n)
      BY <1>2, <3>3, <3>4, GrowthPassesNone
    <3>6. SlippedBy' \subseteq Passed(S, J, W, at, n)
      BY <1>6, <2>2, <3>1, <3>2, <3>5
    <3>7. Cardinality(SlippedBy') <= Cardinality(Passed(S, J, W, at, n))
          /\ IsFiniteSet(SlippedBy')
      BY <1>7, <3>6, FS_Subset
    <3>8. /\ Cardinality(SlippedBy') \in Nat
          /\ Cardinality(G \ walk.gone) \in Nat
      BY <1>2, <3>7, FS_CardinalityType
    <3>9. QED
      BY <1>1, <1>7, <2>2, <3>7, <3>8
  <2>3. ASSUME NEW x \in J \ G,
               Joined(list)' = J \ {x}, Gone(list)' = G \union {x}
        PROVE  Cardinality(SlippedBy') <= Cardinality(Gone(list)' \ walk.gone)
    <3>1. Missed' = S \ {x}
      BY <1>4, <2>3
    <3>2. Held' = W
      BY <1>1, <1>4, <2>3
    <3>3. Times(list)' = at
      <4>1. (J \ {x}) \union (G \union {x}) = J \union G
        BY <2>3
      <4>2. QED
        BY <1>3, <2>3, <4>1 DEF Times, TimesStay, at, J, G
    <3>4. Cardinality(SlippedBy') <= Cardinality(Passed(S, J, W, at, n)) + 1
      BY <1>2, <1>6, <2>3, <3>1, <3>2, <3>3, DeletionPassesOne
    <3>5. /\ Gone(list)' \ walk.gone = (G \ walk.gone) \union {x}
          /\ x \notin G \ walk.gone
      BY <1>1, <2>3
    <3>6. /\ Cardinality(Gone(list)' \ walk.gone) = Cardinality(G \ walk.gone) + 1
          /\ Cardinality(G \ walk.gone) \in Nat
      BY <1>2, <3>5, FS_AddElement, FS_CardinalityType
    <3>7. IsFiniteSet(SlippedBy') /\ Cardinality(SlippedBy') \in Nat
      <4>1. SlippedBy' \subseteq J
        BY <1>2, <1>6, <3>1 DEF Passed
      <4>2. QED
        BY <1>2, <4>1, FS_Subset, FS_CardinalityType
    <3>8. QED
      BY <1>1, <1>7, <3>4, <3>6, <3>7
  <2>4. QED
    BY <1>3, <2>1, <2>2, <2>3 DEF ListMoves, J, G
<1>9. QED
  BY <1>1, <1>3, <1>4, <1>8 DEF WalkInv, ListMoves, J, G, list

\* A client opens a list.
LEMMA StartKeepsWalk ==
  ASSUME ConsoleInv, NEW l \in Lists, NEW size \in Sizes, Start(l, size)
  PROVE  WalkInv'
<1> DEFINE w == [pc |-> "rows", list |-> l, size |-> size, current |-> 1,
                 start |-> Joined(l), gone |-> Gone(l), seen |-> {}]
<1>1. walk' = w /\ UNCHANGED consoleVars
  BY DEF Start
<1>2. /\ w \in Walks
      /\ w.pc = "rows" /\ w.list = l /\ w.current = 1 /\ w.size = size
      /\ w.start = Joined(l) /\ w.gone = Gone(l)
  BY WalkFacts DEF Walks
<1> HIDE DEF w
<1>3. /\ Joined(walk.list)' = Joined(l)
      /\ Gone(walk.list)' = Gone(l)
      /\ Times(walk.list)' = Times(l)
  BY <1>1, <1>2, SameTables
<1>4. Reached' = 0
  BY <1>1, <1>2, Bounds DEF Reached
<1>5. SlippedBy' = {}
  <2>1. SlippedBy' = Passed(Missed', Joined(l), Held', Times(l), 0)
    BY <1>3, <1>4 DEF SlippedBy
  <2>2. Missed' \subseteq Joined(l)
    BY <1>3 DEF Missed
  <2>3. \A e \in Missed' : Cardinality(Above(Joined(l), Times(l), e)) \in Nat
    BY <2>2, WalkFacts, Depths
  <2>4. QED
    BY <2>1, <2>3 DEF Passed
<1>6. /\ Cardinality(SlippedBy') = 0
      /\ Cardinality(Gone(walk.list)' \ walk'.gone) = 0
  BY <1>1, <1>2, <1>3, <1>5, FS_EmptySet
<1>7. QED
  BY <1>1, <1>2, <1>3, <1>6 DEF WalkInv

\* The rows of a page.
LEMMA RowsKeepWalk ==
  ASSUME ConsoleInv, WalkInv, ReadRows
  PROVE  WalkInv'
<1> DEFINE l == walk.list
           b == PageBounds(walk.current, walk.size)
<1>1. PICK R \in SUBSET Joined(l) :
        /\ IsPage(l, R, b)
        /\ walk' = [walk EXCEPT !.pc = "total", !.seen = @ \union R]
  BY DEF ReadRows
<1>2. /\ walk.pc = "rows" /\ UNCHANGED consoleVars
      /\ walk \in Walks
      /\ walk.gone \subseteq Gone(l)
      /\ walk.start \subseteq Joined(l) \union Gone(l)
      /\ Cardinality(SlippedBy) <= Cardinality(Gone(l) \ walk.gone)
  BY DEF ReadRows, WalkInv, NotWalking
<1>3. /\ l \in Lists /\ walk.current \in Nat \ {0} /\ walk.size \in Sizes
      /\ b.offset \in Nat /\ b.size \in Nat
  BY <1>2, Bounds DEF Walks
<1>4. /\ walk' \in Walks
      /\ walk'.pc = "total" /\ walk'.list = l
      /\ walk'.current = walk.current /\ walk'.size = walk.size
      /\ walk'.start = walk.start /\ walk'.gone = walk.gone
      /\ walk'.seen = walk.seen \union R
  BY <1>1, <1>2, <1>3, WalkFacts DEF Walks
<1>5. /\ Joined(walk.list)' = Joined(l)
      /\ Gone(walk.list)' = Gone(l)
      /\ Times(walk.list)' = Times(l)
  BY <1>2, <1>4, SameTables
<1>6. /\ Missed' = Missed \ R
      /\ Held' = Held
      /\ Reached = b.offset
      /\ Reached' = b.offset + b.size
  BY <1>2, <1>4, <1>5 DEF Missed, Held, Reached
<1>7. SlippedBy' \subseteq SlippedBy
  <2> DEFINE J == Joined(l)
             at == Times(l)
             S == Missed
  <2>1. PICK Before \in SUBSET (J \ R) :
          LET After == J \ (Before \union R) IN
          /\ \A f \in Before, r \in R : At(l, f) >= At(l, r)
          /\ \A f \in Before \union R, y \in After : At(l, f) >= At(l, y)
          /\ Cardinality(Before) = b.offset
               \/ (Before = J /\ Cardinality(J) < b.offset)
          /\ Cardinality(R) = b.size
               \/ (Cardinality(R) < b.size /\ After = {})
    BY <1>1 DEF IsPage
  <2> DEFINE After == J \ (Before \union R)
  <2>2. \A e \in J : at[e] = At(l, e)
    BY DEF Times
  <2>3. /\ \A f \in Before, r \in R : at[f] >= at[r]
        /\ \A f \in Before \union R, y \in After : at[f] >= at[y]
    BY <2>1, <2>2
  <2>4. /\ IsFiniteSet(J) /\ J \subseteq Held
        /\ \A f \in J : at[f] \in Int
        /\ S \subseteq J
    BY <1>3, WalkFacts DEF Held, Missed
  <2>5. SlippedBy' = Passed(S \ R, J, Held, at, b.offset + b.size)
    BY <1>5, <1>6 DEF SlippedBy
  <2>6. SlippedBy = Passed(S, J, Held, at, b.offset)
    BY <1>6 DEF SlippedBy
  <2>7. After = J \ (Before \union R)
    OBVIOUS
  <2>8. /\ Cardinality(Before) = b.offset
             \/ (Before = J /\ Cardinality(J) < b.offset)
        /\ Cardinality(R) = b.size
             \/ (Cardinality(R) < b.size /\ After = {})
    BY <2>1
  <2> HIDE DEF J, at, S, b, After
  <2>9. Passed(S \ R, J, Held, at, b.offset + b.size) \subseteq
          Passed(S, J, Held, at, b.offset)
    <3>1. R \in SUBSET J /\ Before \in SUBSET (J \ R)
      BY DEF J
    <3>2. QED
      BY <1>3, <2>3, <2>4, <2>7, <2>8, <3>1, PagePassesNone
  <2>10. QED
    BY <2>5, <2>6, <2>9
<1>8. Cardinality(SlippedBy') <= Cardinality(Gone(l) \ walk.gone)
  <2>1. SlippedBy \subseteq Joined(l)
    BY DEF SlippedBy, Passed, Missed
  <2>2. /\ IsFiniteSet(Joined(l))
        /\ IsFiniteSet(Gone(l) \ walk.gone)
    BY <1>3, WalkFacts, FS_Subset
  <2>3. IsFiniteSet(SlippedBy)
    BY <2>1, <2>2, FS_Subset
  <2>4. IsFiniteSet(SlippedBy') /\ Cardinality(SlippedBy') <= Cardinality(SlippedBy)
    BY <1>7, <2>3, FS_Subset
  <2>5. /\ Cardinality(SlippedBy') \in Nat
        /\ Cardinality(SlippedBy) \in Nat
        /\ Cardinality(Gone(l) \ walk.gone) \in Nat
    BY <2>2, <2>3, <2>4, FS_CardinalityType
  <2>6. QED
    BY <1>2, <2>4, <2>5
<1>9. QED
  BY <1>2, <1>4, <1>5, <1>8 DEF WalkInv

\* The total of a page: it ends the walk only when the pages read stand for the
\* whole list, so that nothing that slipped past is still to come.
LEMMA TotalKeepsWalk ==
  ASSUME ConsoleInv, WalkInv, ReadTotal
  PROVE  WalkInv'
<1> DEFINE l == walk.list
           b == PageBounds(walk.current, walk.size)
           more == b.offset + b.size < Cardinality(Total(l))
<1>1. /\ walk.pc = "total" /\ UNCHANGED consoleVars
      /\ walk' = [walk EXCEPT !.pc = IF more THEN "rows" ELSE "done",
                              !.current = IF more THEN @ + 1 ELSE @]
      /\ walk \in Walks
      /\ walk.gone \subseteq Gone(l)
      /\ walk.start \subseteq Joined(l) \union Gone(l)
      /\ Cardinality(SlippedBy) <= Cardinality(Gone(l) \ walk.gone)
  BY DEF ReadTotal, WalkInv, NotWalking
<1>2. /\ l \in Lists /\ walk.current \in Nat \ {0} /\ walk.size \in Sizes
      /\ b.offset \in Nat /\ b.size \in Nat
      /\ PageBounds(walk.current + 1, walk.size).offset = b.offset + b.size
  BY <1>1, Bounds DEF Walks
<1>3. /\ walk' \in Walks
      /\ walk'.list = l /\ walk'.size = walk.size
      /\ walk'.start = walk.start /\ walk'.gone = walk.gone
      /\ walk'.seen = walk.seen
      /\ more => walk'.pc = "rows" /\ walk'.current = walk.current + 1
      /\ ~ more => walk'.pc = "done"
  <2>1. walk.current + 1 \in Nat \ {0}
    BY <1>2
  <2> HIDE DEF more
  <2>2. CASE more
    <3>1. walk' = [walk EXCEPT !.pc = "rows", !.current = walk.current + 1]
      BY <1>1, <2>2
    <3>2. QED
      BY <1>1, <2>1, <2>2, <3>1 DEF Walks
  <2>3. CASE ~ more
    <3>1. walk' = [walk EXCEPT !.pc = "done", !.current = walk.current]
      BY <1>1, <2>3
    <3>2. QED
      BY <1>1, <1>2, <2>3, <3>1 DEF Walks
  <2>4. QED
    BY <2>2, <2>3
<1>4. /\ Joined(walk.list)' = Joined(l)
      /\ Gone(walk.list)' = Gone(l)
      /\ Times(walk.list)' = Times(l)
  BY <1>1, <1>3, SameTables
<1>5. Missed' = Missed /\ Held' = Held
  BY <1>3, <1>4 DEF Missed, Held
<1>6. /\ Reached = b.offset + b.size
      /\ more => Reached' = b.offset + b.size
      /\ ~ more => Reached' = Cardinality(AnyRow)
  <2>1. Cardinality(AnyRow)' = Cardinality(AnyRow)
    OBVIOUS
  <2> HIDE DEF more
  <2>2. QED
    BY <1>1, <1>2, <1>3, <2>1 DEF Reached
<1>7. \A e \in Missed :
        (Cardinality(Above(Joined(l), Times(l), e)) < Reached')
          => (Cardinality(Above(Joined(l), Times(l), e)) < Reached)
  <2>1. CASE more
    BY <1>6, <2>1
  <2>2. CASE ~ more
    <3>1. Cardinality(Joined(l)) \in Nat /\ Cardinality(Joined(l)) <= Reached
      BY <1>2, <1>6, <2>2, WalkFacts, JoinsDropNothing
      DEF ConsoleInv, TotalsCountWhatIsListed
    <3>2. Reached \in Int
      BY <1>2, <1>6
    <3>3. \A e \in Joined(l) :
            /\ Cardinality(Above(Joined(l), Times(l), e)) \in Nat
            /\ Cardinality(Above(Joined(l), Times(l), e)) < Cardinality(Joined(l))
      BY <1>2, WalkFacts, Depths
    <3>4. QED
      BY <3>1, <3>2, <3>3 DEF Missed
  <2>3. QED
    BY <2>1, <2>2
<1>8. SlippedBy' \subseteq SlippedBy
  <2>1. SlippedBy' = Passed(Missed, Joined(l), Held, Times(l), Reached')
    BY <1>4, <1>5 DEF SlippedBy
  <2>2. QED
    BY <1>7, <2>1 DEF SlippedBy, Passed
<1>9. Cardinality(SlippedBy') <= Cardinality(Gone(l) \ walk.gone)
  <2>1. SlippedBy \subseteq Joined(l)
    BY DEF SlippedBy, Passed, Missed
  <2>2. /\ IsFiniteSet(Joined(l))
        /\ IsFiniteSet(Gone(l) \ walk.gone)
    BY <1>2, WalkFacts, FS_Subset
  <2>3. IsFiniteSet(SlippedBy)
    BY <2>1, <2>2, FS_Subset
  <2>4. IsFiniteSet(SlippedBy') /\ Cardinality(SlippedBy') <= Cardinality(SlippedBy)
    BY <1>8, <2>3, FS_Subset
  <2>5. /\ Cardinality(SlippedBy') \in Nat
        /\ Cardinality(SlippedBy) \in Nat
        /\ Cardinality(Gone(l) \ walk.gone) \in Nat
    BY <2>2, <2>3, <2>4, FS_CardinalityType
  <2>6. QED
    BY <1>1, <2>4, <2>5
<1>10. QED
  BY <1>1, <1>3, <1>4, <1>9 DEF WalkInv

-----------------------------------------------------------------------------
(***************************************************************************)
(* The theorems, of the console with a client that pages through a list.   *)
(***************************************************************************)

\* Reading changes nothing.
LEMMA PagesRead == [PageNext]_pageVars => [ConsoleNext]_consoleVars
BY DEF PageNext, pageVars, Start, ReadRows, ReadTotal

\* The invariants of the tables and of the log.
LEMMA EvidenceInvariant == PageSpec => []EvidenceInv
<1>1. PageInit => EvidenceInv
  <2> SUFFICES ASSUME PageInit PROVE EvidenceInv
    OBVIOUS
  <2>1. ConsoleInv
    BY InitConsole DEF PageInit
  <2>2. \A op \in LoggedOps : Logged(op) = {} /\ Logging(op) = {}
    BY DEF PageInit, ConsoleInit, SeedLog, Logged, Logging, LoggedOps, Ops, EntryOps
  <2>3. \A op \in LoggedOps :
          /\ Cardinality(Logged(op)) = 0
          /\ Cardinality(Logging(op)) = 0
          /\ Cardinality(Effects(op)) \in Nat
    BY <2>1, <2>2, FS_EmptySet, CountsFinite
  <2>4. QED
    BY <2>1, <2>3 DEF EvidenceInv, LogsAreEvidence, LoggedOps
<1>2. QED
  BY <1>1, EvidenceStep, PagesRead, PTL DEF PageSpec

\* Every row is one the tables can hold.
THEOREM ConsoleTypes == PageSpec => []ConsoleTypeOK
<1>1. EvidenceInv => ConsoleTypeOK
  BY DEF EvidenceInv, ConsoleInv
<1>2. QED
  BY <1>1, EvidenceInvariant, PTL

\* Racing requests move a command along its table, each move once.
THEOREM CommandsMoveOnce == PageSpec => []CommandMovesOnce
<1>1. EvidenceInv => CommandMovesOnce
  BY DEF EvidenceInv, ConsoleInv
<1>2. QED
  BY <1>1, EvidenceInvariant, PTL

\* Every row of the log stands for a change of its own that took effect.
THEOREM LogEvidence == PageSpec => []LogsAreEvidence
<1>1. EvidenceInv => LogsAreEvidence
  BY DEF EvidenceInv
<1>2. QED
  BY <1>1, EvidenceInvariant, PTL

\* The total of a page is the number of rows its list can show.
THEOREM TotalsExact == PageSpec => []TotalsCountWhatIsListed
<1>1. EvidenceInv => TotalsCountWhatIsListed
  BY JoinsDropNothing DEF EvidenceInv, ConsoleInv
<1>2. QED
  BY <1>1, EvidenceInvariant, PTL

\* Of the rows that kept a place of their own, a reader misses at most as many
\* as were deleted from the list meanwhile.
THEOREM PagesMissFew == PageSpec => []WalkMissesOnlyForDeletions
<1>1. PageInit => WalkInv
  BY DEF PageInit, WalkInv
<1>2. EvidenceInv /\ EvidenceInv' /\ WalkInv /\ [PageNext]_pageVars => WalkInv'
  <2> SUFFICES ASSUME ConsoleInv, ConsoleInv', WalkInv, [PageNext]_pageVars
               PROVE  WalkInv'
    BY DEF EvidenceInv
  <2>1. CASE [ConsoleNext]_consoleVars /\ UNCHANGED walk
    BY <2>1, ChangeKeepsWalk
  <2>2. QED
    BY <2>1, StartKeepsWalk, RowsKeepWalk, TotalKeepsWalk DEF PageNext, pageVars
<1>3. EvidenceInv /\ WalkInv => WalkMissesOnlyForDeletions
  <2> SUFFICES ASSUME ConsoleInv, WalkInv, walk.pc = "done"
               PROVE  Cardinality(Untied(Missed))
                        <= Cardinality(Gone(walk.list) \ walk.gone)
    BY DEF EvidenceInv, WalkMissesOnlyForDeletions
  <2> DEFINE J == Joined(walk.list)
             at == Times(walk.list)
  <2>1. /\ walk.list \in Lists
        /\ walk.gone \subseteq Gone(walk.list)
        /\ Cardinality(SlippedBy) <= Cardinality(Gone(walk.list) \ walk.gone)
    BY DEF WalkInv, Walks, NotWalking
  <2>2. \A e \in J : /\ Cardinality(Above(J, at, e)) \in Nat
                     /\ Cardinality(Above(J, at, e)) < Cardinality(J)
    BY <2>1, WalkFacts, Depths
  <2>3. /\ Cardinality(J) \in Nat /\ Cardinality(AnyRow) \in Nat
        /\ Cardinality(J) <= Cardinality(AnyRow)
    BY <2>1, WalkFacts
  <2>4. \A e \in Missed : Cardinality(Above(J, at, e)) < Reached
    <3>1. Reached = Cardinality(AnyRow)
      BY DEF Reached
    <3>2. Missed \subseteq J
      BY DEF Missed
    <3>3. QED
      BY <2>2, <2>3, <3>1, <3>2
  <2>5. \A e \in Missed : Alone(Held, at, e) <=>
          \A f \in Held \ {e} : At(walk.list, e) # At(walk.list, f)
    <3>1. \A e \in Held : at[e] = At(walk.list, e)
      BY DEF Held, Times
    <3>2. Missed \subseteq Held
      BY DEF Missed, Held
    <3>3. QED
      BY <3>1, <3>2 DEF Alone
  <2>6. Untied(Missed) = SlippedBy
    BY <2>4, <2>5 DEF Untied, SlippedBy, Passed
  <2>7. QED
    BY <2>1, <2>6
<1>4. QED
  BY <1>1, <1>2, <1>3, EvidenceInvariant, PTL DEF PageSpec

\* A session that ended stays ended: the clock does not go back and no login
\* draws a token again.
THEOREM SessionsEnd == PageSpec => SessionsEndForGood
<1> DEFINE A == \A t \in Tokens :
       console_sessions[t].state # "absent" /\ ~ SessionUser(t) =>
         ~ SessionUser(t)'
<1>1. ConsoleInv /\ [ConsoleNext]_consoleVars => A
  <2> SUFFICES ASSUME ConsoleInv, [ConsoleNext]_consoleVars,
                      NEW t \in Tokens,
                      console_sessions[t].state # "absent", ~ SessionUser(t)
               PROVE  ~ SessionUser(t)'
    OBVIOUS
  <2>1. /\ now \in 0 .. MaxTime
        /\ console_sessions \in [Tokens -> SessionRow]
    BY DEF ConsoleInv, ConsoleTypeOK, Time
  <2>2. console_sessions'[t] = console_sessions[t] /\ now' = now
        => ~ SessionUser(t)'
    BY DEF SessionUser
  <2>3. CASE Tick
    <3>1. /\ now' = now + 1
          /\ console_sessions'[t] = console_sessions[t]
          /\ console_sessions[t].expires_at \in Nat
      BY <2>1, <2>3 DEF Tick, SessionRow
    <3>2. QED
      BY <2>1, <3>1, ConsoleAssumption DEF SessionUser
  <2>4. CASE ConsoleLogout
    <3>1. PICK x \in Tokens : RevokeSession(x)
      BY <2>4 DEF ConsoleLogout
    <3>2. x # t /\ now' = now
      BY <2>4, <3>1 DEF RevokeSession, ConsoleLogout
    <3>3. QED
      BY <2>1, <2>2, <3>1, <3>2 DEF RevokeSession
  <2>5. ASSUME NEW c \in Clients, ConsoleLogin(c)
        PROVE  ~ SessionUser(t)'
    <3>1. PICK x \in Tokens : Login(x)
      BY <2>5 DEF ConsoleLogin
    <3>2. x # t /\ now' = now
      BY <2>5, <3>1 DEF Login, ConsoleLogin
    <3>3. QED
      BY <2>1, <2>2, <3>1, <3>2 DEF Login
  <2>6. QED
    BY <2>2, <2>3, <2>4, <2>5
    DEF ConsoleNext, consoleVars, ConsoleChangeDrone, ConsoleChangeOperator,
        ConsoleChangeCapability, ConsoleCreateCommand,
        ConsoleUpdateCommandStatus, ConsoleCreateTelemetry,
        RecordConsoleOperation
<1>2. EvidenceInv /\ [PageNext]_pageVars => [A]_consoleVars
  BY <1>1, PagesRead DEF EvidenceInv
<1>3. QED
  BY <1>2, EvidenceInvariant, PTL DEF PageSpec, SessionsEndForGood

=============================================================================
