------------------------------ MODULE Lifecycle ------------------------------
(***************************************************************************)
(* The status vocabularies and transition tables of internal/domain, and   *)
(* the pure predicates the services evaluate on a row they have read.  The *)
(* tables are relations: a pair <<from, to>> is a move the domain permits. *)
(***************************************************************************)
EXTENDS Naturals

MissionStatus == {"draft", "scheduled", "active", "closed"}

MissionMoves ==
  {<<"draft", "scheduled">>,
   <<"scheduled", "active">>, <<"scheduled", "closed">>,
   <<"active", "closed">>}

MissionCanMoveTo(from, to) == <<from, to>> \in MissionMoves

DroneTaskStatus ==
  {"queued", "completed", "device_transfer_pending", "accepted",
   "in_progress", "verified", "rejected", "archived"}

DroneTaskMoves ==
  {<<"queued", "completed">>,
   <<"completed", "device_transfer_pending">>,
   <<"device_transfer_pending", "accepted">>,
   <<"accepted", "in_progress">>,
   <<"in_progress", "verified">>, <<"in_progress", "rejected">>,
   <<"rejected", "archived">>, <<"verified", "archived">>}

DroneTaskCanMoveTo(from, to) == <<from, to>> \in DroneTaskMoves

\* DroneTask.Move on a row read earlier: the transition table, then the
\* expiry, which archiving alone ignores.
MoveAllowed(from, to, expires_at, now) ==
  /\ DroneTaskCanMoveTo(from, to)
  /\ now <= expires_at \/ to = "archived"

\* A plausible mistake in CanExecuteAt, used to test the properties: the window
\* alone.
BadCanExecuteAt(mission, now) ==
  /\ mission.starts_at <= now
  /\ now < mission.ends_at

\* Mission.CanExecuteAt: the window includes its start and excludes its end.
CanExecuteAt(mission, now) ==
  /\ mission.status = "active"
  /\ mission.starts_at <= now
  /\ now < mission.ends_at

\* Mission.ValidateWindow for the draft that CreateMission builds.
ValidateWindow(starts_at, ends_at, now) ==
  /\ starts_at < ends_at
  /\ now <= ends_at

\* DroneTaskRequest.Validate: a task may expire at the very instant it is made.
ValidateTaskRequest(expires_at, now) == now <= expires_at

\* The statuses the expiration worker takes a task out of.
UnfinishedStatus ==
  {"queued", "completed", "device_transfer_pending", "accepted", "in_progress"}

=============================================================================
