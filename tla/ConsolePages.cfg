\* Every id is used once, so the clients may run out of things to do.
CHECK_DEADLOCK FALSE
SPECIFICATION PageSpec
CONSTANTS
  Drones = {d1, d2}
  Operators = {o1}
  Capabilities = {s1}
  Seeds = {d1, s1}
  Commands = {k1, k2, k3}
  PendingSeeds = {k1}
  StartedSeeds = {k2}
  Telemetry = {h1, h2}
  TelemetrySeeds = {h1}
  SeedAge <- MCSeedAge
  LogRows = {l0, l1}
  LogSeeds = {l0}
  Tokens = {x1}
  Clients = {c1, c2}
  SessionLength = 1
  MaxTime = 1
  MaxChanges = 2
  Sizes = {5}
  DefaultSize = 1
  MaxSize = 2
SYMMETRY Symmetry
INVARIANTS
  CommandMovesOnce
  LogsAreEvidence
  WalkMissesOnlyForDeletions
PROPERTIES
  SessionsEndForGood
