\* Every id is used once, so the clients may run out of things to do.
CHECK_DEADLOCK FALSE
SPECIFICATION BatchSpec
CONSTANTS
  m1 = m1
  u1 = u1
  Missions = {m1}
  Units = {u1}
  Tasks = {t1}
  Requests = {}
  Batches = {b1}
  AlertKinds = {"reassess"}
  MissionOf <- MCMissionOf
  Required <- MCRequired
  UnitOf <- MCUnitOf
  Foresight = 0
  Limit = 1
  MaxTime = 0
  MaxVersion = 4
  MaxMissionVersion = 1
INVARIANTS
  NoTelemetryInCancelledBatch
