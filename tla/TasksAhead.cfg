SPECIFICATION Spec
CONSTANTS
  m1 = m1
  u1 = u1
  u2 = u2
  t1 = t1
  t2 = t2
  t3 = t3
  Missions = {m1}
  Units = {u1, u2}
  Tasks = {t1, t2, t3}
  Requests = {r1, r2}
  MissionOf <- MCMissionOf
  Required <- MCRequired
  UnitOf <- MCUnitOf
  Foresight = 1
  Limit = 1
  MaxTime = 0
  MaxVersion = 3
  MaxMissionVersion = 3
SYMMETRY Symmetry
INVARIANTS
  UnitNeverOverfull
  CounterCoversCompletions
  CompleteReportMeansFull
CHECK_DEADLOCK FALSE
\* The versions are bounded, so the clients run out of things to do.
