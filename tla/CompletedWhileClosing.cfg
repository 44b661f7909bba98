SPECIFICATION Spec
CONSTANTS
  m1 = m1
  u1 = u1
  u2 = u2
  t1 = t1
  t2 = t2
  Missions = {m1}
  Units = {u1}
  Tasks = {t1}
  Requests = {r1, r2}
  MissionOf <- MCMissionOf
  Required <- MCRequiredOne
  UnitOf <- MCUnitOf
  Foresight = 0
  Limit = 1
  MaxTime = 0
  MaxVersion = 3
  MaxMissionVersion = 4
PROPERTIES
  CompletionInActiveMission
CHECK_DEADLOCK FALSE
\* The versions are bounded, so the clients run out of things to do.
