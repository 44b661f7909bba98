SPECIFICATION Spec
CONSTANTS
  m1 = m1
  u1 = u1
  u2 = u2
  t1 = t1
  t2 = t2
  Missions = {m1}
  Units = {u1}
  Tasks = {t1}
  Requests = {}
  MissionOf <- MCMissionOf
  Required <- MCRequiredOne
  UnitOf <- MCUnitOf
  Foresight = 0
  Limit = 1
  MaxTime = 0
  MaxVersion = 3
  MaxMissionVersion = 1
PROPERTIES
  TaskFollowsMachine
