SPECIFICATION LifeSpec
CONSTANTS
  s1 = s1
  s2 = s2
  Nobody = Nobody
  Servers = {s1, s2}
  Release <- MCRelease
  Workers = {w1}
  Failing = {w1}
  Requests = {r1}
INVARIANTS
  SchemaMatchesRecords
  ServingMeansMigrated
  NoSenderBlocked
PROPERTIES
  CleanExit
  StartsEnd
  StoppingEnds
