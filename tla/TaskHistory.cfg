SPECIFICATION HistorySpec
CONSTANTS
  Clients = {c1, c2}
  Operators = {o1, o2}
  NoOperator = NoOperator
  Claims = {0, 4}
  Tolerance = 1
  PageSizes = {1, 2}
  Limit = 2
  MaxTime = 6
  MaxVersion = 4
SYMMETRY Symmetry
INVARIANTS
  HistoryTypeOK
  NamedTransfersVerify
  AuditOrderFollowsCommits
  WindowsMissOnlyOpenOrTied
CHECK_DEADLOCK FALSE
\* The clock and the versions are bounded.
