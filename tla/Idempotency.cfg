SPECIFICATION Spec
CONSTANTS
  Requests = {r1, r2, r3}
  Bodies = {b1, b2}
  NoRecord = NoRecord
SYMMETRY Symmetry
INVARIANTS
  RepeatsCreateNothing
  ReplaysAreStored
CHECK_DEADLOCK FALSE
