SPECIFICATION Spec
CONSTANTS
  Assignments = {a1, a2, a3}
  Units = {u1, u2}
  NoUnit = NoUnit
  Limit = 1
  MaxTime = 1
INVARIANTS
  StartsOnce
  AuditMissesOneAtMost
PROPERTIES
  AssignmentFollowsTable
  DueAssignmentsStart
CHECK_DEADLOCK FALSE
