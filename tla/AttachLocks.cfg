SPECIFICATION AttachSpec
CONSTANTS
  t1 = t1
  t2 = t2
  Tasks = {t1, t2}
  Batches = {b1, b2}
  c1 = c1
  c2 = c2
  Codes = {c1, c2}
  Requests <- MCRequests
  ExpiresAt <- MCExpiresAt
  Limit = 1
  MaxTime = 1
  Worker = Worker
  Nobody = Nobody
INVARIANTS
  BatchesAreWhole
  WorkIsNeverOrphaned
  OneBatchPerCode
  OnlyCancellationsDeadlock
PROPERTIES
  ImplementsBatchBoard
  RequestsEnd
  
CHECK_DEADLOCK FALSE
\* Every id is used once, so the clients may run out of things to do.
