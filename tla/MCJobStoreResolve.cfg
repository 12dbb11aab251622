SPECIFICATION Spec
CONSTANTS
  j1 = j1
  j2 = j2
  j3 = j3
  q1 = q1
  JobSpecs <- MCJobSpecs
  Queues = {q1}
  Partitions = {1, 2}
  Workers = {w1}
  TxIds = {t1, t2}
  MaxTime = 3
  Clocks = {0, 2}
  LeaseDurations = {1}
  ClaimLimits = {1}
  DEFAULT_RETRY_DELAY_MS = 2
  MAINTENANCE_LIMIT = 1
  ClaimDigest = ClaimDigest
  None = None
CHECK_DEADLOCK FALSE
PROPERTY LeasedToPendingOnlyIdempotent
