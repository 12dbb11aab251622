SPECIFICATION AnswersSpec
CONSTANTS
  j1 = j1
  q1 = q1
  w1 = w1
  c1 = c1
  x1 = x1
  x2 = x2
  x3 = x3
  x4 = x4
  x5 = x5
  x6 = x6
  e1 = e1
  e2 = e2
  e3 = e3
  s1 = s1
  p1 = p1
  k1 = k1
  v1 = v1
  v2 = v2
  JobSpecs <- MCJobSpecs
  Batches <- MCBatches
  Queues = {q1}
  Partitions = {1}
  Workers = {w1}
  TxIds = {x1, x2, x3, x4, x5, x6, c1, c2}
  Projections = {p1}
  Stores = {h1, h2}
  MaxTime = 3
  Clocks = {0, 2}
  LeaseDurations = {1}
  ClaimLimits = {1}
  DEFAULT_RETRY_DELAY_MS = 1
  MAINTENANCE_LIMIT = 1
  MaxOperationsPerCommit = 3
  PageLimit = 2
  ClaimDigest = ClaimDigest
  None = None
CHECK_DEADLOCK FALSE
INVARIANTS
  AbsentIsFinal
