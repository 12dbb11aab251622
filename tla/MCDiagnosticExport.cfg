SPECIFICATION DiagnosticSpec
CONSTANTS
  j1 = j1
  q1 = q1
  x1 = x1
  x2 = x2
  x3 = x3
  x4 = x4
  e1 = e1
  e2 = e2
  e3 = e3
  e4 = e4
  k1 = k1
  k2 = k2
  k3 = k3
  JobSpecs <- MCJobSpecs
  Commits <- MCCommits
  Queues = {q1}
  Partitions = {1}
  Workers = {w1}
  TxIds = {x1, x2, x3, x4, c1}
  MaxTime = 3
  Clocks = {0}
  LeaseDurations = {1}
  ClaimLimits = {1}
  EXPORT_PAGE_SIZE = 1
  DEFAULT_RETRY_DELAY_MS = 1
  MAINTENANCE_LIMIT = 1
  ClaimDigest = ClaimDigest
  None = None
CHECK_DEADLOCK FALSE
INVARIANTS
  ExportGapFree
  ExportClosed
  SteadyEntriesOnce
