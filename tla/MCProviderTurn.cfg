SPECIFICATION FairTurnSpec
CONSTANTS
  j1 = j1
  q1 = q1
  QUEUE = q1
  JobSpecs <- MCTurns
  Queues = {q1}
  Partitions = {1}
  Workers = {w1, w2}
  TxIds = {t1, t2, t3, t4, t5, t6}
  MaxTime = 13
  Clocks = {}
  LeaseDurations = {}
  ClaimLimits = {}
  LEASE_MS = 1
  HEARTBEAT_MS = 2
  MaxFaults = 1
  DEFAULT_RETRY_DELAY_MS = 1
  MAINTENANCE_LIMIT = 1
  ClaimDigest = ClaimDigest
  None = None
CHECK_DEADLOCK FALSE
INVARIANTS
  TurnCompletesOnce
  IdleMeansCompleted
  EffectsFromCommittedClaims
  SecondLeaseOnlyByRetry
PROPERTIES
  TurnsEnd
