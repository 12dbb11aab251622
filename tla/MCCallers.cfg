SPECIFICATION CallersSpec
CONSTANTS
  a = a
  b = b
  c = c
  d = d
  f = f
  t1 = t1
  t2 = t2
  e1 = e1
  s1 = s1
  s2 = s2
  None = None
  Programs = {a, b, c, d, f}
  Inputs <- MCInputs
  Requests <- MCNoRequests
  MaxDrawn = 15
  MaxFaults = 2
  Streams = {s1, s2}
  SIGN_BIT = 8
  PageLimits = {1, 2}
CHECK_DEADLOCK FALSE
INVARIANTS
  AppliedOnce
  ResubmissionIdempotent
  StreamReadExact
  LimitsAreExact
