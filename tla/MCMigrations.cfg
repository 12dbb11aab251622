SPECIFICATION MigrationsSpec
CONSTANTS
  Openers = {o1, o2, o3}
  Inspectors = {i1}
  r1 = r1
  r2 = r2
  bad = bad
  Files <- MCFiles
  GoodRows = {r1, r2}
  MaxFaults = 2
  None = None
CHECK_DEADLOCK FALSE
INVARIANTS
  NeverHalfApplied
  OpenedIsCurrent
  InspectedIsCurrent
PROPERTIES
  JobsSurvive
  EveryoneOpens
