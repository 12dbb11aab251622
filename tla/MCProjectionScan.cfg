SPECIFICATION ScanSpec
CONSTANTS
  v1 = v1
  v2 = v2
  Projections = {p1}
  MaxByte = 1
  ScanPrefixes <- MCPrefixes
  Limits = {1, 2}
  Patches <- MCPatches
  MaxVersion = 3
INVARIANTS
  PatchMeaning
  PrefixScanExact
  PagedScanComplete
