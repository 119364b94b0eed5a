SPECIFICATION MCSpec
CONSTANTS
  Paths <- MCPaths
  Hashes <- MCHashes
  Metas <- MCMetas
  SizeOf <- MCSize
  MaxTime = 1
  FaultKinds <- MCCrash
  MaxFaults = 1
  Filters <- MCFilters
  Preserves <- AllPolicies
  PathRank <- MCRank
  PathLen <- MCLen
PROPERTY
  NeverLastCopy
