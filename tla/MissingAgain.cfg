SPECIFICATION Spec
CONSTANTS
  Paths <- MCPaths
  Hashes <- MCHashes
  Metas <- MCMetas
  SizeOf <- MCSize
  MaxTime = 2
  FaultKinds <- NoFaults
  MaxFaults = 1
  ScanOptions <- MCDeep
  BatchSize = 2
  Filters <- MCFilters
  Preserves <- MCPreserves
  PathRank <- MCRank
  PathLen <- MCLen
INVARIANT
  PresentIsNotMissing
