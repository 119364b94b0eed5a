SPECIFICATION Spec
CONSTANTS
  Paths <- MCPaths
  Hashes <- MCEmptyToo
  Metas <- MCMetas
  SizeOf <- MCSize
  MaxTime = 2
  FaultKinds <- NoFaults
  MaxFaults = 1
  ScanOptions <- MCEverything
  BatchSize = 2
  Filters <- MCFilters
  Preserves <- MCPreserves
  PathRank <- MCRank
  PathLen <- MCLen
PROPERTY
  DeleteIsSafeAfterScan
