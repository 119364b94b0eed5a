SPECIFICATION Spec
CONSTANTS
  Paths <- MCPaths
  Hashes <- MCEmptyToo
  Metas <- MCMetas
  SizeOf <- MCSize
  MaxTime = 3
  FaultKinds <- AllFaults
  MaxFaults = 1
  ScanOptions <- MCOptions
  BatchSize = 2
  Filters <- MCFilters
  Preserves <- MCPreserves
  PathRank <- MCRank
  PathLen <- MCLen
INVARIANTS
  FreshIsTrue
  CheckIsTrue
  UnchangedIsIdentical
  LastCopyKept
PROPERTIES
  SweepsOnlyUnseen
  
  CommandsImplementLog
