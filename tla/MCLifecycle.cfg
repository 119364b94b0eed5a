SPECIFICATION Spec
CONSTANTS
  Paths <- MCPaths
  Hashes = {h1, h2}
  Metas <- MCMetas
  SizeOf <- MCSize
  MaxTime = 3
  FaultKinds <- NoFaults
  MaxFaults = 1
  ScanOptions <- MCSweeping
  BatchSize = 2
  Filters <- MCFilters
  Preserves <- MCPreserves
  PathRank <- MCRank
  PathLen <- MCLen
SYMMETRY HashSymmetry
INVARIANTS
  TypeOK
  UnchangedIsIdentical
  CheckAgrees
  DupesAreOthers
