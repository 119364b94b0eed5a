SPECIFICATION Spec
CONSTANTS
  Paths <- MCPaths
  Hashes = {"h"}
  Metas <- MCMetas
  PathRank <- MCRank
  PathLen <- MCLen
  Spelling <- MCSpelling
  Locations <- MCLocations
  UserPuts <- MCUserPuts
  InitialTree <- MCTree
  RunOptions <- MCOptions
  PathFilters <- MCFilters
  Policies = {"Oldest", "AlphaLast"}
  MaxScans = 2
  MaxChanges = 2
INVARIANTS
  TypeOK
  WalkIsComplete
  DirOnce
PROPERTIES
  SweepFollowsTree
  RescanIsIdle
  DeleteStaysInside
CHECK_DEADLOCK FALSE
