SPECIFICATION Spec
CONSTANTS
  Paths <- MCPaths
  Hashes = {"h"}
  Metas <- MCMetas
  PathRank <- MCRank
  PathLen <- MCLen
  Spelling <- MCSpelling
  Locations <- MCLocations
  UserPuts <- MCUserPuts
  InitialTree <- OnlyG
  RunOptions <- Unfollowing
  PathFilters <- MCFilters
  Policies = {"Oldest", "AlphaLast"}
  MaxScans = 1
  MaxChanges = 1
PROPERTY
  DeleteLeavesAFile
CHECK_DEADLOCK FALSE
