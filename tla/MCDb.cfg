SPECIFICATION Spec
CONSTANTS
  Paths <- MCPaths
  Hashes <- MCHashes
  Metas <- MCMetas
  PathRank <- MCRank
  PathLen <- MCLen
  MaxFileId = 4
  Base = 2
  WordLen = 3
  HashLen = 2
  PrefixLen = 1
INVARIANTS
  TypeOK
  DbConsistent
  GroupsAreOfLatest
  StatsMatchLog
  ReportsDisjoint
  StoredIsRead
PROPERTIES
  HistoryKept
  ImplementsVersionLog
