SPECIFICATION FairSpec
CONSTANTS
  Names <- MCNames
  Dirs <- MCDirs
  Joined <- MCJoined
  DefaultLibdirs <- MCDefaultLibdirs
  Paths <- MCPaths
  Workers = {w1, w2}
  Worlds <- MCWorlds
INVARIANTS
  TypeOK
  NoDuplicateResults
  NoFileLost
  ResultIsVisitedFiles
  KnownAreInstalled
PROPERTIES
  ImplementsResolver
  Termination
CHECK_DEADLOCK FALSE
