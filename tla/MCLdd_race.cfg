SPECIFICATION Spec
CONSTANTS
  Names <- MCNames
  Dirs <- MCDirs
  Joined <- MCJoined
  DefaultLibdirs <- MCDefaultLibdirs
  Paths <- MCPaths
  Workers = {w1, w2}
  Worlds <- RaceWorlds
INVARIANT AllNeededInstalled
CHECK_DEADLOCK FALSE
