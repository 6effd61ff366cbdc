SPECIFICATION Spec
CONSTANTS
  Names <- MCNames
  Dirs <- MCDirs
  Joined <- MCJoined
  DefaultLibdirs <- MCDefaultLibdirs
  Paths <- MCPaths
  Workers = {w1}
  Worlds <- RerunWorlds
INVARIANT AllNeededInstalled
CHECK_DEADLOCK FALSE
