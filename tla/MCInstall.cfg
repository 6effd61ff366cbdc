SPECIFICATION InstallSpec
CONSTANTS
  Names <- MCNames
  Dirs <- MCDirs
  Joined <- MCJoined
  DefaultLibdirs <- MCDefaultLibdirs
  Paths <- MCPaths
  Workers = {w1}
  Worlds <- MCWorlds
  Hosts <- MCHosts
  MaxDepth = 12
  Inputs <- MCInputs
INVARIANT OkMeansComplete
PROPERTY InstalledStaysWhole
CHECK_DEADLOCK FALSE
