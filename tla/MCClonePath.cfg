SPECIFICATION FairSpec
CONSTANTS
  Paths <- MCPaths
  MaxDepth = 12
  Hosts <- MCHosts
INVARIANTS
  TypeOK
  NoDanglingLink
  OkMeansInstalled
  PermissionsRestored
  ErrorsAreExplained
  AstrayIsMisaligned
  RecursionMeansCycle
PROPERTY Termination
CHECK_DEADLOCK FALSE
