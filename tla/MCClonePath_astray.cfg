SPECIFICATION FairSpec
CONSTANTS
  Paths <- MCPaths
  MaxDepth = 12
  Hosts <- StrayHosts
INVARIANT LinksLeadToSource
CHECK_DEADLOCK FALSE
