SPECIFICATION MainSpec
CONSTANTS
  Modules <- MCModules
  Aliases <- MCAliases
  Trees <- MCTrees
  Empty <- MCEmpty
  Devices <- MCDevices
  Systems <- MCSystems
  Inputs <- SymbolInputs
INVARIANT NosymbolOnlyExcludes
CHECK_DEADLOCK FALSE
