SPECIFICATION MainSpec
CONSTANTS
  Modules <- MCModules
  Aliases <- MCAliases
  Trees <- MCTrees
  Empty <- MCEmpty
  Devices <- MCDevices
  Systems <- MCSystems
  Inputs <- MCInputs
INVARIANTS
  TypeOK
  OnlyCompleteSetsAreCopied
  NoModuleTwiceOnStack
  ExitZeroMeansInstalled
  ListIsComplete
  ListErrorsAreExplained
PROPERTIES
  ImplementsModuleSet
  Termination
CHECK_DEADLOCK FALSE
