SPECIFICATION ReadersSpec
CONSTANTS
  a = a
  b = b
  c = c
  Strings <- MCStrings
  Corrupt = Corrupt
  Empty = Empty
  Elfs <- MCElfs
  Base = 2
  HeaderSize = 2
  EntrySize = 1
  Caches <- MCCaches
  Inputs <- MCInputs
INVARIANTS
  TypeOK
  NoSectionLost
  PanicMeansDamaged
  DepsAreNeeded
  TableIsRead
  FailureMeansDamaged
PROPERTY Termination
CHECK_DEADLOCK FALSE
