SPECIFICATION CopySpec
CONSTANTS
  MaxLen = 3
  BufSize = 2
  Files <- AllFiles
  n1 = n1
  n2 = n2
  v0 = v0
  v1 = v1
  v2 = v2
  w2 = w2
  Names <- MCNames
  Values <- MCValues
  Length <- MCLength
  Absent = Absent
  Torn = Torn
  Systems <- AllSystems
  Inputs <- StableInputs
INVARIANT ErrorsAreReal
CHECK_DEADLOCK FALSE
