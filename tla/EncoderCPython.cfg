SPECIFICATION Spec
CONSTANTS
  Abi = "cpython"
  SortKeys = FALSE
  HasDefault = TRUE
  RecursionMax = 2
  Faults = {"shrink"}
  MaxSize = 3
  MaxNodes = 9
INVARIANTS
  LevelExact
  NoHandleLeak
  TextIsJson
PROPERTIES
  Terminates
