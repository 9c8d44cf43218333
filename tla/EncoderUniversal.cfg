SPECIFICATION Spec
CONSTANTS
  Abi = "universal"
  SortKeys = TRUE
  HasDefault = TRUE
  RecursionMax = 2
  Faults = {"key", "shrink", "string", "float"}
  MaxSize = 3
  MaxNodes = 8
INVARIANTS
  TypeOK
  RecursionBound
  RaisedOrJson
  RaisedMeansError
PROPERTIES
  StopsAtFirstError
