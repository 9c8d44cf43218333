SPECIFICATION Spec
CONSTANTS
  Indents <- MCIndents
  ItemSep = 1
  KeySep = 1
  RecursionMax = 2
  FixedMax = 2
  BufferSize = 1
  Debug = TRUE
  Faults = {"string"}
  MaxLen = 1
  MaxNodes = 4
INVARIANTS
  ReservedEnough
  ReserveIsCurrent
