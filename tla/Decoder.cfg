SPECIFICATION Spec
CONSTANTS
  Document <- MCDocument
  MaxDepth = 2
  Slot = {s1, s2, s3, s4, s5}
  NoSlot = NoSlot
  MaxFaults = 2
  MaxShort = 4
  MaxSeed = 8
INVARIANTS
  TypeOK
  AcceptsJson
  DepthExact
  StaysInText
  OneOwner
  ValueMeansComplete
  NullHasReason
PROPERTIES
  ImplementsAcceptor
  FirstErrorKept
  Terminates
