SPECIFICATION Spec
CONSTANTS
  Document <- MCDocument
  MaxDepth = 2
  Slot = {s1, s2, s3, s4, s5}
  NoSlot = NoSlot
  MaxFaults = 0
  MaxShort = 2
  MaxSeed = 4
INVARIANTS
  AcceptsAnyBuffer
