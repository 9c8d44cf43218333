SPECIFICATION Spec
CONSTANTS
  Texts <- MCTexts
  Behind = {0, 1, 7}
  StackSize = 6
INVARIANTS
  FitsBuffer
  StopsAtNull
  OnlyCodePoints
  OneBlockFreed
  DecodesItsMeaning
  RefusesOnlyMalformed
