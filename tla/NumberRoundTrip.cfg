SPECIFICATION RoundTripSpec
CONSTANTS
  Texts <- MCTexts
  Behind = {0, 1, 2}
  Ints <- MCInts
  Half = 128
  IntHalf = 16
INVARIANTS
  NoticesOverflow
  ReportsItsNumber
  ReadsJsonNumbers
  TakesOnlyScalars
  RoundTripsInts
