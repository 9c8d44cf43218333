SPECIFICATION RoundTripSpec
CONSTANTS
  Strings <- MCStrings
  Options <- MCOptions
  StackSize = 6
INVARIANTS
  FitsReserve
  CleanOutput
  AcceptsUtf8
  RoundTripsPaired
