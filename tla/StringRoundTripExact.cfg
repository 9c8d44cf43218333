SPECIFICATION RoundTripSpec
CONSTANTS
  Strings <- MCStrings
  Options <- MCOptions
  StackSize = 6
INVARIANTS
  RoundTripsExact
