SPECIFICATION Spec
CONSTANTS
  MaxLines = 4
  MaxLevel = 2
INVARIANT
  RoundTrip
