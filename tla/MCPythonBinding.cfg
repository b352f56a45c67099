SPECIFICATION Spec
CONSTANTS
  Regions <- TwoRegions
  Keywords <- Given
  Ints <- Small
  Wide <- Nine
  Notes <- ThreeNotes
  PyStates = 2
  ExtStates = 3
  KeyStates = 2
  MaxStates = 5
  MaxDepth = 3
  Calibrating = TRUE
  Repeats = 2
  MaxCalls = 4
INVARIANTS
  TypeOK
  Bracketed
  StatesRead
