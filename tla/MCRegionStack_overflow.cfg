SPECIFICATION Spec
CONSTANTS
  t1 = t1
  a1 = a1
  b1 = b1
  A = A
  B = B
  Threads <- One
  Keys <- TwoKeys
  RegionOf <- TwoNames
  MaxDepth = 2
  MaxStates = 1
  TraceLimit = 3
  MaxCalls = 4
  MaxClock = 1
INVARIANT
  OverflowReported
