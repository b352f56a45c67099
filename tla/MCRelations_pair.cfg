SPECIFICATION Spec
CONSTANTS
  t1 = t1
  t2 = t2
  a1 = a1
  a2 = a2
  b1 = b1
  A = A
  B = B
  Threads <- Pair
  Keys <- TwoKeys
  RegionOf <- TwoNames
  MaxDepth = 3
  MaxStates = 1
  ValueOf <- Values
  MaxTerms = 2
  TraceLimit = 3
  MaxCalls = 4
  MaxClock = 2
INVARIANTS
  NestingIsAncestry
  SelfIsOwn
  FeaturesAreSpec
