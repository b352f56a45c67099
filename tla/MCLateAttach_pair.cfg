SPECIFICATION FairSpec
CONSTANTS
  t1 = t1
  t2 = t2
  Threads <- Pair
  MaxDepth = 3
  MaxBegins = 3
INVARIANTS
  TypeOK
  SeenIsSuffix
  StarterIsSeen
  LostAreReported
PROPERTY
  BeginReturns
