SPECIFICATION FairSpec
CONSTANTS
  t1 = t1
  t2 = t2
  a = a
  b = b
  NoThread = NoThread
  NoKey = NoKey
  Unset = Unset
  Threads <- Pair
  Started <- One
  Keys <- TwoKeys
  MaxDepth = 2
INVARIANTS
  TypeOK
  LeaderIsLive
  SharedIsLeaders
  OwnRegionCounted
  FollowersCounted
  Steerable
PROPERTIES
  LeaderStays
  LeaderReturns
