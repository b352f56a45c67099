SPECIFICATION Spec
CONSTANTS
  t1 = t1
  t2 = t2
  a = a
  b = b
  NoThread = NoThread
  NoKey = NoKey
  Unset = Unset
  Threads <- Pair
  Started <- One
  Keys <- TwoKeys
  MaxDepth = 1
INVARIANT
  OwnRegionAlways
