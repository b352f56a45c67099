SPECIFICATION Spec
CONSTANTS
  t1 = t1
  t2 = t2
  a1 = a1
  a2 = a2
  l = l
  A = A
  L = L
  NoCombo = NoCombo
  NoAnswer = NoAnswer
  Threads <- Pair
  Index <- Apart
  Combos <- Three
  RegionOf <- RegionNames
  Long <- LongOnes
  Hash <- Hashes
  Cell <- OneCell
  PerRegion = 1
  Listed = 1
  Budget = 3
SYMMETRY Swap
INVARIANTS
  TypeOK
  OneKey
  BudgetHonoured
  BytesExact
  CountedOrSaid
PROPERTY
  ImplementsKeyMap
