SPECIFICATION Spec
CONSTANTS
  f1 = f1
  g1 = g1
  x1 = x1
  x2 = x2
  k1 = k1
  k2 = k2
  kother = kother
  R = R
  NoFile = NoFile
  NoPlace = NoPlace
  NoName = NoName
  NoKey = NoKey
  NoSymbol = NoSymbol
  Located <- InModule
  Listing <- Symbols
  TopCap = 2
  NProcesses = 2
  Files <- TwoFiles
  NameOf <- FileNames
  Generated <- OnlyG
  Places <- TwoPlaces
  Offsets <- OneOffset
  Keys <- ThreeKeys
  RegionOf <- OneRegion
  StatesOf <- States
  Others <- OnlyOther
  MaxSlots = 2
  MaxModules = 1
  MaxLoads = 3
  MaxBegins = 2
  MaxRuns = 2
SYMMETRY Swap
INVARIANTS
  BlocksExact
  CallsAtPoints
