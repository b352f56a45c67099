SPECIFICATION Spec
CONSTANTS
  f1 = f1
  g1 = g1
  x1 = x1
  x2 = x2
  k1 = k1
  k2 = k2
  kother = kother
  R = R
  NoFile = NoFile
  NoPlace = NoPlace
  NoName = NoName
  NoKey = NoKey
  NoSymbol = NoSymbol
  Located <- InModule
  Listing <- Symbols
  TopCap = 2
  NProcesses = 1
  Files <- TwoFiles
  NameOf <- FileNames
  Generated <- OnlyG
  Places <- TwoPlaces
  Offsets <- TwoOffsets
  Keys <- TwoKeys
  RegionOf <- OneRegion
  StatesOf <- States
  Others <- OnlyOther
  MaxSlots = 3
  MaxModules = 2
  MaxLoads = 2
  MaxBegins = 2
  MaxRuns = 4
SYMMETRY Swap
INVARIANTS
  TypeOK
  OwnSlot
  TotalKept
  SymbolsExact
  TopIsLargest
