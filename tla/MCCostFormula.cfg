SPECIFICATION Spec
CONSTANTS
  Blocks <- ThreeBlocks
  Runtime <- Waiting
  Inputs <- Given
  AbsTol = 4
  RelDen = 20
  MinValues = 3
  MinSplit = 3
  IrrDen = 20
INVARIANTS
  TypeOK
  FormulaExact
  ErrorBounded
