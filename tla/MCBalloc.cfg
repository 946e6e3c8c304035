SPECIFICATION BallocSpec
CONSTANTS
  NPages = 8
  MaxOrder = 3
  MaxLevel = 5
  Garbage = TRUE
INVARIANTS
  Shape
  NoFalseFailure
PROPERTIES
  AllocatesBlocks
