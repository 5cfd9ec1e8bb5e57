CONSTANTS
  MaxBlocks = 5
  Sizes = {0, 1}
  Room0 = 8
SPECIFICATION BlocksSpec
INVARIANTS
  SizesAreSums
  BlocksAccounted
PROPERTIES
  ImplementsTree
CHECK_DEADLOCK FALSE
