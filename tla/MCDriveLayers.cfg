CONSTANTS
  Discs <- MCDiscs
  NULL = NULL
  Junk = Junk
  NGC_SIZE = 2
  WII_SINGLE_SIZE = 3
  WII_DUAL_SIZE = 4
  LAYER_PROBE = 1
  SECTOR_WORDS = 2
  MaxSwaps = 2
SPECIFICATION Spec
INVARIANTS
  DualMeansTwoLayers
CHECK_DEADLOCK FALSE
