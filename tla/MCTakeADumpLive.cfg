CONSTANTS
  Buttons = {"A", "1", "HOME"}
  Discs <- OneDisc
  NGC_SIZE = 1
  WII_SINGLE_SIZE = 2
  WII_DUAL_SIZE = 3
  LAYER_PROBE = 1
  SECTOR_WORDS = 2
  MaxSwaps = 2
  SECTOR_SIZE = 1
  CHUNK_SIZE = 2
  Zero = Zero
  Junk = Junk
  NULL = NULL
SPECIFICATION FairSpec
PROPERTIES
  DumpIsOver
  ReportNearer
CHECK_DEADLOCK FALSE
