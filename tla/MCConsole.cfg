CONSTANTS
  SECTOR_SIZE = 2
  CHUNK_SIZE = 4
  FlakyFailures = 1
  DiskSizes <- MCDiskSizes
  ScratchedSets <- MCScratchedSets
  LeftoverSets = {{}}
  DEBUG = TRUE
  ROWS = 5
  Zero = Zero
  Junk = Junk
  Old = Old
  NULL = NULL
SPECIFICATION CSpec
INVARIANTS
  CTypeOK
  LatestNamed
  ProgressInPlace
  MessagesExact
PROPERTIES
  OnlyProgressReplaced
CHECK_DEADLOCK FALSE
