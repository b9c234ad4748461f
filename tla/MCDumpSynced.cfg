CONSTANTS
  SECTOR_SIZE = 2
  CHUNK_SIZE = 4
  FlakyFailures = 2
  MaxScratch = 1
  DiskSizes <- MCDiskSizes
  ScratchedSets <- MCScratchedSets
  LeftoverSets <- MCLeftoverSets
  Zero = Zero
  Junk = Junk
  Old = Old
  NULL = NULL
SPECIFICATION Spec
INVARIANTS
  CompleteMeansSynced
CHECK_DEADLOCK FALSE
