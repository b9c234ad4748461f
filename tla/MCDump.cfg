CONSTANTS
  SECTOR_SIZE = 2
  CHUNK_SIZE = 4
  FlakyFailures = 2
  MaxScratch = 2
  DiskSizes <- MCDiskSizes
  ScratchedSets <- MCScratchedSets
  LeftoverSets <- MCLeftoverSets
  Zero = Zero
  Junk = Junk
  Old = Old
  NULL = NULL
SPECIFICATION FairSpec
INVARIANTS
  TypeOK
  ImageFaithful
  CountersAgree
  CompleteImage
  ErrorsCounted
  ErrorPolicy
  NoLeak
PROPERTIES
  OnlyOpenPartWritten
  EveryStepCounts
  ImageSpec
  Termination
CHECK_DEADLOCK FALSE
