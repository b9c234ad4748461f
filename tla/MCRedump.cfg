CONSTANTS
  SECTOR_SIZE = 1
  CHUNK_SIZE = 2
  FlakyFailures = 0
  DiskSizes <- MCDiskSizes
  ScratchedSets = {{}}
  LeftoverSets = {{}}
  MaxRuns = 3
  Zero = Zero
  Junk = Junk
  Old = Old
  NULL = NULL
SPECIFICATION RSpec
INVARIANTS
  RTypeOK
  PartsOfOneRun
  Joinable
CHECK_DEADLOCK FALSE
