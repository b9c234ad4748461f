CONSTANTS
  Buttons <- AllButtons
  NULL = NULL
SPECIFICATION FairSpec
INVARIANTS
  TypeOK
  ActsOnFreshPress
  DumpPreconditions
PROPERTIES
  PauseEnds
  ReportIsFinal
CHECK_DEADLOCK FALSE
