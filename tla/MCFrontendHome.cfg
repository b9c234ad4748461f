CONSTANTS
  Buttons <- FewButtons
  NULL = NULL
SPECIFICATION FairSpec
PROPERTIES
  HomeExits
CHECK_DEADLOCK FALSE
