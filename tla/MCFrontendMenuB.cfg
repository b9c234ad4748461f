CONSTANTS
  Buttons <- AllButtons
  NULL = NULL
SPECIFICATION Spec
PROPERTIES
  BChangesFilesystem
CHECK_DEADLOCK FALSE
