SPECIFICATION Spec
CONSTANTS
  Half = 2
  ReadSizes <- Sizes
  MaxBytes = 5
INVARIANTS
  EnoughToCopy
CHECK_DEADLOCK FALSE
