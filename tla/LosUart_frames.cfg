SPECIFICATION Spec
CONSTANTS
  Half = 2
  ReadSizes <- Sizes
  MaxBytes = 5
INVARIANTS
  BytesAccounted
  NobodySleepsOnBytes
PROPERTIES
  ReadEnds
CHECK_DEADLOCK FALSE
