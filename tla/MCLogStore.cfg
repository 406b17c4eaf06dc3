SPECIFICATION Spec
CONSTANTS
  MaxBytes = 2
  MaxChunk = 2
  Rotated = 3
  MaxTotal = 10
INVARIANTS LogIsASuffix
CHECK_DEADLOCK FALSE
