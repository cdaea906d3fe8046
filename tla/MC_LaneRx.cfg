SPECIFICATION Spec
CONSTANTS
  LANES = 4
  ALIGN_DEPTH = 3
  Skews = {1, 7, 12, 23}
  MaxBytes = 6
INVARIANTS
  Aligned
  NothingCut
PROPERTY
  EveryByteOnce
