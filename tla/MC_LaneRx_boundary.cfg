SPECIFICATION Spec
CONSTANTS
  LANES = 2
  ALIGN_DEPTH = 3
  Skews = {4, 8, 15}
  MaxBytes = 4
PROPERTY EveryByteOnce
