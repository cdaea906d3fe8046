SPECIFICATION Spec
CONSTANTS
  LineWords = {10}
  WIDTH = 8
  ADDRESSES = 8
  MaxLines = 5
  MaxFrames = 1
INVARIANT NeighboursAdjacent
CHECK_DEADLOCK FALSE
