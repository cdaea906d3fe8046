SPECIFICATION PortSpec
CONSTANTS
  LineWords = {5, 7, 10}
  WIDTH = 8
  ADDRESSES = 8
  MaxLines = 5
  MaxFrames = 2
INVARIANTS
  PixelsInPlace
  LineStored
  RowsInOrder
  LineShown
  ColoursMatch
  WordsInOrder
  LineSent
PROPERTY
  GapsLongEnough
