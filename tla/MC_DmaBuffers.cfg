SPECIFICATION Spec
CONSTANTS
  W = 4
  NumLines = 14
  Requests = {8, 72, 100}
INVARIANTS
  BlocksApart
  MarksAreBlocks
PROPERTIES
  FreedIsFound
