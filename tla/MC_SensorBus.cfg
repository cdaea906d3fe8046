SPECIFICATION Spec
CONSTANTS
  Modes = {3205, 477, 3392, 1697, 846, 2470, 1233, 137, 92, 3027}
  FullFrame = 3027
  Garbage = {7, 60000}
  Gains = {3}
  Exposures = {2815, 3050}
  Patterns = {1, 8}
  MaxOperations = 3
  MaxLost = 1
INVARIANTS
  CommitHeals
  StreamsOneMode
  PictureAsCommitted
CHECK_DEADLOCK FALSE
