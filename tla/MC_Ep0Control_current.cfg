SPECIFICATION Spec
CONSTANTS
  Modes = {2470, 3027}
  FullFrame = 3027
  Garbage = {0}
  Payloads = {3}
  GivesUp = FALSE
PROPERTY BrightnessIsCurrent
