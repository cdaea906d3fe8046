SPECIFICATION Spec
CONSTANTS
  Modes = {2470, 3027}
  FullFrame = 3027
  Garbage = {7}
  Payloads = {8, 3000}
  GivesUp = TRUE
INVARIANTS
  SettingsCoherent
  ExposureFitsFrame
  NoRequestLeftHanging
  AnswerFits
  StallExplained
PROPERTY AdvertisedIsServed
