SPECIFICATION FairSpec
CONSTANTS
  MaxFailures = 2
  Buffers = 1
  ApiFailures = FALSE
  HostMayQuit = TRUE
PROPERTIES
  SilentHostStopsStream
  StallIsServed
