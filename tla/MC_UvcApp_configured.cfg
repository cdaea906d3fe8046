SPECIFICATION Spec
CONSTANTS
  MaxFailures = 2
  Buffers = 2
  ApiFailures = FALSE
  HostMayQuit = FALSE
INVARIANT StreamsOnlyConfigured
