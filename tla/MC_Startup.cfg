SPECIFICATION StartupSpec
CONSTANTS
  MaxFailures = 2
  Buffers = 2
  ApiFailures = TRUE
  HostMayQuit = FALSE
INVARIANTS
  TypeOK
  ActiveMeansRunning
  NoLostReset
  WatchdogArmed
  LinkKeptAwake
  StoppedIsDrained
  NothingUsedBeforeMade
PROPERTY ImplementsStreamControl
