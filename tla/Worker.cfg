SPECIFICATION FairSpec
CONSTANTS
  NumUsers = 2
  NumSessions = 1
  Faults = {"pamError", "clone", "splash", "ipc", "startLost", "cancel", "stale"}
  SplashFaults = {"missing", "spawn", "signal", "mute", "garbled", "dies"}
  MarkerLength = 3
  MaxRounds = 2
  MaxQueue = 1
INVARIANTS
  SplashTypeOK
  LaunchesAuthenticatedAccount
  SplashIsOwned
  StartLeavesNothing
  HandleMeansFrame
  StraysCoverASession
PROPERTIES
  StartReturns
  RefusalsEnd
