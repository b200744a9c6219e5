SPECIFICATION Spec
CONSTANTS
  NumUsers = 2
  NumSessions = 1
  Faults = {"splash"}
  SplashFaults = {"missing"}
  MarkerLength = 3
  MaxRounds = 1
  MaxQueue = 2
INVARIANT SlotReleased
