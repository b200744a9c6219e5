SPECIFICATION Spec
CONSTANTS
  NumUsers = 2
  NumSessions = 2
  Faults = {"splash", "ipc", "cancel"}
  MaxRounds = 2
  MaxPassword = 1
  MaxCommands = 2
  Keys = {"Tab", "Down", "x", "Enter"}
INVARIANT HandoffIsCovered
PROPERTIES
  LaunchedOnce
  ImplementsLoginExchange
CHECK_DEADLOCK FALSE
