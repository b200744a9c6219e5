SPECIFICATION Spec
CONSTANTS
  NumUsers = 1
  NumSessions = 1
  Faults = {"pamError"}
  MaxRounds = 1
  MaxPassword = 1
  MaxCommands = 2
  Keys = {"x", "Enter"}
INVARIANT NoDuplicateBegin
CHECK_DEADLOCK FALSE
