SPECIFICATION Spec
CONSTANTS
  NumUsers = 1
  NumSessions = 1
  Faults = {}
  MaxRounds = 1
  MaxPassword = 1
  MaxCommands = 2
  Keys = {"k", "x", "Enter"}
INVARIANT LettersReachPassword
CHECK_DEADLOCK FALSE
