SPECIFICATION FairSpec
CONSTANTS
  NumUsers = 1
  NumSessions = 1
  Faults = {"pamError", "clone", "splash"}
  MaxRounds = 1
  MaxPassword = 1
  MaxCommands = 1
  Keys = {"BackTab", "x", "Enter"}
INVARIANT NeverStuck
PROPERTIES
  AttemptIsAnswered
  HandoffCompletes
CHECK_DEADLOCK FALSE
