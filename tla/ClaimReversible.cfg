SPECIFICATION Spec
CONSTANTS
  NumAccounts = 2
  NumScripts = 2
  Themes = {"dark", "light"}
  Accents = {"red"}
  MaxEdits = 1
  SetupFaults = {"write"}
  MaxRuns = 3
  MaxEditions = 2
  RunsMayDie = FALSE
INVARIANT OperationIsReversible
CHECK_DEADLOCK FALSE
