SPECIFICATION Spec
CONSTANTS
  NumAccounts = 2
  NumScripts = 2
  Themes = {"dark"}
  Accents = {"red"}
  MaxEdits = 1
  SetupFaults = {"write"}
  MaxRuns = 3
  MaxEditions = 2
  RunsMayDie = TRUE
INVARIANTS
  ThemesTypeOK
  LoadIsRegular
  
  FinishedSyncLeavesNoTemp
  ConfigTypeOK
  EditionsSurvive
CHECK_DEADLOCK FALSE
