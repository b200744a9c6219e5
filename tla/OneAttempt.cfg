SPECIFICATION Spec
CONSTANTS
  NumUsers = 2
  NumSessions = 1
  Faults = {"splash", "ipc", "startLost", "cancel", "stop"}
  MaxRounds = 2
  MaxPassword = 1
  MaxCommands = 2
  Keys = {"Tab", "Down", "x", "Enter", "Esc"}
INVARIANTS
  TypeOK
  NoDuplicateBegin
  AnswersHaveTheirPrompt
  PasswordStaysWithAccount
  FormAsksForWorker
CHECK_DEADLOCK FALSE
