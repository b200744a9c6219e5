SPECIFICATION Spec
CONSTANTS
  NumUsers = 2
  NumSessions = 2
  Faults = {}
  MaxPassword = 1
  MaxCommands = 1
  MaxQueue = 1
  Keys = {"Tab", "BackTab", "k", "Down", "h", "Right", "x", "Backspace", "Enter", "Esc"}
INVARIANTS
  ThemeFollowsSelection
