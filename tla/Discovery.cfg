SPECIFICATION Spec
CONSTANTS
  NumLines = 3
  MaxGecos = 2
  MaxDeploys = 1
  NumDirs = 2
  NumIds = 2
  MaxName = 2
  ConfiguredIds = {2}
  MaxInstalls = 1
INVARIANTS
  UsersTypeOK
  AvatarOfFirstPlace
  UsersAreDetermined
  SessionsTypeOK
  FirstValidEntryWins
  ListIsPresentation
CHECK_DEADLOCK FALSE
