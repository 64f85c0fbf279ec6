SPECIFICATION FairSpec
CONSTANTS
  Procs = {p1, p2}
  Passwords = {alpha, beta}
  NoPassword = NoPassword
  NumSectors = 2
  HiddenStart = 2
  HiddenOffset = 1024
  IsRemovable = TRUE
  ExclusiveOpen = TRUE
  Commands = {"EncryptPro", "EncryptWithHidden", "ChangePasswordPro", "DecryptPro"}
  FaultKinds = {"write", "kill"}
  MaxCommands = 3
  MaxFaults = 1
CHECK_DEADLOCK FALSE
PROPERTIES EveryCommandReturns EncryptionSeals
