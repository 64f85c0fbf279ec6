SPECIFICATION Spec
CONSTANTS
  Procs = {p1, p2}
  Passwords = {alpha, beta}
  NoPassword = NoPassword
  NumSectors = 2
  HiddenStart = 2
  HiddenOffset = 1024
  IsRemovable = TRUE
  ExclusiveOpen = TRUE
  Commands = {"EncryptPro", "ChangePasswordPro"}
  FaultKinds = {"read"}
  MaxCommands = 2
  MaxFaults = 1
CHECK_DEADLOCK FALSE
PROPERTY ChangeReencryptsAll
