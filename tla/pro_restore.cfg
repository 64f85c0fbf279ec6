SPECIFICATION Spec
CONSTANTS
  Procs = {p1}
  Passwords = {alpha, beta}
  NoPassword = NoPassword
  NumSectors = 2
  HiddenStart = 2
  HiddenOffset = 1024
  IsRemovable = TRUE
  ExclusiveOpen = TRUE
  Commands = {"EncryptWithHidden", "DecryptPro"}
  FaultKinds = {}
  MaxCommands = 2
  MaxFaults = 0
CHECK_DEADLOCK FALSE
PROPERTY DecryptionRestores
