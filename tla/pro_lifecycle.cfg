SPECIFICATION Spec
CONSTANTS
  Procs = {p1, p2}
  Passwords = {alpha, beta}
  NoPassword = NoPassword
  NumSectors = 2
  HiddenStart = 2
  HiddenOffset = 1024
  IsRemovable = TRUE
  ExclusiveOpen = TRUE
  Commands = {"EncryptPro", "EncryptWithHidden", "ChangePasswordPro", "DecryptPro"}
  FaultKinds = {}
  MaxCommands = 4
  MaxFaults = 0
CHECK_DEADLOCK FALSE
SYMMETRY Symmetry
PROPERTY ImplementsLifecycle
