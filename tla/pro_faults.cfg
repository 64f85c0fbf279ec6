SPECIFICATION Spec
CONSTANTS
  Procs = {p1, p2}
  Passwords = {alpha, beta}
  NoPassword = NoPassword
  NumSectors = 3
  HiddenStart = 2
  HiddenOffset = 1024
  IsRemovable = TRUE
  ExclusiveOpen = TRUE
  Commands = {"EncryptPro", "EncryptWithHidden", "ChangePasswordPro", "DecryptPro"}
  FaultKinds = {"readHeader", "read", "write", "kill"}
  MaxCommands = 3
  MaxFaults = 1
CHECK_DEADLOCK FALSE
SYMMETRY Symmetry
INVARIANTS TypeOK EachSectorOnce HeaderNamesKey
PROPERTY OnlyRekeyingLosesKeys
