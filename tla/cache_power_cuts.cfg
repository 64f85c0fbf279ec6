SPECIFICATION CacheSpec
CONSTANTS
  Procs = {p1, p2}
  Passwords = {alpha, beta}
  NoPassword = NoPassword
  NumSectors = 2
  HiddenStart = 2
  HiddenOffset = 1024
  IsRemovable = TRUE
  ExclusiveOpen = TRUE
  Commands = {"EncryptPro", "DecryptPro"}
  FaultKinds = {"read", "write", "kill"}
  MaxCommands = 4
  MaxFaults = 1
  MaxPowerCuts = 2
CHECK_DEADLOCK FALSE
SYMMETRY Symmetry
INVARIANTS CacheTypeOK OnlyLostHeaderLosesKeys OnlyLostHeaderSealsTwice
