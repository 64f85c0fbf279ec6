SPECIFICATION StackSpec
CONSTANTS
  Procs = {p1, p2}
  Passwords = {alpha, beta}
  NoPassword = NoPassword
  photo = photo
  copy = copy
  restored = restored
  Files = {photo}
  Copies = {copy, restored}
  NoName = NoName
  NumChunks = 2
  Requests <- OrdinaryRequests
  Overlapping = FALSE
  FaultKinds = {"create", "read", "write", "remove", "rename", "kill"}
  MaxLength = 6
  MaxCommands = 4
  MaxFaults = 2
CHECK_DEADLOCK FALSE
SYMMETRY Symmetry
INVARIANTS TypeOK SomeCopySurvives
PROPERTIES SuccessIsFaithful ImplementsFileStack
