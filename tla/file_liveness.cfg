SPECIFICATION FairSpec
CONSTANTS
  Procs = {p1, p2}
  Passwords = {alpha}
  NoPassword = NoPassword
  photo = photo
  copy = copy
  restored = restored
  Files = {photo, copy}
  Copies = {}
  NoName = NoName
  NumChunks = 2
  Requests <- AliasedRequests
  Overlapping = TRUE
  FaultKinds = {"write", "remove", "kill"}
  MaxLength = 5
  MaxCommands = 2
  MaxFaults = 1
CHECK_DEADLOCK FALSE
PROPERTY EveryCommandReturns
