SPECIFICATION Spec
CONSTANTS
  Procs = {p1, p2}
  Passwords = {alpha, beta}
  NoPassword = NoPassword
  photo = photo
  copy = copy
  restored = restored
  Files = {photo}
  Copies = {copy, restored}
  NoName = NoName
  NumChunks = 2
  Requests <- InPlaceRequests
  Overlapping = TRUE
  FaultKinds = {}
  MaxLength = 6
  MaxCommands = 2
  MaxFaults = 0
CHECK_DEADLOCK FALSE
SYMMETRY Symmetry
INVARIANT TextSurvivesCommands
