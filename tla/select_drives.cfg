SPECIFICATION Spec
CONSTANTS
  disk4 = disk4
  disk5 = disk5
  stick = stick
  whole = whole
  fixed = fixed
  photos = photos
  backup = backup
  None = None
  Procs = {p1, p2}
  Nodes = {disk4, disk5}
  Drives = {stick, whole, fixed}
  Layout <- OneVolumeEach
  WholeDisk = {whole}
  Removable = {stick, whole}
  Volumes = {photos, backup}
  Passwords = {alpha, beta}
  Commands = {"encrypt", "decrypt", "unlock", "lock", "change-password", "encrypt-pro", "status"}
  Targets = {disk4, disk5, photos}
  FaultKinds = {"refused"}
  MaxCommands = 3
  MaxFaults = 1
  MaxReplugs = 2
CHECK_DEADLOCK FALSE
SYMMETRY Symmetry
INVARIANTS TypeOK ToldIsTrue
PROPERTIES LockUnmounts StatusConfirms
