SPECIFICATION Spec
CONSTANTS
  ChunkSize = 2
  TagSize = 1
  FileSizes = {0, 1, 2, 3, 4, 5}
  ShortReads = {"encrypt", "decrypt"}
  Damages = {"truncate", "drop"}
CHECK_DEADLOCK FALSE
INVARIANTS TypeOK OutputIsPrefix IntactRestores
