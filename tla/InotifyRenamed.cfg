\* A file moved from one watched directory to another is delivered again.
CONSTANTS
  Names = {"a", "c"}
  DirOf <- MCDirOf
  DirSeq <- TwoDirs
  Matching = {"a", "c"}
  ReadAll = TRUE
  Inodes = {1, 2}
  MaxHandles = 4
  MaxPieces = 2
  MaxOps = 2
  Ops = {"append", "rename"}
  ChunkPieces = 2
  RenameTo <- Anywhere
  MaxQueued = 20
SPECIFICATION InotifySpec
INVARIANTS
  RenamedFileOnce
\* At rest nothing is left to do.
CHECK_DEADLOCK FALSE
