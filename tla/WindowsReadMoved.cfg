\* A file is renamed between CheckTruncated, or the open, and a read.
CONSTANTS
  Names = {"a", "b"}
  DirOf <- MCDirOf
  DirSeq <- OneDir
  Matching = {"a", "b"}
  ReadAll = TRUE
  Inodes = {1, 2}
  MaxHandles = 3
  MaxPieces = 2
  MaxOps = 2
  Ops = {"append", "rename"}
  ChunkPieces = 2
  RenameTo <- Anywhere
  MaxQueued = 4
SPECIFICATION WindowsSpec
INVARIANTS
  MovedFileTriggersSync
\* At rest nothing is left to do.
CHECK_DEADLOCK FALSE
