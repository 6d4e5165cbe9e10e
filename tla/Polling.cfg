\* Two directories, every operation and any rename, every interleaving with a
\* poll; the tailer starts at the end of the files.  The application may stop
\* reading, and may call Close.
CONSTANTS
  Names = {"a", "b", "c"}
  DirOf <- MCDirOf
  DirSeq <- TwoDirs
  Matching = {"a", "b", "c"}
  ReadAll = FALSE
  Inodes = {1, 2, 3}
  MaxHandles = 5
  MaxPieces = 2
  MaxOps = 2
  Ops = {"create", "append", "rename", "overwrite", "delete", "truncate", "rmdir", "close"}
  ChunkPieces = 2
  RenameTo <- Anywhere
SPECIFICATION PollingFairSpec
INVARIANTS
  OpenFilesWatched
PROPERTIES
  CatchesUp
  CloseEndsTailer
\* At rest nothing is left to do.
CHECK_DEADLOCK FALSE
