\* Every operation in every interleaving with the events, the listing and the
\* reading; the kernel's queue may overflow, and Close may be called.  Two
\* directories, a name that no glob matches, and any rename.
CONSTANTS
  Names = {"a", "b", "c"}
  DirOf <- MCDirOf
  DirSeq <- TwoDirs
  Matching = {"a", "b"}
  ReadAll = TRUE
  Inodes = {1, 2, 3}
  MaxHandles = 5
  MaxPieces = 2
  MaxOps = 3
  Ops = {"create", "append", "rename", "overwrite", "delete", "truncate", "rmdir", "close"}
  ChunkPieces = 2
  RenameTo <- Anywhere
  MaxQueued = 4
SPECIFICATION InotifyFairSpec
INVARIANTS
  ExactlyOnce
  OpenFilesWatched
  WatchListCurrentAtRest
  AllReadAtRest
PROPERTIES
  EveryLineReceived
\* At rest nothing is left to do.
CHECK_DEADLOCK FALSE
