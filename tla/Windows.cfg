\* Every operation between any two opens of a file, by events and by polling;
\* locks, a queue of fsnotify that overflows, and Close.  The tailer starts at
\* the end of the files.
CONSTANTS
  Names = {"a", "b"}
  DirOf <- MCDirOf
  DirSeq <- OneDir
  Matching = {"a", "b"}
  ReadAll = FALSE
  Inodes = {1, 2, 3}
  MaxHandles = 4
  MaxPieces = 2
  MaxOps = 3
  Ops = {"create", "append", "rename", "overwrite", "delete", "truncate", "rmdir", "close", "lock"}
  ChunkPieces = 2
  RenameTo <- Anywhere
  MaxQueued = 4
SPECIFICATION WindowsFairSpec
INVARIANTS
  ExactlyOnce
  WatchListCurrentAtRest
  AllReadAtRest
PROPERTIES
  PollsCatchUp
\* At rest nothing is left to do.
CHECK_DEADLOCK FALSE
