\* Every operation and any rename, every interleaving with kevent(), the
\* producer's batch, the listing, the registration and the reading.
CONSTANTS
  Names = {"a", "b"}
  DirOf <- MCDirOf
  DirSeq <- OneDir
  Matching = {"a", "b"}
  ReadAll = TRUE
  Inodes = {1, 2, 3}
  MaxHandles = 4
  MaxPieces = 2
  MaxOps = 3
  Ops = {"create", "append", "rename", "overwrite", "delete", "truncate", "rmdir", "close"}
  ChunkPieces = 2
  RenameTo <- Anywhere
SPECIFICATION KqueueFairSpec
INVARIANTS
  KqueueTypeOK
  ExactlyOnce
  AllReadAtRest
PROPERTIES
  EveryLineReceived
\* At rest nothing is left to do.
CHECK_DEADLOCK FALSE
