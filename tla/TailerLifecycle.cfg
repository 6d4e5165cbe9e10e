\* Two watched directories that may be removed, each of the four watchers;
\* the application may stop reading, and may call Close.
CONSTANTS
  Dirs = {"d1", "d2"}
  MaxEvents = 3
  MaxLines = 2
SPECIFICATION FairSpec
INVARIANTS
  TypeOK
  EndsForAReason
PROPERTIES
  CloseTerminates
  RemovalEndsTailer
\* At the end both goroutines have returned.
CHECK_DEADLOCK FALSE
