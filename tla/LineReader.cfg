\* Limits of one to four bytes for files of up to six, read through a bufio buffer
\* of three: every line is near the limit and near the end of a chunk, and what a
\* reader that is re-bound holds is more than the limit, as much, or less.
CONSTANTS
  Limits = {1, 2, 3, 4}
  readBufferSize = 3
  MaxBytes = 6
SPECIFICATION FairSpec
INVARIANTS
  LinesAsWritten
  NothingHeldBack
PROPERTIES
  ReadLineReturns
\* The file does not grow for ever, and nobody need call ReadLine again.
CHECK_DEADLOCK FALSE
