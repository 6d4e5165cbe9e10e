\* No limit, and a limit of two lines for five: the buffer is cleared, twice if
\* the consumer is slow.  The application may stop reading.
CONSTANTS
  MaxLines = 5
  Limits = {0, 2}
SPECIFICATION FairSpec
INVARIANTS
  TypeOK
  InOrder
  NothingLost
  WithinLimit
  MetricExact
  MetricNeverAbove
PROPERTIES
  CloseTerminates
  EveryLineDelivered
\* Both goroutines have returned at the end.
CHECK_DEADLOCK FALSE
