\* The metric loses a line when the buffer is cleared under a pop in progress.
CONSTANTS
  MaxLines = 3
  Limits = {1}
SPECIFICATION Spec
INVARIANTS
  MetricAtRest
\* Both goroutines have returned at the end.
CHECK_DEADLOCK FALSE
