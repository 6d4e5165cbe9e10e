\* One consumer, as in BufferedTailer; from one slot to eight, so that the
\* buffer grows three times, also with its lines wrapped round the end.
CONSTANTS
  Lines = {l1, l2}
  Consumers = {c1}
  NIL = NIL
  InitialSize = 1
  MaxLen = 5
SPECIFICATION FairSpec
INVARIANTS
  TypeOK
  RingConsistent
  NoLostWakeup
PROPERTIES
  ImplementsQueue
  NilOnlyWhenClosed
