------------------------ MODULE TailerLifecycleProofs ------------------------
(***************************************************************************)
(* TailerLifecycle for every set of directories, every number of events    *)
(* and lines and each of the four watchers: a tailer that ends without     *)
(* being closed has told the application why.                              *)
(***************************************************************************)
EXTENDS TailerLifecycle, TLAPS

Running == {"watchDirs", "work", "sendLine", "select", "sendError"}

\* The errors: none is received before the tailer starts to end, and one is when
\* it does, unless it was closed.
ErrorReceived ==
  /\ pc \in Running => received = 0
  /\ pc \notin Running => done \/ received = 1
  /\ closed <=> pc \in {"unwatch", "returned"}

\* The producer only returns because it handed over the end of a directory or an
\* error, which the consumer is about to send, or because it was told to.
ProducerReturned ==
  /\ producer = "returned" => \/ pc \notin {"watchDirs", "sendLine", "select", "work"}
                              \/ pc = "work" /\ work.kind = "gone"
  /\ pc = "sendLine" => work.kind # "gone"
  /\ loopDone => pc \notin Running \cup {"closeLoop"}
  /\ fd = "closed" => pc = "returned"
  /\ fd = "none" => osSpecific = "polling"
  /\ pc = "watchDirs" => producer = "none"
  /\ producer = "deliver" => batch # <<>>

LifecycleInv == TypeOK /\ ErrorReceived /\ ProducerReturned

LEMMA EventKinds ==
  /\ Change \in Event \ {Idle} /\ Idle \in Event /\ Idle.kind # "gone" /\ Change.kind # "gone"
  /\ \A d \in Dirs : Gone(d) \in Event \ {Idle}
  BY DEF Event, Change, Idle, Gone

LEMMA LifecycleInit == ASSUME Init PROVE LifecycleInv
<1>1. TypeOK
  <2>1. batch \in Seq(Event \ {Idle}) /\ kernel \in Seq(Event \ {Idle})
    BY DEF Init
  <2>2. lines \in 0 .. MaxLines /\ happened \in 0 .. MaxEvents
    BY ConstantsAssumption DEF Init
  <2>3. work \in Event /\ received \in 0 .. 1
    BY EventKinds DEF Init
  <2> QED
    BY <2>1, <2>2, <2>3 DEF Init, TypeOK
<1> QED
  BY <1>1 DEF Init, LifecycleInv, ErrorReceived, ProducerReturned, Running

\* The startup of the consumer.
LEMMA StartupStep ==
  ASSUME LifecycleInv,
         (\E d \in Dirs : WatchDir(d)) \/ WatchDirsFails \/ StartLoop
  PROVE  LifecycleInv'
<1> USE DEF LifecycleInv, TypeOK, ErrorReceived, ProducerReturned, Running, loopVars, kernelVars
<1>1. ASSUME NEW d \in Dirs, WatchDir(d) PROVE LifecycleInv'
  BY <1>1 DEF WatchDir
<1>2. CASE WatchDirsFails
  BY <1>2 DEF WatchDirsFails
<1>3. CASE StartLoop
  BY <1>3 DEF StartLoop
<1> QED
  BY <1>1, <1>2, <1>3

\* The work of the consumer.
LEMMA WorkStep ==
  ASSUME LifecycleInv,
         LineRead \/ LineSent \/ LineDropped \/ WorkDone \/ WorkFails \/ DirRemoved
  PROVE  LifecycleInv'
<1> USE DEF LifecycleInv, TypeOK, ErrorReceived, ProducerReturned, Running, loopVars, kernelVars
<1>1. CASE LineRead
  BY <1>1, ConstantsAssumption DEF LineRead
<1>2. CASE LineSent \/ LineDropped
  BY <1>2 DEF LineSent, LineDropped
<1>3. CASE WorkDone
  BY <1>3, EventKinds DEF WorkDone
<1>4. CASE WorkFails
  BY <1>4 DEF WorkFails
<1>5. CASE DirRemoved
  BY <1>5 DEF DirRemoved
<1> QED
  BY <1>1, <1>2, <1>3, <1>4, <1>5

\* Its select.
LEMMA SelectStep ==
  ASSUME LifecycleInv, SelectEnds \/ SelectEvent \/ SelectError
  PROVE  LifecycleInv'
<1> USE DEF LifecycleInv, TypeOK, ErrorReceived, ProducerReturned, Running, loopVars, kernelVars
<1>1. CASE SelectEnds
  BY <1>1 DEF SelectEnds
<1>2. CASE SelectEvent
  <2>1. batch # <<>>
    BY <1>2 DEF SelectEvent
  <2>2. Head(batch) \in Event \ {Idle} /\ Tail(batch) \in Seq(Event \ {Idle})
    BY <2>1
  <2> QED
    BY <1>2, <2>1, <2>2 DEF SelectEvent
<1>3. CASE SelectError
  BY <1>3 DEF SelectError
<1> QED
  BY <1>1, <1>2, <1>3

\* Its end.
LEMMA EndStep ==
  ASSUME LifecycleInv,
         \/ ErrorSent \/ ErrorDropped \/ CloseLoop \/ CloseChannels \/ CloseFd
         \/ \E d \in Dirs : UnwatchDir(d)
  PROVE  LifecycleInv'
<1> USE DEF LifecycleInv, TypeOK, ErrorReceived, ProducerReturned, Running, loopVars, kernelVars
<1>1. CASE ErrorSent
  BY <1>1 DEF ErrorSent, AfterError
<1>2. CASE ErrorDropped
  BY <1>2 DEF ErrorDropped, AfterError
<1>3. CASE CloseLoop
  BY <1>3 DEF CloseLoop
<1>4. CASE CloseChannels
  BY <1>4 DEF CloseChannels
<1>5. CASE CloseFd
  BY <1>5 DEF CloseFd
<1>6. ASSUME NEW d \in Dirs, UnwatchDir(d) PROVE LifecycleInv'
  <2>1. kernel' \in Seq(Event \ {Idle})
    BY <1>6, EventKinds DEF UnwatchDir
  <2> QED
    BY <1>6, <2>1 DEF UnwatchDir
<1> QED
  BY <1>1, <1>2, <1>3, <1>4, <1>5, <1>6

\* The producer.
LEMMA ProducerStep ==
  ASSUME LifecycleInv, Producer \/ ReadFails \/ FsnotifyError
  PROVE  LifecycleInv'
<1> USE DEF LifecycleInv, TypeOK, ErrorReceived, ProducerReturned, Running, consumerVars,
            kernelVars
<1>1. CASE StartRead
  BY <1>1 DEF StartRead
<1>2. CASE ReadReturns
  BY <1>2 DEF ReadReturns
<1>3. CASE KeventInterrupted
  BY <1>3 DEF KeventInterrupted
<1>4. CASE FsnotifyEvent
  <2>1. Head(kernel) \in Event \ {Idle} /\ Tail(kernel) \in Seq(Event \ {Idle})
    BY <1>4 DEF FsnotifyEvent
  <2> QED
    BY <1>4, <2>1 DEF FsnotifyEvent
<1>5. CASE WaitedTwoSeconds
  BY <1>5 DEF WaitedTwoSeconds
<1>6. CASE Ticks
  BY <1>6, EventKinds DEF Ticks
<1>7. CASE LoopStops
  BY <1>7 DEF LoopStops
<1>8. CASE ReadFails \/ FsnotifyError
  BY <1>8 DEF ReadFails, FsnotifyError
<1> QED
  BY <1>1, <1>2, <1>3, <1>4, <1>5, <1>6, <1>7, <1>8 DEF Producer

\* Other processes, and Close.
LEMMA OthersStep ==
  ASSUME LifecycleInv, FileChanges \/ (\E d \in Dirs : RemoveDir(d)) \/ Close \/ UNCHANGED vars
  PROVE  LifecycleInv'
<1> USE DEF LifecycleInv, TypeOK, ErrorReceived, ProducerReturned, Running, consumerVars,
            loopVars, kernelVars
<1>1. CASE FileChanges
  <2>1. kernel' \in Seq(Event \ {Idle}) /\ happened' \in 0 .. MaxEvents
    BY <1>1, EventKinds, ConstantsAssumption DEF FileChanges
  <2> QED
    BY <1>1, <2>1 DEF FileChanges
<1>2. ASSUME NEW d \in Dirs, RemoveDir(d) PROVE LifecycleInv'
  <2>1. kernel' \in Seq(Event \ {Idle}) /\ happened' \in 0 .. MaxEvents
    BY <1>2, EventKinds, ConstantsAssumption DEF RemoveDir
  <2> QED
    BY <1>2, <2>1 DEF RemoveDir
<1>3. CASE Close
  BY <1>3 DEF Close
<1>4. CASE UNCHANGED vars
  BY <1>4 DEF vars
<1> QED
  BY <1>1, <1>2, <1>3, <1>4

LEMMA LifecycleStep == ASSUME LifecycleInv, [Next]_vars PROVE LifecycleInv'
  BY StartupStep, WorkStep, SelectStep, EndStep, ProducerStep, OthersStep DEF Next, Unaided

\* The types; among them, that no more than one error is ever received.
THEOREM TypeCorrect == Spec => []TypeOK
<1>1. Init => LifecycleInv
  BY LifecycleInit
<1>2. LifecycleInv /\ [Next]_vars => LifecycleInv'
  BY LifecycleStep
<1>3. LifecycleInv => TypeOK
  BY DEF LifecycleInv
<1> QED
  BY <1>1, <1>2, <1>3, PTL DEF Spec

\* Unless it was closed, a tailer closes its channels only after the application
\* received an error: the select that ends without one when the producer has
\* returned is not reached before the reason is known.
THEOREM EndsForAReasonCorrect == Spec => []EndsForAReason
<1>1. Init => LifecycleInv
  BY LifecycleInit
<1>2. LifecycleInv /\ [Next]_vars => LifecycleInv'
  BY LifecycleStep
<1>3. LifecycleInv => EndsForAReason
  BY DEF LifecycleInv, ErrorReceived, Running, EndsForAReason
<1> QED
  BY <1>1, <1>2, <1>3, PTL DEF Spec
=============================================================================
