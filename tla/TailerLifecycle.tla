---------------------------- MODULE TailerLifecycle ----------------------------
(***************************************************************************)
(* How a file tailer starts, fails and ends: the goroutine of              *)
(* runFileTailer (the consumer of file system events), the goroutine of    *)
(* runInotifyLoop, runKeventLoop, runWinWatcherLoop or runPollLoop (their  *)
(* producer), the kernel's queue of events, and the application.  The      *)
(* channels are unbuffered: a send and its receive are one step.  What the *)
(* tailer reads and keeps is left out; any step of its work may send a     *)
(* line or fail.  See InotifyTailer and its siblings for that.             *)
(***************************************************************************)
EXTENDS Naturals, Sequences, FiniteSets

CONSTANTS
  Dirs,       \* the directories of the globs (uniqueDirs)
  MaxEvents,  \* bound of the model: events of other processes
  MaxLines    \* bound of the model: lines the tailer sends

ASSUME ConstantsAssumption == MaxEvents \in Nat /\ MaxLines \in Nat

VARIABLES
  osSpecific,  \* the watcher: "inotify", "kqueue", "windows" or "polling"
  pc,          \* where the consumer is
  work,        \* what it is doing there: "sync" or the event it handles
  watchedDirs, \* t.watchedDirs
  lines,       \* how many lines it sent or tried to
  done,        \* t.done is closed: the application called Close
  closed,      \* t.lines and t.errors are closed
  loopDone,    \* the producer's channel done is closed
  fd,          \* the inotify or kqueue descriptor or fsnotify.Watcher
  producer,    \* where the producer is
  batch,       \* the events it has read and not handed over
  watches,     \* the kernel's watches
  kernel,      \* the kernel's queue of events
  happened,    \* how many events other processes caused
  received     \* how many errors the application received

consumerVars == <<osSpecific, pc, work, watchedDirs, lines, closed>>
kernelVars == <<watches, kernel, happened>>
loopVars == <<loopDone, fd, producer, batch>>
vars == <<consumerVars, loopVars, kernelVars, done, received>>

Change == [kind |-> "change", dir |-> "any"]
\* IN_IGNORED, NOTE_DELETE of a directory, or the event of fsnotify for it.
Gone(d) == [kind |-> "gone", dir |-> d]
Idle == [kind |-> "idle", dir |-> "any"]

Init ==
  /\ pc = "watchDirs"
  /\ work = Idle
  /\ watchedDirs = {}
  /\ lines = 0
  /\ done = FALSE
  /\ closed = FALSE
  /\ loopDone = FALSE
  /\ osSpecific \in {"inotify", "kqueue", "windows", "polling"}
  /\ fd = IF osSpecific = "polling" THEN "none" ELSE "open"
  /\ producer = "none"
  /\ batch = <<>>
  /\ watches = {}
  /\ kernel = <<>>
  /\ happened = 0
  /\ received = 0

-----------------------------------------------------------------------------
(* The consumer: startup.                                                   *)

\* watchDirs: one directory is watched; the others are still to be.
WatchDir(d) ==
  /\ pc = "watchDirs"
  /\ d \in Dirs \ watchedDirs
  /\ watchedDirs' = watchedDirs \cup {d}
  /\ watches' = IF osSpecific = "polling" THEN watches ELSE watches \cup {d}
  /\ UNCHANGED <<osSpecific, pc, work, lines, closed, loopVars, kernel, happened, done, received>>

\* stat or inotify_add_watch fails; no loop runs yet.
WatchDirsFails ==
  /\ pc = "watchDirs"
  /\ Dirs \ watchedDirs # {}
  /\ pc' = "sendError"
  /\ UNCHANGED <<osSpecific, work, watchedDirs, lines, closed, loopVars, kernelVars, done, received>>

StartLoop ==
  /\ pc = "watchDirs"
  /\ Dirs \ watchedDirs = {}
  /\ producer' = "read"
  /\ pc' = "work"
  /\ UNCHANGED <<osSpecific, work, watchedDirs, lines, closed, loopDone, fd, batch, kernelVars,
                 done, received>>

-----------------------------------------------------------------------------
(* The consumer: the first sync, and processEvent.                          *)

\* readNewLines has a line to send.
LineRead ==
  /\ pc = "work"
  /\ work.kind # "gone"
  /\ watchedDirs # {}
  /\ lines < MaxLines
  /\ lines' = lines + 1
  /\ pc' = "sendLine"
  /\ UNCHANGED <<osSpecific, work, watchedDirs, closed, loopVars, kernelVars, done, received>>

\* The application receives the line, or done is closed and the line dropped:
\* the caller does not learn which, and goes on with its work.
LineSent ==
  /\ pc = "sendLine"
  /\ pc' = "work"
  /\ UNCHANGED <<osSpecific, work, watchedDirs, lines, closed, loopVars, kernelVars, done, received>>

LineDropped ==
  /\ pc = "sendLine"
  /\ done
  /\ pc' = "work"
  /\ UNCHANGED <<osSpecific, work, watchedDirs, lines, closed, loopVars, kernelVars, done, received>>

\* The first sync, with checkMissingFile, or the handling of an event is over.
WorkDone ==
  /\ pc = "work"
  /\ work.kind # "gone"
  /\ work' = Idle
  /\ pc' = "select"
  /\ UNCHANGED <<osSpecific, watchedDirs, lines, closed, loopVars, kernelVars, done, received>>

WorkFails ==
  /\ pc = "work"
  /\ watchedDirs # {}
  /\ work.kind # "gone"
  /\ pc' = "sendError"
  /\ UNCHANGED <<osSpecific, work, watchedDirs, lines, closed, loopVars, kernelVars, done, received>>

\* Mutant of DirRemoved: the directory is forgotten without an error.
DirRemovedQuietly ==
  /\ pc = "work"
  /\ work.kind = "gone"
  /\ watchedDirs' = watchedDirs \ {work.dir}
  /\ work' = Idle
  /\ pc' = "select"
  /\ UNCHANGED <<osSpecific, lines, closed, loopVars, kernelVars, done, received>>

\* processEvent returns an error, on Linux after unwatchDirByEvent.  (On Windows
\* it is the sync that fails.)
DirRemoved ==
  /\ pc = "work"
  /\ work.kind = "gone"
  /\ watchedDirs' = IF osSpecific = "inotify" THEN watchedDirs \ {work.dir} ELSE watchedDirs
  /\ pc' = "sendError"
  /\ UNCHANGED <<osSpecific, work, lines, closed, loopVars, kernelVars, done, received>>

-----------------------------------------------------------------------------
(* The consumer: the event loop.  A select with several ready cases takes   *)
(* any of them.                                                             *)

\* done is closed, or the producer has closed its channels.
SelectEnds ==
  /\ pc = "select"
  /\ done \/ producer = "returned"
  /\ pc' = "closeLoop"
  /\ UNCHANGED <<osSpecific, work, watchedDirs, lines, closed, loopVars, kernelVars, done, received>>

\* The producer hands over an event.  After IN_IGNORED runInotifyLoop returns.
SelectEvent ==
  /\ pc = "select"
  /\ producer = "deliver"
  /\ work' = Head(batch)
  /\ batch' = Tail(batch)
  /\ producer' = CASE work'.kind = "gone" /\ osSpecific = "inotify" -> "returned"
                   [] ~(work'.kind = "gone" /\ osSpecific = "inotify") /\ batch' # <<>> -> "deliver"
                   [] OTHER -> "read"
  /\ pc' = "work"
  /\ UNCHANGED <<osSpecific, watchedDirs, lines, closed, loopDone, fd, kernelVars, done, received>>

\* The producer hands over its error, and returns; runWinWatcherLoop goes on.
SelectError ==
  /\ pc = "select"
  /\ producer = "report"
  /\ producer' = IF osSpecific = "windows" THEN "read" ELSE "returned"
  /\ pc' = "sendError"
  /\ UNCHANGED <<osSpecific, work, watchedDirs, lines, closed, loopDone, fd, batch, kernelVars,
                 done, received>>

-----------------------------------------------------------------------------
(* The consumer: its end, with the deferred eventProducerLoop.Close() (if   *)
(* the loop was started) and shutdown.                                      *)

AfterError == IF producer = "none" THEN "closeChannels" ELSE "closeLoop"

\* Mutant of ErrorSent: the event loop goes on after an error.
ErrorSentLoops ==
  /\ pc = "sendError"
  /\ received' = received + 1
  /\ work' = Idle
  /\ pc' = "select"
  /\ UNCHANGED <<osSpecific, watchedDirs, lines, closed, loopVars, kernelVars, done>>

ErrorSent ==
  /\ pc = "sendError"
  /\ received' = received + 1
  /\ pc' = AfterError
  /\ UNCHANGED <<osSpecific, work, watchedDirs, lines, closed, loopVars, kernelVars, done>>

ErrorDropped ==
  /\ pc = "sendError"
  /\ done
  /\ pc' = AfterError
  /\ UNCHANGED <<osSpecific, work, watchedDirs, lines, closed, loopVars, kernelVars, done, received>>

CloseLoop ==
  /\ pc = "closeLoop"
  /\ loopDone' = TRUE
  /\ pc' = "closeChannels"
  /\ UNCHANGED <<osSpecific, work, watchedDirs, lines, closed, fd, producer, batch, kernelVars,
                 done, received>>

CloseChannels ==
  /\ pc = "closeChannels"
  /\ closed' = TRUE
  /\ pc' = IF osSpecific = "polling" THEN "returned" ELSE "unwatch"
  /\ UNCHANGED <<osSpecific, work, watchedDirs, lines, loopVars, kernelVars, done, received>>

\* Mutant of UnwatchDir: closing the descriptor is taken to be enough.
UnwatchDirForgotten(d) ==
  /\ pc = "unwatch"
  /\ d \in watchedDirs
  /\ watchedDirs' = watchedDirs \ {d}
  /\ watches' = watches \ {d}
  /\ UNCHANGED <<osSpecific, pc, work, lines, closed, loopVars, kernel, happened, done, received>>

\* inotify_rm_watch queues an IN_IGNORED, which wakes a blocked read; if the
\* kernel has removed the watch already it fails, with a warning.  On macOS the
\* directory is closed, on Windows nothing is done.
UnwatchDir(d) ==
  /\ pc = "unwatch"
  /\ d \in watchedDirs
  /\ watchedDirs' = watchedDirs \ {d}
  /\ watches' = IF osSpecific = "windows" THEN watches ELSE watches \ {d}
  /\ kernel' = IF osSpecific = "inotify" /\ d \in watches THEN Append(kernel, Gone(d))
               ELSE kernel
  /\ UNCHANGED <<osSpecific, pc, work, lines, closed, loopVars, happened, done, received>>

\* osSpecific.Close().  A read that blocks in the kernel keeps the inotify instance.
CloseFd ==
  /\ pc = "unwatch"
  /\ watchedDirs = {}
  /\ fd' = "closed"
  /\ pc' = "returned"
  /\ UNCHANGED <<osSpecific, work, watchedDirs, lines, closed, loopDone, producer, batch, kernelVars,
                 done, received>>

-----------------------------------------------------------------------------
(* The producer.                                                            *)

\* The call of read(2) or kevent(); EBADF tells runKeventLoop that it is over.
StartRead ==
  /\ osSpecific \in {"inotify", "kqueue"}
  /\ producer = "read"
  /\ producer' = CASE fd = "open" -> "blocked"
                   [] fd # "open" /\ osSpecific = "inotify" -> "failed"
                   [] OTHER -> "returned"
  /\ UNCHANGED <<consumerVars, loopDone, fd, batch, kernelVars, done, received>>

\* Closing the kqueue descriptor interrupts kevent().
KeventInterrupted ==
  /\ osSpecific = "kqueue"
  /\ producer = "blocked" /\ fd = "closed"
  /\ producer' = "returned"
  /\ UNCHANGED <<consumerVars, loopDone, fd, batch, kernelVars, done, received>>

\* Mutant of ReadReturns: only the first event of the buffer is used.
ReadReturnsFirst ==
  /\ producer = "blocked"
  /\ kernel # <<>>
  /\ batch' = <<Head(kernel)>>
  /\ kernel' = <<>>
  /\ producer' = "deliver"
  /\ UNCHANGED <<consumerVars, loopDone, fd, watches, happened, done, received>>

\* One read returns every event that is queued.
ReadReturns ==
  /\ producer = "blocked"
  /\ kernel # <<>>
  /\ batch' = kernel
  /\ kernel' = <<>>
  /\ producer' = "deliver"
  /\ UNCHANGED <<consumerVars, loopDone, fd, watches, happened, done, received>>

\* runWinWatcherLoop takes events one by one from fsnotify.
FsnotifyEvent ==
  /\ osSpecific = "windows"
  /\ producer = "read" /\ fd = "open"
  /\ kernel # <<>>
  /\ batch' = <<Head(kernel)>>
  /\ kernel' = Tail(kernel)
  /\ producer' = "deliver"
  /\ UNCHANGED <<consumerVars, loopDone, fd, watches, happened, done, received>>

FsnotifyError ==
  /\ osSpecific = "windows"
  /\ producer = "read"
  /\ producer' = "report"
  /\ UNCHANGED <<consumerVars, loopDone, fd, batch, kernelVars, done, received>>

ReadFails ==
  /\ producer = "blocked"
  /\ producer' = IF osSpecific = "inotify" THEN "failed" ELSE "report"
  /\ UNCHANGED <<consumerVars, loopDone, fd, batch, kernelVars, done, received>>

\* After two seconds the error is reported, unless the loop was closed.
WaitedTwoSeconds ==
  /\ producer = "failed"
  /\ producer' = "report"
  /\ UNCHANGED <<consumerVars, loopDone, fd, batch, kernelVars, done, received>>

Ticks ==
  /\ osSpecific = "polling"
  /\ producer = "read"
  /\ batch' = <<Change>>
  /\ producer' = "deliver"
  /\ UNCHANGED <<consumerVars, loopDone, fd, kernelVars, done, received>>

\* The case <-l.done of every select; read(2) and kevent() are in none.
LoopStops ==
  /\ loopDone
  /\ producer \in {"deliver", "failed", "report"} \cup
       IF osSpecific \in {"polling", "windows"} THEN {"read"} ELSE {}
  /\ producer' = "returned"
  /\ UNCHANGED <<consumerVars, loopDone, fd, batch, kernelVars, done, received>>

-----------------------------------------------------------------------------
(* Other processes, and the application.                                    *)

FileChanges ==
  /\ watches # {}
  /\ happened < MaxEvents
  /\ happened' = happened + 1
  /\ kernel' = Append(kernel, Change)
  /\ UNCHANGED <<consumerVars, loopVars, watches, done, received>>

\* A watched directory is removed, and with it the kernel's watch.
RemoveDir(d) ==
  /\ d \in watches
  /\ happened < MaxEvents
  /\ happened' = happened + 1
  /\ watches' = watches \ {d}
  /\ kernel' = Append(kernel, Gone(d))
  /\ UNCHANGED <<consumerVars, loopVars, done, received>>

Close ==
  /\ ~done
  /\ done' = TRUE
  /\ UNCHANGED <<consumerVars, loopVars, kernelVars, received>>

-----------------------------------------------------------------------------
\* The steps of the consumer that need nobody else.
Unaided ==
  \/ \E d \in Dirs : WatchDir(d) \/ UnwatchDir(d)
  \/ WatchDirsFails \/ StartLoop
  \/ LineRead \/ LineDropped \/ WorkDone \/ WorkFails \/ DirRemoved
  \/ SelectEvent \/ SelectError
  \/ ErrorDropped
  \/ CloseLoop \/ CloseChannels \/ CloseFd

Producer ==
  \/ StartRead \/ ReadReturns \/ KeventInterrupted \/ FsnotifyEvent
  \/ WaitedTwoSeconds \/ Ticks \/ LoopStops

Next ==
  \/ Unaided \/ SelectEnds \/ LineSent \/ ErrorSent
  \/ Producer \/ ReadFails \/ FsnotifyError
  \/ FileChanges \/ (\E d \in Dirs : RemoveDir(d)) \/ Close

Spec == Init /\ [][Next]_vars

\* The scheduler runs both goroutines, and a select that is asked again and
\* again takes a case that is always ready.
FairSpec == Spec /\ WF_vars(Unaided) /\ WF_vars(Producer) /\ SF_vars(SelectEnds)

\* The application goes on reading Lines() and Errors().
Reading == WF_vars(LineSent) /\ WF_vars(ErrorSent)

-----------------------------------------------------------------------------
Event == {Change, Idle} \cup {Gone(d) : d \in Dirs}

TypeOK ==
  /\ osSpecific \in {"inotify", "kqueue", "windows", "polling"}
  /\ pc \in {"watchDirs", "work", "sendLine", "select", "sendError", "closeLoop",
             "closeChannels", "unwatch", "returned"}
  /\ work \in Event
  /\ watchedDirs \subseteq Dirs
  /\ lines \in 0 .. MaxLines
  /\ done \in BOOLEAN
  /\ closed \in BOOLEAN
  /\ loopDone \in BOOLEAN
  /\ fd \in {"none", "open", "closed"}
  /\ producer \in {"none", "read", "blocked", "deliver", "failed", "report", "returned"}
  /\ batch \in Seq(Event \ {Idle})
  /\ watches \subseteq Dirs
  /\ kernel \in Seq(Event \ {Idle})
  /\ happened \in 0 .. MaxEvents
  /\ received \in 0 .. 1

\* A tailer never ends silently: unless the application called Close, its
\* channels are closed only after it received the error that ended it, be it
\* the consumer's own or the producer's, whose channels close too (the select
\* of runFileTailer returns without an error when it finds them closed).
EndsForAReason == closed /\ ~done => received = 1

\* fswatcher.go:98-100 and the tests TestShutdownDuringSyscall and
\* TestShutdownDuringSendLine: after Close the channels get closed and both
\* goroutines end, wherever they are, whatever the application does.
CloseTerminates ==
  done ~> (closed /\ pc = "returned" /\ producer \in {"none", "returned"})

\* When a watched directory has been removed the tailer ends, if the application
\* reads: the event is neither lost nor stuck in the producer.
RemovalEndsTailer ==
  Reading =>
    (osSpecific # "polling" /\ pc = "select" /\ watchedDirs \ watches # {}) ~> (pc = "returned")
=============================================================================
