---------------------------- MODULE InotifyTailer ----------------------------
(***************************************************************************)
(* tailer/fswatcher/fswatcher_linux.go: a file tailer driven by inotify.   *)
(* Operations of other processes queue events; the producer loop hands     *)
(* them over one by one, and processEvent handles one to its end before    *)
(* the next.  What the producer has read ahead and what the kernel still   *)
(* queues is one queue here, since nothing but merging tells them apart.   *)
(***************************************************************************)
EXTENDS FileTailer

CONSTANT MaxQueued   \* fs.inotify.max_queued_events

VARIABLE events      \* the inotify events not handed over yet, oldest first

inotifyVars == <<vars, events>>

\* IN_MOVED_FROM, IN_MOVED_TO, IN_DELETE and IN_CREATE are handled alike, as
\* a change of a name in the directory.
Event(kind, n) == [kind |-> kind, dir |-> DirOf[n], name |-> n]
Ignored(d) == [kind |-> "IN_IGNORED", dir |-> d, name |-> ""]
Overflow == [kind |-> "IN_Q_OVERFLOW", dir |-> NoDir, name |-> ""]

InotifyInit == Init /\ events = <<>>

\* The kernel's queue after one more event.  A full queue takes one overflow
\* event, which has no watch descriptor.  An IN_MODIFY equal to the last event
\* is merged with it, unless that was read already.
Enqueued(q, e) ==
  IF Len(q) >= MaxQueued
    THEN {IF q # <<>> /\ q[Len(q)] = Overflow THEN q ELSE Append(q, Overflow)}
    ELSE {Append(q, e)} \cup
         {p \in {q} : q # <<>> /\ q[Len(q)] = e /\ e.kind = "IN_MODIFY"}

Emit(e) == events' \in Enqueued(events, e)
EmitBoth(e, f) == \E q \in Enqueued(events, e) : events' \in Enqueued(q, f)

FileSystem ==
  /\ \/ \E n \in Names : CreateFile(n) /\ Emit(Event("name", n))
     \/ \E n \in Names, endsLine \in BOOLEAN :
          AppendPiece(n, endsLine) /\ Emit(Event("IN_MODIFY", n))
     \/ \E m, n \in Names :
          RenameFile(m, n, Disturbs(m, n)) /\ EmitBoth(Event("name", m), Event("name", n))
     \/ \E n \in Names : DeleteFile(n) /\ Emit(Event("name", n))
     \/ \E n \in Names : TruncateFile(n) /\ Emit(Event("IN_MODIFY", n))
     \/ \E d \in Dirs : RemoveDir(d) /\ Emit(Ignored(d))
  /\ UNCHANGED <<tailerVars, done>>

-----------------------------------------------------------------------------
(* processEvent                                                             *)

\* findDir: an event whose descriptor is that of no watched directory.
DirNotFound(e) ==
  /\ \A i \in 1 .. Len(watchedDirs) : watchedDirs[i] # e.dir
  /\ failure' = "overflow"
  /\ pc' = "failed"
  /\ UNCHANGED <<mapVars, task, syncVars, cur>>

\* unwatchDirByEvent, and the tailer ends.
DirRemoved(e) ==
  /\ e.kind = "IN_IGNORED"
  /\ watchedDirs' = SelectSeq(watchedDirs, LAMBDA d : d # e.dir)
  /\ failure' = "ignored"
  /\ pc' = "failed"
  /\ UNCHANGED <<handle, watched, task, syncVars, cur>>

UnrelatedModified(e) ==
  /\ e.kind = "IN_MODIFY"
  /\ watched[e.name] = None
  /\ UNCHANGED <<mapVars, pc, task, syncVars, cur, failure>>

Modified(e) ==
  /\ e.kind = "IN_MODIFY"
  /\ watched[e.name] # None
  /\ CheckTruncated(watched[e.name])
  /\ task' = "event"
  /\ UNCHANGED <<watched, watchedDirs, syncVars, failure>>

NameChanged(e) ==
  /\ e.kind = "name"
  /\ dirsLeft' = <<e.dir>>
  /\ task' = "event"
  /\ pc' = "sync"
  /\ UNCHANGED <<mapVars, dir, toStat, listing, after, cur, failure>>

ProcessEvent ==
  /\ pc = "loop"
  /\ events # <<>>
  /\ LET e == Head(events)
     IN  DirNotFound(e) \/ DirRemoved(e) \/ UnrelatedModified(e) \/ Modified(e)
         \/ NameChanged(e)
  /\ events' = Tail(events)
  /\ UNCHANGED <<fsVars, filesLeft, line, delivered, done>>

InotifyNext ==
  \/ FileSystem
  \/ ProcessEvent
  \/ Goroutine /\ UNCHANGED events
  \/ CloseTailer /\ Operation("close") /\ UNCHANGED events

InotifySpec == InotifyInit /\ [][InotifyNext]_inotifyVars

\* The goroutine runs whenever it can, and the application reads the lines and
\* the error.
InotifyFairSpec ==
  InotifySpec /\ WF_inotifyVars(ProcessEvent \/ (Goroutine /\ UNCHANGED events))

-----------------------------------------------------------------------------
\* At rest: no event is left and the goroutine waits for one.
AtRest == pc = "loop" /\ events = <<>>

\* Whatever happened, in whatever order, between the events, the listing of a
\* directory and the opening of its files: once the events are used up, the
\* watched files are the files that are there ("we just update our watched
\* files with the current state of the watched directory", lines 172-173).
WatchListCurrentAtRest == AtRest => WatchListCurrent

\* ... and every one of them, followed under new names or truncated, was read
\* to its end: no event is needed that nobody will send.  (A file both renamed
\* and truncated is excepted, see ReadUp: the sync does not look for the
\* truncation, and the IN_MODIFY bears the old name.  So is one that was renamed
\* and came back before a sync: the syncs find it where it was, and the IN_MODIFY
\* of what was written meanwhile bears the other name.)
AllReadAtRest ==
  AtRest /\ ~done =>
    \A h \in HandlesIn(watched) : ReadUp(h) \/ "back" \in history[handle[h].inode]

\* Every line written to a file that keeps a matching name, and does not come back
\* to one unnoticed, reaches the application.
EveryLineReceived == \A i \in Inodes : []<>(LinesServed(i) \/ "back" \in history[i])

=============================================================================
