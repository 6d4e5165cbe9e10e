------------------------- MODULE InotifyTailerProofs -------------------------
(***************************************************************************)
(* InotifyTailer for any paths, directories, files, queue and bounds: the  *)
(* tailer works on open files only and leaks none, delivers each line once *)
(* and in order, and comes to rest with the files watched that are there.  *)
(***************************************************************************)
EXTENDS InotifyTailer, FileTailerProofs

InotifyEvent ==
  [kind : {"name", "IN_MODIFY"}, dir : Dirs, name : Names]
    \cup {Ignored(d) : d \in Dirs} \cup {Overflow}

InotifyInv == FileInv /\ events \in Seq(InotifyEvent)

LEMMA NameEvents ==
  ASSUME NEW n \in Names
  PROVE  Event("name", n) \in InotifyEvent /\ Event("IN_MODIFY", n) \in InotifyEvent
  BY ConstantsAssumption DEF Event, InotifyEvent

LEMMA EventOfName ==
  ASSUME NEW e \in InotifyEvent, e.kind \in {"name", "IN_MODIFY"}
  PROVE  e.dir \in Dirs /\ e.name \in Names
<1>1. Overflow.kind = "IN_Q_OVERFLOW" /\ \A d \in Dirs : Ignored(d).kind = "IN_IGNORED"
  BY DEF Overflow, Ignored
<1>2. e # Overflow /\ \A d \in Dirs : e # Ignored(d)
  BY <1>1
<1>3. e \in [kind : {"name", "IN_MODIFY"}, dir : Dirs, name : Names]
  BY <1>2 DEF InotifyEvent
<1> QED
  BY <1>3

LEMMA QueueTypes ==
  ASSUME NEW q \in Seq(InotifyEvent), NEW e \in InotifyEvent, NEW r \in Enqueued(q, e)
  PROVE  r \in Seq(InotifyEvent)
<1>1. Overflow \in InotifyEvent
  BY DEF InotifyEvent
<1>2. r = q \/ r = Append(q, Overflow) \/ r = Append(q, e)
  BY DEF Enqueued
<1> QED
  BY <1>1, <1>2

\* Other processes change files, and queue events of these kinds.
LEMMA OthersStep == ASSUME InotifyInv, FileSystem PROVE InotifyInv'
<1>1. FileInv'
  BY FileSystemStep, DisturbsPast DEF FileSystem, InotifyInv
<1>2. events' \in Seq(InotifyEvent)
  <2>1. ASSUME NEW e \in InotifyEvent, Emit(e) PROVE events' \in Seq(InotifyEvent)
    BY <2>1, QueueTypes DEF Emit, InotifyInv
  <2>2. ASSUME NEW e \in InotifyEvent, NEW f \in InotifyEvent, EmitBoth(e, f)
        PROVE  events' \in Seq(InotifyEvent)
    BY <2>2, QueueTypes DEF EmitBoth, InotifyInv
  <2>3. \A d \in Dirs : Ignored(d) \in InotifyEvent
    BY DEF InotifyEvent
  <2> QED
    BY <2>1, <2>2, <2>3, NameEvents DEF FileSystem
<1> QED
  BY <1>1, <1>2 DEF InotifyInv

-----------------------------------------------------------------------------
(* processEvent                                                             *)

LEMMA ProcessEventStep == ASSUME InotifyInv, ProcessEvent PROVE InotifyInv'
<1> DEFINE e == Head(events)
<1>1. FileInv /\ events \in Seq(InotifyEvent) /\ events # <<>> /\ pc = "loop"
  BY DEF InotifyInv, ProcessEvent
<1>2. e \in InotifyEvent /\ events' \in Seq(InotifyEvent)
  BY <1>1 DEF ProcessEvent
<1>3. UNCHANGED <<fsVars, filesLeft, line, delivered, done>>
  BY DEF ProcessEvent
<1>4. filesLeft = {} /\ dirsLeft \in Seq(Dirs)
  BY <1>1, Waiting DEF FileInv, Types, ControlOK
<1> HIDE DEF e
<1>5. ASSUME DirNotFound(e) PROVE FileInv'
  <2>1. failure' = "overflow" /\ pc' = "failed" /\ dirsLeft' = dirsLeft /\ task' = task
    BY <1>5 DEF DirNotFound, syncVars
  <2>2. UNCHANGED <<handle, watched, dir, toStat, listing, after, cur>>
    BY <1>5 DEF DirNotFound, syncVars, mapVars
  <2> QED
    BY <1>1, <1>3, <1>4, <2>1, <2>2, NothingReadStep
<1>6. ASSUME DirRemoved(e) PROVE FileInv'
  BY <1>1, <1>3, <1>4, <1>6, NothingReadStep DEF DirRemoved, syncVars
<1>7. ASSUME UnrelatedModified(e) PROVE FileInv'
  BY <1>1, <1>3, <1>4, <1>7, NothingReadStep DEF UnrelatedModified, mapVars, syncVars
<1>8. ASSUME Modified(e) PROVE FileInv'
  <2>1. e.name \in Names
    BY <1>2, <1>8, EventOfName DEF Modified
  <2>2. watched[e.name] \in HandlesIn(watched)
    BY <1>8, <2>1 DEF Modified, HandlesIn
  <2> QED
    BY <1>1, <1>3, <1>4, <1>8, <2>2, FileEventStep DEF Modified, CheckTruncated
<1>9. ASSUME NameChanged(e) PROVE FileInv'
  <2>1. e.dir \in Dirs
    BY <1>2, <1>9, EventOfName DEF NameChanged
  <2>2. dirsLeft' \in Seq(Dirs)
    BY <1>9, <2>1 DEF NameChanged
  <2> QED
    BY <1>1, <1>3, <1>4, <1>9, <2>2, NothingReadStep DEF NameChanged, mapVars
<1>10. FileInv'
  BY <1>5, <1>6, <1>7, <1>8, <1>9 DEF ProcessEvent, e
<1> QED
  BY <1>2, <1>10 DEF InotifyInv

LEMMA InotifyInvInit == ASSUME InotifyInit PROVE InotifyInv
  BY FileInvInit DEF InotifyInit, InotifyInv

LEMMA InotifyInvNext ==
  ASSUME InotifyInv, [InotifyNext]_inotifyVars
  PROVE  InotifyInv'
<1>1. FileInv /\ events \in Seq(InotifyEvent)
  BY DEF InotifyInv
<1>2. CASE FileSystem
  BY <1>2, OthersStep
<1>3. CASE ProcessEvent
  BY <1>3, ProcessEventStep
<1>4. CASE Goroutine /\ UNCHANGED events
  BY <1>1, <1>4, GoroutineStep DEF InotifyInv
<1>5. CASE CloseTailer /\ Operation("close") /\ UNCHANGED events
  <2>1. ops' \in 0 .. MaxOps
    BY <1>1, <1>5, OperationCounts DEF FileInv, Types
  <2> QED
    BY <1>1, <1>5, <2>1, CloseTailerStep DEF InotifyInv
<1>6. CASE UNCHANGED inotifyVars
  BY <1>1, <1>6, NothingHappens DEF InotifyInv, inotifyVars
<1> QED
  BY <1>2, <1>3, <1>4, <1>5, <1>6 DEF InotifyNext

\* With inotify the goroutine never works on a closed file, and whenever it is
\* back in its loop the open files are those of watchedFiles; after shutdown
\* none is open (fswatcher.go: syncFilesInDir, unwatchRemovedFiles, shutdown).
THEOREM InotifyOpenFilesWatched == InotifySpec => []OpenFilesWatched
<1>1. InotifyInit => InotifyInv
  BY InotifyInvInit
<1>2. InotifyInv /\ [InotifyNext]_inotifyVars => InotifyInv'
  BY InotifyInvNext
<1>3. InotifyInv => OpenFilesWatched
  BY FileInvImplies DEF InotifyInv
<1> QED
  BY <1>1, <1>2, <1>3, PTL DEF InotifySpec

-----------------------------------------------------------------------------
(* What is delivered.  The queue of events decides when a file is read and  *)
(* when a directory is synced, and SyncInv holds whenever they are.         *)

LEMMA ProcessEventDelivers == ASSUME InotifyInv, SyncInv, ProcessEvent PROVE SyncInv'
<1> DEFINE e == Head(events)
<1>1. FileInv /\ events \in Seq(InotifyEvent) /\ events # <<>> /\ pc = "loop"
  BY DEF InotifyInv, ProcessEvent
<1>2. e \in InotifyEvent
  BY <1>1
<1>3. UNCHANGED <<fsVars, filesLeft, line, delivered, done>>
  BY DEF ProcessEvent
<1> HIDE DEF e
<1>4. ASSUME DirNotFound(e) PROVE SyncInv'
  BY <1>1, <1>3, <1>4, NothingReadSees DEF DirNotFound, mapVars, syncVars
<1>5. ASSUME DirRemoved(e) PROVE SyncInv'
  BY <1>1, <1>3, <1>5, NothingReadSees DEF DirRemoved, syncVars
<1>6. ASSUME UnrelatedModified(e) PROVE SyncInv'
  BY <1>1, <1>3, <1>6, NothingReadSees DEF UnrelatedModified, mapVars, syncVars
<1>7. ASSUME Modified(e) PROVE SyncInv'
  <2>1. e.name \in Names
    BY <1>2, <1>7, EventOfName DEF Modified
  <2>2. PICK h \in HandlesIn(watched) : h = watched[e.name]
    BY <1>7, <2>1 DEF Modified, HandlesIn
  <2>3. handle' \in {handle, Rewound(h)} /\ cur' = h /\ pc' = "read"
    BY <1>7, <2>2 DEF Modified, CheckTruncated
  <2>4. UNCHANGED <<watched, dir, toStat, listing, after>>
    BY <1>7 DEF Modified, syncVars
  <2> QED
    BY <1>1, <1>3, <2>3, <2>4, FileEventSees
<1>8. ASSUME NameChanged(e) PROVE SyncInv'
  BY <1>1, <1>3, <1>8, NothingReadSees DEF NameChanged, mapVars
<1> QED
  BY <1>4, <1>5, <1>6, <1>7, <1>8 DEF ProcessEvent, e

LEMMA InotifyDelivers ==
  ASSUME InotifyInv, SyncInv, [InotifyNext]_inotifyVars
  PROVE  SyncInv'
<1>1. FileInv
  BY DEF InotifyInv
<1>2. CASE FileSystem
  BY <1>1, <1>2, FileSystemSees DEF FileSystem
<1>3. CASE ProcessEvent
  BY <1>3, ProcessEventDelivers
<1>4. CASE Goroutine /\ UNCHANGED events
  BY <1>1, <1>4, GoroutineSees
<1>5. CASE CloseTailer /\ Operation("close") /\ UNCHANGED events
  BY <1>1, <1>5, CloseTailerSees
<1>6. CASE UNCHANGED inotifyVars
  BY <1>1, <1>6, NothingSeen DEF inotifyVars
<1> QED
  BY <1>2, <1>3, <1>4, <1>5, <1>6 DEF InotifyNext

\* With inotify no line of a file is delivered twice, skipped or out of order before
\* Close, whatever events are merged, dropped or late, but for the files that
\* ExactlyOnce excepts: truncated ones, those that left their directory or left the
\* matching names and returned, and those renamed past a listing of their directory
\* or onto a listed new file's name before that is opened, see Disturbs
\* (fswatcher.go: syncFilesInDir, readNewLines; fswatcher_linux.go: processEvent).
THEOREM InotifyExactlyOnce == InotifySpec => []ExactlyOnce
<1>1. InotifyInit => InotifyInv /\ SyncInv
  BY InotifyInvInit, SyncInvInit DEF InotifyInit
<1>2. InotifyInv /\ SyncInv /\ [InotifyNext]_inotifyVars => InotifyInv' /\ SyncInv'
  BY InotifyInvNext, InotifyDelivers
<1>3. SyncInv => ExactlyOnce
  BY SyncInvImplies
<1> QED
  BY <1>1, <1>2, <1>3, PTL DEF InotifySpec

-----------------------------------------------------------------------------
(* The watch list.                                                          *)

\* An event after which the directory d is synced, or the tailer ends.
Resyncs(e, d) ==
  \/ e.kind = "name" /\ e.dir = d
  \/ e.kind \in {"IN_IGNORED", "IN_Q_OVERFLOW"}

Awaits(q, d) == \E k \in 1 .. Len(q) : Resyncs(q[k], d)

\* The directories that the queued events lead back to.
Awaited == {d \in Dirs : Awaits(events, d)}

\* No event that leads to a sync is lost in the queue: it is queued, or an overflow.
LEMMA QueueKeeps ==
  ASSUME NEW q \in Seq(InotifyEvent), NEW e \in InotifyEvent, NEW r \in Enqueued(q, e), NEW d
  PROVE  /\ Awaits(q, d) => Awaits(r, d)
         /\ Resyncs(e, d) => Awaits(r, d)
<1>1. Overflow \in InotifyEvent /\ Resyncs(Overflow, d)
  BY DEF InotifyEvent, Overflow, Resyncs
<1>2. ASSUME NEW f \in InotifyEvent, r = Append(q, f)
      PROVE  (Awaits(q, d) => Awaits(r, d)) /\ (Resyncs(f, d) => Awaits(r, d))
  <2>1. Len(r) = Len(q) + 1 /\ r[Len(q) + 1] = f /\ Len(q) \in Nat
    BY <1>2
  <2>2. \A k \in 1 .. Len(q) : r[k] = q[k]
    BY <1>2
  <2> QED
    BY <2>1, <2>2 DEF Awaits
<1>3. CASE r = Append(q, Overflow)
  BY <1>1, <1>2, <1>3
<1>4. CASE r = Append(q, e)
  BY <1>2, <1>4
<1>5. CASE r = q /\ q # <<>> /\ q[Len(q)] = Overflow
  <2>1. Len(q) \in 1 .. Len(q)
    BY <1>5
  <2> QED
    BY <1>1, <1>5, <2>1 DEF Awaits
<1>6. CASE r = q /\ e.kind = "IN_MODIFY"
  BY <1>6 DEF Resyncs
<1> QED
  BY <1>3, <1>4, <1>5, <1>6 DEF Enqueued

LEMMA HeadTaken ==
  ASSUME NEW q \in Seq(InotifyEvent), q # <<>>, NEW d, ~Resyncs(Head(q), d), Awaits(q, d)
  PROVE  Awaits(Tail(q), d)
<1>1. PICK k \in 1 .. Len(q) : Resyncs(q[k], d)
  BY DEF Awaits
<1>2. k # 1 /\ Len(q) \in Nat
  BY <1>1
<1>3. k - 1 \in 1 .. Len(Tail(q)) /\ Tail(q)[k - 1] = q[k]
  BY <1>2
<1> QED
  BY <1>1, <1>3 DEF Awaits

\* Other processes leave an event for every directory in which a path gets another
\* file, or none.
LEMMA ChangesAwaited ==
  ASSUME InotifyInv, FileSystem
  PROVE  /\ \A d : Awaits(events, d) => Awaits(events', d)
         /\ \A n \in Names : entry'[n] # entry[n] => Awaits(events', DirOf[n])
<1>1. events \in Seq(InotifyEvent) /\ entry \in [Names -> Inodes \cup {None}]
  BY DEF InotifyInv, FileInv, Types, FileSystemOK
<1>2. ASSUME NEW e \in InotifyEvent, Emit(e)
      PROVE  \A d : (Awaits(events, d) => Awaits(events', d)) /\ (Resyncs(e, d) => Awaits(events', d))
  BY <1>1, <1>2, QueueKeeps DEF Emit
<1>3. ASSUME NEW e \in InotifyEvent, NEW f \in InotifyEvent, EmitBoth(e, f)
      PROVE  \A d : /\ Awaits(events, d) => Awaits(events', d)
                    /\ Resyncs(e, d) \/ Resyncs(f, d) => Awaits(events', d)
  <2>1. PICK q \in Enqueued(events, e) : events' \in Enqueued(q, f)
    BY <1>3 DEF EmitBoth
  <2>2. q \in Seq(InotifyEvent)
    BY <1>1, QueueTypes
  <2> QED
    BY <1>1, <2>1, <2>2, QueueKeeps
<1>4. \A n \in Names : /\ Event("name", n) \in InotifyEvent /\ Event("IN_MODIFY", n) \in InotifyEvent
                       /\ Resyncs(Event("name", n), DirOf[n])
  BY NameEvents DEF Event, Resyncs
<1>5. \A d \in Dirs : Ignored(d) \in InotifyEvent
  BY DEF InotifyEvent
<1>6. CASE \E n \in Names : (CreateFile(n) \/ DeleteFile(n)) /\ Emit(Event("name", n))
  <2>1. PICK n \in Names : (CreateFile(n) \/ DeleteFile(n)) /\ Emit(Event("name", n))
    BY <1>6
  <2>2. \A p \in Names : p # n => entry'[p] = entry[p]
    BY <1>1, <2>1 DEF CreateFile, DeleteFile
  <2> QED
    BY <1>2, <1>4, <2>1, <2>2
<1>7. CASE \E m, n \in Names : RenameFile(m, n, Disturbs(m, n)) /\ EmitBoth(Event("name", m), Event("name", n))
  <2>1. PICK m, n \in Names : RenameFile(m, n, Disturbs(m, n)) /\ EmitBoth(Event("name", m), Event("name", n))
    BY <1>7
  <2>2. \A p \in Names : p # n /\ p # m => entry'[p] = entry[p]
    BY <1>1, <2>1 DEF RenameFile
  <2> QED
    BY <1>3, <1>4, <2>1, <2>2
<1>8. CASE \E n \in Names, endsLine \in BOOLEAN : AppendPiece(n, endsLine) /\ Emit(Event("IN_MODIFY", n))
  BY <1>2, <1>4, <1>8 DEF AppendPiece
<1>9. CASE \E n \in Names : TruncateFile(n) /\ Emit(Event("IN_MODIFY", n))
  BY <1>2, <1>4, <1>9 DEF TruncateFile
<1>10. CASE \E d \in Dirs : RemoveDir(d) /\ Emit(Ignored(d))
  BY <1>2, <1>5, <1>10 DEF RemoveDir
<1> QED
  BY <1>6, <1>7, <1>8, <1>9, <1>10 DEF FileSystem

LEMMA FileSystemWatched == ASSUME InotifyInv, WatchInv(Awaited), FileSystem PROVE WatchInv(Awaited)'
<1>1. PICK Due, Later : Due = Awaited /\ Later = Awaited'
  OBVIOUS
<1>2. Due \subseteq Later /\ \A n \in Names : entry'[n] # entry[n] => DirOf[n] \in Later
  BY <1>1, ChangesAwaited, ConstantsAssumption DEF Awaited
<1>3. WatchInv(Later)'
  BY <1>1, <1>2, OthersWatched, DisturbsPast DEF FileSystem
<1> QED
  BY <1>1, <1>3

LEMMA ProcessEventWatched == ASSUME InotifyInv, WatchInv(Awaited), ProcessEvent PROVE WatchInv(Awaited)'
<1> DEFINE e == Head(events)
<1>1. FileInv /\ events \in Seq(InotifyEvent) /\ events # <<>> /\ pc = "loop"
  BY DEF InotifyInv, ProcessEvent
<1>2. PICK Due, Later : Due = Awaited /\ Later = Awaited'
  OBVIOUS
<1>3. e \in InotifyEvent /\ \A d \in Due : ~Resyncs(e, d) => d \in Later
  BY <1>1, <1>2, HeadTaken DEF ProcessEvent, Awaited
<1>4. UNCHANGED <<fsVars, filesLeft, line, delivered, done>> /\ WatchInv(Due)
  BY <1>2 DEF ProcessEvent
<1>5. ~Syncing /\ cur = None /\ dirsLeft = <<>> /\ Running
  BY <1>1, <1>4 DEF FileInv, Position, WatchInv, OneSync, Running
<1> HIDE DEF e
<1>6. ASSUME pc' = "failed", UNCHANGED syncVars PROVE WatchInv(Later)'
  BY <1>5, <1>6 DEF WatchInv, CurrentOrPending, MovedIsPending, OneSync, Running, Syncing, syncVars
<1>7. ASSUME e.kind = "IN_MODIFY", UNCHANGED syncVars, SameFiles, watched' = watched,
             pc' \in {"loop", "read"}
      PROVE  WatchInv(Later)'
  <2>1. UNCHANGED <<entry, watched, dir, toStat, listing, after, dirsLeft>> /\ Running'
    BY <1>4, <1>7 DEF fsVars, syncVars, Running
  <2>2. \A d : Pending(Due, d) => Pending(Later, d)'
    BY <1>3, <1>5, <1>7 DEF Resyncs, Pending
  <2> QED
    BY <1>1, <1>4, <1>5, <1>7, <2>1, <2>2, WatchKept
<1>8. ASSUME DirNotFound(e) \/ DirRemoved(e) PROVE WatchInv(Later)'
  BY <1>6, <1>8 DEF DirNotFound, DirRemoved
<1>9. ASSUME UnrelatedModified(e) PROVE WatchInv(Later)'
  BY <1>1, <1>7, <1>9 DEF UnrelatedModified, mapVars, SameFiles
<1>10. ASSUME Modified(e) PROVE WatchInv(Later)'
  <2>1. handle' = Rewound(watched[e.name]) /\ pc' = "read"
    BY <1>10 DEF Modified, CheckTruncated
  <2>2. watched[e.name] \in HandlesIn(watched)
    <3>1. e.name \in Names
      BY <1>3, <1>10, EventOfName DEF Modified
    <3> QED
      BY <1>10, <3>1 DEF Modified, HandlesIn
  <2>3. watched[e.name] \in OpenHandles
    BY <1>1, <2>2 DEF FileInv, Custody
  <2>4. SameFiles
    BY <1>1, <2>1, <2>3, RewoundFile DEF SameFiles
  <2> QED
    BY <1>7, <1>10, <2>1, <2>4 DEF Modified
<1>11. ASSUME NameChanged(e) PROVE WatchInv(Later)'
  <2>1. /\ UNCHANGED <<entry, watched, dir, toStat, listing, after, handle, cur>> /\ Running'
        /\ pc' = "sync" /\ dirsLeft' = <<e.dir>>
    BY <1>4, <1>11 DEF NameChanged, fsVars, mapVars, Running
  <2>2. ASSUME NEW d, Pending(Due, d) PROVE Pending(Later, d)'
    <3>1. CASE e.dir = d
      <4>1. Len(dirsLeft') = 1 /\ dirsLeft'[1] = d
        BY <2>1, <3>1
      <4> QED
        BY <4>1 DEF Pending
    <3>2. CASE e.dir # d
      BY <1>3, <1>5, <1>11, <2>2, <3>2 DEF NameChanged, Resyncs, Pending
    <3> QED
      BY <3>1, <3>2
  <2> QED
    BY <1>1, <1>4, <1>5, <2>1, <2>2, WatchKept DEF SameFiles
<1>12. WatchInv(Later)'
  BY <1>8, <1>9, <1>10, <1>11 DEF ProcessEvent, e
<1> QED
  BY <1>2, <1>12

LEMMA InotifyWatched ==
  ASSUME InotifyInv, SyncInv, WatchInv(Awaited), [InotifyNext]_inotifyVars
  PROVE  WatchInv(Awaited)'
<1>1. FileInv /\ Known
  BY DEF InotifyInv, SyncInv, DeliveryInv
<1>2. CASE FileSystem
  BY <1>2, FileSystemWatched
<1>3. CASE ProcessEvent
  BY <1>3, ProcessEventWatched
<1>4. PICK Due : Due = Awaited
  OBVIOUS
<1>5. ASSUME events' = events, WatchInv(Due)' PROVE WatchInv(Awaited)'
  <2>1. Due = Awaited'
    BY <1>4, <1>5 DEF Awaited
  <2> QED
    BY <1>5, <2>1
<1>6. CASE Goroutine /\ UNCHANGED events
  BY <1>1, <1>4, <1>5, <1>6, GoroutineWatched
<1>7. CASE CloseTailer /\ Operation("close") /\ UNCHANGED events
  BY <1>1, <1>4, <1>5, <1>7, NothingWatchedChanges DEF CloseTailer
<1>8. CASE UNCHANGED inotifyVars
  BY <1>1, <1>4, <1>5, <1>8, NothingWatchedChanges DEF inotifyVars, vars, fsVars
<1> QED
  BY <1>2, <1>3, <1>6, <1>7, <1>8 DEF InotifyNext

LEMMA WatchedAfterEvents ==
  ASSUME InotifyInv, WatchInv(Awaited), AtRest
  PROVE  WatchListCurrent
<1>1. PICK Due : Due = Awaited
  OBVIOUS
<1>2. Due = {} /\ pc = "loop"
  BY <1>1 DEF AtRest, Awaited, Awaits
<1> QED
  BY <1>1, <1>2, WatchInvImplies DEF InotifyInv

\* With inotify and for any renames: once the events are used up, the watched files
\* are the files that are there, whatever happened between the events, the listing
\* of a directory and the opening of its files, and however many events the full
\* queue dropped (fswatcher_linux.go: "we just update our watched files with the
\* current state of the watched directory"; fswatcher.go: syncFilesInDir).
THEOREM InotifyWatchListCurrent == InotifySpec => []WatchListCurrentAtRest
<1>1. InotifyInit => InotifyInv /\ SyncInv /\ WatchInv(Awaited)
  <2>1. PICK Due : Due = Awaited
    OBVIOUS
  <2> QED
    BY <2>1, InotifyInvInit, SyncInvInit, WatchInvInit DEF InotifyInit
<1>2. InotifyInv /\ SyncInv /\ WatchInv(Awaited) /\ [InotifyNext]_inotifyVars
        => InotifyInv' /\ SyncInv' /\ WatchInv(Awaited)'
  BY InotifyInvNext, InotifyDelivers, InotifyWatched
<1>3. InotifyInv /\ WatchInv(Awaited) => WatchListCurrentAtRest
  BY WatchedAfterEvents DEF WatchListCurrentAtRest
<1> QED
  BY <1>1, <1>2, <1>3, PTL DEF InotifySpec

-----------------------------------------------------------------------------
(* What is unread.  An IN_MODIFY finds its file by the path, in watchedFiles. *)

\* When the event at position p is handled, the directory d was synced.
SyncedBefore(p, d) ==
  \/ \E k \in 1 .. p - 1 : Resyncs(events[k], d)
  \/ \E k \in 1 .. Len(dirsLeft) : dirsLeft[k] = d

\* When the event at position p is handled, watchedFiles has the file of h under
\* no path but its name: the directories of the others are synced before.
OtherPathsGone(h, p) ==
  \A n \in Names \ {handle[h].name} :
    /\ after[n] = h => SyncedBefore(p, DirOf[n])
    /\ watched[n] = h => SyncedBefore(p, DirOf[n]) \/ (Syncing /\ DirOf[n] = dir)

\* An event will have the file read, or the tailer end.
Told(h) ==
  \E p \in 1 .. Len(events) :
    \/ events[p] = Overflow
    \/ events[p] = Event("IN_MODIFY", handle[h].name) /\ OtherPathsGone(h, p)

AllTold == ~done /\ Running => \A h \in OpenHandles : NeedsNoEvent(h) \/ Told(h)

ReadInv == NameKept /\ WithinFiles /\ AllTold

LEMMA ReadInvInit == ASSUME InotifyInit PROVE ReadInv
<1>1. /\ \A h \in Handles : handle[h].open = FALSE
      /\ listing = {} /\ entry \in [Names -> Inodes \cup {None}]
  BY FileInvInit DEF InotifyInit, Init, Closed, FileInv, Types, FileSystemOK
<1>2. OpenHandles = {}
  BY <1>1 DEF OpenHandles
<1>3. \A m, n \in Names : entry[m] # None /\ entry[m] = entry[n] => m = n
  BY SyncInvInit DEF InotifyInit, SyncInv, DeliveryInv, Known, Paths
<1> QED
  BY <1>1, <1>2, <1>3, Distinct DEF ReadInv, NameKept, Readers, WithinFiles, AllTold

-----------------------------------------------------------------------------
(* What is unread, and other processes.                                     *)

\* The queue grows at its end, by the event, which may be there already, or by an
\* overflow.
LEMMA QueueGrows ==
  ASSUME NEW q \in Seq(InotifyEvent), NEW e \in InotifyEvent, NEW r \in Enqueued(q, e)
  PROVE  /\ r \in Seq(InotifyEvent) /\ Len(q) <= Len(r)
         /\ \A k \in 1 .. Len(q) : r[k] = q[k]
         /\ Len(r) \in 1 .. Len(r) /\ r[Len(r)] \in {e, Overflow}
<1>1. Overflow \in InotifyEvent
  BY DEF InotifyEvent
<1>2. ASSUME NEW f \in InotifyEvent, r = Append(q, f)
      PROVE  /\ r \in Seq(InotifyEvent) /\ Len(q) <= Len(r)
             /\ \A k \in 1 .. Len(q) : r[k] = q[k]
             /\ Len(r) \in 1 .. Len(r) /\ r[Len(r)] = f
  BY <1>2
<1>3. CASE r = Append(q, Overflow) \/ r = Append(q, e)
  BY <1>1, <1>2, <1>3
<1>4. CASE r = q /\ q # <<>> /\ q[Len(q)] \in {e, Overflow}
  <2>1. Len(q) \in 1 .. Len(q)
    BY <1>4
  <2> QED
    BY <1>4, <2>1
<1> QED
  BY <1>3, <1>4 DEF Enqueued

LEMMA EventsGrow ==
  ASSUME InotifyInv, FileSystem
  PROVE  Len(events) <= Len(events') /\ \A k \in 1 .. Len(events) : events'[k] = events[k]
<1>1. events \in Seq(InotifyEvent) /\ \A d \in Dirs : Ignored(d) \in InotifyEvent
  BY DEF InotifyInv, InotifyEvent
<1> DEFINE Grown(q) == Len(events) <= Len(q) /\ \A k \in 1 .. Len(events) : q[k] = events[k]
<1>2. ASSUME NEW e \in InotifyEvent, Emit(e) PROVE Grown(events')
  BY <1>1, <1>2, QueueGrows DEF Emit
<1>3. ASSUME NEW e \in InotifyEvent, NEW f \in InotifyEvent, EmitBoth(e, f) PROVE Grown(events')
  <2>1. PICK q \in Enqueued(events, e) : events' \in Enqueued(q, f)
    BY <1>3 DEF EmitBoth
  <2>2. q \in Seq(InotifyEvent) /\ Grown(q)
    BY <1>1, QueueGrows
  <2>3. Len(q) <= Len(events') /\ \A k \in 1 .. Len(q) : events'[k] = q[k]
    BY <2>1, <2>2, QueueGrows
  <2>4. events' \in Seq(InotifyEvent)
    BY <2>1, <2>2, QueueGrows
  <2>5. Len(q) \in Nat /\ Len(events) \in Nat /\ Len(events') \in Nat
    BY <1>1, <2>2, <2>4
  <2> QED
    BY <2>2, <2>3, <2>5
<1> HIDE DEF Grown
<1>4. Grown(events')
  BY <1>1, <1>2, <1>3, NameEvents DEF FileSystem
<1> QED
  BY <1>4 DEF Grown

\* What was told stays told.
LEMMA ToldStill ==
  ASSUME InotifyInv, NEW h, Told(h), UNCHANGED tailerVars, events' \in Seq(InotifyEvent),
         Len(events) <= Len(events'), \A k \in 1 .. Len(events) : events'[k] = events[k]
  PROVE  Told(h)'
<1>1. PICK p \in 1 .. Len(events) :
        events[p] = Overflow \/ (events[p] = Event("IN_MODIFY", handle[h].name) /\ OtherPathsGone(h, p))
  BY DEF Told
<1>2. Len(events) \in Nat /\ Len(events') \in Nat
  BY DEF InotifyInv
<1>3. UNCHANGED <<handle, watched, after, dir, dirsLeft>>
  BY DEF tailerVars, mapVars, syncVars
<1>4. p \in 1 .. Len(events') /\ events'[p] = events[p]
  BY <1>1, <1>2
<1>5. \A d : SyncedBefore(p, d) => SyncedBefore(p, d)'
  <2>1. \A k \in 1 .. p - 1 : events'[k] = events[k]
    BY <1>1, <1>2
  <2> QED
    BY <1>3, <2>1 DEF SyncedBefore
<1>6. OtherPathsGone(h, p) => OtherPathsGone(h, p)'
  BY <1>3, <1>5 DEF OtherPathsGone, Syncing
<1> QED
  BY <1>1, <1>3, <1>4, <1>6 DEF Told

\* A file that is changed at the path that the tailer has it under: its IN_MODIFY
\* comes after the events of the names it had before.
LEMMA ChangeTold ==
  ASSUME InotifyInv, WatchInv(Awaited), Running, NEW h \in OpenHandles, UNCHANGED tailerVars,
         Emit(Event("IN_MODIFY", handle[h].name))
  PROVE  Told(h)'
<1> DEFINE e == Event("IN_MODIFY", handle[h].name)
<1>1. FileInv /\ events \in Seq(InotifyEvent)
  BY DEF InotifyInv
<1>2. e \in InotifyEvent
  <2>1. handle[h].name \in Names
    BY <1>1, OpenIsOpened DEF Opened
  <2> QED
    BY <2>1, NameEvents
<1>0. PICK p : p = Len(events')
  OBVIOUS
<1>3. /\ events' \in Seq(InotifyEvent) /\ Len(events) <= p
      /\ \A k \in 1 .. Len(events) : events'[k] = events[k]
      /\ p \in 1 .. Len(events') /\ events'[p] \in {e, Overflow}
  BY <1>0, <1>1, <1>2, QueueGrows DEF Emit
<1>4. UNCHANGED <<handle, watched, after, dir, dirsLeft>>
  BY DEF tailerVars, mapVars, syncVars
<1>5. CASE events'[p] = Overflow
  BY <1>3, <1>5 DEF Told
<1>6. CASE events'[p] = e
  <2>1. ASSUME NEW d, Pending(Awaited, d) PROVE SyncedBefore(p, d)'
    <3>1. CASE \E k \in 1 .. Len(dirsLeft) : dirsLeft[k] = d
      BY <1>4, <3>1 DEF SyncedBefore
    <3>2. CASE d \in Awaited
      <4>1. PICK k \in 1 .. Len(events) : Resyncs(events[k], d)
        BY <3>2 DEF Awaited, Awaits
      <4>2. ~Resyncs(e, d)
        BY DEF Resyncs, Event
      <4>3. k # p /\ events'[k] = events[k]
        BY <1>3, <1>6, <4>1, <4>2
      <4>4. k \in 1 .. p - 1
        <5>1. Len(events) \in Nat /\ p \in Nat
          BY <1>0, <1>1, <1>3
        <5> QED
          BY <1>3, <4>1, <4>3, <5>1
      <4> QED
        BY <4>1, <4>3, <4>4 DEF SyncedBefore
    <3> QED
      BY <2>1, <3>1, <3>2 DEF Pending
  <2>2. OtherPathsGone(h, p)'
    <3>1. PICK Due : Due = Awaited
      OBVIOUS
    <3>2. \A n \in Names \ {handle[h].name} :
            /\ after[n] = h => Pending(Due, DirOf[n])
            /\ watched[n] = h => Pending(Due, DirOf[n]) \/ (Syncing /\ DirOf[n] = dir)
      BY <1>1, <3>1, OtherPathsPending
    <3>3. \A d : Pending(Due, d) => SyncedBefore(p, d)'
      BY <2>1, <3>1
    <3> QED
      BY <1>4, <3>2, <3>3 DEF OtherPathsGone, Syncing
  <2> QED
    BY <1>3, <1>4, <1>6, <2>2 DEF Told
<1> QED
  BY <1>3, <1>5, <1>6

LEMMA FileSystemTold ==
  ASSUME InotifyInv, SyncInv, WatchInv(Awaited), AllTold, FileSystem
  PROVE  AllTold'
<1>1. /\ FileInv /\ Known /\ UNCHANGED tailerVars /\ done' = done
      /\ events' \in Seq(InotifyEvent) /\ Len(events) <= Len(events')
      /\ \A k \in 1 .. Len(events) : events'[k] = events[k]
  BY OthersStep, EventsGrow DEF InotifyInv, SyncInv, DeliveryInv, FileSystem
<1>2. OpenHandles' = OpenHandles /\ (Running' <=> Running)
  BY <1>1 DEF OpenHandles, Running, tailerVars, mapVars
<1> SUFFICES ASSUME ~done, Running, NEW h \in OpenHandles PROVE NeedsNoEvent(h)' \/ Told(h)'
  BY <1>1, <1>2 DEF AllTold
<1>3. CASE Told(h)
  BY <1>1, <1>3, ToldStill
<1>4. CASE NeedsNoEvent(h)
  <2>1. CASE \/ \E n \in Names : CreateFile(n) \/ DeleteFile(n)
             \/ \E m, n \in Names : RenameFile(m, n, Disturbs(m, n))
             \/ \E d \in Dirs : RemoveDir(d)
    BY <1>1, <1>4, <2>1, OthersNeedNothing, DisturbsPast
  <2>2. ASSUME NEW n \in Names, Emit(Event("IN_MODIFY", n)),
               TruncateFile(n) \/ \E endsLine \in BOOLEAN : AppendPiece(n, endsLine)
        PROVE  NeedsNoEvent(h)' \/ Told(h)'
    <3>1. CASE n # handle[h].name
      BY <1>1, <1>4, <2>2, <3>1, OthersNeedNothing
    <3>2. CASE n = handle[h].name
      BY <1>1, <2>2, <3>2, ChangeTold
    <3> QED
      BY <3>1, <3>2
  <2> QED
    BY <2>1, <2>2 DEF FileSystem
<1> QED
  BY <1>3, <1>4 DEF AllTold

-----------------------------------------------------------------------------
(* What is unread, and the goroutine.                                       *)

\* A sync gives a file no path but its name, and forgets those it had in its
\* directory.
LEMMA StepOtherPaths ==
  ASSUME FileInv, WatchInv(Awaited), Goroutine, UNCHANGED events, ~done, Running',
         NEW h \in Handles, handle'[h].name = handle[h].name, NEW p, OtherPathsGone(h, p)
  PROVE  OtherPathsGone(h, p)'
<1> USE DEF mapVars, syncVars, readVars
<1>1. /\ watched \in [Names -> Handles \cup {None}] /\ after \in [Names -> Handles \cup {None}]
      /\ handle \in [Handles -> Opened \cup {Closed}] /\ h # None
      /\ dirsLeft \in Seq(Dirs)
  BY Distinct DEF FileInv, Types, FilesOK, ControlOK
<1>2. ASSUME UNCHANGED <<watched, dir, dirsLeft>>,
             \A n \in Names \ {handle[h].name} : after'[n] = h => after[n] = h
      PROVE  OtherPathsGone(h, p)'
  BY <1>2 DEF OtherPathsGone, SyncedBefore, Syncing
<1>3. CASE ListFails \/ Shutdown \/ SendAborted
  BY <1>3 DEF ListFails, Shutdown, SendAborted, Running
<1>4. CASE (\E n \in Names : LstatEntry(n)) \/ SendLine \/ ReadBuffered \/ ReadChunk
  BY <1>2, <1>4 DEF LstatEntry, SendLine, ReadBuffered, ReadChunk
<1>5. CASE ReadEOF
  <2>1. \A n \in Names \ {handle[h].name} : after'[n] = h => after[n] = h
    BY <1>1, <1>5 DEF ReadEOF, ReturnToCaller
  <2> QED
    BY <1>2, <1>5, <2>1 DEF ReadEOF
<1>6. CASE SyncEntry
  <2>1. PICK e \in listing :
          \/ \E g \in Handles : AlreadyWatched(e[1], e[2], g) \/ FollowRenamed(e[1], e[2], g)
          \/ OpenNew(e[1], e[2])
          \/ OpenFindsNothing(e[1], e[2])
    BY <1>6 DEF SyncEntry
  <2>2. \A n \in Names \ {handle[h].name} : after'[n] = h => after[n] = h
    BY <1>1, <2>1 DEF AlreadyWatched, FollowRenamed, OpenNew, OpenFindsNothing
  <2> QED
    BY <1>2, <1>6, <2>2 DEF SyncEntry
<1>7. CASE StartSync
  <2>1. /\ ~Syncing /\ dirsLeft # <<>> /\ dir' = Head(dirsLeft) /\ dirsLeft' = Tail(dirsLeft)
        /\ watched' = watched /\ Syncing'
        /\ \A n \in Names : after'[n] = IF DirOf[n] # dir' THEN watched[n] ELSE None
    <3>1. Head(dirsLeft) \in Dirs
      BY <1>1, <1>7 DEF StartSync
    <3> QED
      BY <1>7, <3>1, ConstantsAssumption DEF StartSync, ListNext, FileInv, Position, Syncing
  <2>2. ASSUME NEW d, SyncedBefore(p, d), d # dir' PROVE SyncedBefore(p, d)'
    <3>1. CASE \E k \in 1 .. p - 1 : Resyncs(events[k], d)
      BY <3>1 DEF SyncedBefore
    <3>2. ASSUME NEW k \in 1 .. Len(dirsLeft), dirsLeft[k] = d PROVE SyncedBefore(p, d)'
      <4>1. k # 1
        BY <1>1, <2>1, <2>2, <3>2
      <4>2. k - 1 \in 1 .. Len(dirsLeft') /\ dirsLeft'[k - 1] = d
        BY <1>1, <2>1, <3>2, <4>1
      <4> QED
        BY <4>2 DEF SyncedBefore
    <3> QED
      BY <2>2, <3>1, <3>2 DEF SyncedBefore
  <2> QED
    BY <1>1, <2>1, <2>2 DEF OtherPathsGone
<1>8. CASE FinishSync
  <2>1. /\ watched' = after /\ after' = NothingWatched /\ dirsLeft' = dirsLeft
    BY <1>8 DEF FinishSync
  <2>2. \A n \in Names : after'[n] # h
    BY <1>1, <2>1 DEF NothingWatched
  <2>3. \A d : SyncedBefore(p, d) => SyncedBefore(p, d)'
    BY <2>1 DEF SyncedBefore
  <2> QED
    BY <2>1, <2>2, <2>3 DEF OtherPathsGone
<1> QED
  BY <1>3, <1>4, <1>5, <1>6, <1>7, <1>8 DEF Goroutine, ReadNewLines

LEMMA StepTold ==
  ASSUME InotifyInv, WatchInv(Awaited), ReadInv, Goroutine, UNCHANGED events
  PROVE  AllTold'
<1>1. FileInv /\ done' = done /\ (Running' => Running)
  BY DEF InotifyInv, Running, Goroutine, StartSync, ListNext, ListFails, LstatEntry, SyncEntry, FinishSync,
     ReadNewLines, ReadBuffered, ReadChunk, ReadEOF, SendLine, SendAborted, Shutdown, ReturnToCaller
<1> SUFFICES ASSUME ~done, Running', NEW h \in Handles, handle'[h].open
             PROVE  NeedsNoEvent(h)' \/ Told(h)'
  BY <1>1 DEF AllTold, OpenHandles
<1>2. \/ NeedsNoEvent(h)'
      \/ h \in OpenHandles /\ ~NeedsNoEvent(h) /\ handle'[h].name = handle[h].name
  BY <1>1, StepNeeds DEF ReadInv
<1>3. ASSUME h \in OpenHandles, ~NeedsNoEvent(h), handle'[h].name = handle[h].name PROVE Told(h)'
  <2>1. Told(h)
    BY <1>1, <1>3 DEF ReadInv, AllTold
  <2>2. PICK p \in 1 .. Len(events) :
          events[p] = Overflow \/ (events[p] = Event("IN_MODIFY", handle[h].name) /\ OtherPathsGone(h, p))
    BY <2>1 DEF Told
  <2>3. OtherPathsGone(h, p) => OtherPathsGone(h, p)'
    BY <1>1, <1>3, StepOtherPaths
  <2> QED
    BY <1>3, <2>2, <2>3 DEF Told
<1> QED
  BY <1>2, <1>3

-----------------------------------------------------------------------------
(* What is unread, and the events.                                          *)

\* When an IN_MODIFY that was to tell of a file is taken from the queue, its path
\* is the key under which watchedFiles has the file.
LEMMA FoundByPath ==
  ASSUME InotifyInv, WatchInv(Awaited), pc = "loop", NEW h \in OpenHandles, OtherPathsGone(h, 1)
  PROVE  watched[handle[h].name] = h
<1>1. FileInv /\ ~Syncing /\ HandlesIn(watched) = OpenHandles
  BY Waiting, NothingHeld DEF InotifyInv, FileInv, Custody
<1>2. dirsLeft = <<>> /\ Len(<<>>) = 0
  BY DEF WatchInv, OneSync
<1>3. PICK n \in Names : watched[n] = h
  BY <1>1 DEF HandlesIn
<1>4. ~SyncedBefore(1, DirOf[n])
  BY <1>2 DEF SyncedBefore
<1> QED
  BY <1>1, <1>3, <1>4 DEF OtherPathsGone

\* What the events behind the first one tell is still to be told when that one was
\* handled, and the directory it names is being synced.
LEMMA ToldLater ==
  ASSUME InotifyInv, WatchInv(Awaited), pc = "loop", NEW h \in OpenHandles, Told(h),
         events # <<>>, events' = Tail(events), Head(events) # Overflow,
         Head(events) = Event("IN_MODIFY", handle[h].name) => watched[handle[h].name] # h,
         \A d : Resyncs(Head(events), d) => \E k \in 1 .. Len(dirsLeft') : dirsLeft'[k] = d,
         handle'[h].name = handle[h].name, UNCHANGED <<watched, after, dir>>
  PROVE  Told(h)'
<1>1. events \in Seq(InotifyEvent) /\ Head(events) = events[1] /\ Len(events) \in Nat
  BY DEF InotifyInv
<1>2. Len(events') = Len(events) - 1 /\ \A k \in 1 .. Len(events') : events'[k] = events[k + 1]
  BY <1>1
<1>3. dirsLeft = <<>> /\ Len(<<>>) = 0
  BY DEF WatchInv, OneSync
<1>4. PICK p \in 1 .. Len(events) :
        events[p] = Overflow \/ (events[p] = Event("IN_MODIFY", handle[h].name) /\ OtherPathsGone(h, p))
  BY DEF Told
<1>5. p # 1
  BY <1>1, <1>4, FoundByPath
<1>6. p \in Nat /\ p - 1 \in 1 .. Len(events')
  BY <1>1, <1>2, <1>4, <1>5
<1>7. events'[p - 1] = events[p]
  BY <1>2, <1>6
<1>8. ASSUME NEW d, SyncedBefore(p, d) PROVE SyncedBefore(p - 1, d)'
  <2>1. PICK k \in 1 .. p - 1 : Resyncs(events[k], d)
    BY <1>3, <1>8 DEF SyncedBefore
  <2>2. CASE k = 1
    BY <1>1, <2>1, <2>2 DEF SyncedBefore
  <2>3. CASE k # 1
    <3>1. k - 1 \in 1 .. (p - 1) - 1 /\ k - 1 \in 1 .. Len(events') /\ (k - 1) + 1 = k
      BY <1>1, <1>2, <1>6, <2>1, <2>3
    <3>2. events'[k - 1] = events[k]
      BY <1>2, <3>1
    <3> QED
      BY <2>1, <3>1, <3>2 DEF SyncedBefore
  <2> QED
    BY <2>2, <2>3
<1>9. OtherPathsGone(h, p) => OtherPathsGone(h, p - 1)'
  BY <1>8 DEF OtherPathsGone, Syncing
<1> QED
  BY <1>4, <1>6, <1>7, <1>9 DEF Told

LEMMA ProcessEventReads ==
  ASSUME InotifyInv, WatchInv(Awaited), ReadInv, ProcessEvent
  PROVE  ReadInv'
<1> DEFINE e == Head(events)
<1>1. /\ FileInv /\ events \in Seq(InotifyEvent) /\ events # <<>> /\ pc = "loop"
      /\ events' = Tail(events) /\ UNCHANGED <<fsVars, done>>
  BY DEF InotifyInv, ProcessEvent
<1>2. e \in InotifyEvent /\ cur = None /\ Running /\ HandlesIn(watched) = OpenHandles
  BY <1>1, Waiting, NothingHeld DEF FileInv, Custody, Running
<1>3. PICK g : handle' = handle \/ (g \in OpenHandles /\ handle' = Rewound(g))
  <2>1. ASSUME Modified(e) PROVE watched[e.name] \in OpenHandles /\ handle' = Rewound(watched[e.name])
    <3>1. e.name \in Names
      BY <1>2, <2>1, EventOfName DEF Modified
    <3> QED
      BY <1>2, <2>1, <3>1 DEF Modified, CheckTruncated, HandlesIn
  <2>2. ~Modified(e) => handle' = handle
    BY DEF ProcessEvent, DirNotFound, DirRemoved, UnrelatedModified, NameChanged, mapVars
  <2> QED
    BY <2>1, <2>2
<1>4. SameFiles
  BY <1>1, <1>3, RewoundFile DEF SameFiles
<1>5. NameKept'
  <2>1. listing' = listing
    BY DEF ProcessEvent, DirNotFound, DirRemoved, UnrelatedModified, Modified, NameChanged, syncVars
  <2> QED
    BY <1>1, <1>4, <2>1, NothingRenamed DEF ReadInv, fsVars
<1>6. WithinFiles'
  <2>1. ASSUME NEW h \in Handles, handle'[h].open
        PROVE  /\ handle[h].open /\ handle'[h].inode = handle[h].inode
               /\ handle'[h].pos = handle[h].pos \/ handle'[h].pos <= Len(content[handle'[h].inode])
    <3>1. handle[h].open /\ handle'[h].inode = handle[h].inode /\ h \in OpenHandles
      BY <1>4, <2>1 DEF SameFiles, OpenHandles
    <3>2. CASE handle' = Rewound(g) /\ g \in OpenHandles /\ h = g
      <4>1. 0 <= Len(content[handle[h].inode])
        BY <1>1, <3>1, ReaderTypes
      <4>2. handle'[h].pos \in {0, handle[h].pos}
        BY <1>1, <3>2, RewoundOffset
      <4> QED
        BY <3>1, <4>1, <4>2
    <3>3. CASE handle' = Rewound(g) /\ g \in OpenHandles /\ h # g
      BY <1>1, <2>1, <3>1, <3>3, RewoundFile
    <3> QED
      BY <1>3, <3>1, <3>2, <3>3
  <2> QED
    BY <1>1, <2>1, StaysWithin DEF ReadInv
<1> HIDE DEF e
<1>7. ASSUME ~done, Running', NEW h \in OpenHandles PROVE NeedsNoEvent(h)' \/ Told(h)'
  <2>1. /\ h \in Handles /\ h # None /\ handle'[h].name = handle[h].name
        /\ NeedsNoEvent(h) \/ Told(h)
    BY <1>2, <1>4, <1>7, Distinct DEF SameFiles, OpenHandles, ReadInv, AllTold
  <2>2. Overflow.kind = "IN_Q_OVERFLOW" /\ Event("IN_MODIFY", handle[h].name).name = handle[h].name
        /\ Event("IN_MODIFY", handle[h].name).kind = "IN_MODIFY"
    BY DEF Overflow, Event
  <2>3. CASE DirNotFound(e) \/ DirRemoved(e)
    BY <1>7, <2>3 DEF DirNotFound, DirRemoved, Running
  <2>4. ASSUME e.kind = "IN_MODIFY", UNCHANGED <<watched, syncVars>>, watched[e.name] # h,
               handle'[h] = handle[h], cur' # h
        PROVE  NeedsNoEvent(h)' \/ Told(h)'
    <3>1. CASE NeedsNoEvent(h)
      BY <1>1, <1>2, <2>1, <2>4, <3>1, NeedsNothingStill
    <3>2. CASE Told(h)
      <4>1. e # Overflow /\ \A d : ~Resyncs(e, d)
        BY <2>2, <2>4 DEF Resyncs
      <4> QED
        BY <1>1, <2>1, <2>2, <2>4, <3>2, <4>1, ToldLater DEF syncVars, e
    <3> QED
      BY <2>1, <3>1, <3>2
  <2>5. CASE UnrelatedModified(e)
    BY <1>2, <2>1, <2>4, <2>5 DEF UnrelatedModified, mapVars
  <2>6. CASE Modified(e)
    <3>1. e.name \in Names
      BY <1>2, <2>6, EventOfName DEF Modified
    <3>2. PICK r \in OpenHandles : r = watched[e.name]
      BY <1>2, <2>6, <3>1 DEF Modified, HandlesIn
    <3>3. handle' = Rewound(r) /\ cur' = r
      BY <2>6, <3>2 DEF Modified, CheckTruncated
    <3>4. CASE h = r
      BY <1>1, <3>3, <3>4, ExaminedNeedsNothing
    <3>5. CASE h # r
      <4>1. handle'[h] = handle[h]
        BY <1>1, <2>1, <3>3, <3>5, RewoundFile
      <4> QED
        BY <2>4, <2>6, <3>2, <3>3, <3>5, <4>1 DEF Modified
    <3> QED
      BY <3>4, <3>5
  <2>7. CASE NameChanged(e)
    <3>1. handle' = handle /\ cur' = cur /\ e.kind = "name" /\ dirsLeft' = <<e.dir>>
          /\ UNCHANGED <<watched, after, dir>>
      BY <2>7 DEF NameChanged, mapVars
    <3>2. CASE NeedsNoEvent(h)
      BY <1>1, <3>1, <3>2, NeedsNothingStill
    <3>3. CASE Told(h)
      <4>1. ASSUME NEW d, Resyncs(e, d) PROVE \E k \in 1 .. Len(dirsLeft') : dirsLeft'[k] = d
        <5>1. Len(dirsLeft') = 1 /\ dirsLeft'[1] = d
          BY <3>1, <4>1 DEF Resyncs
        <5> QED
          BY <5>1
      <4>2. e # Overflow /\ e # Event("IN_MODIFY", handle[h].name)
        BY <2>2, <3>1
      <4> QED
        BY <1>1, <2>1, <3>1, <3>3, <4>1, <4>2, ToldLater DEF e
    <3> QED
      BY <2>1, <3>2, <3>3
  <2> QED
    BY <2>3, <2>5, <2>6, <2>7 DEF ProcessEvent, e
<1>8. OpenHandles' = OpenHandles
  BY <1>4, SameReaders
<1> QED
  BY <1>1, <1>5, <1>6, <1>7, <1>8 DEF ReadInv, AllTold

LEMMA ReadInvNext ==
  ASSUME InotifyInv, SyncInv, WatchInv(Awaited), ReadInv, [InotifyNext]_inotifyVars
  PROVE  ReadInv'
<1>1. FileInv /\ Known /\ NameKept /\ WithinFiles
  BY DEF InotifyInv, SyncInv, DeliveryInv, ReadInv
<1>2. CASE FileSystem
  BY <1>1, <1>2, FileSystemKeepsNames, FileSystemWithin, FileSystemTold, DisturbsPast DEF ReadInv, FileSystem
<1>3. CASE ProcessEvent
  BY <1>3, ProcessEventReads
<1>4. CASE Goroutine /\ UNCHANGED events
  BY <1>1, <1>4, StepKeepsNames, StepWithin, StepTold DEF ReadInv
<1>5. ASSUME UNCHANGED <<entry, content, history, tailerVars, events>>, done' = done \/ done' PROVE ReadInv'
  <2>1. UNCHANGED <<handle, listing, cur, pc, watched, after, dir, dirsLeft>>
    BY <1>5 DEF tailerVars, mapVars, syncVars, readVars
  <2>2. NameKept'
    BY <1>1, <1>5, <2>1, NothingRenamed DEF SameFiles
  <2>3. WithinFiles'
    BY <1>1, <1>5, <2>1 DEF WithinFiles, OpenHandles
  <2>4. ASSUME NEW h PROVE (NeedsNoEvent(h) => NeedsNoEvent(h)') /\ (Told(h) => Told(h)')
    BY <1>5, <2>1 DEF NeedsNoEvent, Lost, ReadToEnd, Told, OtherPathsGone, SyncedBefore, Syncing
  <2>5. AllTold'
    BY <1>5, <2>1, <2>4 DEF ReadInv, AllTold, Running, OpenHandles
  <2> QED
    BY <2>2, <2>3, <2>5 DEF ReadInv
<1>6. CASE CloseTailer /\ Operation("close") /\ UNCHANGED events
  BY <1>5, <1>6 DEF CloseTailer
<1>7. CASE UNCHANGED inotifyVars
  BY <1>5, <1>7 DEF inotifyVars, vars, fsVars
<1> QED
  BY <1>2, <1>3, <1>4, <1>6, <1>7 DEF InotifyNext

-----------------------------------------------------------------------------
(* At rest.                                                                 *)

LEMMA AllReadAfterEvents ==
  ASSUME InotifyInv, WatchInv(Awaited), ReadInv
  PROVE  AllReadAtRest
<1> SUFFICES ASSUME AtRest, ~done, NEW h \in HandlesIn(watched)
             PROVE  ReadUp(h) \/ "back" \in history[handle[h].inode]
  BY DEF AllReadAtRest
<1>1. PICK n \in Names : h = watched[n] /\ h # None
  BY DEF HandlesIn
<1>2. handle[h].name = n /\ entry[n] = handle[h].inode
  BY <1>1, WatchedAfterEvents DEF WatchListCurrent
<1>3. h \in OpenHandles /\ cur = None /\ Running
  BY Waiting DEF InotifyInv, FileInv, Custody, AtRest, Running
<1>4. ~Told(h)
  BY DEF Told, AtRest
<1>5. NeedsNoEvent(h)
  BY <1>3, <1>4 DEF ReadInv, AllTold
<1> QED
  BY <1>1, <1>2, <1>3, <1>5 DEF NeedsNoEvent, ReadUp, Lost

\* With inotify and for any renames and truncations: once the events are used up,
\* every watched file was read to its end.  No event is needed that nobody will
\* send: a file that the sync finds under a new name is read at once, and the
\* IN_MODIFY of what is written later comes after the events of the names the file
\* had.  Excepted are the files both renamed and truncated, and those that came back
\* to the name the tailer had them under (fswatcher_linux.go: processEvent;
\* fswatcher.go: syncFilesInDir, readNewLines).
THEOREM InotifyAllReadAtRest == InotifySpec => []AllReadAtRest
<1> DEFINE Inv == InotifyInv /\ SyncInv /\ WatchInv(Awaited) /\ ReadInv
<1>1. InotifyInit => Inv
  <2>1. PICK Due : Due = Awaited
    OBVIOUS
  <2> QED
    BY <2>1, InotifyInvInit, SyncInvInit, WatchInvInit, ReadInvInit DEF InotifyInit
<1>2. Inv /\ [InotifyNext]_inotifyVars => Inv'
  BY InotifyInvNext, InotifyDelivers, InotifyWatched, ReadInvNext
<1>3. Inv => AllReadAtRest
  BY AllReadAfterEvents
<1> QED
  BY <1>1, <1>2, <1>3, PTL DEF InotifySpec

=============================================================================
