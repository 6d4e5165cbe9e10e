----------------------------- MODULE KqueueTailer -----------------------------
(***************************************************************************)
(* tailer/fswatcher/fswatcher_darwin.go: a file tailer driven by kqueue.   *)
(* Events name a descriptor, of a directory or of a file.  The number of a *)
(* closed descriptor is given to the next file opened, while events that   *)
(* were read for the old one may still be on their way.                    *)
(***************************************************************************)
EXTENDS FileTailer

VARIABLES
  fd,          \* the descriptor number of each open file
  registered,  \* the files watchFile was called for
  pending,     \* the flags the kernel has collected for each descriptor
  batch        \* the events kevent() returned that are not handled yet

kqueueVars == <<fd, registered, pending, batch>>
allVars == <<vars, kqueueVars>>

\* watchDirs opened the directories first; they stay open.
DirFd(d) == CHOOSE i \in 1 .. Len(DirSeq) : DirSeq[i] = d
FileFds == Len(DirSeq) + 1 .. Len(DirSeq) + MaxHandles + 1
Fds == 1 .. Len(DirSeq) + MaxHandles + 1
NoEvents == [f \in Fds |-> {}]

KqueueInit ==
  /\ Init
  /\ fd = [h \in Handles |-> None]
  /\ registered = {}
  /\ pending = NoEvents
  /\ batch = NoEvents

-----------------------------------------------------------------------------
(* The kernel.                                                              *)

\* One knote per descriptor gathers flags until kevent() takes them (EV_CLEAR).
Note(fds, flag) ==
  pending' = [f \in Fds |-> IF f \in fds THEN pending[f] \cup {flag} ELSE pending[f]]

FdsOf(i) == {fd[h] : h \in {r \in registered : handle[r].inode = i}}

\* Flags that processEvent ignores (NOTE_RENAME and NOTE_DELETE of a file,
\* NOTE_LINK) are left out, and NOTE_EXTEND is taken for NOTE_WRITE.
FileSystem ==
  /\ \/ \E n \in Names :
          (CreateFile(n) \/ DeleteFile(n)) /\ Note({DirFd(DirOf[n])}, "WRITE")
     \/ \E n \in Names, endsLine \in BOOLEAN :
          AppendPiece(n, endsLine) /\ Note(FdsOf(entry[n]), "WRITE")
     \/ \E m, n \in Names :
          RenameFile(m, n, Disturbs(m, n)) /\ Note({DirFd(DirOf[m]), DirFd(DirOf[n])}, "WRITE")
     \/ \E n \in Names : TruncateFile(n) /\ Note(FdsOf(entry[n]), "ATTRIB")
     \/ \E d \in Dirs : RemoveDir(d) /\ Note({DirFd(d)}, "DELETE")
  /\ UNCHANGED <<tailerVars, done, fd, registered, batch>>

\* Mutant of Kevent: EV_ONESHOT instead of EV_CLEAR, the knote goes with its event.
KeventOneshot ==
  /\ pc # "returned"
  /\ batch = NoEvents /\ pending # NoEvents
  /\ batch' = pending
  /\ pending' = NoEvents
  /\ registered' = {h \in registered : pending[fd[h]] = {}}
  /\ UNCHANGED <<vars, fd>>

\* The producer loop: kevent() returns what is pending (up to ten events, more
\* than there are descriptors here), in an order that nobody promises.
Kevent ==
  /\ pc # "returned"
  /\ batch = NoEvents /\ pending # NoEvents
  /\ batch' = pending
  /\ pending' = NoEvents
  /\ UNCHANGED <<vars, fd, registered>>

\* Mutant of Descriptors: the numbers of closed files are not given back.
DescriptorsKept ==
  LET keeps(h) == handle[h].open /\ handle'[h].open /\ handle'[h].name = handle[h].name
      free == FileFds \ {fd[h] : h \in Handles}
      lowest == CHOOSE f \in free : \A g \in free : f <= g
  IN  /\ fd' = [h \in Handles |-> IF ~handle'[h].open \/ keeps(h) THEN fd[h] ELSE lowest]
      /\ registered' = {h \in registered : keeps(h)}
      /\ UNCHANGED pending

\* A file that was opened, or renamed and so duplicated, has a new descriptor,
\* the lowest that is free; a closed descriptor takes its knote with it, and
\* the events already read stay.
Descriptors ==
  LET keeps(h) == handle[h].open /\ handle'[h].open /\ handle'[h].name = handle[h].name
      free == FileFds \ {fd[h] : h \in Handles}
      lowest == CHOOSE f \in free : \A g \in free : f <= g
  IN  /\ fd' = [h \in Handles |-> IF ~handle'[h].open THEN None
                                  ELSE IF keeps(h) THEN fd[h] ELSE lowest]
      /\ registered' = {h \in registered : keeps(h)}
      /\ pending' = [f \in Fds |-> IF \E h \in Handles : fd[h] = f /\ fd'[h] # f
                                     THEN {} ELSE pending[f]]

\* watchFile, before readNewLines: EV_ADD of the new descriptor.
WatchFile ==
  /\ pc = "read" /\ cur \notin registered
  /\ registered' = registered \cup {cur}
  /\ UNCHANGED <<vars, fd, pending, batch>>

-----------------------------------------------------------------------------
(* processEvent                                                             *)

\* The directory is gone.  With NOTE_WRITE it is listed once more, which fails
\* too or finds it empty.
DirDeleted(f) ==
  /\ f \in 1 .. Len(DirSeq) /\ "DELETE" \in batch[f]
  /\ failure' = "deleted"
  /\ pc' = "failed"
  /\ UNCHANGED <<handle, task, dirsLeft, cur>>

DirWritten(f) ==
  /\ f \in 1 .. Len(DirSeq) /\ batch[f] = {"WRITE"}
  /\ dirsLeft' = <<DirSeq[f]>>
  /\ task' = "event"
  /\ pc' = "sync"
  /\ UNCHANGED <<handle, cur, failure>>

WatchedAt(f) == {h \in HandlesIn(watched) : fd[h] = f}

FileTruncated(f) ==
  /\ \E h \in WatchedAt(f) : handle' = Rewound(h)
  /\ batch[f] = {"ATTRIB"}
  /\ task' = "event"
  /\ UNCHANGED <<pc, dirsLeft, cur, failure>>

\* Only NOTE_ATTRIB asks for isTruncated.
FileWritten(f) ==
  /\ \E h \in WatchedAt(f) :
       /\ handle' = IF "ATTRIB" \in batch[f] THEN Rewound(h) ELSE handle
       /\ cur' = h
  /\ "WRITE" \in batch[f]
  /\ task' = "event"
  /\ pc' = "read"
  /\ UNCHANGED <<dirsLeft, failure>>

UnknownDescriptor(f) ==
  /\ f \in FileFds /\ WatchedAt(f) = {}
  /\ UNCHANGED <<handle, pc, task, dirsLeft, cur, failure>>

ProcessEvent ==
  /\ pc = "loop"
  /\ \E f \in Fds :
       /\ batch[f] # {}
       /\ DirDeleted(f) \/ DirWritten(f) \/ FileTruncated(f) \/ FileWritten(f)
          \/ UnknownDescriptor(f)
       /\ batch' = [batch EXCEPT ![f] = {}]
  /\ UNCHANGED <<fsVars, watched, watchedDirs, dir, toStat, listing, after, filesLeft,
                 line, delivered, done, fd, registered, pending>>

\* The open descriptor of a removed directory may also still list it, as empty.
ListRemoved ==
  /\ pc = "sync" /\ dirsLeft # <<>>
  /\ Head(dirsLeft) \in removed
  /\ ListNext

Step ==
  /\ pc = "read" => cur \in registered
  /\ Goroutine \/ ListRemoved
  /\ Descriptors
  /\ UNCHANGED batch

KqueueNext ==
  \/ FileSystem
  \/ Kevent
  \/ WatchFile
  \/ ProcessEvent
  \/ Step
  \/ CloseTailer /\ Operation("close") /\ UNCHANGED kqueueVars

KqueueSpec == KqueueInit /\ [][KqueueNext]_allVars

\* The producer loop and the goroutine run, and the application reads the lines
\* and the error.
KqueueFairSpec ==
  KqueueSpec /\ WF_allVars(Kevent) /\ WF_allVars(WatchFile \/ ProcessEvent \/ Step)

-----------------------------------------------------------------------------
DescriptorsOK ==
  /\ fd \in [Handles -> FileFds \cup {None}]
  /\ \A h \in Handles : (fd[h] # None) = handle[h].open
  /\ \A g, h \in OpenHandles : fd[g] = fd[h] => g = h
  /\ registered \subseteq OpenHandles
  /\ {pending[f] : f \in Fds} \cup {batch[f] : f \in Fds} \subseteq
       SUBSET {"WRITE", "ATTRIB", "DELETE"}

KqueueTypeOK == TypeOK /\ DescriptorsOK

\* At rest: the kernel has no event, none is on its way, the goroutine waits.
AtRest == pc = "loop" /\ pending = NoEvents /\ batch = NoEvents

\* Whatever events were merged, dropped with a closed descriptor, or handled for
\* the file that has got its number: once they are used up, the watched files
\* are the files that are there, and each was read to its end, under whatever
\* names and back again.  (ReadUp excepts a file that was both truncated and
\* renamed: the NOTE_ATTRIB may have gone with the descriptor that was duplicated.
\* With readall off a file may be truncated between the Seek to its end and its
\* registration: no event tells, and the next NOTE_WRITE does not ask.)
AllReadAtRest == AtRest => WatchListCurrent /\ (~done /\ ReadAll => AllRead)

\* Every line written to a file that keeps a matching name reaches the
\* application.
EveryLineReceived == \A i \in Inodes : []<>LinesServed(i)
=============================================================================
