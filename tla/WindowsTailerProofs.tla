-------------------------- MODULE WindowsTailerProofs --------------------------
(***************************************************************************)
(* PollingTailer and WindowsTailer for any paths, directories, files and   *)
(* bounds: both deliver each line once and in order.  On Windows the files *)
(* watched are those that are there, and read to their ends, once the      *)
(* events of fsnotify are used up, whatever happens between two opens.     *)
(***************************************************************************)
EXTENDS WindowsTailer, FileTailerProofs

-----------------------------------------------------------------------------
(* Polling, on any other system.                                            *)

\* Polling keeps no watch on a directory, so none is ever lost.
PollingInv == FileInv /\ watchedDirs = DirSeq

LEMMA PollStep == ASSUME PollingInv, Poll PROVE PollingInv'
<1>1. FileInv /\ watchedDirs = DirSeq /\ DirSeq \in Seq(Dirs)
  BY ConstantsAssumption DEF PollingInv
<1>2. dirsLeft \in Seq(Dirs)
  BY <1>1 DEF FileInv, Types, ControlOK
<1>3. CASE Tick
  <2>1. pc = "loop" /\ filesLeft = {} /\ watchedDirs' = watchedDirs
    BY <1>1, <1>3, Waiting DEF Tick, mapVars
  <2>2. FileInv'
    BY <1>1, <1>3, <2>1, NothingReadStep DEF Tick, mapVars, readVars
  <2> QED
    BY <1>1, <2>1, <2>2 DEF PollingInv
<1>4. ASSUME NEW n \in Names, PollFile(n) PROVE PollingInv'
  <2>1. /\ n \in filesLeft /\ filesLeft' = filesLeft \ {n} /\ watched[n] # None
        /\ pc = "files" /\ task = "poll" /\ task' = task
    BY <1>1, <1>4 DEF PollFile, FileInv, FilesLeft
  <2>2. FileInv'
    BY <1>1, <1>4, <2>1, FileEventStep DEF PollFile, CheckTruncated, HandlesIn
  <2> QED
    BY <1>1, <1>4, <2>2 DEF PollingInv, PollFile
<1>5. CASE PollDone
  <2>1. FileInv'
    BY <1>1, <1>2, <1>5, NothingReadStep DEF PollDone, mapVars, readVars, syncVars
  <2> QED
    BY <1>1, <1>5, <2>1 DEF PollingInv, PollDone, mapVars
<1> QED
  BY <1>3, <1>4, <1>5 DEF Poll

LEMMA PollingInvInit == ASSUME Init PROVE PollingInv
  BY FileInvInit DEF Init, PollingInv

LEMMA PollingInvNext ==
  ASSUME PollingInv, [PollingNext]_vars
  PROVE  PollingInv'
<1>1. FileInv /\ watchedDirs = DirSeq
  BY DEF PollingInv
<1>2. CASE FileSystem
  <2>1. watchedDirs' = watchedDirs
    BY <1>2 DEF FileSystem, tailerVars, mapVars
  <2>2. FileInv'
    BY <1>1, <1>2, FileSystemStep, DisturbsPast DEF FileSystem
  <2> QED
    BY <1>1, <2>1, <2>2 DEF PollingInv
<1>3. CASE Poll
  BY <1>3, PollStep
<1>4. CASE Goroutine
  <2>1. watchedDirs' = watchedDirs
    BY <1>4 DEF Goroutine, StartSync, ListNext, ListFails, LstatEntry, SyncEntry, FinishSync,
       ReadNewLines, ReadBuffered, ReadChunk, ReadEOF, SendLine, SendAborted, Shutdown, mapVars
  <2> QED
    BY <1>1, <1>4, <2>1, GoroutineStep DEF PollingInv
<1>5. CASE CloseTailer /\ UNCHANGED ops
  <2>1. ops' \in 0 .. MaxOps /\ watchedDirs' = watchedDirs
    BY <1>1, <1>5 DEF FileInv, Types, FileSystemOK, CloseTailer, tailerVars, mapVars
  <2> QED
    BY <1>1, <1>5, <2>1, CloseTailerStep DEF PollingInv
<1>6. CASE UNCHANGED vars
  BY <1>1, <1>6, NothingHappens DEF PollingInv, vars, tailerVars, mapVars
<1> QED
  BY <1>2, <1>3, <1>4, <1>5, <1>6 DEF PollingNext

\* With polling, too, the goroutine never works on a closed file, whatever a
\* tick finds renamed or gone; whenever it is back in its loop, or between two
\* files of a poll, the open files are those of watchedFiles; after shutdown
\* none is open (fswatcher.go, pollingwatcher.go: processEvent).
THEOREM PollingOpenFilesWatched == PollingSpec => []OpenFilesWatched
<1>1. Init => PollingInv
  BY PollingInvInit
<1>2. PollingInv /\ [PollingNext]_vars => PollingInv'
  BY PollingInvNext
<1>3. PollingInv => OpenFilesWatched
  BY FileInvImplies DEF PollingInv
<1> QED
  BY <1>1, <1>2, <1>3, PTL DEF PollingSpec

LEMMA PollDelivers == ASSUME PollingInv, SyncInv, Poll PROVE SyncInv'
<1>1. FileInv
  BY DEF PollingInv
<1>2. CASE Tick
  BY <1>1, <1>2, NothingReadSees DEF Tick, mapVars, readVars
<1>3. ASSUME NEW n \in Names, PollFile(n) PROVE SyncInv'
  <2>1. PICK h \in HandlesIn(watched) : h = watched[n]
    BY <1>1, <1>3 DEF PollFile, FileInv, FilesLeft, HandlesIn
  <2>2. /\ pc = "files" /\ handle' \in {handle, Rewound(h)} /\ cur' = h /\ pc' = "read"
        /\ UNCHANGED <<fsVars, watched, dir, toStat, listing, after, line, delivered, done>>
    BY <1>3, <2>1 DEF PollFile, CheckTruncated, syncVars
  <2> QED
    BY <1>1, <2>2, FileEventSees
<1>4. CASE PollDone
  BY <1>1, <1>4, NothingReadSees DEF PollDone, mapVars, readVars, syncVars
<1> QED
  BY <1>2, <1>3, <1>4 DEF Poll

LEMMA PollingDelivers ==
  ASSUME PollingInv, SyncInv, [PollingNext]_vars
  PROVE  SyncInv'
<1>1. FileInv
  BY DEF PollingInv
<1>2. CASE FileSystem
  BY <1>1, <1>2, FileSystemSees DEF FileSystem
<1>3. CASE Poll
  BY <1>3, PollDelivers
<1>4. CASE Goroutine
  BY <1>1, <1>4, GoroutineSees
<1>5. CASE CloseTailer /\ UNCHANGED ops
  BY <1>1, <1>5, CloseTailerSees
<1>6. CASE UNCHANGED vars
  BY <1>1, <1>6, NothingSeen
<1> QED
  BY <1>2, <1>3, <1>4, <1>5, <1>6 DEF PollingNext

\* Polling delivers no line of a file twice, skipped or out of order before Close,
\* whatever is replaced or written between two files of a poll or two entries of a
\* sync.  ExactlyOnce excepts the files that were truncated, left their directory,
\* left the matching names and returned, or were renamed in one of the two ways
\* that disturb a sync, see Disturbs (fswatcher.go, pollingwatcher.go: processEvent).
THEOREM PollingExactlyOnce == PollingSpec => []ExactlyOnce
<1>1. Init => PollingInv /\ SyncInv
  BY PollingInvInit, SyncInvInit
<1>2. PollingInv /\ SyncInv /\ [PollingNext]_vars => PollingInv' /\ SyncInv'
  BY PollingInvNext, PollingDelivers
<1>3. SyncInv => ExactlyOnce
  BY SyncInvImplies
<1> QED
  BY <1>1, <1>2, <1>3, PTL DEF PollingSpec

-----------------------------------------------------------------------------
(* Windows.  What is delivered.                                             *)

WindowsEvent ==
  {Event(op, n) : op \in {"Name", "Write"}, n \in Names}
    \cup {[op |-> "Name", dir |-> d, name |-> NoName] : d \in Dirs}

QueueOK == events \in Seq(WindowsEvent) /\ overflow \in BOOLEAN

\* A locked path has its file, which is known to have been locked.
LockedExist ==
  /\ locked \subseteq Names
  /\ \A n \in locked : entry[n] # None /\ "locked" \in history[entry[n]]

\* Between the opens of one operation.  The file about to be opened, if followed, has
\* no reader: it was not there, or not watched, when the entry was compared.  A file
\* that needs a seek to its start was truncated.
Between ==
  /\ pc = "open" =>
       /\ opening \in Names
       /\ \E i \in Inodes : <<opening, i>> \in listing
       /\ \A j \in Inodes : Followed(j) /\ entry[opening] = j => Readers(j) = {}
  /\ pc = "seek" => ~ReadAll /\ handle[cur].pos = 0 /\ handle[cur].buf = <<>>
  /\ pc = "rewind" => ~Syncing /\ (~done => ~Followed(handle[cur].inode))

\* StillToSee and ListingTrue of FileTailerProofs where the listing has names only.
\* During a sync a watched file is kept, or is at a path still to be compared, or has
\* no matching path any more; and at a path still to be compared is no file that
\* this sync opened.
StillToCompare ==
  /\ Syncing => \A i \in Inodes : Followed(i) =>
       \A h \in Readers(i) : h \in HandlesIn(watched) =>
         \/ h \in HandlesIn(after) \cup {cur}
         \/ \E n \in Names, k \in Inodes : <<n, k>> \in listing /\ entry[n] = i
         \/ \A n \in Matching : entry[n] # i
  /\ \A n \in Names, k, i \in Inodes :
       <<n, k>> \in listing /\ Followed(i) /\ entry[n] = i => Readers(i) \subseteq HandlesIn(watched)

Served == ~done => \A i \in Inodes : Followed(i) => Unbroken(i)

\* An operation that fails leaves the files as they are, and only shutdown follows.
WindowsInv ==
  /\ FileSystemOK /\ QueueOK /\ LockedExist
  /\ watchedDirs = DirSeq
  /\ Served
  /\ Running => FileInv /\ DeliveryInv /\ Between /\ StillToCompare

LEMMA WindowsInvInit == ASSUME WindowsInit PROVE WindowsInv
<1>1. FileInv /\ DeliveryInv
  BY FileInvInit, DeliveryInvInit DEF WindowsInit
<1>6. StillToCompare
  BY DEF WindowsInit, Init, StillToCompare, Syncing
<1>2. pc = "sync" /\ watchedDirs = DirSeq /\ delivered = [i \in Inodes |-> <<>>]
  BY DEF WindowsInit, Init
<1>3. Served
  BY <1>1, <1>2 DEF Served, DeliveryInv, Runs
<1>4. QueueOK /\ LockedExist
  <2>1. events \in Seq(WindowsEvent) /\ locked = {}
    BY DEF WindowsInit
  <2>2. overflow \in BOOLEAN
    BY Zenon DEF WindowsInit
  <2> QED
    BY <2>1, <2>2 DEF QueueOK, LockedExist
<1>5. Between /\ watchedDirs = DirSeq /\ FileSystemOK
  BY <1>1, <1>2 DEF WindowsInit, Init, Between, FileInv, Types
<1> QED
  BY <1>1, <1>3, <1>4, <1>5, <1>6 DEF WindowsInv

-----------------------------------------------------------------------------
(* Other programs.                                                          *)

FileChange ==
  \/ \E n \in Names : CreateFile(n) \/ DeleteFile(n) \/ TruncateFile(n)
  \/ \E n \in Names, endsLine \in BOOLEAN : AppendPiece(n, endsLine)
  \/ \E m, n \in Names : RenameFile(m, n, DisturbsNames(m, n))
  \/ \E d \in Dirs : RemoveDir(d)

LEMMA DisturbsNamesMarks == \A m, n : DisturbsNames(m, n) \subseteq {"raced", "swapped"}
  BY DEF DisturbsNames

LEMMA DisturbsNamesPast == \A m, n : DisturbsNames(m, n) \in SUBSET Past
  BY DisturbsNamesMarks DEF Past

LEMMA EventTypes ==
  /\ \A n \in Names : /\ Event("Name", n) \in WindowsEvent /\ Event("Write", n) \in WindowsEvent
                      /\ DirOf[n] \in Dirs
  /\ \A d \in Dirs : [op |-> "Name", dir |-> d, name |-> NoName] \in WindowsEvent
  BY ConstantsAssumption DEF WindowsEvent

LEMMA EmitTypes ==
  ASSUME QueueOK, NEW es \in Seq(WindowsEvent), Emit(es)
  PROVE  QueueOK'
<1>1. events' \in Seq(WindowsEvent)
  <2>1. events \o es \in Seq(WindowsEvent)
    BY DEF QueueOK
  <2> QED
    BY <2>1 DEF Emit, QueueOK
<1>2. overflow' \in BOOLEAN
  BY ZenonT(30) DEF Emit, QueueOK
<1> QED
  BY <1>1, <1>2 DEF QueueOK

\* A locked path is not renamed, replaced or removed.
LEMMA ProgramsAre ==
  ASSUME Programs, QueueOK, FileSystemOK, locked \subseteq Names
  PROVE  /\ \/ FileChange /\ UNCHANGED locked /\ \A n \in locked : entry'[n] = entry[n]
            \/ (\E n \in Names : LockFile(n) \/ UnlockFile(n)) /\ UNCHANGED <<events, overflow>>
         /\ QueueOK'
         /\ UNCHANGED <<tailerVars, done, driver, opening>>
<1>1. entry \in [Names -> Inodes \cup {None}]
  BY DEF FileSystemOK
<1>2. UNCHANGED <<tailerVars, done, driver, opening>>
  BY DEF Programs
<1>3. \A n \in Names : <<Event("Name", n)>> \in Seq(WindowsEvent) /\ <<Event("Write", n)>> \in Seq(WindowsEvent)
  BY EventTypes
<1>4. CASE \E n \in Names \ locked : (CreateFile(n) \/ DeleteFile(n)) /\ Emit(<<Event("Name", n)>>) /\ UNCHANGED locked
  <2>1. PICK n \in Names \ locked : (CreateFile(n) \/ DeleteFile(n)) /\ Emit(<<Event("Name", n)>>)
    BY <1>4
  <2>2. \A p \in Names : p # n => entry'[p] = entry[p]
    BY <1>1, <2>1 DEF CreateFile, DeleteFile
  <2>3. FileChange
    BY <2>1 DEF FileChange
  <2> QED
    BY <1>2, <1>3, <1>4, <2>1, <2>2, <2>3, EmitTypes
<1>5. CASE \E n \in Names, endsLine \in BOOLEAN :
             AppendPiece(n, endsLine) /\ Emit(<<Event("Write", n)>>) /\ UNCHANGED locked
  <2>1. PICK n \in Names, endsLine \in BOOLEAN : AppendPiece(n, endsLine) /\ Emit(<<Event("Write", n)>>)
    BY <1>5
  <2>2. FileChange /\ entry' = entry
    BY <2>1 DEF FileChange, AppendPiece
  <2> QED
    BY <1>2, <1>3, <1>5, <2>1, <2>2, EmitTypes
<1>6. CASE \E m, n \in Names \ locked :
             RenameFile(m, n, DisturbsNames(m, n)) /\ Emit(<<Event("Name", m), Event("Name", n)>>)
             /\ UNCHANGED locked
  <2>1. PICK m, n \in Names \ locked :
          RenameFile(m, n, DisturbsNames(m, n)) /\ Emit(<<Event("Name", m), Event("Name", n)>>)
    BY <1>6
  <2>2. \A p \in Names : p # n /\ p # m => entry'[p] = entry[p]
    BY <1>1, <2>1 DEF RenameFile
  <2>3. FileChange
    BY <2>1 DEF FileChange
  <2>4. <<Event("Name", m), Event("Name", n)>> \in Seq(WindowsEvent)
    BY EventTypes
  <2>5. QueueOK'
    BY <2>1, <2>4, EmitTypes
  <2> QED
    BY <1>2, <1>6, <2>1, <2>2, <2>3, <2>5
<1>7. CASE \E n \in Names : TruncateFile(n) /\ Emit(<<Event("Write", n)>>) /\ UNCHANGED locked
  <2>1. PICK n \in Names : TruncateFile(n) /\ Emit(<<Event("Write", n)>>)
    BY <1>7
  <2>2. FileChange /\ entry' = entry
    BY <2>1 DEF FileChange, TruncateFile
  <2> QED
    BY <1>2, <1>3, <1>7, <2>1, <2>2, EmitTypes
<1>8. CASE \E d \in Dirs :
             RemoveDir(d) /\ Emit(<<[op |-> "Name", dir |-> d, name |-> NoName]>>) /\ UNCHANGED locked
  <2>1. PICK d \in Dirs : RemoveDir(d) /\ Emit(<<[op |-> "Name", dir |-> d, name |-> NoName]>>)
    BY <1>8
  <2>2. FileChange /\ entry' = entry
    BY <2>1 DEF FileChange, RemoveDir
  <2>3. <<[op |-> "Name", dir |-> d, name |-> NoName]>> \in Seq(WindowsEvent)
    BY EventTypes
  <2>4. QueueOK'
    BY <2>1, <2>3, EmitTypes
  <2> QED
    BY <1>2, <1>8, <2>2, <2>4
<1>9. CASE \E n \in Names : LockFile(n) \/ UnlockFile(n)
  <2>1. UNCHANGED <<events, overflow>>
    BY <1>9 DEF LockFile, UnlockFile
  <2> QED
    BY <1>2, <1>9, <2>1 DEF QueueOK
<1> QED
  BY <1>4, <1>5, <1>6, <1>7, <1>8, <1>9 DEF Programs

\* What happened to a file is not forgotten.
LEMMA PastKept ==
  ASSUME FileSystemOK, FileChange \/ \E n \in Names : LockFile(n) \/ UnlockFile(n)
  PROVE  /\ \A i \in Inodes : history[i] \subseteq history'[i]
         /\ \A i : Followed(i)' => Followed(i)
<1>1. history \in [Inodes -> SUBSET Past] /\ entry \in [Names -> Inodes \cup {None}]
  BY DEF FileSystemOK
<1>2. CASE history' = history
  BY <1>2 DEF Followed
<1>3. ASSUME NEW n \in Names, NEW s, history' = [history EXCEPT ![entry[n]] = @ \cup s]
      PROVE  \A i \in Inodes : history[i] \subseteq history'[i]
  BY <1>1, <1>3
<1>4. ASSUME NEW m \in Names, NEW n \in Names, RenameFile(m, n, DisturbsNames(m, n))
      PROVE  \A i \in Inodes : history[i] \subseteq history'[i]
  BY <1>1, <1>4, DisturbsNamesPast DEF RenameFile
<1>5. ASSUME NEW n \in Names, TruncateFile(n) \/ LockFile(n)
      PROVE  \A i \in Inodes : history[i] \subseteq history'[i]
  BY <1>3, <1>5 DEF TruncateFile, LockFile
<1>6. \A i \in Inodes : history[i] \subseteq history'[i]
  BY <1>2, <1>4, <1>5 DEF FileChange, CreateFile, DeleteFile, AppendPiece, RemoveDir, UnlockFile, fsVars
<1> QED
  BY <1>6 DEF Followed

\* The file is appended to, not truncated, and nothing else about it changes.
LEMMA LocksDeliver ==
  ASSUME FileInv, DeliveryInv, FileSystemOK', UNCHANGED <<tailerVars, done>>,
         \E n \in Names : LockFile(n) \/ UnlockFile(n)
  PROVE  FileInv' /\ DeliveryInv'
<1>1. history \in [Inodes -> SUBSET Past] /\ entry \in [Names -> Inodes \cup {None}]
  BY DEF FileInv, Types, FileSystemOK
<1>2. Types'
  BY DEF FileInv, Types, FilesOK, ControlOK, tailerVars, mapVars, syncVars, readVars
<1>3. FileInv'
  BY <1>2, TailerUnchanged
<1>4. UNCHANGED <<entry, fresh, content>>
  BY DEF LockFile, UnlockFile, fsVars
<1>5. ASSUME NEW i \in Inodes, Followed(i)' PROVE history'[i] = history[i]
  <2>1. CASE history' = history
    BY <2>1
  <2>2. ASSUME NEW n \in Names, LockFile(n) PROVE history'[i] = history[i]
    <3>1. /\ entry[n] \in Inodes
          /\ history' = [history EXCEPT ![entry[n]] = @ \cup {"locked"}]
      BY <1>1, <2>2 DEF LockFile
    <3>2. "locked" \notin history'[i]
      BY <1>5 DEF Followed
    <3> QED
      BY <1>1, <3>1, <3>2
  <2> QED
    BY <2>1, <2>2 DEF UnlockFile, fsVars
<1>6. \A i \in Inodes : Len(content[i]) \in Nat
  BY DEF FileInv, Types, FileSystemOK
<1>7. \A i \in Inodes : Len(content[i]) <= Len(content'[i])
  BY <1>4, <1>6
<1>8. DeliveryInv'
  BY <1>3, <1>4, <1>5, <1>7, SamePathsDeliver
<1> QED
  BY <1>3, <1>8

\* A step that keeps the files and the listing, and loses no file that was seen.
LEMMA CompareKept ==
  ASSUME FileInv, StillToCompare, SameFiles, UNCHANGED <<entry, history, watched, dir, listing>>,
         Syncing => HandlesIn(after) \cup {cur} \subseteq HandlesIn(after') \cup {cur', None}
  PROVE  StillToCompare'
<1>1. /\ (\A j : Readers(j)' = Readers(j)) /\ Syncing' = Syncing
      /\ HandlesIn(after)' = HandlesIn(after') /\ HandlesIn(watched)' = HandlesIn(watched)
      /\ \A j : Followed(j)' <=> Followed(j)
  BY SameReaders DEF Syncing, HandlesIn, Followed
<1>2. None \notin HandlesIn(watched)
  BY DEF HandlesIn
<1> QED
  BY <1>1, <1>2 DEF StillToCompare

\* Between two operations nothing is compared.
LEMMA IdleCompares ==
  ASSUME FileInv, pc \in {"loop", "files"}, UNCHANGED <<dir, listing>>
  PROVE  StillToCompare'
<1>1. ~Syncing /\ listing = {}
  BY DEF FileInv, Position
<1> QED
  BY <1>1 DEF StillToCompare, Syncing

\* A rename that does not disturb the sync leaves it every watched file to compare,
\* and brings none that it opened to a path still to be compared, and none with a
\* reader to the one that is opened next.
LEMMA RenameCompares ==
  ASSUME FileInv, DeliveryInv, Between, StillToCompare, UNCHANGED tailerVars,
         NEW m \in Names, NEW n \in Names, RenameFile(m, n, DisturbsNames(m, n))
  PROVE  /\ StillToCompare'
         /\ \A j \in Inodes : Followed(j)' /\ Readers(j) # {} /\ pc = "open" =>
              (entry'[opening] = j => entry[opening] = j)
<1> PICK marks \in SUBSET Past : marks = DisturbsNames(m, n)
  BY DisturbsNamesPast
<1> USE DEF tailerVars, mapVars, syncVars, readVars
<1>0. entry \in [Names -> Inodes \cup {None}] /\ RenameFile(m, n, marks)
  BY DEF FileInv, Types, FileSystemOK
<1> PICK i \in Inodes : i = entry[m]
  BY <1>0 DEF RenameFile
<1>1. /\ \A p \in Names : entry'[p] = IF p = n THEN i ELSE IF p = m THEN None ELSE entry[p]
      /\ \A j \in Inodes : j # i => history'[j] = history[j]
      /\ m # n /\ i # None
  <2>1. history \in [Inodes -> SUBSET Past]
    BY DEF FileInv, Types, FileSystemOK
  <2> QED
    BY <1>0, <2>1, Distinct DEF RenameFile
<1>2. \A j \in Inodes : Followed(j)' => Followed(j)
  BY <1>0, <1>1, FollowedRenamed DEF Followed
<1>3. ASSUME Followed(i)'
      PROVE  marks \cap {"raced", "swapped"} = {} /\ ("left" \in history[i] => n \notin Matching)
  BY <1>0, <1>3, FollowedRenamed
<1>4. ASSUME Followed(i)', Readers(i) # {}
      PROVE  /\ \A k \in Inodes : <<m, k>> \in listing => n \notin Matching \/ \E l \in Inodes : <<n, l>> \in listing
             /\ \A k \in Inodes : <<n, k>> \in listing =>
                  Readers(i) \subseteq HandlesIn(watched) /\ ~(pc = "open" /\ n = opening)
  <2>1. Readers(i) = {h \in Handles : handle[h].open /\ handle[h].inode = entry[m]}
    BY DEF Readers, OpenHandles
  <2>2. listing \subseteq Names \X Inodes
    BY DEF FileInv, Types, FilesOK
  <2>3. \A q \in Names : q \in {e[1] : e \in listing} <=> \E k \in Inodes : <<q, k>> \in listing
    <3>1. ASSUME NEW q \in Names, NEW k \in Inodes, <<q, k>> \in listing PROVE q \in {e[1] : e \in listing}
      <4>1. <<q, k>>[1] = q
        OBVIOUS
      <4> QED
        BY <3>1, <4>1
    <3>2. ASSUME NEW e \in listing PROVE \E k \in Inodes : <<e[1], k>> \in listing
      BY <2>2
    <3> QED
      BY <3>1, <3>2
  <2>4. "raced" \notin DisturbsNames(m, n) /\ "swapped" \notin DisturbsNames(m, n)
    BY <1>3, <1>4
  <2>5. ~(m \in {e[1] : e \in listing} /\ n \in Matching \ {e[1] : e \in listing})
    BY <1>4, <2>1, <2>4 DEF DisturbsNames
  <2>6. ~(/\ n \in {e[1] : e \in listing}
          /\ (pc = "open" /\ n = opening) \/ ~(Readers(i) \subseteq HandlesIn(watched)))
    BY <1>4, <2>1, <2>4 DEF DisturbsNames
  <2> QED
    BY <2>3, <2>5, <2>6
<1>5. \A p \in Names : entry[p] = i <=> p = m
  BY <1>1 DEF DeliveryInv, Known, Paths
<1>6. \A p \in Names, j \in Inodes : j # i /\ entry'[p] = j => entry[p] = j
  BY <1>1, Distinct
<1>7. \A p \in Names : entry'[p] = i => p = n
  BY <1>1, <1>5, Distinct
<1>8. (\A j : Readers(j)' = Readers(j)) /\ Syncing' = Syncing
      /\ HandlesIn(watched)' = HandlesIn(watched) /\ HandlesIn(after)' = HandlesIn(after)
  BY DEF OpenHandles, Readers, Syncing, HandlesIn
<1>9. ASSUME NEW q \in Names, NEW k \in Inodes, <<q, k>> \in listing, NEW j \in Inodes, Followed(j)', entry'[q] = j
      PROVE  Readers(j) \subseteq HandlesIn(watched)
  <2>1. CASE j = i
    BY <1>4, <1>7, <1>9, <2>1
  <2>2. CASE j # i
    BY <1>2, <1>6, <1>9, <2>2 DEF StillToCompare
  <2> QED
    BY <2>1, <2>2
<1>10. ASSUME Syncing, NEW j \in Inodes, Followed(j)', NEW h \in Readers(j), h \in HandlesIn(watched)
       PROVE  \/ h \in HandlesIn(after) \cup {cur}
              \/ \E p \in Names, k \in Inodes : <<p, k>> \in listing /\ entry'[p] = j
              \/ \A p \in Matching : entry'[p] # j
  <2>1. Matching \subseteq Names /\ Followed(j)
    BY <1>2, <1>10, ConstantsAssumption
  <2>2. ASSUME NEW p \in Names, NEW k \in Inodes, <<p, k>> \in listing, entry[p] = j
        PROVE  \/ \E q \in Names, l \in Inodes : <<q, l>> \in listing /\ entry'[q] = j
               \/ \A q \in Matching : entry'[q] # j
    <3>1. CASE j = i
      <4>1. (\E l \in Inodes : <<n, l>> \in listing) \/ n \notin Matching
        BY <1>4, <1>5, <1>10, <2>2, <3>1
      <4> QED
        BY <1>1, <1>7, <2>1, <3>1, <4>1
    <3>2. CASE j # i
      <4>1. \A q \in Names : entry'[q] = j => q = p
        BY <1>6, <2>2, <3>2, Distinct DEF DeliveryInv, Known, Paths
      <4> QED
        BY <2>1, <2>2, <4>1
    <3> QED
      BY <3>1, <3>2
  <2>3. CASE \A p \in Matching : entry[p] # j
    <3>1. CASE j = i
      <4>1. m \notin Matching
        BY <1>5, <2>3, <3>1
      <4>2. "left" \in history[i]
        BY <1>5, <1>10, <2>1, <3>1, <4>1 DEF DeliveryInv, Known, OneReader
      <4> QED
        BY <1>3, <1>7, <1>10, <2>1, <3>1, <4>2
    <3>2. CASE j # i
      BY <1>6, <2>1, <2>3, <3>2
    <3> QED
      BY <3>1, <3>2
  <2> QED
    BY <1>10, <2>1, <2>2, <2>3 DEF StillToCompare
<1>11. ASSUME NEW j \in Inodes, Followed(j)', Readers(j) # {}, pc = "open", entry'[opening] = j
       PROVE  entry[opening] = j
  <2>1. opening \in Names /\ \E k \in Inodes : <<opening, k>> \in listing
    BY <1>11 DEF Between
  <2>2. j # i
    BY <1>4, <1>7, <1>11, <2>1
  <2> QED
    BY <1>6, <1>11, <2>1, <2>2
<1>12. StillToCompare'
  BY <1>8, <1>9, <1>10 DEF StillToCompare
<1> QED
  BY <1>11, <1>12

\* No other step of another program brings a path a file that has a reader.
LEMMA OthersCompare ==
  ASSUME FileInv, DeliveryInv, Between, StillToCompare, FileSystemOK',
         UNCHANGED <<tailerVars, done, opening>>,
         FileChange \/ \E n \in Names : LockFile(n) \/ UnlockFile(n)
  PROVE  Between' /\ StillToCompare'
<1>1. UNCHANGED <<pc, cur, handle, listing, dir>> /\ (\A j : Readers(j)' = Readers(j)) /\ Syncing' = Syncing
      /\ HandlesIn(watched)' = HandlesIn(watched) /\ HandlesIn(after)' = HandlesIn(after)
  BY DEF tailerVars, mapVars, syncVars, readVars, Syncing, Readers, OpenHandles, HandlesIn
<1>2. FileSystemOK /\ \A j : Followed(j)' => Followed(j)
  BY PastKept DEF FileInv, Types
<1>3. ASSUME NEW j \in Inodes, Followed(j)', Readers(j) # {}, pc = "open", entry[opening] = j
      PROVE  FALSE
  BY <1>2, <1>3 DEF Between
<1>4. CASE \E m, n \in Names : RenameFile(m, n, DisturbsNames(m, n))
  <2>1. PICK m \in Names, n \in Names : RenameFile(m, n, DisturbsNames(m, n))
    BY <1>4
  <2>2. StillToCompare' /\ \A j \in Inodes : Followed(j)' /\ Readers(j) # {} /\ pc = "open" =>
          (entry'[opening] = j => entry[opening] = j)
    BY <2>1, RenameCompares
  <2>3. Between'
    BY <1>1, <1>2, <1>3, <2>2 DEF Between
  <2> QED
    BY <2>2, <2>3
<1>5. ASSUME \A j \in Inodes : Followed(j)' /\ Readers(j) # {} =>
               \A n \in Names : entry'[n] = j => entry[n] = j
      PROVE  Between' /\ StillToCompare'
  <2>1. Between'
    BY <1>1, <1>2, <1>3, <1>5 DEF Between
  <2>2. ASSUME Syncing, NEW j \in Inodes, Followed(j)', NEW h \in Readers(j), h \in HandlesIn(watched)
        PROVE  \/ h \in HandlesIn(after) \cup {cur}
               \/ \E p \in Names, k \in Inodes : <<p, k>> \in listing /\ entry'[p] = j
               \/ \A p \in Matching : entry'[p] # j
    <3>1. Matching \subseteq Names /\ j # None /\ \A p \in Names : entry'[p] = j => entry[p] = j
      BY <1>5, <2>2, ConstantsAssumption, Distinct
    <3>2. ASSUME NEW p \in Names, entry[p] = j, entry'[p] # j PROVE \A q \in Matching : entry'[q] # j
      BY <3>1, <3>2 DEF DeliveryInv, Known, Paths
    <3> QED
      BY <1>2, <2>2, <3>1, <3>2 DEF StillToCompare
  <2>3. ASSUME NEW n \in Names, NEW k \in Inodes, <<n, k>> \in listing, NEW j \in Inodes, Followed(j)', entry'[n] = j
        PROVE  Readers(j) \subseteq HandlesIn(watched)
    BY <1>2, <1>5, <2>3 DEF StillToCompare
  <2>4. StillToCompare'
    BY <1>1, <2>2, <2>3 DEF StillToCompare
  <2> QED
    BY <2>1, <2>4
<1>6. CASE \/ \E n \in Names : CreateFile(n) \/ DeleteFile(n) \/ TruncateFile(n)
           \/ \E n \in Names, endsLine \in BOOLEAN : AppendPiece(n, endsLine)
           \/ \E d \in Dirs : RemoveDir(d)
  BY <1>5, <1>6, OthersMoveNothing DEF DeliveryInv
<1>7. CASE \E n \in Names : LockFile(n) \/ UnlockFile(n)
  <2>1. entry' = entry
    BY <1>7 DEF LockFile, UnlockFile, fsVars
  <2> QED
    BY <1>5, <2>1
<1> QED
  BY <1>4, <1>6, <1>7 DEF FileChange

\* An entry was compared, and opened if new.  What is left to show is that the file
\* at its path is kept if it is followed, and that no other got a reader.
LEMMA EntryCompared ==
  ASSUME FileInv, DeliveryInv, StillToCompare, SyncFrame, NEW n \in Names, NEW i \in Inodes,
         <<n, i>> \in listing, listing' = listing \ {<<n, i>>}, cur = None,
         HandlesIn(after) \subseteq HandlesIn(after'), NEW j \in Inodes, entry[n] = j,
         \A k \in Inodes : Readers(k)' = Readers(k) \/ k = j,
         \A k : Readers(k)' \cap HandlesIn(watched) \subseteq Readers(k),
         Followed(j) => Readers(j)' \cap HandlesIn(watched) \subseteq HandlesIn(after') \cup {cur'}
  PROVE  StillToCompare'
<1> USE DEF SyncFrame, fsVars
<1>1. /\ Syncing' = Syncing /\ HandlesIn(watched)' = HandlesIn(watched)
      /\ HandlesIn(after)' = HandlesIn(after') /\ \A k : Followed(k)' <=> Followed(k)
  BY DEF Syncing, HandlesIn, Followed
<1>2. None \notin HandlesIn(watched)
  BY DEF HandlesIn
<1>3. \A p \in Names, k \in Inodes : <<p, k>> \in listing' => <<p, k>> \in listing /\ p # n
  BY DEF FileInv, OnePlace
<1>4. \A p \in Names, k \in Inodes : <<p, k>> \in listing => <<p, k>> \in listing' \/ p = n
  OBVIOUS
<1>5. ASSUME NEW p \in Names, NEW k \in Inodes, <<p, k>> \in listing', NEW l \in Inodes, Followed(l), entry[p] = l
      PROVE  Readers(l)' \subseteq HandlesIn(watched)
  <2>1. l # j
    BY <1>3, <1>5, Distinct DEF DeliveryInv, Known, Paths
  <2> QED
    BY <1>3, <1>5, <2>1 DEF StillToCompare
<1>6. ASSUME Syncing, NEW l \in Inodes, Followed(l), NEW h \in Readers(l)', h \in HandlesIn(watched)
      PROVE  \/ h \in HandlesIn(after') \cup {cur'}
             \/ \E p \in Names, k \in Inodes : <<p, k>> \in listing' /\ entry[p] = l
             \/ \A p \in Matching : entry[p] # l
  <2>1. CASE l = j
    BY <1>6, <2>1
  <2>2. CASE l # j
    <3>1. h \in Readers(l)
      BY <1>6
    <3> QED
      BY <1>2, <1>4, <1>6, <2>2, <3>1 DEF StillToCompare
  <2> QED
    BY <2>1, <2>2
<1> QED
  BY <1>1, <1>5, <1>6 DEF StillToCompare

\* The path is nobody's.
LEMMA NoneCompared ==
  ASSUME FileInv, StillToCompare, SyncFrame, NEW n \in Names, NEW i \in Inodes,
         listing' = listing \ {<<n, i>>}, UNCHANGED <<after, cur>>,
         \A k : Readers(k)' = Readers(k), \A k \in Inodes : entry[n] # k
  PROVE  StillToCompare'
<1> USE DEF SyncFrame, fsVars
<1>1. /\ Syncing' = Syncing /\ HandlesIn(watched)' = HandlesIn(watched)
      /\ HandlesIn(after)' = HandlesIn(after) /\ \A k : Followed(k)' <=> Followed(k)
  BY DEF Syncing, HandlesIn, Followed
<1>2. \A p \in Names, k \in Inodes : <<p, k>> \in listing => <<p, k>> \in listing' \/ p = n
  OBVIOUS
<1>3. listing' \subseteq listing /\ entry' = entry
  OBVIOUS
<1> QED
  BY <1>1, <1>2, <1>3 DEF StillToCompare

LEMMA ReadNewLinesCompares ==
  ASSUME FileInv, DeliveryInv, StillToCompare, ReadNewLines
  PROVE  DeliveryInv' /\ StillToCompare'
<1>1. UNCHANGED <<entry, history, watched, dir, listing>>
  BY DEF ReadNewLines, ReadBuffered, ReadChunk, ReadEOF, SendLine, SendAborted, fsVars, mapVars, syncVars
<1>2. SameFiles /\ (Syncing => HandlesIn(after) \cup {cur} \subseteq HandlesIn(after') \cup {cur', None})
  BY ReadKeepsSeen
<1> QED
  BY <1>1, <1>2, CompareKept, ReadNewLinesDelivers

LEMMA FinishSyncCompares ==
  ASSUME FileInv, DeliveryInv, StillToCompare, FinishSync
  PROVE  DeliveryInv' /\ StillToCompare'
<1>1. Syncing /\ cur = None /\ listing = {} /\ ~Syncing' /\ listing' = {}
  BY DEF FileInv, Position, FinishSync, Syncing
<1>2. \A i \in Inodes : Followed(i) => \A h \in Readers(i) : h \in HandlesIn(watched) =>
        h \in HandlesIn(after) \/ \A n \in Matching : entry[n] # i
  <2>1. None \notin HandlesIn(watched)
    BY DEF HandlesIn
  <2> QED
    BY <1>1, <2>1 DEF StillToCompare
<1> QED
  BY <1>1, <1>2, FinishSyncDelivers DEF StillToCompare

LEMMA ProgramsKeep == ASSUME WindowsInv, Programs PROVE WindowsInv'
<1>1. /\ FileSystemOK /\ QueueOK /\ LockedExist /\ locked \subseteq Names
      /\ entry \in [Names -> Inodes \cup {None}] /\ history \in [Inodes -> SUBSET Past]
  BY DEF WindowsInv, LockedExist, FileSystemOK
<1>2. /\ QueueOK' /\ UNCHANGED <<tailerVars, done, opening>>
      /\ \/ FileChange /\ UNCHANGED locked /\ \A n \in locked : entry'[n] = entry[n]
         \/ \E n \in Names : LockFile(n) \/ UnlockFile(n)
  BY <1>1, ProgramsAre
<1>3. UNCHANGED <<pc, watchedDirs, delivered, done, Running>>
  BY <1>2 DEF tailerVars, mapVars, readVars, Running
<1>4. /\ \A i \in Inodes : history[i] \subseteq history'[i]
      /\ \A i : Followed(i)' => Followed(i)
  BY <1>1, <1>2, PastKept
<1>5. FileSystemOK'
  <2>1. CASE FileChange
    BY <1>1, <2>1, FileSystemTypes, DisturbsNamesPast DEF FileChange
  <2>2. CASE \E n \in Names : LockFile(n) \/ UnlockFile(n)
    <3>1. PICK n \in Names : LockFile(n) \/ UnlockFile(n)
      BY <2>2
    <3>2. ops' \in 0 .. MaxOps
      BY <1>1, <3>1, OperationCounts DEF LockFile, UnlockFile, fsVars, FileSystemOK
    <3>3. history' \in [Inodes -> SUBSET Past]
      BY <1>1, <3>1 DEF LockFile, UnlockFile, fsVars, Past
    <3> QED
      BY <1>1, <3>1, <3>2, <3>3 DEF LockFile, UnlockFile, fsVars, FileSystemOK
  <2> QED
    BY <1>2, <2>1, <2>2
<1>6. LockedExist'
  <2>1. CASE FileChange /\ UNCHANGED locked /\ \A n \in locked : entry'[n] = entry[n]
    BY <1>1, <1>4, <2>1 DEF LockedExist
  <2>2. ASSUME NEW n \in Names, LockFile(n) PROVE LockedExist'
    <3>1. /\ entry[n] \in Inodes /\ entry' = entry /\ locked' = locked \cup {n}
          /\ "locked" \in history'[entry[n]]
      BY <1>1, <2>2 DEF LockFile
    <3> QED
      BY <1>1, <1>4, <2>2, <3>1 DEF LockedExist, LockFile
  <2>3. ASSUME NEW n \in Names, UnlockFile(n) PROVE LockedExist'
    BY <1>1, <2>3 DEF LockedExist, UnlockFile, fsVars
  <2> QED
    BY <1>2, <2>1, <2>2, <2>3
<1>7. Served'
  BY <1>3, <1>4 DEF WindowsInv, Served, Unbroken
<1>8. ASSUME Running' PROVE FileInv' /\ DeliveryInv' /\ Between' /\ StillToCompare'
  <2>1. FileInv /\ DeliveryInv /\ Between /\ StillToCompare
    BY <1>3, <1>8 DEF WindowsInv
  <2>2. UNCHANGED <<tailerVars, done, opening>> /\ UNCHANGED <<tailerVars, done>>
    BY <1>2
  <2>3. Between' /\ StillToCompare'
    BY <1>2, <1>5, <2>1, <2>2, OthersCompare
  <2>4. CASE FileChange
    <3>1. FileInv'
      BY <2>1, <2>2, <2>4, FileSystemStep, DisturbsNamesPast DEF FileChange
    <3>2. DeliveryInv'
      BY <2>1, <2>2, <2>4, FileSystemDelivers, DisturbsNamesPast DEF FileChange
    <3> QED
      BY <2>3, <3>1, <3>2
  <2>5. CASE \E n \in Names : LockFile(n) \/ UnlockFile(n)
    BY <1>5, <2>1, <2>2, <2>3, <2>5, LocksDeliver
  <2> QED
    BY <1>2, <2>4, <2>5
<1> QED
  BY <1>2, <1>3, <1>5, <1>6, <1>7, <1>8 DEF WindowsInv

-----------------------------------------------------------------------------
(* The goroutine.                                                           *)

\* What is left to show of a step of the tailer: that its files are in order if it
\* goes on, and that it delivers nothing if it fails.
LEMMA TailerKeeps ==
  ASSUME WindowsInv, UNCHANGED <<fsVars, locked, watchedDirs, done>>, QueueOK',
         \/ Running' /\ FileInv' /\ DeliveryInv' /\ Between' /\ StillToCompare'
         \/ ~Running' /\ delivered' = delivered
  PROVE  WindowsInv'
<1>1. FileSystemOK' /\ LockedExist'
  BY DEF WindowsInv, FileSystemOK, LockedExist, fsVars
<1>2. Served'
  <2>1. CASE DeliveryInv'
    BY <2>1 DEF DeliveryInv, Runs, Served
  <2>2. CASE delivered' = delivered
    BY <2>2 DEF WindowsInv, Served, Followed, Unbroken, fsVars
  <2> QED
    BY <2>1, <2>2
<1> QED
  BY <1>1, <1>2 DEF WindowsInv

LEMMA QueueKept == ASSUME WindowsInv, UNCHANGED <<events, overflow>> PROVE QueueOK'
<1>1. overflow' \in BOOLEAN
  BY Zenon DEF WindowsInv, QueueOK
<1> QED
  BY <1>1 DEF WindowsInv, QueueOK

\* The steps that are those of every watcher.
LEMMA SharedSteps ==
  ASSUME WindowsInv, ReadNewLines \/ ListFails \/ FinishSync \/ Shutdown, UNCHANGED windowsVars
  PROVE  WindowsInv'
<1>1. UNCHANGED <<fsVars, watchedDirs, done>> /\ UNCHANGED windowsVars
  BY DEF ReadNewLines, ReadBuffered, ReadChunk, ReadEOF, SendLine, SendAborted, ListFails, FinishSync,
     Shutdown, mapVars
<1>2. QueueOK' /\ UNCHANGED locked
  BY <1>1, QueueKept DEF windowsVars
<1>3. CASE ListFails \/ Shutdown
  <2>1. ~Running' /\ delivered' = delivered
    BY <1>3 DEF ListFails, Shutdown, Running, readVars
  <2> QED
    BY <1>1, <1>2, <2>1, TailerKeeps
<1>4. CASE ReadNewLines \/ FinishSync
  <2>1. Running /\ Goroutine
    BY <1>4 DEF ReadNewLines, ReadBuffered, ReadChunk, ReadEOF, SendLine, SendAborted, FinishSync,
       Running, Goroutine
  <2>2. FileInv' /\ DeliveryInv' /\ StillToCompare'
    BY <1>4, <2>1, GoroutineStep, ReadNewLinesCompares, FinishSyncCompares DEF WindowsInv
  <2>3. pc' \in {"read", "send", "entries", "files", "loop", "sync"}
    BY <1>4 DEF ReadNewLines, ReadBuffered, ReadChunk, ReadEOF, SendLine, SendAborted, FinishSync,
       ReadOn, ReturnToCaller
  <2> QED
    BY <1>1, <1>2, <2>2, <2>3, TailerKeeps DEF Between, Running
<1> QED
  BY <1>1, <1>3, <1>4

LEMMA ListDirLists ==
  ASSUME FileInv, ListDir
  PROVE  Listed /\ pc = "sync" /\ dirsLeft # <<>> /\ pc' = "entries"
<1>1. pc = "sync" /\ toStat = {}
  BY DEF ListDir, FileInv, Position
<1>2. toStat' = {} /\ listing' = {<<n, entry[n]>> : n \in Existing \cap NamesIn(dir') \cap Matching}
  BY <1>1 DEF ListDir
<1> QED
  BY <1>2 DEF ListDir, Listed

LEMMA ListDirCompares == ASSUME FileInv, DeliveryInv, ListDir PROVE StillToCompare'
<1>1. Listed /\ pc = "sync" /\ dirsLeft # <<>> /\ toStat' = {}
  BY ListDirLists DEF ListDir, FileInv, Position
<1>2. StillToSee'
  BY <1>1, ListedSees
<1>3. UNCHANGED <<entry, history, handle, watched>>
  BY DEF ListDir, fsVars, mapVars
<1>4. \A n \in Names, i \in Inodes : <<n, i>> \in listing' => entry[n] = i
  BY <1>1, ListedEntries DEF FileInv, Types, FileSystemOK
<1>5. OpenHandles = HandlesIn(watched)
  BY <1>1, NothingHeld, Distinct DEF FileInv, Position, Custody
<1>6. OpenHandles' = HandlesIn(watched)' /\ \A i : Readers(i)' \subseteq OpenHandles'
  BY <1>3, <1>5 DEF OpenHandles, HandlesIn, Readers
<1> QED
  BY <1>1, <1>2, <1>3, <1>4, <1>6 DEF StillToSee, StillToCompare

LEMMA ListDirKeeps == ASSUME WindowsInv, ListDir PROVE WindowsInv'
<1>1. FileInv /\ DeliveryInv
  BY DEF WindowsInv, ListDir, Running
<1>2. Listed /\ pc = "sync" /\ dirsLeft # <<>> /\ pc' = "entries"
  BY <1>1, ListDirLists
<1>3. FileInv' /\ DeliveryInv'
  BY <1>1, <1>2, ListedStep, ListedDelivers
<1>5. StillToCompare'
  BY <1>1, ListDirCompares
<1>4. QueueOK' /\ UNCHANGED <<fsVars, locked, watchedDirs, done>>
  BY QueueKept DEF ListDir, windowsVars, mapVars
<1> QED
  BY <1>2, <1>3, <1>4, <1>5, TailerKeeps DEF Between, Running

\* The file that an entry's path has, when no watched file is the same, has no reader.
LEMMA OpenToCompareKeeps ==
  ASSUME FileInv, DeliveryInv, StillToCompare, pc = "entries", SyncFrame,
         NEW n \in Names, NEW i \in Inodes, <<n, i>> \in listing,
         OpenToCompare(n), listing' = listing
  PROVE  FileInv' /\ DeliveryInv' /\ Between' /\ StillToCompare'
<1>1. /\ pc' = "open" /\ opening' = n /\ UNCHANGED <<handle, after, cur, failure, listing>>
      /\ UNCHANGED <<fsVars, watched, watchedDirs, task, dirsLeft, dir, toStat, filesLeft, line, delivered, done>>
  BY DEF OpenToCompare, SyncFrame
<1>2. Syncing /\ cur = None /\ filesLeft = {} /\ toStat = {}
  BY DEF FileInv, Position, FilesLeft
<1>3. FileInv'
  <2>1. Types'
    BY <1>1 DEF FileInv, Types, FileSystemOK, FilesOK, ControlOK, fsVars
  <2>2. Position' /\ FilesLeft'
    BY <1>1, <1>2 DEF FileInv, Position, FilesLeft, Syncing
  <2>3. OnePlace' /\ Custody'
    BY <1>1, <1>2 DEF FileInv, OnePlace, Custody, Syncing, OpenHandles, HandlesIn
  <2> QED
    BY <2>1, <2>2, <2>3 DEF FileInv
<1>4. SameFiles /\ \A j : Readers(j)' = Readers(j)
  BY <1>1 DEF SameFiles, Readers, OpenHandles
<1>5. DeliveryInv'
  <2>1. Known'
    BY <1>1, <1>4, KnownKept DEF DeliveryInv
  <2>2. Runs'
    BY <1>1, <1>4, NotReading DEF DeliveryInv
  <2> QED
    BY <2>1, <2>2 DEF DeliveryInv
<1>6. ASSUME NEW j \in Inodes, Followed(j), entry[n] = j PROVE Readers(j) = {}
  <2>1. SameFile(j) = {}
    BY <1>6, Distinct DEF OpenToCompare
  <2>2. Readers(j) \subseteq HandlesIn(watched)
    BY <1>6 DEF StillToCompare
  <2>3. Readers(j) \subseteq SameFile(j)
    BY <2>2 DEF SameFile, Readers
  <2> QED
    BY <2>1, <2>3
<1>7. Between'
  BY <1>1, <1>4, <1>6 DEF Between, Followed, fsVars
<1>8. StillToCompare'
  BY <1>1, <1>4, CompareKept DEF fsVars
<1> QED
  BY <1>3, <1>5, <1>7, <1>8

\* The entry's path has a watched file, the listed one or one that was renamed since.
LEMMA FoundSameIs ==
  ASSUME FileInv, NEW n \in Names, FoundSame(n)
  PROVE  \E j \in Inodes, h \in Handles :
           /\ entry[n] = j /\ handle[h].inode = j /\ h \in HandlesIn(watched) /\ h \in OpenHandles
           /\ \/ handle[h].name = n /\ after' = [after EXCEPT ![n] = h] /\ UNCHANGED <<handle, pc, cur>>
              \/ /\ handle[h].name # n /\ handle' = [handle EXCEPT ![h].name = n] /\ cur' = h /\ pc' = "read"
                 /\ after' = after
<1>1. entry[n] \in Inodes
  BY DEF FoundSame, FileInv, Types, FileSystemOK
<1>2. PICK h \in SameFile(entry[n]) :
        IF handle[h].name = n
          THEN after' = [after EXCEPT ![n] = h] /\ UNCHANGED <<handle, cur, pc>>
          ELSE /\ handle' = [handle EXCEPT ![h].name = n]
               /\ cur' = h /\ pc' = "read"
               /\ UNCHANGED after
  BY DEF FoundSame
<1>3. h \in HandlesIn(watched) /\ handle[h].inode = entry[n] /\ h \in OpenHandles /\ h \in Handles
  BY <1>2 DEF SameFile, FileInv, Custody, OpenHandles
<1> QED
  BY <1>1, <1>2, <1>3

LEMMA FoundSameKeeps ==
  ASSUME FileInv, DeliveryInv, StillToCompare, pc = "entries", SyncFrame,
         NEW n \in Names, NEW i \in Inodes, <<n, i>> \in listing,
         FoundSame(n), listing' = listing \ {<<n, i>>}
  PROVE  FileInv' /\ DeliveryInv' /\ StillToCompare' /\ pc' \in {"entries", "read"}
<1>1. PICK j \in Inodes, h \in Handles :
           /\ entry[n] = j /\ handle[h].inode = j /\ h \in HandlesIn(watched) /\ h \in OpenHandles
           /\ \/ handle[h].name = n /\ after' = [after EXCEPT ![n] = h] /\ UNCHANGED <<handle, pc, cur>>
              \/ /\ handle[h].name # n /\ handle' = [handle EXCEPT ![h].name = n] /\ cur' = h /\ pc' = "read"
                 /\ after' = after
  BY FoundSameIs
<1>4. h \in Readers(j) /\ (Followed(j) => \A g \in Readers(j) : g = h)
  BY <1>1 DEF Readers, DeliveryInv, Known, OneReader
<1>2. CASE handle[h].name = n /\ after' = [after EXCEPT ![n] = h] /\ UNCHANGED <<handle, pc, cur>>
  <2>1. FileInv'
    BY <1>1, <1>2, KeepEntryStep
  <2>2. /\ h \in HandlesIn(watched) /\ handle[h].inode = j /\ (entry[n] = j \/ j = i)
        /\ after' = [after EXCEPT ![n] = h] /\ UNCHANGED <<handle, pc, cur>>
    BY <1>1, <1>2
  <2>3. DeliveryInv'
    BY <2>2, KeepEntryDelivers
  <2>4. HandlesIn(after') = HandlesIn(after) \cup {h}
    <3>1. after \in [Names -> Handles \cup {None}] /\ after[n] = None
      BY DEF FileInv, Types, FilesOK, OnePlace
    <3>2. HandlesIn([after EXCEPT ![n] = h]) = HandlesIn(after) \cup {h}
      BY <3>1, HoldOneMore
    <3> QED
      BY <1>2, <3>2
  <2>5. \A k : Readers(k)' = Readers(k)
    BY <1>2 DEF Readers, OpenHandles
  <2>6. StillToCompare'
    <3>1. /\ listing' = listing \ {<<n, i>>} /\ cur = None /\ HandlesIn(after) \subseteq HandlesIn(after')
          /\ entry[n] = j /\ \A k \in Inodes : Readers(k)' = Readers(k) \/ k = j
      BY <1>1, <2>4, <2>5 DEF FileInv, Position
    <3>2. /\ \A k : Readers(k)' \cap HandlesIn(watched) \subseteq Readers(k)
          /\ Followed(j) => Readers(j)' \cap HandlesIn(watched) \subseteq HandlesIn(after') \cup {cur'}
      BY <1>4, <2>4, <2>5
    <3> QED
      BY <3>1, <3>2, EntryCompared
  <2> QED
    BY <1>2, <2>1, <2>3, <2>6
<1>3. CASE /\ handle[h].name # n /\ handle' = [handle EXCEPT ![h].name = n] /\ cur' = h /\ pc' = "read"
           /\ after' = after
  <2>1. FileInv'
    BY <1>1, <1>3, RenameEntryStep
  <2>2. DeliveryInv'
    BY <1>1, <1>3, RenameEntryDelivers
  <2>3. \A k : Readers(k)' = Readers(k)
    BY <1>1, <1>3, RenamedFile
  <2>4. HandlesIn(after) \subseteq HandlesIn(after')
    BY <1>3
  <2>5. StillToCompare'
    <3>1. /\ listing' = listing \ {<<n, i>>} /\ cur = None /\ HandlesIn(after) \subseteq HandlesIn(after')
          /\ entry[n] = j /\ \A k \in Inodes : Readers(k)' = Readers(k) \/ k = j
      BY <1>1, <2>3, <2>4 DEF FileInv, Position
    <3>2. /\ \A k : Readers(k)' \cap HandlesIn(watched) \subseteq Readers(k)
          /\ Followed(j) => Readers(j)' \cap HandlesIn(watched) \subseteq HandlesIn(after') \cup {cur'}
      BY <1>3, <1>4, <2>3
    <3> QED
      BY <3>1, <3>2, EntryCompared
  <2> QED
    BY <1>3, <2>1, <2>2, <2>5
<1> QED
  BY <1>1, <1>2, <1>3

LEMMA CompareEntryKeeps == ASSUME WindowsInv, CompareEntry PROVE WindowsInv'
<1>1. FileInv /\ DeliveryInv /\ StillToCompare /\ pc = "entries"
  BY DEF WindowsInv, CompareEntry, Running
<1>2. listing \subseteq Names \X Inodes
  BY <1>1 DEF FileInv, Types, FilesOK
<1>3. UNCHANGED <<fsVars, watchedDirs, done, delivered, locked>> /\ QueueOK'
  BY QueueKept DEF CompareEntry
<1>4. PICK e \in listing :
        \/ (OpenToCompare(e[1]) \/ OpenFails(e[1])) /\ UNCHANGED listing
        \/ FoundSame(e[1]) /\ listing' = listing \ {e}
  BY DEF CompareEntry
<1>5. PICK n \in Names, i \in Inodes : e = <<n, i>>
  BY <1>2, <1>4
<1>6. <<n, i>> \in listing /\ e[1] = n
  BY <1>4, <1>5
<1>7. CASE OpenFails(n)
  BY <1>3, <1>7, TailerKeeps DEF OpenFails, Fails, Running
<1>8. ASSUME failure' = failure PROVE SyncFrame
  BY <1>8 DEF CompareEntry, SyncFrame
<1>9. CASE OpenToCompare(n) /\ UNCHANGED listing
  <2>1. SyncFrame
    BY <1>8, <1>9 DEF OpenToCompare
  <2>2. FileInv' /\ DeliveryInv' /\ Between' /\ StillToCompare'
    BY <1>1, <1>6, <1>9, <2>1, OpenToCompareKeeps
  <2> QED
    BY <1>3, <1>9, <2>2, TailerKeeps DEF OpenToCompare, Running
<1>10. CASE FoundSame(n) /\ listing' = listing \ {e}
  <2>1. SyncFrame
    BY <1>8, <1>10 DEF FoundSame
  <2>2. FileInv' /\ DeliveryInv' /\ StillToCompare' /\ pc' \in {"entries", "read"}
    BY <1>1, <1>5, <1>6, <1>10, <2>1, FoundSameKeeps
  <2> QED
    BY <1>3, <2>2, TailerKeeps DEF Between, Running
<1> QED
  BY <1>4, <1>6, <1>7, <1>9, <1>10

\* The path that is about to be opened has one entry, which goes.
LEMMA EntryOpened ==
  ASSUME FileInv, Between, pc = "open", EntryDone
  PROVE  /\ opening \in Names
         /\ \E i \in Inodes : <<opening, i>> \in listing /\ listing' = listing \ {<<opening, i>>}
<1>1. opening \in Names /\ listing \subseteq Names \X Inodes
  BY DEF Between, FileInv, Types, FilesOK
<1>2. PICK i \in Inodes : <<opening, i>> \in listing
  BY DEF Between
<1>3. \A e \in listing : e[1] = opening => e = <<opening, i>>
  <2>1. ASSUME NEW e \in listing, e[1] = opening PROVE e = <<opening, i>>
    <3>1. PICK n \in Names, j \in Inodes : e = <<n, j>>
      BY <1>1
    <3>2. n = opening /\ <<opening, j>> \in listing
      BY <2>1, <3>1
    <3>3. j = i
      BY <1>1, <1>2, <3>2 DEF FileInv, OnePlace
    <3> QED
      BY <3>1, <3>2, <3>3
  <2> QED
    BY <2>1
<1>4. listing' = listing \ {<<opening, i>>}
  BY <1>3 DEF EntryDone
<1> QED
  BY <1>1, <1>2, <1>4

LEMMA OpenFileOpens ==
  ASSUME FileInv, DeliveryInv, Between, OpenFile
  PROVE  \E n \in Names, i \in Inodes, j \in Inodes, u \in Unused :
           /\ n = opening /\ <<n, i>> \in listing /\ listing' = listing \ {<<n, i>>}
           /\ entry[n] = j /\ (Followed(j) => Readers(j) = {})
           /\ handle' = [handle EXCEPT ![u] = JustOpened(n, 0)] /\ cur' = u
           /\ pc' \in {"read", "seek"} /\ (pc' = "seek" => ~ReadAll) /\ after' = after
           /\ SyncFrame
<1>1. PICK i \in Inodes : <<opening, i>> \in listing /\ listing' = listing \ {<<opening, i>>}
  BY EntryOpened DEF OpenFile
<1>2. opening \in Names /\ entry[opening] \in Inodes
  BY EntryOpened DEF OpenFile, FileInv, Types, FileSystemOK
<1>3. Followed(entry[opening]) => Readers(entry[opening]) = {}
  BY <1>2 DEF Between, OpenFile
<1>4. PICK u \in Unused :
        /\ handle' = [handle EXCEPT ![u] =
                        [open |-> TRUE, inode |-> entry[opening], name |-> opening, pos |-> 0, buf |-> <<>>]]
        /\ cur' = u
  BY DEF OpenFile
<1>5. pc' \in {"read", "seek"} /\ (pc' = "seek" => ~ReadAll) /\ after' = after /\ SyncFrame
  BY DEF OpenFile, readall, SyncFrame
<1> QED
  BY <1>1, <1>2, <1>3, <1>4, <1>5 DEF JustOpened

LEMMA OpenFileKeeps == ASSUME WindowsInv, OpenFile PROVE WindowsInv'
<1>1. FileInv /\ DeliveryInv /\ Between /\ StillToCompare /\ pc = "open"
  BY DEF WindowsInv, OpenFile, Running
<1>2. PICK n \in Names, i \in Inodes, j \in Inodes, u \in Unused :
           /\ n = opening /\ <<n, i>> \in listing /\ listing' = listing \ {<<n, i>>}
           /\ entry[n] = j /\ (Followed(j) => Readers(j) = {})
           /\ handle' = [handle EXCEPT ![u] = JustOpened(n, 0)] /\ cur' = u
           /\ pc' \in {"read", "seek"} /\ (pc' = "seek" => ~ReadAll) /\ after' = after
           /\ SyncFrame
  BY <1>1, OpenFileOpens
<1>3. 0 \in Nat /\ 0 \in 0 .. MaxPieces /\ 0 \in 0 .. Len(content[j]) /\ entry[n] # None
  BY <1>1, <1>2, ConstantsAssumption, Distinct DEF FileInv, Types, FileSystemOK
<1>4. FileInv'
  BY <1>1, <1>2, <1>3, OpenEntryStep
<1>5. DeliveryInv'
  BY <1>1, <1>2, <1>3, <1>4, OpenEntryDelivers
<1>6. Between'
  <2>1. handle'[u] = JustOpened(n, 0)
    BY <1>1, <1>2, <1>3, OpenedFile
  <2>2. handle'[u].pos = 0 /\ handle'[u].buf = <<>>
    BY <2>1 DEF JustOpened
  <2> QED
    BY <1>2, <2>2 DEF Between
<1>7. UNCHANGED <<fsVars, watchedDirs, done, locked>> /\ QueueOK'
  BY QueueKept DEF OpenFile, windowsVars
<1>8. StillToCompare'
  <2>1. /\ u \notin HandlesIn(watched) /\ handle'[u] = JustOpened(n, 0) /\ OpenHandles' = OpenHandles \cup {u}
        /\ \A g \in Handles : g # u => handle'[g] = handle[g]
    BY <1>1, <1>2, <1>3, OpenedFile
  <2>2. handle'[u].inode = j /\ OpenHandles \subseteq Handles
    BY <1>2, <2>1 DEF JustOpened, OpenHandles
  <2>3. \A k : Readers(k)' = IF k = j THEN Readers(k) \cup {u} ELSE Readers(k)
    <3>1. \A k : Readers(k)' = {h \in OpenHandles \cup {u} : handle'[h].inode = k}
      BY <2>1 DEF Readers
    <3>2. \A h \in OpenHandles : h # u => handle'[h].inode = handle[h].inode
      BY <2>1, <2>2
    <3>3. u \notin OpenHandles
      BY <1>1, <1>2, <1>3, OpenedFile
    <3> QED
      BY <2>2, <3>1, <3>2, <3>3 DEF Readers
  <2>4. /\ listing' = listing \ {<<n, i>>} /\ cur = None /\ HandlesIn(after) \subseteq HandlesIn(after')
        /\ entry[n] = j /\ SyncFrame /\ <<n, i>> \in listing
    BY <1>1, <1>2 DEF FileInv, Position
  <2>5. /\ \A k \in Inodes : Readers(k)' = Readers(k) \/ k = j
        /\ \A k : Readers(k)' \cap HandlesIn(watched) \subseteq Readers(k)
        /\ Followed(j) => Readers(j)' \cap HandlesIn(watched) \subseteq HandlesIn(after') \cup {cur'}
    BY <1>2, <2>1, <2>3
  <2> QED
    BY <1>1, <2>4, <2>5, EntryCompared
<1> QED
  BY <1>2, <1>4, <1>5, <1>6, <1>7, <1>8, TailerKeeps DEF Running

LEMMA OpenFindsNoneKeeps == ASSUME WindowsInv, OpenFindsNone PROVE WindowsInv'
<1>1. FileInv /\ DeliveryInv /\ Between /\ StillToCompare /\ pc = "open"
  BY DEF WindowsInv, OpenFindsNone, Running
<1>2. UNCHANGED <<fsVars, watchedDirs, done, locked, delivered>> /\ QueueOK'
  BY QueueKept DEF OpenFindsNone, windowsVars, mapVars, readVars
<1>3. CASE opening \in locked
  BY <1>2, <1>3, TailerKeeps DEF OpenFindsNone, Fails, Running
<1>4. CASE opening \notin locked
  <2>1. PICK i \in Inodes : <<opening, i>> \in listing /\ listing' = listing \ {<<opening, i>>}
    BY <1>1, EntryOpened DEF OpenFindsNone
  <2>2. PICK n \in Names : n = opening
    BY <1>1 DEF Between
  <2>3. /\ pc' = "entries" /\ UNCHANGED <<handle, after, cur>> /\ SyncFrame /\ entry[n] = None
    BY <1>4, <2>2 DEF OpenFindsNone, SyncFrame, mapVars, readVars
  <2>4. <<n, i>> \in listing /\ listing' = listing \ {<<n, i>>}
    BY <2>1, <2>2
  <2>5. StillToCompare'
    <3>1. (\A k : Readers(k)' = Readers(k)) /\ after' = after /\ \A k \in Inodes : entry[n] # k
      BY <2>3, Distinct DEF Readers, OpenHandles
    <3> QED
      BY <1>1, <2>3, <2>4, <3>1, NoneCompared
  <2>6. FileInv'
    BY <1>1, <2>3, <2>4, DropEntryStep
  <2>7. DeliveryInv'
    BY <1>1, <2>3, <2>4, DropEntryDelivers
  <2> QED
    BY <1>2, <2>3, <2>5, <2>6, <2>7, TailerKeeps DEF Between, Running
<1> QED
  BY <1>3, <1>4

\* An open file is as it is, for the buffer it has.
LEMMA SameBuffer ==
  ASSUME FileInv, cur # None, NEW pos,  handle' = [handle EXCEPT ![cur].pos = pos]
  PROVE  handle' = [handle EXCEPT ![cur].pos = pos, ![cur].buf = handle[cur].buf]
<1>1. cur \in Handles /\ handle \in [Handles -> Opened \cup {Closed}] /\ handle[cur] \in Opened
  BY ReadingIsOpen
<1> DEFINE f == [handle[cur] EXCEPT !.pos = pos]
           g == [[handle[cur] EXCEPT !.pos = pos] EXCEPT !.buf = handle[cur].buf]
<1>2. f = g
  BY <1>1 DEF Opened
<1> QED
  BY <1>1, <1>2

\* With readall off a new file is read from its end on, of which nothing was delivered.
LEMMA SeekEndKeeps == ASSUME WindowsInv, SeekEnd PROVE WindowsInv'
<1>1. FileInv /\ DeliveryInv /\ Between /\ StillToCompare /\ pc = "seek"
  BY DEF WindowsInv, SeekEnd, Running
<1>2. UNCHANGED <<fsVars, watchedDirs, done, locked, delivered>> /\ QueueOK'
  BY QueueKept DEF SeekEnd, windowsVars, readVars
<1>3. CASE ~Reopens(cur)
  BY <1>2, <1>3, TailerKeeps DEF SeekEnd, Fails, Running
<1>4. CASE Reopens(cur)
  <2>1. cur # None /\ cur \in Handles /\ handle[cur] \in Opened
    BY <1>1, ReadingIsOpen DEF FileInv, Position
  <2>2. PICK i \in Inodes : i = handle[cur].inode
    BY <2>1 DEF Opened
  <2>3. PICK pos \in 0 .. MaxPieces : pos = Len(content[i])
    BY <1>1 DEF FileInv, Types, FileSystemOK
  <2>4. PICK buf \in Seq(Piece) : buf = handle[cur].buf /\ buf = <<>>
    BY <1>1, <2>1 DEF Between, Opened
  <2>5. /\ handle' = [handle EXCEPT ![cur].pos = pos]
        /\ pc' = "read" /\ ReadFrame /\ line' = line
    BY <1>4, <2>2, <2>3 DEF SeekEnd, File, ReadFrame, readVars
  <2>6. handle' = [handle EXCEPT ![cur].pos = pos, ![cur].buf = buf]
    BY <1>1, <2>1, <2>4, <2>5, SameBuffer
  <2>7. line' = <<>> /\ line' \in Seq(1 .. MaxPieces)
    BY <1>1, <2>5 DEF DeliveryInv, Runs
  <2>8. FileInv'
    BY <1>1, <2>5, <2>6, <2>7, ReadsOnStep DEF ReadFrame
  <2>9. ~ReadAll /\ Len(buf) = 0 /\ Len(line') = 0
    BY <1>1, <2>4, <2>7 DEF Between
  <2>10. ASSUME ~done, Followed(i) PROVE Len(delivered[i]) = 0
    <3>1. RunOf(i, cur) /\ delivered[i] \in Seq(1 .. MaxPieces)
      BY <1>1, <2>1, <2>2, <2>10, CurrentReader DEF DeliveryInv, Runs, FileInv, Types, ControlOK
    <3>2. Held(cur) = <<>> /\ handle[cur].pos = 0 /\ handle[cur].buf = <<>>
      BY <1>1 DEF Held, DeliveryInv, Runs, Between
    <3>3. Len(Held(cur)) = 0 /\ Len(handle[cur].buf) = 0
      BY <3>2
    <3>4. RunTo(delivered[i], 0)
      BY <3>1, <3>2, <3>3 DEF RunOf
    <3>5. \A k \in 1 .. Len(delivered[i]) : delivered[i][k] = 0 - Len(delivered[i]) + k
      BY <3>4 DEF RunTo
    <3>0. PICK P : P = 1 .. MaxPieces
      OBVIOUS
    <3>6. PICK d \in Seq(P) : d = delivered[i]
      BY <3>0, <3>1
    <3>9. Len(d) \in Nat /\ (Len(d) # 0 => d[1] \in P)
      BY <3>6
    <3>7. Len(d) \in Nat /\ (Len(d) # 0 => d[1] \in 1 .. MaxPieces)
      BY <3>0, <3>9
    <3>8. Len(d) # 0 => d[1] = 0 - Len(d) + 1
      BY <3>5, <3>6, <3>7
    <3> QED
      BY <3>6, <3>7, <3>8
  <2>11. ~done /\ Followed(i) =>
           /\ pos <= Len(content[i])
           /\ \A k \in 1 .. Len(buf) : buf[k].at = pos - Len(buf) + k
           /\ RunTo(line', pos - Len(buf))
           /\ RunTo(delivered[i], pos - Len(buf) - Len(line'))
           /\ ReadAll => Len(delivered[i]) + Len(line') + Len(buf) = pos
    <3>1. /\ Len(content[i]) \in Nat /\ pos <= Len(content[i])
          /\ \A k \in 1 .. Len(buf) : buf[k].at = pos - Len(buf) + k
      BY <1>1, <2>2, <2>3, <2>9 DEF FileInv, Types, FileSystemOK
    <3>2. RunTo(line', pos - Len(buf))
      BY <2>9 DEF RunTo
    <3>3. ~done /\ Followed(i) => RunTo(delivered[i], pos - Len(buf) - Len(line'))
      BY <2>10 DEF RunTo
    <3> QED
      BY <2>9, <3>1, <3>2, <3>3
  <2>12. DeliveryInv'
    BY <1>1, <2>2, <2>5, <2>6, <2>7, <2>11, ReadsOnDelivers
  <2>13. StillToCompare'
    <3>1. SameFiles
      <4>1. handle \in [Handles -> Opened \cup {Closed}]
        BY <1>1 DEF FileInv, Types, FilesOK
      <4> QED
        BY <2>1, <2>5, <4>1 DEF SameFiles, Opened
    <3>2. UNCHANGED <<entry, history, watched, dir, listing, after, cur>>
      BY DEF SeekEnd, fsVars, syncVars, readVars
    <3> QED
      BY <1>1, <3>1, <3>2, CompareKept
  <2> QED
    BY <1>2, <2>5, <2>8, <2>12, <2>13, TailerKeeps DEF Between, Running
<1> QED
  BY <1>3, <1>4

LEMMA RewindKeeps == ASSUME WindowsInv, Rewind PROVE WindowsInv'
<1>1. FileInv /\ DeliveryInv /\ Between /\ pc = "rewind"
  BY DEF WindowsInv, Rewind, Running
<1>2. UNCHANGED <<fsVars, watchedDirs, done, locked, delivered>> /\ QueueOK'
  BY QueueKept DEF Rewind, windowsVars, readVars
<1>3. CASE ~Reopens(cur)
  BY <1>2, <1>3, TailerKeeps DEF Rewind, Fails, Running
<1>4. CASE Reopens(cur)
  <2>1. cur # None /\ cur \in Handles /\ handle[cur] \in Opened
    BY <1>1, ReadingIsOpen DEF FileInv, Position
  <2>2. PICK i \in Inodes : i = handle[cur].inode
    BY <2>1 DEF Opened
  <2>3. PICK pos \in 0 .. MaxPieces : pos = 0
    BY ConstantsAssumption
  <2>9. PICK buf : buf = <<>> /\ buf \in Seq(Piece)
    <3>1. <<>> \in Seq(Piece)
      OBVIOUS
    <3> QED
      BY <3>1
  <2>4. /\ handle' = [handle EXCEPT ![cur].pos = pos, ![cur].buf = buf]
        /\ pc' = "read" /\ ReadFrame /\ line' = line
    BY <1>4, <2>3, <2>9 DEF Rewind, ReadFrame, readVars
  <2>5. line' = <<>> /\ line' \in Seq(1 .. MaxPieces)
    BY <1>1, <2>4 DEF DeliveryInv, Runs
  <2>6. FileInv'
    BY <1>1, <2>4, <2>5, <2>9, ReadsOnStep DEF ReadFrame
  <2>7. ~done => ~Followed(i)
    BY <1>1, <2>2 DEF Between
  <2>8. DeliveryInv'
    BY <1>1, <2>2, <2>4, <2>5, <2>7, ReadsOnDelivers
  <2>10. StillToCompare'
    <3>1. ~Syncing /\ listing = {} /\ dir' = dir /\ listing' = listing
      BY <1>1 DEF Between, FileInv, Position, Rewind, syncVars
    <3> QED
      BY <3>1 DEF StillToCompare, Syncing
  <2> QED
    BY <1>2, <2>4, <2>6, <2>8, <2>10, TailerKeeps DEF Between, Running
<1> QED
  BY <1>3, <1>4

-----------------------------------------------------------------------------
(* processEvent                                                             *)

\* A watched file is read, or first sought in if it was truncated.
LEMMA ExamineKeeps ==
  ASSUME WindowsInv, pc \in {"loop", "files"}, NEW h \in HandlesIn(watched), Examine(h),
         task' \in {"init", "event", "poll"}, filesLeft' \subseteq filesLeft, filesLeft' # {} => task' = "poll",
         UNCHANGED <<fsVars, mapVars, syncVars, line, delivered, failure, done, locked>>, QueueOK'
  PROVE  WindowsInv'
<1>1. FileInv /\ DeliveryInv
  BY DEF WindowsInv, Running
<1>2. handle' = handle /\ watched' = watched /\ watchedDirs' = watchedDirs /\ cur' = h /\ pc' \in {"read", "rewind"}
  BY DEF Examine, mapVars
<1>3. FileInv'
  BY <1>1, <1>2, FileEventStep
<1>4. UNCHANGED <<fsVars, watched, dir, toStat, listing, after, line, delivered, done>>
  BY <1>2 DEF syncVars
<1>5. DeliveryInv'
  BY <1>1, <1>2, <1>4, FileEventDelivers
<1>6. Between'
  <2>1. h \in OpenHandles /\ ~Syncing'
    BY <1>1, <1>4 DEF FileInv, Custody, Position, Syncing
  <2>2. ASSUME pc' = "rewind", ~done, Followed(handle[h].inode) PROVE FALSE
    <3>1. Rewound(h) # handle
      BY <2>2 DEF Examine
    <3>2. handle[h].pos > Len(content[handle[h].inode])
      BY <3>1 DEF Rewound
    <3>3. h \in Readers(handle[h].inode) /\ handle[h].inode \in Inodes
      BY <2>1, <2>2 DEF Readers, Followed
    <3>4. handle[h].pos <= Len(content[handle[h].inode])
      BY <1>1, <2>2, <3>3 DEF DeliveryInv, Runs, RunOf
    <3>5. PICK pos \in Int : pos = handle[h].pos
      BY <1>1, <2>1, ReaderTypes
    <3>6. PICK len \in Int : len = Len(content[handle[h].inode])
      BY <1>1, <2>1, ReaderTypes
    <3> QED
      BY <3>2, <3>4, <3>5, <3>6
  <2> QED
    BY <1>2, <1>4, <2>1, <2>2 DEF Between, Followed, fsVars
<1>7. StillToCompare'
  BY <1>1, <1>4, IdleCompares
<1> QED
  BY <1>2, <1>3, <1>5, <1>6, <1>7, TailerKeeps DEF Running

LEMMA SyncStarts ==
  ASSUME WindowsInv, pc = "loop", NEW d \in Dirs, StartSyncOf(d), task' = "event",
         UNCHANGED <<fsVars, mapVars, dir, toStat, listing, after, filesLeft, line, delivered, failure, done, locked>>,
         QueueOK'
  PROVE  WindowsInv'
<1>1. FileInv /\ DeliveryInv /\ filesLeft = {}
  BY Waiting DEF WindowsInv, Running
<1>2. /\ pc' = "sync" /\ cur' = cur /\ dirsLeft' \in Seq(Dirs)
      /\ handle' = handle /\ watched' = watched /\ watchedDirs' = watchedDirs
  BY DEF StartSyncOf, mapVars
<1>3. FileInv'
  BY <1>1, <1>2, NothingReadStep
<1>4. DeliveryInv'
  BY <1>1, <1>2, NothingReadDelivers
<1>5. StillToCompare'
  BY <1>1, IdleCompares
<1> QED
  BY <1>2, <1>3, <1>4, <1>5, TailerKeeps DEF Between, Running

\* What the events of fsnotify lead to.
LEMMA EventIs ==
  ASSUME NEW e \in WindowsEvent
  PROVE  /\ e.op \in {"Name", "Write"} /\ e.dir \in Dirs
         /\ e.op = "Write" => e.name \in Names /\ e = Event("Write", e.name)
<1>1. CASE \E d \in Dirs : e = [op |-> "Name", dir |-> d, name |-> NoName]
  BY <1>1
<1>2. CASE \E op \in {"Name", "Write"}, n \in Names : e = Event(op, n)
  <2>1. PICK op \in {"Name", "Write"}, n \in Names : e = Event(op, n)
    BY <1>2
  <2>2. e.op = op /\ e.dir = DirOf[n] /\ e.name = n /\ DirOf[n] \in Dirs
    BY <2>1, ConstantsAssumption DEF Event
  <2> QED
    BY <2>1, <2>2
<1> QED
  BY <1>1, <1>2 DEF WindowsEvent

LEMMA ProcessEventKeeps == ASSUME WindowsInv, ProcessEvent PROVE WindowsInv'
<1>1. pc = "loop" /\ events \in Seq(WindowsEvent) /\ events # <<>> /\ FileInv
  BY DEF WindowsInv, QueueOK, ProcessEvent, Running
<1>2. PICK e \in WindowsEvent : e = Head(events)
  BY <1>1
<1>3. QueueOK'
  <2>1. events' \in Seq(WindowsEvent)
    BY <1>1 DEF ProcessEvent
  <2>2. overflow' \in BOOLEAN
    BY Zenon DEF WindowsInv, QueueOK, ProcessEvent
  <2> QED
    BY <2>1, <2>2 DEF QueueOK
<1>4. /\ Written(e) \/ NameChanged(e)
      /\ UNCHANGED <<fsVars, mapVars, dir, toStat, listing, after, filesLeft, line, delivered, failure, done, locked>>
      /\ task' = "event" /\ filesLeft = {}
  BY <1>1, <1>2, Waiting DEF ProcessEvent
<1>5. CASE StartSyncOf(e.dir)
  BY <1>1, <1>2, <1>3, <1>4, <1>5, EventIs, SyncStarts
<1>6. CASE e.op = "Write" /\ watched[e.name] # None /\ Examine(watched[e.name]) /\ UNCHANGED dirsLeft
  <2>1. PICK h \in HandlesIn(watched) : h = watched[e.name]
    BY <1>2, <1>6, EventIs DEF HandlesIn
  <2>2. Examine(h)
    BY <1>6, <2>1
  <2>3. UNCHANGED <<fsVars, mapVars, syncVars, line, delivered, failure, done, locked>>
    BY <1>4, <1>6 DEF syncVars
  <2> QED
    BY <1>1, <1>3, <1>4, <2>2, <2>3, ExamineKeeps
<1>7. CASE UNCHANGED <<cur, pc, dirsLeft>>
  <2>1. FileInv /\ DeliveryInv /\ dirsLeft \in Seq(Dirs)
    BY <1>1 DEF WindowsInv, Running, FileInv, Types, ControlOK
  <2>2. handle' = handle /\ watched' = watched /\ watchedDirs' = watchedDirs /\ pc' = "loop"
    BY <1>1, <1>4, <1>7 DEF mapVars
  <2>3. FileInv'
    BY <1>1, <1>4, <1>7, <2>1, <2>2, NothingReadStep
  <2>4. DeliveryInv'
    BY <1>1, <1>4, <1>7, <2>1, <2>2, NothingReadDelivers
  <2>5. StillToCompare'
    BY <1>1, <1>4, IdleCompares
  <2> QED
    BY <1>3, <1>4, <2>2, <2>3, <2>4, <2>5, TailerKeeps DEF Between, Running
<1> QED
  BY <1>4, <1>5, <1>6, <1>7 DEF Written, NameChanged

LEMMA PollKeeps == ASSUME WindowsInv, WindowsPoll PROVE WindowsInv'
<1>1. CASE (Tick \/ PollDone) /\ UNCHANGED windowsVars
  <2>1. PollingInv /\ DeliveryInv /\ Poll
    BY <1>1 DEF WindowsInv, PollingInv, Running, Tick, PollDone, Poll
  <2>4. FileInv /\ pc \in {"loop", "files"} /\ pc' \in {"sync", "loop"}
        /\ UNCHANGED <<fsVars, handle, watched, dir, toStat, listing, after, cur, line, delivered, done>>
    BY <1>1, <2>1 DEF PollingInv, Tick, PollDone, mapVars, readVars, syncVars
  <2>5. DeliveryInv' /\ StillToCompare'
    BY <2>1, <2>4, NothingReadDelivers, IdleCompares
  <2>2. FileInv' /\ watchedDirs' = watchedDirs
    BY <2>1, PollStep DEF PollingInv
  <2>3. UNCHANGED <<fsVars, done, locked>> /\ QueueOK' /\ pc' \in {"sync", "loop"}
    BY <1>1, QueueKept DEF Tick, PollDone, windowsVars
  <2> QED
    BY <2>2, <2>3, <2>5, TailerKeeps DEF Between, Running
<1>2. ASSUME NEW n \in Names, PollNext(n) PROVE WindowsInv'
  <2>1. FileInv /\ pc = "files" /\ n \in filesLeft /\ filesLeft' = filesLeft \ {n}
    BY <1>2 DEF WindowsInv, PollNext, Running
  <2>2. /\ UNCHANGED <<fsVars, mapVars, syncVars, line, delivered, done, locked>> /\ QueueOK'
        /\ task' = task /\ task = "poll"
    BY <1>2, <2>1, QueueKept DEF PollNext, windowsVars, FileInv, FilesLeft
  <2>3. CASE Fails("truncated")
    BY <2>2, <2>3, TailerKeeps DEF Fails, Running, mapVars
  <2>4. CASE Examine(watched[n]) /\ UNCHANGED failure
    <3>1. PICK h \in HandlesIn(watched) : h = watched[n]
      BY <2>1 DEF FileInv, FilesLeft, HandlesIn
    <3>2. Examine(h)
      BY <2>4, <3>1
    <3>3. filesLeft' \subseteq filesLeft
      BY <2>1
    <3>4. UNCHANGED <<fsVars, mapVars, syncVars, line, delivered, failure, done, locked>>
      BY <2>2, <2>4
    <3> QED
      BY <2>1, <2>2, <3>2, <3>3, <3>4, ExamineKeeps
  <2> QED
    BY <1>2, <2>3, <2>4 DEF PollNext
<1> QED
  BY <1>1, <1>2 DEF WindowsPoll

LEMMA FailuresKeep == ASSUME WindowsInv, ReadFails \/ WatcherError PROVE WindowsInv'
<1>1. UNCHANGED <<fsVars, watchedDirs, done, locked, delivered>> /\ ~Running'
  BY DEF ReadFails, WatcherError, Fails, Running, mapVars, readVars, windowsVars
<1>2. QueueOK'
  BY QueueKept DEF ReadFails, WatcherError, windowsVars
<1> QED
  BY <1>1, <1>2, TailerKeeps

LEMMA CloseKeeps ==
  ASSUME WindowsInv, CloseTailer, Operation("close"), UNCHANGED windowsVars
  PROVE  WindowsInv'
<1>1. /\ done' /\ UNCHANGED <<entry, content, fresh, removed, history, tailerVars>>
      /\ UNCHANGED <<pc, watchedDirs, Running>>
  BY DEF CloseTailer, tailerVars, mapVars, Running
<1>2. FileSystemOK' /\ LockedExist' /\ ops' \in 0 .. MaxOps
  BY <1>1, OperationCounts DEF WindowsInv, FileSystemOK, LockedExist, windowsVars
<1>3. QueueOK'
  BY QueueKept DEF windowsVars
<1>4. ASSUME Running' PROVE FileInv' /\ DeliveryInv' /\ Between' /\ StillToCompare'
  <2>1. FileInv /\ DeliveryInv /\ Between /\ StillToCompare
    BY <1>1, <1>4 DEF WindowsInv
  <2>2. FileInv' /\ DeliveryInv'
    BY <1>2, <2>1, CloseTailerStep, CloseTailerDelivers
  <2>3. Between'
    BY <1>1, <2>1 DEF Between, tailerVars, mapVars, readVars, syncVars, windowsVars, Syncing, Readers,
       OpenHandles, Followed
  <2>4. StillToCompare'
    BY <1>1, <2>1, CompareKept DEF tailerVars, mapVars, syncVars, readVars, SameFiles
  <2> QED
    BY <2>2, <2>3, <2>4
<1> QED
  BY <1>1, <1>2, <1>3, <1>4 DEF WindowsInv, Served

LEMMA WindowsInvNext ==
  ASSUME WindowsInv, [WindowsNext]_allVars
  PROVE  WindowsInv'
<1>1. CASE UNCHANGED allVars
  <2>1. UNCHANGED <<fsVars, locked, watchedDirs, done, delivered>>
    BY <1>1 DEF allVars, vars, tailerVars, mapVars, readVars, windowsVars
  <2>2. QueueOK'
    BY <1>1, QueueKept DEF allVars, windowsVars
  <2>3. CASE Running
    <3>1. FileInv' /\ DeliveryInv'
      BY <1>1, <2>3, NothingHappens, NothingDelivered DEF WindowsInv, allVars
    <3>4. StillToCompare'
      BY <1>1, <2>3, CompareKept DEF WindowsInv, allVars, vars, fsVars, tailerVars, mapVars, syncVars, readVars, SameFiles
    <3>2. Between'
      BY <1>1, <2>3 DEF WindowsInv, Between, allVars, vars, tailerVars, mapVars, readVars, syncVars, windowsVars,
         Syncing, Readers, OpenHandles, Followed, fsVars
    <3>3. Running'
      BY <1>1, <2>3 DEF Running, allVars, vars, tailerVars
    <3> QED
      BY <2>1, <2>2, <3>1, <3>2, <3>3, <3>4, TailerKeeps
  <2>4. CASE ~Running
    <3>1. ~Running'
      BY <1>1, <2>4 DEF Running, allVars, vars, tailerVars
    <3> QED
      BY <2>1, <2>2, <3>1, TailerKeeps
  <2> QED
    BY <2>3, <2>4
<1>2. CASE Programs
  BY <1>2, ProgramsKeep
<1>3. CASE Tailer
  <2>1. CASE Read
    BY <2>1, SharedSteps DEF Read
  <2>5. CASE (ListFails \/ FinishSync) /\ UNCHANGED windowsVars
    BY <2>5, SharedSteps
  <2>6. CASE Shutdown /\ UNCHANGED windowsVars
    BY <2>6, SharedSteps
  <2>2. CASE ReadFails \/ WatcherError
    BY <2>2, FailuresKeep
  <2>3. CASE ListDir \/ CompareEntry \/ OpenFile \/ OpenFindsNone \/ SeekEnd
    BY <2>3, ListDirKeeps, CompareEntryKeeps, OpenFileKeeps, OpenFindsNoneKeeps, SeekEndKeeps
  <2>4. CASE Rewind \/ ProcessEvent \/ WindowsPoll
    BY <2>4, RewindKeeps, ProcessEventKeeps, PollKeeps
  <2> QED
    BY <1>3, <2>1, <2>2, <2>3, <2>4, <2>5, <2>6 DEF Tailer, Sync
<1>4. CASE CloseTailer /\ Operation("close") /\ UNCHANGED windowsVars
  BY <1>4, CloseKeeps
<1> QED
  BY <1>1, <1>2, <1>3, <1>4 DEF WindowsNext

\* On Windows no line of a file is delivered twice, skipped or out of order before
\* Close, although each read, seek and comparison opens the file by its name again
\* and may find another one there, a locked one or none.  ExactlyOnce excepts the
\* files that were truncated or locked, left their directory, left the matching
\* names and returned, or were renamed past the entries that a sync still compares
\* or onto the name it opens next, see DisturbsNames (file_windows.go, fswatcher.go).
THEOREM WindowsExactlyOnce == WindowsSpec => []ExactlyOnce
<1>1. WindowsInit => WindowsInv
  BY WindowsInvInit
<1>2. WindowsInv /\ [WindowsNext]_allVars => WindowsInv'
  BY WindowsInvNext
<1>3. WindowsInv => ExactlyOnce
  BY DEF WindowsInv, Served, Followed, ExactlyOnce
<1> QED
  BY <1>1, <1>2, <1>3, PTL DEF WindowsSpec

-----------------------------------------------------------------------------
(* The watch list.                                                          *)

\* An event after which the directory d is synced.
Resyncs(e, d) == e.op = "Name" /\ e.dir = d

Awaits(q, d) == \E k \in 1 .. Len(q) : Resyncs(q[k], d)

\* The directories that the queued events lead back to.  An overflow ends the tailer.
Awaited == {d \in Dirs : overflow \/ Awaits(events, d)}

WindowsWatched == driver = "events" /\ Running => WatchInv(Awaited)

\* The queue grows at its end.
LEMMA EmitGrows ==
  ASSUME QueueOK, driver = "events", NEW es \in Seq(WindowsEvent), Emit(es), ~overflow'
  PROVE  /\ ~overflow /\ Len(events) \in Nat /\ Len(es) \in Nat /\ Len(events') = Len(events) + Len(es)
         /\ \A k \in 1 .. Len(events) : events'[k] = events[k]
         /\ \A k \in 1 .. Len(es) : events'[Len(events) + k] = es[k]
<1>1. events' = events \o es /\ ~overflow
  BY DEF Emit
<1>2. PICK old \in Seq(WindowsEvent) : old = events
  BY DEF QueueOK
<1>3. PICK q : q = old \o es
  OBVIOUS
<1>4. q = events'
  BY <1>1, <1>2, <1>3
<1>5. /\ Len(q) = Len(old) + Len(es) /\ Len(old) \in Nat /\ Len(es) \in Nat
      /\ \A k \in 1 .. Len(old) : q[k] = old[k]
      /\ \A k \in 1 .. Len(es) : q[Len(old) + k] = es[k]
  BY <1>3
<1> QED
  BY <1>1, <1>2, <1>4, <1>5

LEMMA EmitAwaits ==
  ASSUME QueueOK, driver = "events", NEW es \in Seq(WindowsEvent), Emit(es)
  PROVE  /\ Awaited \subseteq Awaited'
         /\ \A d \in Dirs : Awaits(es, d) => d \in Awaited'
<1>1. CASE overflow'
  BY <1>1 DEF Awaited
<1>2. CASE ~overflow'
  <2>1. /\ ~overflow /\ Len(events) \in Nat /\ Len(es) \in Nat /\ Len(events') = Len(events) + Len(es)
        /\ \A k \in 1 .. Len(events) : events'[k] = events[k]
        /\ \A k \in 1 .. Len(es) : events'[Len(events) + k] = es[k]
    BY <1>2, EmitGrows
  <2>2. ASSUME NEW d, Awaits(events, d) PROVE Awaits(events', d)
    BY <2>1, <2>2 DEF Awaits
  <2>3. ASSUME NEW d, Awaits(es, d) PROVE Awaits(events', d)
    <3>1. PICK k \in 1 .. Len(es) : Resyncs(es[k], d)
      BY <2>3 DEF Awaits
    <3>2. Len(events) + k \in 1 .. Len(events') /\ events'[Len(events) + k] = es[k]
      BY <2>1
    <3> QED
      BY <3>1, <3>2 DEF Awaits
  <2> QED
    BY <2>1, <2>2, <2>3 DEF Awaited
<1> QED
  BY <1>1, <1>2

LEMMA AwaitsThese ==
  /\ \A n \in Names : Awaits(<<Event("Name", n)>>, DirOf[n])
  /\ \A m, n \in Names : /\ Awaits(<<Event("Name", m), Event("Name", n)>>, DirOf[m])
                         /\ Awaits(<<Event("Name", m), Event("Name", n)>>, DirOf[n])
<1>1. \A n \in Names : Resyncs(Event("Name", n), DirOf[n])
  BY DEF Event, Resyncs
<1>2. ASSUME NEW n \in Names PROVE Awaits(<<Event("Name", n)>>, DirOf[n])
  <2> DEFINE q == <<Event("Name", n)>>
  <2>1. Len(q) = 1 /\ q[1] = Event("Name", n)
    OBVIOUS
  <2> QED
    BY <1>1, <2>1 DEF Awaits
<1>3. ASSUME NEW m \in Names, NEW n \in Names
      PROVE  /\ Awaits(<<Event("Name", m), Event("Name", n)>>, DirOf[m])
             /\ Awaits(<<Event("Name", m), Event("Name", n)>>, DirOf[n])
  <2> DEFINE q == <<Event("Name", m), Event("Name", n)>>
  <2>1. Len(q) = 2 /\ q[1] = Event("Name", m) /\ q[2] = Event("Name", n)
    OBVIOUS
  <2> HIDE DEF q
  <2>2. Awaits(q, DirOf[m]) /\ Awaits(q, DirOf[n])
    BY <1>1, <2>1 DEF Awaits
  <2> QED
    BY <2>2 DEF q
<1> QED
  BY <1>2, <1>3

\* Other programs leave an event for every directory in which a path gets another
\* file, or none, or overflow the queue.
LEMMA ChangesAwaited ==
  ASSUME Programs, QueueOK, FileSystemOK, driver = "events"
  PROVE  /\ Awaited \subseteq Awaited'
         /\ \A n \in Names : entry'[n] # entry[n] => DirOf[n] \in Awaited'
<1>1. entry \in [Names -> Inodes \cup {None}]
  BY DEF FileSystemOK
<1>2. ASSUME NEW n \in Names, CreateFile(n) \/ DeleteFile(n), Emit(<<Event("Name", n)>>)
      PROVE  /\ Awaited \subseteq Awaited'
             /\ \A p \in Names : entry'[p] # entry[p] => DirOf[p] \in Awaited'
  <2>1. \A p \in Names : p # n => entry'[p] = entry[p]
    BY <1>1, <1>2 DEF CreateFile, DeleteFile
  <2>2. <<Event("Name", n)>> \in Seq(WindowsEvent) /\ Awaits(<<Event("Name", n)>>, DirOf[n]) /\ DirOf[n] \in Dirs
    BY EventTypes, AwaitsThese
  <2>3. Awaited \subseteq Awaited' /\ DirOf[n] \in Awaited'
    BY <1>2, <2>2, EmitAwaits
  <2> QED
    BY <2>1, <2>3
<1>3. ASSUME NEW m \in Names, NEW n \in Names, RenameFile(m, n, DisturbsNames(m, n)),
             Emit(<<Event("Name", m), Event("Name", n)>>)
      PROVE  /\ Awaited \subseteq Awaited'
             /\ \A p \in Names : entry'[p] # entry[p] => DirOf[p] \in Awaited'
  <2>1. \A p \in Names : p # n /\ p # m => entry'[p] = entry[p]
    BY <1>1, <1>3 DEF RenameFile
  <2>5. <<Event("Name", m), Event("Name", n)>> \in Seq(WindowsEvent)
    BY EventTypes
  <2>2. PICK es : es \in Seq(WindowsEvent) /\ es = <<Event("Name", m), Event("Name", n)>>
    BY <2>5
  <2>3. Awaits(es, DirOf[m]) /\ Awaits(es, DirOf[n]) /\ DirOf[m] \in Dirs /\ DirOf[n] \in Dirs
    BY <2>2, EventTypes, AwaitsThese
  <2>4. Awaited \subseteq Awaited' /\ DirOf[m] \in Awaited' /\ DirOf[n] \in Awaited'
    BY <1>3, <2>2, <2>3, EmitAwaits
  <2> QED
    BY <2>1, <2>4
<1>4. ASSUME NEW es \in Seq(WindowsEvent), Emit(es), entry' = entry
      PROVE  /\ Awaited \subseteq Awaited'
             /\ \A p \in Names : entry'[p] # entry[p] => DirOf[p] \in Awaited'
  BY <1>4, EmitAwaits
<1>5. ASSUME UNCHANGED <<events, overflow, entry>>
      PROVE  /\ Awaited \subseteq Awaited'
             /\ \A p \in Names : entry'[p] # entry[p] => DirOf[p] \in Awaited'
  BY <1>5 DEF Awaited
<1>6. CASE \E n \in Names, endsLine \in BOOLEAN : AppendPiece(n, endsLine) /\ Emit(<<Event("Write", n)>>)
  <2>1. PICK n \in Names : Emit(<<Event("Write", n)>>) /\ entry' = entry
    BY <1>6 DEF AppendPiece
  <2>2. <<Event("Write", n)>> \in Seq(WindowsEvent)
    BY EventTypes
  <2> QED
    BY <1>4, <2>1, <2>2
<1>7. CASE \E n \in Names : TruncateFile(n) /\ Emit(<<Event("Write", n)>>)
  <2>1. PICK n \in Names : Emit(<<Event("Write", n)>>) /\ entry' = entry
    BY <1>7 DEF TruncateFile
  <2>2. <<Event("Write", n)>> \in Seq(WindowsEvent)
    BY EventTypes
  <2> QED
    BY <1>4, <2>1, <2>2
<1>8. CASE \E d \in Dirs : RemoveDir(d) /\ Emit(<<[op |-> "Name", dir |-> d, name |-> NoName]>>)
  <2>1. PICK d \in Dirs : Emit(<<[op |-> "Name", dir |-> d, name |-> NoName]>>) /\ entry' = entry
    BY <1>8 DEF RemoveDir
  <2>2. <<[op |-> "Name", dir |-> d, name |-> NoName]>> \in Seq(WindowsEvent)
    BY EventTypes
  <2> QED
    BY <1>4, <2>1, <2>2
<1>9. CASE \E n \in Names : LockFile(n) \/ UnlockFile(n)
  BY <1>5, <1>9 DEF LockFile, UnlockFile, fsVars
<1> QED
  BY <1>2, <1>3, <1>6, <1>7, <1>8, <1>9 DEF Programs

LEMMA ProgramsWatched ==
  ASSUME WindowsInv, driver = "events", Running, WatchInv(Awaited), Programs
  PROVE  WatchInv(Awaited)'
<1>1. PICK Due, Later : Due = Awaited /\ Later = Awaited'
  OBVIOUS
<1>2. Due \subseteq Later /\ \A n \in Names : entry'[n] # entry[n] => DirOf[n] \in Later
  BY <1>1, ChangesAwaited DEF WindowsInv
<1>3. WatchInv(Later)'
  BY <1>1, <1>2, OthersWatched DEF Programs
<1> QED
  BY <1>1, <1>3

\* The events that are left lead back to the same directories.
LEMMA SameAwaited ==
  ASSUME NEW Due, Due = Awaited, UNCHANGED <<events, overflow>>, WatchInv(Due)'
  PROVE  WatchInv(Awaited)'
<1>1. Due = Awaited'
  BY DEF Awaited
<1> QED
  BY <1>1

\* Steps within a read, between two opens, or of the application.
LEMMA UntoldWatched ==
  ASSUME NEW Due, FileInv, WatchInv(Due), SameFiles, Running, Running',
         UNCHANGED <<fsVars, watched, dirsLeft, dir, toStat, listing, after, cur>>,
         pc' = "read" => pc \in {"seek", "rewind"}, pc' \in {"read", "open"}
  PROVE  WatchInv(Due)'
<1>1. pc' = "loop" \/ (pc' \in {"read", "send", "rewind"} /\ ~Syncing) => dirsLeft' = <<>>
  BY DEF WatchInv, OneSync, FileInv, Position
<1>2. \A d \in Dirs : Running' /\ Pending(Due, d) => Pending(Due, d)'
  BY DEF Pending
<1>3. UNCHANGED entry
  BY DEF fsVars
<1> QED
  BY <1>1, <1>2, <1>3, WatchKept

LEMMA CompareEntryWatched ==
  ASSUME NEW Due, FileInv, Known, WatchInv(Due), CompareEntry, Running'
  PROVE  WatchInv(Due)'
<1>1. pc = "entries" /\ Running /\ listing \subseteq Names \X Inodes
  BY DEF CompareEntry, Running, FileInv, Types, FilesOK
<1>2. PICK e \in listing :
        \/ (OpenToCompare(e[1]) \/ OpenFails(e[1])) /\ UNCHANGED listing
        \/ FoundSame(e[1]) /\ listing' = listing \ {e}
  BY DEF CompareEntry
<1>3. PICK n \in Names, i \in Inodes : e = <<n, i>>
  BY <1>1, <1>2
<1>4. <<n, i>> \in listing /\ e[1] = n /\ ~OpenFails(n)
  BY <1>2, <1>3 DEF OpenFails, Fails, Running
<1>5. CASE OpenToCompare(n) /\ UNCHANGED listing
  <2>1. UNCHANGED <<fsVars, watched, dirsLeft, dir, toStat, listing, after, cur>> /\ SameFiles /\ pc' = "open"
    BY <1>5 DEF OpenToCompare, CompareEntry, SameFiles
  <2> QED
    BY <1>1, <2>1, UntoldWatched
<1>6. CASE FoundSame(n) /\ listing' = listing \ {<<n, i>>}
  <2>1. SyncFrame
    BY <1>6 DEF CompareEntry, FoundSame, SyncFrame
  <2>2. PICK j \in Inodes, h \in Handles :
           /\ entry[n] = j /\ handle[h].inode = j /\ h \in HandlesIn(watched) /\ h \in OpenHandles
           /\ \/ handle[h].name = n /\ after' = [after EXCEPT ![n] = h] /\ UNCHANGED <<handle, pc, cur>>
              \/ /\ handle[h].name # n /\ handle' = [handle EXCEPT ![h].name = n] /\ cur' = h /\ pc' = "read"
                 /\ after' = after
    BY <1>6, FoundSameIs
  <2>3. h \in HandlesIn(watched) /\ handle[h].inode = j /\ entry[n] = j
    BY <2>2
  <2>4. CASE handle[h].name = n /\ after' = [after EXCEPT ![n] = h] /\ UNCHANGED <<handle, pc, cur>>
    BY <1>1, <1>4, <1>6, <2>1, <2>3, <2>4, KeepEntryWatched
  <2>5. CASE /\ handle[h].name # n /\ handle' = [handle EXCEPT ![h].name = n] /\ cur' = h /\ pc' = "read"
             /\ after' = after
    <3>1. PICK g \in HandlesIn(watched) : g = h
      BY <2>3
    <3>2. \A m \in Names : m # n /\ ~Pending(Due, DirOf[m]) => entry[m] # j
      BY <2>3, Distinct DEF Known, Paths
    <3>3. /\ pc = "entries" /\ SyncFrame /\ <<n, i>> \in listing /\ listing' = listing \ {<<n, i>>}
          /\ handle' = [handle EXCEPT ![g].name = n] /\ cur' = g /\ pc' = "read" /\ after' = after
          /\ handle[g].inode = j /\ (~Pending(Due, dir) => entry[n] = j)
      BY <1>1, <1>4, <1>6, <2>1, <2>3, <2>5, <3>1
    <3> QED
      BY <3>2, <3>3, RenameEntryWatched
  <2> QED
    BY <2>2, <2>4, <2>5
<1> QED
  BY <1>2, <1>3, <1>4, <1>5, <1>6

LEMMA OpenFileWatched ==
  ASSUME NEW Due, FileInv, DeliveryInv, Between, WatchInv(Due), OpenFile
  PROVE  WatchInv(Due)'
<1>1. PICK n \in Names, i \in Inodes, j \in Inodes, u \in Unused :
           /\ n = opening /\ <<n, i>> \in listing /\ listing' = listing \ {<<n, i>>}
           /\ entry[n] = j /\ (Followed(j) => Readers(j) = {})
           /\ handle' = [handle EXCEPT ![u] = JustOpened(n, 0)] /\ cur' = u
           /\ pc' \in {"read", "seek"} /\ (pc' = "seek" => ~ReadAll) /\ after' = after
           /\ SyncFrame
  BY OpenFileOpens
<1>2. Known /\ pc = "open" /\ 0 \in Nat
  BY DEF DeliveryInv, OpenFile
<1> QED
  BY <1>1, <1>2, OpenEntryWatched

LEMMA OpenFindsNoneWatched ==
  ASSUME NEW Due, FileInv, DeliveryInv, Between, WatchInv(Due), OpenFindsNone, Running'
  PROVE  WatchInv(Due)'
<1>1. pc = "open" /\ opening \notin locked
  BY DEF OpenFindsNone, Fails, Running
<1>2. PICK i \in Inodes : <<opening, i>> \in listing /\ listing' = listing \ {<<opening, i>>}
  BY <1>1, EntryOpened DEF OpenFindsNone
<1>3. PICK n \in Names : n = opening
  BY <1>1 DEF Between
<1>4. pc' = "entries" /\ UNCHANGED <<handle, after, cur>> /\ SyncFrame /\ entry[n] = None
  BY <1>1, <1>3 DEF OpenFindsNone, SyncFrame, mapVars, readVars
<1>5. <<n, i>> \in listing /\ listing' = listing \ {<<n, i>>} /\ Known /\ Running
  BY <1>1, <1>2, <1>3 DEF DeliveryInv, Running
<1>6. Pending(Due, dir)
  BY <1>4, <1>5, ListedThere, Distinct
<1> QED
  BY <1>1, <1>4, <1>5, <1>6, DropEntryWatched

\* A seek changes an offset and a buffer only.
LEMMA SeekKeepsFiles == ASSUME FileInv, SeekEnd \/ Rewind PROVE SameFiles
<1>1. cur \in Handles /\ handle \in [Handles -> Opened \cup {Closed}] /\ handle[cur] \in Opened
  BY ReadingIsOpen DEF SeekEnd, Rewind, FileInv, Position
<1>2. CASE handle' = handle
  BY <1>2 DEF SameFiles
<1>3. ASSUME NEW pos, handle' = [handle EXCEPT ![cur].pos = pos] PROVE SameFiles
  BY <1>1, <1>3 DEF SameFiles, Opened
<1>4. ASSUME NEW pos, NEW buf, handle' = [handle EXCEPT ![cur].pos = pos, ![cur].buf = buf] PROVE SameFiles
  BY <1>1, <1>4 DEF SameFiles, Opened
<1> QED
  BY <1>2, <1>3, <1>4 DEF SeekEnd, Rewind

LEMMA SeekWatched ==
  ASSUME NEW Due, FileInv, WatchInv(Due), SeekEnd \/ Rewind, Running'
  PROVE  WatchInv(Due)'
<1>1. SameFiles
  BY SeekKeepsFiles
<1>2. /\ Running /\ pc \in {"seek", "rewind"} /\ pc' = "read"
      /\ UNCHANGED <<fsVars, watched, dirsLeft, dir, toStat, listing, after, cur>>
  BY DEF SeekEnd, Rewind, Fails, Running, syncVars, readVars
<1> QED
  BY <1>1, <1>2, UntoldWatched

LEMMA HeadTaken ==
  ASSUME NEW q \in Seq(WindowsEvent), q # <<>>, NEW d, ~Resyncs(Head(q), d), Awaits(q, d)
  PROVE  Awaits(Tail(q), d)
<1>1. PICK k \in 1 .. Len(q) : Resyncs(q[k], d)
  BY DEF Awaits
<1>2. k # 1 /\ Len(q) \in Nat
  BY <1>1
<1>3. k - 1 \in 1 .. Len(Tail(q)) /\ Tail(q)[k - 1] = q[k]
  BY <1>2
<1> QED
  BY <1>1, <1>3 DEF Awaits

LEMMA ProcessEventWatched ==
  ASSUME WindowsInv, WatchInv(Awaited), ProcessEvent
  PROVE  WatchInv(Awaited)'
<1>1. pc = "loop" /\ events \in Seq(WindowsEvent) /\ events # <<>> /\ FileInv /\ Running
  BY DEF WindowsInv, QueueOK, ProcessEvent, Running
<1>2. PICK Due, Later : Due = Awaited /\ Later = Awaited'
  OBVIOUS
<1>3. PICK e \in WindowsEvent : e = Head(events)
  BY <1>1
<1>4. \A d \in Due : ~Resyncs(e, d) => d \in Later
  BY <1>1, <1>2, <1>3, HeadTaken DEF ProcessEvent, Awaited
<1>5. WatchInv(Due) /\ UNCHANGED <<entry, handle, watched, dir, toStat, listing, after>>
  BY <1>2 DEF ProcessEvent, mapVars, fsVars
<1>6. ~Syncing /\ dirsLeft = <<>> /\ SameFiles
  BY <1>1, <1>5 DEF FileInv, Position, WatchInv, OneSync, SameFiles
<1>7. CASE e.op = "Write" /\ UNCHANGED dirsLeft /\ pc' \in {"loop", "read", "rewind"}
  <2>1. \A d \in Dirs : Running' /\ Pending(Due, d) => Pending(Later, d)'
    BY <1>4, <1>6, <1>7 DEF Resyncs, Pending
  <2> QED
    BY <1>1, <1>2, <1>5, <1>6, <1>7, <2>1, WatchKept
<1>8. CASE StartSyncOf(e.dir)
  <2>1. pc' = "sync" /\ dirsLeft' = <<e.dir>>
    BY <1>8 DEF StartSyncOf
  <2>2. ASSUME NEW d \in Dirs, Pending(Due, d) PROVE Pending(Later, d)'
    <3>1. CASE e.dir = d
      <4>1. Len(dirsLeft') = 1 /\ dirsLeft'[1] = d
        BY <2>1, <3>1
      <4> QED
        BY <4>1 DEF Pending
    <3>2. CASE e.dir # d
      BY <1>4, <1>6, <2>2, <3>2 DEF Resyncs, Pending
    <3> QED
      BY <3>1, <3>2
  <2> QED
    BY <1>1, <1>2, <1>5, <1>6, <2>1, <2>2, WatchKept
<1> QED
  BY <1>1, <1>3, <1>7, <1>8 DEF ProcessEvent, Written, NameChanged, Examine

\* A tailer that runs after a step ran before it.
LEMMA GoesOn ==
  ASSUME WindowsNext \/ UNCHANGED allVars, driver' = "events", Running'
  PROVE  driver = "events" /\ Running
<1>1. driver' = driver
  BY DEF WindowsNext, Programs, Tailer, Sync, ListDir, CompareEntry, OpenFile, OpenFindsNone, SeekEnd, Read,
     ReadFails, Rewind, ProcessEvent, WatcherError, WindowsPoll, PollNext, windowsVars, allVars
<1>2. pc \notin {"failed", "returned"}
  BY DEF Running, WindowsNext, Programs, Tailer, Sync, ListDir, CompareEntry, OpenFile, OpenFindsNone, SeekEnd,
     Read, ReadNewLines, ReadBuffered, ReadChunk, ReadEOF, SendLine, SendAborted, ListFails, FinishSync,
     ReadFails, Rewind, ProcessEvent, WatcherError, WindowsPoll, Tick, PollDone, PollNext, Shutdown, CloseTailer,
     windowsVars, allVars, vars, tailerVars
<1> QED
  BY <1>1, <1>2 DEF Running

LEMMA WindowsWatchedNext ==
  ASSUME WindowsInv, WindowsWatched, [WindowsNext]_allVars
  PROVE  WindowsWatched'
<1> SUFFICES ASSUME driver' = "events", Running' PROVE WatchInv(Awaited)'
  BY DEF WindowsWatched
<1>1. driver = "events" /\ Running
  BY GoesOn
<1>2. FileInv /\ DeliveryInv /\ Between /\ Known /\ WatchInv(Awaited)
  BY <1>1 DEF WindowsInv, WindowsWatched, DeliveryInv
<1>3. PICK Due : Due = Awaited
  OBVIOUS
<1>4. ASSUME UNCHANGED <<events, overflow>>, WatchInv(Due)' PROVE WatchInv(Awaited)'
  BY <1>3, <1>4, SameAwaited
<1>5. CASE Programs
  BY <1>1, <1>2, <1>5, ProgramsWatched
<1>6. CASE ListDir
  BY <1>2, <1>3, <1>4, <1>6, ListDirLists, ListedWatched DEF ListDir, windowsVars
<1>7. CASE CompareEntry
  BY <1>2, <1>3, <1>4, <1>7, CompareEntryWatched DEF CompareEntry
<1>8. CASE OpenFile
  BY <1>2, <1>3, <1>4, <1>8, OpenFileWatched DEF OpenFile, windowsVars
<1>9. CASE OpenFindsNone
  BY <1>2, <1>3, <1>4, <1>9, OpenFindsNoneWatched DEF OpenFindsNone, windowsVars
<1>10. CASE SeekEnd \/ Rewind
  BY <1>2, <1>3, <1>4, <1>10, SeekWatched DEF SeekEnd, Rewind, windowsVars
<1>11. ASSUME ReadNewLines \/ FinishSync, UNCHANGED windowsVars PROVE WatchInv(Awaited)'
  <2>1. Goroutine /\ UNCHANGED <<events, overflow>>
    BY <1>11 DEF Goroutine, windowsVars
  <2> QED
    BY <1>2, <1>3, <1>4, <2>1, GoroutineWatched
<1>12. CASE ProcessEvent
  BY <1>2, <1>12, ProcessEventWatched
<1>13. CASE CloseTailer /\ UNCHANGED windowsVars
  BY <1>2, <1>3, <1>4, <1>13, NothingWatchedChanges DEF CloseTailer, windowsVars
<1>14. CASE UNCHANGED allVars
  BY <1>2, <1>3, <1>4, <1>14, NothingWatchedChanges DEF allVars, vars, fsVars, windowsVars
<1>15. ~ReadFails /\ ~WatcherError /\ ~ListFails /\ ~Shutdown /\ ~WindowsPoll
  BY <1>1 DEF ReadFails, WatcherError, ListFails, Shutdown, WindowsPoll, Fails, Running
<1> QED
  BY <1>5, <1>6, <1>7, <1>8, <1>9, <1>10, <1>11, <1>12, <1>13, <1>14, <1>15
  DEF WindowsNext, Tailer, Sync, Read

\* On Windows, once the events of fsnotify are used up, the watched files are the
\* files that are there, whatever was renamed, replaced or removed between the events
\* and between any two of the opens (fswatcher_windows.go: processEvent; fswatcher.go:
\* syncFilesInDir).  Events that fsnotify lost have ended the tailer.
THEOREM WindowsWatchListCurrent == WindowsSpec => []WatchListCurrentAtRest
<1>1. WindowsInit => WindowsInv /\ WindowsWatched
  <2>1. WindowsInit => WatchInv(Awaited)
    BY WatchInvInit DEF WindowsInit
  <2> QED
    BY <2>1, WindowsInvInit DEF WindowsWatched
<1>2. WindowsInv /\ WindowsWatched /\ [WindowsNext]_allVars => WindowsInv' /\ WindowsWatched'
  BY WindowsInvNext, WindowsWatchedNext
<1>3. WindowsInv /\ WindowsWatched => WatchListCurrentAtRest
  <2> SUFFICES ASSUME WindowsInv, WindowsWatched, AtRest PROVE WatchListCurrent
    BY DEF WatchListCurrentAtRest
  <2>1. PICK Due : Due = Awaited
    OBVIOUS
  <2>2. Due = {} /\ pc = "loop" /\ FileInv /\ WatchInv(Due)
    BY <2>1 DEF AtRest, Awaited, Awaits, WindowsInv, WindowsWatched, Running
  <2> QED
    BY <2>2, WatchInvImplies
<1> QED
  BY <1>1, <1>2, <1>3, PTL DEF WindowsSpec

-----------------------------------------------------------------------------
(* Windows.  What is unread.  A Write event finds its file by the path, in  *)
(* watchedFiles.                                                            *)

\* When the event at position p is handled, the directory d was synced.
SyncedBefore(p, d) ==
  \/ \E k \in 1 .. p - 1 : Resyncs(events[k], d)
  \/ \E k \in 1 .. Len(dirsLeft) : dirsLeft[k] = d

\* When the event at position p is handled, watchedFiles has the file of h under
\* no path but its name: the directories of the others are synced before.
OtherPathsGone(h, p) ==
  \A n \in Names \ {handle[h].name} :
    /\ after[n] = h => SyncedBefore(p, DirOf[n])
    /\ watched[n] = h => SyncedBefore(p, DirOf[n]) \/ (Syncing /\ DirOf[n] = dir)

\* An event will have the file read, or the tailer end.
Told(h) ==
  \/ overflow
  \/ \E p \in 1 .. Len(events) :
       events[p] = Event("Write", handle[h].name) /\ OtherPathsGone(h, p)

\* No event has to tell of the file: it is about to be sought in and read, or the
\* property excepts it.
Unconcerned(h) ==
  \/ NeedsNoEvent(h)
  \/ "locked" \in history[handle[h].inode]
  \/ pc = "rewind" /\ cur = h

AllTold == ~done => \A h \in OpenHandles : Unconcerned(h) \/ Told(h)

ReadInv == NameKept /\ WithinFiles /\ AllTold

WindowsReads == driver = "events" /\ Running => ReadInv

LEMMA ReadInvInit == ASSUME WindowsInit PROVE ReadInv
<1>1. /\ \A h \in Handles : handle[h].open = FALSE
      /\ listing = {} /\ entry \in [Names -> Inodes \cup {None}]
  BY FileInvInit DEF WindowsInit, Init, Closed, FileInv, Types, FileSystemOK
<1>2. OpenHandles = {}
  BY <1>1 DEF OpenHandles
<1>3. \A m, n \in Names : entry[m] # None /\ entry[m] = entry[n] => m = n
  BY DeliveryInvInit DEF WindowsInit, DeliveryInv, Known, Paths
<1> QED
  BY <1>1, <1>2, <1>3, Distinct DEF ReadInv, NameKept, Readers, WithinFiles, AllTold

\* Names and offsets, and other programs.
LEMMA ProgramsKeepNames ==
  ASSUME WindowsInv, Running, NameKept, WithinFiles, Programs
  PROVE  NameKept' /\ WithinFiles'
<1>1. FileInv /\ Known /\ QueueOK /\ FileSystemOK /\ locked \subseteq Names
  BY DEF WindowsInv, DeliveryInv, LockedExist
<1>2. /\ FileChange \/ \E n \in Names : LockFile(n) \/ UnlockFile(n)
      /\ UNCHANGED tailerVars
  BY <1>1, ProgramsAre
<1>3. CASE FileChange
  BY <1>1, <1>2, <1>3, FileSystemKeepsNames, FileSystemWithin, DisturbsNamesPast DEF FileChange
<1>4. CASE \E n \in Names : LockFile(n) \/ UnlockFile(n)
  <2>1. UNCHANGED <<entry, content, handle, listing>>
    BY <1>2, <1>4 DEF LockFile, UnlockFile, fsVars, tailerVars, mapVars, syncVars
  <2>2. history \in [Inodes -> SUBSET Past] /\ entry \in [Names -> Inodes \cup {None}]
    BY <1>1 DEF FileSystemOK
  <2>3. \A i \in Inodes : history[i] \subseteq history'[i]
    BY <1>1, <1>4, PastKept
  <2>4. NameKept'
    <3>1. \A i \in Inodes : "renamed" \notin history'[i] => "renamed" \notin history[i]
      BY <2>3
    <3>2. \A i : Readers(i)' = Readers(i)
      BY <2>1 DEF Readers, OpenHandles
    <3> QED
      BY <2>1, <3>1, <3>2 DEF NameKept
  <2>5. WithinFiles'
    <3>1. \A h \in OpenHandles : handle[h].inode \in Inodes
      BY <1>1, ReaderTypes
    <3>2. OpenHandles' = OpenHandles
      BY <2>1 DEF OpenHandles
    <3> QED
      BY <2>1, <2>3, <3>1, <3>2 DEF WithinFiles
  <2> QED
    BY <2>4, <2>5
<1> QED
  BY <1>2, <1>3, <1>4

\* The steps of the goroutine from one event to the next.
Working ==
  \/ ListDir \/ CompareEntry \/ OpenFile \/ OpenFindsNone \/ SeekEnd \/ Rewind
  \/ (ReadNewLines \/ FinishSync) /\ UNCHANGED windowsVars

\* What an entry's file is when its path was compared.
LEMMA Compared ==
  ASSUME FileInv, CompareEntry, Running'
  PROVE  /\ pc = "entries" /\ listing' \subseteq listing /\ cur = None /\ UNCHANGED fsVars
         /\ UNCHANGED <<watched, dir, dirsLeft, events>>
         /\ \/ UNCHANGED <<handle, cur, after>>
            \/ \E n \in Names, j \in Inodes, g \in OpenHandles :
                 /\ entry[n] = j /\ handle[g].inode = j /\ handle[g].name = n
                 /\ after' = [after EXCEPT ![n] = g] /\ UNCHANGED <<handle, cur>>
            \/ \E n \in Names, j \in Inodes, g \in OpenHandles :
                 /\ entry[n] = j /\ handle[g].inode = j /\ handle[g].name # n
                 /\ handle' = [handle EXCEPT ![g].name = n] /\ cur' = g /\ after' = after
<1>1. /\ pc = "entries" /\ cur = None /\ UNCHANGED fsVars /\ listing \subseteq Names \X Inodes
      /\ UNCHANGED <<watched, dir, dirsLeft, events>>
  BY DEF CompareEntry, FileInv, Types, FilesOK, Position
<1>2. PICK e \in listing :
        \/ (OpenToCompare(e[1]) \/ OpenFails(e[1])) /\ UNCHANGED listing
        \/ FoundSame(e[1]) /\ listing' = listing \ {e}
  BY DEF CompareEntry
<1>3. PICK n \in Names : n = e[1]
  BY <1>1, <1>2
<1>4. CASE OpenToCompare(n) /\ UNCHANGED listing
  BY <1>1, <1>4 DEF OpenToCompare
<1>5. CASE OpenFails(n)
  BY <1>5 DEF OpenFails, Fails, Running
<1>6. CASE FoundSame(n) /\ listing' = listing \ {e}
  <2>1. PICK j \in Inodes, h \in Handles :
           /\ entry[n] = j /\ handle[h].inode = j /\ h \in HandlesIn(watched) /\ h \in OpenHandles
           /\ \/ handle[h].name = n /\ after' = [after EXCEPT ![n] = h] /\ UNCHANGED <<handle, pc, cur>>
              \/ /\ handle[h].name # n /\ handle' = [handle EXCEPT ![h].name = n] /\ cur' = h /\ pc' = "read"
                 /\ after' = after
    BY <1>6, FoundSameIs
  <2>2. h \in OpenHandles /\ listing' \subseteq listing
    BY <1>6, <2>1
  <2>3. CASE handle[h].name = n /\ after' = [after EXCEPT ![n] = h] /\ UNCHANGED <<handle, pc, cur>>
    BY <1>1, <2>1, <2>2, <2>3
  <2>4. CASE /\ handle[h].name # n /\ handle' = [handle EXCEPT ![h].name = n] /\ cur' = h /\ pc' = "read"
             /\ after' = after
    BY <1>1, <2>1, <2>2, <2>4
  <2> QED
    BY <2>1, <2>3, <2>4
<1> QED
  BY <1>2, <1>3, <1>4, <1>5, <1>6

\* A seek moves one offset, to what the file has.
LEMMA SoughtWithin ==
  ASSUME FileInv, SeekEnd \/ Rewind, Running'
  PROVE  /\ cur \in OpenHandles /\ cur' = cur /\ UNCHANGED <<fsVars, watched, after, dir, dirsLeft, listing, events>>
         /\ handle'[cur].pos <= Len(content[handle[cur].inode])
         /\ \A h \in Handles : h # cur => handle'[h] = handle[h]
<1>1. cur \in Handles /\ handle \in [Handles -> Opened \cup {Closed}] /\ handle[cur] \in Opened /\ cur \in OpenHandles
  BY ReadingIsOpen DEF SeekEnd, Rewind, FileInv, Position, OpenHandles, Opened
<1>2. cur' = cur /\ UNCHANGED <<fsVars, watched, after, dir, dirsLeft, listing, events>>
  BY DEF SeekEnd, Rewind, readVars, syncVars, windowsVars
<1>3. PICK len \in Nat : len = Len(content[handle[cur].inode])
  BY <1>1, ReaderTypes
<1> DEFINE f == handle[cur]
<1>4. CASE SeekEnd
  <2>1. handle' = [handle EXCEPT ![cur].pos = len]
    BY <1>3, <1>4 DEF SeekEnd, File, Fails, Running
  <2>2. handle'[cur] = [f EXCEPT !.pos = len] /\ \A h \in Handles : h # cur => handle'[h] = handle[h]
    BY <1>1, <2>1
  <2>3. f \in Opened
    BY <1>1
  <2> HIDE DEF f
  <2>4. handle'[cur].pos = len
    BY <2>2, <2>3 DEF Opened
  <2> QED
    BY <1>1, <1>2, <1>3, <2>2, <2>4
<1>5. CASE Rewind
  <2>1. handle' = [handle EXCEPT ![cur].pos = 0, ![cur].buf = <<>>]
    BY <1>5 DEF Rewind, Fails, Running
  <2>2. handle'[cur] = [f EXCEPT !.pos = 0, !.buf = <<>>] /\ \A h \in Handles : h # cur => handle'[h] = handle[h]
    BY <1>1, <2>1
  <2>3. f \in Opened
    BY <1>1
  <2> HIDE DEF f
  <2>4. handle'[cur].pos = 0
    BY <2>2, <2>3 DEF Opened
  <2> QED
    BY <1>1, <1>2, <1>3, <2>2, <2>4
<1> QED
  BY <1>4, <1>5

LEMMA WorkingKeepsNames ==
  ASSUME WindowsInv, Running, Running', NameKept, WithinFiles, Working
  PROVE  NameKept' /\ WithinFiles'
<1>1. /\ FileInv /\ DeliveryInv /\ Between
      /\ entry \in [Names -> Inodes \cup {None}] /\ content \in [Inodes -> Seq(BOOLEAN)]
  BY DEF WindowsInv, FileSystemOK
<1>2. ASSUME UNCHANGED <<fsVars, handle>>,
             \A n \in Names, i \in Inodes : <<n, i>> \in listing' => <<n, i>> \in listing \/ entry[n] = i
      PROVE  NameKept' /\ WithinFiles'
  BY <1>2, NothingRenamed, StaysWithin DEF SameFiles, fsVars
<1>3. CASE ListDir
  BY <1>2, <1>3 DEF ListDir, mapVars
<1>4. CASE CompareEntry
  <2>1. /\ pc = "entries" /\ listing' \subseteq listing /\ cur = None /\ UNCHANGED fsVars
        /\ UNCHANGED <<watched, dir, dirsLeft, events>>
        /\ \/ UNCHANGED <<handle, cur, after>>
           \/ \E n \in Names, j \in Inodes, g \in OpenHandles :
                /\ entry[n] = j /\ handle[g].inode = j /\ handle[g].name = n
                /\ after' = [after EXCEPT ![n] = g] /\ UNCHANGED <<handle, cur>>
           \/ \E n \in Names, j \in Inodes, g \in OpenHandles :
                /\ entry[n] = j /\ handle[g].inode = j /\ handle[g].name # n
                /\ handle' = [handle EXCEPT ![g].name = n] /\ cur' = g /\ after' = after
    BY <1>1, <1>4, Compared
  <2>2. CASE handle' = handle
    BY <1>2, <2>1, <2>2
  <2>3. ASSUME NEW n \in Names, NEW j \in Inodes, NEW g \in OpenHandles,
               entry[n] = j, handle[g].inode = j, handle[g].name # n, handle' = [handle EXCEPT ![g].name = n]
        PROVE  NameKept' /\ WithinFiles'
    <3>1. UNCHANGED <<entry, history>> /\ listing' \subseteq listing
      BY <2>1 DEF fsVars
    <3>2. NameKept'
      BY <1>1, <2>3, <3>1, RenamedKeepsNames
    <3>3. WithinFiles'
      BY <1>1, <2>1, <2>3, RenamedWithin
    <3> QED
      BY <3>2, <3>3
  <2> QED
    BY <2>1, <2>2, <2>3
<1>5. CASE OpenFile
  <2>1. PICK n \in Names, i \in Inodes, j \in Inodes, u \in Unused :
           /\ n = opening /\ <<n, i>> \in listing /\ listing' = listing \ {<<n, i>>}
           /\ entry[n] = j /\ (Followed(j) => Readers(j) = {})
           /\ handle' = [handle EXCEPT ![u] = JustOpened(n, 0)] /\ cur' = u
           /\ pc' \in {"read", "seek"} /\ (pc' = "seek" => ~ReadAll) /\ after' = after
           /\ SyncFrame
    BY <1>1, <1>5, OpenFileOpens
  <2>2. /\ handle' = [handle EXCEPT ![u] = JustOpened(n, 0)] /\ UNCHANGED <<fsVars, entry, history>>
        /\ listing' \subseteq listing /\ entry[n] # None /\ 0 \in Nat
    BY <2>1, Distinct DEF SyncFrame, fsVars
  <2>3. Len(content[entry[n]]) \in Nat /\ 0 \in 0 .. Len(content[entry[n]])
    BY <1>1, <2>1
  <2>4. NameKept'
    BY <1>1, <2>2, OpenedKeepsNames
  <2>5. WithinFiles'
    BY <1>1, <2>2, <2>3, OpenedWithin
  <2> QED
    BY <2>4, <2>5
<1>6. CASE OpenFindsNone
  <2>1. UNCHANGED <<fsVars, handle>> /\ listing' \subseteq listing
    BY <1>6 DEF OpenFindsNone, EntryDone, mapVars
  <2> QED
    BY <1>2, <2>1
<1>7. CASE SeekEnd \/ Rewind
  <2>1. SameFiles
    BY <1>1, <1>7, SeekKeepsFiles
  <2>2. /\ UNCHANGED <<fsVars, listing>> /\ handle'[cur].pos <= Len(content[handle[cur].inode])
        /\ \A h \in Handles : h # cur => handle'[h] = handle[h]
    BY <1>1, <1>7, SoughtWithin
  <2>3. UNCHANGED <<entry, history, listing>>
    BY <2>2 DEF fsVars
  <2>4. NameKept'
    BY <2>1, <2>3, NothingRenamed
  <2>5. \A h \in Handles : handle'[h].open =>
          \/ handle'[h].pos <= Len(content[handle'[h].inode])
          \/ handle[h].open /\ handle'[h].inode = handle[h].inode /\ handle'[h].pos = handle[h].pos
    BY <2>1, <2>2 DEF SameFiles
  <2>6. WithinFiles'
    BY <2>2, <2>5, StaysWithin
  <2> QED
    BY <2>4, <2>6
<1>8. CASE ReadNewLines \/ FinishSync
  BY <1>1, <1>8, StepKeepsNames, StepWithin DEF Goroutine
<1> QED
  BY <1>3, <1>4, <1>5, <1>6, <1>7, <1>8 DEF Working

\* A file that an event has to tell of keeps its name, and what needs none goes on
\* without: a file found under a new name is read, a new one from its start or from
\* the end that was sought, and a read goes on to the end.
LEMMA WorkingNeeds ==
  ASSUME WindowsInv, Running, Running', ~done, NameKept, WithinFiles, Working, NEW h \in Handles, handle'[h].open
  PROVE  \/ Unconcerned(h)'
         \/ h \in OpenHandles /\ ~Unconcerned(h) /\ handle'[h].name = handle[h].name
<1>1. /\ FileInv /\ DeliveryInv /\ Between /\ h # None
      /\ handle \in [Handles -> Opened \cup {Closed}]
      /\ entry \in [Names -> Inodes \cup {None}] /\ content \in [Inodes -> Seq(BOOLEAN)]
  BY Distinct DEF WindowsInv, FileInv, Types, FilesOK, FileSystemOK
<1> DEFINE Goal == \/ Unconcerned(h)'
                   \/ h \in OpenHandles /\ ~Unconcerned(h) /\ handle'[h].name = handle[h].name
<1> SUFFICES Goal
  OBVIOUS
<1>2. ASSUME NeedsNoEvent(h)' PROVE Goal
  BY <1>2 DEF Unconcerned
<1>3. ASSUME handle'[h] = handle[h], cur' = h <=> cur = h, pc # "rewind" \/ cur # h, UNCHANGED fsVars PROVE Goal
  <2>1. h \in OpenHandles
    BY <1>3 DEF OpenHandles
  <2>2. CASE Unconcerned(h)
    <3>1. NeedsNoEvent(h) => NeedsNoEvent(h)'
      BY <1>3, NeedsNothingStill
    <3> QED
      BY <1>3, <2>2, <3>1 DEF Unconcerned, fsVars
  <2> QED
    BY <1>3, <2>1, <2>2
<1> HIDE DEF Goal
<1>4. CASE ListDir \/ OpenFindsNone
  <2>1. UNCHANGED <<handle, cur, fsVars>> /\ pc # "rewind"
    BY <1>4 DEF ListDir, OpenFindsNone, mapVars, readVars
  <2> QED
    BY <1>3, <2>1
<1>5. CASE CompareEntry
  <2>1. /\ pc = "entries" /\ listing' \subseteq listing /\ cur = None /\ UNCHANGED fsVars
        /\ UNCHANGED <<watched, dir, dirsLeft, events>>
        /\ \/ UNCHANGED <<handle, cur, after>>
           \/ \E n \in Names, j \in Inodes, g \in OpenHandles :
                /\ entry[n] = j /\ handle[g].inode = j /\ handle[g].name = n
                /\ after' = [after EXCEPT ![n] = g] /\ UNCHANGED <<handle, cur>>
           \/ \E n \in Names, j \in Inodes, g \in OpenHandles :
                /\ entry[n] = j /\ handle[g].inode = j /\ handle[g].name # n
                /\ handle' = [handle EXCEPT ![g].name = n] /\ cur' = g /\ after' = after
    BY <1>1, <1>5, Compared
  <2>2. CASE UNCHANGED <<handle, cur>>
    BY <1>3, <2>1, <2>2
  <2>3. ASSUME NEW n \in Names, NEW j \in Inodes, NEW g \in OpenHandles,
               entry[n] = j, handle[g].inode = j, handle[g].name # n, handle' = [handle EXCEPT ![g].name = n],
               cur' = g
        PROVE  Goal
    <3>1. CASE h # g
      <4>1. handle'[h] = handle[h] /\ cur' # h /\ cur # h
        BY <1>1, <2>1, <2>3, <3>1
      <4> QED
        BY <1>3, <2>1, <4>1
    <3>2. CASE h = g
      <4>1. NeedsNoEvent(g)'
        BY <1>1, <2>1, <2>3, RenamedNeedsNothing
      <4> QED
        BY <1>2, <3>2, <4>1
    <3> QED
      BY <3>1, <3>2
  <2> QED
    BY <2>1, <2>2, <2>3
<1>6. CASE OpenFile
  <2>1. PICK n \in Names, i \in Inodes, j \in Inodes, u \in Unused :
           /\ n = opening /\ <<n, i>> \in listing /\ listing' = listing \ {<<n, i>>}
           /\ entry[n] = j /\ (Followed(j) => Readers(j) = {})
           /\ handle' = [handle EXCEPT ![u] = JustOpened(n, 0)] /\ cur' = u
           /\ pc' \in {"read", "seek"} /\ (pc' = "seek" => ~ReadAll) /\ after' = after
           /\ SyncFrame
    BY <1>1, <1>6, OpenFileOpens
  <2>2. handle' = [handle EXCEPT ![u] = JustOpened(n, 0)] /\ cur' = u /\ UNCHANGED fsVars
        /\ u \in Handles /\ cur = None /\ pc = "open"
    BY <1>1, <1>6, <2>1 DEF SyncFrame, Unused, OpenFile, FileInv, Position
  <2>3. Len(content[entry[n]]) \in Nat /\ 0 \in 0 .. Len(content[entry[n]])
    BY <1>1, <2>1
  <2>4. CASE h # u
    <3>1. handle'[h] = handle[h] /\ cur' # h /\ cur # h
      BY <1>1, <2>2, <2>4
    <3> QED
      BY <1>3, <2>2, <3>1
  <2>5. CASE h = u
    <3>1. NeedsNoEvent(u)'
      BY <1>1, <2>2, <2>3, OpenedNeedsNothing
    <3> QED
      BY <1>2, <2>5, <3>1
  <2> QED
    BY <2>4, <2>5
<1>7. CASE SeekEnd \/ Rewind
  <2>1. SameFiles
    BY <1>1, <1>7, SeekKeepsFiles
  <2>2. /\ cur' = cur /\ UNCHANGED fsVars /\ handle'[cur].pos <= Len(content[handle[cur].inode])
        /\ \A g \in Handles : g # cur => handle'[g] = handle[g]
    BY <1>1, <1>7, SoughtWithin
  <2>3. CASE h = cur
    <3>1. NeedsNoEvent(h)'
      BY <2>1, <2>2, <2>3 DEF SameFiles, NeedsNoEvent, fsVars
    <3> QED
      BY <1>2, <3>1
  <2>4. CASE h # cur
    BY <1>3, <2>2, <2>4
  <2> QED
    BY <2>3, <2>4
<1>8. CASE ReadNewLines \/ FinishSync
  <2>1. Goroutine /\ pc # "rewind" /\ UNCHANGED fsVars
    BY <1>8 DEF Goroutine, ReadNewLines, ReadBuffered, ReadChunk, ReadEOF, SendLine, SendAborted, FinishSync
  <2>2. \/ NeedsNoEvent(h)'
        \/ /\ h \in OpenHandles /\ ~NeedsNoEvent(h)
           /\ handle'[h].name = handle[h].name /\ handle'[h].inode = handle[h].inode
    BY <1>1, <2>1, StepNeeds
  <2> QED
    BY <1>2, <2>1, <2>2 DEF Goal, Unconcerned, fsVars
<1> QED
  BY <1>4, <1>5, <1>6, <1>7, <1>8 DEF Working

\* A sync gives a file no path but its name, and forgets those it had in its
\* directory.
LEMMA WorkingPaths ==
  ASSUME WindowsInv, Running, Running', ~done, Working, UNCHANGED events,
         NEW h \in Handles, handle'[h].name = handle[h].name, NEW p, OtherPathsGone(h, p)
  PROVE  OtherPathsGone(h, p)'
<1>1. /\ FileInv /\ DeliveryInv /\ Between /\ h # None /\ dirsLeft \in Seq(Dirs)
      /\ watched \in [Names -> Handles \cup {None}] /\ after \in [Names -> Handles \cup {None}]
      /\ handle \in [Handles -> Opened \cup {Closed}]
  BY Distinct DEF WindowsInv, FileInv, Types, FilesOK, ControlOK
<1>2. ASSUME UNCHANGED <<watched, dir, dirsLeft>>,
             \A n \in Names \ {handle[h].name} : after'[n] = h => after[n] = h
      PROVE  OtherPathsGone(h, p)'
  BY <1>2 DEF OtherPathsGone, SyncedBefore, Syncing
<1>3. CASE OpenFile \/ OpenFindsNone \/ SeekEnd \/ Rewind
  <2>1. UNCHANGED <<watched, dir, dirsLeft, after>>
    BY <1>3 DEF OpenFile, OpenFindsNone, SeekEnd, Rewind, mapVars, syncVars
  <2> QED
    BY <1>2, <2>1
<1>4. CASE CompareEntry
  <2>1. /\ UNCHANGED <<watched, dir, dirsLeft>>
        /\ \/ after' = after
           \/ \E n \in Names, g \in OpenHandles : handle[g].name = n /\ after' = [after EXCEPT ![n] = g]
    BY <1>1, <1>4, Compared
  <2>2. \A n \in Names \ {handle[h].name} : after'[n] = h => after[n] = h
    BY <1>1, <2>1
  <2> QED
    BY <1>2, <2>1, <2>2
<1>5. CASE ListDir
  <2>1. /\ ~Syncing /\ dirsLeft # <<>> /\ dir' = Head(dirsLeft) /\ dirsLeft' = Tail(dirsLeft)
        /\ watched' = watched /\ Syncing'
        /\ \A n \in Names : after'[n] = IF DirOf[n] # dir' THEN watched[n] ELSE None
    <3>1. dirsLeft # <<>> /\ Head(dirsLeft) \in Dirs
      BY <1>1, <1>5 DEF ListDir
    <3> QED
      BY <1>1, <1>5, <3>1, ConstantsAssumption DEF ListDir, FileInv, Position, Syncing, mapVars
  <2>2. ASSUME NEW d, SyncedBefore(p, d), d # dir' PROVE SyncedBefore(p, d)'
    <3>1. CASE \E k \in 1 .. p - 1 : Resyncs(events[k], d)
      BY <3>1 DEF SyncedBefore
    <3>2. ASSUME NEW k \in 1 .. Len(dirsLeft), dirsLeft[k] = d PROVE SyncedBefore(p, d)'
      <4>1. k # 1
        BY <1>1, <2>1, <2>2, <3>2
      <4>2. k - 1 \in 1 .. Len(dirsLeft') /\ dirsLeft'[k - 1] = d
        BY <1>1, <2>1, <3>2, <4>1
      <4> QED
        BY <4>2 DEF SyncedBefore
    <3> QED
      BY <2>2, <3>1, <3>2 DEF SyncedBefore
  <2> QED
    BY <1>1, <2>1, <2>2 DEF OtherPathsGone
<1>6. CASE FinishSync
  <2>1. /\ watched' = after /\ after' = NothingWatched /\ dirsLeft' = dirsLeft
    BY <1>6 DEF FinishSync
  <2>2. \A n \in Names : after'[n] # h
    BY <1>1, <2>1 DEF NothingWatched
  <2>3. \A d : SyncedBefore(p, d) => SyncedBefore(p, d)'
    BY <2>1 DEF SyncedBefore
  <2> QED
    BY <2>1, <2>2, <2>3 DEF OtherPathsGone
<1>7. CASE ReadNewLines
  <2>1. CASE SendLine \/ ReadBuffered \/ ReadChunk
    BY <1>2, <2>1 DEF SendLine, ReadBuffered, ReadChunk, mapVars, syncVars
  <2>2. CASE ReadEOF
    <3>1. UNCHANGED <<watched, dir, dirsLeft>> /\ ReturnToCaller
      BY <2>2 DEF ReadEOF, mapVars
    <3>2. \A n \in Names \ {handle[h].name} : after'[n] = h => after[n] = h
      BY <1>1, <3>1 DEF ReturnToCaller
    <3> QED
      BY <1>2, <3>1, <3>2
  <2>3. ~SendAborted
    BY DEF SendAborted
  <2> QED
    BY <1>7, <2>1, <2>2, <2>3 DEF ReadNewLines
<1> QED
  BY <1>3, <1>4, <1>5, <1>6, <1>7 DEF Working

LEMMA WorkingTold ==
  ASSUME WindowsInv, Running, Running', ReadInv, Working
  PROVE  AllTold'
<1>1. done' = done /\ UNCHANGED <<events, overflow>>
  BY DEF Working, ListDir, CompareEntry, OpenFile, OpenFindsNone, SeekEnd, Rewind, ReadNewLines, ReadBuffered,
     ReadChunk, ReadEOF, SendLine, SendAborted, FinishSync, windowsVars
<1> SUFFICES ASSUME ~done, NEW h \in Handles, handle'[h].open
             PROVE  Unconcerned(h)' \/ Told(h)'
  BY <1>1 DEF AllTold, OpenHandles
<1>2. \/ Unconcerned(h)'
      \/ h \in OpenHandles /\ ~Unconcerned(h) /\ handle'[h].name = handle[h].name
  BY WorkingNeeds DEF ReadInv
<1>3. ASSUME h \in OpenHandles, ~Unconcerned(h), handle'[h].name = handle[h].name PROVE Told(h)'
  <2>1. Told(h)
    BY <1>3 DEF ReadInv, AllTold
  <2>2. CASE overflow
    BY <1>1, <2>2 DEF Told
  <2>3. ASSUME NEW p \in 1 .. Len(events), events[p] = Event("Write", handle[h].name), OtherPathsGone(h, p)
        PROVE  Told(h)'
    <3>1. OtherPathsGone(h, p)'
      BY <1>1, <1>3, <2>3, WorkingPaths
    <3> QED
      BY <1>1, <1>3, <2>3, <3>1 DEF Told
  <2> QED
    BY <2>1, <2>2, <2>3 DEF Told
<1> QED
  BY <1>2, <1>3

-----------------------------------------------------------------------------
(* What is unread, and other programs.                                      *)

LEMMA EventsGrow ==
  ASSUME QueueOK, FileSystemOK, Programs, driver = "events", ~overflow'
  PROVE  /\ ~overflow /\ Len(events) <= Len(events')
         /\ \A k \in 1 .. Len(events) : events'[k] = events[k]
<1> DEFINE Goal == /\ ~overflow /\ Len(events) <= Len(events')
                   /\ \A k \in 1 .. Len(events) : events'[k] = events[k]
<1> SUFFICES Goal
  OBVIOUS
<1>1. ASSUME NEW es \in Seq(WindowsEvent), Emit(es) PROVE Goal
  <2>1. /\ ~overflow /\ Len(events) \in Nat /\ Len(es) \in Nat /\ Len(events') = Len(events) + Len(es)
        /\ \A k \in 1 .. Len(events) : events'[k] = events[k]
    BY <1>1, EmitGrows
  <2> QED
    BY <2>1
<1>2. ASSUME UNCHANGED <<events, overflow>> PROVE Goal
  <2>1. Len(events) \in Nat
    BY DEF QueueOK
  <2> QED
    BY <1>2, <2>1
<1> HIDE DEF Goal
<1>3. /\ \A n \in Names : <<Event("Name", n)>> \in Seq(WindowsEvent) /\ <<Event("Write", n)>> \in Seq(WindowsEvent)
      /\ \A m, n \in Names : <<Event("Name", m), Event("Name", n)>> \in Seq(WindowsEvent)
      /\ \A d \in Dirs : <<[op |-> "Name", dir |-> d, name |-> NoName]>> \in Seq(WindowsEvent)
  BY EventTypes
<1>4. CASE \E n \in Names : LockFile(n) \/ UnlockFile(n)
  BY <1>2, <1>4 DEF LockFile, UnlockFile
<1>5. CASE ~\E n \in Names : LockFile(n) \/ UnlockFile(n)
  <2>1. \E es \in Seq(WindowsEvent) : Emit(es)
    BY <1>3, <1>5 DEF Programs
  <2> QED
    BY <1>1, <2>1
<1> QED
  BY <1>4, <1>5

\* What was told stays told.
LEMMA ToldStill ==
  ASSUME QueueOK, NEW h, Told(h), UNCHANGED tailerVars, QueueOK',
         ~overflow' => /\ ~overflow /\ Len(events) <= Len(events')
                       /\ \A k \in 1 .. Len(events) : events'[k] = events[k]
  PROVE  Told(h)'
<1>1. CASE overflow'
  BY <1>1 DEF Told
<1>2. CASE ~overflow'
  <2>1. PICK p \in 1 .. Len(events) : events[p] = Event("Write", handle[h].name) /\ OtherPathsGone(h, p)
    BY <1>2 DEF Told
  <2>2. /\ Len(events) \in Nat /\ Len(events') \in Nat /\ Len(events) <= Len(events')
        /\ \A k \in 1 .. Len(events) : events'[k] = events[k]
    BY <1>2 DEF QueueOK
  <2>3. UNCHANGED <<handle, watched, after, dir, dirsLeft>>
    BY DEF tailerVars, mapVars, syncVars
  <2>4. p \in 1 .. Len(events') /\ events'[p] = events[p] /\ \A k \in 1 .. p - 1 : events'[k] = events[k]
    BY <2>1, <2>2
  <2>5. \A d : SyncedBefore(p, d) => SyncedBefore(p, d)'
    BY <2>3, <2>4 DEF SyncedBefore
  <2>6. OtherPathsGone(h, p)'
    BY <2>1, <2>3, <2>5 DEF OtherPathsGone, Syncing
  <2> QED
    BY <2>1, <2>3, <2>4, <2>6 DEF Told
<1> QED
  BY <1>1, <1>2

\* A file that is changed at the path that the tailer has it under: its Write comes
\* after the events of the names it had before.
LEMMA ChangeTold ==
  ASSUME WindowsInv, driver = "events", Running, WatchInv(Awaited), NEW h \in OpenHandles,
         UNCHANGED tailerVars, Emit(<<Event("Write", handle[h].name)>>)
  PROVE  Told(h)'
<1>1. FileInv /\ QueueOK /\ handle[h].name \in Names
  BY OpenIsOpened DEF WindowsInv, Opened
<1>2. CASE overflow'
  BY <1>2 DEF Told
<1>3. CASE ~overflow'
  <2>1. PICK es : es \in Seq(WindowsEvent) /\ es = <<Event("Write", handle[h].name)>>
    <3>1. <<Event("Write", handle[h].name)>> \in Seq(WindowsEvent)
      BY <1>1, EventTypes
    <3> QED
      BY <3>1
  <2>2. /\ ~overflow /\ Len(events) \in Nat /\ Len(events') = Len(events) + Len(es)
        /\ \A k \in 1 .. Len(events) : events'[k] = events[k]
        /\ \A k \in 1 .. Len(es) : events'[Len(events) + k] = es[k]
    BY <1>1, <1>3, <2>1, EmitGrows
  <2>3. PICK p \in Nat : p = Len(events) + 1
    BY <2>2
  <2>4. p \in 1 .. Len(events') /\ events'[p] = Event("Write", handle[h].name)
    <3>1. Len(es) = 1 /\ es[1] = Event("Write", handle[h].name)
      BY <2>1
    <3> QED
      BY <2>2, <2>3, <3>1
  <2>5. UNCHANGED <<handle, watched, after, dir, dirsLeft>>
    BY DEF tailerVars, mapVars, syncVars
  <2>6. ASSUME NEW d, Pending(Awaited, d) PROVE SyncedBefore(p, d)'
    <3>1. CASE \E k \in 1 .. Len(dirsLeft) : dirsLeft[k] = d
      BY <2>5, <3>1 DEF SyncedBefore
    <3>2. CASE d \in Awaited
      <4>1. PICK k \in 1 .. Len(events) : Resyncs(events[k], d)
        BY <2>2, <3>2 DEF Awaited, Awaits
      <4>2. k \in 1 .. p - 1 /\ events'[k] = events[k]
        BY <2>2, <2>3
      <4> QED
        BY <4>1, <4>2 DEF SyncedBefore
    <3> QED
      BY <2>6, <3>1, <3>2 DEF Pending
  <2>7. OtherPathsGone(h, p)'
    <3>1. PICK Due : Due = Awaited
      OBVIOUS
    <3>2. \A n \in Names \ {handle[h].name} :
            /\ after[n] = h => Pending(Due, DirOf[n])
            /\ watched[n] = h => Pending(Due, DirOf[n]) \/ (Syncing /\ DirOf[n] = dir)
      BY <1>1, <3>1, OtherPathsPending
    <3>3. \A d : Pending(Due, d) => SyncedBefore(p, d)'
      BY <2>6, <3>1
    <3> QED
      BY <2>5, <3>2, <3>3 DEF OtherPathsGone, Syncing
  <2> QED
    BY <2>4, <2>5, <2>7 DEF Told
<1> QED
  BY <1>2, <1>3

LEMMA ProgramsTold ==
  ASSUME WindowsInv, driver = "events", Running, WatchInv(Awaited), AllTold, Programs
  PROVE  AllTold'
<1>1. FileInv /\ Known /\ QueueOK /\ FileSystemOK /\ locked \subseteq Names
  BY DEF WindowsInv, DeliveryInv, LockedExist
<1>2. /\ FileChange \/ \E n \in Names : LockFile(n) \/ UnlockFile(n)
      /\ UNCHANGED <<tailerVars, done>> /\ QueueOK'
  BY <1>1, ProgramsAre
<1>3. UNCHANGED <<handle, pc, cur>> /\ OpenHandles' = OpenHandles
  BY <1>2 DEF OpenHandles, tailerVars, mapVars, readVars
<1>4. ~overflow' => /\ ~overflow /\ Len(events) <= Len(events')
                    /\ \A k \in 1 .. Len(events) : events'[k] = events[k]
  BY <1>1, EventsGrow
<1> SUFFICES ASSUME ~done, NEW h \in OpenHandles PROVE Unconcerned(h)' \/ Told(h)'
  BY <1>2, <1>3 DEF AllTold
<1>5. CASE Told(h)
  BY <1>1, <1>2, <1>4, <1>5, ToldStill
<1>6. handle[h].inode \in Inodes /\ history[handle[h].inode] \subseteq history'[handle[h].inode]
  BY <1>1, <1>2, ReaderTypes, PastKept
<1>7. CASE "locked" \in history[handle[h].inode] \/ (pc = "rewind" /\ cur = h)
  BY <1>3, <1>6, <1>7 DEF Unconcerned
<1>8. CASE NeedsNoEvent(h)
  <2>1. CASE \/ \E n \in Names : CreateFile(n) \/ DeleteFile(n)
             \/ \E m, n \in Names : RenameFile(m, n, DisturbsNames(m, n))
             \/ \E d \in Dirs : RemoveDir(d)
    <3>1. NeedsNoEvent(h)'
      BY <1>1, <1>2, <1>8, <2>1, OthersNeedNothing, DisturbsNamesPast
    <3> QED
      BY <3>1 DEF Unconcerned
  <2>2. ASSUME NEW n \in Names, Emit(<<Event("Write", n)>>),
               TruncateFile(n) \/ \E endsLine \in BOOLEAN : AppendPiece(n, endsLine)
        PROVE  Unconcerned(h)' \/ Told(h)'
    <3>1. CASE n # handle[h].name
      <4>1. NeedsNoEvent(h)'
        BY <1>1, <1>2, <1>8, <2>2, <3>1, OthersNeedNothing
      <4> QED
        BY <4>1 DEF Unconcerned
    <3>2. CASE n = handle[h].name
      BY <1>2, <2>2, <3>2, ChangeTold
    <3> QED
      BY <3>1, <3>2
  <2>3. CASE \E n \in Names : LockFile(n) \/ UnlockFile(n)
    <3>1. entry' = entry /\ content' = content
      BY <2>3 DEF LockFile, UnlockFile, fsVars
    <3> QED
      BY <1>3, <1>6, <1>8, <3>1 DEF NeedsNoEvent, Lost, ReadToEnd, Unconcerned
  <2> QED
    BY <2>1, <2>2, <2>3 DEF Programs
<1> QED
  BY <1>5, <1>7, <1>8 DEF AllTold, Unconcerned

-----------------------------------------------------------------------------
(* What is unread, and the events.                                          *)

\* When a Write that was to tell of a file is taken from the queue, its path is the
\* key under which watchedFiles has the file.
LEMMA FoundByPath ==
  ASSUME FileInv, WatchInv(Awaited), pc = "loop", NEW h \in OpenHandles, OtherPathsGone(h, 1)
  PROVE  watched[handle[h].name] = h
<1>1. ~Syncing /\ HandlesIn(watched) = OpenHandles
  BY Waiting, NothingHeld DEF FileInv, Custody
<1>2. dirsLeft = <<>> /\ Len(<<>>) = 0
  BY DEF WatchInv, OneSync
<1>3. PICK n \in Names : watched[n] = h
  BY <1>1 DEF HandlesIn
<1>4. ~SyncedBefore(1, DirOf[n])
  BY <1>2 DEF SyncedBefore
<1> QED
  BY <1>1, <1>3, <1>4 DEF OtherPathsGone

\* What the events behind the first one tell is still to be told when that one was
\* handled, and the directory it names is being synced.
LEMMA ToldLater ==
  ASSUME FileInv, QueueOK, WatchInv(Awaited), pc = "loop", NEW h \in OpenHandles, Told(h),
         events # <<>>, events' = Tail(events), overflow' = overflow,
         Head(events) = Event("Write", handle[h].name) => watched[handle[h].name] # h,
         \A d : Resyncs(Head(events), d) => \E k \in 1 .. Len(dirsLeft') : dirsLeft'[k] = d,
         UNCHANGED <<handle, watched, after, dir>>
  PROVE  Told(h)'
<1>1. events \in Seq(WindowsEvent) /\ Head(events) = events[1] /\ Len(events) \in Nat
  BY DEF QueueOK
<1>2. Len(events') = Len(events) - 1 /\ \A k \in 1 .. Len(events') : events'[k] = events[k + 1]
  BY <1>1
<1>3. dirsLeft = <<>> /\ Len(<<>>) = 0
  BY DEF WatchInv, OneSync
<1>4. CASE overflow
  BY <1>4 DEF Told
<1>5. ASSUME NEW p \in 1 .. Len(events), events[p] = Event("Write", handle[h].name), OtherPathsGone(h, p)
      PROVE  Told(h)'
  <2>1. p # 1
    BY <1>1, <1>5, FoundByPath
  <2>2. p \in Nat /\ p - 1 \in 1 .. Len(events')
    BY <1>1, <1>2, <2>1
  <2>3. events'[p - 1] = events[p]
    BY <1>2, <2>2
  <2>4. ASSUME NEW d, SyncedBefore(p, d) PROVE SyncedBefore(p - 1, d)'
    <3>1. PICK k \in 1 .. p - 1 : Resyncs(events[k], d)
      BY <1>3, <2>4 DEF SyncedBefore
    <3>2. CASE k = 1
      BY <1>1, <3>1, <3>2 DEF SyncedBefore
    <3>3. CASE k # 1
      <4>1. k - 1 \in 1 .. (p - 1) - 1 /\ k - 1 \in 1 .. Len(events') /\ (k - 1) + 1 = k
        BY <1>1, <1>2, <2>2, <3>1, <3>3
      <4>2. events'[k - 1] = events[k]
        BY <1>2, <4>1
      <4> QED
        BY <3>1, <4>1, <4>2 DEF SyncedBefore
    <3> QED
      BY <3>2, <3>3
  <2>5. OtherPathsGone(h, p - 1)'
    BY <1>5, <2>4 DEF OtherPathsGone, Syncing
  <2> QED
    BY <1>5, <2>2, <2>3, <2>5 DEF Told
<1> QED
  BY <1>4, <1>5 DEF Told

\* A Write has its file read, or sought in first; or the file is not where it was, and
\* then it needs none, or was locked.
LEMMA ProcessEventTold ==
  ASSUME WindowsInv, WatchInv(Awaited), AllTold, ProcessEvent
  PROVE  AllTold'
<1>1. /\ FileInv /\ QueueOK /\ LockedExist /\ events \in Seq(WindowsEvent) /\ events # <<>> /\ pc = "loop"
      /\ events' = Tail(events) /\ overflow' = overflow
      /\ UNCHANGED <<fsVars, done, handle, watched, after, dir>>
  BY DEF WindowsInv, QueueOK, ProcessEvent, Running, mapVars
<1>2. cur = None /\ HandlesIn(watched) = OpenHandles /\ OpenHandles' = OpenHandles
  BY <1>1, Waiting, NothingHeld DEF FileInv, Custody, OpenHandles
<1>3. PICK e \in WindowsEvent : e = Head(events)
  BY <1>1
<1>4. Written(e) \/ NameChanged(e)
  BY <1>3 DEF ProcessEvent
<1> SUFFICES ASSUME ~done, NEW h \in OpenHandles PROVE Unconcerned(h)' \/ Told(h)'
  BY <1>1, <1>2 DEF AllTold
<1>5. /\ h \in Handles /\ h # None /\ handle[h].name \in Names /\ handle[h].inode \in Inodes
      /\ NeedsNoEvent(h) \/ "locked" \in history[handle[h].inode] \/ Told(h)
  BY <1>1, Distinct, OpenIsOpened DEF OpenHandles, AllTold, Unconcerned, Opened
<1>6. CASE "locked" \in history[handle[h].inode]
  BY <1>1, <1>6 DEF Unconcerned, fsVars
<1>7. Event("Write", handle[h].name).name = handle[h].name /\ Event("Write", handle[h].name).op = "Write"
  BY DEF Event
<1>8. ASSUME cur' # h, e = Event("Write", handle[h].name) => watched[handle[h].name] # h,
             \A d : Resyncs(e, d) => \E k \in 1 .. Len(dirsLeft') : dirsLeft'[k] = d
      PROVE  Unconcerned(h)' \/ Told(h)'
  <2>1. CASE NeedsNoEvent(h)
    <3>1. NeedsNoEvent(h)'
      BY <1>1, <1>2, <1>5, <1>8, <2>1, NeedsNothingStill
    <3> QED
      BY <3>1 DEF Unconcerned
  <2>2. CASE Told(h)
    <3>1. Told(h)'
      BY <1>1, <1>3, <1>8, <2>2, ToldLater
    <3> QED
      BY <3>1
  <2> QED
    BY <1>5, <1>6, <2>1, <2>2
<1>9. ASSUME StartSyncOf(e.dir) PROVE \A d : Resyncs(e, d) => \E k \in 1 .. Len(dirsLeft') : dirsLeft'[k] = d
  <2>1. dirsLeft' = <<e.dir>>
    BY <1>9 DEF StartSyncOf
  <2>2. Len(dirsLeft') = 1 /\ dirsLeft'[1] = e.dir
    BY <2>1
  <2> QED
    BY <2>2 DEF Resyncs
<1>10. ASSUME e.op = "Write" PROVE \A d : ~Resyncs(e, d)
  BY <1>10 DEF Resyncs
<1>11. CASE NameChanged(e)
  <2>1. e.op = "Name" /\ StartSyncOf(e.dir) /\ cur' = cur
    BY <1>11 DEF NameChanged, StartSyncOf
  <2> QED
    BY <1>2, <1>5, <1>7, <1>8, <1>9, <2>1
<1>12. CASE e.op = "Write" /\ watched[e.name] = None /\ UNCHANGED <<cur, pc, dirsLeft>>
  BY <1>2, <1>5, <1>7, <1>8, <1>10, <1>12
<1>13. CASE e.op = "Write" /\ watched[e.name] # None /\ Examine(watched[e.name])
  <2>1. PICK r \in OpenHandles : r = watched[e.name]
    BY <1>2, <1>3, <1>13, EventIs DEF HandlesIn
  <2>2. cur' = r /\ pc' = IF Rewound(r) = handle THEN "read" ELSE "rewind"
    BY <1>13, <2>1 DEF Examine
  <2>3. CASE h = r /\ Rewound(r) = handle
    <3>1. NeedsNoEvent(r)'
      BY <1>1, <2>2, <2>3, ExaminedNeedsNothing
    <3> QED
      BY <2>3, <3>1 DEF Unconcerned
  <2>4. CASE h = r /\ Rewound(r) # handle
    BY <2>2, <2>4 DEF Unconcerned
  <2>5. CASE h # r
    BY <1>7, <1>8, <1>10, <1>13, <2>1, <2>2, <2>5
  <2> QED
    BY <2>3, <2>4, <2>5
<1>14. CASE e.op = "Write" /\ watched[e.name] # None /\ ~Reopens(watched[e.name]) /\ StartSyncOf(e.dir)
  <2>1. cur' = cur
    BY <1>14 DEF StartSyncOf
  <2>2. CASE watched[e.name] # h
    BY <1>2, <1>5, <1>7, <1>8, <1>9, <1>14, <2>1, <2>2
  <2>3. CASE watched[e.name] = h
    <3>1. CASE entry[handle[h].name] # handle[h].inode
      BY <1>1, <3>1 DEF NeedsNoEvent, Unconcerned, fsVars
    <3>2. CASE entry[handle[h].name] = handle[h].inode
      <4>1. handle[h].name \in locked
        BY <1>14, <2>3, <3>2 DEF Reopens
      <4> QED
        BY <1>1, <1>6, <3>2, <4>1 DEF LockedExist
    <3> QED
      BY <3>1, <3>2
  <2> QED
    BY <2>2, <2>3
<1> QED
  BY <1>4, <1>11, <1>12, <1>13, <1>14 DEF Written

LEMMA WindowsReadsNext ==
  ASSUME WindowsInv, WindowsWatched, WindowsReads, [WindowsNext]_allVars
  PROVE  WindowsReads'
<1> SUFFICES ASSUME driver' = "events", Running' PROVE ReadInv'
  BY DEF WindowsReads
<1>1. driver = "events" /\ Running
  BY GoesOn
<1>2. FileInv /\ WatchInv(Awaited) /\ ReadInv /\ NameKept /\ WithinFiles /\ AllTold
  BY <1>1 DEF WindowsInv, WindowsWatched, WindowsReads, ReadInv
<1>3. CASE Programs
  BY <1>1, <1>2, <1>3, ProgramsKeepNames, ProgramsTold DEF ReadInv
<1>4. CASE Working
  BY <1>1, <1>2, <1>4, WorkingKeepsNames, WorkingTold DEF ReadInv
<1>5. ASSUME UNCHANGED <<fsVars, handle, listing>> PROVE NameKept' /\ WithinFiles'
  BY <1>2, <1>5, NothingRenamed, StaysWithin DEF SameFiles, fsVars
<1>6. CASE ProcessEvent
  <2>1. UNCHANGED <<fsVars, handle, listing>>
    BY <1>6 DEF ProcessEvent, mapVars
  <2>2. AllTold'
    BY <1>2, <1>6, ProcessEventTold
  <2> QED
    BY <1>5, <2>1, <2>2 DEF ReadInv
<1>7. CASE CloseTailer
  <2>1. UNCHANGED <<entry, content, history, handle, listing>> /\ done'
    BY <1>7 DEF CloseTailer, tailerVars, mapVars, syncVars
  <2>2. NameKept'
    BY <1>2, <2>1, NothingRenamed DEF SameFiles
  <2>3. WithinFiles'
    BY <1>2, <2>1 DEF WithinFiles, OpenHandles
  <2> QED
    BY <2>1, <2>2, <2>3 DEF ReadInv, AllTold
<1>8. CASE UNCHANGED allVars
  <2>1. /\ UNCHANGED <<fsVars, handle, listing, done, pc, cur>>
        /\ UNCHANGED <<watched, after, dir, dirsLeft, events, overflow>>
    BY <1>8 DEF allVars, vars, tailerVars, mapVars, syncVars, readVars, windowsVars
  <2>2. \A h : (Unconcerned(h)' <=> Unconcerned(h)) /\ (Told(h)' <=> Told(h))
    BY <2>1 DEF Unconcerned, NeedsNoEvent, Lost, ReadToEnd, Told, OtherPathsGone, SyncedBefore, Syncing, fsVars
  <2>3. AllTold'
    BY <1>2, <2>1, <2>2 DEF AllTold, OpenHandles
  <2> QED
    BY <1>5, <2>1, <2>3 DEF ReadInv
<1>9. ~ReadFails /\ ~WatcherError /\ ~ListFails /\ ~Shutdown /\ ~WindowsPoll
  BY <1>1 DEF ReadFails, WatcherError, ListFails, Shutdown, WindowsPoll, Fails, Running
<1> QED
  BY <1>3, <1>4, <1>6, <1>7, <1>8, <1>9 DEF WindowsNext, Tailer, Sync, Read, Working

\* On Windows, once the events of fsnotify are used up, every watched file was read
\* to its end, whatever was renamed, replaced or truncated between any two of the
\* opens.  A Write that finds its file gone from its path leads to a sync, and the
\* sync reads the file under its new name.  Excepted are files that were locked, both
\* renamed and truncated, or back at the name the tailer had them under
\* (fswatcher_windows.go: processEvent; fswatcher.go: syncFilesInDir, readNewLines).
THEOREM WindowsAllReadAtRest == WindowsSpec => []AllReadAtRest
<1>1. WindowsInit => WindowsInv /\ WindowsWatched /\ WindowsReads
  <2>1. WindowsInit => WatchInv(Awaited)
    BY WatchInvInit DEF WindowsInit
  <2> QED
    BY <2>1, WindowsInvInit, ReadInvInit DEF WindowsWatched, WindowsReads
<1>2. WindowsInv /\ WindowsWatched /\ WindowsReads /\ [WindowsNext]_allVars
        => WindowsInv' /\ WindowsWatched' /\ WindowsReads'
  BY WindowsInvNext, WindowsWatchedNext, WindowsReadsNext
<1>3. WindowsInv /\ WindowsWatched /\ WindowsReads => AllReadAtRest
  <2> SUFFICES ASSUME WindowsInv, WindowsWatched, WindowsReads, AtRest, ~done, NEW h \in HandlesIn(watched)
               PROVE  ReadUp(h) \/ "back" \in history[handle[h].inode]
    BY DEF AllReadAtRest
  <2>1. PICK Due : Due = Awaited
    OBVIOUS
  <2>2. Due = {} /\ pc = "loop" /\ FileInv /\ WatchInv(Due) /\ AllTold
    BY <2>1 DEF AtRest, Awaited, Awaits, WindowsInv, WindowsWatched, WindowsReads, ReadInv, Running
  <2>3. WatchListCurrent
    BY <2>2, WatchInvImplies
  <2>4. PICK n \in Names : h = watched[n] /\ h # None
    BY DEF HandlesIn
  <2>5. handle[h].name = n /\ entry[n] = handle[h].inode
    BY <2>3, <2>4 DEF WatchListCurrent
  <2>6. h \in OpenHandles /\ cur = None
    BY <2>2, Waiting DEF FileInv, Custody
  <2>7. Unconcerned(h)
    BY <2>2, <2>6 DEF AllTold, Told, AtRest
  <2> QED
    BY <2>2, <2>4, <2>5, <2>6, <2>7 DEF Unconcerned, NeedsNoEvent, ReadUp, Lost
<1> QED
  BY <1>1, <1>2, <1>3, PTL DEF WindowsSpec
=============================================================================
