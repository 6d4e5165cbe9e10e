-------------------------- MODULE KqueueTailerProofs --------------------------
(***************************************************************************)
(* KqueueTailer for any paths, directories, files and bounds: the numbers  *)
(* of the descriptors tell the open files apart, the tailer works on open  *)
(* files only and leaks none, delivers each line once and in order, and    *)
(* comes to rest with all files watched that are there and read to their   *)
(* end.                                                                    *)
(***************************************************************************)
EXTENDS KqueueTailer, FileTailerProofs, FiniteSetTheorems, WellFoundedInduction

Flags == {"WRITE", "ATTRIB", "DELETE"}

\* kqueue keeps no watch that a directory can lose, so watchedDirs never changes.
KqueueInv ==
  /\ FileInv
  /\ watchedDirs = DirSeq
  /\ DescriptorsOK
  /\ pending \in [Fds -> SUBSET Flags]
  /\ batch \in [Fds -> SUBSET Flags]

LEMMA FlagsSuffice ==
  ASSUME pending \in [Fds -> SUBSET Flags], batch \in [Fds -> SUBSET Flags]
  PROVE  {pending[f] : f \in Fds} \cup {batch[f] : f \in Fds} \subseteq SUBSET {"WRITE", "ATTRIB", "DELETE"}
  BY DEF Flags

-----------------------------------------------------------------------------
(* The descriptor of a new file.                                            *)

Below == {p \in Nat \X Nat : p[1] < p[2]}

LEMMA LeastNumber ==
  ASSUME NEW T \in SUBSET Nat, T # {}
  PROVE  \E x \in T : \A y \in T : x <= y
<1>1. IsWellFoundedOn(Below, Nat)
  BY NatLessThanWellFounded DEF OpToRel, Below
<1>2. PICK x \in T : \A y \in T : ~(<<y, x>> \in Below)
  BY <1>1, WFMin
<1>3. ASSUME NEW y \in T PROVE x <= y
  <2>1. x \in Nat /\ y \in Nat /\ ~(<<y, x>> \in Below)
    BY <1>2
  <2>2. ~(y < x)
    BY <2>1 DEF Below
  <2> QED
    BY <2>1, <2>2
<1> QED
  BY <1>3

\* There is one number more than there are files, so one is free.
LEMMA FreeDescriptor ==
  FileFds \ {fd[h] : h \in Handles} # {}
<1> DEFINE n == Len(DirSeq)
<1>1. n \in Nat /\ MaxHandles \in Nat
  BY ConstantsAssumption
<1>2. FileFds = n + 1 .. n + MaxHandles + 1
  BY DEF FileFds
<1> HIDE DEF n
<1>3. IsFiniteSet(FileFds) /\ Cardinality(FileFds) = MaxHandles + 1
  <2>1. n + 1 \in Int /\ n + MaxHandles + 1 \in Int /\ ~(n + 1 > n + MaxHandles + 1)
    BY <1>1
  <2>2. IsFiniteSet(FileFds) /\ Cardinality(FileFds) = (n + MaxHandles + 1) - (n + 1) + 1
    BY <1>2, <2>1, FS_Interval
  <2> QED
    BY <1>1, <2>2
<1>4. IsFiniteSet(Handles) /\ Cardinality(Handles) = MaxHandles
  <2>1. 1 \in Int /\ MaxHandles \in Int
    BY <1>1
  <2>2. IsFiniteSet(Handles) /\ Cardinality(Handles) = IF 1 > MaxHandles THEN 0 ELSE MaxHandles - 1 + 1
    BY <2>1, FS_Interval DEF Handles
  <2> QED
    BY <1>1, <2>2
<1> SUFFICES ASSUME \A f \in FileFds : \E h \in Handles : fd[h] = f
             PROVE  FALSE
  OBVIOUS
<1> DEFINE g == [f \in FileFds |-> CHOOSE h \in Handles : fd[h] = f]
<1>5. g \in [FileFds -> Handles] /\ \A f \in FileFds : fd[g[f]] = f
  OBVIOUS
<1> HIDE DEF g
<1>6. Cardinality(Handles) < Cardinality(FileFds)
  BY <1>1, <1>3, <1>4
<1>7. \E e, f \in FileFds : e # f /\ g[e] = g[f]
  BY <1>3, <1>4, <1>5, <1>6, FS_PigeonHole
<1> QED
  BY <1>5, <1>7

LEMMA LowestDescriptor ==
  ASSUME NEW free, free = FileFds \ {fd[h] : h \in Handles}
  PROVE  (CHOOSE f \in free : \A g \in free : f <= g) \in free
<1>1. free \in SUBSET Nat
  BY ConstantsAssumption DEF FileFds
<1>2. \E f \in free : \A g \in free : f <= g
  BY <1>1, FreeDescriptor, LeastNumber
<1> QED
  BY <1>2

\* A step of the goroutine opens one file at most, or gives one a new name.
OneNewFile ==
  \E u : \A h \in Handles : h # u /\ handle'[h].open => handle[h].open /\ handle'[h].name = handle[h].name

LEMMA GoroutineOpensOne ==
  ASSUME FileInv, Goroutine \/ ListRemoved
  PROVE  OneNewFile
<1>1. handle \in [Handles -> Opened \cup {Closed}] /\ ~Closed.open
  BY DEF FileInv, Types, FilesOK, Closed
<1>2. ASSUME handle' = handle PROVE OneNewFile
  BY <1>2 DEF OneNewFile
<1>3. ASSUME NEW hs, handle' = Close(hs) PROVE OneNewFile
  BY <1>1, <1>3 DEF OneNewFile, Close
<1>4. ASSUME NEW u, NEW file, handle' = [handle EXCEPT ![u] = file] PROVE OneNewFile
  <2>1. \A h \in Handles : h # u => handle'[h] = handle[h]
    BY <1>1, <1>4
  <2> QED
    BY <2>1 DEF OneNewFile
<1>5. CASE SyncEntry
  <2>1. PICK n, i :
          \/ \E h \in Handles : AlreadyWatched(n, i, h) \/ FollowRenamed(n, i, h)
          \/ OpenNew(n, i)
          \/ OpenFindsNothing(n, i)
    BY <1>5 DEF SyncEntry
  <2>2. ASSUME NEW h \in Handles, FollowRenamed(n, i, h) PROVE OneNewFile
    <3>1. \A g \in Handles : g # h => handle'[g] = handle[g]
      BY <1>1, <2>2 DEF FollowRenamed
    <3> QED
      BY <3>1 DEF OneNewFile
  <2>3. ASSUME OpenNew(n, i) PROVE OneNewFile
    BY <1>4, <2>3 DEF OpenNew
  <2> QED
    BY <1>2, <2>1, <2>2, <2>3 DEF AlreadyWatched, OpenFindsNothing
<1>6. CASE ReadBuffered \/ ReadChunk
  BY <1>6, ReadKeepsFiles DEF SameFiles, OneNewFile
<1>7. CASE FinishSync \/ Shutdown
  BY <1>3, <1>7 DEF FinishSync, Shutdown
<1>8. CASE StartSync \/ ListRemoved \/ ListFails \/ (\E n \in Names : LstatEntry(n))
  BY <1>2, <1>8 DEF StartSync, ListRemoved, ListNext, ListFails, LstatEntry, mapVars
<1>9. CASE ReadEOF \/ SendLine \/ SendAborted
  BY <1>2, <1>9 DEF ReadEOF, SendLine, SendAborted, mapVars
<1> QED
  BY <1>5, <1>6, <1>7, <1>8, <1>9 DEF Goroutine, ReadNewLines

LEMMA DescriptorsStep ==
  ASSUME FileInv, FileInv', DescriptorsOK, pending \in [Fds -> SUBSET Flags], batch \in [Fds -> SUBSET Flags],
         OneNewFile, Descriptors, UNCHANGED batch
  PROVE  DescriptorsOK' /\ pending' \in [Fds -> SUBSET Flags]
<1> DEFINE Keeps(h) == handle[h].open /\ handle'[h].open /\ handle'[h].name = handle[h].name
           free == FileFds \ {fd[h] : h \in Handles}
           lowest == CHOOSE f \in free : \A g \in free : f <= g
<1>1. /\ fd' = [h \in Handles |-> IF ~handle'[h].open THEN None ELSE IF Keeps(h) THEN fd[h] ELSE lowest]
      /\ registered' = {h \in registered : Keeps(h)}
      /\ pending' = [f \in Fds |-> IF \E h \in Handles : fd[h] = f /\ fd'[h] # f THEN {} ELSE pending[f]]
  BY DEF Descriptors
<1>2. lowest \in FileFds /\ \A h \in Handles : lowest # fd[h]
  <2>1. lowest \in free
    BY LowestDescriptor
  <2> QED
    BY <2>1
<1> HIDE DEF lowest, free
<1>3. None \notin FileFds
  BY ConstantsAssumption DEF FileFds, None
<1>4. /\ \A h \in Handles : handle[h].open \in BOOLEAN /\ handle'[h].open \in BOOLEAN
      /\ fd \in [Handles -> FileFds \cup {None}] /\ \A h \in Handles : (fd[h] # None) = handle[h].open
      /\ \A g, h \in OpenHandles : fd[g] = fd[h] => g = h
      /\ registered \subseteq OpenHandles
  <2>1. Closed.open = FALSE /\ \A h \in Opened : h.open = TRUE
    <3>1. Closed.open = FALSE
      BY DEF Closed
    <3>2. \A h \in Opened : h.open = TRUE
      BY DEF Opened
    <3> QED
      BY <3>1, <3>2
  <2>2. handle \in [Handles -> Opened \cup {Closed}] /\ handle' \in [Handles -> Opened \cup {Closed}]
    BY DEF FileInv, Types, FilesOK
  <2>3. ASSUME NEW h \in Handles PROVE handle[h].open \in BOOLEAN /\ handle'[h].open \in BOOLEAN
    <3>1. handle[h] \in Opened \cup {Closed} /\ handle'[h] \in Opened \cup {Closed}
      BY <2>2
    <3> QED
      BY <2>1, <3>1
  <2> QED
    BY <2>3 DEF DescriptorsOK
<1>5. fd' \in [Handles -> FileFds \cup {None}]
  BY <1>1, <1>2, <1>4
<1>6. ASSUME NEW h \in Handles PROVE (fd'[h] # None) = handle'[h].open
  BY <1>1, <1>2, <1>3, <1>4
<1>7. ASSUME NEW g \in OpenHandles', NEW h \in OpenHandles', fd'[g] = fd'[h] PROVE g = h
  <2>1. g \in Handles /\ h \in Handles /\ handle'[g].open /\ handle'[h].open
    BY DEF OpenHandles
  <2>2. fd'[g] = (IF Keeps(g) THEN fd[g] ELSE lowest) /\ fd'[h] = (IF Keeps(h) THEN fd[h] ELSE lowest)
    BY <1>1, <2>1
  <2>3. Keeps(g) => g \in OpenHandles
    BY <2>1 DEF OpenHandles
  <2>4. Keeps(h) => h \in OpenHandles
    BY <2>1 DEF OpenHandles
  <2>5. Keeps(g) \/ Keeps(h) \/ g = h
    BY <2>1 DEF OneNewFile
  <2> HIDE DEF Keeps
  <2> QED
    BY <1>2, <1>4, <1>7, <2>1, <2>2, <2>3, <2>4, <2>5
<1>8. registered' \subseteq OpenHandles'
  BY <1>1, <1>4 DEF OpenHandles
<1>9. pending' \in [Fds -> SUBSET Flags]
  BY <1>1
<1>10. {pending'[f] : f \in Fds} \cup {batch'[f] : f \in Fds} \subseteq SUBSET {"WRITE", "ATTRIB", "DELETE"}
  BY <1>9 DEF Flags
<1> QED
  BY <1>5, <1>6, <1>7, <1>8, <1>9, <1>10 DEF DescriptorsOK

\* The descriptors when the open files stay the same.
LEMMA DescriptorsKeep ==
  ASSUME DescriptorsOK, OpenHandles' = OpenHandles,
         \A h \in Handles : handle'[h].open = handle[h].open,
         fd' = fd, registered' \subseteq OpenHandles,
         pending' \in [Fds -> SUBSET Flags], batch' \in [Fds -> SUBSET Flags]
  PROVE  DescriptorsOK'
<1>1. {pending'[f] : f \in Fds} \cup {batch'[f] : f \in Fds} \subseteq SUBSET {"WRITE", "ATTRIB", "DELETE"}
  BY DEF Flags
<1> QED
  BY <1>1 DEF DescriptorsOK

LEMMA StepKeeps == ASSUME KqueueInv, Step PROVE KqueueInv'
<1>1. /\ FileInv /\ watchedDirs = DirSeq /\ DescriptorsOK
      /\ pending \in [Fds -> SUBSET Flags] /\ batch \in [Fds -> SUBSET Flags]
  BY DEF KqueueInv
<1>2. Goroutine \/ ListRemoved
  BY DEF Step
<1>3. FileInv'
  BY <1>1, <1>2, GoroutineStep, ListNextStep DEF ListRemoved
<1>4. watchedDirs' = watchedDirs
  BY <1>2 DEF Goroutine, ListRemoved, StartSync, ListNext, ListFails, LstatEntry, SyncEntry, FinishSync,
     ReadNewLines, ReadBuffered, ReadChunk, ReadEOF, SendLine, SendAborted, Shutdown, mapVars
<1>5. DescriptorsOK' /\ pending' \in [Fds -> SUBSET Flags]
  BY <1>1, <1>2, <1>3, GoroutineOpensOne, DescriptorsStep DEF Step
<1> QED
  BY <1>1, <1>3, <1>4, <1>5 DEF KqueueInv, Step

-----------------------------------------------------------------------------
(* The kernel and the events.                                               *)

LEMMA NoteTyped ==
  ASSUME pending \in [Fds -> SUBSET Flags], NEW fds, NEW flag \in Flags, Note(fds, flag)
  PROVE  pending' \in [Fds -> SUBSET Flags]
  BY DEF Note

LEMMA KqueueFileSystem == ASSUME KqueueInv, FileSystem PROVE KqueueInv'
<1>1. /\ FileInv /\ watchedDirs = DirSeq /\ DescriptorsOK
      /\ pending \in [Fds -> SUBSET Flags] /\ batch \in [Fds -> SUBSET Flags]
  BY DEF KqueueInv
<1>2. /\ UNCHANGED <<tailerVars, done, fd, registered, batch>>
      /\ handle' = handle /\ watchedDirs' = watchedDirs
  BY DEF FileSystem, tailerVars, mapVars
<1>3. FileInv'
  BY <1>1, <1>2, FileSystemStep, DisturbsPast DEF FileSystem
<1>4. pending' \in [Fds -> SUBSET Flags]
  BY <1>1, NoteTyped DEF FileSystem, Flags
<1>5. DescriptorsOK'
  BY <1>1, <1>2, <1>4, DescriptorsKeep DEF OpenHandles, DescriptorsOK
<1> QED
  BY <1>1, <1>2, <1>3, <1>4, <1>5 DEF KqueueInv

LEMMA KqueueProcessEvent == ASSUME KqueueInv, ProcessEvent PROVE KqueueInv'
<1>1. /\ FileInv /\ watchedDirs = DirSeq /\ DescriptorsOK
      /\ pending \in [Fds -> SUBSET Flags] /\ batch \in [Fds -> SUBSET Flags]
  BY DEF KqueueInv
<1>2. /\ pc = "loop" /\ cur = None /\ filesLeft = {}
      /\ UNCHANGED <<fsVars, watched, watchedDirs, dir, toStat, listing, after, filesLeft,
                     line, delivered, done, fd, registered, pending>>
  BY <1>1, Waiting DEF ProcessEvent
<1>3. PICK f \in Fds :
        /\ DirDeleted(f) \/ DirWritten(f) \/ FileTruncated(f) \/ FileWritten(f) \/ UnknownDescriptor(f)
        /\ batch' = [batch EXCEPT ![f] = {}]
  BY DEF ProcessEvent
<1>4. batch' \in [Fds -> SUBSET Flags] /\ pending' \in [Fds -> SUBSET Flags]
  BY <1>1, <1>2, <1>3
<1>5. CASE DirDeleted(f) \/ DirWritten(f) \/ UnknownDescriptor(f)
  <2>1. handle' = handle /\ cur' = cur
    BY <1>5 DEF DirDeleted, DirWritten, UnknownDescriptor
  <2>2. FileInv'
    <3>1. dirsLeft' \in Seq(Dirs)
      <4>1. CASE DirWritten(f)
        BY <4>1 DEF DirWritten, Dirs
      <4> QED
        BY <1>1, <1>5, <4>1 DEF DirDeleted, UnknownDescriptor, FileInv, Types, ControlOK
    <3> QED
      BY <1>1, <1>2, <1>5, <2>1, <3>1, NothingReadStep DEF DirDeleted, DirWritten, UnknownDescriptor
  <2>3. DescriptorsOK'
    BY <1>1, <1>2, <1>4, <2>1, DescriptorsKeep DEF OpenHandles, DescriptorsOK
  <2> QED
    BY <1>1, <1>2, <1>4, <2>2, <2>3 DEF KqueueInv
<1>6. CASE FileTruncated(f) \/ FileWritten(f)
  <2>1. PICK h \in HandlesIn(watched) :
          /\ handle' \in {handle, Rewound(h)}
          /\ \/ cur' = h /\ pc' = "read"
             \/ cur' = cur /\ pc' = "loop" /\ filesLeft' = {}
    BY <1>2, <1>6 DEF FileTruncated, FileWritten, WatchedAt
  <2>2. h \in OpenHandles
    BY <1>1 DEF FileInv, Custody
  <2>3. FileInv'
    BY <1>1, <1>2, <1>6, <2>1, FileEventStep DEF FileTruncated, FileWritten, syncVars
  <2>4. \A g \in Handles : handle'[g].open = handle[g].open
    BY <1>1, <2>1, <2>2, RewoundFile
  <2>5. DescriptorsOK'
    BY <1>1, <1>2, <1>4, <2>4, DescriptorsKeep DEF OpenHandles, DescriptorsOK
  <2> QED
    BY <1>1, <1>2, <1>4, <2>3, <2>5 DEF KqueueInv
<1> QED
  BY <1>3, <1>5, <1>6

-----------------------------------------------------------------------------
(* The invariant.                                                           *)

LEMMA KqueueInvInit == ASSUME KqueueInit PROVE KqueueInv
<1>1. Init /\ fd = [h \in Handles |-> None] /\ registered = {} /\ pending = NoEvents /\ batch = NoEvents
  BY DEF KqueueInit
<1>2. FileInv /\ watchedDirs = DirSeq
  BY <1>1, FileInvInit DEF Init
<1>3. pending \in [Fds -> SUBSET Flags] /\ batch \in [Fds -> SUBSET Flags]
  BY <1>1 DEF NoEvents
<1>4. \A h \in Handles : handle[h].open = FALSE
  BY <1>1 DEF Init, Closed
<1>5. DescriptorsOK
  BY <1>1, <1>3, <1>4, FlagsSuffice DEF DescriptorsOK, OpenHandles
<1> QED
  BY <1>2, <1>3, <1>5 DEF KqueueInv

LEMMA KqueueInvNext ==
  ASSUME KqueueInv, [KqueueNext]_allVars
  PROVE  KqueueInv'
<1>1. /\ FileInv /\ watchedDirs = DirSeq /\ DescriptorsOK
      /\ pending \in [Fds -> SUBSET Flags] /\ batch \in [Fds -> SUBSET Flags]
  BY DEF KqueueInv
<1>2. ASSUME UNCHANGED <<vars, fd>>, registered' \subseteq OpenHandles,
             pending' \in [Fds -> SUBSET Flags], batch' \in [Fds -> SUBSET Flags]
      PROVE  KqueueInv'
  <2>1. handle' = handle /\ watchedDirs' = watchedDirs
    BY <1>2 DEF vars, tailerVars, mapVars
  <2>2. FileInv'
    BY <1>1, <1>2, NothingHappens
  <2>3. DescriptorsOK'
    BY <1>1, <1>2, <2>1, DescriptorsKeep DEF OpenHandles
  <2> QED
    BY <1>1, <1>2, <2>1, <2>2, <2>3 DEF KqueueInv
<1>3. CASE FileSystem
  BY <1>3, KqueueFileSystem
<1>4. CASE Kevent
  <2>1. NoEvents \in [Fds -> SUBSET Flags]
    BY DEF NoEvents
  <2> QED
    BY <1>1, <1>2, <1>4, <2>1 DEF Kevent, DescriptorsOK
<1>5. CASE WatchFile
  <2>1. cur \in OpenHandles
    BY <1>1, <1>5 DEF WatchFile, FileInv, Position, Custody
  <2> QED
    BY <1>1, <1>2, <1>5, <2>1 DEF WatchFile, DescriptorsOK
<1>6. CASE ProcessEvent
  BY <1>6, KqueueProcessEvent
<1>7. CASE Step
  BY <1>7, StepKeeps
<1>8. CASE CloseTailer /\ Operation("close") /\ UNCHANGED kqueueVars
  <2>1. handle' = handle /\ watchedDirs' = watchedDirs /\ UNCHANGED <<fd, registered, pending, batch>>
    BY <1>8 DEF CloseTailer, tailerVars, mapVars, kqueueVars
  <2>2. FileInv'
    <3>1. ops' \in 0 .. MaxOps
      BY <1>1, <1>8, OperationCounts DEF FileInv, Types
    <3> QED
      BY <1>1, <1>8, <3>1, CloseTailerStep
  <2>3. DescriptorsOK'
    BY <1>1, <2>1, DescriptorsKeep DEF OpenHandles, DescriptorsOK
  <2> QED
    BY <1>1, <2>1, <2>2, <2>3 DEF KqueueInv
<1>9. CASE UNCHANGED allVars
  BY <1>1, <1>2, <1>9 DEF allVars, kqueueVars, DescriptorsOK
<1> QED
  BY <1>3, <1>4, <1>5, <1>6, <1>7, <1>8, <1>9 DEF KqueueNext

-----------------------------------------------------------------------------
(* The theorems.                                                            *)

\* In every reachable state the descriptors name the open files, one number
\* each, although the number of a closed file is given to the next one; only
\* open files are registered with kqueue, and there is a free number for every
\* file that may be opened (fswatcher_darwin.go: watchFile, processEvent).
THEOREM KqueueTypeCorrect == KqueueSpec => []KqueueTypeOK
<1>1. KqueueInit => KqueueInv
  BY KqueueInvInit
<1>2. KqueueInv /\ [KqueueNext]_allVars => KqueueInv'
  BY KqueueInvNext
<1>3. KqueueInv => KqueueTypeOK
  <2>1. ASSUME KqueueInv PROVE TypeOK
    BY <2>1, ConstantsAssumption DEF KqueueInv, FileInv, Types, TypeOK
  <2> QED
    BY <2>1 DEF KqueueInv, KqueueTypeOK
<1> QED
  BY <1>1, <1>2, <1>3, PTL DEF KqueueSpec

\* Whatever file has got the number of a closed one, the goroutine works on
\* open files only; whenever it is back in its loop the open files are those of
\* watchedFiles; after shutdown none is open (fswatcher.go, fswatcher_darwin.go:
\* processEvent, shutdown).
THEOREM KqueueOpenFilesWatched == KqueueSpec => []OpenFilesWatched
<1>1. KqueueInit => KqueueInv
  BY KqueueInvInit
<1>2. KqueueInv /\ [KqueueNext]_allVars => KqueueInv'
  BY KqueueInvNext
<1>3. KqueueInv => OpenFilesWatched
  BY FileInvImplies DEF KqueueInv
<1> QED
  BY <1>1, <1>2, <1>3, PTL DEF KqueueSpec

LEMMA KqueueDelivers ==
  ASSUME KqueueInv, SyncInv, [KqueueNext]_allVars
  PROVE  SyncInv'
<1>1. FileInv
  BY DEF KqueueInv
<1>2. CASE FileSystem
  BY <1>1, <1>2, FileSystemSees DEF FileSystem
<1>3. CASE Kevent \/ WatchFile \/ UNCHANGED allVars
  BY <1>1, <1>3, NothingSeen DEF Kevent, WatchFile, allVars
<1>4. CASE ProcessEvent
  <2>1. /\ pc = "loop"
        /\ UNCHANGED <<fsVars, watched, dir, toStat, listing, after, line, delivered, done>>
    BY <1>4 DEF ProcessEvent
  <2>2. PICK f \in Fds :
          DirDeleted(f) \/ DirWritten(f) \/ FileTruncated(f) \/ FileWritten(f) \/ UnknownDescriptor(f)
    BY <1>4 DEF ProcessEvent
  <2>3. CASE DirDeleted(f) \/ DirWritten(f) \/ UnknownDescriptor(f)
    BY <1>1, <2>1, <2>3, NothingReadSees DEF DirDeleted, DirWritten, UnknownDescriptor
  <2>4. CASE FileTruncated(f) \/ FileWritten(f)
    <3>1. PICK h \in HandlesIn(watched) :
            /\ handle' \in {handle, Rewound(h)}
            /\ \/ cur' = h /\ pc' = "read"
               \/ cur' = cur /\ pc' = "loop"
      BY <2>1, <2>4 DEF FileTruncated, FileWritten, WatchedAt
    <3> QED
      BY <1>1, <2>1, <3>1, FileEventSees
  <2> QED
    BY <2>2, <2>3, <2>4
<1>5. CASE Step
  BY <1>1, <1>5, GoroutineSees, ListNextSees DEF Step, ListRemoved
<1>6. CASE CloseTailer /\ Operation("close") /\ UNCHANGED kqueueVars
  BY <1>1, <1>6, CloseTailerSees
<1> QED
  BY <1>2, <1>3, <1>4, <1>5, <1>6 DEF KqueueNext

\* With kqueue no line of a file is delivered twice, skipped or out of order before
\* Close, whichever events the kernel merges or hands over for a file that is closed
\* by then.  ExactlyOnce excepts the files that were truncated, left their directory,
\* left the matching names and returned, or were renamed in one of the two ways
\* that disturb a sync, see Disturbs (fswatcher.go, fswatcher_darwin.go).
THEOREM KqueueExactlyOnce == KqueueSpec => []ExactlyOnce
<1>1. KqueueInit => KqueueInv /\ SyncInv
  BY KqueueInvInit, SyncInvInit DEF KqueueInit
<1>2. KqueueInv /\ SyncInv /\ [KqueueNext]_allVars => KqueueInv' /\ SyncInv'
  BY KqueueInvNext, KqueueDelivers
<1>3. SyncInv => ExactlyOnce
  BY SyncInvImplies
<1> QED
  BY <1>1, <1>2, <1>3, PTL DEF KqueueSpec

-----------------------------------------------------------------------------
(* The watch list.                                                          *)

\* The directories with an event of the kernel or of the batch.
Awaited == {d \in Dirs : pending[DirFd(d)] \cup batch[DirFd(d)] # {}}

LEMMA DirFds ==
  ASSUME NEW d \in Dirs
  PROVE  /\ DirFd(d) \in 1 .. Len(DirSeq) /\ DirSeq[DirFd(d)] = d
         /\ DirFd(d) \in Fds /\ DirFd(d) \notin FileFds /\ DirFd(d) # None
<1>1. \E i \in 1 .. Len(DirSeq) : DirSeq[i] = d
  BY DEF Dirs
<1>2. DirFd(d) \in 1 .. Len(DirSeq) /\ DirSeq[DirFd(d)] = d
  BY <1>1 DEF DirFd
<1> HIDE DEF DirFd
<1>3. Len(DirSeq) \in Nat /\ MaxHandles \in Nat
  BY ConstantsAssumption
<1> QED
  BY <1>2, <1>3 DEF Fds, FileFds, None

\* Other processes leave an event for every directory in which a path gets another
\* file, or none.
LEMMA ChangesAwaited ==
  ASSUME KqueueInv, FileSystem
  PROVE  /\ Awaited \subseteq Awaited'
         /\ \A n \in Names : entry'[n] # entry[n] => DirOf[n] \in Awaited'
<1>1. /\ pending \in [Fds -> SUBSET Flags] /\ batch' = batch
      /\ entry \in [Names -> Inodes \cup {None}] /\ DirOf \in [Names -> Dirs]
  BY ConstantsAssumption DEF KqueueInv, FileInv, Types, FileSystemOK, FileSystem
<1>2. ASSUME NEW fds, NEW flag, Note(fds, flag)
      PROVE  /\ Awaited \subseteq Awaited'
             /\ \A d \in Dirs : DirFd(d) \in fds => d \in Awaited'
  <2>1. \A f \in Fds : pending[f] \subseteq pending'[f] /\ (f \in fds => flag \in pending'[f])
    BY <1>2 DEF Note
  <2>2. \A d \in Dirs : DirFd(d) \in Fds
    BY DirFds
  <2> QED
    BY <1>1, <2>1, <2>2 DEF Awaited
<1>3. CASE \E n \in Names : (CreateFile(n) \/ DeleteFile(n)) /\ Note({DirFd(DirOf[n])}, "WRITE")
  <2>1. PICK n \in Names : (CreateFile(n) \/ DeleteFile(n)) /\ Note({DirFd(DirOf[n])}, "WRITE")
    BY <1>3
  <2>2. \A p \in Names : p # n => entry'[p] = entry[p]
    BY <1>1, <2>1 DEF CreateFile, DeleteFile
  <2> QED
    BY <1>1, <1>2, <2>1, <2>2
<1>4. CASE \E m, n \in Names : RenameFile(m, n, Disturbs(m, n)) /\ Note({DirFd(DirOf[m]), DirFd(DirOf[n])}, "WRITE")
  <2>1. PICK m, n \in Names : RenameFile(m, n, Disturbs(m, n)) /\ Note({DirFd(DirOf[m]), DirFd(DirOf[n])}, "WRITE")
    BY <1>4
  <2>2. \A p \in Names : p # n /\ p # m => entry'[p] = entry[p]
    BY <1>1, <2>1 DEF RenameFile
  <2> QED
    BY <1>1, <1>2, <2>1, <2>2
<1>5. CASE \/ \E n \in Names, endsLine \in BOOLEAN : AppendPiece(n, endsLine) /\ Note(FdsOf(entry[n]), "WRITE")
           \/ \E n \in Names : TruncateFile(n) /\ Note(FdsOf(entry[n]), "ATTRIB")
           \/ \E d \in Dirs : RemoveDir(d) /\ Note({DirFd(d)}, "DELETE")
  BY <1>2, <1>5 DEF AppendPiece, TruncateFile, RemoveDir
<1> QED
  BY <1>3, <1>4, <1>5 DEF FileSystem

LEMMA FileSystemWatched == ASSUME KqueueInv, WatchInv(Awaited), FileSystem PROVE WatchInv(Awaited)'
<1>1. PICK Due, Later : Due = Awaited /\ Later = Awaited'
  OBVIOUS
<1>2. Due \subseteq Later /\ \A n \in Names : entry'[n] # entry[n] => DirOf[n] \in Later
  BY <1>1, ChangesAwaited
<1>3. WatchInv(Later)'
  BY <1>1, <1>2, OthersWatched, DisturbsPast DEF FileSystem
<1> QED
  BY <1>1, <1>3

\* The descriptors of directories are none of those that a step of the goroutine
\* opens or closes.
LEMMA StepWatched == ASSUME KqueueInv, SyncInv, WatchInv(Awaited), Step PROVE WatchInv(Awaited)'
<1>1. PICK Due : Due = Awaited
  OBVIOUS
<1>2. ASSUME NEW d \in Dirs PROVE pending'[DirFd(d)] = pending[DirFd(d)] /\ batch' = batch
  <2>1. \A h \in Handles : fd[h] # DirFd(d)
    BY DirFds DEF KqueueInv, DescriptorsOK
  <2>2. pending'[DirFd(d)] = pending[DirFd(d)]
    BY <2>1, DirFds DEF Step, Descriptors
  <2> QED
    BY <2>2 DEF Step
<1>3. Due = Awaited'
  BY <1>1, <1>2 DEF Awaited
<1>4. WatchInv(Due)'
  BY <1>1, GoroutineWatched, ListNextWatched DEF Step, ListRemoved, KqueueInv, SyncInv, DeliveryInv
<1> QED
  BY <1>3, <1>4

LEMMA ProcessEventWatched == ASSUME KqueueInv, WatchInv(Awaited), ProcessEvent PROVE WatchInv(Awaited)'
<1>1. FileInv /\ DescriptorsOK /\ pc = "loop" /\ batch \in [Fds -> SUBSET Flags]
  BY DEF KqueueInv, ProcessEvent
<1>2. PICK Due, Later : Due = Awaited /\ Later = Awaited'
  OBVIOUS
<1>3. UNCHANGED <<fsVars, watched, watchedDirs, dir, toStat, listing, after, fd, pending>> /\ WatchInv(Due)
  BY <1>2 DEF ProcessEvent
<1>4. ~Syncing /\ cur = None /\ dirsLeft = <<>> /\ Running
  BY <1>1, <1>3 DEF FileInv, Position, WatchInv, OneSync, Running
<1>5. PICK f \in Fds :
        /\ DirDeleted(f) \/ DirWritten(f) \/ FileTruncated(f) \/ FileWritten(f) \/ UnknownDescriptor(f)
        /\ batch' = [batch EXCEPT ![f] = {}]
  BY DEF ProcessEvent
<1>6. ASSUME NEW d \in Due, d \notin Later PROVE d \in Dirs /\ DirFd(d) = f
  BY <1>1, <1>2, <1>3, <1>5, <1>6, DirFds DEF Awaited
<1>7. CASE DirDeleted(f)
  <2>1. pc' = "failed"
    BY <1>7 DEF DirDeleted
  <2>2. WatchInv(Later)'
    BY <1>3, <1>4, <2>1 DEF WatchInv, CurrentOrPending, MovedIsPending, OneSync, Running, Syncing
  <2> QED
    BY <1>2, <2>2
<1>8. CASE DirWritten(f)
  <2>1. /\ UNCHANGED <<entry, watched, dir, toStat, listing, after, handle, cur>> /\ Running'
        /\ pc' = "sync" /\ dirsLeft' = <<DirSeq[f]>>
    BY <1>3, <1>8 DEF DirWritten, fsVars, Running
  <2>2. ASSUME NEW d, Pending(Due, d) PROVE Pending(Later, d)'
    <3>1. CASE d \notin Later
      <4>1. DirSeq[f] = d
        BY <1>4, <1>6, <2>2, <3>1, DirFds DEF Pending
      <4>2. Len(dirsLeft') = 1 /\ dirsLeft'[1] = d
        BY <2>1, <4>1
      <4> QED
        BY <4>2 DEF Pending
    <3> QED
      BY <3>1 DEF Pending
  <2>3. WatchInv(Later)'
    BY <1>1, <1>3, <1>4, <2>1, <2>2, WatchKept DEF SameFiles
  <2> QED
    BY <1>2, <2>3
<1>9. CASE FileTruncated(f) \/ FileWritten(f) \/ UnknownDescriptor(f)
  <2>1. f \in FileFds
    <3>1. CASE UnknownDescriptor(f)
      BY <3>1 DEF UnknownDescriptor
    <3>2. CASE FileTruncated(f) \/ FileWritten(f)
      <4>1. PICK h \in HandlesIn(watched) : fd[h] = f
        BY <3>2 DEF FileTruncated, FileWritten, WatchedAt
      <4>2. h \in Handles /\ handle[h].open = TRUE
        <5>1. h \in OpenHandles
          BY <1>1 DEF FileInv, Custody
        <5>2. handle[h] \in Opened
          BY <1>1, <5>1, OpenIsOpened
        <5> QED
          BY <5>1, <5>2 DEF OpenHandles, Opened
      <4> QED
        BY <1>1, <4>1, <4>2 DEF DescriptorsOK
    <3> QED
      BY <1>9, <3>1, <3>2
  <2>2. \A d \in Due : d \in Later
    BY <1>6, <2>1, DirFds
  <2>3. SameFiles
    <3>1. CASE UnknownDescriptor(f)
      BY <3>1 DEF UnknownDescriptor, SameFiles
    <3>2. CASE FileTruncated(f) \/ FileWritten(f)
      <4>1. PICK h \in HandlesIn(watched) : handle' \in {handle, Rewound(h)}
        BY <3>2 DEF FileTruncated, FileWritten, WatchedAt
      <4>2. h \in OpenHandles
        BY <1>1 DEF FileInv, Custody
      <4> QED
        BY <1>1, <4>1, <4>2, RewoundFile DEF SameFiles
    <3> QED
      BY <1>9, <3>1, <3>2
  <2>4. dirsLeft' = dirsLeft /\ pc' \in {"loop", "read"}
    BY <1>1, <1>9 DEF FileTruncated, FileWritten, UnknownDescriptor
  <2>5. WatchInv(Later)'
    <3>1. \A d : Pending(Due, d) => Pending(Later, d)'
      BY <2>2, <2>4 DEF Pending
    <3>2. Running' /\ entry' = entry
      BY <1>3, <2>4 DEF Running, fsVars
    <3> QED
      BY <1>1, <1>3, <1>4, <2>3, <2>4, <3>1, <3>2, WatchKept
  <2> QED
    BY <1>2, <2>5
<1> QED
  BY <1>5, <1>7, <1>8, <1>9

LEMMA KqueueWatched ==
  ASSUME KqueueInv, SyncInv, WatchInv(Awaited), [KqueueNext]_allVars
  PROVE  WatchInv(Awaited)'
<1>1. PICK Due : Due = Awaited
  OBVIOUS
<1>2. FileInv
  BY DEF KqueueInv
<1>3. ASSUME Awaited' = Awaited, UNCHANGED <<entry, tailerVars>> PROVE WatchInv(Awaited)'
  <2>1. WatchInv(Due)'
    BY <1>1, <1>2, <1>3, NothingWatchedChanges
  <2> QED
    BY <1>1, <1>3, <2>1
<1>4. CASE FileSystem
  BY <1>4, FileSystemWatched
<1>5. CASE Kevent
  <2>1. \A d \in Dirs : pending'[DirFd(d)] \cup batch'[DirFd(d)] = pending[DirFd(d)] \cup batch[DirFd(d)]
    BY <1>5, DirFds DEF Kevent, NoEvents
  <2> QED
    BY <1>3, <1>5, <2>1 DEF Kevent, Awaited, vars, fsVars
<1>6. CASE WatchFile
  BY <1>3, <1>6 DEF WatchFile, Awaited, vars, fsVars
<1>7. CASE ProcessEvent
  BY <1>7, ProcessEventWatched
<1>8. CASE Step
  BY <1>8, StepWatched
<1>9. CASE CloseTailer /\ Operation("close") /\ UNCHANGED kqueueVars
  BY <1>3, <1>9 DEF CloseTailer, kqueueVars, Awaited
<1>10. CASE UNCHANGED allVars
  BY <1>3, <1>10 DEF allVars, kqueueVars, vars, fsVars, Awaited
<1> QED
  BY <1>4, <1>5, <1>6, <1>7, <1>8, <1>9, <1>10 DEF KqueueNext

-----------------------------------------------------------------------------
(* What is unread.                                                          *)

Flagged(h, flag) == flag \in pending[fd[h]] \cup batch[fd[h]]

\* What is unread of the file with the reader h has an event on its way, or h is
\* being read.  The offset is past the end of a truncated file only, and an event
\* will ask for that; whatever was written since is told with that event or later.
WillBeRead(h) ==
  LET i == handle[h].inode
      pos == handle[h].pos
      end == Len(content[i])
  IN  /\ "truncated" \notin history[i] => pos <= end
      /\ h \notin registered => cur = h /\ pc = "read" /\ (pos = 0 \/ "renamed" \in history[i])
      /\ h \in registered /\ pos > end => Flagged(h, "ATTRIB")
      /\ "ATTRIB" \in pending[fd[h]] /\ end > 0 => "WRITE" \in pending[fd[h]]
      /\ end > 0 /\ (pos > end \/ (pos < end /\ cur # h)) => Flagged(h, "WRITE")
      /\ cur # h => LineEnds(handle[h].buf) = {}

AllWillBeRead ==
  ~done /\ ReadAll => \A h \in OpenHandles : Lost(handle[h].inode) \/ WillBeRead(h)

\* Only the registered descriptors of files collect flags.
KnotesRegistered == \A f \in FileFds : pending[f] # {} => \E h \in registered : fd[h] = f

ReadInv == NameKept /\ AllWillBeRead /\ KnotesRegistered

LEMMA ReadInvInit == ASSUME KqueueInit PROVE ReadInv
<1>1. /\ \A h \in Handles : handle[h].open = FALSE
      /\ listing = {} /\ pending = NoEvents
      /\ entry \in [Names -> Inodes \cup {None}]
  BY FileInvInit DEF KqueueInit, Init, Closed, FileInv, Types, FileSystemOK
<1>2. OpenHandles = {}
  BY <1>1 DEF OpenHandles
<1>3. \A f \in FileFds : pending[f] = {}
  BY <1>1, ConstantsAssumption DEF NoEvents, Fds, FileFds
<1>4. \A m, n \in Names : entry[m] # None /\ entry[m] = entry[n] => m = n
  BY SyncInvInit DEF KqueueInit, SyncInv, DeliveryInv, Known, Paths
<1> QED
  BY <1>1, <1>2, <1>3, <1>4, Distinct DEF ReadInv, NameKept, Readers, AllWillBeRead, KnotesRegistered

-----------------------------------------------------------------------------
(* The events of what is unread.                                            *)

LEMMA FileDescriptor ==
  ASSUME KqueueInv, NEW h \in OpenHandles
  PROVE  /\ h \in Handles /\ handle[h] \in Opened /\ handle[h].open = TRUE
         /\ fd[h] \in FileFds /\ fd[h] \in Fds /\ fd[h] # None
         /\ \A g \in Handles : fd[g] = fd[h] => g = h
<1>1. h \in Handles /\ handle[h] \in Opened
  BY OpenIsOpened DEF KqueueInv
<1>2. handle[h].open = TRUE
  BY <1>1 DEF Opened
<1>3. fd[h] # None /\ fd[h] \in FileFds
  BY <1>1, <1>2 DEF KqueueInv, DescriptorsOK
<1>4. fd[h] \in Fds
  BY <1>3, ConstantsAssumption DEF FileFds, Fds
<1>5. ASSUME NEW g \in Handles, fd[g] = fd[h] PROVE g = h
  <2>1. handle[g].open
    BY <1>3, <1>5 DEF KqueueInv, DescriptorsOK
  <2> QED
    BY <1>5, <2>1 DEF KqueueInv, DescriptorsOK, OpenHandles
<1> QED
  BY <1>1, <1>2, <1>3, <1>4, <1>5

\* A file that stays open under its name keeps its descriptor and its flags.
LEMMA DescriptorKept ==
  ASSUME KqueueInv, Descriptors, NEW h \in OpenHandles,
         handle'[h].open, handle'[h].name = handle[h].name
  PROVE  /\ fd'[h] = fd[h] /\ (h \in registered' <=> h \in registered)
         /\ pending'[fd[h]] = pending[fd[h]]
<1>1. /\ h \in Handles /\ handle[h].open = TRUE /\ fd[h] \in Fds
      /\ \A g \in Handles : fd[g] = fd[h] => g = h
  BY FileDescriptor
<1>2. fd'[h] = fd[h]
  BY <1>1 DEF Descriptors
<1>3. h \in registered' <=> h \in registered
  BY <1>1 DEF Descriptors
<1>4. pending'[fd[h]] = pending[fd[h]]
  BY <1>1, <1>2 DEF Descriptors
<1> QED
  BY <1>2, <1>3, <1>4

LEMMA StepKeepsKnotes == ASSUME KqueueInv, KnotesRegistered, Step PROVE KnotesRegistered'
<1> SUFFICES ASSUME NEW f \in FileFds, pending'[f] # {} PROVE \E h \in registered' : fd'[h] = f
  BY DEF KnotesRegistered
<1> DEFINE Keeps(h) == handle[h].open /\ handle'[h].open /\ handle'[h].name = handle[h].name
           free == FileFds \ {fd[h] : h \in Handles}
           lowest == CHOOSE g \in free : \A k \in free : g <= k
<1>1. /\ fd' = [h \in Handles |-> IF ~handle'[h].open THEN None ELSE IF Keeps(h) THEN fd[h] ELSE lowest]
      /\ registered' = {h \in registered : Keeps(h)}
      /\ pending' = [g \in Fds |-> IF \E h \in Handles : fd[h] = g /\ fd'[h] # g THEN {} ELSE pending[g]]
  BY DEF Step, Descriptors
<1>2. lowest \in free
  BY LowestDescriptor
<1>3. \A h \in Handles : lowest # fd[h]
  BY <1>2
<1> HIDE DEF lowest, free, Keeps
<1>4. f \in Fds /\ f # None
  BY ConstantsAssumption DEF FileFds, Fds, None
<1>5. pending[f] # {} /\ \A h \in Handles : fd[h] = f => fd'[h] = f
  BY <1>1, <1>4
<1>6. PICK h \in registered : fd[h] = f
  BY <1>5 DEF KnotesRegistered
<1>7. h \in Handles /\ fd'[h] = f
  BY <1>5, <1>6 DEF KqueueInv, DescriptorsOK, OpenHandles
<1>8. Keeps(h)
  BY <1>1, <1>3, <1>4, <1>6, <1>7
<1> QED
  BY <1>1, <1>6, <1>7, <1>8

LEMMA KnotesNext == ASSUME KqueueInv, KnotesRegistered, [KqueueNext]_allVars PROVE KnotesRegistered'
<1>1. DirOf \in [Names -> Dirs] /\ \A d \in Dirs : DirFd(d) \notin FileFds
  BY ConstantsAssumption, DirFds
<1>2. ASSUME UNCHANGED <<fd, registered>>, pending' = pending PROVE KnotesRegistered'
  BY <1>2 DEF KnotesRegistered
<1>3. CASE FileSystem
  <2>1. ASSUME NEW fds, NEW flag, Note(fds, flag), UNCHANGED <<fd, registered>>,
               \A f \in fds : f \in FileFds => \E h \in registered : fd[h] = f
        PROVE  KnotesRegistered'
    <3>1. FileFds \subseteq Fds
      BY ConstantsAssumption DEF FileFds, Fds
    <3> QED
      BY <2>1, <3>1 DEF KnotesRegistered, Note
  <2>2. \A i : \A f \in FdsOf(i) : \E h \in registered : fd[h] = f
    BY DEF FdsOf
  <2>3. \A m, n \in Names : \A f \in {DirFd(DirOf[m]), DirFd(DirOf[n])} : f \notin FileFds
    BY <1>1
  <2>4. \A n \in Names : \A f \in {DirFd(DirOf[n])} : f \notin FileFds
    BY <1>1
  <2>5. \A d \in Dirs : \A f \in {DirFd(d)} : f \notin FileFds
    BY <1>1
  <2>6. UNCHANGED <<fd, registered>>
    BY <1>3 DEF FileSystem
  <2>7. ASSUME NEW n \in Names, Note({DirFd(DirOf[n])}, "WRITE") PROVE KnotesRegistered'
    BY <2>1, <2>4, <2>6, <2>7
  <2>8. ASSUME NEW m \in Names, NEW n \in Names, Note({DirFd(DirOf[m]), DirFd(DirOf[n])}, "WRITE")
        PROVE  KnotesRegistered'
    BY <2>1, <2>3, <2>6, <2>8
  <2>9. ASSUME NEW i, NEW flag, Note(FdsOf(i), flag) PROVE KnotesRegistered'
    BY <2>1, <2>2, <2>6, <2>9
  <2>10. ASSUME NEW d \in Dirs, Note({DirFd(d)}, "DELETE") PROVE KnotesRegistered'
    BY <2>1, <2>5, <2>6, <2>10
  <2> QED
    BY <1>3, <2>7, <2>8, <2>9, <2>10 DEF FileSystem
<1>4. CASE Kevent
  <2>1. FileFds \subseteq Fds
    BY ConstantsAssumption DEF FileFds, Fds
  <2> QED
    BY <1>4, <2>1 DEF Kevent, KnotesRegistered, NoEvents
<1>5. CASE WatchFile
  BY <1>5 DEF WatchFile, KnotesRegistered
<1>6. CASE ProcessEvent
  BY <1>2, <1>6 DEF ProcessEvent
<1>7. CASE Step
  BY <1>7, StepKeepsKnotes
<1>8. CASE CloseTailer /\ Operation("close") /\ UNCHANGED kqueueVars
  BY <1>2, <1>8 DEF kqueueVars
<1>9. CASE UNCHANGED allVars
  BY <1>2, <1>9 DEF allVars, kqueueVars
<1> QED
  BY <1>3, <1>4, <1>5, <1>6, <1>7, <1>8, <1>9 DEF KqueueNext

\* A reader that a step does not touch, nor its file, nor its flags but by kevent().
LEMMA ReaderKept ==
  ASSUME NEW h, WillBeRead(h), handle'[h] = handle[h], fd'[h] = fd[h],
         h \in registered' <=> h \in registered,
         pending'[fd[h]] \cup batch'[fd[h]] = pending[fd[h]] \cup batch[fd[h]],
         pending'[fd[h]] \in {pending[fd[h]], {}},
         content'[handle[h].inode] = content[handle[h].inode],
         "truncated" \in history'[handle[h].inode] <=> "truncated" \in history[handle[h].inode],
         "renamed" \in history[handle[h].inode] => "renamed" \in history'[handle[h].inode],
         cur' = h <=> cur = h,
         h \notin registered => pc' = pc
  PROVE  WillBeRead(h)'
  BY DEF WillBeRead, Flagged

-----------------------------------------------------------------------------
(* What is unread, and other processes.                                     *)

\* The flags of the others stay when some descriptors are noted.
LEMMA NotNoted ==
  ASSUME KqueueInv, NEW h \in OpenHandles, NEW fds, NEW flag, Note(fds, flag)
  PROVE  /\ fd[h] \notin fds => pending'[fd[h]] = pending[fd[h]]
         /\ fd[h] \in fds => pending'[fd[h]] = pending[fd[h]] \cup {flag}
  BY FileDescriptor DEF Note

LEMMA FdsOfReader ==
  ASSUME KqueueInv, NEW h \in OpenHandles, NEW i
  PROVE  fd[h] \in FdsOf(i) <=> h \in registered /\ handle[h].inode = i
<1>1. ASSUME NEW r \in registered, fd[h] = fd[r] PROVE r = h
  <2>1. r \in Handles
    BY DEF KqueueInv, DescriptorsOK, OpenHandles
  <2> QED
    BY <1>1, <2>1, FileDescriptor
<1> QED
  BY <1>1 DEF FdsOf

LEMMA NotRegistered ==
  ASSUME KqueueInv, KnotesRegistered, NEW h \in OpenHandles, h \notin registered
  PROVE  pending[fd[h]] = {}
<1>1. \A r \in registered : r \in Handles
  BY DEF KqueueInv, DescriptorsOK, OpenHandles
<1>2. fd[h] \in FileFds /\ \A r \in Handles : fd[r] = fd[h] => r = h
  BY FileDescriptor
<1> QED
  BY <1>1, <1>2 DEF KnotesRegistered

LEMMA AppendWillRead ==
  ASSUME KqueueInv, KnotesRegistered, NEW h \in OpenHandles, WillBeRead(h), ~Lost(handle[h].inode),
         NEW n \in Names, NEW endsLine \in BOOLEAN,
         AppendPiece(n, endsLine), Note(FdsOf(entry[n]), "WRITE"),
         UNCHANGED <<tailerVars, done, fd, registered, batch>>
  PROVE  WillBeRead(h)'
<1>1. PICK i \in Inodes : i = entry[n]
  BY DEF AppendPiece, KqueueInv, FileInv, Types, FileSystemOK
<1>2. /\ content \in [Inodes -> Seq(BOOLEAN)] /\ content' = [content EXCEPT ![i] = Append(@, endsLine)]
      /\ history' = history /\ Note(FdsOf(i), "WRITE")
  BY <1>1 DEF AppendPiece, KqueueInv, FileInv, Types, FileSystemOK
<1>3. handle' = handle /\ pc' = pc /\ cur' = cur
  BY DEF tailerVars, mapVars, readVars
<1>4. CASE handle[h].inode # i
  <2>1. content'[handle[h].inode] = content[handle[h].inode] /\ pending'[fd[h]] = pending[fd[h]]
    BY <1>2, <1>4, NotNoted, FdsOfReader
  <2> QED
    BY <1>2, <1>3, <2>1, ReaderKept
<1>5. CASE handle[h].inode = i
  <2>1. /\ handle[h].pos \in Nat /\ Len(content[i]) \in Nat /\ Len(content'[i]) = Len(content[i]) + 1
    BY <1>2, <1>5, ReaderTypes DEF KqueueInv
  <2>2. /\ h \in registered => pending'[fd[h]] = pending[fd[h]] \cup {"WRITE"}
        /\ h \notin registered => pending'[fd[h]] = pending[fd[h]]
    BY <1>2, <1>5, NotNoted, FdsOfReader
  <2>3. \A flag : Flagged(h, flag) => Flagged(h, flag)'
    BY <2>2 DEF Flagged
  <2>4. CASE h \in registered
    <3>1. Flagged(h, "WRITE")' /\ "WRITE" \in pending'[fd[h]]
      BY <2>2, <2>4 DEF Flagged
    <3>2. "truncated" \notin history'[i] => handle'[h].pos <= Len(content'[i])
      BY <1>2, <1>3, <1>5, <2>1 DEF WillBeRead
    <3>3. handle'[h].pos > Len(content'[i]) => Flagged(h, "ATTRIB")'
      BY <1>3, <1>5, <2>1, <2>3, <2>4 DEF WillBeRead
    <3>4. cur' # h => LineEnds(handle'[h].buf) = {}
      BY <1>3 DEF WillBeRead
    <3>5. UNCHANGED registered
      OBVIOUS
    <3> QED
      BY <1>3, <1>5, <2>4, <3>1, <3>2, <3>3, <3>4, <3>5 DEF WillBeRead
  <2>5. CASE h \notin registered
    <3>1. pending[fd[h]] = {} /\ pending'[fd[h]] = {}
      BY <2>2, <2>5, NotRegistered
    <3>2. handle[h].pos <= Len(content[i])
      BY <1>5, <2>1, <2>5 DEF WillBeRead, Lost
    <3>3. handle'[h].pos <= Len(content'[i])
      BY <1>3, <2>1, <3>2
    <3>4. cur' = h /\ pc' = "read" /\ (handle'[h].pos = 0 \/ "renamed" \in history'[i])
      BY <1>2, <1>3, <1>5, <2>5 DEF WillBeRead
    <3>5. UNCHANGED registered
      OBVIOUS
    <3> QED
      BY <1>3, <1>5, <2>1, <2>5, <3>1, <3>3, <3>4, <3>5 DEF WillBeRead
  <2> QED
    BY <2>4, <2>5
<1> QED
  BY <1>4, <1>5

LEMMA TruncateWillRead ==
  ASSUME KqueueInv, KnotesRegistered, NEW h \in OpenHandles, WillBeRead(h),
         NEW n \in Names, TruncateFile(n), Note(FdsOf(entry[n]), "ATTRIB"),
         UNCHANGED <<tailerVars, done, fd, registered, batch>>
  PROVE  Lost(handle[h].inode)' \/ WillBeRead(h)'
<1>1. PICK i \in Inodes : i = entry[n]
  BY DEF TruncateFile, KqueueInv, FileInv, Types, FileSystemOK
<1>2. /\ content' = [content EXCEPT ![i] = <<>>] /\ Note(FdsOf(i), "ATTRIB")
      /\ history' = [history EXCEPT ![i] = @ \cup {"truncated"}]
      /\ content \in [Inodes -> Seq(BOOLEAN)] /\ history \in [Inodes -> SUBSET Past]
  BY <1>1 DEF TruncateFile, KqueueInv, FileInv, Types, FileSystemOK
<1>3. handle' = handle /\ pc' = pc /\ cur' = cur
  BY DEF tailerVars, mapVars, readVars
<1>4. CASE handle[h].inode # i
  <2>1. /\ content'[handle[h].inode] = content[handle[h].inode] /\ pending'[fd[h]] = pending[fd[h]]
        /\ history'[handle[h].inode] = history[handle[h].inode]
    BY <1>2, <1>4, NotNoted, FdsOfReader
  <2> QED
    BY <1>3, <2>1, ReaderKept
<1>5. CASE handle[h].inode = i
  <2>1. Len(content'[i]) = 0 /\ handle[h].pos \in Nat /\ history'[i] = history[i] \cup {"truncated"}
    BY <1>2, ReaderTypes DEF KqueueInv
  <2>2. CASE "renamed" \in history[i]
    BY <1>3, <1>5, <2>1, <2>2 DEF Lost
  <2>3. CASE h \in registered
    <3>1. Flagged(h, "ATTRIB")'
      <4>1. fd[h] \in FdsOf(i)
        BY <1>5, <2>3, FdsOfReader
      <4>2. pending'[fd[h]] = pending[fd[h]] \cup {"ATTRIB"}
        BY <1>2, <4>1, NotNoted
      <4> QED
        BY <4>2 DEF Flagged
    <3>2. cur' # h => LineEnds(handle'[h].buf) = {}
      BY <1>3 DEF WillBeRead
    <3>3. UNCHANGED registered
      OBVIOUS
    <3> QED
      BY <1>3, <1>5, <2>1, <2>3, <3>1, <3>2, <3>3 DEF WillBeRead
  <2>4. CASE h \notin registered /\ "renamed" \notin history[i]
    <3>1. cur' = h /\ pc' = "read" /\ handle'[h].pos = 0
      BY <1>3, <1>5, <2>4 DEF WillBeRead
    <3>2. UNCHANGED registered
      OBVIOUS
    <3> QED
      BY <1>3, <1>5, <2>1, <2>4, <3>1, <3>2 DEF WillBeRead
  <2> QED
    BY <2>2, <2>3, <2>4
<1> QED
  BY <1>4, <1>5

\* Whatever other processes do, the kernel notes it for the readers of the file.
LEMMA FileSystemWillRead ==
  ASSUME KqueueInv, ReadInv, FileSystem
  PROVE  AllWillBeRead'
<1>1. /\ handle' = handle /\ pc' = pc /\ cur' = cur /\ done' = done
      /\ UNCHANGED <<tailerVars, done, fd, registered, batch>> /\ OpenHandles' = OpenHandles
  BY DEF FileSystem, tailerVars, mapVars, readVars, OpenHandles
<1> SUFFICES ASSUME ~done, ReadAll, NEW h \in OpenHandles
             PROVE  Lost(handle[h].inode)' \/ WillBeRead(h)'
  BY <1>1 DEF AllWillBeRead
<1>2. /\ handle[h].inode \in Inodes /\ history \in [Inodes -> SUBSET Past]
      /\ entry \in [Names -> Inodes \cup {None}]
      /\ DirOf \in [Names -> Dirs] /\ \A d \in Dirs : DirFd(d) \notin FileFds
      /\ fd[h] \in FileFds
  BY ReaderTypes, FileDescriptor, DirFds, ConstantsAssumption DEF KqueueInv, FileInv, Types, FileSystemOK
<1>3. \A i \in Inodes : history[i] \subseteq history'[i]
  <2>1. ASSUME NEW n \in Names, TruncateFile(n) PROVE \A i \in Inodes : history[i] \subseteq history'[i]
    BY <1>2, <2>1 DEF TruncateFile
  <2>2. ASSUME NEW m \in Names, NEW n \in Names, RenameFile(m, n, Disturbs(m, n))
        PROVE  \A i \in Inodes : history[i] \subseteq history'[i]
    BY <1>2, <2>2, DisturbsPast DEF RenameFile
  <2> QED
    BY <2>1, <2>2 DEF FileSystem, CreateFile, DeleteFile, AppendPiece, RemoveDir
<1>4. CASE Lost(handle[h].inode)
  BY <1>1, <1>2, <1>3, <1>4 DEF Lost
<1>5. CASE ~Lost(handle[h].inode)
  <2>1. WillBeRead(h)
    BY <1>5 DEF ReadInv, AllWillBeRead
  <2>2. ASSUME NEW fds, NEW flag, Note(fds, flag), fds \cap FileFds = {}, content' = content,
               \A i \in Inodes : "truncated" \in history'[i] <=> "truncated" \in history[i]
        PROVE  WillBeRead(h)'
    <3>1. pending'[fd[h]] = pending[fd[h]]
      BY <1>2, <2>2, NotNoted
    <3>2. \A i \in Inodes : "renamed" \in history[i] => "renamed" \in history'[i]
      BY <1>3
    <3> QED
      BY <1>1, <1>2, <2>1, <2>2, <3>1, <3>2, ReaderKept
  <2>3. ASSUME NEW n \in Names, NEW endsLine \in BOOLEAN, AppendPiece(n, endsLine),
               Note(FdsOf(entry[n]), "WRITE")
        PROVE  WillBeRead(h)'
    BY <1>1, <1>5, <2>1, <2>3, AppendWillRead DEF ReadInv
  <2>4. ASSUME NEW n \in Names, TruncateFile(n), Note(FdsOf(entry[n]), "ATTRIB")
        PROVE  Lost(handle[h].inode)' \/ WillBeRead(h)'
    BY <1>1, <2>1, <2>4, TruncateWillRead DEF ReadInv
  <2>5. ASSUME NEW n \in Names, CreateFile(n) \/ DeleteFile(n), Note({DirFd(DirOf[n])}, "WRITE")
        PROVE  WillBeRead(h)'
    <3>1. content' = content /\ history' = history /\ {DirFd(DirOf[n])} \cap FileFds = {}
      BY <1>2, <2>5 DEF CreateFile, DeleteFile
    <3> QED
      BY <2>2, <2>5, <3>1
  <2>6. ASSUME NEW m \in Names, NEW n \in Names, RenameFile(m, n, Disturbs(m, n)),
               Note({DirFd(DirOf[m]), DirFd(DirOf[n])}, "WRITE")
        PROVE  WillBeRead(h)'
    <3>1. content' = content /\ {DirFd(DirOf[m]), DirFd(DirOf[n])} \cap FileFds = {}
      BY <1>2, <2>6 DEF RenameFile
    <3>2. \A i \in Inodes : "truncated" \in history'[i] <=> "truncated" \in history[i]
      BY <1>2, <2>6, DisturbsMarks DEF RenameFile
    <3> QED
      BY <2>2, <2>6, <3>1, <3>2
  <2>7. ASSUME NEW d \in Dirs, RemoveDir(d), Note({DirFd(d)}, "DELETE") PROVE WillBeRead(h)'
    <3>1. content' = content /\ history' = history /\ {DirFd(d)} \cap FileFds = {}
      BY <1>2, <2>7 DEF RemoveDir
    <3> QED
      BY <2>2, <2>7, <3>1
  <2> QED
    BY <2>3, <2>4, <2>5, <2>6, <2>7 DEF FileSystem
<1> QED
  BY <1>4, <1>5

-----------------------------------------------------------------------------
(* What is unread, and the goroutine.                                       *)

\* A file that was opened or duplicated has no knote yet, nor a flag.
LEMMA NewDescriptor ==
  ASSUME KnotesRegistered, Descriptors, NEW h \in Handles, handle'[h].open,
         ~(handle[h].open /\ handle'[h].name = handle[h].name), registered \subseteq Handles
  PROVE  h \notin registered' /\ pending'[fd'[h]] = {}
<1> DEFINE Keeps(g) == handle[g].open /\ handle'[g].open /\ handle'[g].name = handle[g].name
           free == FileFds \ {fd[g] : g \in Handles}
           lowest == CHOOSE f \in free : \A k \in free : f <= k
<1>1. /\ fd' = [g \in Handles |-> IF ~handle'[g].open THEN None ELSE IF Keeps(g) THEN fd[g] ELSE lowest]
      /\ registered' = {g \in registered : Keeps(g)}
      /\ pending' = [f \in Fds |-> IF \E g \in Handles : fd[g] = f /\ fd'[g] # f THEN {} ELSE pending[f]]
  BY DEF Descriptors
<1>2. lowest \in free
  BY LowestDescriptor
<1>3. lowest \in FileFds /\ \A g \in Handles : lowest # fd[g]
  BY <1>2
<1> HIDE DEF lowest, free
<1>4. ~Keeps(h)
  OBVIOUS
<1> HIDE DEF Keeps
<1>5. fd'[h] = lowest /\ h \notin registered'
  BY <1>1, <1>4
<1>6. pending[lowest] = {}
  BY <1>3 DEF KnotesRegistered
<1>7. lowest \in Fds
  BY <1>3, ConstantsAssumption DEF FileFds, Fds
<1> QED
  BY <1>1, <1>5, <1>6, <1>7

\* A reader that the step leaves as it is.
LEMMA StepKeepsReader ==
  ASSUME KqueueInv, AllWillBeRead, Step, ~done, ReadAll, NEW h \in OpenHandles,
         handle'[h] = handle[h], cur' = h <=> cur = h, UNCHANGED fsVars
  PROVE  Lost(handle[h].inode)' \/ WillBeRead(h)'
<1>1. CASE Lost(handle[h].inode)
  BY <1>1 DEF Lost, fsVars
<1>2. CASE WillBeRead(h)
  <2>1. /\ fd'[h] = fd[h] /\ (h \in registered' <=> h \in registered)
        /\ pending'[fd[h]] = pending[fd[h]] /\ batch' = batch
    BY FileDescriptor, DescriptorKept DEF Step
  <2>2. h \in registered
    BY <1>2 DEF WillBeRead, Step
  <2> QED
    BY <1>2, <2>1, <2>2, ReaderKept DEF fsVars
<1> QED
  BY <1>1, <1>2 DEF AllWillBeRead

\* readNewLines moves the offset, at most to the end of the file.
LEMMA ReadWillRead ==
  ASSUME KqueueInv, AllWillBeRead, Step, ReadBuffered \/ ReadChunk \/ ReadEOF, ~done, ReadAll,
         NEW h \in OpenHandles
  PROVE  Lost(handle[h].inode)' \/ WillBeRead(h)'
<1>1. FileInv /\ UNCHANGED fsVars
  BY DEF KqueueInv, ReadBuffered, ReadChunk, ReadEOF
<1>2. SameFiles
  BY <1>1, ReadKeepsFiles DEF ReadEOF, SameFiles, mapVars
<1>3. /\ h \in Handles /\ handle'[h].open /\ handle'[h].name = handle[h].name
      /\ handle'[h].inode = handle[h].inode
  BY <1>2, FileDescriptor DEF SameFiles
<1>4. CASE Lost(handle[h].inode)
  BY <1>1, <1>3, <1>4 DEF Lost, fsVars
<1>5. CASE h # cur
  <2>1. handle'[h] = handle[h] /\ (cur' = h <=> cur = h)
    <3>1. CASE ReadEOF
      <4>1. cur' = None /\ h # None
        BY <1>3, <3>1, Distinct DEF ReadEOF, ReturnToCaller
      <4> QED
        BY <1>5, <3>1, <4>1 DEF ReadEOF, mapVars
    <3>2. CASE ReadBuffered \/ ReadChunk
      <4>1. cur' = cur
        BY <3>2 DEF ReadBuffered, ReadChunk
      <4> QED
        BY <1>1, <1>3, <1>5, <3>2, <4>1, ReadOffset
    <3> QED
      BY <3>1, <3>2
  <2> QED
    BY <1>1, <2>1, StepKeepsReader
<1>6. CASE h = cur /\ WillBeRead(h)
  <2> DEFINE i == handle[h].inode
  <2>1. /\ h \in registered /\ h \in registered' /\ fd'[h] = fd[h] /\ batch' = batch
        /\ pending'[fd[h]] = pending[fd[h]]
    <3>1. h \in registered
      BY <1>6 DEF Step, ReadBuffered, ReadChunk, ReadEOF
    <3> QED
      BY <1>3, <3>1, DescriptorKept DEF Step
  <2>2. \A flag : Flagged(h, flag) => Flagged(h, flag)'
    BY <2>1 DEF Flagged
  <2>3. i \in Inodes /\ Len(content[i]) \in Nat /\ handle[h].pos \in Nat
    BY ReaderTypes DEF KqueueInv
  <2>4. CASE ReadEOF
    <3>1. handle' = handle /\ handle[h].pos >= Len(content[i]) /\ LineEnds(handle[h].buf) = {}
      BY <1>6, <2>4 DEF ReadEOF, mapVars, File, Buf
    <3> QED
      BY <1>1, <1>6, <2>1, <2>2, <2>3, <3>1 DEF WillBeRead, fsVars
  <2>5. CASE ReadBuffered \/ ReadChunk
    <3>1. cur' = h
      BY <1>6, <2>5 DEF ReadBuffered, ReadChunk
    <3>2. handle'[h].pos = handle[h].pos \/ (handle'[h].pos \in Nat /\ handle'[h].pos <= Len(content[i]))
      BY <1>1, <1>6, <2>5, ReadOffset DEF File
    <3>3. /\ "truncated" \notin history'[i] => handle'[h].pos <= Len(content'[i])
          /\ handle'[h].pos > Len(content'[i]) => handle[h].pos > Len(content[i])
      BY <1>1, <1>6, <2>3, <3>2 DEF WillBeRead, fsVars
    <3> QED
      BY <1>1, <1>3, <1>6, <2>1, <2>2, <3>1, <3>3 DEF WillBeRead, fsVars
  <2> QED
    BY <2>4, <2>5
<1> QED
  BY <1>4, <1>5, <1>6 DEF AllWillBeRead

\* A new reader has not registered its file yet; readNewLines is called for it,
\* at an offset that the file has.
LEMMA NewWillRead ==
  ASSUME KqueueInv, KnotesRegistered, Step, NEW h \in Handles, handle'[h].open,
         ~(handle[h].open /\ handle'[h].name = handle[h].name),
         cur' = h, pc' = "read", handle'[h].inode \in Inodes, handle'[h].pos \in Nat,
         handle'[h].pos <= Len(content'[handle'[h].inode]),
         handle'[h].pos = 0 \/ "renamed" \in history'[handle'[h].inode],
         content' \in [Inodes -> Seq(BOOLEAN)]
  PROVE  WillBeRead(h)'
<1>1. registered \subseteq Handles
  BY DEF KqueueInv, DescriptorsOK, OpenHandles
<1>2. h \notin registered' /\ pending'[fd'[h]] = {}
  BY <1>1, NewDescriptor DEF Step
<1>3. Len(content'[handle'[h].inode]) \in Nat
  OBVIOUS
<1> QED
  BY <1>2, <1>3 DEF WillBeRead

LEMMA SyncEntryWillRead ==
  ASSUME KqueueInv, ReadInv, Step, SyncEntry, ~done, ReadAll, NEW h \in Handles, handle'[h].open
  PROVE  Lost(handle[h].inode)' \/ WillBeRead(h)'
<1>1. /\ FileInv /\ UNCHANGED fsVars /\ AllWillBeRead /\ KnotesRegistered /\ NameKept
      /\ handle \in [Handles -> Opened \cup {Closed}] /\ entry \in [Names -> Inodes \cup {None}]
      /\ listing \subseteq Names \X Inodes
      /\ content \in [Inodes -> Seq(BOOLEAN)] /\ history \in [Inodes -> SUBSET Past]
  BY DEF KqueueInv, ReadInv, SyncEntry, FileInv, Types, FilesOK, FileSystemOK
<1>2. cur = None /\ h # None
  BY <1>1, Distinct DEF FileInv, Position, SyncEntry
<1>3. ASSUME handle'[h] = handle[h], cur' # h PROVE Lost(handle[h].inode)' \/ WillBeRead(h)'
  <2>1. h \in OpenHandles
    BY <1>3 DEF OpenHandles
  <2> QED
    BY <1>1, <1>2, <1>3, <2>1, StepKeepsReader
<1>4. PICK e \in listing :
        \/ \E g \in Handles : AlreadyWatched(e[1], e[2], g) \/ FollowRenamed(e[1], e[2], g)
        \/ OpenNew(e[1], e[2])
        \/ OpenFindsNothing(e[1], e[2])
  BY DEF SyncEntry
<1>5. PICK n \in Names, i \in Inodes : n = e[1] /\ i = e[2] /\ <<n, i>> \in listing
  <2>1. listing \subseteq Names \X Inodes
    BY <1>1
  <2>2. e[1] \in Names /\ e[2] \in Inodes /\ <<e[1], e[2]>> \in listing
    BY <2>1
  <2> QED
    BY <2>2
<1>6. CASE (\E g \in Handles : AlreadyWatched(n, i, g)) \/ OpenFindsNothing(n, i)
  BY <1>2, <1>3, <1>6 DEF AlreadyWatched, OpenFindsNothing
<1>7. ASSUME NEW g \in Handles, FollowRenamed(n, i, g) PROVE Lost(handle[h].inode)' \/ WillBeRead(h)'
  <2>1. g \in SameFile(i) /\ handle[g].name # n /\ handle' = [handle EXCEPT ![g].name = n]
        /\ cur' = g /\ pc' = "read"
    BY <1>7 DEF FollowRenamed
  <2>2. CASE h # g
    BY <1>1, <1>3, <2>1, <2>2
  <2>3. CASE h = g
    <3>1. handle[h].inode = i /\ handle[h].name # n
      BY <2>1, <2>3 DEF SameFile
    <3>2. handle[h] \in Opened
      <4>1. Closed.inode # i
        BY Distinct DEF Closed
      <4> QED
        BY <1>1, <3>1, <4>1
    <3>3. h \in OpenHandles /\ h \in Readers(i)
      BY <3>1, <3>2 DEF OpenHandles, Readers, Opened
    <3>4. "renamed" \in history[i]
      BY <1>1, <1>5, <3>1, <3>3 DEF NameKept
    <3> DEFINE file == handle[h]
               new == [file EXCEPT !.name = n]
    <3>5. handle'[h] = new
      BY <1>1, <2>1, <2>3
    <3> HIDE DEF file
    <3>6. new.inode = file.inode /\ new.name = n /\ new.pos = file.pos
      BY <3>2 DEF Opened, file
    <3> HIDE DEF new
    <3>7. handle'[h].inode = i /\ handle'[h].name # handle[h].name /\ handle'[h].pos = handle[h].pos
      BY <3>1, <3>5, <3>6 DEF file
    <3>8. CASE Lost(i)
      BY <1>1, <3>7, <3>8 DEF Lost, fsVars
    <3>9. CASE WillBeRead(h) /\ ~Lost(i)
      <4>1. handle[h].pos <= Len(content[i]) /\ handle[h].pos \in Nat
        BY <3>1, <3>3, <3>4, <3>9, ReaderTypes DEF WillBeRead, Lost, KqueueInv
      <4> QED
        BY <1>1, <2>1, <2>3, <3>4, <3>7, <4>1, NewWillRead DEF fsVars
    <3> QED
      BY <1>1, <3>1, <3>3, <3>8, <3>9 DEF AllWillBeRead
  <2> QED
    BY <2>2, <2>3
<1>8. ASSUME OpenNew(n, i) PROVE Lost(handle[h].inode)' \/ WillBeRead(h)'
  <2>1. PICK j \in Inodes : j = entry[n]
    BY <1>1, <1>8 DEF OpenNew
  <2>2. PICK u \in Unused :
          /\ handle' = [handle EXCEPT ![u] =
                         [open |-> TRUE, inode |-> j, name |-> n,
                          pos |-> IF readall THEN 0 ELSE Len(content[j]), buf |-> <<>>]]
          /\ cur' = u
    BY <1>8, <2>1 DEF OpenNew
  <2>3. CASE h # u
    BY <1>1, <1>3, <2>2, <2>3
  <2>4. CASE h = u
    <3>1. readall
      BY DEF readall
    <3>2. ~handle[h].open /\ handle'[h].inode = j /\ handle'[h].pos = 0
      BY <1>1, <2>2, <2>4, <3>1 DEF Unused
    <3>3. 0 <= Len(content[j])
      BY <1>1
    <3>4. pc' = "read" /\ content' = content
      BY <1>1, <1>8 DEF OpenNew, fsVars
    <3> QED
      BY <1>1, <2>2, <2>4, <3>2, <3>3, <3>4, NewWillRead
  <2> QED
    BY <2>3, <2>4
<1> QED
  BY <1>4, <1>5, <1>6, <1>7, <1>8

LEMMA StepWillRead == ASSUME KqueueInv, ReadInv, Step PROVE AllWillBeRead'
<1> USE DEF mapVars, syncVars, readVars
<1>1. FileInv /\ (Goroutine \/ ListRemoved) /\ AllWillBeRead
      /\ handle \in [Handles -> Opened \cup {Closed}]
  BY DEF KqueueInv, ReadInv, Step, FileInv, Types, FilesOK
<1>2. UNCHANGED fsVars /\ done' = done
  BY <1>1 DEF Goroutine, ListRemoved, StartSync, ListNext, ListFails, LstatEntry, SyncEntry, FinishSync,
     ReadNewLines, ReadBuffered, ReadChunk, ReadEOF, SendLine, SendAborted, Shutdown
<1> SUFFICES ASSUME ~done, ReadAll, NEW h \in Handles, handle'[h].open
             PROVE  Lost(handle[h].inode)' \/ WillBeRead(h)'
  BY <1>2 DEF AllWillBeRead, OpenHandles
<1>3. ASSUME handle'[h] = handle[h], cur' = cur PROVE Lost(handle[h].inode)' \/ WillBeRead(h)'
  <2>1. h \in OpenHandles
    BY <1>3 DEF OpenHandles
  <2> QED
    BY <1>1, <1>2, <1>3, <2>1, StepKeepsReader
<1>4. CASE StartSync \/ ListRemoved \/ ListFails \/ (\E n \in Names : LstatEntry(n)) \/ SendLine
  BY <1>3, <1>4 DEF StartSync, ListRemoved, ListNext, ListFails, LstatEntry, SendLine
<1>5. CASE FinishSync \/ Shutdown
  <2>1. PICK hs : handle' = Close(hs)
    BY <1>5 DEF FinishSync, Shutdown
  <2>2. handle'[h] = handle[h]
    BY <2>1 DEF Close, Closed
  <2> QED
    BY <1>3, <1>5, <2>2 DEF FinishSync, Shutdown
<1>6. CASE ReadBuffered \/ ReadChunk \/ ReadEOF
  <2>1. SameFiles
    BY <1>1, <1>6, ReadKeepsFiles DEF ReadEOF, SameFiles
  <2>2. h \in OpenHandles
    BY <2>1 DEF SameFiles, OpenHandles
  <2> QED
    BY <1>1, <1>6, <2>2, ReadWillRead
<1>7. CASE SyncEntry
  BY <1>7, SyncEntryWillRead
<1>8. CASE SendAborted
  BY <1>8 DEF SendAborted
<1> QED
  BY <1>1, <1>4, <1>5, <1>6, <1>7, <1>8 DEF Goroutine, ReadNewLines

-----------------------------------------------------------------------------
(* What is unread, and the events.                                          *)

\* processEvent works on the watched file whose descriptor the event names, and
\* on no other open file.
LEMMA EventOfFile ==
  ASSUME KqueueInv, pc = "loop", NEW f \in Fds,
         DirDeleted(f) \/ DirWritten(f) \/ FileTruncated(f) \/ FileWritten(f) \/ UnknownDescriptor(f)
  PROVE  /\ cur = None
         /\ \A h \in OpenHandles : fd[h] # f => handle'[h] = handle[h] /\ cur' # h
         /\ \A h \in OpenHandles : fd[h] = f =>
              \/ /\ FileTruncated(f) /\ handle' = Rewound(h) /\ batch[f] = {"ATTRIB"} /\ cur' = None
              \/ /\ FileWritten(f) /\ cur' = h /\ pc' = "read"
                 /\ handle' = IF "ATTRIB" \in batch[f] THEN Rewound(h) ELSE handle
         /\ SameFiles
<1>1. FileInv /\ cur = None /\ HandlesIn(watched) = OpenHandles
  BY Waiting, NothingHeld DEF KqueueInv, FileInv, Custody
<1>2. \A h \in OpenHandles : /\ h \in Handles /\ h # None /\ fd[h] \in FileFds
                             /\ \A g \in OpenHandles : fd[g] = fd[h] => g = h
  BY FileDescriptor, Distinct
<1>3. ASSUME UNCHANGED <<handle, cur>>, f \notin FileFds \/ WatchedAt(f) = {}
      PROVE  /\ \A h \in OpenHandles : fd[h] # f /\ handle'[h] = handle[h] /\ cur' # h
             /\ SameFiles
  BY <1>1, <1>2, <1>3 DEF WatchedAt, SameFiles
<1>4. CASE DirDeleted(f) \/ DirWritten(f)
  <2>1. f \notin FileFds
    BY <1>4, ConstantsAssumption DEF DirDeleted, DirWritten, FileFds
  <2> QED
    BY <1>1, <1>3, <1>4, <2>1 DEF DirDeleted, DirWritten
<1>5. CASE UnknownDescriptor(f)
  BY <1>1, <1>3, <1>5 DEF UnknownDescriptor
<1>6. ASSUME NEW g \in WatchedAt(f), handle' \in {handle, Rewound(g)}
      PROVE  /\ \A h \in OpenHandles : fd[h] # f => handle'[h] = handle[h]
             /\ \A h \in OpenHandles : fd[h] = f => h = g
             /\ SameFiles
  <2>1. g \in OpenHandles /\ fd[g] = f
    BY <1>1 DEF WatchedAt
  <2> QED
    BY <1>1, <1>2, <1>6, <2>1, RewoundFile DEF SameFiles
<1>7. CASE FileTruncated(f)
  <2>1. PICK g \in WatchedAt(f) : handle' = Rewound(g)
    BY <1>7 DEF FileTruncated
  <2> QED
    BY <1>1, <1>2, <1>6, <1>7, <2>1 DEF FileTruncated
<1>8. CASE FileWritten(f)
  <2>1. PICK g \in WatchedAt(f) :
          handle' = (IF "ATTRIB" \in batch[f] THEN Rewound(g) ELSE handle) /\ cur' = g
    BY <1>8 DEF FileWritten
  <2>2. pc' = "read" /\ handle' \in {handle, Rewound(g)}
    BY <1>8, <2>1 DEF FileWritten
  <2>3. fd[g] = f
    BY DEF WatchedAt
  <2> QED
    BY <1>1, <1>6, <1>8, <2>1, <2>2, <2>3
<1> QED
  BY <1>4, <1>5, <1>7, <1>8

\* An event of the file itself: NOTE_ATTRIB has the offset checked, NOTE_WRITE has
\* the file read, and what the one leaves to the other is in a flag that is still
\* pending.
LEMMA FileEventWillRead ==
  ASSUME KqueueInv, NEW h \in OpenHandles, WillBeRead(h), cur = None, SameFiles,
         UNCHANGED <<fsVars, fd, registered, pending>>, pc = "loop",
         batch' = [batch EXCEPT ![fd[h]] = {}],
         \/ handle' = Rewound(h) /\ batch[fd[h]] = {"ATTRIB"} /\ cur' = None
         \/ /\ cur' = h /\ pc' = "read"
            /\ handle' = IF "ATTRIB" \in batch[fd[h]] THEN Rewound(h) ELSE handle
  PROVE  WillBeRead(h)'
<1> DEFINE i == handle[h].inode
           pos == handle[h].pos
           end == Len(content[i])
<1>1. /\ h \in Handles /\ h # None /\ fd[h] \in Fds /\ FileInv
      /\ end \in Nat /\ pos \in Nat /\ batch \in [Fds -> SUBSET Flags]
  BY FileDescriptor, ReaderTypes, Distinct DEF KqueueInv
<1>2. h \in registered /\ h \in registered'
  BY <1>1 DEF WillBeRead
<1>3. handle'[h].inode = i /\ content' = content /\ history' = history /\ fd' = fd
  BY <1>1 DEF SameFiles, fsVars
<1>4. pending'[fd[h]] = pending[fd[h]] /\ batch'[fd[h]] = {}
  BY <1>1
<1>5. /\ Rewound(h)[h].pos = IF pos > end THEN 0 ELSE pos
      /\ Rewound(h)[h].buf = IF pos > end THEN <<>> ELSE handle[h].buf
  BY <1>1, RewoundOffset
<1>6. LineEnds(<<>>) = {} /\ LineEnds(handle[h].buf) = {}
  BY <1>1 DEF LineEnds, WillBeRead
<1>7. /\ "truncated" \notin history[i] => pos <= end
      /\ "ATTRIB" \in pending[fd[h]] /\ end > 0 => "WRITE" \in pending[fd[h]]
      /\ pos > end => "ATTRIB" \in pending[fd[h]] \cup batch[fd[h]]
      /\ end > 0 /\ (pos > end \/ pos < end) => "WRITE" \in pending[fd[h]] \cup batch[fd[h]]
  BY <1>1, <1>2 DEF WillBeRead, Flagged
<1> HIDE DEF i, pos, end
<1>8. CASE handle' = Rewound(h) /\ batch[fd[h]] = {"ATTRIB"} /\ cur' = None
  <2>1. handle'[h].pos <= end /\ handle'[h].pos \in Nat
    BY <1>1, <1>5, <1>8
  <2>2. end > 0 /\ handle'[h].pos < end => "WRITE" \in pending[fd[h]]
    BY <1>1, <1>5, <1>7, <1>8
  <2>3. LineEnds(handle'[h].buf) = {}
    BY <1>5, <1>6, <1>8
  <2>4. ~(handle'[h].pos > end)
    BY <1>1, <2>1
  <2> QED
    BY <1>2, <1>3, <1>4, <1>7, <2>1, <2>2, <2>3, <2>4 DEF WillBeRead, Flagged, i, end
<1>9. CASE /\ cur' = h /\ pc' = "read"
           /\ handle' = IF "ATTRIB" \in batch[fd[h]] THEN Rewound(h) ELSE handle
  <2>1. /\ handle'[h].pos > end => handle'[h].pos = pos /\ pos > end
        /\ handle'[h].pos > end => "ATTRIB" \in pending[fd[h]]
        /\ "truncated" \notin history[i] => handle'[h].pos <= end
    BY <1>1, <1>5, <1>7, <1>9 DEF pos
  <2> QED
    BY <1>2, <1>3, <1>4, <1>7, <1>9, <2>1 DEF WillBeRead, Flagged, i, end
<1> QED
  BY <1>8, <1>9

LEMMA ProcessEventReads == ASSUME KqueueInv, ReadInv, ProcessEvent PROVE NameKept' /\ AllWillBeRead'
<1>1. pc = "loop" /\ UNCHANGED <<fsVars, done, listing, fd, registered, pending>>
  BY DEF ProcessEvent
<1>2. PICK f \in Fds :
        /\ DirDeleted(f) \/ DirWritten(f) \/ FileTruncated(f) \/ FileWritten(f) \/ UnknownDescriptor(f)
        /\ batch' = [batch EXCEPT ![f] = {}]
  BY DEF ProcessEvent
<1>3. /\ cur = None /\ SameFiles
      /\ \A h \in OpenHandles : fd[h] # f => handle'[h] = handle[h] /\ cur' # h
      /\ \A h \in OpenHandles : fd[h] = f =>
           \/ /\ FileTruncated(f) /\ handle' = Rewound(h) /\ batch[f] = {"ATTRIB"} /\ cur' = None
           \/ /\ FileWritten(f) /\ cur' = h /\ pc' = "read"
              /\ handle' = IF "ATTRIB" \in batch[f] THEN Rewound(h) ELSE handle
  BY <1>1, <1>2, EventOfFile
<1>4. OpenHandles' = OpenHandles /\ \A i : Readers(i)' = Readers(i)
  BY <1>3, SameReaders
<1>5. NameKept'
  BY <1>1, <1>3, NothingRenamed DEF ReadInv, fsVars
<1>6. ASSUME ~done, ReadAll, NEW h \in OpenHandles
      PROVE  Lost(handle[h].inode)' \/ WillBeRead(h)'
  <2>1. h \in Handles /\ h # None /\ fd[h] \in Fds /\ handle'[h].inode = handle[h].inode
    BY <1>3, FileDescriptor, Distinct DEF SameFiles
  <2>2. CASE Lost(handle[h].inode)
    BY <1>1, <2>1, <2>2 DEF Lost, fsVars
  <2>3. CASE WillBeRead(h) /\ fd[h] = f
    BY <1>1, <1>2, <1>3, <2>3, FileEventWillRead
  <2>4. CASE WillBeRead(h) /\ fd[h] # f
    <3>1. h \in registered
      BY <1>3, <2>1, <2>4 DEF WillBeRead
    <3>2. handle'[h] = handle[h] /\ cur' # h /\ cur # h
      BY <1>3, <2>1, <2>4
    <3>3. batch'[fd[h]] = batch[fd[h]]
      BY <1>2, <2>1, <2>4 DEF KqueueInv
    <3> QED
      BY <1>1, <2>4, <3>1, <3>2, <3>3, ReaderKept DEF fsVars
  <2> QED
    BY <1>6, <2>2, <2>3, <2>4 DEF ReadInv, AllWillBeRead
<1> QED
  BY <1>1, <1>4, <1>5, <1>6 DEF AllWillBeRead

LEMMA ReadInvNext ==
  ASSUME KqueueInv, SyncInv, ReadInv, [KqueueNext]_allVars
  PROVE  ReadInv'
<1>1. KnotesRegistered'
  BY KnotesNext DEF ReadInv
<1>2. ASSUME UNCHANGED <<fsVars, handle, listing>> PROVE NameKept'
  BY <1>2 DEF ReadInv, NameKept, Readers, OpenHandles, fsVars
<1>3. ASSUME UNCHANGED <<fsVars, handle, cur, pc, fd, registered>>,
             NEW h \in OpenHandles, Lost(handle[h].inode) \/ WillBeRead(h),
             pending'[fd[h]] \cup batch'[fd[h]] = pending[fd[h]] \cup batch[fd[h]],
             pending'[fd[h]] \in {pending[fd[h]], {}}
      PROVE  Lost(handle[h].inode)' \/ WillBeRead(h)'
  <2>1. CASE Lost(handle[h].inode)
    BY <1>3, <2>1 DEF Lost, fsVars
  <2>2. CASE WillBeRead(h)
    BY <1>3, <2>2, ReaderKept DEF fsVars
  <2> QED
    BY <1>3, <2>1, <2>2
<1>4. CASE FileSystem
  BY <1>1, <1>4, FileSystemKeepsNames, FileSystemWillRead, DisturbsPast
     DEF ReadInv, SyncInv, DeliveryInv, KqueueInv, FileSystem
<1>5. CASE Kevent
  <2>1. UNCHANGED <<fsVars, tailerVars, done, fd, registered>>
    BY <1>5 DEF Kevent, vars
  <2>2. ASSUME NEW h \in OpenHandles
        PROVE  /\ pending'[fd[h]] \cup batch'[fd[h]] = pending[fd[h]] \cup batch[fd[h]]
               /\ pending'[fd[h]] \in {pending[fd[h]], {}}
    BY <1>5, FileDescriptor DEF Kevent, NoEvents
  <2>3. AllWillBeRead'
    BY <1>3, <2>1, <2>2 DEF ReadInv, AllWillBeRead, OpenHandles, tailerVars, mapVars, readVars
  <2> QED
    BY <1>1, <1>2, <2>1, <2>3 DEF ReadInv, tailerVars, mapVars, syncVars
<1>6. CASE ProcessEvent
  BY <1>1, <1>6, ProcessEventReads DEF ReadInv
<1>7. CASE Step
  BY <1>1, <1>7, StepKeepsNames, StepWillRead DEF ReadInv, Step, ListRemoved, KqueueInv
<1>8. CASE CloseTailer /\ Operation("close") /\ UNCHANGED kqueueVars
  BY <1>1, <1>2, <1>8 DEF ReadInv, AllWillBeRead, CloseTailer, tailerVars, mapVars, syncVars, fsVars, NameKept, Readers, OpenHandles
<1>9. CASE UNCHANGED allVars
  <2>1. UNCHANGED <<fsVars, tailerVars, done, fd, registered, pending, batch>>
    BY <1>9 DEF allVars, vars, kqueueVars
  <2>2. AllWillBeRead'
    BY <1>3, <2>1 DEF ReadInv, AllWillBeRead, OpenHandles, tailerVars, mapVars, readVars
  <2> QED
    BY <1>1, <1>2, <2>1, <2>2 DEF ReadInv, tailerVars, mapVars, syncVars
<1>10. CASE WatchFile
  <2>1. UNCHANGED <<fsVars, tailerVars, done, fd, pending, batch>>
        /\ pc = "read" /\ cur \notin registered /\ registered' = registered \cup {cur}
    BY <1>10 DEF WatchFile, vars
  <2>2. ASSUME ~done, ReadAll, NEW h \in OpenHandles
        PROVE  Lost(handle[h].inode)' \/ WillBeRead(h)'
    <3>1. CASE h # cur
      <4>1. h \in registered' <=> h \in registered
        BY <2>1, <3>1
      <4>2. CASE Lost(handle[h].inode)
        BY <2>1, <4>2 DEF Lost, fsVars, tailerVars, mapVars
      <4>3. CASE WillBeRead(h)
        BY <2>1, <4>1, <4>3, ReaderKept DEF fsVars, tailerVars, mapVars, readVars
      <4> QED
        BY <2>2, <4>2, <4>3 DEF ReadInv, AllWillBeRead
    <3>2. CASE h = cur
      <4>1. pending[fd[h]] = {} /\ handle[h].pos \in Nat /\ Len(content[handle[h].inode]) \in Nat
        BY <2>1, <3>2, NotRegistered, ReaderTypes DEF ReadInv, KqueueInv
      <4>2. CASE Lost(handle[h].inode)
        BY <2>1, <4>2 DEF Lost, fsVars, tailerVars, mapVars
      <4>3. CASE WillBeRead(h) /\ ~Lost(handle[h].inode)
        <5>1. handle[h].pos <= Len(content[handle[h].inode])
          BY <2>1, <3>2, <4>1, <4>3 DEF WillBeRead, Lost
        <5>2. handle' = handle /\ content' = content /\ cur' = cur /\ fd' = fd /\ history' = history
              /\ pending' = pending /\ h \in registered'
          BY <2>1, <3>2 DEF fsVars, tailerVars, mapVars, readVars
        <5> QED
          BY <3>2, <4>1, <5>1, <5>2 DEF WillBeRead
      <4> QED
        BY <2>2, <4>2, <4>3 DEF ReadInv, AllWillBeRead
    <3> QED
      BY <3>1, <3>2
  <2>3. AllWillBeRead'
    BY <2>1, <2>2 DEF AllWillBeRead, OpenHandles, tailerVars, mapVars
  <2> QED
    BY <1>1, <1>2, <2>1, <2>3 DEF ReadInv, tailerVars, mapVars, syncVars
<1> QED
  BY <1>4, <1>5, <1>6, <1>7, <1>8, <1>9, <1>10 DEF KqueueNext

-----------------------------------------------------------------------------
(* At rest.                                                                 *)

LEMMA AllReadAfterEvents ==
  ASSUME KqueueInv, ReadInv, AtRest, ~done, ReadAll
  PROVE  AllRead
<1>1. /\ cur = None /\ HandlesIn(watched) \subseteq OpenHandles /\ pc = "loop"
      /\ pending = NoEvents /\ batch = NoEvents
  BY Waiting DEF KqueueInv, FileInv, Custody, AtRest
<1> SUFFICES ASSUME NEW h \in OpenHandles, ~Lost(handle[h].inode) PROVE ReadToEnd(h)
  BY <1>1 DEF AllRead, ReadUp, Lost
<1>2. WillBeRead(h)
  BY DEF ReadInv, AllWillBeRead
<1>3. /\ h # None /\ handle[h].pos \in Nat /\ Len(content[handle[h].inode]) \in Nat /\ fd[h] \in Fds
  BY FileDescriptor, ReaderTypes, Distinct DEF KqueueInv
<1>4. ~Flagged(h, "WRITE") /\ ~Flagged(h, "ATTRIB")
  BY <1>1, <1>3 DEF Flagged, NoEvents
<1>5. h \in registered
  BY <1>1, <1>2, <1>3 DEF WillBeRead
<1>6. LineEnds(handle[h].buf) = {}
  BY <1>1, <1>2, <1>3 DEF WillBeRead
<1>7. handle[h].pos <= Len(content[handle[h].inode])
  BY <1>2, <1>3, <1>4, <1>5 DEF WillBeRead
<1>8. ~(handle[h].pos < Len(content[handle[h].inode]))
  BY <1>1, <1>2, <1>3, <1>4 DEF WillBeRead
<1> QED
  BY <1>3, <1>6, <1>7, <1>8 DEF ReadToEnd

\* With kqueue, and for any renames, truncations and reuse of descriptors: once
\* the kernel has no flag left and kevent() returned none that is not handled, the
\* watched files are the files that are there, and each was read to its end, but
\* for those that were both truncated and renamed (fswatcher_darwin.go: processEvent,
\* watchFile; fseventProducerLoop_darwin.go; fswatcher.go: syncFilesInDir, readNewLines).
THEOREM KqueueAllReadAtRest == KqueueSpec => []AllReadAtRest
<1> DEFINE Inv == KqueueInv /\ SyncInv /\ WatchInv(Awaited) /\ ReadInv
<1>1. KqueueInit => Inv
  <2>1. PICK Due : Due = Awaited
    OBVIOUS
  <2> QED
    BY <2>1, KqueueInvInit, SyncInvInit, WatchInvInit, ReadInvInit DEF KqueueInit
<1>2. Inv /\ [KqueueNext]_allVars => Inv'
  BY KqueueInvNext, KqueueDelivers, KqueueWatched, ReadInvNext
<1>3. ASSUME Inv, AtRest PROVE WatchListCurrent
  <2>1. PICK Due : Due = Awaited
    OBVIOUS
  <2>2. Due = {} /\ pc = "loop"
    <3>1. \A d \in Dirs : DirFd(d) \in Fds
      BY DirFds, ConstantsAssumption DEF Fds
    <3> QED
      BY <1>3, <2>1, <3>1 DEF AtRest, Awaited, NoEvents
  <2> QED
    BY <1>3, <2>1, <2>2, WatchInvImplies DEF KqueueInv
<1>4. Inv => AllReadAtRest
  BY <1>3, AllReadAfterEvents DEF AllReadAtRest
<1> QED
  BY <1>1, <1>2, <1>4, PTL DEF KqueueSpec

=============================================================================
