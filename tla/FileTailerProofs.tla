--------------------------- MODULE FileTailerProofs ---------------------------
(***************************************************************************)
(* What every watcher's proof needs of FileTailer, for any paths, files    *)
(* and bounds: that the steps of the goroutine and of other processes      *)
(* preserve these invariants.  FileInv says where each open file is known; *)
(* DeliveryInv follows each file from its path to its reader, and from the *)
(* reader's offset to the lines delivered; SyncInv is DeliveryInv and what *)
(* a listing means to the files watched, of which only the two renames     *)
(* that Disturbs names can make it wrong; WatchInv is about the list of    *)
(* watched files, for the watchers whose events tell which directories to  *)
(* sync.  The watchers' own steps are in the modules that extend this.     *)
(***************************************************************************)
EXTENDS FileTailer, TLAPS

\* Where the goroutine is tells what it works on.  (Windows has "open" between the
\* comparison of an entry and its opening, and "seek" and "rewind" before reads.)
Position ==
  /\ cur # None <=> pc \in {"read", "send", "seek", "rewind"}
  /\ pc \in {"lstat", "entries", "open", "seek"} => Syncing
  /\ Syncing => pc \in {"lstat", "entries", "open", "seek", "read", "send"}
  /\ ~Syncing => after = NothingWatched /\ listing = {}
  /\ pc # "lstat" => toStat = {}
  /\ pc = "returned" => watched = NothingWatched

\* Each path of the directory is in one place: to be looked at, listed, being
\* read, or in watchedFilesAfter.  So nothing in there is overwritten.
OnePlace ==
  /\ \A n \in toStat : after[n] = None /\ \A i \in Inodes : <<n, i>> \notin listing
  /\ \A n \in Names, i \in Inodes : <<n, i>> \in listing => after[n] = None
  /\ \A n \in Names, i, j \in Inodes : <<n, i>> \in listing /\ <<n, j>> \in listing => i = j
  /\ Syncing /\ cur # None =>
       /\ handle[cur].name \in Names
       /\ after[handle[cur].name] = None
       /\ \A i \in Inodes : <<handle[cur].name, i>> \notin listing

\* Every open file is in watchedFiles or watchedFilesAfter, or being read.
Custody ==
  /\ OpenHandles = HandlesIn(watched) \cup HandlesIn(after) \cup ({cur} \ {None})
  /\ ~Syncing /\ cur # None => cur \in HandlesIn(watched)

\* The files that a poll has still to read are watched.
FilesLeft ==
  /\ \A n \in filesLeft : watched[n] # None
  /\ filesLeft # {} => task = "poll" /\ ~Syncing /\ pc \in {"files", "read", "send", "rewind"}

\* (SelectSeq, which takes a directory out of watchedDirs, is beyond the provers.)
Types == FileSystemOK /\ FilesOK /\ ControlOK

FileInv == Types /\ Position /\ OnePlace /\ Custody /\ FilesLeft

LEMMA Distinct ==
  /\ None \notin Handles /\ None \notin Inodes /\ NoDir \notin Dirs
  /\ Handles \subseteq Nat /\ Inodes \subseteq Nat
  BY ConstantsAssumption DEF None, Handles

-----------------------------------------------------------------------------
(* The files that a map of the tailer holds.                                *)

LEMMA NothingHeld == HandlesIn(NothingWatched) = {}
  BY DEF HandlesIn, NothingWatched

LEMMA HeldAreHandles ==
  ASSUME NEW m \in [Names -> Handles \cup {None}]
  PROVE  HandlesIn(m) \subseteq Handles /\ None \notin HandlesIn(m)
  BY DEF HandlesIn

LEMMA HoldOneMore ==
  ASSUME NEW m \in [Names -> Handles \cup {None}], NEW n \in Names, NEW h \in Handles,
         m[n] = None
  PROVE  /\ [m EXCEPT ![n] = h] \in [Names -> Handles \cup {None}]
         /\ HandlesIn([m EXCEPT ![n] = h]) = HandlesIn(m) \cup {h}
<1> DEFINE f == [m EXCEPT ![n] = h]
<1>1. h # None
  BY Distinct
<1>2. \A p \in Names : f[p] = IF p = n THEN h ELSE m[p]
  OBVIOUS
<1>3. HandlesIn(f) \subseteq HandlesIn(m) \cup {h}
  BY <1>2 DEF HandlesIn
<1>4. h \in HandlesIn(f)
  BY <1>1, <1>2 DEF HandlesIn
<1>5. ASSUME NEW g \in HandlesIn(m) PROVE g \in HandlesIn(f)
  <2>1. PICK p \in Names : g = m[p] /\ g # None
    BY DEF HandlesIn
  <2>2. f[p] = g
    BY <1>2, <2>1
  <2> QED
    BY <2>1, <2>2 DEF HandlesIn
<1> QED
  BY <1>3, <1>4, <1>5

LEMMA CloseFiles ==
  ASSUME FilesOK, NEW hs
  PROVE  /\ Close(hs) \in [Handles -> Opened \cup {Closed}]
         /\ {h \in Handles : Close(hs)[h].open} = OpenHandles \ hs
  BY DEF FilesOK, Close, OpenHandles, Closed, Opened

-----------------------------------------------------------------------------
(* The start.                                                               *)

LEMMA FileInvInit == ASSUME Init PROVE FileInv
<1>1. entry \in [Names -> Inodes \cup {None}] /\ fresh \subseteq Inodes
  BY DEF Init, InitialEntries
<1>2. content \in [Inodes -> Seq(BOOLEAN)] /\ \A i \in Inodes : Len(content[i]) <= MaxPieces
  <2>1. content = [i \in Inodes |-> IF i \in fresh THEN <<>> ELSE <<TRUE>>]
    BY DEF Init
  <2>2. <<>> \in Seq(BOOLEAN) /\ <<TRUE>> \in Seq(BOOLEAN)
    OBVIOUS
  <2>3. content \in [Inodes -> Seq(BOOLEAN)]
    BY <2>1, <2>2
  <2>4. ASSUME NEW i \in Inodes PROVE Len(content[i]) <= MaxPieces
    <3>1. CASE i \in fresh
      <4>1. Len(content[i]) = 0
        BY <2>1, <3>1
      <4> QED
        BY <4>1, ConstantsAssumption
    <3>2. CASE i \notin fresh
      <4>1. content[i] = <<TRUE>>
        BY <2>1, <3>2
      <4>2. Len(content[i]) = 1
        BY <4>1
      <4> QED
        BY <4>2, ConstantsAssumption
    <3> QED
      BY <3>1, <3>2
  <2> QED
    BY <2>3, <2>4
<1>3. handle = [h \in Handles |-> Closed]
  BY DEF Init
<1>4. watched \in [Names -> Handles \cup {None}] /\ after \in [Names -> Handles \cup {None}]
  BY DEF Init, NothingWatched
<1>5. line \in Seq(1 .. MaxPieces) /\ delivered \in [Inodes -> Seq(1 .. MaxPieces)]
  BY DEF Init
<1>6. history \in [Inodes -> SUBSET Past]
  BY DEF Init
<1>7. /\ pc = "sync" /\ task = "init" /\ dir = NoDir /\ cur = None /\ failure = "none"
      /\ removed = {} /\ ops = 0 /\ toStat = {} /\ listing = {} /\ filesLeft = {}
      /\ done = FALSE /\ watchedDirs = DirSeq /\ dirsLeft = DirSeq
      /\ watched = NothingWatched /\ after = NothingWatched
  BY DEF Init
<1>8. Types
  <2>1. FileSystemOK
    BY <1>1, <1>2, <1>6, <1>7, ConstantsAssumption DEF FileSystemOK
  <2>2. FilesOK
    BY <1>3, <1>4, <1>7 DEF FilesOK
  <2>3. ControlOK
    BY <1>5, <1>7, ConstantsAssumption DEF ControlOK
  <2> QED
    BY <2>1, <2>2, <2>3 DEF Types
<1>9. OpenHandles = {}
  BY <1>3 DEF OpenHandles, Closed
<1>10. Position /\ OnePlace /\ FilesLeft
  BY <1>7, Distinct DEF Position, OnePlace, FilesLeft, Syncing
<1>11. Custody
  BY <1>7, <1>9, NothingHeld DEF Custody
<1> QED
  BY <1>8, <1>10, <1>11 DEF FileInv
-----------------------------------------------------------------------------
(* Other processes: they change no variable of the tailer.                  *)

LEMMA OperationCounts == ASSUME FileSystemOK, NEW op, Operation(op) PROVE ops' \in 0 .. MaxOps
  BY ConstantsAssumption DEF FileSystemOK, Operation

LEMMA TailerUnchanged ==
  ASSUME FileInv, UNCHANGED tailerVars, Types'
  PROVE  FileInv'
  BY DEF FileInv, Position, OnePlace, Custody, FilesLeft, tailerVars, mapVars, syncVars, readVars,
         Syncing, OpenHandles, HandlesIn, NothingWatched

LEMMA NothingHappens == ASSUME FileInv, UNCHANGED vars PROVE FileInv'
<1>1. Types'
  BY DEF FileInv, Types, FileSystemOK, FilesOK, ControlOK, vars, fsVars, tailerVars, mapVars,
         syncVars, readVars
<1> QED
  BY <1>1, TailerUnchanged DEF vars

LEMMA FileSystemTypes ==
  ASSUME FileSystemOK,
         \/ \E n \in Names : CreateFile(n) \/ DeleteFile(n) \/ TruncateFile(n)
         \/ \E n \in Names, endsLine \in BOOLEAN : AppendPiece(n, endsLine)
         \/ \E m, n \in Names, marks \in SUBSET Past : RenameFile(m, n, marks)
         \/ \E d \in Dirs : RemoveDir(d)
  PROVE  FileSystemOK'
<1>1. FileSystemOK
  OBVIOUS
<1> USE DEF FileSystemOK
<1>2. ASSUME NEW n \in Names, CreateFile(n) PROVE FileSystemOK'
  BY <1>1, <1>2, OperationCounts DEF CreateFile
<1>3. ASSUME NEW n \in Names, DeleteFile(n) PROVE FileSystemOK'
  BY <1>1, <1>3, OperationCounts DEF DeleteFile
<1>4. ASSUME NEW n \in Names, TruncateFile(n) PROVE FileSystemOK'
  <2>1. entry[n] \in Inodes /\ content' = [content EXCEPT ![entry[n]] = <<>>]
    BY <1>1, <1>4 DEF TruncateFile
  <2>2. content' \in [Inodes -> Seq(BOOLEAN)]
    BY <1>1, <2>1
  <2>3. ASSUME NEW i \in Inodes PROVE Len(content'[i]) <= MaxPieces
    BY <1>1, <2>1, ConstantsAssumption
  <2>4. history' \in [Inodes -> SUBSET Past]
    BY <1>1, <1>4, <2>1 DEF TruncateFile, Past
  <2> QED
    BY <1>1, <1>4, <2>2, <2>3, <2>4, OperationCounts DEF TruncateFile
<1>5. ASSUME NEW n \in Names, NEW endsLine \in BOOLEAN, AppendPiece(n, endsLine) PROVE FileSystemOK'
  <2>1. /\ entry[n] \in Inodes /\ Len(content[entry[n]]) < MaxPieces
        /\ content' = [content EXCEPT ![entry[n]] = Append(content[entry[n]], endsLine)]
    BY <1>1, <1>5 DEF AppendPiece
  <2>2. content' \in [Inodes -> Seq(BOOLEAN)]
    BY <1>1, <2>1
  <2>3. ASSUME NEW i \in Inodes PROVE Len(content'[i]) <= MaxPieces
    <3>1. CASE i = entry[n]
      <4>1. content'[i] = Append(content[i], endsLine) /\ content[i] \in Seq(BOOLEAN)
        BY <1>1, <2>1, <3>1
      <4> QED
        BY <2>1, <3>1, <4>1, ConstantsAssumption
    <3>2. CASE i # entry[n]
      BY <1>1, <2>1, <3>2
    <3> QED
      BY <3>1, <3>2
  <2> QED
    BY <1>1, <1>5, <2>2, <2>3, OperationCounts DEF AppendPiece
<1>6. ASSUME NEW m \in Names, NEW n \in Names, NEW marks \in SUBSET Past, RenameFile(m, n, marks) PROVE FileSystemOK'
  <2>1. entry[m] \in Inodes
    BY <1>1, <1>6 DEF RenameFile
  <2>2. entry' \in [Names -> Inodes \cup {None}]
    BY <1>1, <1>6 DEF RenameFile
  <2>3. history' \in [Inodes -> SUBSET Past]
    <3>1. {"renamed", "moved", "left", "returned", "back"} \subseteq Past
      BY DEF Past
    <3>2. PICK past \in SUBSET Past : history' = [history EXCEPT ![entry[m]] = past]
      <4> DEFINE past == history[entry[m]]
           \cup {"renamed"} \cup marks \cup (IF DirOf[m] # DirOf[n] THEN {"moved"} ELSE {})
           \cup (IF m \in Matching /\ n \notin Matching THEN {"left"} ELSE {})
           \cup (IF "left" \in history[entry[m]] /\ n \in Matching THEN {"returned"} ELSE {})
           \cup (IF \E h \in Handles : handle[h].inode = entry[m] /\ handle[h].name = n
                   THEN {"back"} ELSE {})
      <4>1. history' = [history EXCEPT ![entry[m]] = past]
        BY <1>6 DEF RenameFile
      <4>2. past \in SUBSET Past
        BY <1>1, <2>1, <3>1
      <4> QED
        BY <4>1, <4>2
    <3> QED
      BY <1>1, <2>1, <3>2
  <2> QED
    BY <1>1, <1>6, <2>2, <2>3, OperationCounts DEF RenameFile
<1>7. ASSUME NEW d \in Dirs, RemoveDir(d) PROVE FileSystemOK'
  BY <1>1, <1>7, OperationCounts DEF RemoveDir
<1> QED
  BY <1>2, <1>3, <1>4, <1>5, <1>6, <1>7

LEMMA FileSystemStep ==
  ASSUME FileInv, UNCHANGED <<tailerVars, done>>,
         \/ \E n \in Names : CreateFile(n) \/ DeleteFile(n) \/ TruncateFile(n)
         \/ \E n \in Names, endsLine \in BOOLEAN : AppendPiece(n, endsLine)
         \/ \E m, n \in Names, marks \in SUBSET Past : RenameFile(m, n, marks)
         \/ \E d \in Dirs : RemoveDir(d)
  PROVE  FileInv'
<1>1. FileSystemOK'
  BY FileSystemTypes DEF FileInv, Types
<1>2. FilesOK' /\ ControlOK'
  BY DEF FileInv, Types, FilesOK, ControlOK, tailerVars, mapVars, syncVars, readVars
<1> QED
  BY <1>1, <1>2, TailerUnchanged DEF Types

LEMMA CloseTailerStep ==
  ASSUME FileInv, CloseTailer, ops' \in 0 .. MaxOps
  PROVE  FileInv'
<1>1. Types'
  BY DEF FileInv, Types, FileSystemOK, FilesOK, ControlOK, CloseTailer, tailerVars, mapVars,
         syncVars, readVars
<1> QED
  BY <1>1, TailerUnchanged DEF CloseTailer

-----------------------------------------------------------------------------
(* syncFilesInDir                                                           *)

\* The listing of a directory: its names, or as on Windows its entries.
Listed ==
  /\ dir' = Head(dirsLeft)
  /\ dirsLeft' = Tail(dirsLeft)
  /\ after' = [n \in Names |-> IF DirOf[n] # dir' THEN watched[n] ELSE None]
  /\ LET here == Existing \cap NamesIn(dir') \cap Matching
     IN  \/ toStat' = here /\ listing' = {} /\ pc' = IF here = {} THEN "entries" ELSE "lstat"
         \/ toStat' = {} /\ listing' = {<<n, entry[n]>> : n \in here} /\ pc' = "entries"
  /\ UNCHANGED <<fsVars, mapVars, task, filesLeft, readVars, failure, done>>

LEMMA ListedEntries ==
  ASSUME Listed, entry \in [Names -> Inodes \cup {None}]
  PROVE  /\ toStat' \subseteq Names /\ listing' \subseteq Names \X Inodes
         /\ pc' \in {"entries", "lstat"} /\ (pc' # "lstat" => toStat' = {})
         /\ toStat' = {} \/ listing' = {}
         /\ \A n \in toStat' : entry[n] # None /\ DirOf[n] = dir' /\ n \in Matching
         /\ \A n \in Names, i \in Inodes : <<n, i>> \in listing' =>
              entry[n] = i /\ DirOf[n] = dir' /\ n \in Matching
         /\ \A n \in Names, i \in Inodes : entry[n] = i /\ DirOf[n] = dir' /\ n \in Matching =>
              n \in toStat' \/ <<n, i>> \in listing'
         /\ \A n \in Names : after'[n] = IF DirOf[n] # dir' THEN watched[n] ELSE None
<1> DEFINE here == Existing \cap NamesIn(dir') \cap Matching
<1>1. here = {n \in Names : entry[n] # None /\ DirOf[n] = dir' /\ n \in Matching}
  BY DEF Existing, NamesIn
<1>2. \A n \in Names, i \in Inodes : entry[n] = i => entry[n] # None
  BY Distinct
<1>3. \A n \in Names : after'[n] = IF DirOf[n] # dir' THEN watched[n] ELSE None
  BY DEF Listed
<1>4. CASE toStat' = here /\ listing' = {} /\ pc' = IF here = {} THEN "entries" ELSE "lstat"
  <2> HIDE DEF here
  <2> QED
    BY <1>1, <1>2, <1>3, <1>4
<1>5. CASE toStat' = {} /\ listing' = {<<n, entry[n]>> : n \in here} /\ pc' = "entries"
  <2> HIDE DEF here
  <2>1. listing' \subseteq Names \X Inodes
    BY <1>1, <1>5
  <2>2. \A n \in Names, i \in Inodes : <<n, i>> \in listing' <=> n \in here /\ entry[n] = i
    BY <1>1, <1>5
  <2> QED
    BY <1>1, <1>2, <1>3, <1>5, <2>1, <2>2
<1> QED
  BY <1>4, <1>5 DEF Listed

LEMMA ListNextLists ==
  ASSUME FileInv, pc = "sync", ListNext
  PROVE  Listed
  BY DEF ListNext, Listed

LEMMA ListedStep ==
  ASSUME FileInv, pc = "sync", dirsLeft # <<>>, Listed
  PROVE  FileInv'
<1>1. ~Syncing /\ cur = None /\ after = NothingWatched /\ filesLeft = {}
  BY DEF FileInv, Types, Position, FilesLeft, FilesOK
<1>2. dir' \in Dirs /\ dirsLeft' \in Seq(Dirs) /\ Syncing'
  BY Distinct DEF FileInv, Types, ControlOK, Syncing, Listed
<1>3. UNCHANGED <<fsVars, mapVars, task, filesLeft, readVars, failure, done>>
  BY DEF Listed
<1>4. entry \in [Names -> Inodes \cup {None}] /\ watched \in [Names -> Handles \cup {None}]
  BY DEF FileInv, Types, FileSystemOK, FilesOK
<1>5. /\ toStat' \subseteq Names /\ listing' \subseteq Names \X Inodes
      /\ pc' \in {"entries", "lstat"} /\ (pc' # "lstat" => toStat' = {})
      /\ toStat' = {} \/ listing' = {}
      /\ \A n \in toStat' : DirOf[n] = dir'
      /\ \A n \in Names, i \in Inodes : <<n, i>> \in listing' => entry[n] = i /\ DirOf[n] = dir'
      /\ \A n \in Names : after'[n] = IF DirOf[n] # dir' THEN watched[n] ELSE None
  BY <1>4, ListedEntries
<1>6. after' \in [Names -> Handles \cup {None}]
  BY <1>4 DEF Listed
<1> USE DEF FileInv, Types, fsVars, mapVars, readVars
<1>7. FileSystemOK' /\ FilesOK' /\ ControlOK'
  BY <1>2, <1>3, <1>5, <1>6 DEF FileSystemOK, FilesOK, ControlOK
<1>8. HandlesIn(after') \subseteq HandlesIn(watched)
  BY <1>5 DEF HandlesIn
<1>9. Position' /\ FilesLeft'
  BY <1>1, <1>2, <1>3, <1>5 DEF Position, FilesLeft
<1>10. OnePlace'
  BY <1>1, <1>2, <1>3, <1>5 DEF OnePlace
<1>11. Custody'
  <2>1. OpenHandles' = OpenHandles /\ HandlesIn(watched') = HandlesIn(watched) /\ cur' = None
    BY <1>1, <1>3 DEF OpenHandles, HandlesIn
  <2>2. OpenHandles = HandlesIn(watched)
    BY <1>1, NothingHeld DEF Custody
  <2> QED
    BY <1>2, <1>8, <2>1, <2>2 DEF Custody
<1> QED
  BY <1>7, <1>9, <1>10, <1>11

LEMMA ListNextStep ==
  ASSUME FileInv, pc = "sync", dirsLeft # <<>>, ListNext
  PROVE  FileInv'
  BY ListNextLists, ListedStep

LEMMA ListFailsStep == ASSUME FileInv, ListFails PROVE FileInv'
<1> USE DEF FileInv, Types, ListFails, fsVars, mapVars, syncVars, readVars
<1>1. Types'
  BY DEF FileSystemOK, FilesOK, ControlOK
<1>2. ~Syncing /\ cur = None /\ filesLeft = {}
  BY DEF Position, FilesLeft, FilesOK
<1>3. Position' /\ OnePlace' /\ FilesLeft'
  BY <1>2 DEF Position, OnePlace, FilesLeft, Syncing, NothingWatched
<1>4. Custody'
  BY DEF Custody, OpenHandles, HandlesIn, Syncing
<1> QED
  BY <1>1, <1>3, <1>4

LEMMA LstatEntryStep == ASSUME FileInv, NEW n \in Names, LstatEntry(n) PROVE FileInv'
<1> USE DEF FileInv, Types, LstatEntry, fsVars, mapVars, readVars
<1>1. Syncing /\ cur = None /\ filesLeft = {}
  BY DEF Position, FilesLeft, FilesOK
<1>2. FileSystemOK' /\ ControlOK'
  BY DEF FileSystemOK, ControlOK
<1>3. entry[n] # None => entry[n] \in Inodes
  BY DEF FileSystemOK
<1>4. FilesOK'
  BY <1>3 DEF FilesOK
<1>5. Position' /\ FilesLeft'
  BY <1>1 DEF Position, FilesLeft, Syncing, NothingWatched
<1>6. OnePlace'
  <2>1. ASSUME NEW m \in Names, NEW i \in Inodes
        PROVE  <<m, i>> \in listing' <=> <<m, i>> \in listing \/ (m = n /\ i = entry[n])
    BY <1>3, Distinct
  <2>2. \A m \in toStat' : m \in toStat /\ m # n
    OBVIOUS
  <2>3. \A m \in Names : m = n => \A i \in Inodes : <<m, i>> \notin listing
    BY DEF OnePlace
  <2>4. after[n] = None
    BY DEF OnePlace
  <2>5. toStat \subseteq Names
    BY DEF FilesOK
  <2> QED
    BY <1>1, <2>1, <2>2, <2>3, <2>4, <2>5 DEF OnePlace
<1>7. Custody'
  BY DEF Custody, OpenHandles, HandlesIn, Syncing
<1> QED
  BY <1>2, <1>4, <1>5, <1>6, <1>7

\* What the entries of a listing have in common.
LEMMA EntryTaken ==
  ASSUME FileInv, pc \in {"entries", "open"}, NEW n \in Names, NEW i \in Inodes, <<n, i>> \in listing,
         listing' = listing \ {<<n, i>>}
  PROVE  /\ Syncing /\ cur = None /\ toStat = {} /\ filesLeft = {}
         /\ after[n] = None
         /\ \A j \in Inodes : <<n, j>> \notin listing'
         /\ \A m \in Names, j \in Inodes : <<m, j>> \in listing' => <<m, j>> \in listing /\ m # n
<1>1. Syncing /\ cur = None /\ toStat = {} /\ filesLeft = {}
  BY DEF FileInv, Position, FilesLeft
<1>2. after[n] = None
  BY DEF FileInv, OnePlace
<1>3. \A j \in Inodes : <<n, j>> \notin listing'
  BY DEF FileInv, OnePlace
<1> QED
  BY <1>1, <1>2, <1>3

SyncFrame == UNCHANGED <<fsVars, watched, watchedDirs, task, dirsLeft, dir, toStat, filesLeft,
                         line, delivered, failure, done>>

\* A watched file gets its key.
LEMMA KeepEntryStep ==
  ASSUME FileInv, pc = "entries", NEW n \in Names, NEW i \in Inodes, <<n, i>> \in listing,
         NEW h \in Handles, h \in HandlesIn(watched), after' = [after EXCEPT ![n] = h],
         listing' = listing \ {<<n, i>>}, UNCHANGED <<handle, pc, cur>>, SyncFrame
  PROVE  FileInv'
<1> USE DEF FileInv, Types, SyncFrame, fsVars
<1>1. /\ Syncing /\ cur = None /\ toStat = {} /\ filesLeft = {} /\ after[n] = None
      /\ \A j \in Inodes : <<n, j>> \notin listing'
      /\ \A m \in Names, j \in Inodes : <<m, j>> \in listing' => <<m, j>> \in listing /\ m # n
  BY EntryTaken
<1>2. /\ after' \in [Names -> Handles \cup {None}]
      /\ HandlesIn(after') = HandlesIn(after) \cup {h}
  <2> HIDE DEF FileInv, Types, SyncFrame, fsVars
  <2>1. after \in [Names -> Handles \cup {None}] /\ after[n] = None
    BY <1>1 DEF FileInv, Types, FilesOK
  <2>2. PICK m : m = [after EXCEPT ![n] = h]
    OBVIOUS
  <2>3. m \in [Names -> Handles \cup {None}] /\ HandlesIn(m) = HandlesIn(after) \cup {h}
    BY <2>1, <2>2, HoldOneMore
  <2> QED
    BY <2>2, <2>3 DEF HandlesIn
<1>3. FileSystemOK' /\ FilesOK' /\ ControlOK'
  BY <1>2 DEF FileSystemOK, FilesOK, ControlOK
<1>4. Position' /\ FilesLeft'
  BY <1>1 DEF Position, FilesLeft, Syncing, NothingWatched
<1>5. OnePlace'
  <2>1. \A m \in Names : m # n => after'[m] = after[m]
    BY DEF FilesOK
  <2> QED
    BY <1>1, <2>1 DEF OnePlace
<1>6. Custody'
  <2>1. OpenHandles' = OpenHandles /\ HandlesIn(watched') = HandlesIn(watched) /\ Syncing'
    BY <1>1 DEF OpenHandles, HandlesIn, Syncing
  <2> QED
    BY <1>1, <1>2, <2>1 DEF Custody
<1> QED
  BY <1>3, <1>4, <1>5, <1>6

LEMMA AlreadyWatchedStep ==
  ASSUME FileInv, pc = "entries", NEW n \in Names, NEW i \in Inodes, <<n, i>> \in listing,
         NEW h \in Handles, AlreadyWatched(n, i, h), SyncFrame
  PROVE  FileInv'
  BY KeepEntryStep DEF AlreadyWatched, SameFile

\* A file that goes on being read, under another name, or is new.
LEMMA ReadEntryStep ==
  ASSUME FileInv, pc \in {"entries", "open"}, NEW n \in Names, NEW i \in Inodes, <<n, i>> \in listing,
         NEW h \in Handles, handle' \in [Handles -> Opened \cup {Closed}],
         handle'[h].name = n, OpenHandles' = OpenHandles \cup {h},
         cur' = h, pc' \in {"read", "seek"}, listing' = listing \ {<<n, i>>}, after' = after, SyncFrame
  PROVE  FileInv'
<1> USE DEF FileInv, Types, SyncFrame, fsVars
<1>1. /\ Syncing /\ cur = None /\ toStat = {} /\ filesLeft = {} /\ after[n] = None
      /\ \A j \in Inodes : <<n, j>> \notin listing'
      /\ \A m \in Names, j \in Inodes : <<m, j>> \in listing' => <<m, j>> \in listing /\ m # n
  BY EntryTaken
<1>2. FileSystemOK' /\ FilesOK' /\ ControlOK'
  BY DEF FileSystemOK, FilesOK, ControlOK
<1>3. Position' /\ FilesLeft'
  BY <1>1, Distinct DEF Position, FilesLeft, Syncing, NothingWatched
<1>4. OnePlace'
  BY <1>1 DEF OnePlace
<1>5. Custody'
  <2>1. HandlesIn(watched') = HandlesIn(watched) /\ HandlesIn(after') = HandlesIn(after) /\ Syncing'
    BY <1>1 DEF HandlesIn, Syncing
  <2> QED
    BY <1>1, <2>1, Distinct DEF Custody
<1> QED
  BY <1>2, <1>3, <1>4, <1>5

LEMMA RenameEntryStep ==
  ASSUME FileInv, pc = "entries", NEW n \in Names, NEW i \in Inodes, <<n, i>> \in listing,
         NEW h \in Handles, h \in HandlesIn(watched), handle' = [handle EXCEPT ![h].name = n],
         cur' = h, pc' = "read", listing' = listing \ {<<n, i>>}, after' = after, SyncFrame
  PROVE  FileInv'
<1>1. h \in OpenHandles
  BY DEF FileInv, Custody
<1>2. handle \in [Handles -> Opened \cup {Closed}] /\ handle[h] \in Opened
  <2>1. handle \in [Handles -> Opened \cup {Closed}]
    BY DEF FileInv, Types, FilesOK
  <2>2. handle[h].open /\ ~Closed.open
    BY <1>1 DEF OpenHandles, Closed
  <2> QED
    BY <2>1, <2>2
<1>3. handle' = [handle EXCEPT ![h] = [handle[h] EXCEPT !.name = n]]
  BY <1>2
<1>4. [handle[h] EXCEPT !.name = n] \in Opened
  BY <1>2 DEF Opened
<1>5. handle' \in [Handles -> Opened \cup {Closed}] /\ handle'[h].name = n
  BY <1>2, <1>3, <1>4 DEF Opened
<1>6. OpenHandles' = OpenHandles
  BY <1>1, <1>2, <1>3, <1>4 DEF OpenHandles, Opened
<1> QED
  BY <1>1, <1>5, <1>6, ReadEntryStep

LEMMA FollowRenamedStep ==
  ASSUME FileInv, pc = "entries", NEW n \in Names, NEW i \in Inodes, <<n, i>> \in listing,
         NEW h \in Handles, FollowRenamed(n, i, h), SyncFrame
  PROVE  FileInv'
  BY RenameEntryStep DEF FollowRenamed, SameFile

\* A file as it is when it was opened.
JustOpened(n, pos) == [open |-> TRUE, inode |-> entry[n], name |-> n, pos |-> pos, buf |-> <<>>]

LEMMA OpenEntryStep ==
  ASSUME FileInv, pc \in {"entries", "open"}, NEW n \in Names, NEW i \in Inodes, <<n, i>> \in listing,
         entry[n] # None, NEW h \in Unused, NEW pos \in 0 .. MaxPieces,
         handle' = [handle EXCEPT ![h] = JustOpened(n, pos)],
         cur' = h, pc' \in {"read", "seek"}, listing' = listing \ {<<n, i>>}, after' = after, SyncFrame
  PROVE  FileInv'
<1> DEFINE file == JustOpened(n, pos)
<1>1. h \in Handles /\ handle \in [Handles -> Opened \cup {Closed}]
  BY DEF Unused, FileInv, Types, FilesOK
<1>2. file \in Opened /\ file.open /\ file.name = n
  BY DEF FileInv, Types, FileSystemOK, Opened, JustOpened
<1> HIDE DEF file
<1>3. handle' \in [Handles -> Opened \cup {Closed}] /\ handle'[h] = file
  BY <1>1, <1>2 DEF file
<1>4. OpenHandles' = OpenHandles \cup {h}
  BY <1>1, <1>2, <1>3 DEF OpenHandles, file
<1> QED
  BY <1>1, <1>2, <1>3, <1>4, ReadEntryStep

LEMMA OpenNewStep ==
  ASSUME FileInv, pc = "entries", NEW n \in Names, NEW i \in Inodes, <<n, i>> \in listing,
         OpenNew(n, i), SyncFrame
  PROVE  FileInv'
<1> DEFINE end == Len(content[entry[n]])
<1>1. PICK pos : pos = IF readall THEN 0 ELSE end
  OBVIOUS
<1>2. PICK h \in Unused :
        handle' = [handle EXCEPT ![h] = [open |-> TRUE, inode |-> entry[n], name |-> n,
                                         pos |-> pos, buf |-> <<>>]] /\ cur' = h
  BY <1>1 DEF OpenNew
<1>3. handle' = [handle EXCEPT ![h] = JustOpened(n, pos)]
  BY <1>2 DEF JustOpened
<1>4. pos \in 0 .. MaxPieces
  <2>1. entry[n] \in Inodes /\ content[entry[n]] \in Seq(BOOLEAN) /\ end <= MaxPieces
    BY DEF OpenNew, FileInv, Types, FileSystemOK
  <2> QED
    BY <1>1, <2>1, ConstantsAssumption
<1>5. entry[n] # None /\ pc' = "read" /\ listing' = listing \ {<<n, i>>} /\ after' = after
  BY DEF OpenNew
<1> QED
  BY <1>2, <1>3, <1>4, <1>5, OpenEntryStep

\* There is no file at the path any more.
LEMMA DropEntryStep ==
  ASSUME FileInv, pc \in {"entries", "open"}, NEW n \in Names, NEW i \in Inodes, <<n, i>> \in listing,
         pc' = "entries", listing' = listing \ {<<n, i>>}, UNCHANGED <<handle, after, cur>>, SyncFrame
  PROVE  FileInv'
<1> USE DEF FileInv, Types, SyncFrame, fsVars
<1>1. Syncing /\ cur = None /\ toStat = {} /\ filesLeft = {}
  BY EntryTaken
<1>2. FileSystemOK' /\ FilesOK' /\ ControlOK'
  BY DEF FileSystemOK, FilesOK, ControlOK
<1>3. Position' /\ FilesLeft' /\ OnePlace'
  BY <1>1 DEF Position, FilesLeft, OnePlace, Syncing, NothingWatched
<1>4. Custody'
  BY <1>1 DEF Custody, OpenHandles, HandlesIn, Syncing
<1> QED
  BY <1>2, <1>3, <1>4

LEMMA OpenFindsNothingStep ==
  ASSUME FileInv, pc = "entries", NEW n \in Names, NEW i \in Inodes, <<n, i>> \in listing,
         OpenFindsNothing(n, i), SyncFrame
  PROVE  FileInv'
  BY DropEntryStep DEF OpenFindsNothing

LEMMA SyncEntryStep == ASSUME FileInv, SyncEntry PROVE FileInv'
<1>1. pc = "entries" /\ SyncFrame /\ listing \subseteq Names \X Inodes
  BY DEF SyncEntry, SyncFrame, FileInv, Types, FilesOK
<1>2. PICK n \in Names, i \in Inodes :
        /\ <<n, i>> \in listing
        /\ \/ \E h \in Handles : AlreadyWatched(n, i, h) \/ FollowRenamed(n, i, h)
           \/ OpenNew(n, i)
           \/ OpenFindsNothing(n, i)
  <2>1. PICK e \in listing :
          \/ \E h \in Handles : AlreadyWatched(e[1], e[2], h) \/ FollowRenamed(e[1], e[2], h)
          \/ OpenNew(e[1], e[2])
          \/ OpenFindsNothing(e[1], e[2])
    BY DEF SyncEntry
  <2>2. e[1] \in Names /\ e[2] \in Inodes /\ e = <<e[1], e[2]>>
    BY <1>1, <2>1
  <2> QED
    BY <2>1, <2>2
<1> QED
  BY <1>1, <1>2, AlreadyWatchedStep, FollowRenamedStep, OpenNewStep, OpenFindsNothingStep

LEMMA FinishSyncStep == ASSUME FileInv, FinishSync PROVE FileInv'
<1> USE DEF FileInv, Types, FinishSync, fsVars, readVars
<1>1. Syncing /\ cur = None /\ toStat = {} /\ filesLeft = {}
  BY DEF Position, FilesLeft
<1>2. handle' \in [Handles -> Opened \cup {Closed}] /\ OpenHandles' = OpenHandles \ Unwatched
  BY CloseFiles DEF OpenHandles
<1>3. pc' \in {"sync", "files", "loop"} /\ (pc' = "files" => task = "poll")
  OBVIOUS
<1>4. FileSystemOK' /\ ControlOK'
  BY <1>3 DEF FileSystemOK, ControlOK
<1>5. FilesOK'
  BY <1>2 DEF FilesOK, NothingWatched
<1>6. ~Syncing'
  BY DEF Syncing
<1>7. Position' /\ OnePlace'
  BY <1>1, <1>3, <1>6 DEF Position, OnePlace, FilesOK
<1>8. FilesLeft'
  BY <1>3, <1>6 DEF FilesLeft
<1>9. Custody'
  <2>1. OpenHandles = HandlesIn(watched) \cup HandlesIn(after)
    BY <1>1 DEF Custody
  <2>2. HandlesIn(watched') = HandlesIn(after) /\ HandlesIn(after') = {}
    BY NothingHeld DEF HandlesIn
  <2> QED
    BY <1>1, <1>2, <2>1, <2>2 DEF Custody, Unwatched
<1> QED
  BY <1>4, <1>5, <1>7, <1>8, <1>9

-----------------------------------------------------------------------------
(* readNewLines                                                             *)

LEMMA ReadingIsOpen ==
  ASSUME FileInv, cur # None
  PROVE  /\ cur \in Handles /\ handle \in [Handles -> Opened \cup {Closed}]
         /\ handle[cur] \in Opened
<1>1. cur \in Handles /\ handle \in [Handles -> Opened \cup {Closed}]
  BY DEF FileInv, Types, FilesOK
<1>2. cur \in OpenHandles
  BY DEF FileInv, Custody
<1>3. handle[cur].open /\ ~Closed.open
  BY <1>2 DEF OpenHandles, Closed
<1> QED
  BY <1>1, <1>3

\* The file that is read takes a new offset and buffer, and nothing else changes
\* but the line and where the goroutine is.
LEMMA ReadsOnStep ==
  ASSUME FileInv, pc \in {"read", "seek", "rewind"}, pc' \in {"read", "send"}, line' \in Seq(1 .. MaxPieces),
         NEW pos \in 0 .. MaxPieces, NEW buf \in Seq(Piece),
         handle' = [handle EXCEPT ![cur].pos = pos, ![cur].buf = buf],
         UNCHANGED <<fsVars, watched, watchedDirs, task, syncVars, filesLeft, cur, delivered,
                     failure, done>>
  PROVE  FileInv'
<1>1. cur # None
  BY DEF FileInv, Position
<1>2. cur \in Handles /\ handle \in [Handles -> Opened \cup {Closed}] /\ handle[cur] \in Opened
  BY <1>1, ReadingIsOpen
<1> DEFINE file == [handle[cur] EXCEPT !.pos = pos, !.buf = buf]
<1>3. file \in Opened /\ file.open /\ file.name = handle[cur].name
  BY <1>2 DEF Opened
<1>4. handle' = [handle EXCEPT ![cur] = file]
  BY <1>2
<1> HIDE DEF file
<1>5. handle' \in [Handles -> Opened \cup {Closed}] /\ handle'[cur].name = handle[cur].name
  BY <1>2, <1>3, <1>4
<1>6. OpenHandles' = OpenHandles
  <2>1. handle[cur].open
    BY <1>2 DEF Opened
  <2> QED
    BY <1>2, <1>3, <1>4, <2>1 DEF OpenHandles
<1> USE DEF FileInv, Types, syncVars, fsVars
<1>7. FileSystemOK' /\ FilesOK' /\ ControlOK'
  BY <1>5 DEF FileSystemOK, FilesOK, ControlOK
<1>8. Position' /\ FilesLeft'
  BY <1>1 DEF Position, FilesLeft, Syncing, NothingWatched
<1>9. OnePlace'
  BY <1>1, <1>5 DEF OnePlace, Syncing
<1>10. Custody'
  BY <1>6 DEF Custody, HandlesIn, Syncing
<1> QED
  BY <1>7, <1>8, <1>9, <1>10

LEMMA ReadOnStep ==
  ASSUME FileInv, pc = "read", NEW pos \in 0 .. MaxPieces, NEW buf \in Seq(Piece),
         ReadOn(pos, buf),
         UNCHANGED <<fsVars, watched, watchedDirs, task, syncVars, filesLeft, cur, delivered,
                     failure, done>>
  PROVE  FileInv'
<1>1. CASE LineEnds(buf) = {}
  <2>1. /\ handle' = [handle EXCEPT ![cur].pos = pos, ![cur].buf = buf]
        /\ line' = line /\ pc' = pc
    BY <1>1 DEF ReadOn
  <2>2. line' \in Seq(1 .. MaxPieces)
    BY <2>1 DEF FileInv, Types, ControlOK
  <2> QED
    BY <2>1, <2>2, ReadsOnStep
<1>2. CASE LineEnds(buf) # {}
  <2>1. PICK k \in LineEnds(buf) :
          /\ line' = Positions(SubSeq(buf, 1, k))
          /\ handle' = [handle EXCEPT ![cur].pos = pos,
                                      ![cur].buf = SubSeq(buf, k + 1, Len(buf))]
          /\ pc' = "send"
    BY <1>2 DEF ReadOn
  <2>2. k \in 1 .. Len(buf)
    BY DEF LineEnds
  <2>3. SubSeq(buf, 1, k) \in Seq(Piece) /\ SubSeq(buf, k + 1, Len(buf)) \in Seq(Piece)
    BY <2>2
  <2>4. ASSUME NEW s \in Seq(Piece) PROVE Positions(s) \in Seq(1 .. MaxPieces)
    <3>1. ASSUME NEW j \in 1 .. Len(s) PROVE s[j].at \in 1 .. MaxPieces
      <4>1. s[j] \in Piece
        OBVIOUS
      <4> QED
        BY <4>1 DEF Piece
    <3>2. Len(s) \in Nat
      OBVIOUS
    <3> QED
      BY <3>1, <3>2 DEF Positions
  <2> QED
    BY <2>1, <2>3, <2>4, ReadsOnStep
<1> QED
  BY <1>1, <1>2

LEMMA ReadStep == ASSUME FileInv, ReadBuffered \/ ReadChunk PROVE FileInv'
<1>1. pc = "read" /\ cur # None
  BY DEF ReadBuffered, ReadChunk, FileInv, Position
<1>2. handle[cur] \in Opened
  BY <1>1, ReadingIsOpen
<1>3. /\ handle[cur].pos \in 0 .. MaxPieces /\ handle[cur].buf \in Seq(Piece)
      /\ handle[cur].inode \in Inodes
  BY <1>2 DEF Opened
<1>4. CASE ReadBuffered
  BY <1>1, <1>3, <1>4, ReadOnStep DEF ReadBuffered, Buf
<1>5. CASE ReadChunk
  <2> DEFINE pos == handle[cur].pos
             n == IF Len(File) - pos < ChunkPieces THEN Len(File) - pos ELSE ChunkPieces
             chunk == [k \in 1 .. n |-> [at |-> pos + k, ends |-> File[pos + k]]]
  <2>1. File \in Seq(BOOLEAN) /\ Len(File) <= MaxPieces /\ Len(File) \in Nat
    BY <1>3 DEF File, FileInv, Types, FileSystemOK
  <2>2. pos \in Nat /\ pos < Len(File) /\ MaxPieces \in Nat /\ ChunkPieces \in Nat
    BY <1>3, <1>5, ConstantsAssumption DEF ReadChunk
  <2>3. n \in Nat /\ pos + n <= Len(File)
    BY <2>1, <2>2
  <2> HIDE DEF n, pos
  <2>4. ASSUME NEW k \in 1 .. n PROVE [at |-> pos + k, ends |-> File[pos + k]] \in Piece
    <3>1. pos + k \in 1 .. Len(File) /\ pos + k \in 1 .. MaxPieces
      BY <2>1, <2>2, <2>3
    <3> QED
      BY <2>1, <3>1 DEF Piece
  <2>5. chunk \in Seq(Piece)
    BY <2>3, <2>4
  <2>6. Buf \o chunk \in Seq(Piece)
    BY <1>3, <2>5 DEF Buf
  <2>7. pos + n \in 0 .. MaxPieces
    BY <2>1, <2>2, <2>3
  <2>8. ReadOn(pos + n, Buf \o chunk)
    BY <1>5 DEF ReadChunk, pos, n
  <2>9. UNCHANGED <<fsVars, watched, watchedDirs, task, syncVars, filesLeft, cur, delivered,
                    failure, done>>
    BY <1>5 DEF ReadChunk
  <2> HIDE DEF chunk
  <2> QED
    BY <1>1, <2>6, <2>7, <2>8, <2>9, ReadOnStep
<1> QED
  BY <1>4, <1>5

LEMMA ReturnStep ==
  ASSUME FileInv, pc \in {"read", "send"}, ReturnToCaller, line' \in Seq(1 .. MaxPieces),
         UNCHANGED <<fsVars, mapVars, task, dirsLeft, dir, toStat, listing, filesLeft,
                     delivered, failure, done>>
  PROVE  FileInv'
<1> USE DEF FileInv, Types, ReturnToCaller, fsVars, mapVars
<1>1. cur # None /\ cur \in Handles /\ Syncing' = Syncing /\ toStat = {}
  BY DEF Position, FilesOK, Syncing
<1>2. FileSystemOK' /\ ControlOK'
  BY DEF FileSystemOK, ControlOK
<1>3. CASE Syncing
  <2> DEFINE n == handle[cur].name
  <2>1. n \in Names /\ after[n] = None /\ \A i \in Inodes : <<n, i>> \notin listing
    BY <1>1, <1>3 DEF OnePlace
  <2>2. after \in [Names -> Handles \cup {None}] /\ after' = [after EXCEPT ![n] = cur]
    BY <1>3 DEF FilesOK
  <2> HIDE DEF n
  <2>3. /\ after' \in [Names -> Handles \cup {None}]
        /\ HandlesIn(after') = HandlesIn(after) \cup {cur}
    <3> HIDE DEF FileInv, Types, ReturnToCaller, fsVars, mapVars
    <3> QED
      BY <1>1, <2>1, <2>2, HoldOneMore
  <2>4. FilesOK'
    BY <2>3 DEF FilesOK
  <2>5. Position' /\ FilesLeft'
    BY <1>1, <1>3 DEF Position, FilesLeft
  <2>6. OnePlace'
    <3>1. \A m \in Names : m # n => after'[m] = after[m]
      BY <2>2
    <3> QED
      BY <1>1, <2>1, <3>1 DEF OnePlace
  <2>7. Custody'
    BY <1>1, <1>3, <2>3 DEF Custody, OpenHandles, HandlesIn
  <2> QED
    BY <1>2, <2>4, <2>5, <2>6, <2>7
<1>4. CASE ~Syncing
  <2>1. FilesOK'
    BY <1>4 DEF FilesOK
  <2>2. Position' /\ FilesLeft' /\ OnePlace'
    BY <1>1, <1>4 DEF Position, FilesLeft, OnePlace, NothingWatched
  <2>3. Custody'
    BY <1>1, <1>4 DEF Custody, OpenHandles, HandlesIn
  <2> QED
    BY <1>2, <2>1, <2>2, <2>3
<1> QED
  BY <1>3, <1>4

LEMMA SendLineStep == ASSUME FileInv, SendLine PROVE FileInv'
<1> USE DEF FileInv, Types, SendLine, fsVars, mapVars, syncVars
<1>1. cur # None
  BY DEF Position
<1>2. FileSystemOK' /\ FilesOK'
  BY DEF FileSystemOK, FilesOK
<1>3. ControlOK'
  <2>1. delivered \in [Inodes -> Seq(1 .. MaxPieces)] /\ line \in Seq(1 .. MaxPieces)
    BY DEF ControlOK
  <2>2. delivered' \in [Inodes -> Seq(1 .. MaxPieces)]
    <3>1. ASSUME NEW i \in Inodes PROVE delivered[i] \o line \in Seq(1 .. MaxPieces)
      BY <2>1
    <3>2. delivered' = [delivered EXCEPT ![handle[cur].inode] = delivered[handle[cur].inode] \o line]
      OBVIOUS
    <3> HIDE DEF FileInv, Types, SendLine, fsVars, mapVars, syncVars
    <3> QED
      BY <2>1, <3>1, <3>2
  <2>3. line' \in Seq(1 .. MaxPieces)
    OBVIOUS
  <2> QED
    BY <2>2, <2>3 DEF ControlOK
<1>4. Position' /\ FilesLeft' /\ OnePlace'
  BY <1>1 DEF Position, FilesLeft, OnePlace, Syncing, NothingWatched
<1>5. Custody'
  BY DEF Custody, OpenHandles, HandlesIn, Syncing
<1> QED
  BY <1>2, <1>3, <1>4, <1>5

LEMMA ReadNewLinesStep == ASSUME FileInv, ReadNewLines PROVE FileInv'
<1>1. line \in Seq(1 .. MaxPieces) /\ <<>> \in Seq(1 .. MaxPieces)
  BY DEF FileInv, Types, ControlOK
<1>2. CASE ReadEOF
  BY <1>1, <1>2, ReturnStep DEF ReadEOF
<1>3. CASE SendAborted
  BY <1>1, <1>3, ReturnStep DEF SendAborted
<1> QED
  BY <1>2, <1>3, ReadStep, SendLineStep DEF ReadNewLines

-----------------------------------------------------------------------------
(* shutdown, and the goroutine as a whole.                                  *)

LEMMA ShutdownStep == ASSUME FileInv, Shutdown PROVE FileInv'
<1> USE DEF FileInv, Types, Shutdown, fsVars, readVars, syncVars
<1>1. ~Syncing /\ cur = None /\ filesLeft = {} /\ after = NothingWatched
  BY DEF Position, FilesLeft
<1>2. /\ handle' \in [Handles -> Opened \cup {Closed}]
      /\ OpenHandles' = OpenHandles \ HandlesIn(watched)
  BY CloseFiles DEF OpenHandles
<1>3. FileSystemOK' /\ FilesOK' /\ ControlOK'
  BY <1>2 DEF FileSystemOK, FilesOK, ControlOK, NothingWatched
<1>4. Position' /\ OnePlace' /\ FilesLeft'
  BY <1>1 DEF Position, OnePlace, FilesLeft, Syncing, NothingWatched
<1>5. Custody'
  <2>1. HandlesIn(watched') = {} /\ HandlesIn(after) = {}
    BY <1>1, NothingHeld DEF HandlesIn
  <2> QED
    BY <1>1, <1>2, <2>1 DEF Custody, HandlesIn
<1> QED
  BY <1>3, <1>4, <1>5

LEMMA GoroutineStep == ASSUME FileInv, Goroutine PROVE FileInv'
<1>1. CASE StartSync
  BY <1>1, ListNextStep DEF StartSync
<1> QED
  BY <1>1, ListFailsStep, LstatEntryStep, SyncEntryStep, FinishSyncStep, ReadNewLinesStep,
     ShutdownStep DEF Goroutine

-----------------------------------------------------------------------------
(* processEvent, as far as the watchers share it.                           *)

\* What processEvent finds: the goroutine waits, and reads no file.
LEMMA Waiting ==
  ASSUME FileInv, pc = "loop"
  PROVE  ~Syncing /\ cur = None /\ after = NothingWatched /\ filesLeft = {} /\ toStat = {}
  BY DEF FileInv, Position, FilesLeft

\* The steps of processEvent that leave the files alone.
LEMMA NothingReadStep ==
  ASSUME FileInv, pc \in {"loop", "files"}, filesLeft = {},
         pc' \in {"loop", "sync", "failed"}, dirsLeft' \in Seq(Dirs),
         task' \in {task, "event", "poll"}, failure' \in {failure, "ignored", "overflow", "deleted"},
         UNCHANGED <<fsVars, handle, watched, dir, toStat, listing, after, cur, filesLeft,
                     line, delivered, done>>
  PROVE  FileInv'
<1> USE DEF FileInv, Types, fsVars
<1>1. ~Syncing /\ cur = None
  BY DEF Position
<1>2. FileSystemOK' /\ FilesOK' /\ ControlOK'
  BY DEF FileSystemOK, FilesOK, ControlOK
<1>3. Position' /\ OnePlace' /\ FilesLeft'
  BY <1>1 DEF Position, OnePlace, FilesLeft, Syncing, NothingWatched
<1>4. Custody'
  BY DEF Custody, OpenHandles, HandlesIn, Syncing
<1> QED
  BY <1>2, <1>3, <1>4

\* A watched file is rewound, readNewLines starts on it, or both.
LEMMA FileEventStep ==
  ASSUME FileInv, pc \in {"loop", "files"}, NEW h \in HandlesIn(watched),
         handle' \in {handle, Rewound(h)},
         \/ cur' = h /\ pc' \in {"read", "rewind"}
         \/ cur' = cur /\ pc' = "loop" /\ filesLeft' = {},
         task' \in {"init", "event", "poll"},
         filesLeft' \subseteq filesLeft, filesLeft' # {} => task' = "poll",
         UNCHANGED <<fsVars, watched, syncVars, line, delivered, failure, done>>
  PROVE  FileInv'
<1>1. h \in Handles /\ h # None
  BY HeldAreHandles DEF FileInv, Types, FilesOK
<1>2. ~Syncing /\ cur = None /\ after = NothingWatched /\ toStat = {}
  BY DEF FileInv, Position
<1>3. handle \in [Handles -> Opened \cup {Closed}] /\ handle[h] \in Opened
  <2>1. handle \in [Handles -> Opened \cup {Closed}]
    BY DEF FileInv, Types, FilesOK
  <2>2. h \in OpenHandles
    BY DEF FileInv, Custody
  <2>3. handle[h].open /\ ~Closed.open
    BY <2>2 DEF OpenHandles, Closed
  <2> QED
    BY <1>1, <2>1, <2>3
<1>4. \E file \in Opened : handle' = [handle EXCEPT ![h] = file]
  <2>1. CASE handle' = handle
    <3>1. handle' = [handle EXCEPT ![h] = handle[h]]
      BY <1>1, <1>3, <2>1
    <3> QED
      BY <1>3, <3>1
  <2>2. CASE handle' = [handle EXCEPT ![h].pos = 0, ![h].buf = <<>>]
    <3>1. handle' = [handle EXCEPT ![h] = [handle[h] EXCEPT !.pos = 0, !.buf = <<>>]]
      BY <1>1, <1>3, <2>2
    <3>2. 0 \in 0 .. MaxPieces /\ <<>> \in Seq(Piece)
      BY ConstantsAssumption
    <3>3. [handle[h] EXCEPT !.pos = 0, !.buf = <<>>] \in Opened
      BY <1>3, <3>2 DEF Opened
    <3> QED
      BY <3>1, <3>3
  <2> QED
    BY <2>1, <2>2 DEF Rewound
<1>5. PICK file \in Opened : handle' = [handle EXCEPT ![h] = file]
  BY <1>4
<1>6. file.open /\ handle[h].open
  BY <1>3 DEF Opened
<1>7. handle' \in [Handles -> Opened \cup {Closed}]
  BY <1>1, <1>3, <1>5
<1>8. OpenHandles' = OpenHandles
  BY <1>1, <1>3, <1>5, <1>6 DEF OpenHandles
<1> USE DEF FileInv, Types, fsVars, syncVars
<1>9. FileSystemOK' /\ FilesOK' /\ ControlOK'
  BY <1>1, <1>7 DEF FileSystemOK, FilesOK, ControlOK
<1>10. Position' /\ OnePlace'
  BY <1>1, <1>2 DEF Position, OnePlace, Syncing, NothingWatched
<1>11. FilesLeft'
  BY <1>2 DEF FilesLeft, Syncing
<1>12. Custody'
  BY <1>1, <1>2, <1>8 DEF Custody, HandlesIn, Syncing
<1> QED
  BY <1>9, <1>10, <1>11, <1>12

-----------------------------------------------------------------------------
\* The invariant is as strong as the property.
LEMMA FileInvImplies == FileInv => OpenFilesWatched
<1> SUFFICES ASSUME FileInv PROVE OpenFilesWatched
  OBVIOUS
<1>1. HandlesIn(watched) \cup HandlesIn(after) \cup ({cur} \ {None}) \subseteq OpenHandles
  BY DEF FileInv, Custody
<1>2. pc \in {"loop", "files", "sync", "returned"} => OpenHandles = HandlesIn(watched)
  BY NothingHeld DEF FileInv, Custody, Position
<1>3. pc = "returned" => HandlesIn(watched) = {}
  BY NothingHeld DEF FileInv, Position
<1> QED
  BY <1>1, <1>2, <1>3 DEF OpenFilesWatched

-----------------------------------------------------------------------------
(* Deliveries: each piece of a file once and in order.                      *)

\* The files that ExactlyOnce speaks of.
Followed(i) == i \in Inodes /\ history[i] \subseteq {"renamed", "left", "back"}

Readers(i) == {h \in OpenHandles : handle[h].inode = i}

\* No hard links; a file that does not exist yet is known to nobody.
Paths ==
  /\ \A m, n \in Names : entry[m] # None /\ entry[m] = entry[n] => m = n
  /\ \A i \in fresh :
       /\ Readers(i) = {} /\ delivered[i] = <<>>
       /\ \A n \in Names : entry[n] # i /\ <<n, i>> \notin listing

\* A file has one reader.  One that was read and has none is gone for good from
\* the matching names, and one at another name got there from a matching name.
OneReader ==
  \A i \in Inodes : Followed(i) =>
    /\ \A g, h \in Readers(i) : g = h
    /\ (Readers(i) # {} \/ delivered[i] # <<>>) =>
         \A n \in Names : entry[n] = i => n \in Matching \/ "left" \in history[i]
    /\ Readers(i) = {} /\ delivered[i] # <<>> /\ pc # "returned" =>
         \A n \in Matching : entry[n] # i

\* What is at hand for the sync of a directory is in that directory, and what the
\* other keys hold is in theirs.
RightDirectory ==
  /\ \A n \in toStat : n \in Matching /\ DirOf[n] = dir
  /\ \A n \in Names, i \in Inodes : <<n, i>> \in listing =>
       /\ n \in Matching /\ DirOf[n] = dir
       /\ Followed(i) => \A p \in Names : entry[p] = i => DirOf[p] = dir
  /\ Syncing /\ cur # None => DirOf[handle[cur].name] = dir
  /\ \A i \in Inodes : Followed(i) =>
       \A p \in Names : entry[p] = i =>
         /\ \A n \in Names, h \in Readers(i) :
              watched[n] = h \/ after[n] = h => DirOf[p] = DirOf[n]
         /\ Syncing /\ cur # None /\ handle[cur].inode = i => DirOf[p] = dir

\* The sequence s of positions is an unbroken run that ends at p.
RunTo(s, p) == \A k \in 1 .. Len(s) : s[k] = p - Len(s) + k

\* The line that the reader h has given up and the application not received.
Held(h) == IF h = cur THEN line ELSE <<>>

\* The pieces delivered, held and buffered are an unbroken run up to the offset,
\* from the first piece on if all is to be read.
RunOf(i, h) ==
  LET pos == handle[h].pos
      buf == handle[h].buf
  IN  /\ pos <= Len(content[i])
      /\ \A k \in 1 .. Len(buf) : buf[k].at = pos - Len(buf) + k
      /\ RunTo(Held(h), pos - Len(buf))
      /\ RunTo(delivered[i], pos - Len(buf) - Len(Held(h)))
      /\ ReadAll => Len(delivered[i]) + Len(Held(h)) + Len(buf) = pos

Runs ==
  /\ pc # "send" => line = <<>>
  /\ ~done => \A i \in Inodes : Followed(i) =>
       /\ \A h \in Readers(i) : RunOf(i, h)
       /\ Unbroken(i)

\* What is known of the files, and what is read of them.
Known == Paths /\ OneReader /\ RightDirectory

DeliveryInv == Known /\ Runs

\* Until every name was looked at nothing is opened; and then a file whose path is
\* listed for a file that is not watched, and so will be opened, has no reader.
ListingTrue ==
  /\ pc = "lstat" => OpenHandles = HandlesIn(watched)
  /\ \A n \in Names, i \in Inodes : <<n, i>> \in listing /\ SameFile(i) = {} =>
       \A j \in Inodes : Followed(j) /\ entry[n] = j => Readers(j) = {}

\* During a sync a watched file is kept, or its turn is still to come, or it has
\* no matching name any more.
StillToSee ==
  Syncing => \A i \in Inodes : Followed(i) =>
    \A h \in Readers(i) : h \in HandlesIn(watched) =>
      \/ h \in HandlesIn(after) \cup {cur}
      \/ \E n \in Names : <<n, i>> \in listing
      \/ \E n \in toStat : entry[n] = i
      \/ \A n \in Matching : entry[n] # i

\* What holds where the listing has the inodes; Windows, where it has the names only,
\* has its own form of the last two.
SyncInv == DeliveryInv /\ ListingTrue /\ StillToSee

LEMMA ReadersAre ==
  ASSUME FileInv, NEW i \in Inodes
  PROVE  /\ Readers(i) \subseteq OpenHandles /\ OpenHandles \subseteq Handles
         /\ \A h \in Readers(i) : handle[h] \in Opened /\ handle[h].inode = i
         /\ entry \in [Names -> Inodes \cup {None}] /\ i # None
<1>1. ASSUME NEW h \in OpenHandles PROVE handle[h] \in Opened
  <2>1. handle[h] \in Opened \cup {Closed}
    BY DEF FileInv, Types, FilesOK, OpenHandles
  <2>2. handle[h].open /\ ~Closed.open
    BY DEF OpenHandles, Closed
  <2> QED
    BY <2>1, <2>2
<1> QED
  BY <1>1, Distinct DEF Readers, OpenHandles, FileInv, Types, FileSystemOK

\* The property is a part of the invariant.
LEMMA DeliveryInvImplies == DeliveryInv => ExactlyOnce
  BY DEF DeliveryInv, Runs, Followed, ExactlyOnce

-----------------------------------------------------------------------------
(* Steps that change little.                                                *)

\* The same files are open, under the same names.
SameFiles ==
  \A h \in Handles : /\ handle'[h].open = handle[h].open
                     /\ handle'[h].inode = handle[h].inode
                     /\ handle'[h].name = handle[h].name

LEMMA SameReaders ==
  ASSUME SameFiles
  PROVE  OpenHandles' = OpenHandles /\ \A i : Readers(i)' = Readers(i)
  BY DEF SameFiles, OpenHandles, Readers

LEMMA KnownKept ==
  ASSUME FileInv, Known, SameFiles,
         UNCHANGED <<fsVars, watched, dir, toStat, listing, after>>,
         cur' = cur \/ ~Syncing,
         pc = "returned" => pc' = "returned",
         \A i \in Inodes : delivered'[i] = delivered[i] \/ Readers(i) # {}
  PROVE  Known'
<1> USE DEF Known, fsVars, Followed, Syncing
<1>1. OpenHandles' = OpenHandles /\ \A i : Readers(i)' = Readers(i)
  BY SameReaders
<1>2. fresh \subseteq Inodes
  BY DEF FileInv, Types, FileSystemOK
<1>3. Paths'
  BY <1>1, <1>2 DEF Paths
<1>4. OneReader'
  BY <1>1 DEF OneReader
<1>5. RightDirectory'
  <2>1. Syncing /\ cur # None => cur' = cur /\ cur \in Handles
    BY DEF FileInv, Types, FilesOK
  <2>2. Syncing /\ cur # None => handle'[cur].name = handle[cur].name
                             /\ handle'[cur].inode = handle[cur].inode
    BY <2>1 DEF SameFiles
  <2> QED
    BY <1>1, <2>1, <2>2 DEF RightDirectory
<1> QED
  BY <1>3, <1>4, <1>5

\* Nothing is read, and no offset of a followed file changes.
LEMMA RunsKept ==
  ASSUME FileInv, Runs,
         \A i \in Inodes : Readers(i)' \subseteq Readers(i),
         ~done' => \A i \in Inodes : Followed(i) => \A h \in Readers(i)' :
           handle'[h].pos = handle[h].pos /\ handle'[h].buf = handle[h].buf,
         UNCHANGED <<fsVars, delivered>>, done => done',
         \/ line' = <<>> /\ (line = <<>> \/ done')
         \/ pc' = "send" /\ UNCHANGED <<line, cur>>
  PROVE  Runs'
<1> USE DEF fsVars
<1>1. \A i : Followed(i)' <=> Followed(i)
  BY DEF Followed
<1>2. ~done' => \A h : Held(h)' = Held(h)
  BY DEF Held
<1>3. ASSUME ~done', NEW i \in Inodes, Followed(i), NEW h \in Readers(i)', RunOf(i, h)
      PROVE  RunOf(i, h)'
  <2>1. handle'[h].pos = handle[h].pos /\ handle'[h].buf = handle[h].buf /\ Held(h)' = Held(h)
    BY <1>2, <1>3
  <2> QED
    BY <1>3, <2>1 DEF RunOf, RunTo
<1>4. \A i : Unbroken(i)' <=> Unbroken(i)
  BY DEF Unbroken
<1>5. pc' # "send" => line' = <<>>
  BY DEF Runs
<1>6. ASSUME ~done', NEW i \in Inodes, Followed(i)' PROVE (\A h \in Readers(i) : RunOf(i, h))' /\ Unbroken(i)'
  BY <1>1, <1>3, <1>4, <1>6 DEF Runs
<1> QED
  BY <1>5, <1>6 DEF Runs

-----------------------------------------------------------------------------
(* Other processes.                                                         *)

LEMMA NothingDelivered == ASSUME FileInv, DeliveryInv, UNCHANGED vars PROVE DeliveryInv'
<1>1. SameFiles
  BY DEF SameFiles, vars, tailerVars, mapVars
<1>2. Known'
  BY <1>1, KnownKept DEF DeliveryInv, vars, tailerVars, mapVars, syncVars, readVars
<1> USE DEF vars, tailerVars, mapVars, readVars
<1>3. \A i : Readers(i)' = Readers(i)
  BY <1>1, SameReaders
<1>4. line = <<>> \/ pc' = "send"
  BY DEF DeliveryInv, Runs
<1>5. Runs'
  BY <1>3, <1>4, RunsKept DEF DeliveryInv
<1> QED
  BY <1>2, <1>5 DEF DeliveryInv

\* A path keeps its file, loses it or gets one that never existed.
LEMMA NoFileMoved ==
  ASSUME FileInv, Known, UNCHANGED tailerVars, fresh' \subseteq fresh,
         \A i \in Inodes : Followed(i)' => history'[i] = history[i],
         \A p \in Names : \/ entry'[p] \in {entry[p], None}
                          \/ entry'[p] \in fresh \ fresh'
         , \A m, n \in Names : entry'[m] \in fresh /\ entry'[m] = entry'[n] => m = n
  PROVE  Known'
<1> USE DEF tailerVars, mapVars, syncVars, readVars
<1>1. OpenHandles' = OpenHandles /\ (\A i : Readers(i)' = Readers(i)) /\ Syncing' = Syncing
      /\ HandlesIn(watched)' = HandlesIn(watched) /\ HandlesIn(after)' = HandlesIn(after)
  BY DEF OpenHandles, Readers, Syncing, HandlesIn
<1>2. fresh \subseteq Inodes /\ None \notin Inodes
  BY Distinct DEF FileInv, Types, FileSystemOK
<1>3. \A i \in Inodes : Followed(i)' => Followed(i)
  BY DEF Followed
<1>4. \A i \in Inodes, p \in Names : entry'[p] = i => entry[p] = i \/ i \in fresh \ fresh'
  BY <1>2
<1>5. \A i \in Inodes, p \in Names : entry'[p] = i /\ (Readers(i) # {} \/ delivered[i] # <<>>) => entry[p] = i
  BY <1>4 DEF Known, Paths
<1>6. Paths'
  <2>1. ASSUME NEW m \in Names, NEW n \in Names, entry'[m] # None, entry'[m] = entry'[n] PROVE m = n
    <3>1. CASE entry'[m] \in fresh
      BY <2>1, <3>1
    <3>2. CASE entry'[m] \notin fresh
      BY <2>1, <3>2 DEF Known, Paths
    <3> QED
      BY <3>1, <3>2
  <2>2. ASSUME NEW i \in fresh'
        PROVE  /\ Readers(i)' = {} /\ delivered'[i] = <<>>
               /\ \A n \in Names : entry'[n] # i /\ <<n, i>> \notin listing'
    BY <1>1, <1>2, <1>4, <2>2 DEF Known, Paths
  <2> QED
    BY <2>1, <2>2 DEF Paths
<1>7. OneReader'
  <2>1. ASSUME NEW i \in Inodes, Followed(i)'
        PROVE  /\ \A g, h \in Readers(i) : g = h
               /\ (Readers(i) # {} \/ delivered[i] # <<>>) =>
                    \A n \in Names : entry'[n] = i => n \in Matching \/ "left" \in history'[i]
               /\ Readers(i) = {} /\ delivered[i] # <<>> /\ pc # "returned" =>
                    \A n \in Matching : entry'[n] # i
    <3>1. Followed(i) /\ history'[i] = history[i]
      BY <1>3, <2>1
    <3> QED
      BY <1>5, <3>1, ConstantsAssumption DEF Known, OneReader
  <2> QED
    BY <1>1, <2>1 DEF OneReader
<1>8. RightDirectory'
  <2>1. ASSUME NEW i \in Inodes, Followed(i)', NEW p \in Names, entry'[p] = i
        PROVE  /\ \A n \in Names, h \in Readers(i) : watched[n] = h \/ after[n] = h => DirOf[p] = DirOf[n]
               /\ Syncing /\ cur # None /\ handle[cur].inode = i => DirOf[p] = dir
    <3>1. CASE entry[p] = i
      BY <1>3, <2>1, <3>1 DEF Known, RightDirectory
    <3>2. CASE entry[p] # i
      <4>1. Readers(i) = {}
        BY <1>4, <2>1, <3>2 DEF Known, Paths
      <4>2. cur # None => cur \in OpenHandles
        BY DEF FileInv, Custody
      <4> QED
        BY <4>1, <4>2 DEF Readers
    <3> QED
      BY <3>1, <3>2
  <2>2. ASSUME NEW n \in Names, NEW i \in Inodes, <<n, i>> \in listing, Followed(i)', NEW p \in Names,
               entry'[p] = i
        PROVE  DirOf[p] = dir
    <3>1. entry[p] = i
      BY <1>4, <2>2 DEF Known, Paths
    <3> QED
      BY <1>3, <2>2, <3>1 DEF Known, RightDirectory
  <2> QED
    BY <1>1, <2>1, <2>2 DEF Known, RightDirectory
<1> QED
  BY <1>6, <1>7, <1>8 DEF Known

\* Followed files are only appended to.
LEMMA NoFileRewritten ==
  ASSUME FileInv, FileInv', Runs, UNCHANGED <<tailerVars, done>>,
         \A i \in Inodes : Followed(i)' => Followed(i) /\ Len(content[i]) <= Len(content'[i])
  PROVE  Runs'
<1> USE DEF tailerVars, mapVars, syncVars, readVars
<1>1. (\A i : Readers(i)' = Readers(i)) /\ (\A h : Held(h)' = Held(h)) /\ (\A i : Unbroken(i)' <=> Unbroken(i))
  BY DEF OpenHandles, Readers, Held, Unbroken
<1>2. ASSUME NEW i \in Inodes, Followed(i)', NEW h \in Readers(i), RunOf(i, h) PROVE RunOf(i, h)'
  <2>1. Len(content[i]) <= Len(content'[i])
    BY <1>2
  <2>2. handle[h].pos \in Nat /\ Len(content[i]) \in Nat /\ Len(content'[i]) \in Nat
    <3>1. handle[h] \in Opened
      BY <1>2, ReadersAre
    <3>2. content[i] \in Seq(BOOLEAN) /\ content'[i] \in Seq(BOOLEAN)
      BY DEF FileInv, Types, FileSystemOK
    <3>3. Len(content[i]) \in Nat /\ Len(content'[i]) \in Nat
      BY <3>2
    <3>4. handle[h].pos \in Nat
      <4>1. handle[h].pos \in 0 .. MaxPieces
        BY <3>1 DEF Opened
      <4> QED
        BY <4>1
    <3> QED
      BY <3>3, <3>4
  <2>3. handle[h].pos <= Len(content'[i])
    BY <1>2, <2>1, <2>2 DEF RunOf
  <2> QED
    BY <1>1, <1>2, <2>3 DEF RunOf, RunTo
<1> QED
  BY <1>1, <1>2 DEF Runs, Followed

LEMMA CloseTailerDelivers == ASSUME FileInv, DeliveryInv, CloseTailer PROVE DeliveryInv'
<1> USE DEF CloseTailer, tailerVars, mapVars, syncVars, readVars
<1>1. \A p \in Names : entry'[p] = entry[p] /\ entry[p] \notin fresh
  BY DEF DeliveryInv, Known, Paths
<1>2. Known'
  BY <1>1, NoFileMoved DEF DeliveryInv
<1>3. Runs'
  BY DEF DeliveryInv, Runs
<1> QED
  BY <1>2, <1>3 DEF DeliveryInv

LEMMA CreateFileDelivers ==
  ASSUME FileInv, FileInv', DeliveryInv, UNCHANGED <<tailerVars, done>>, NEW n \in Names, CreateFile(n)
  PROVE  DeliveryInv'
<1>1. PICK i \in fresh : entry' = [entry EXCEPT ![n] = i] /\ fresh' = fresh \ {i}
  BY DEF CreateFile
<1>2. history' = history /\ content' = content /\ entry[n] = None
  BY DEF CreateFile
<1>3. entry \in [Names -> Inodes \cup {None}]
  BY DEF FileInv, Types, FileSystemOK
<1>4. \A p \in Names : entry'[p] = IF p = n THEN i ELSE entry[p]
  BY <1>1, <1>3
<1>5. \A p \in Names : p # n => entry[p] \notin fresh
  BY DEF DeliveryInv, Known, Paths
<1>6. Known'
  BY <1>1, <1>2, <1>4, <1>5, NoFileMoved DEF DeliveryInv
<1>7. \A j \in Inodes : Followed(j)' => Followed(j) /\ Len(content[j]) <= Len(content'[j])
  <2>1. \A j \in Inodes : Len(content[j]) \in Nat
    BY DEF FileInv, Types, FileSystemOK
  <2> QED
    BY <1>2, <2>1 DEF Followed
<1> QED
  BY <1>6, <1>7, NoFileRewritten DEF DeliveryInv

\* Neither a path nor what happened to a followed file changes.
LEMMA DeleteFileDelivers ==
  ASSUME FileInv, FileInv', DeliveryInv, UNCHANGED <<tailerVars, done>>, NEW n \in Names, DeleteFile(n)
  PROVE  DeliveryInv'
<1>1. entry' = [entry EXCEPT ![n] = None] /\ fresh' = fresh /\ history' = history /\ content' = content
  BY DEF DeleteFile
<1>2. entry \in [Names -> Inodes \cup {None}]
  BY DEF FileInv, Types, FileSystemOK
<1>3. \A p \in Names : entry'[p] = IF p = n THEN None ELSE entry[p]
  BY <1>1, <1>2
<1>4. None \notin fresh /\ \A p \in Names : entry[p] \notin fresh
  BY Distinct DEF FileInv, Types, FileSystemOK, DeliveryInv, Known, Paths
<1>5. Known'
  BY <1>1, <1>3, <1>4, NoFileMoved DEF DeliveryInv
<1>6. \A j \in Inodes : Followed(j)' => Followed(j) /\ Len(content[j]) <= Len(content'[j])
  <2>1. \A j \in Inodes : Len(content[j]) \in Nat
    BY DEF FileInv, Types, FileSystemOK
  <2> QED
    BY <1>1, <2>1 DEF Followed
<1> QED
  BY <1>5, <1>6, NoFileRewritten DEF DeliveryInv

\* The paths stay; a file is appended to, or truncated and not followed any more.
LEMMA SamePathsDeliver ==
  ASSUME FileInv, FileInv', DeliveryInv, UNCHANGED <<tailerVars, done, entry, fresh>>,
         \A i \in Inodes : Followed(i)' => history'[i] = history[i] /\ Len(content[i]) <= Len(content'[i])
  PROVE  DeliveryInv'
<1>1. \A p \in Names : entry[p] \notin fresh
  BY DEF DeliveryInv, Known, Paths
<1>2. Known'
  BY <1>1, NoFileMoved DEF DeliveryInv
<1>3. \A i \in Inodes : Followed(i)' => Followed(i)
  BY DEF Followed
<1> QED
  BY <1>2, <1>3, NoFileRewritten DEF DeliveryInv

LEMMA AppendPieceDelivers ==
  ASSUME FileInv, FileInv', DeliveryInv, UNCHANGED <<tailerVars, done>>, NEW n \in Names,
         NEW endsLine \in BOOLEAN, AppendPiece(n, endsLine)
  PROVE  DeliveryInv'
<1>1. ASSUME NEW i \in Inodes PROVE Len(content[i]) <= Len(content'[i])
  <2>1. content \in [Inodes -> Seq(BOOLEAN)]
    BY DEF FileInv, Types, FileSystemOK
  <2>2. content'[i] = content[i] \/ content'[i] = Append(content[i], endsLine)
    BY <2>1 DEF AppendPiece
  <2>3. content[i] \in Seq(BOOLEAN) /\ Len(content[i]) \in Nat
    BY <2>1
  <2>4. Len(Append(content[i], endsLine)) = Len(content[i]) + 1
    BY <2>3
  <2> QED
    BY <2>2, <2>3, <2>4
<1> QED
  BY <1>1, SamePathsDeliver DEF AppendPiece

LEMMA TruncateFileDelivers ==
  ASSUME FileInv, FileInv', DeliveryInv, UNCHANGED <<tailerVars, done>>, NEW n \in Names, TruncateFile(n)
  PROVE  DeliveryInv'
<1>1. ASSUME NEW i \in Inodes, Followed(i)' PROVE history'[i] = history[i] /\ content'[i] = content[i]
  <2>1. history \in [Inodes -> SUBSET Past] /\ content \in [Inodes -> Seq(BOOLEAN)]
    BY DEF FileInv, Types, FileSystemOK
  <2>2. i # entry[n]
    <3>1. i = entry[n] => "truncated" \in history'[i]
      BY <2>1 DEF TruncateFile
    <3>2. "truncated" \notin history'[i]
      BY <1>1 DEF Followed
    <3> QED
      BY <3>1, <3>2
  <2> QED
    BY <2>1, <2>2 DEF TruncateFile
<1>2. \A i \in Inodes : Len(content[i]) \in Nat
  BY DEF FileInv, Types, FileSystemOK
<1>3. \A i \in Inodes : Followed(i)' => history'[i] = history[i] /\ Len(content[i]) <= Len(content'[i])
  BY <1>1, <1>2
<1> QED
  BY <1>3, SamePathsDeliver DEF TruncateFile

LEMMA RemoveDirDelivers ==
  ASSUME FileInv, FileInv', DeliveryInv, UNCHANGED <<tailerVars, done>>, NEW d \in Dirs, RemoveDir(d)
  PROVE  DeliveryInv'
<1>1. \A i \in Inodes : Len(content[i]) \in Nat
  BY DEF FileInv, Types, FileSystemOK
<1> QED
  BY <1>1, SamePathsDeliver DEF RemoveDir

\* What a followed file's renaming tells of it: it stayed in its directory, did not
\* return to the matching names, and disturbed no sync.
LEMMA FollowedRenamed ==
  ASSUME FileInv, NEW m \in Names, NEW n \in Names, NEW marks \in SUBSET Past, RenameFile(m, n, marks),
         NEW i \in Inodes, i = entry[m], Followed(i)'
  PROVE  /\ Followed(i)
         /\ DirOf[m] = DirOf[n] /\ marks \cap {"raced", "swapped"} = {}
         /\ "left" \in history[i] => n \notin Matching /\ "left" \in history'[i]
         /\ m \in Matching /\ n \notin Matching => "left" \in history'[i]
<1>1. history \in [Inodes -> SUBSET Past]
  BY DEF FileInv, Types, FileSystemOK
<1>2. history'[i] = history[i] \cup {"renamed"} \cup marks \cup
        (IF DirOf[m] # DirOf[n] THEN {"moved"} ELSE {}) \cup
        (IF m \in Matching /\ n \notin Matching THEN {"left"} ELSE {}) \cup
        (IF "left" \in history[i] /\ n \in Matching THEN {"returned"} ELSE {}) \cup
        (IF \E h \in Handles : handle[h].inode = i /\ handle[h].name = n THEN {"back"} ELSE {})
  BY <1>1 DEF RenameFile
<1>3. history'[i] \subseteq {"renamed", "left", "back"}
  BY DEF Followed
<1>4. history[i] \subseteq {"renamed", "left", "back"}
  BY <1>2, <1>3
<1>5. DirOf[m] = DirOf[n]
  BY <1>2, <1>3
<1>6. marks \cap {"raced", "swapped"} = {}
  BY <1>2, <1>3
<1>7. "left" \in history[i] => n \notin Matching
  BY <1>2, <1>3
<1> QED
  BY <1>2, <1>4, <1>5, <1>6, <1>7 DEF Followed

LEMMA RenameFileDelivers ==
  ASSUME FileInv, FileInv', DeliveryInv, UNCHANGED <<tailerVars, done>>,
         NEW m \in Names, NEW n \in Names, NEW marks \in SUBSET Past, RenameFile(m, n, marks)
  PROVE  DeliveryInv'
<1> USE DEF tailerVars, mapVars, syncVars, readVars
<1>0. entry \in [Names -> Inodes \cup {None}] /\ history \in [Inodes -> SUBSET Past]
  BY DEF FileInv, Types, FileSystemOK
<1> PICK i \in Inodes : i = entry[m]
  BY <1>0 DEF RenameFile
<1>1. /\ entry \in [Names -> Inodes \cup {None}] /\ history \in [Inodes -> SUBSET Past]
      /\ i \in Inodes /\ i # None /\ m # n
  BY <1>0, Distinct DEF RenameFile
<1>2. /\ \A p \in Names : entry'[p] = IF p = n THEN i ELSE IF p = m THEN None ELSE entry[p]
      /\ fresh' = fresh /\ content' = content
      /\ \A j \in Inodes : j # i => history'[j] = history[j]
  BY <1>1 DEF RenameFile
<1>3. \A j \in Inodes : Followed(j)' => Followed(j)
  BY <1>1, <1>2, FollowedRenamed DEF Followed
<1>4. ASSUME Followed(i)'
      PROVE  /\ DirOf[m] = DirOf[n]
             /\ "left" \in history[i] => n \notin Matching /\ "left" \in history'[i]
             /\ m \in Matching /\ n \notin Matching => "left" \in history'[i]
  BY <1>4, FollowedRenamed
<1>5. \A p \in Names : entry[p] = i <=> p = m
  BY <1>1 DEF DeliveryInv, Known, Paths
<1>6. \A p \in Names, j \in Inodes : j # i /\ entry'[p] = j => entry[p] = j
  BY <1>1, <1>2, Distinct
<1>7. \A p \in Names : entry'[p] = i => p = n
  BY <1>1, <1>2, <1>5, Distinct
<1>8. OpenHandles' = OpenHandles /\ (\A j : Readers(j)' = Readers(j)) /\ Syncing' = Syncing
      /\ HandlesIn(watched)' = HandlesIn(watched) /\ HandlesIn(after)' = HandlesIn(after)
  BY DEF OpenHandles, Readers, Syncing, HandlesIn
<1>9. Paths'
  <2>1. i \notin fresh
    BY <1>5 DEF DeliveryInv, Known, Paths
  <2>2. \A p, q \in Names : entry'[p] # None /\ entry'[p] = entry'[q] => p = q
    BY <1>1, <1>2, <1>5 DEF DeliveryInv, Known, Paths
  <2>3. fresh \subseteq Inodes
    BY DEF FileInv, Types, FileSystemOK
  <2> QED
    BY <1>2, <1>6, <1>8, <2>1, <2>2, <2>3 DEF DeliveryInv, Known, Paths
<1>10. OneReader'
  <2>1. ASSUME NEW j \in Inodes, Followed(j)'
        PROVE  /\ \A g, h \in Readers(j) : g = h
               /\ (Readers(j) # {} \/ delivered[j] # <<>>) =>
                    \A p \in Names : entry'[p] = j => p \in Matching \/ "left" \in history'[j]
               /\ Readers(j) = {} /\ delivered[j] # <<>> /\ pc # "returned" =>
                    \A p \in Matching : entry'[p] # j
    <3>1. Matching \subseteq Names /\ Followed(j)
      BY <1>3, <2>1, ConstantsAssumption
    <3>2. CASE j = i
      BY <1>4, <1>5, <1>7, <2>1, <3>1, <3>2 DEF DeliveryInv, Known, OneReader
    <3>3. CASE j # i
      BY <1>2, <1>6, <2>1, <3>1, <3>3 DEF DeliveryInv, Known, OneReader
    <3> QED
      BY <3>2, <3>3
  <2> QED
    BY <1>8, <2>1 DEF OneReader
<1>11. RightDirectory'
  <2>1. ASSUME NEW j \in Inodes, Followed(j)', NEW p \in Names, entry'[p] = j
        PROVE  /\ \A q \in Names, h \in Readers(j) : watched[q] = h \/ after[q] = h => DirOf[p] = DirOf[q]
               /\ Syncing /\ cur # None /\ handle[cur].inode = j => DirOf[p] = dir
    <3>1. CASE j = i
      <4>1. p = n /\ DirOf[p] = DirOf[m] /\ entry[m] = j
        BY <1>4, <1>5, <1>7, <2>1, <3>1
      <4> QED
        BY <1>3, <2>1, <4>1 DEF DeliveryInv, Known, RightDirectory
    <3>2. CASE j # i
      BY <1>3, <1>6, <2>1, <3>2 DEF DeliveryInv, Known, RightDirectory
    <3> QED
      BY <3>1, <3>2
  <2>2. ASSUME NEW q \in Names, NEW j \in Inodes, <<q, j>> \in listing, Followed(j)', NEW p \in Names,
               entry'[p] = j
        PROVE  DirOf[p] = dir
    <3>1. CASE j = i
      BY <1>3, <1>4, <1>5, <1>7, <2>2, <3>1 DEF DeliveryInv, Known, RightDirectory
    <3>2. CASE j # i
      BY <1>3, <1>6, <2>2, <3>2 DEF DeliveryInv, Known, RightDirectory
    <3> QED
      BY <3>1, <3>2
  <2> QED
    BY <1>8, <2>1, <2>2 DEF DeliveryInv, Known, RightDirectory
<1>12. \A j \in Inodes : Followed(j)' => Followed(j) /\ Len(content[j]) <= Len(content'[j])
  <2>1. \A j \in Inodes : Len(content[j]) \in Nat
    BY DEF FileInv, Types, FileSystemOK
  <2> QED
    BY <1>2, <1>3, <2>1
<1> QED
  BY <1>9, <1>10, <1>11, <1>12, NoFileRewritten DEF DeliveryInv, Known

LEMMA FileSystemDelivers ==
  ASSUME FileInv, DeliveryInv, UNCHANGED <<tailerVars, done>>,
         \/ \E n \in Names : CreateFile(n) \/ DeleteFile(n) \/ TruncateFile(n)
         \/ \E n \in Names, endsLine \in BOOLEAN : AppendPiece(n, endsLine)
         \/ \E m, n \in Names, marks \in SUBSET Past : RenameFile(m, n, marks)
         \/ \E d \in Dirs : RemoveDir(d)
  PROVE  DeliveryInv'
<1>1. FileInv'
  BY FileSystemStep
<1> QED
  BY <1>1, CreateFileDelivers, DeleteFileDelivers, TruncateFileDelivers, AppendPieceDelivers,
     RenameFileDelivers, RemoveDirDelivers

-----------------------------------------------------------------------------
(* syncFilesInDir                                                           *)

\* Outside readNewLines no line is held, so nothing changes for the readers.
LEMMA NotReading ==
  ASSUME FileInv, Runs, pc \notin {"read", "send"},
         \A i \in Inodes : Readers(i)' \subseteq Readers(i),
         \A i \in Inodes : Followed(i) => \A h \in Readers(i)' :
           handle'[h].pos = handle[h].pos /\ handle'[h].buf = handle[h].buf,
         UNCHANGED <<fsVars, delivered, line, done>>
  PROVE  Runs'
<1>1. line = <<>> /\ line' = <<>> /\ (done => done') /\ UNCHANGED <<fsVars, delivered>>
  BY DEF Runs
<1> QED
  BY <1>1, RunsKept

LEMMA ListedDelivers ==
  ASSUME FileInv, DeliveryInv, pc = "sync", dirsLeft # <<>>, Listed
  PROVE  DeliveryInv'
<1> USE DEF fsVars, mapVars, readVars
<1>0. UNCHANGED <<fsVars, mapVars, task, filesLeft, readVars, failure, done>>
  BY DEF Listed
<1>1. ~Syncing /\ cur = None /\ after = NothingWatched /\ listing = {}
      /\ OpenHandles = HandlesIn(watched) /\ None \notin Handles
  BY NothingHeld, Distinct DEF FileInv, Position, Custody
<1>2. OpenHandles' = OpenHandles /\ (\A i : Readers(i)' = Readers(i))
      /\ HandlesIn(watched)' = HandlesIn(watched)
  BY <1>0 DEF OpenHandles, Readers, HandlesIn
<1>3. /\ \A n \in toStat' : entry[n] # None /\ DirOf[n] = dir' /\ n \in Matching
      /\ \A n \in Names, i \in Inodes : <<n, i>> \in listing' =>
           entry[n] = i /\ DirOf[n] = dir' /\ n \in Matching
      /\ \A n \in Names, i \in Inodes : entry[n] = i /\ DirOf[n] = dir' /\ n \in Matching =>
           n \in toStat' \/ <<n, i>> \in listing'
      /\ \A n \in Names : after'[n] = IF DirOf[n] # dir' THEN watched[n] ELSE None
  BY ListedEntries DEF FileInv, Types, FileSystemOK
<1>4. Paths' /\ OneReader'
  <2>1. Paths'
    BY <1>0, <1>2, <1>3, Distinct DEF DeliveryInv, Known, Paths, FileInv, Types, FileSystemOK
  <2>2. OneReader'
    <3>1. pc' # "returned" /\ pc # "returned"
      BY DEF Listed
    <3> QED
      BY <1>0, <1>2, <3>1 DEF DeliveryInv, Known, OneReader, Followed
  <2> QED
    BY <2>1, <2>2
<1>5. RightDirectory'
  <2>1. ASSUME NEW i \in Inodes, Followed(i), NEW p \in Names, entry[p] = i,
               NEW n \in Names, NEW h \in Readers(i), watched[n] = h \/ after'[n] = h
        PROVE  DirOf[p] = DirOf[n]
    <3>1. watched[n] = h
      BY <1>1, <1>3, <2>1, ReadersAre
    <3> QED
      BY <2>1, <3>1 DEF DeliveryInv, Known, RightDirectory
  <2>2. ASSUME NEW n \in Names, NEW i \in Inodes, entry[n] = i, NEW p \in Names, entry[p] = i
        PROVE  p = n
    BY <2>2, Distinct DEF DeliveryInv, Known, Paths
  <2> QED
    BY <1>0, <1>1, <1>2, <1>3, <2>1, <2>2 DEF RightDirectory, Followed
<1>6. Runs'
  BY <1>0, <1>2, NotReading DEF DeliveryInv
<1> QED
  BY <1>4, <1>5, <1>6 DEF DeliveryInv, Known

LEMMA ListFailsDelivers == ASSUME FileInv, DeliveryInv, ListFails PROVE DeliveryInv'
<1> USE DEF ListFails, mapVars, syncVars, readVars
<1>1. SameFiles
  BY DEF SameFiles
<1>2. Known'
  BY <1>1, KnownKept DEF DeliveryInv
<1>3. Runs'
  BY <1>1, SameReaders, NotReading DEF DeliveryInv
<1> QED
  BY <1>2, <1>3 DEF DeliveryInv

LEMMA LstatEntryDelivers == ASSUME FileInv, DeliveryInv, NEW n \in Names, LstatEntry(n) PROVE DeliveryInv'
<1> USE DEF LstatEntry, fsVars, mapVars, readVars
<1>1. OpenHandles' = OpenHandles /\ (\A i : Readers(i)' = Readers(i)) /\ Syncing' = Syncing
      /\ HandlesIn(watched)' = HandlesIn(watched) /\ HandlesIn(after)' = HandlesIn(after)
  BY DEF OpenHandles, Readers, HandlesIn, Syncing
<1>2. /\ entry \in [Names -> Inodes \cup {None}] /\ None \notin Inodes /\ fresh \subseteq Inodes
      /\ toStat \subseteq Names /\ n \in toStat
  BY Distinct DEF FileInv, Types, FileSystemOK, FilesOK
<1>3. ASSUME NEW m \in Names, NEW i \in Inodes
      PROVE  <<m, i>> \in listing' <=> <<m, i>> \in listing \/ (m = n /\ i = entry[n])
  BY <1>2, <1>3
<1>4. Paths'
  BY <1>1, <1>2, <1>3 DEF DeliveryInv, Known, Paths
<1>5. OneReader'
  BY <1>1 DEF DeliveryInv, Known, OneReader, Followed
<1>6. RightDirectory'
  <2>1. \A p \in Names : entry[n] # None /\ entry[p] = entry[n] => p = n
    BY <1>2 DEF DeliveryInv, Known, Paths
  <2> QED
    BY <1>1, <1>2, <1>3, <2>1 DEF DeliveryInv, Known, RightDirectory, Followed
<1>7. Runs'
  BY <1>1, NotReading DEF DeliveryInv
<1> QED
  BY <1>4, <1>5, <1>6, <1>7 DEF DeliveryInv, Known

\* A watched file takes another name.
LEMMA RenamedFile ==
  ASSUME FileInv, NEW n \in Names, NEW h \in OpenHandles, handle' = [handle EXCEPT ![h].name = n]
  PROVE  /\ handle'[h].open = handle[h].open /\ handle'[h].inode = handle[h].inode /\ handle'[h].name = n
         /\ handle'[h].pos = handle[h].pos /\ handle'[h].buf = handle[h].buf
         /\ \A g \in Handles : g # h => handle'[g] = handle[g]
         /\ OpenHandles' = OpenHandles /\ \A j : Readers(j)' = Readers(j)
<1>1. handle[h].open /\ ~Closed.open /\ h \in Handles /\ handle \in [Handles -> Opened \cup {Closed}]
  BY DEF FileInv, Types, FilesOK, OpenHandles, Closed
<1> DEFINE file == handle[h]
           new == [file EXCEPT !.name = n]
<1>2. file \in Opened /\ handle'[h] = new
  BY <1>1
<1>3. \A g \in Handles : g # h => handle'[g] = handle[g]
  BY <1>1
<1> HIDE DEF file
<1>4. new.open = file.open /\ new.inode = file.inode /\ new.name = n /\ new.pos = file.pos /\ new.buf = file.buf
  BY <1>2 DEF Opened
<1>5. /\ handle'[h].open = handle[h].open /\ handle'[h].inode = handle[h].inode /\ handle'[h].name = n
      /\ handle'[h].pos = handle[h].pos /\ handle'[h].buf = handle[h].buf
  BY <1>2, <1>4 DEF file
<1>6. OpenHandles' = OpenHandles /\ \A j : Readers(j)' = Readers(j)
  BY <1>3, <1>5 DEF OpenHandles, Readers
<1> QED
  BY <1>3, <1>5, <1>6

\* A file is opened.
LEMMA OpenedFile ==
  ASSUME FileInv, NEW n \in Names, NEW h \in Unused, NEW pos \in Nat,
         handle' = [handle EXCEPT ![h] = JustOpened(n, pos)]
  PROVE  /\ h \in Handles /\ h \notin OpenHandles /\ h \notin HandlesIn(watched) \cup HandlesIn(after)
         /\ handle'[h] = JustOpened(n, pos)
         /\ \A g \in Handles : g # h => handle'[g] = handle[g]
         /\ OpenHandles' = OpenHandles \cup {h}
<1>1. /\ h \in Handles /\ ~handle[h].open /\ h \notin HandlesIn(watched) \cup HandlesIn(after)
      /\ handle \in [Handles -> Opened \cup {Closed}] /\ OpenHandles \subseteq Handles
  BY DEF Unused, FileInv, Types, FilesOK, OpenHandles
<1>2. handle'[h] = JustOpened(n, pos) /\ \A g \in Handles : g # h => handle'[g] = handle[g]
  BY <1>1
<1>3. handle'[h].open
  BY <1>2 DEF JustOpened
<1>4. OpenHandles' = OpenHandles \cup {h}
  BY <1>1, <1>2, <1>3 DEF OpenHandles
<1> QED
  BY <1>1, <1>2, <1>4 DEF OpenHandles

\* An entry of the listing was handled and no file opened.
LEMMA EntryHandled ==
  ASSUME FileInv, Known, pc \in {"entries", "open"}, SyncFrame, NEW n \in Names, NEW i \in Inodes,
         listing' = listing \ {<<n, i>>}, pc' \in {"entries", "read"},
         \A j : Readers(j)' = Readers(j), RightDirectory'
  PROVE  Known'
<1> USE DEF SyncFrame, fsVars
<1>1. fresh \subseteq Inodes /\ \A j : Followed(j)' <=> Followed(j)
  BY DEF FileInv, Types, FileSystemOK, Followed
<1>2. Paths'
  BY <1>1 DEF Known, Paths
<1>3. OneReader'
  BY <1>1 DEF Known, OneReader
<1> QED
  BY <1>2, <1>3 DEF Known

\* The file of j, the one listed or the one at the path now, is kept.
LEMMA KeepEntryDelivers ==
  ASSUME FileInv, DeliveryInv, pc = "entries", NEW n \in Names, NEW i \in Inodes, <<n, i>> \in listing,
         NEW h \in Handles, h \in HandlesIn(watched), after' = [after EXCEPT ![n] = h],
         listing' = listing \ {<<n, i>>}, UNCHANGED <<handle, pc, cur>>, SyncFrame,
         NEW j \in Inodes, handle[h].inode = j, entry[n] = j \/ j = i
  PROVE  DeliveryInv'
<1>1. /\ OpenHandles' = OpenHandles /\ (\A k : Readers(k)' = Readers(k))
      /\ cur = None /\ h # None
  BY Distinct DEF OpenHandles, Readers, FileInv, Position
<1>0. Followed(j) => \A p \in Names : entry[p] = j => DirOf[p] = DirOf[n]
  <2>1. entry[n] = j => \A p \in Names : entry[p] = j => p = n
    BY Distinct DEF DeliveryInv, Known, Paths
  <2> QED
    BY <2>1 DEF DeliveryInv, Known, RightDirectory
<1>2. RightDirectory'
  <2>1. \A m \in Names : after'[m] = IF m = n THEN h ELSE after[m]
    BY DEF FileInv, Types, FilesOK
  <2>2. ASSUME NEW k \in Inodes, Followed(k), NEW p \in Names, entry[p] = k,
               NEW m \in Names, NEW g \in Readers(k), watched[m] = g \/ after'[m] = g
        PROVE  DirOf[p] = DirOf[m]
    <3>1. CASE watched[m] = g \/ after[m] = g
      BY <2>2, <3>1 DEF DeliveryInv, Known, RightDirectory
    <3>2. CASE m = n /\ g = h
      <4>1. k = j
        BY <1>1, <2>2, <3>2 DEF Readers
      <4> QED
        BY <1>0, <2>2, <3>2, <4>1
    <3> QED
      BY <2>1, <2>2, <3>1, <3>2
  <2> USE DEF SyncFrame, fsVars
  <2>3. \A k : Followed(k)' <=> Followed(k)
    BY DEF Followed
  <2>4. /\ \A m \in toStat' : m \in Matching /\ DirOf[m] = dir'
        /\ \A m \in Names, k \in Inodes : <<m, k>> \in listing' =>
             /\ m \in Matching /\ DirOf[m] = dir'
             /\ Followed(k) => \A p \in Names : entry[p] = k => DirOf[p] = dir'
    BY DEF DeliveryInv, Known, RightDirectory
  <2> QED
    BY <1>1, <2>2, <2>3, <2>4 DEF RightDirectory
<1>3. Known'
  BY <1>1, <1>2, EntryHandled DEF DeliveryInv
<1>4. Runs'
  BY <1>1, NotReading DEF DeliveryInv, SyncFrame
<1> QED
  BY <1>3, <1>4 DEF DeliveryInv

LEMMA AlreadyWatchedDelivers ==
  ASSUME FileInv, DeliveryInv, pc = "entries", NEW n \in Names, NEW i \in Inodes, <<n, i>> \in listing,
         NEW h \in Handles, AlreadyWatched(n, i, h), SyncFrame
  PROVE  DeliveryInv'
  BY KeepEntryDelivers DEF AlreadyWatched, SameFile

LEMMA RenameEntryDelivers ==
  ASSUME FileInv, DeliveryInv, pc = "entries", NEW n \in Names, NEW i \in Inodes, <<n, i>> \in listing,
         NEW h \in Handles, h \in HandlesIn(watched), handle' = [handle EXCEPT ![h].name = n],
         cur' = h, pc' = "read", listing' = listing \ {<<n, i>>}, after' = after, SyncFrame,
         NEW j \in Inodes, handle[h].inode = j, entry[n] = j \/ j = i
  PROVE  DeliveryInv'
<1>1. Syncing /\ cur = None /\ h # None /\ h \in OpenHandles /\ h \in Readers(j)
  BY Distinct DEF FileInv, Position, Custody, Readers
<1>2. Followed(j) => \A p \in Names : entry[p] = j => DirOf[p] = DirOf[n]
  <2>1. entry[n] = j => \A p \in Names : entry[p] = j => p = n
    BY Distinct DEF DeliveryInv, Known, Paths
  <2> QED
    BY <2>1 DEF DeliveryInv, Known, RightDirectory
<1>4. /\ handle'[h].open = handle[h].open /\ handle'[h].inode = handle[h].inode /\ handle'[h].name = n
      /\ handle'[h].pos = handle[h].pos /\ handle'[h].buf = handle[h].buf
      /\ \A g \in Handles : g # h => handle'[g] = handle[g]
      /\ OpenHandles' = OpenHandles /\ \A k : Readers(k)' = Readers(k)
  BY <1>1, RenamedFile
<1>6. RightDirectory'
  <2> USE DEF SyncFrame, fsVars
  <2>1. \A k : Followed(k)' <=> Followed(k)
    BY DEF Followed
  <2>2. /\ \A m \in toStat' : m \in Matching /\ DirOf[m] = dir'
        /\ \A m \in Names, k \in Inodes : <<m, k>> \in listing' =>
             /\ m \in Matching /\ DirOf[m] = dir'
             /\ Followed(k) => \A p \in Names : entry[p] = k => DirOf[p] = dir'
    BY DEF DeliveryInv, Known, RightDirectory
  <2>3. DirOf[handle'[cur'].name] = dir' /\ handle'[cur'].inode = j
    BY <1>1, <1>4 DEF DeliveryInv, Known, RightDirectory
  <2>4. ASSUME Followed(j), NEW p \in Names, entry[p] = j PROVE DirOf[p] = dir'
    BY <1>2, <2>4 DEF DeliveryInv, Known, RightDirectory
  <2>5. ASSUME NEW k \in Inodes, Followed(k), NEW p \in Names, entry[p] = k,
               NEW m \in Names, NEW g \in Readers(k), watched[m] = g \/ after[m] = g
        PROVE  DirOf[p] = DirOf[m]
    BY <2>5 DEF DeliveryInv, Known, RightDirectory
  <2>6. UNCHANGED <<entry, watched, after>>
    OBVIOUS
  <2> HIDE DEF SyncFrame, fsVars
  <2> QED
    BY <1>4, <2>1, <2>2, <2>3, <2>4, <2>5, <2>6 DEF RightDirectory
<1>8. Known'
  BY <1>4, <1>6, EntryHandled DEF DeliveryInv
<1>9. \A g \in Handles : handle'[g].pos = handle[g].pos /\ handle'[g].buf = handle[g].buf
  BY <1>4
<1>10. Runs'
  BY <1>4, <1>9, ReadersAre, NotReading DEF DeliveryInv, SyncFrame
<1> QED
  BY <1>8, <1>10 DEF DeliveryInv

LEMMA FollowRenamedDelivers ==
  ASSUME FileInv, DeliveryInv, pc = "entries", NEW n \in Names, NEW i \in Inodes, <<n, i>> \in listing,
         NEW h \in Handles, FollowRenamed(n, i, h), SyncFrame
  PROVE  DeliveryInv'
  BY RenameEntryDelivers DEF FollowRenamed, SameFile

LEMMA DropEntryDelivers ==
  ASSUME FileInv, DeliveryInv, pc \in {"entries", "open"}, NEW n \in Names, NEW i \in Inodes,
         <<n, i>> \in listing, pc' = "entries", listing' = listing \ {<<n, i>>},
         UNCHANGED <<handle, after, cur>>, SyncFrame
  PROVE  DeliveryInv'
<1>1. OpenHandles' = OpenHandles /\ (\A j : Readers(j)' = Readers(j))
  BY DEF OpenHandles, Readers
<1>2. RightDirectory'
  BY <1>1 DEF DeliveryInv, Known, RightDirectory, SyncFrame, fsVars, Followed, Syncing
<1>3. Known'
  BY <1>1, <1>2, EntryHandled DEF DeliveryInv
<1>4. Runs'
  BY <1>1, NotReading DEF DeliveryInv, SyncFrame
<1> QED
  BY <1>3, <1>4 DEF DeliveryInv

LEMMA OpenFindsNothingDelivers ==
  ASSUME FileInv, DeliveryInv, pc = "entries", NEW n \in Names, NEW i \in Inodes, <<n, i>> \in listing,
         OpenFindsNothing(n, i), SyncFrame
  PROVE  DeliveryInv'
  BY DropEntryDelivers DEF OpenFindsNothing

\* The file at a listed path is opened; it has no reader yet.
LEMMA OpenEntryDelivers ==
  ASSUME FileInv, FileInv', DeliveryInv, pc \in {"entries", "open"}, NEW n \in Names, NEW i \in Inodes,
         <<n, i>> \in listing, NEW j \in Inodes, j = entry[n], Followed(j) => Readers(j) = {},
         NEW h \in Unused, NEW pos \in 0 .. Len(content[j]), ReadAll => pos = 0,
         handle' = [handle EXCEPT ![h] = JustOpened(n, pos)],
         cur' = h, pc' \in {"read", "seek"}, listing' = listing \ {<<n, i>>}, after' = after, SyncFrame
  PROVE  DeliveryInv'
<1>2. UNCHANGED <<fsVars, watched, dir, toStat, delivered, line, done, after>>
  BY DEF SyncFrame
<1> USE DEF fsVars
<1>3. /\ Syncing /\ cur = None /\ toStat = {} /\ line = <<>> /\ None \notin Handles
      /\ fresh \subseteq Inodes /\ delivered \in [Inodes -> Seq(1 .. MaxPieces)]
  BY Distinct DEF FileInv, Position, DeliveryInv, Runs, Types, FileSystemOK, ControlOK
<1>5. /\ h \in Handles /\ h \notin OpenHandles /\ h \notin HandlesIn(watched) \cup HandlesIn(after)
      /\ handle'[h].inode = j /\ handle'[h].name = n /\ handle'[h].pos = pos /\ handle'[h].buf = <<>>
      /\ \A g \in Handles : g # h => handle'[g] = handle[g]
      /\ OpenHandles' = OpenHandles \cup {h}
      /\ \A k : Readers(k)' = IF k = j THEN Readers(k) \cup {h} ELSE Readers(k)
  <2>0. pos \in Nat
    BY DEF FileInv, Types, FileSystemOK
  <2>1. /\ h \in Handles /\ h \notin OpenHandles /\ h \notin HandlesIn(watched) \cup HandlesIn(after)
        /\ handle'[h] = JustOpened(n, pos)
        /\ \A g \in Handles : g # h => handle'[g] = handle[g]
        /\ OpenHandles' = OpenHandles \cup {h}
    BY <2>0, OpenedFile
  <2>2. handle'[h].inode = j /\ handle'[h].name = n /\ handle'[h].pos = pos /\ handle'[h].buf = <<>>
    BY <2>1 DEF JustOpened
  <2>3. OpenHandles \subseteq Handles
    BY DEF OpenHandles
  <2> QED
    BY <2>1, <2>2, <2>3 DEF Readers
<1>9. /\ \A k : Followed(k)' <=> Followed(k)
      /\ HandlesIn(watched)' = HandlesIn(watched) /\ HandlesIn(after)' = HandlesIn(after) /\ Syncing' = Syncing
  BY <1>2 DEF Followed, HandlesIn, Syncing
<1>10. Followed(j) => Readers(j) = {} /\ delivered[j] = <<>>
  <2>1. n \in Matching
    BY DEF DeliveryInv, Known, RightDirectory
  <2> QED
    BY <2>1 DEF DeliveryInv, Known, OneReader
<1>11. \A p \in Names : entry[p] = j => p = n
  BY Distinct DEF DeliveryInv, Known, Paths
<1>12. Known'
  <2>1. Paths'
    BY <1>2, <1>3, <1>5 DEF DeliveryInv, Known, Paths
  <2>2. OneReader'
    <3>1. n \in Matching
      BY DEF DeliveryInv, Known, RightDirectory
    <3> QED
      BY <1>2, <1>5, <1>9, <1>10, <1>11, <3>1 DEF DeliveryInv, Known, OneReader, FileInv
  <2>3. RightDirectory'
    <3>1. DirOf[n] = dir
      BY DEF DeliveryInv, Known, RightDirectory
    <3>2. \A m \in Names : watched[m] # h /\ after[m] # h
      BY <1>3, <1>5 DEF HandlesIn
    <3>3. ASSUME NEW k \in Inodes, Followed(k), NEW p \in Names, entry[p] = k,
                 NEW m \in Names, NEW g \in Readers(k)', watched[m] = g \/ after[m] = g
          PROVE  DirOf[p] = DirOf[m]
      <4>1. g \in Readers(k)
        BY <1>5, <3>2, <3>3
      <4> QED
        BY <3>3, <4>1 DEF DeliveryInv, Known, RightDirectory
    <3>4. /\ \A m \in toStat' : m \in Matching /\ DirOf[m] = dir'
          /\ \A m \in Names, k \in Inodes : <<m, k>> \in listing' =>
               /\ m \in Matching /\ DirOf[m] = dir'
               /\ Followed(k) => \A p \in Names : entry[p] = k => DirOf[p] = dir'
      BY <1>2 DEF DeliveryInv, Known, RightDirectory
    <3> QED
      BY <1>2, <1>5, <1>9, <1>11, <3>1, <3>3, <3>4 DEF RightDirectory
  <2> QED
    BY <2>1, <2>2, <2>3 DEF Known
<1>13. ASSUME Followed(j) PROVE RunOf(j, h)' /\ Readers(j)' = {h}
  <2>1. /\ delivered'[j] = <<>> /\ Held(h)' = <<>> /\ handle'[h].buf = <<>>
        /\ Readers(j)' = {h} /\ content' = content
    BY <1>2, <1>3, <1>5, <1>10, <1>13 DEF Held
  <2>2. Len(content[j]) \in Nat
    BY DEF FileInv, Types, FileSystemOK
  <2>3. ReadAll => handle'[h].pos = 0
    BY <1>5
  <2>4. handle'[h].pos \in Nat /\ handle'[h].pos <= Len(content'[j])
    BY <1>5, <2>1, <2>2
  <2>5. Len(<<>>) = 0
    OBVIOUS
  <2> QED
    BY <2>1, <2>3, <2>4, <2>5 DEF RunOf, RunTo
<1>14. ASSUME NEW k \in Inodes, NEW g \in Readers(k), RunOf(k, g) PROVE RunOf(k, g)'
  <2>1. g # h /\ g \in Handles
    BY <1>5, <1>14, ReadersAre
  <2>2. handle'[g] = handle[g] /\ Held(g)' = Held(g)
    BY <1>2, <1>3, <1>5, <2>1 DEF Held
  <2> QED
    BY <1>2, <1>14, <2>2 DEF RunOf, RunTo
<1>15. Runs'
  <2>1. ASSUME ~done, NEW k \in Inodes, Followed(k) PROVE \A g \in Readers(k)' : RunOf(k, g)'
    BY <1>5, <1>13, <1>14, <2>1 DEF DeliveryInv, Runs
  <2>2. \A k : Unbroken(k)' <=> Unbroken(k)
    BY <1>2 DEF Unbroken
  <2>3. line' = <<>> /\ done' = done
    BY <1>2, <1>3
  <2> QED
    BY <1>9, <2>1, <2>2, <2>3 DEF DeliveryInv, Runs
<1> QED
  BY <1>12, <1>15 DEF DeliveryInv

LEMMA OpenNewDelivers ==
  ASSUME FileInv, FileInv', DeliveryInv, pc = "entries", NEW n \in Names, NEW i \in Inodes,
         <<n, i>> \in listing, OpenNew(n, i), SyncFrame, ListingTrue
  PROVE  DeliveryInv'
<1>1. PICK j \in Inodes : j = entry[n]
  BY DEF FileInv, Types, FileSystemOK, OpenNew
<1>2. Followed(j) => Readers(j) = {}
  BY <1>1 DEF OpenNew, ListingTrue
<1>3. Len(content[j]) \in Nat
  BY DEF FileInv, Types, FileSystemOK
<1>4. PICK pos \in 0 .. Len(content[j]) : pos = IF readall THEN 0 ELSE Len(content[j])
  BY <1>3
<1>5. ReadAll => pos = 0
  BY <1>4 DEF readall
<1>6. PICK h \in Unused : handle' = [handle EXCEPT ![h] = JustOpened(n, pos)] /\ cur' = h
  BY <1>1, <1>4 DEF OpenNew, JustOpened
<1>7. pc' = "read" /\ listing' = listing \ {<<n, i>>} /\ after' = after
  BY DEF OpenNew
<1> QED
  BY <1>1, <1>2, <1>5, <1>6, <1>7, OpenEntryDelivers

LEMMA SyncEntryDelivers == ASSUME FileInv, DeliveryInv, ListingTrue, SyncEntry PROVE DeliveryInv'
<1>1. FileInv'
  BY SyncEntryStep
<1>2. pc = "entries" /\ SyncFrame
  BY DEF SyncEntry, SyncFrame
<1>3. PICK e \in listing :
        \/ \E h \in Handles : AlreadyWatched(e[1], e[2], h) \/ FollowRenamed(e[1], e[2], h)
        \/ OpenNew(e[1], e[2])
        \/ OpenFindsNothing(e[1], e[2])
  BY DEF SyncEntry
<1>4. e[1] \in Names /\ e[2] \in Inodes /\ <<e[1], e[2]>> \in listing
  BY DEF FileInv, Types, FilesOK
<1> QED
  BY <1>1, <1>2, <1>3, <1>4, AlreadyWatchedDelivers, FollowRenamedDelivers, OpenNewDelivers,
     OpenFindsNothingDelivers

\* Files are closed between reads; those that are still to be delivered, or that
\* were delivered and have a path, are kept.
LEMMA FinishSyncDelivers ==
  ASSUME FileInv, DeliveryInv, FinishSync,
         \A i \in Inodes : Followed(i) => \A h \in Readers(i) : h \in HandlesIn(watched) =>
           h \in HandlesIn(after) \/ \A n \in Matching : entry[n] # i
  PROVE  DeliveryInv'
<1> USE DEF FinishSync, fsVars, readVars
<1>1. /\ Syncing /\ cur = None /\ toStat = {} /\ listing = {} /\ ~Syncing' /\ None \notin Handles
      /\ pc = "entries" /\ pc' \in {"sync", "files", "loop"}
  BY Distinct DEF FileInv, Position, Syncing
<1>2. OpenHandles' = OpenHandles \ Unwatched
  BY CloseFiles DEF FileInv, Types, OpenHandles
<1>3. \A h \in OpenHandles' : handle'[h] = handle[h]
  BY <1>2 DEF Close, OpenHandles
<1>4. \A i \in Inodes : Readers(i)' = Readers(i) \ Unwatched
  <2>1. OpenHandles \subseteq Handles
    BY DEF OpenHandles
  <2> QED
    BY <1>2, <1>3, <2>1 DEF Readers
<1>5. \A n \in Names : after'[n] = None /\ watched'[n] = after[n]
  BY DEF NothingWatched
<1>6. \A i : Followed(i)' <=> Followed(i)
  BY DEF Followed
<1>7. Paths'
  BY <1>4 DEF DeliveryInv, Known, Paths, FileInv, Types, FileSystemOK
<1>8. OneReader'
  <2>1. ASSUME NEW i \in Inodes, Followed(i), Readers(i)' = {}, delivered[i] # <<>>
        PROVE  \A n \in Matching : entry[n] # i
    <3>1. CASE Readers(i) = {}
      BY <1>1, <2>1, <3>1 DEF DeliveryInv, Known, OneReader
    <3>2. ASSUME NEW h \in Readers(i) PROVE \A n \in Matching : entry[n] # i
      <4>1. h \in Unwatched /\ h # None
        BY <1>1, <1>4, <2>1, ReadersAre
      <4>2. h \in HandlesIn(watched) /\ h \notin HandlesIn(after)
        BY <4>1 DEF Unwatched
      <4> QED
        BY <2>1, <4>2
    <3> QED
      BY <3>1, <3>2
  <2> QED
    BY <1>4, <1>6, <2>1 DEF DeliveryInv, Known, OneReader
<1>9. RightDirectory'
  <2>1. ASSUME NEW i \in Inodes, Followed(i), NEW p \in Names, entry[p] = i,
               NEW n \in Names, NEW h \in Readers(i)', watched'[n] = h \/ after'[n] = h
        PROVE  DirOf[p] = DirOf[n]
    <3>1. h \in Readers(i) /\ after[n] = h
      BY <1>1, <1>4, <1>5, <2>1, ReadersAre
    <3> QED
      BY <2>1, <3>1 DEF DeliveryInv, Known, RightDirectory
  <2> QED
    BY <1>1, <1>6, <2>1 DEF RightDirectory
<1>10. Runs'
  <2>1. \A i \in Inodes : \A h \in Readers(i)' : handle'[h] = handle[h]
    BY <1>3 DEF Readers
  <2> QED
    BY <1>1, <1>4, <2>1, NotReading DEF DeliveryInv
<1> QED
  BY <1>7, <1>8, <1>9, <1>10 DEF DeliveryInv, Known

LEMMA ShutdownDelivers == ASSUME FileInv, DeliveryInv, Shutdown PROVE DeliveryInv'
<1> USE DEF Shutdown, fsVars, readVars, syncVars
<1>1. ~Syncing /\ ~Syncing' /\ cur = None /\ after = NothingWatched /\ listing = {} /\ toStat = {}
      /\ None \notin Handles /\ pc \in {"loop", "failed"}
  BY Distinct DEF FileInv, Position, Syncing
<1>2. OpenHandles' = {}
  <2>1. OpenHandles = HandlesIn(watched)
    BY <1>1, NothingHeld DEF FileInv, Custody
  <2> QED
    BY <2>1, CloseFiles DEF FileInv, Types, OpenHandles
<1>3. \A i : Readers(i)' = {}
  BY <1>2 DEF Readers
<1>4. Known'
  <2>1. Paths'
    BY <1>1, <1>3 DEF DeliveryInv, Known, Paths
  <2>2. OneReader'
    BY <1>3 DEF DeliveryInv, Known, OneReader, Followed
  <2>3. RightDirectory'
    BY <1>1, <1>3 DEF RightDirectory
  <2> QED
    BY <2>1, <2>2, <2>3 DEF Known
<1>5. Runs'
  BY <1>1, <1>3, NotReading DEF DeliveryInv
<1> QED
  BY <1>4, <1>5 DEF DeliveryInv

-----------------------------------------------------------------------------
(* readNewLines                                                             *)

\* The current file is the one reader of its inode if that is followed.
LEMMA CurrentReader ==
  ASSUME FileInv, DeliveryInv, pc \in {"read", "send", "seek", "rewind"}, NEW i \in Inodes, i = handle[cur].inode
  PROVE  /\ cur \in Readers(i) /\ Readers(i) # {}
         /\ Followed(i) => \A h \in Readers(i) : h = cur
         /\ \A j \in Inodes : \A h \in Readers(j) : h = cur => j = i
<1>1. cur \in OpenHandles
  BY DEF FileInv, Position, Custody
<1>2. cur \in Readers(i)
  BY <1>1 DEF Readers
<1> QED
  BY <1>2 DEF DeliveryInv, Known, OneReader, Readers

\* What ReadLine leaves of the buffered pieces is an unbroken run, and so is the
\* line: buf ends at the offset pos, and what was delivered ends where buf begins.
LEMMA LineSplit ==
  ASSUME NEW buf \in Seq(Piece), NEW pos \in Nat, NEW k \in 1 .. Len(buf), NEW d,
         \A j \in 1 .. Len(buf) : buf[j].at = pos - Len(buf) + j,
         RunTo(d, pos - Len(buf))
  PROVE  LET l == Positions(SubSeq(buf, 1, k))
             rest == SubSeq(buf, k + 1, Len(buf))
         IN  /\ Len(l) = k /\ Len(rest) = Len(buf) - k
             /\ \A j \in 1 .. Len(rest) : rest[j].at = pos - Len(rest) + j
             /\ RunTo(l, pos - Len(rest))
             /\ RunTo(d, pos - Len(rest) - Len(l))
<1> DEFINE first == SubSeq(buf, 1, k)
           l == Positions(first)
           rest == SubSeq(buf, k + 1, Len(buf))
<1>1. Len(buf) \in Nat /\ k \in Nat /\ k <= Len(buf) /\ k >= 1
  OBVIOUS
<1>2. first \in Seq(Piece) /\ Len(first) = k /\ \A j \in 1 .. k : first[j] = buf[j]
  BY <1>1
<1>3. rest \in Seq(Piece) /\ Len(rest) = Len(buf) - k /\ \A j \in 1 .. Len(rest) : rest[j] = buf[j + k]
  <2>1. rest \in Seq(Piece) /\ Len(rest) = Len(buf) - k
    BY <1>1
  <2>2. ASSUME NEW j \in 1 .. Len(buf) - k PROVE rest[j] = buf[j + k]
    BY <1>1, <2>2
  <2> HIDE DEF rest
  <2> QED
    BY <2>1, <2>2
<1> HIDE DEF first, rest
<1>4. l = [j \in 1 .. k |-> buf[j].at]
  BY <1>2 DEF Positions
<1>5. Len(l) = k
  BY <1>1, <1>4
<1> HIDE DEF l
<1>6. ASSUME NEW j \in 1 .. k PROVE l[j] = pos - Len(buf) + j
  <2>1. j \in 1 .. Len(buf)
    BY <1>1
  <2>2. l[j] = buf[j].at
    BY <1>4
  <2> QED
    BY <2>1, <2>2
<1>7. \A j \in 1 .. Len(rest) : rest[j].at = pos - Len(rest) + j
  BY <1>1, <1>3
<1>8. RunTo(l, pos - Len(rest))
  BY <1>1, <1>3, <1>5, <1>6 DEF RunTo
<1>9. pos - Len(rest) - Len(l) = pos - Len(buf)
  BY <1>1, <1>3, <1>5
<1>10. RunTo(d, pos - Len(rest) - Len(l))
  BY <1>9
<1> QED
  BY <1>3, <1>5, <1>7, <1>8, <1>10 DEF l, rest, first

ReadFrame == UNCHANGED <<fsVars, watched, watchedDirs, task, syncVars, filesLeft, cur, delivered,
                         failure, done>>

LEMMA ReadsOnDelivers ==
  ASSUME FileInv, DeliveryInv, pc \in {"read", "seek", "rewind"}, pc' \in {"read", "send"}, pc' # "send" => line' = <<>>,
         ReadFrame, NEW pos, NEW buf, NEW i \in Inodes, i = handle[cur].inode,
         handle' = [handle EXCEPT ![cur].pos = pos, ![cur].buf = buf],
         ~done /\ Followed(i) =>
           /\ pos <= Len(content[i])
           /\ \A k \in 1 .. Len(buf) : buf[k].at = pos - Len(buf) + k
           /\ RunTo(line', pos - Len(buf))
           /\ RunTo(delivered[i], pos - Len(buf) - Len(line'))
           /\ ReadAll => Len(delivered[i]) + Len(line') + Len(buf) = pos
  PROVE  DeliveryInv'
<1> USE DEF ReadFrame, fsVars, syncVars
<1>1. cur # None /\ line = <<>>
  BY DEF FileInv, Position, DeliveryInv, Runs
<1>2. cur \in Handles /\ handle \in [Handles -> Opened \cup {Closed}] /\ handle[cur] \in Opened
  BY <1>1, ReadingIsOpen
<1> DEFINE file == handle[cur]
           new == [file EXCEPT !.pos = pos, !.buf = buf]
<1>3. handle'[cur] = new /\ file \in Opened /\ \A h \in Handles : h # cur => handle'[h] = handle[h]
  BY <1>2
<1> HIDE DEF file
<1>4. /\ new.open = file.open /\ new.inode = file.inode /\ new.name = file.name
      /\ new.pos = pos /\ new.buf = buf
  BY <1>3 DEF Opened
<1>5. SameFiles
  BY <1>3, <1>4 DEF SameFiles, file
<1>6. Known'
  BY <1>5, KnownKept DEF DeliveryInv
<1>7. \A j : Readers(j)' = Readers(j)
  BY <1>5, SameReaders
<1>8. Runs'
  <2>1. ASSUME ~done, NEW j \in Inodes, Followed(j), NEW h \in Readers(j), RunOf(j, h) PROVE RunOf(j, h)'
    <3>1. CASE h = cur
      <4>1. j = i
        BY <2>1, <3>1, CurrentReader
      <4>2. handle'[h].pos = pos /\ handle'[h].buf = buf /\ Held(h)' = line'
        BY <1>3, <1>4, <3>1 DEF Held
      <4> HIDE DEF new
      <4>3. content'[i] = content[i] /\ delivered'[i] = delivered[i]
        OBVIOUS
      <4>4. /\ pos <= Len(content[i])
            /\ \A k \in 1 .. Len(buf) : buf[k].at = pos - Len(buf) + k
            /\ RunTo(line', pos - Len(buf))
            /\ RunTo(delivered[i], pos - Len(buf) - Len(line'))
            /\ ReadAll => Len(delivered[i]) + Len(line') + Len(buf) = pos
        BY <2>1, <4>1
      <4> HIDE DEF ReadFrame, fsVars, syncVars
      <4>5. RunOf(i, h)'
        BY <4>2, <4>3, <4>4 DEF RunOf, RunTo
      <4> QED
        BY <4>1, <4>5
    <3>2. CASE h # cur
      <4>1. handle'[h] = handle[h] /\ Held(h)' = Held(h)
        BY <1>3, <2>1, <3>2, ReadersAre DEF Held
      <4> QED
        BY <2>1, <4>1 DEF RunOf, RunTo
    <3> QED
      BY <3>1, <3>2
  <2>2. \A j : (Unbroken(j)' <=> Unbroken(j)) /\ (Followed(j)' <=> Followed(j))
    BY DEF Unbroken, Followed
  <2>3. ASSUME ~done', NEW j \in Inodes, Followed(j)' PROVE (\A h \in Readers(j) : RunOf(j, h))' /\ Unbroken(j)'
    BY <1>7, <2>1, <2>2, <2>3 DEF DeliveryInv, Runs
  <2> QED
    BY <2>3 DEF Runs
<1> QED
  BY <1>6, <1>8 DEF DeliveryInv

LEMMA ReadOnDelivers ==
  ASSUME FileInv, DeliveryInv, pc = "read", NEW pos \in Nat, NEW buf \in Seq(Piece),
         ReadOn(pos, buf), ReadFrame, NEW i \in Inodes, i = handle[cur].inode,
         ~done /\ Followed(i) =>
           /\ pos <= Len(content[i])
           /\ \A k \in 1 .. Len(buf) : buf[k].at = pos - Len(buf) + k
           /\ RunTo(delivered[i], pos - Len(buf))
           /\ ReadAll => Len(delivered[i]) + Len(buf) = pos
  PROVE  DeliveryInv'
<1>1. line = <<>> /\ Len(buf) \in Nat /\ Len(<<>>) = 0
  BY DEF DeliveryInv, Runs
<1>2. CASE LineEnds(buf) = {}
  <2>1. /\ handle' = [handle EXCEPT ![cur].pos = pos, ![cur].buf = buf]
        /\ line' = <<>> /\ pc' = pc
    BY <1>1, <1>2 DEF ReadOn
  <2>2. Len(line') = 0 /\ RunTo(line', pos - Len(buf)) /\ pos - Len(buf) - 0 = pos - Len(buf)
    BY <1>1, <2>1 DEF RunTo
  <2>3. ReadAll /\ Len(delivered[i]) + Len(buf) = pos => Len(delivered[i]) + 0 + Len(buf) = pos
    <3>1. Len(delivered[i]) \in Nat
      BY DEF FileInv, Types, ControlOK
    <3> QED
      BY <1>1, <3>1
  <2> QED
    BY <2>1, <2>2, <2>3, ReadsOnDelivers
<1>3. CASE LineEnds(buf) # {}
  <2>1. PICK k \in LineEnds(buf) :
          /\ line' = Positions(SubSeq(buf, 1, k))
          /\ handle' = [handle EXCEPT ![cur].pos = pos,
                                      ![cur].buf = SubSeq(buf, k + 1, Len(buf))]
          /\ pc' = "send"
    BY <1>3 DEF ReadOn
  <2>2. k \in 1 .. Len(buf)
    BY DEF LineEnds
  <2> DEFINE rest == SubSeq(buf, k + 1, Len(buf))
  <2>3. ASSUME ~done, Followed(i)
        PROVE  /\ pos <= Len(content[i])
               /\ \A j \in 1 .. Len(rest) : rest[j].at = pos - Len(rest) + j
               /\ RunTo(line', pos - Len(rest))
               /\ RunTo(delivered[i], pos - Len(rest) - Len(line'))
               /\ ReadAll => Len(delivered[i]) + Len(line') + Len(rest) = pos
    <3>1. /\ Len(line') = k /\ Len(rest) = Len(buf) - k
          /\ \A j \in 1 .. Len(rest) : rest[j].at = pos - Len(rest) + j
          /\ RunTo(line', pos - Len(rest))
          /\ RunTo(delivered[i], pos - Len(rest) - Len(line'))
      BY <2>1, <2>2, <2>3, LineSplit
    <3>2. Len(delivered[i]) \in Nat
      BY DEF FileInv, Types, ControlOK
    <3> HIDE DEF rest
    <3>3. k \in Nat /\ k + (Len(buf) - k) = Len(buf) /\ Len(buf) - k \in Nat
      BY <1>1, <2>2
    <3>4. Len(delivered[i]) + Len(line') + Len(rest) = Len(delivered[i]) + Len(buf)
      BY <1>1, <3>1, <3>2, <3>3
    <3> QED
      BY <2>3, <3>1, <3>4
  <2> HIDE DEF rest
  <2>4. handle' = [handle EXCEPT ![cur].pos = pos, ![cur].buf = rest]
    BY <2>1 DEF rest
  <2> QED
    BY <2>1, <2>3, <2>4, ReadsOnDelivers
<1> QED
  BY <1>2, <1>3

\* What RunOf says of the current file before a read.
LEMMA CurrentRun ==
  ASSUME FileInv, DeliveryInv, pc = "read", ~done, NEW i \in Inodes, i = handle[cur].inode, Followed(i)
  PROVE  LET pos == handle[cur].pos
         IN  /\ pos <= Len(content[i])
             /\ \A k \in 1 .. Len(Buf) : Buf[k].at = pos - Len(Buf) + k
             /\ RunTo(delivered[i], pos - Len(Buf))
             /\ ReadAll => Len(delivered[i]) + Len(Buf) = pos
<1>1. RunOf(i, cur) /\ line = <<>> /\ Held(cur) = <<>>
  BY CurrentReader DEF DeliveryInv, Runs, Held
<1>2. Buf \in Seq(Piece) /\ handle[cur].pos \in 0 .. MaxPieces
  BY ReadingIsOpen DEF Opened, Buf, FileInv, Position
<1>3. Len(Buf) \in Nat /\ handle[cur].pos \in Nat /\ Len(<<>>) = 0
  BY <1>2
<1>4. Len(delivered[i]) \in Nat
  BY DEF FileInv, Types, ControlOK
<1>5. handle[cur].pos - Len(Buf) - 0 = handle[cur].pos - Len(Buf)
  BY <1>3
<1>6. Len(delivered[i]) + 0 + Len(Buf) = Len(delivered[i]) + Len(Buf)
  BY <1>3, <1>4
<1> QED
  BY <1>1, <1>3, <1>5, <1>6 DEF RunOf, Buf

LEMMA ReadDelivers == ASSUME FileInv, DeliveryInv, ReadBuffered \/ ReadChunk PROVE DeliveryInv'
<1>1. pc = "read" /\ cur # None /\ ReadFrame
  BY DEF ReadBuffered, ReadChunk, FileInv, Position, ReadFrame
<1>2. handle[cur] \in Opened
  BY <1>1, ReadingIsOpen
<1>3. /\ handle[cur].pos \in 0 .. MaxPieces /\ Buf \in Seq(Piece)
      /\ handle[cur].inode \in Inodes
  BY <1>2 DEF Opened, Buf
<1>4. handle[cur].pos \in Nat
  BY <1>3
<1>5. CASE ReadBuffered
  BY <1>1, <1>3, <1>4, <1>5, CurrentRun, ReadOnDelivers DEF ReadBuffered
<1>6. CASE ReadChunk
  <2> DEFINE pos == handle[cur].pos
             n == IF Len(File) - pos < ChunkPieces THEN Len(File) - pos ELSE ChunkPieces
             chunk == [k \in 1 .. n |-> [at |-> pos + k, ends |-> File[pos + k]]]
             i == handle[cur].inode
             buf == Buf \o chunk
  <2>1. File \in Seq(BOOLEAN) /\ Len(File) <= MaxPieces /\ Len(File) \in Nat /\ File = content[i]
    BY <1>3 DEF File, FileInv, Types, FileSystemOK
  <2>2. pos \in Nat /\ pos < Len(File) /\ MaxPieces \in Nat /\ ChunkPieces \in Nat
    BY <1>4, <1>6, ConstantsAssumption DEF ReadChunk
  <2>3. n \in Nat /\ pos + n <= Len(File) /\ pos + n \in Nat
    BY <2>1, <2>2
  <2> DEFINE end == pos + n
  <2>4. ReadOn(end, buf)
    BY <1>6 DEF ReadChunk
  <2> HIDE DEF n, pos
  <2>5. ASSUME NEW k \in 1 .. n PROVE [at |-> pos + k, ends |-> File[pos + k]] \in Piece
    <3>1. pos + k \in 1 .. Len(File) /\ pos + k \in 1 .. MaxPieces
      BY <2>1, <2>2, <2>3
    <3> QED
      BY <2>1, <3>1 DEF Piece
  <2>6. chunk \in Seq(Piece) /\ Len(chunk) = n /\ \A k \in 1 .. n : chunk[k].at = pos + k
    BY <2>3, <2>5
  <2> HIDE DEF chunk, i
  <2>7. /\ buf \in Seq(Piece) /\ Len(buf) = Len(Buf) + n /\ Len(Buf) \in Nat
        /\ \A k \in 1 .. Len(Buf) : buf[k] = Buf[k]
        /\ \A k \in 1 .. Len(buf) : k > Len(Buf) => buf[k] = chunk[k - Len(Buf)]
    BY <1>3, <2>6
  <2> HIDE DEF buf
  <2>8. ASSUME ~done, Followed(i)
        PROVE  /\ end <= Len(content[i])
               /\ \A k \in 1 .. Len(buf) : buf[k].at = end - Len(buf) + k
               /\ RunTo(delivered[i], end - Len(buf))
               /\ ReadAll => Len(delivered[i]) + Len(buf) = end
    <3>1. /\ \A k \in 1 .. Len(Buf) : Buf[k].at = pos - Len(Buf) + k
          /\ RunTo(delivered[i], pos - Len(Buf))
          /\ ReadAll => Len(delivered[i]) + Len(Buf) = pos
      BY <1>1, <1>3, <2>8, CurrentRun DEF pos, i
    <3>2. end - Len(buf) = pos - Len(Buf)
      BY <2>2, <2>3, <2>7
    <3>3. ASSUME NEW k \in 1 .. Len(buf) PROVE buf[k].at = end - Len(buf) + k
      <4>1. CASE k <= Len(Buf)
        BY <2>7, <3>1, <3>2, <4>1
      <4>2. CASE k > Len(Buf)
        <5>1. k - Len(Buf) \in 1 .. n
          BY <2>3, <2>7, <4>2
        <5>2. buf[k].at = pos + (k - Len(Buf))
          BY <2>6, <2>7, <4>2, <5>1
        <5> QED
          BY <2>2, <2>7, <3>2, <5>2
      <4> QED
        BY <2>7, <4>1, <4>2
    <3>4. Len(delivered[i]) \in Nat
      BY <1>3 DEF FileInv, Types, ControlOK, i
    <3>5. end <= Len(content[i])
      BY <2>1, <2>3
    <3>6. ReadAll => Len(delivered[i]) + Len(buf) = end
      <4>1. Len(Buf) \in Nat /\ Len(buf) = Len(Buf) + n /\ pos \in Nat /\ n \in Nat
        BY <2>2, <2>3, <2>7
      <4>2. ReadAll => Len(delivered[i]) + Len(Buf) = pos
        BY <3>1
      <4> DEFINE a == Len(delivered[i])
                 b == Len(Buf)
      <4>3. a \in Nat /\ b \in Nat /\ n \in Nat /\ pos \in Nat
        BY <3>4, <4>1
      <4> HIDE DEF a, b
      <4>4. a + b = pos => a + (b + n) = end
        BY <4>3
      <4> HIDE DEF end
      <4> QED
        BY <4>1, <4>2, <4>4 DEF a, b
    <3> HIDE DEF end
    <3> QED
      BY <3>1, <3>2, <3>3, <3>5, <3>6
  <2>9. i \in Inodes /\ i = handle[cur].inode
    BY <1>3 DEF i
  <2>10. end \in Nat
    BY <2>3
  <2> HIDE DEF end
  <2>11. ~done /\ Followed(i) =>
           /\ end <= Len(content[i])
           /\ \A k \in 1 .. Len(buf) : buf[k].at = end - Len(buf) + k
           /\ RunTo(delivered[i], end - Len(buf))
           /\ ReadAll => Len(delivered[i]) + Len(buf) = end
    BY <2>8
  <2>12. buf \in Seq(Piece)
    BY <2>7
  <2> QED
    BY <1>1, <2>4, <2>9, <2>10, <2>11, <2>12, ReadOnDelivers
<1> QED
  BY <1>5, <1>6

\* A read changes an offset and a buffer only.
LEMMA ReadKeepsFiles == ASSUME FileInv, ReadBuffered \/ ReadChunk PROVE SameFiles
<1>1. ASSUME NEW p, NEW b, ReadOn(p, b)
      PROVE  \E pos, buf : handle' = [handle EXCEPT ![cur].pos = pos, ![cur].buf = buf]
  BY <1>1 DEF ReadOn
<1>2. PICK pos, buf : handle' = [handle EXCEPT ![cur].pos = pos, ![cur].buf = buf]
  <2>1. CASE ReadBuffered
    BY <1>1, <2>1 DEF ReadBuffered
  <2>2. CASE ReadChunk
    <3>1. PICK p, b : ReadOn(p, b)
      BY <2>2 DEF ReadChunk
    <3> QED
      BY <1>1, <3>1
  <2> QED
    BY <2>1, <2>2
<1>3. cur \in Handles /\ handle \in [Handles -> Opened \cup {Closed}] /\ handle[cur] \in Opened
  BY ReadingIsOpen DEF FileInv, Position, ReadBuffered, ReadChunk
<1> DEFINE file == handle[cur]
           new == [file EXCEPT !.pos = pos, !.buf = buf]
<1>4. handle'[cur] = new /\ \A h \in Handles : h # cur => handle'[h] = handle[h]
  BY <1>2, <1>3
<1>5. file \in Opened
  BY <1>3
<1> HIDE DEF file
<1>6. new.open = file.open /\ new.inode = file.inode /\ new.name = file.name
  BY <1>5 DEF Opened
<1> HIDE DEF new
<1> QED
  BY <1>4, <1>6 DEF SameFiles, file

\* readNewLines returns, with no line or after Close.
LEMMA ReturnDelivers ==
  ASSUME FileInv, DeliveryInv, pc \in {"read", "send"}, ReturnToCaller, line' = <<>>,
         line = <<>> \/ done,
         UNCHANGED <<fsVars, mapVars, task, dirsLeft, dir, toStat, listing, filesLeft,
                     delivered, failure, done>>
  PROVE  DeliveryInv'
<1> USE DEF ReturnToCaller, fsVars, mapVars
<1>1. cur \in Handles /\ cur \in OpenHandles /\ cur # None /\ pc' \in {"entries", "files", "loop"}
  BY DEF FileInv, Types, FilesOK, Position, Custody
<1>2. SameFiles
  BY DEF SameFiles
<1>3. Runs'
  BY <1>2, SameReaders, RunsKept DEF DeliveryInv
<1>4. ASSUME ~Syncing PROVE Known'
  BY <1>1, <1>2, <1>4, KnownKept DEF DeliveryInv
<1>5. ASSUME Syncing PROVE Known'
  <2> DEFINE n == handle[cur].name
  <2>1. /\ n \in Names /\ after[n] = None /\ after \in [Names -> Handles \cup {None}]
        /\ after' = [after EXCEPT ![n] = cur]
    BY <1>1, <1>5 DEF FileInv, OnePlace, Types, FilesOK
  <2>2. /\ \A i : Readers(i)' = Readers(i) /\ (Followed(i)' <=> Followed(i))
        /\ OpenHandles' = OpenHandles /\ HandlesIn(watched)' = HandlesIn(watched) /\ Syncing'
    BY <1>2, <1>5, SameReaders DEF HandlesIn, Followed, Syncing
  <2>3. \A m \in Names : after'[m] = IF m = n THEN cur ELSE after[m]
    BY <2>1
  <2>4. DirOf[n] = dir
    BY <1>1, <1>5 DEF DeliveryInv, Known, RightDirectory
  <2> HIDE DEF n
  <2>5. Paths'
    BY <2>2 DEF DeliveryInv, Known, Paths, FileInv, Types, FileSystemOK
  <2>6. OneReader'
    BY <1>1, <2>2 DEF DeliveryInv, Known, OneReader, FileInv, Position
  <2>7. RightDirectory'
    <3>1. ASSUME NEW i \in Inodes, Followed(i), NEW p \in Names, entry[p] = i,
                 NEW m \in Names, NEW g \in Readers(i), watched[m] = g \/ after'[m] = g
          PROVE  DirOf[p] = DirOf[m]
      <4>1. CASE watched[m] = g \/ after[m] = g
        BY <3>1, <4>1 DEF DeliveryInv, Known, RightDirectory
      <4>2. CASE m = n /\ g = cur
        <5>1. handle[cur].inode = i
          BY <3>1, <4>2 DEF Readers
        <5>2. DirOf[p] = dir
          BY <1>1, <1>5, <3>1, <5>1 DEF DeliveryInv, Known, RightDirectory
        <5> QED
          BY <2>4, <4>2, <5>2
      <4> QED
        BY <2>3, <3>1, <4>1, <4>2
    <3>2. /\ \A m \in toStat' : m \in Matching /\ DirOf[m] = dir'
          /\ \A m \in Names, i \in Inodes : <<m, i>> \in listing' =>
               /\ m \in Matching /\ DirOf[m] = dir'
               /\ Followed(i) => \A p \in Names : entry[p] = i => DirOf[p] = dir'
      BY DEF DeliveryInv, Known, RightDirectory
    <3>3. cur' = None
      OBVIOUS
    <3> QED
      BY <2>2, <3>1, <3>2, <3>3 DEF RightDirectory
  <2> QED
    BY <2>5, <2>6, <2>7 DEF Known
<1> QED
  BY <1>3, <1>4, <1>5 DEF DeliveryInv

LEMMA SendLineDelivers == ASSUME FileInv, DeliveryInv, SendLine PROVE DeliveryInv'
<1> USE DEF SendLine, fsVars, mapVars, syncVars
<1>1. pc = "send" /\ cur # None
  BY DEF FileInv, Position
<1>2. handle[cur] \in Opened
  BY <1>1, ReadingIsOpen
<1>3. PICK i \in Inodes : i = handle[cur].inode
  BY <1>2 DEF Opened
<1>4. handle[cur].pos \in Nat /\ handle[cur].buf \in Seq(Piece) /\ Len(handle[cur].buf) \in Nat
  <2>1. handle[cur].pos \in 0 .. MaxPieces /\ handle[cur].buf \in Seq(Piece)
    BY <1>2 DEF Opened
  <2> QED
    BY <2>1
<1>5. /\ delivered \in [Inodes -> Seq(1 .. MaxPieces)] /\ line \in Seq(1 .. MaxPieces)
      /\ delivered[i] \in Seq(1 .. MaxPieces)
  BY DEF FileInv, Types, ControlOK
<1>6. delivered'[i] = delivered[i] \o line /\ \A j \in Inodes : j # i => delivered'[j] = delivered[j]
  BY <1>3, <1>5
<1>7. cur \in Readers(i) /\ \A j \in Inodes : \A h \in Readers(j) : h = cur => j = i
  BY <1>1, <1>3, CurrentReader
<1>8. SameFiles
  BY DEF SameFiles
<1>9. Known'
  <2>1. \A j \in Inodes : delivered'[j] = delivered[j] \/ Readers(j) # {}
    BY <1>6, <1>7
  <2> QED
    BY <1>1, <1>8, <2>1, KnownKept DEF DeliveryInv
<1>10. \A j : Readers(j)' = Readers(j) /\ (Followed(j)' <=> Followed(j))
  BY <1>8, SameReaders DEF Followed
<1>11. ASSUME ~done, Followed(i) PROVE RunOf(i, cur)' /\ Unbroken(i)'
  <2> DEFINE pos == handle[cur].pos
             buf == handle[cur].buf
             d == delivered[i]
             new == delivered'[i]
             start == pos - Len(buf)
  <2>0. pos \in Nat /\ Len(buf) \in Nat
    BY <1>4
  <2>1. RunOf(i, cur) /\ Held(cur) = line
    BY <1>7, <1>11 DEF DeliveryInv, Runs, Held
  <2>2. /\ pos <= Len(content[i])
        /\ \A k \in 1 .. Len(buf) : buf[k].at = pos - Len(buf) + k
        /\ RunTo(line, start)
        /\ RunTo(d, start - Len(line))
        /\ ReadAll => Len(d) + Len(line) + Len(buf) = pos
    BY <2>1 DEF RunOf
  <2>3. new = d \o line /\ d \in Seq(1 .. MaxPieces) /\ line \in Seq(1 .. MaxPieces)
    BY <1>5, <1>6
  <2>4. start \in Int
    BY <1>4
  <2> HIDE DEF d, new, start, buf, pos
  <2>5. /\ Len(d) \in Nat /\ Len(line) \in Nat /\ Len(new) = Len(d) + Len(line)
        /\ \A k \in 1 .. Len(d) : new[k] = d[k]
        /\ \A k \in 1 .. Len(new) : k > Len(d) => new[k] = line[k - Len(d)]
    BY <2>3
  <2>6. RunTo(new, start)
    <3> SUFFICES ASSUME NEW k \in 1 .. Len(new) PROVE new[k] = start - Len(new) + k
      BY DEF RunTo
    <3>1. CASE k <= Len(d)
      <4>1. new[k] = start - Len(line) - Len(d) + k
        BY <2>2, <2>5, <3>1 DEF RunTo
      <4> QED
        BY <2>4, <2>5, <4>1
    <3>2. CASE k > Len(d)
      <4>1. k - Len(d) \in 1 .. Len(line)
        BY <2>5, <3>2
      <4>2. new[k] = start - Len(line) + (k - Len(d))
        BY <2>2, <2>5, <3>2, <4>1 DEF RunTo
      <4> QED
        BY <2>4, <2>5, <4>2
    <3> QED
      BY <2>5, <3>1, <3>2
  <2>7. /\ handle' = handle /\ content' = content /\ Held(cur)' = <<>> /\ delivered'[i] = new
        /\ Len(<<>>) = 0
    BY DEF Held, new
  <2>8. ReadAll => Len(new) + 0 + Len(buf) = pos
    BY <2>0, <2>2, <2>5
  <2>9. RunTo(<<>>, start) /\ start - 0 = start
    BY <2>4 DEF RunTo
  <2>10. RunOf(i, cur)'
    <3>1. cur' = cur
      OBVIOUS
    <3> HIDE DEF SendLine, fsVars, mapVars, syncVars
    <3> QED
      BY <2>2, <2>6, <2>7, <2>8, <2>9, <3>1 DEF RunOf, RunTo, start, buf, pos
  <2>11. Unbroken(i)'
    <3>1. ASSUME NEW k \in 1 .. Len(new) PROVE new[k] = new[1] + k - 1
      <4>1. new[k] = start - Len(new) + k /\ new[1] = start - Len(new) + 1
        BY <2>5, <2>6 DEF RunTo
      <4> QED
        BY <2>4, <2>5, <4>1
    <3>2. ASSUME ReadAll, new # <<>> PROVE new[1] = 1
      <4>1. Len(new) > 0
        BY <2>3, <3>2
      <4>2. new[1] = start - Len(new) + 1
        BY <2>5, <2>6, <4>1 DEF RunTo
      <4> QED
        BY <2>0, <2>5, <2>8, <3>2, <4>2 DEF start
    <3> QED
      BY <2>7, <3>1, <3>2 DEF Unbroken
  <2> QED
    BY <2>10, <2>11
<1>12. ASSUME NEW j \in Inodes, j # i, NEW h \in Readers(j), RunOf(j, h) PROVE RunOf(j, h)'
  <2>1. h # cur
    BY <1>7, <1>12
  <2>2. handle'[h] = handle[h] /\ Held(h)' = Held(h) /\ content' = content /\ delivered'[j] = delivered[j]
    BY <1>6, <1>12, <2>1 DEF Held
  <2> HIDE DEF SendLine, fsVars, mapVars, syncVars
  <2> QED
    BY <1>12, <2>2 DEF RunOf, RunTo
<1>13. ASSUME ~done', NEW j \in Inodes, Followed(j)' PROVE (\A h \in Readers(j) : RunOf(j, h))' /\ Unbroken(j)'
  <2>1. Followed(j) /\ ~done
    BY <1>10, <1>13
  <2>2. CASE j = i
    <3>1. \A h \in Readers(i) : h = cur
      BY <1>1, <1>3, <2>1, <2>2, CurrentReader
    <3>2. RunOf(i, cur)' /\ Unbroken(i)' /\ cur' = cur
      BY <1>11, <2>1, <2>2
    <3> HIDE DEF SendLine, fsVars, mapVars, syncVars
    <3> QED
      BY <1>10, <2>2, <3>1, <3>2
  <2>3. CASE j # i
    <3>1. Unbroken(j)' <=> Unbroken(j)
      BY <1>6, <2>3 DEF Unbroken
    <3> QED
      BY <1>10, <1>12, <2>1, <2>3, <3>1 DEF DeliveryInv, Runs
  <2> QED
    BY <2>2, <2>3
<1> QED
  BY <1>9, <1>13 DEF DeliveryInv, Runs

LEMMA ReadNewLinesDelivers == ASSUME FileInv, DeliveryInv, ReadNewLines PROVE DeliveryInv'
<1>1. CASE ReadEOF
  <2>1. line = <<>> /\ line' = <<>>
    BY <1>1 DEF ReadEOF, DeliveryInv, Runs
  <2> QED
    BY <1>1, <2>1, ReturnDelivers DEF ReadEOF
<1>2. CASE SendAborted
  BY <1>2, ReturnDelivers DEF SendAborted
<1> QED
  BY <1>1, <1>2, ReadDelivers, SendLineDelivers DEF ReadNewLines

-----------------------------------------------------------------------------
(* processEvent, as far as the watchers share it.                           *)

LEMMA NothingReadDelivers ==
  ASSUME FileInv, DeliveryInv, pc \in {"loop", "files"}, pc' \in {"loop", "sync", "failed"},
         UNCHANGED <<fsVars, handle, watched, dir, toStat, listing, after, cur, line, delivered, done>>
  PROVE  DeliveryInv'
<1>1. SameFiles
  BY DEF SameFiles
<1>2. Known'
  BY <1>1, KnownKept DEF DeliveryInv
<1>3. Runs'
  BY <1>1, SameReaders, NotReading DEF DeliveryInv
<1> QED
  BY <1>2, <1>3 DEF DeliveryInv

\* Rewinding changes an offset and a buffer only.
LEMMA RewoundFile ==
  ASSUME FileInv, NEW h \in OpenHandles
  PROVE  \A g \in Handles : /\ Rewound(h)[g].open = handle[g].open
                            /\ Rewound(h)[g].inode = handle[g].inode
                            /\ Rewound(h)[g].name = handle[g].name
                            /\ g # h => Rewound(h)[g] = handle[g]
<1>1. handle \in [Handles -> Opened \cup {Closed}] /\ h \in Handles
  BY DEF FileInv, Types, FilesOK, OpenHandles
<1>2. handle[h] \in Opened
  <2>1. handle[h].open /\ ~Closed.open
    BY DEF OpenHandles, Closed
  <2> QED
    BY <1>1, <2>1
<1>3. CASE ~(handle[h].pos > Len(content[handle[h].inode]))
  BY <1>3 DEF Rewound
<1>4. CASE handle[h].pos > Len(content[handle[h].inode])
  <2> DEFINE file == handle[h]
             new == [file EXCEPT !.pos = 0, !.buf = <<>>]
  <2>1. Rewound(h) = [handle EXCEPT ![h].pos = 0, ![h].buf = <<>>]
    BY <1>4 DEF Rewound
  <2>2. Rewound(h)[h] = new /\ \A g \in Handles : g # h => Rewound(h)[g] = handle[g]
    BY <1>1, <2>1
  <2>3. file \in Opened
    BY <1>2
  <2> HIDE DEF file
  <2>4. new.open = file.open /\ new.inode = file.inode /\ new.name = file.name
    BY <2>3 DEF Opened
  <2> HIDE DEF new
  <2> QED
    BY <2>2, <2>4 DEF file
<1> QED
  BY <1>3, <1>4

\* A followed file is never rewound.
LEMMA RewoundKeeps ==
  ASSUME FileInv, DeliveryInv, NEW h \in OpenHandles
  PROVE  ~done => \A i \in Inodes : Followed(i) => \A g \in Readers(i) : Rewound(h)[g] = handle[g]
<1> SUFFICES ASSUME ~done, NEW i \in Inodes, Followed(i), NEW g \in Readers(i)
             PROVE  Rewound(h)[g] = handle[g]
  OBVIOUS
<1>1. g \in Handles /\ handle[g].inode = i /\ handle[g] \in Opened
  BY ReadersAre
<1>2. handle[g].pos <= Len(content[i])
  BY DEF DeliveryInv, Runs, RunOf
<1>3. Len(content[i]) \in Nat
  BY DEF FileInv, Types, FileSystemOK
<1>4. handle[g].pos \in 0 .. MaxPieces
  BY <1>1 DEF Opened
<1>5. ~(handle[g].pos > Len(content[i]))
  BY <1>2, <1>3, <1>4
<1>6. CASE g = h
  BY <1>1, <1>5, <1>6 DEF Rewound
<1>7. CASE g # h
  BY <1>1, <1>7, RewoundFile
<1> QED
  BY <1>6, <1>7

\* A watched file is rewound, readNewLines starts on it, or both.
LEMMA FileEventDelivers ==
  ASSUME FileInv, DeliveryInv, pc \in {"loop", "files"}, NEW h \in HandlesIn(watched),
         handle' \in {handle, Rewound(h)},
         \/ cur' = h /\ pc' \in {"read", "rewind"}
         \/ cur' = cur /\ pc' = "loop",
         UNCHANGED <<fsVars, watched, dir, toStat, listing, after, line, delivered, done>>
  PROVE  DeliveryInv'
<1>1. ~Syncing /\ h \in OpenHandles /\ line = <<>>
  BY DEF FileInv, Position, Custody, DeliveryInv, Runs
<1>2. SameFiles
  BY <1>1, RewoundFile DEF SameFiles
<1>3. Known'
  BY <1>1, <1>2, KnownKept DEF DeliveryInv
<1>4. Runs'
  <2>1. ~done => \A i \in Inodes : Followed(i) => \A g \in Readers(i)' :
           handle'[g].pos = handle[g].pos /\ handle'[g].buf = handle[g].buf
    BY <1>1, <1>2, RewoundKeeps, SameReaders
  <2> QED
    BY <1>1, <1>2, <2>1, SameReaders, RunsKept DEF DeliveryInv
<1> QED
  BY <1>3, <1>4 DEF DeliveryInv

-----------------------------------------------------------------------------
LEMMA DeliveryInvInit == ASSUME Init PROVE DeliveryInv
<1>1. FileInv
  BY FileInvInit
<1>2. /\ pc = "sync" /\ dir = NoDir /\ cur = None /\ listing = {} /\ toStat = {} /\ line = <<>>
      /\ watched = NothingWatched /\ after = NothingWatched
      /\ handle = [h \in Handles |-> Closed] /\ delivered = [i \in Inodes |-> <<>>]
  BY DEF Init
<1>3. OpenHandles = {} /\ \A i : Readers(i) = {}
  BY <1>2 DEF OpenHandles, Closed, Readers
<1>4. \A i \in Inodes : delivered[i] = <<>>
  BY <1>2
<1>5. Paths
  <2>1. PICK S \in SUBSET Matching :
          /\ InitialEntries(S) # {} /\ entry = CHOOSE e \in InitialEntries(S) : TRUE
          /\ fresh = {i \in Inodes : \A n \in S : entry[n] # i}
    BY DEF Init
  <2>2. entry \in InitialEntries(S)
    BY <2>1
  <2>3. \A m, n \in Names : entry[m] # None /\ entry[m] = entry[n] => m = n
    BY <2>2 DEF InitialEntries
  <2>4. fresh = {i \in Inodes : \A n \in S : entry[n] # i} /\ \A n \in Names \ S : entry[n] = None
    BY <2>1, <2>2 DEF InitialEntries
  <2>5. \A i \in fresh, n \in Names : entry[n] # i
    BY <2>4, Distinct
  <2> QED
    BY <1>2, <1>3, <1>4, <2>3, <2>4, <2>5 DEF Paths
<1>6. ~Syncing /\ pc # "lstat"
  BY <1>2 DEF Syncing
<1>7. OneReader
  BY <1>2, <1>3, <1>4 DEF OneReader
<1>8. RightDirectory
  BY <1>2, <1>3, <1>6 DEF RightDirectory
<1>9. Runs
  <2>1. \A i \in Inodes : Unbroken(i)
    <3>1. Len(<<>>) = 0
      OBVIOUS
    <3> QED
      BY <1>4, <3>1 DEF Unbroken
  <2> QED
    BY <1>2, <1>3, <2>1 DEF Runs
<1> QED
  BY <1>5, <1>7, <1>8, <1>9 DEF DeliveryInv, Known

-----------------------------------------------------------------------------
(* The sync in progress: what it is still to see, and to open.              *)

\* The files of watchedFiles with inode i do not change while it stays as it is.
LEMMA SameFileKept ==
  ASSUME FileInv, watched' = watched,
         \A h \in HandlesIn(watched) : handle'[h].inode = handle[h].inode
  PROVE  HandlesIn(watched)' = HandlesIn(watched) /\ \A i : SameFile(i)' = SameFile(i)
  BY DEF HandlesIn, SameFile

\* No file that a reader has comes to a path, unless by renaming.
LEMMA OthersMoveNothing ==
  ASSUME FileInv, Known, UNCHANGED tailerVars,
         \/ \E n \in Names : CreateFile(n) \/ DeleteFile(n) \/ TruncateFile(n)
         \/ \E n \in Names, endsLine \in BOOLEAN : AppendPiece(n, endsLine)
         \/ \E d \in Dirs : RemoveDir(d)
  PROVE  \A i \in Inodes : Followed(i)' =>
           /\ Followed(i)
           /\ Readers(i) # {} => \A n \in Names : entry'[n] = i => entry[n] = i
<1>1. /\ entry \in [Names -> Inodes \cup {None}] /\ history \in [Inodes -> SUBSET Past]
      /\ fresh \subseteq Inodes /\ None \notin Inodes
  BY Distinct DEF FileInv, Types, FileSystemOK
<1>2. ASSUME NEW n \in Names, CreateFile(n), NEW i \in Inodes, Followed(i)'
      PROVE  Followed(i) /\ (Readers(i) # {} => \A m \in Names : entry'[m] = i => entry[m] = i)
  <2>1. PICK j \in fresh : entry' = [entry EXCEPT ![n] = j] /\ history' = history
    BY <1>2 DEF CreateFile
  <2>2. Readers(j) = {}
    BY <2>1 DEF Known, Paths
  <2> QED
    BY <1>1, <1>2, <2>1, <2>2 DEF Followed
<1>3. ASSUME NEW n \in Names, DeleteFile(n), NEW i \in Inodes, Followed(i)'
      PROVE  Followed(i) /\ \A m \in Names : entry'[m] = i => entry[m] = i
  BY <1>1, <1>3 DEF DeleteFile, Followed
<1>4. ASSUME NEW n \in Names, TruncateFile(n), NEW i \in Inodes, Followed(i)'
      PROVE  Followed(i) /\ entry' = entry
  BY <1>1, <1>4 DEF TruncateFile, Followed
<1>5. ASSUME UNCHANGED <<entry, history>>, NEW i \in Inodes, Followed(i)'
      PROVE  Followed(i) /\ \A m \in Names : entry'[m] = i => entry[m] = i
  BY <1>5 DEF Followed
<1> QED
  BY <1>2, <1>3, <1>4, <1>5 DEF AppendPiece, RemoveDir

LEMMA DisturbsMarks == \A m, n : Disturbs(m, n) \subseteq {"raced", "swapped"}
  BY DEF Disturbs

LEMMA DisturbsPast == \A m, n : Disturbs(m, n) \in SUBSET Past
  BY DisturbsMarks DEF Past

\* A rename that does not disturb the sync leaves it every watched file to see, and
\* brings no file with a reader to a path that will be opened.
LEMMA RenameFileSees ==
  ASSUME FileInv, SyncInv, UNCHANGED <<tailerVars, done>>,
         NEW m \in Names, NEW n \in Names, RenameFile(m, n, Disturbs(m, n))
  PROVE  ListingTrue' /\ StillToSee'
<1> PICK marks \in SUBSET Past : marks = Disturbs(m, n)
  BY DisturbsPast
<1> USE DEF tailerVars, mapVars, syncVars, readVars
<1>0. entry \in [Names -> Inodes \cup {None}] /\ RenameFile(m, n, marks)
  BY DEF FileInv, Types, FileSystemOK
<1> PICK i \in Inodes : i = entry[m]
  BY <1>0 DEF RenameFile
<1>1. /\ \A p \in Names : entry'[p] = IF p = n THEN i ELSE IF p = m THEN None ELSE entry[p]
      /\ \A j \in Inodes : j # i => history'[j] = history[j]
      /\ m # n /\ i # None
  <2>1. history \in [Inodes -> SUBSET Past]
    BY DEF FileInv, Types, FileSystemOK
  <2> QED
    BY <1>0, <2>1, Distinct DEF RenameFile
<1>2. \A j \in Inodes : Followed(j)' => Followed(j)
  BY <1>0, <1>1, FollowedRenamed DEF Followed
<1>3. ASSUME Followed(i)'
      PROVE  marks \cap {"raced", "swapped"} = {} /\ ("left" \in history[i] => n \notin Matching)
  BY <1>0, <1>3, FollowedRenamed
<1>4. ASSUME Followed(i)', Readers(i) # {}
      PROVE  /\ ~(m \in toStat /\ n \in Matching \ toStat)
             /\ \A e \in listing : e[1] = n => SameFile(e[2]) # {}
  <2>1. \E h \in Handles : handle[h].open /\ handle[h].inode = entry[m]
    BY <1>4 DEF Readers, OpenHandles
  <2>2. "raced" \notin Disturbs(m, n) /\ "swapped" \notin Disturbs(m, n)
    BY <1>3, <1>4
  <2> QED
    BY <2>1, <2>2 DEF Disturbs
<1>5. \A p \in Names : entry[p] = i <=> p = m
  BY <1>1 DEF SyncInv, DeliveryInv, Known, Paths
<1>6. \A p \in Names, j \in Inodes : j # i /\ entry'[p] = j => entry[p] = j
  BY <1>1, Distinct
<1>7. \A p \in Names : entry'[p] = i => p = n
  BY <1>1, <1>5, Distinct
<1>8. OpenHandles' = OpenHandles /\ (\A j : Readers(j)' = Readers(j)) /\ Syncing' = Syncing
      /\ HandlesIn(watched)' = HandlesIn(watched) /\ HandlesIn(after)' = HandlesIn(after)
      /\ \A j : SameFile(j)' = SameFile(j)
  BY DEF OpenHandles, Readers, Syncing, HandlesIn, SameFile
<1>9. ListingTrue'
  <2>1. ASSUME NEW q \in Names, NEW j \in Inodes, <<q, j>> \in listing, SameFile(j) = {},
               NEW k \in Inodes, Followed(k)', entry'[q] = k
        PROVE  Readers(k) = {}
    <3>1. CASE k = i
      BY <1>4, <1>7, <2>1, <3>1
    <3>2. CASE k # i
      BY <1>2, <1>6, <2>1, <3>2 DEF SyncInv, ListingTrue
    <3> QED
      BY <3>1, <3>2
  <2> QED
    BY <1>8, <2>1 DEF SyncInv, ListingTrue
<1>10. StillToSee'
  <2>1. ASSUME Syncing, NEW j \in Inodes, Followed(j)', NEW h \in Readers(j), h \in HandlesIn(watched)
        PROVE  \/ h \in HandlesIn(after) \cup {cur}
               \/ \E p \in Names : <<p, j>> \in listing
               \/ \E p \in toStat : entry'[p] = j
               \/ \A p \in Matching : entry'[p] # j
    <3>1. Matching \subseteq Names /\ toStat \subseteq Names /\ Followed(j)
      BY <1>2, <2>1, ConstantsAssumption DEF FileInv, Types, FilesOK
    <3>2. CASE \E p \in toStat : entry[p] = j
      <4>1. PICK p \in toStat : entry[p] = j
        BY <3>2
      <4>2. CASE j = i
        <5>1. n \in toStat \/ n \notin Matching
          BY <1>4, <1>5, <2>1, <3>1, <4>1, <4>2
        <5> QED
          BY <1>1, <1>7, <3>1, <4>2, <5>1
      <4>3. CASE j # i
        <5>1. \A q \in Names : entry'[q] = j => q = p
          BY <1>6, <3>1, <4>1, <4>3, Distinct DEF SyncInv, DeliveryInv, Known, Paths
        <5> QED
          BY <3>1, <4>1, <5>1
      <4> QED
        BY <4>2, <4>3
    <3>3. CASE \A p \in Matching : entry[p] # j
      <4>1. CASE j = i
        <5>1. m \notin Matching
          BY <1>5, <3>3, <4>1
        <5>2. "left" \in history[i]
          BY <1>5, <2>1, <3>1, <4>1, <5>1 DEF SyncInv, DeliveryInv, Known, OneReader
        <5> QED
          BY <1>3, <1>7, <2>1, <3>1, <4>1, <5>2
      <4>2. CASE j # i
        BY <1>6, <3>1, <3>3, <4>2
      <4> QED
        BY <4>1, <4>2
    <3> QED
      BY <2>1, <3>1, <3>2, <3>3 DEF SyncInv, StillToSee
  <2> QED
    BY <1>8, <2>1 DEF StillToSee
<1> QED
  BY <1>9, <1>10

LEMMA FileSystemSees ==
  ASSUME FileInv, SyncInv, UNCHANGED <<tailerVars, done>>,
         \/ \E n \in Names : CreateFile(n) \/ DeleteFile(n) \/ TruncateFile(n)
         \/ \E n \in Names, endsLine \in BOOLEAN : AppendPiece(n, endsLine)
         \/ \E m, n \in Names : RenameFile(m, n, Disturbs(m, n))
         \/ \E d \in Dirs : RemoveDir(d)
  PROVE  SyncInv'
<1>1. DeliveryInv'
  BY DisturbsPast, FileSystemDelivers DEF SyncInv
<1>2. CASE \E m, n \in Names : RenameFile(m, n, Disturbs(m, n))
  BY <1>1, <1>2, RenameFileSees DEF SyncInv
<1>3. CASE \/ \E n \in Names : CreateFile(n) \/ DeleteFile(n) \/ TruncateFile(n)
           \/ \E n \in Names, endsLine \in BOOLEAN : AppendPiece(n, endsLine)
           \/ \E d \in Dirs : RemoveDir(d)
  <2>1. \A i \in Inodes : Followed(i)' =>
          /\ Followed(i)
          /\ Readers(i) # {} => \A n \in Names : entry'[n] = i => entry[n] = i
    BY <1>3, OthersMoveNothing DEF SyncInv, DeliveryInv
  <2> USE DEF tailerVars, mapVars, syncVars, readVars
  <2>2. OpenHandles' = OpenHandles /\ (\A j : Readers(j)' = Readers(j)) /\ Syncing' = Syncing
        /\ HandlesIn(watched)' = HandlesIn(watched) /\ HandlesIn(after)' = HandlesIn(after)
        /\ \A j : SameFile(j)' = SameFile(j)
    BY DEF OpenHandles, Readers, Syncing, HandlesIn, SameFile
  <2>3. ListingTrue'
    BY <2>1, <2>2 DEF SyncInv, ListingTrue
  <2>4. StillToSee'
    <3>1. ASSUME Syncing, NEW i \in Inodes, Followed(i)', NEW h \in Readers(i), h \in HandlesIn(watched)
          PROVE  \/ h \in HandlesIn(after) \cup {cur}
                 \/ \E n \in Names : <<n, i>> \in listing
                 \/ \E n \in toStat : entry'[n] = i
                 \/ \A n \in Matching : entry'[n] # i
      <4>1. Matching \subseteq Names /\ toStat \subseteq Names /\ i # None
        BY ConstantsAssumption, Distinct DEF FileInv, Types, FilesOK
      <4>2. \A p \in Names : entry'[p] = i => entry[p] = i
        BY <2>1, <3>1
      <4>3. ASSUME NEW n \in toStat, entry[n] = i, entry'[n] # i PROVE \A p \in Matching : entry'[p] # i
        BY <4>1, <4>2, <4>3 DEF SyncInv, DeliveryInv, Known, Paths
      <4> QED
        BY <2>1, <3>1, <4>1, <4>2, <4>3 DEF SyncInv, StillToSee
    <3> QED
      BY <2>2, <3>1 DEF StillToSee
  <2> QED
    BY <1>1, <2>3, <2>4 DEF SyncInv
<1> QED
  BY <1>2, <1>3

\* A directory was listed: each file watched in it that has a matching name is there.
LEMMA ListedSees ==
  ASSUME FileInv, DeliveryInv, pc = "sync", dirsLeft # <<>>, Listed
  PROVE  StillToSee'
<1> USE DEF fsVars, mapVars, readVars
<1>0. UNCHANGED <<fsVars, mapVars, task, filesLeft, readVars, failure, done>>
  BY DEF Listed
<1>1. ~Syncing /\ cur = None /\ None \notin Handles
  BY NothingHeld, Distinct DEF FileInv, Position, Custody
<1>2. OpenHandles' = OpenHandles /\ (\A i : Readers(i)' = Readers(i))
      /\ HandlesIn(watched)' = HandlesIn(watched)
  BY <1>0 DEF OpenHandles, Readers, HandlesIn
<1>3. /\ \A n \in Names, i \in Inodes : entry[n] = i /\ DirOf[n] = dir' /\ n \in Matching =>
           n \in toStat' \/ <<n, i>> \in listing'
      /\ \A n \in Names : after'[n] = IF DirOf[n] # dir' THEN watched[n] ELSE None
  BY ListedEntries DEF FileInv, Types, FileSystemOK
<1>4. ASSUME NEW i \in Inodes, Followed(i), NEW h \in Readers(i), h \in HandlesIn(watched)
      PROVE  \/ h \in HandlesIn(after')
             \/ \E n \in Names : <<n, i>> \in listing'
             \/ \E n \in toStat' : entry[n] = i
             \/ \A n \in Matching : entry[n] # i
  <2>1. PICK k \in Names : watched[k] = h /\ h # None
    BY <1>4 DEF HandlesIn
  <2>2. CASE DirOf[k] # dir'
    BY <1>3, <2>1, <2>2 DEF HandlesIn
  <2>3. CASE DirOf[k] = dir'
    <3>1. \A n \in Names : entry[n] = i => DirOf[n] = dir'
      BY <1>4, <2>1, <2>3 DEF DeliveryInv, Known, RightDirectory
    <3>2. Matching \subseteq Names
      BY ConstantsAssumption
    <3> QED
      BY <1>3, <1>4, <3>1, <3>2, Distinct
  <2> QED
    BY <2>2, <2>3
<1>5. HandlesIn(after)' = HandlesIn(after')
  BY DEF HandlesIn
<1> QED
  BY <1>0, <1>2, <1>4, <1>5 DEF StillToSee, Followed

LEMMA ListNextSees ==
  ASSUME FileInv, SyncInv, pc = "sync", dirsLeft # <<>>, ListNext
  PROVE  SyncInv'
<1>1. Listed
  BY ListNextLists
<1>2. DeliveryInv' /\ StillToSee'
  BY <1>1, ListedDelivers, ListedSees DEF SyncInv
<1>3. ListingTrue'
  <2>1. OpenHandles = HandlesIn(watched)
    BY NothingHeld, Distinct DEF FileInv, Position, Custody
  <2>2. OpenHandles' = OpenHandles /\ HandlesIn(watched)' = HandlesIn(watched) /\ listing' = {}
    BY DEF ListNext, mapVars, OpenHandles, HandlesIn
  <2> QED
    BY <2>1, <2>2 DEF ListingTrue
<1> QED
  BY <1>2, <1>3 DEF SyncInv

LEMMA LstatEntrySees == ASSUME FileInv, SyncInv, NEW n \in Names, LstatEntry(n) PROVE SyncInv'
<1> USE DEF LstatEntry, fsVars, mapVars, readVars
<1>1. OpenHandles' = OpenHandles /\ (\A i : Readers(i)' = Readers(i)) /\ Syncing' = Syncing
      /\ HandlesIn(watched)' = HandlesIn(watched) /\ HandlesIn(after)' = HandlesIn(after)
      /\ (\A i : SameFile(i)' = SameFile(i)) /\ \A i : Followed(i)' <=> Followed(i)
  BY DEF OpenHandles, Readers, HandlesIn, Syncing, SameFile, Followed
<1>2. /\ entry \in [Names -> Inodes \cup {None}] /\ None \notin Inodes /\ n \in toStat
      /\ OpenHandles = HandlesIn(watched)
  BY Distinct DEF FileInv, Types, FileSystemOK, SyncInv, ListingTrue
<1>3. ASSUME NEW m \in Names, NEW i \in Inodes
      PROVE  <<m, i>> \in listing' <=> <<m, i>> \in listing \/ (m = n /\ i = entry[n])
  BY <1>2, <1>3
<1>4. ListingTrue'
  <2>1. SameFile(entry[n]) = Readers(entry[n])
    BY <1>2 DEF SameFile, Readers
  <2> QED
    BY <1>1, <1>2, <1>3, <2>1 DEF SyncInv, ListingTrue
<1>5. StillToSee'
  <2>1. \A i \in Inodes : \A m \in toStat : entry[m] = i => <<m, i>> \in listing' \/ m \in toStat'
    BY <1>2, <1>3
  <2>2. \A m \in Names, i \in Inodes : <<m, i>> \in listing => <<m, i>> \in listing'
    BY <1>3
  <2> QED
    BY <1>1, <1>2, <2>1, <2>2 DEF SyncInv, StillToSee
<1>6. DeliveryInv'
  BY LstatEntryDelivers DEF SyncInv
<1> QED
  BY <1>4, <1>5, <1>6 DEF SyncInv

\* An entry was handled.  What is left to show is that its file is kept if it is
\* followed, and that no path got a reader but that of the entry.
LEMMA EntrySees ==
  ASSUME FileInv, SyncInv, pc = "entries", SyncFrame, NEW n \in Names, NEW i \in Inodes,
         <<n, i>> \in listing, listing' = listing \ {<<n, i>>}, pc' \in {"entries", "read"},
         HandlesIn(after) \subseteq HandlesIn(after'),
         \A h \in HandlesIn(watched) : handle'[h].inode = handle[h].inode,
         \A j : Readers(j)' \cap HandlesIn(watched) = Readers(j) \cap HandlesIn(watched),
         \A j \in Inodes : Readers(j)' = Readers(j) \/ entry[n] = j,
         Followed(i) => Readers(i) \cap HandlesIn(watched) \subseteq HandlesIn(after') \cup {cur'}
  PROVE  ListingTrue' /\ StillToSee'
<1> USE DEF SyncFrame, fsVars
<1>1. /\ Syncing' = Syncing /\ HandlesIn(watched)' = HandlesIn(watched)
      /\ HandlesIn(after)' = HandlesIn(after') /\ (\A j : Followed(j)' <=> Followed(j))
      /\ \A j : SameFile(j)' = SameFile(j)
  BY DEF Syncing, HandlesIn, Followed, SameFile
<1>2. cur = None /\ toStat = {} /\ None \notin Handles
  BY Distinct DEF FileInv, Position
<1>3. ListingTrue'
  <2>1. ASSUME NEW m \in Names, NEW k \in Inodes, <<m, k>> \in listing', SameFile(k) = {},
               NEW j \in Inodes, Followed(j), entry[m] = j
        PROVE  Readers(j)' = {}
    <3>1. <<m, k>> \in listing /\ m # n
      BY <2>1 DEF FileInv, OnePlace
    <3>2. Readers(j) = {}
      BY <2>1, <3>1 DEF SyncInv, ListingTrue
    <3>3. entry[n] # j
      BY <2>1, <3>1, Distinct DEF SyncInv, DeliveryInv, Known, Paths
    <3> QED
      BY <3>2, <3>3
  <2> QED
    BY <1>1, <2>1 DEF ListingTrue
<1>4. StillToSee'
  <2>1. ASSUME Syncing, NEW j \in Inodes, Followed(j), NEW h \in Readers(j)', h \in HandlesIn(watched)
        PROVE  \/ h \in HandlesIn(after') \cup {cur'}
               \/ \E m \in Names : <<m, j>> \in listing'
               \/ \E m \in toStat : entry[m] = j
               \/ \A m \in Matching : entry[m] # j
    <3>1. h \in Readers(j) /\ h # None
      BY <2>1 DEF HandlesIn
    <3>2. \A m \in Names : <<m, j>> \in listing => <<m, j>> \in listing' \/ j = i
      OBVIOUS
    <3> QED
      BY <1>2, <2>1, <3>1, <3>2 DEF SyncInv, StillToSee
  <2> QED
    BY <1>1, <2>1 DEF StillToSee
<1> QED
  BY <1>3, <1>4

\* The goroutine keeps the files of a followed inode, which are one.
LEMMA SyncEntrySees == ASSUME FileInv, SyncInv, SyncEntry PROVE SyncInv'
<1>1. DeliveryInv' /\ pc = "entries" /\ SyncFrame
  BY SyncEntryDelivers DEF SyncInv, SyncEntry, SyncFrame
<1>2. PICK e \in listing :
        \/ \E h \in Handles : AlreadyWatched(e[1], e[2], h) \/ FollowRenamed(e[1], e[2], h)
        \/ OpenNew(e[1], e[2])
        \/ OpenFindsNothing(e[1], e[2])
  BY DEF SyncEntry
<1>3. PICK n \in Names, i \in Inodes : n = e[1] /\ i = e[2] /\ <<n, i>> \in listing
  BY DEF FileInv, Types, FilesOK
<1>4. HandlesIn(watched) \subseteq OpenHandles
  BY DEF FileInv, Custody
<1>5. SameFile(i) = Readers(i) \cap HandlesIn(watched)
  BY <1>4 DEF SameFile, Readers
<1>6. ASSUME NEW h \in Handles, AlreadyWatched(n, i, h) PROVE ListingTrue' /\ StillToSee'
  <2>1. HandlesIn(after') = HandlesIn(after) \cup {h}
    <3>1. after \in [Names -> Handles \cup {None}] /\ after[n] = None
      BY <1>3 DEF FileInv, Types, FilesOK, OnePlace
    <3>2. PICK m : m = [after EXCEPT ![n] = h]
      OBVIOUS
    <3>3. HandlesIn(m) = HandlesIn(after) \cup {h}
      BY <3>1, <3>2, HoldOneMore
    <3> QED
      BY <1>6, <3>2, <3>3 DEF HandlesIn, AlreadyWatched
  <2>2. handle' = handle /\ \A j : Readers(j)' = Readers(j)
    BY <1>6 DEF AlreadyWatched, Readers, OpenHandles
  <2>3. Followed(i) => \A g \in Readers(i) : g = h
    BY <1>5, <1>6 DEF AlreadyWatched, SyncInv, DeliveryInv, Known, OneReader
  <2>4. listing' = listing \ {<<n, i>>} /\ pc' = "entries"
    BY <1>1, <1>6 DEF AlreadyWatched
  <2> QED
    BY <1>1, <1>3, <2>1, <2>2, <2>3, <2>4, EntrySees
<1>7. ASSUME NEW h \in Handles, FollowRenamed(n, i, h) PROVE ListingTrue' /\ StillToSee'
  <2>1. h \in OpenHandles /\ handle' = [handle EXCEPT ![h].name = n] /\ h \in Readers(i)
    BY <1>4, <1>5, <1>7 DEF FollowRenamed, SameFile
  <2>2. /\ \A g \in Handles : handle'[g].inode = handle[g].inode
        /\ \A j : Readers(j)' = Readers(j)
    BY <2>1, RenamedFile
  <2>3. Followed(i) => \A g \in Readers(i) : g = h
    BY <2>1 DEF SyncInv, DeliveryInv, Known, OneReader
  <2>4. listing' = listing \ {<<n, i>>} /\ pc' = "read" /\ cur' = h /\ after' = after
    BY <1>7 DEF FollowRenamed
  <2>5. HandlesIn(watched) \subseteq Handles /\ HandlesIn(after) \subseteq HandlesIn(after')
    BY <1>4, <2>4 DEF OpenHandles
  <2> QED
    BY <1>1, <1>3, <2>2, <2>3, <2>4, <2>5, EntrySees
<1>8. ASSUME OpenNew(n, i) PROVE ListingTrue' /\ StillToSee'
  <2>1. PICK j \in Inodes : j = entry[n]
    BY <1>8 DEF FileInv, Types, FileSystemOK, OpenNew
  <2>2. PICK pos \in Nat : pos = IF readall THEN 0 ELSE Len(content[j])
    <3>1. content[j] \in Seq(BOOLEAN)
      BY DEF FileInv, Types, FileSystemOK
    <3>2. Len(content[j]) \in Nat
      BY <3>1
    <3> QED
      BY <3>2
  <2>3. PICK h \in Unused : handle' = [handle EXCEPT ![h] = JustOpened(n, pos)]
    BY <1>8, <2>1, <2>2 DEF OpenNew, JustOpened
  <2>4. /\ h \notin OpenHandles /\ h \notin HandlesIn(watched)
        /\ handle'[h] = JustOpened(n, pos)
        /\ \A g \in Handles : g # h => handle'[g] = handle[g]
        /\ OpenHandles' = OpenHandles \cup {h}
    BY <2>3, OpenedFile
  <2>5. handle'[h].inode = j
    BY <2>1, <2>4 DEF JustOpened
  <2>6. \A k : Readers(k)' = IF k = j THEN Readers(k) \cup {h} ELSE Readers(k)
    <3>1. OpenHandles \subseteq Handles
      BY DEF OpenHandles
    <3> QED
      BY <2>4, <2>5, <3>1 DEF Readers
  <2>7. Readers(i) \cap HandlesIn(watched) = {}
    BY <1>5, <1>8 DEF OpenNew
  <2>8. listing' = listing \ {<<n, i>>} /\ pc' = "read" /\ after' = after
    BY <1>8 DEF OpenNew
  <2>9. /\ \A g \in HandlesIn(watched) : handle'[g].inode = handle[g].inode
        /\ \A k : Readers(k)' \cap HandlesIn(watched) = Readers(k) \cap HandlesIn(watched)
        /\ \A k \in Inodes : Readers(k)' = Readers(k) \/ entry[n] = k
    <3>1. HandlesIn(watched) \subseteq Handles
      BY <1>4 DEF OpenHandles
    <3> QED
      BY <2>1, <2>4, <2>6, <3>1
  <2> QED
    BY <1>1, <1>3, <2>7, <2>8, <2>9, EntrySees
<1>9. ASSUME OpenFindsNothing(n, i) PROVE ListingTrue' /\ StillToSee'
  <2>1. UNCHANGED <<handle, pc, after, cur>> /\ listing' = listing \ {<<n, i>>}
    BY <1>9 DEF OpenFindsNothing
  <2>2. \A j : Readers(j)' = Readers(j)
    BY <2>1 DEF Readers, OpenHandles
  <2>3. Readers(i) \cap HandlesIn(watched) = {}
    BY <1>5, <1>9 DEF OpenFindsNothing
  <2> QED
    BY <1>1, <1>3, <2>1, <2>2, <2>3, EntrySees
<1> QED
  BY <1>1, <1>2, <1>3, <1>6, <1>7, <1>8, <1>9 DEF SyncInv

\* Nothing is opened or listed, and what is kept stays kept.
LEMMA SyncKept ==
  ASSUME FileInv, SyncInv, SameFiles, UNCHANGED <<fsVars, watched, dir, toStat, listing>>,
         pc' = "lstat" => pc = "lstat",
         Syncing => HandlesIn(after) \cup {cur} \subseteq HandlesIn(after') \cup {cur', None}
  PROVE  ListingTrue' /\ StillToSee'
<1>1. /\ OpenHandles' = OpenHandles /\ (\A j : Readers(j)' = Readers(j)) /\ Syncing' = Syncing
      /\ HandlesIn(after)' = HandlesIn(after') /\ \A j : Followed(j)' <=> Followed(j)
  BY SameReaders DEF Syncing, HandlesIn, Followed, fsVars
<1>2. HandlesIn(watched)' = HandlesIn(watched) /\ \A i : SameFile(i)' = SameFile(i)
  <2>1. HandlesIn(watched) \subseteq Handles
    BY DEF FileInv, Custody, OpenHandles
  <2> QED
    BY <2>1, SameFileKept DEF SameFiles
<1>3. entry' = entry
  BY DEF fsVars
<1>4. ListingTrue'
  BY <1>1, <1>2, <1>3 DEF SyncInv, ListingTrue
<1>5. StillToSee'
  <2>1. None \notin Handles /\ \A h \in HandlesIn(watched) : h \in Handles
    BY Distinct DEF FileInv, Custody, OpenHandles
  <2> QED
    BY <1>1, <1>2, <1>3, <2>1 DEF SyncInv, StillToSee
<1> QED
  BY <1>4, <1>5

LEMMA NoSync == ~Syncing /\ listing = {} /\ pc # "lstat" => ListingTrue /\ StillToSee
  BY DEF ListingTrue, StillToSee

LEMMA FinishSyncSees == ASSUME FileInv, SyncInv, FinishSync PROVE SyncInv'
<1>1. Syncing /\ cur = None /\ toStat = {} /\ listing = {} /\ None \notin Handles
  BY Distinct DEF FileInv, Position, FinishSync
<1>2. \A i \in Inodes : Followed(i) => \A h \in Readers(i) : h \in HandlesIn(watched) =>
        h \in HandlesIn(after) \/ \A n \in Matching : entry[n] # i
  <2>1. \A i \in Inodes : \A h \in Readers(i) : h # None
    BY <1>1, ReadersAre
  <2> QED
    BY <1>1, <2>1 DEF SyncInv, StillToSee
<1>3. DeliveryInv'
  BY <1>2, FinishSyncDelivers DEF SyncInv
<1>4. ListingTrue' /\ StillToSee'
  <2>1. ~Syncing' /\ listing' = {} /\ pc' # "lstat"
    BY DEF FinishSync, Syncing
  <2> QED
    BY <2>1 DEF ListingTrue, StillToSee
<1> QED
  BY <1>3, <1>4 DEF SyncInv

\* The file being read stays so, or gets its key.
LEMMA ReadKeepsSeen ==
  ASSUME FileInv, ReadNewLines
  PROVE  /\ SameFiles /\ pc' # "lstat" /\ UNCHANGED <<fsVars, watched, dir, toStat, listing>>
         /\ Syncing => HandlesIn(after) \cup {cur} \subseteq HandlesIn(after') \cup {cur', None}
<1>1. cur \in Handles /\ pc \in {"read", "send"}
  BY DEF FileInv, Types, FilesOK, Position, ReadNewLines, ReadBuffered, ReadChunk, ReadEOF, SendLine, SendAborted
<1>2. CASE ReadBuffered \/ ReadChunk
  <2>1. SameFiles
    BY <1>2, ReadKeepsFiles
  <2>2. /\ UNCHANGED <<fsVars, watched, dir, toStat, listing, after, cur>> /\ pc' # "lstat"
    BY <1>2 DEF ReadBuffered, ReadChunk, ReadOn, syncVars
  <2> QED
    BY <2>1, <2>2
<1>3. CASE SendLine
  BY <1>3 DEF SendLine, mapVars, syncVars, SameFiles
<1>4. CASE ReadEOF \/ SendAborted
  <2>1. ReturnToCaller /\ UNCHANGED <<fsVars, mapVars, dir, toStat, listing>>
    BY <1>4 DEF ReadEOF, SendAborted
  <2>2. SameFiles /\ watched' = watched /\ pc' # "lstat"
    BY <2>1 DEF mapVars, SameFiles, ReturnToCaller
  <2>3. ASSUME Syncing PROVE HandlesIn(after) \cup {cur} \subseteq HandlesIn(after')
    <3>1. /\ handle[cur].name \in Names /\ after[handle[cur].name] = None
          /\ after \in [Names -> Handles \cup {None}]
      BY <1>1, <2>3, Distinct DEF FileInv, OnePlace, Types, FilesOK
    <3>2. PICK k \in Names : k = handle[cur].name
      BY <3>1
    <3>3. PICK c \in Handles : c = cur
      BY <1>1
    <3>4. HandlesIn([after EXCEPT ![k] = c]) = HandlesIn(after) \cup {c}
      <4>1. after \in [Names -> Handles \cup {None}] /\ after[k] = None
        BY <3>1, <3>2
      <4> QED
        BY <4>1, HoldOneMore
    <3>5. after' = [after EXCEPT ![k] = c]
      BY <2>1, <2>3, <3>2, <3>3 DEF ReturnToCaller
    <3> QED
      BY <3>3, <3>4, <3>5 DEF HandlesIn
  <2> QED
    BY <2>1, <2>2, <2>3
<1> QED
  BY <1>2, <1>3, <1>4 DEF ReadNewLines

LEMMA ReadNewLinesSees == ASSUME FileInv, SyncInv, ReadNewLines PROVE SyncInv'
<1>1. DeliveryInv'
  BY ReadNewLinesDelivers DEF SyncInv
<1>2. ListingTrue' /\ StillToSee'
  BY ReadKeepsSeen, SyncKept
<1> QED
  BY <1>1, <1>2 DEF SyncInv

LEMMA GoroutineSees == ASSUME FileInv, SyncInv, Goroutine PROVE SyncInv'
<1>1. CASE StartSync
  BY <1>1, ListNextSees DEF StartSync
<1>2. CASE ListFails
  <2>1. DeliveryInv'
    BY <1>2, ListFailsDelivers DEF SyncInv
  <2>2. SameFiles /\ UNCHANGED <<fsVars, watched, dir, toStat, listing, after, cur>> /\ pc' # "lstat"
    BY <1>2 DEF ListFails, mapVars, syncVars, readVars, SameFiles
  <2>3. HandlesIn(after) = HandlesIn(after')
    BY <2>2
  <2> QED
    BY <2>1, <2>2, <2>3, SyncKept DEF SyncInv
<1>3. CASE Shutdown
  <2>1. DeliveryInv'
    BY <1>3, ShutdownDelivers DEF SyncInv
  <2>2. ~Syncing' /\ listing' = {} /\ pc' # "lstat"
    BY <1>3 DEF Shutdown, syncVars, FileInv, Position, Syncing
  <2>3. ListingTrue' /\ StillToSee'
    BY <2>2 DEF ListingTrue, StillToSee
  <2> QED
    BY <2>1, <2>3 DEF SyncInv
<1> QED
  BY <1>1, <1>2, <1>3, LstatEntrySees, SyncEntrySees, FinishSyncSees, ReadNewLinesSees DEF Goroutine

LEMMA NothingReadSees ==
  ASSUME FileInv, SyncInv, pc \in {"loop", "files"}, pc' \in {"loop", "sync", "failed"},
         UNCHANGED <<fsVars, handle, watched, dir, toStat, listing, after, cur, line, delivered, done>>
  PROVE  SyncInv'
<1>1. DeliveryInv' /\ SameFiles /\ HandlesIn(after) = HandlesIn(after')
  BY NothingReadDelivers DEF SyncInv, SameFiles
<1> QED
  BY <1>1, SyncKept DEF SyncInv

LEMMA FileEventSees ==
  ASSUME FileInv, SyncInv, pc \in {"loop", "files"}, NEW h \in HandlesIn(watched),
         handle' \in {handle, Rewound(h)},
         \/ cur' = h /\ pc' \in {"read", "rewind"}
         \/ cur' = cur /\ pc' = "loop",
         UNCHANGED <<fsVars, watched, dir, toStat, listing, after, line, delivered, done>>
  PROVE  SyncInv'
<1>1. DeliveryInv'
  BY FileEventDelivers DEF SyncInv
<1>2. ~Syncing' /\ listing' = {} /\ pc' # "lstat"
  BY DEF FileInv, Position, Syncing
<1>3. ListingTrue' /\ StillToSee'
  BY <1>2 DEF ListingTrue, StillToSee
<1> QED
  BY <1>1, <1>3 DEF SyncInv

LEMMA CloseTailerSees == ASSUME FileInv, SyncInv, CloseTailer PROVE SyncInv'
<1>1. DeliveryInv'
  BY CloseTailerDelivers DEF SyncInv
<1>2. /\ UNCHANGED <<entry, content, fresh, removed, history, watched, dir, toStat, listing, after, cur, handle, pc>>
  BY DEF CloseTailer, tailerVars, mapVars, syncVars, readVars
<1>3. ListingTrue' /\ StillToSee'
  BY <1>2 DEF SyncInv, ListingTrue, StillToSee, Followed, Readers, OpenHandles, HandlesIn, SameFile, Syncing
<1> QED
  BY <1>1, <1>3 DEF SyncInv

LEMMA NothingSeen == ASSUME FileInv, SyncInv, UNCHANGED vars PROVE SyncInv'
<1>1. DeliveryInv'
  BY NothingDelivered DEF SyncInv
<1>2. UNCHANGED <<fsVars, watched, dir, toStat, listing, after, cur, pc>> /\ SameFiles
  BY DEF vars, tailerVars, mapVars, syncVars, readVars, SameFiles
<1>3. HandlesIn(after) = HandlesIn(after')
  BY <1>2
<1> QED
  BY <1>1, <1>2, <1>3, SyncKept DEF SyncInv

LEMMA SyncInvInit == ASSUME Init PROVE SyncInv
<1>1. DeliveryInv /\ ~Syncing /\ listing = {} /\ pc # "lstat"
  BY DeliveryInvInit DEF Init, Syncing
<1> QED
  BY <1>1, NoSync DEF SyncInv

\* The property is a part of the invariant.
LEMMA SyncInvImplies == SyncInv => ExactlyOnce
  BY DeliveryInvImplies DEF SyncInv

-----------------------------------------------------------------------------
(* The watch list, for the watchers whose events tell which directories to  *)
(* sync.                                                                    *)

\* The directory d will be synced: an event that leads to that is on its way (Due
\* has the directories of those), or it is one of those left to sync.
Pending(Due, d) == d \in Due \/ \E k \in 1 .. Len(dirsLeft) : dirsLeft[k] = d

Running == pc \notin {"failed", "returned"}

\* The watched files of the directory d are those that are there.
DirCurrent(d) ==
  \A n \in NamesIn(d) :
    IF n \in Matching /\ entry[n] # None
      THEN /\ watched[n] # None
           /\ handle[watched[n]].inode = entry[n]
           /\ handle[watched[n]].name = n
      ELSE watched[n] = None

\* The same of the directory being synced: each path is at its stage of the sync,
\* with the file that is there.
SyncCurrent ==
  \A n \in NamesIn(dir) :
    /\ n \in toStat => entry[n] # None
    /\ \A i \in Inodes : <<n, i>> \in listing => entry[n] = i
    /\ cur # None /\ handle[cur].name = n => n \in Matching /\ handle[cur].inode = entry[n]
    /\ after[n] # None =>
         n \in Matching /\ handle[after[n]].inode = entry[n] /\ handle[after[n]].name = n
    /\ n \in Matching /\ entry[n] # None =>
         \/ n \in toStat
         \/ \E i \in Inodes : <<n, i>> \in listing
         \/ cur # None /\ handle[cur].name = n
         \/ after[n] # None

\* A directory is as the tailer knows it, or will be synced again.
CurrentOrPending(Due) ==
  Running => \A d \in Dirs :
    Pending(Due, d) \/ (IF Syncing /\ d = dir THEN SyncCurrent ELSE DirCurrent(d))

\* A listed file that was renamed since has left an event for its new directory.
MovedIsPending(Due) ==
  Running => \A n, p \in Names, i \in Inodes :
    <<n, i>> \in listing /\ entry[p] = i /\ p # n => Pending(Due, DirOf[p])

\* A sync keeps what is known of the other directories, and the syncs of one
\* event are done before the next.
OneSync ==
  /\ Syncing => \A n \in Names : DirOf[n] # dir => after[n] = watched[n]
  /\ pc = "loop" \/ (pc \in {"read", "send", "rewind"} /\ ~Syncing) => dirsLeft = <<>>

WatchInv(Due) == CurrentOrPending(Due) /\ MovedIsPending(Due) /\ OneSync

LEMMA WatchInvImplies ==
  ASSUME NEW Due, FileInv, WatchInv(Due), Due = {}, pc = "loop"
  PROVE  WatchListCurrent
<1>1. dirsLeft = <<>> /\ ~Syncing /\ Running
  BY DEF WatchInv, OneSync, FileInv, Position, Running
<1>2. \A d \in Dirs : ~Pending(Due, d)
  BY <1>1 DEF Pending
<1>3. \A d \in Dirs : DirCurrent(d)
  BY <1>1, <1>2 DEF WatchInv, CurrentOrPending
<1>4. \A n \in Names : DirOf[n] \in Dirs /\ n \in NamesIn(DirOf[n])
  BY ConstantsAssumption DEF NamesIn
<1> QED
  BY <1>3, <1>4 DEF DirCurrent, WatchListCurrent

LEMMA WatchInvInit == ASSUME NEW Due, Init PROVE WatchInv(Due)
<1>1. pc = "sync" /\ dir = NoDir /\ dirsLeft = DirSeq /\ listing = {}
  BY DEF Init
<1>2. \A d \in Dirs : Pending(Due, d)
  BY <1>1, ConstantsAssumption DEF Pending, Dirs
<1> QED
  BY <1>1, <1>2 DEF WatchInv, CurrentOrPending, MovedIsPending, OneSync, Syncing

\* Other processes change paths of directories that are synced again.
LEMMA OthersWatched ==
  ASSUME NEW Due, NEW Later, WatchInv(Due), UNCHANGED tailerVars, Due \subseteq Later,
         \A n \in Names : entry'[n] # entry[n] => DirOf[n] \in Later
  PROVE  WatchInv(Later)'
<1> USE DEF tailerVars, mapVars, syncVars, readVars
<1>1. UNCHANGED tailerVars
  OBVIOUS
<1>2. \A d : Pending(Due, d) => Pending(Later, d)'
  BY <1>1 DEF Pending
<1>3. \A d : ~Pending(Later, d)' => \A n \in NamesIn(d) : entry'[n] = entry[n]
  BY DEF Pending, NamesIn
<1>4. (Syncing' <=> Syncing) /\ (Running' <=> Running)
  BY <1>1 DEF Syncing, Running
<1>5. CurrentOrPending(Later)'
  <2> SUFFICES ASSUME Running, NEW d \in Dirs, ~Pending(Later, d)'
               PROVE  (IF Syncing /\ d = dir THEN SyncCurrent ELSE DirCurrent(d))'
    BY <1>4 DEF CurrentOrPending
  <2>1. CASE Syncing /\ d = dir
    <3>1. SyncCurrent
      BY <1>2, <2>1 DEF WatchInv, CurrentOrPending
    <3>2. SyncCurrent'
      BY <1>1, <1>3, <2>1, <3>1 DEF SyncCurrent
    <3> QED
      BY <1>1, <1>4, <2>1, <3>2
  <2>2. CASE ~(Syncing /\ d = dir)
    <3>1. DirCurrent(d)
      BY <1>2, <2>2 DEF WatchInv, CurrentOrPending
    <3>2. DirCurrent(d)'
      BY <1>1, <1>3, <3>1 DEF DirCurrent
    <3> QED
      BY <1>1, <1>4, <2>2, <3>2
  <2> QED
    BY <2>1, <2>2
<1>6. MovedIsPending(Later)'
  BY <1>1, <1>2, <1>3, <1>4 DEF WatchInv, MovedIsPending, NamesIn
<1>7. OneSync'
  BY <1>1, <1>4 DEF WatchInv, OneSync
<1> QED
  BY <1>5, <1>6, <1>7 DEF WatchInv

-----------------------------------------------------------------------------
(* The goroutine.                                                           *)

\* Steps that change neither a map nor the listing nor a file's name.
LEMMA WatchKept ==
  ASSUME NEW Due, NEW Later, FileInv, WatchInv(Due), SameFiles, Running' => Running,
         \A d \in Dirs : Running' /\ Pending(Due, d) => Pending(Later, d)',
         UNCHANGED <<entry, watched, dir, toStat, listing, after>>, cur' = cur \/ ~Syncing,
         pc' = "loop" \/ (pc' \in {"read", "send", "rewind"} /\ ~Syncing) => dirsLeft' = <<>>
  PROVE  WatchInv(Later)'
<1>1. (Syncing' <=> Syncing) /\ None \notin Handles
  BY Distinct DEF Syncing
<1>2. /\ watched \in [Names -> Handles \cup {None}] /\ after \in [Names -> Handles \cup {None}]
      /\ cur \in Handles \cup {None}
  BY DEF FileInv, Types, FilesOK
<1>3. CurrentOrPending(Later)'
  <2> SUFFICES ASSUME Running', NEW d \in Dirs, ~Pending(Later, d)'
               PROVE  (IF Syncing /\ d = dir THEN SyncCurrent ELSE DirCurrent(d))'
    BY DEF CurrentOrPending
  <2>1. CASE Syncing /\ d = dir
    <3>1. SyncCurrent
      BY <2>1 DEF WatchInv, CurrentOrPending
    <3>2. ASSUME NEW h \in Handles PROVE handle'[h].inode = handle[h].inode /\ handle'[h].name = handle[h].name
      BY DEF SameFiles
    <3>3. cur' = cur
      BY <2>1
    <3>4. SyncCurrent'
      BY <1>2, <3>1, <3>2, <3>3 DEF SyncCurrent, NamesIn
    <3> QED
      BY <1>1, <2>1, <3>4
  <2>2. CASE ~(Syncing /\ d = dir)
    <3>1. DirCurrent(d)
      BY <2>2 DEF WatchInv, CurrentOrPending
    <3>2. DirCurrent(d)'
      BY <1>2, <3>1 DEF DirCurrent, SameFiles, NamesIn
    <3> QED
      BY <1>1, <2>2, <3>2
  <2> QED
    BY <2>1, <2>2
<1>4. MovedIsPending(Later)'
  <2>1. \A p \in Names : DirOf[p] \in Dirs
    BY ConstantsAssumption
  <2> QED
    BY <2>1 DEF WatchInv, MovedIsPending
<1>5. OneSync'
  BY <1>1 DEF WatchInv, OneSync
<1> QED
  BY <1>3, <1>4, <1>5 DEF WatchInv

LEMMA NothingWatchedChanges ==
  ASSUME NEW Due, FileInv, WatchInv(Due), UNCHANGED <<entry, tailerVars>>
  PROVE  WatchInv(Due)'
<1>1. (\A d : Pending(Due, d)' <=> Pending(Due, d)) /\ (Running' <=> Running)
  BY DEF Pending, Running, tailerVars, syncVars
<1>2. pc = "loop" \/ (pc \in {"read", "send", "rewind"} /\ ~Syncing) => dirsLeft = <<>>
  BY DEF WatchInv, OneSync
<1> QED
  BY <1>1, <1>2, WatchKept DEF SameFiles, tailerVars, syncVars, mapVars, readVars

LEMMA ListedWatched ==
  ASSUME NEW Due, FileInv, Known, WatchInv(Due), pc = "sync", dirsLeft # <<>>, Listed
  PROVE  WatchInv(Due)'
<1> USE DEF fsVars, mapVars, readVars
<1>0. /\ UNCHANGED <<fsVars, mapVars, readVars>> /\ dir' = Head(dirsLeft) /\ dirsLeft' = Tail(dirsLeft)
      /\ pc' \in {"entries", "lstat"}
  BY DEF Listed
<1>1. /\ ~Syncing /\ cur = None /\ Running /\ dirsLeft \in Seq(Dirs) /\ dir' \in Dirs /\ Syncing'
      /\ pc' \in {"entries", "lstat"}
  BY <1>0, Distinct DEF FileInv, Types, ControlOK, Position, Running, Syncing
<1>2. /\ entry \in [Names -> Inodes \cup {None}]
      /\ \A n \in toStat' : entry[n] # None /\ DirOf[n] = dir' /\ n \in Matching
      /\ \A n \in Names, i \in Inodes : <<n, i>> \in listing' => entry[n] = i
      /\ \A n \in Names, i \in Inodes : entry[n] = i /\ DirOf[n] = dir' /\ n \in Matching =>
           n \in toStat' \/ <<n, i>> \in listing'
      /\ \A n \in Names : after'[n] = IF DirOf[n] # dir' THEN watched[n] ELSE None
  BY ListedEntries DEF FileInv, Types, FileSystemOK
<1>3. ASSUME NEW d \in Dirs, Pending(Due, d), d # dir' PROVE Pending(Due, d)'
  <2>1. CASE d \in Due
    BY <2>1 DEF Pending
  <2>2. CASE \E k \in 1 .. Len(dirsLeft) : dirsLeft[k] = d
    <3>1. PICK k \in 1 .. Len(dirsLeft) : dirsLeft[k] = d
      BY <2>2
    <3>2. k # 1 /\ Len(dirsLeft) \in Nat
      BY <1>0, <1>1, <1>3, <3>1
    <3>3. k - 1 \in 1 .. Len(dirsLeft') /\ dirsLeft'[k - 1] = dirsLeft[k]
      BY <1>0, <1>1, <3>2
    <3> QED
      BY <3>1, <3>3 DEF Pending
  <2> QED
    BY <1>3, <2>1, <2>2 DEF Pending
<1>4. SyncCurrent'
  BY <1>0, <1>1, <1>2 DEF SyncCurrent, NamesIn
<1>5. \A d \in Dirs : d # dir' /\ DirCurrent(d) => DirCurrent(d)'
  BY <1>0 DEF DirCurrent
<1>6. CurrentOrPending(Due)'
  BY <1>1, <1>3, <1>4, <1>5 DEF WatchInv, CurrentOrPending
<1>7. MovedIsPending(Due)' /\ OneSync'
  <2>1. ASSUME NEW n \in Names, NEW p \in Names, NEW i \in Inodes, <<n, i>> \in listing', entry[p] = i
        PROVE  p = n
    BY <1>2, <2>1, Distinct DEF Known, Paths
  <2> QED
    BY <1>0, <1>1, <1>2, <2>1 DEF MovedIsPending, OneSync
<1> QED
  BY <1>6, <1>7 DEF WatchInv

LEMMA ListNextWatched ==
  ASSUME NEW Due, FileInv, Known, WatchInv(Due), pc = "sync", dirsLeft # <<>>, ListNext
  PROVE  WatchInv(Due)'
  BY ListNextLists, ListedWatched

LEMMA LstatEntryWatched ==
  ASSUME NEW Due, FileInv, Known, WatchInv(Due), NEW n \in Names, LstatEntry(n)
  PROVE  WatchInv(Due)'
<1> USE DEF LstatEntry, fsVars, mapVars, readVars
<1>1. /\ Syncing /\ Syncing' /\ cur = None /\ Running /\ n \in toStat /\ DirOf[n] = dir
      /\ pc' \in {"entries", "lstat"} /\ \A d : Pending(Due, d)' <=> Pending(Due, d)
  BY DEF FileInv, Position, Running, Syncing, Known, RightDirectory, Pending
<1>2. entry \in [Names -> Inodes \cup {None}] /\ None \notin Inodes
  BY Distinct DEF FileInv, Types, FileSystemOK
<1>3. ASSUME NEW m \in Names, NEW i \in Inodes
      PROVE  <<m, i>> \in listing' <=> <<m, i>> \in listing \/ (m = n /\ i = entry[n])
  BY <1>2, <1>3
<1>4. SyncCurrent => SyncCurrent'
  <2>1. \A m \in Names : m \in toStat <=> m \in toStat' \/ m = n
    BY <1>1
  <2>2. ASSUME SyncCurrent, NEW m \in NamesIn(dir)
        PROVE  /\ m \in toStat' => entry[m] # None
               /\ \A i \in Inodes : <<m, i>> \in listing' => entry[m] = i
               /\ m \in Matching /\ entry[m] # None =>
                    \/ m \in toStat'
                    \/ \E i \in Inodes : <<m, i>> \in listing'
                    \/ after[m] # None
    <3>1. m \in Names /\ entry[m] \in Inodes \cup {None}
      BY <1>2, <2>2 DEF NamesIn
    <3> QED
      BY <1>1, <1>2, <1>3, <2>1, <2>2, <3>1 DEF SyncCurrent
  <2> QED
    BY <1>1, <2>2 DEF SyncCurrent, NamesIn
<1>5. \A d : DirCurrent(d) => DirCurrent(d)'
  BY DEF DirCurrent
<1>6. CurrentOrPending(Due)'
  BY <1>1, <1>4, <1>5 DEF WatchInv, CurrentOrPending
<1>7. MovedIsPending(Due)'
  <2>1. \A p \in Names : entry[n] # None /\ entry[p] = entry[n] => p = n
    BY DEF Known, Paths
  <2> QED
    BY <1>1, <1>2, <1>3, <2>1 DEF WatchInv, MovedIsPending
<1>8. OneSync'
  BY <1>1 DEF WatchInv, OneSync, Syncing
<1> QED
  BY <1>6, <1>7, <1>8 DEF WatchInv

\* The entry of the path n was handled: n is in watchedFilesAfter now or its file is
\* being read, and what the tailer holds at other paths did not change.
LEMMA EntryWatched ==
  ASSUME NEW Due, FileInv, Known, WatchInv(Due), pc \in {"entries", "open"}, SyncFrame,
         NEW n \in Names, NEW i \in Inodes, <<n, i>> \in listing, listing' = listing \ {<<n, i>>},
         pc' \in {"entries", "read", "seek"}, \A m \in Names : m # n => after'[m] = after[m],
         ~Pending(Due, dir) =>
           /\ cur' # None => handle'[cur'].name = n /\ handle'[cur'].inode = entry[n]
           /\ after'[n] # None => handle'[after'[n]].inode = entry[n] /\ handle'[after'[n]].name = n
           /\ cur' # None \/ after'[n] # None,
         \A m \in Names, h \in Handles :
           /\ m # n /\ ~Pending(Due, DirOf[m]) /\ h \in {after[m], watched[m]}
           /\ handle[h].inode = entry[m]
           => handle'[h].inode = handle[h].inode /\ handle'[h].name = handle[h].name
  PROVE  WatchInv(Due)'
<1> USE DEF SyncFrame, fsVars
<1>1. /\ Syncing /\ Syncing' /\ cur = None /\ Running /\ Running' /\ toStat = {} /\ DirOf[n] = dir /\ n \in Matching
      /\ \A d : Pending(Due, d)' <=> Pending(Due, d)
  BY DEF FileInv, Position, Running, Syncing, Known, RightDirectory, Pending
<1>2. ASSUME NEW m \in Names, NEW j \in Inodes
      PROVE  /\ <<m, j>> \in listing' => <<m, j>> \in listing /\ m # n
             /\ m # n /\ <<m, j>> \in listing => <<m, j>> \in listing'
  BY <1>2 DEF FileInv, OnePlace
<1>3. ASSUME NEW d \in Dirs, ~Pending(Due, d), ~(d = dir) PROVE DirCurrent(d)'
  <2>1. DirCurrent(d)
    BY <1>1, <1>3 DEF WatchInv, CurrentOrPending
  <2>2. ASSUME NEW m \in NamesIn(d)
        PROVE  IF m \in Matching /\ entry[m] # None
                 THEN /\ watched[m] # None
                      /\ handle'[watched[m]].inode = entry[m]
                      /\ handle'[watched[m]].name = m
                 ELSE watched[m] = None
    <3>1. m \in Names /\ m # n /\ ~Pending(Due, DirOf[m])
      BY <1>1, <1>3 DEF NamesIn
    <3>2. watched[m] \in Handles \cup {None}
      BY <3>1 DEF FileInv, Types, FilesOK
    <3>3. IF m \in Matching /\ entry[m] # None
            THEN watched[m] # None /\ handle[watched[m]].inode = entry[m] /\ handle[watched[m]].name = m
            ELSE watched[m] = None
      BY <2>1 DEF DirCurrent
    <3> QED
      BY <3>1, <3>2, <3>3
  <2> QED
    BY <2>2 DEF DirCurrent
<1>4. ASSUME ~Pending(Due, dir) PROVE SyncCurrent'
  <2>1. SyncCurrent
    BY <1>1, <1>4 DEF WatchInv, CurrentOrPending, Syncing, FileInv, Types, ControlOK
  <2>2. \A m \in NamesIn(dir) : m \in Names /\ DirOf[m] = dir
    BY DEF NamesIn
  <2>3. ASSUME NEW m \in NamesIn(dir), m # n
        PROVE  /\ \A j \in Inodes : <<m, j>> \in listing' => entry[m] = j
               /\ cur' # None => handle'[cur'].name # m
               /\ after'[m] # None =>
                    m \in Matching /\ handle'[after'[m]].inode = entry[m] /\ handle'[after'[m]].name = m
               /\ m \in Matching /\ entry[m] # None =>
                    (\E j \in Inodes : <<m, j>> \in listing') \/ after'[m] # None
    <3>1. /\ m \in Names /\ ~Pending(Due, DirOf[m]) /\ after'[m] = after[m]
          /\ after[m] \in Handles \cup {None}
      BY <1>4, <2>2, <2>3 DEF FileInv, Types, FilesOK
    <3>2. /\ \A j \in Inodes : <<m, j>> \in listing => entry[m] = j
          /\ after[m] # None =>
               m \in Matching /\ handle[after[m]].inode = entry[m] /\ handle[after[m]].name = m
          /\ m \in Matching /\ entry[m] # None =>
               (\E j \in Inodes : <<m, j>> \in listing) \/ after[m] # None
      BY <1>1, <2>1 DEF SyncCurrent
    <3>3. after'[m] # None =>
            m \in Matching /\ handle'[after'[m]].inode = entry[m] /\ handle'[after'[m]].name = m
      BY <2>3, <3>1, <3>2
    <3> QED
      BY <1>2, <1>4, <2>3, <3>1, <3>2, <3>3
  <2>4. \A j \in Inodes : <<n, j>> \notin listing'
    BY <1>2
  <2>5. ASSUME NEW m \in NamesIn(dir)
        PROVE  /\ \A j \in Inodes : <<m, j>> \in listing' => entry[m] = j
               /\ cur' # None /\ handle'[cur'].name = m => m \in Matching /\ handle'[cur'].inode = entry[m]
               /\ after'[m] # None =>
                    m \in Matching /\ handle'[after'[m]].inode = entry[m] /\ handle'[after'[m]].name = m
               /\ m \in Matching /\ entry[m] # None =>
                    \/ \E j \in Inodes : <<m, j>> \in listing'
                    \/ cur' # None /\ handle'[cur'].name = m
                    \/ after'[m] # None
    BY <1>1, <1>4, <2>3, <2>4
  <2> QED
    BY <1>1, <2>5 DEF SyncCurrent
<1>5. CurrentOrPending(Due)'
  BY <1>1, <1>3, <1>4 DEF CurrentOrPending
<1>6. MovedIsPending(Due)'
  BY <1>1, <1>2 DEF WatchInv, MovedIsPending
<1>7. OneSync'
  BY <1>1 DEF WatchInv, OneSync, Running
<1> QED
  BY <1>5, <1>6, <1>7 DEF WatchInv

LEMMA KeepEntryWatched ==
  ASSUME NEW Due, FileInv, Known, WatchInv(Due), pc = "entries", SyncFrame,
         NEW n \in Names, NEW i \in Inodes, <<n, i>> \in listing, listing' = listing \ {<<n, i>>},
         NEW h \in Handles, handle[h].name = n, ~Pending(Due, dir) => handle[h].inode = entry[n],
         after' = [after EXCEPT ![n] = h], UNCHANGED <<handle, pc, cur>>
  PROVE  WatchInv(Due)'
<1>1. cur = None /\ after \in [Names -> Handles \cup {None}] /\ h # None
  BY Distinct DEF FileInv, Types, FilesOK, Position
<1>2. after'[n] = h /\ \A m \in Names : m # n => after'[m] = after[m]
  BY <1>1
<1> QED
  BY <1>1, <1>2, EntryWatched

LEMMA RenameEntryWatched ==
  ASSUME NEW Due, FileInv, Known, WatchInv(Due), pc = "entries", SyncFrame,
         NEW n \in Names, NEW i \in Inodes, <<n, i>> \in listing, listing' = listing \ {<<n, i>>},
         NEW h \in HandlesIn(watched), handle' = [handle EXCEPT ![h].name = n],
         cur' = h, pc' = "read", after' = after,
         NEW j \in Inodes, handle[h].inode = j, ~Pending(Due, dir) => entry[n] = j,
         \A m \in Names : m # n /\ ~Pending(Due, DirOf[m]) => entry[m] # j
  PROVE  WatchInv(Due)'
<1>1. h \in OpenHandles /\ h \in Handles
  BY DEF FileInv, Custody, OpenHandles
<1>2. /\ handle'[h].inode = j /\ handle'[h].name = n
      /\ \A g \in Handles : g # h => handle'[g] = handle[g]
  BY <1>1, RenamedFile
<1>3. after[n] = None
  BY DEF FileInv, OnePlace
<1>4. ASSUME NEW m \in Names, NEW g \in Handles, m # n, ~Pending(Due, DirOf[m]), handle[g].inode = entry[m]
      PROVE  handle'[g].inode = handle[g].inode /\ handle'[g].name = handle[g].name
  <2>1. g # h
    BY <1>4
  <2> QED
    BY <1>2, <2>1
<1>5. /\ ~Pending(Due, dir) =>
           /\ cur' # None => handle'[cur'].name = n /\ handle'[cur'].inode = entry[n]
           /\ after'[n] # None => handle'[after'[n]].inode = entry[n] /\ handle'[after'[n]].name = n
           /\ cur' # None \/ after'[n] # None
      /\ \A m \in Names : m # n => after'[m] = after[m]
  BY <1>1, <1>2, <1>3, Distinct
<1> QED
  BY <1>4, <1>5, EntryWatched

LEMMA OpenEntryWatched ==
  ASSUME NEW Due, FileInv, Known, WatchInv(Due), pc \in {"entries", "open"}, SyncFrame,
         NEW n \in Names, NEW i \in Inodes, <<n, i>> \in listing, listing' = listing \ {<<n, i>>},
         NEW h \in Unused, NEW pos \in Nat, handle' = [handle EXCEPT ![h] = JustOpened(n, pos)],
         cur' = h, pc' \in {"read", "seek"}, after' = after
  PROVE  WatchInv(Due)'
<1>1. /\ h \in Handles /\ h \notin HandlesIn(watched) \cup HandlesIn(after)
      /\ handle'[h] = JustOpened(n, pos)
      /\ \A g \in Handles : g # h => handle'[g] = handle[g]
  BY OpenedFile
<1>2. handle'[h].inode = entry[n] /\ handle'[h].name = n
  BY <1>1 DEF JustOpened
<1>3. \A m \in Names : watched[m] # h /\ after[m] # h
  BY <1>1, Distinct DEF HandlesIn
<1>4. after[n] = None
  BY DEF FileInv, OnePlace
<1> QED
  BY <1>1, <1>2, <1>3, <1>4, EntryWatched

LEMMA DropEntryWatched ==
  ASSUME NEW Due, FileInv, Known, WatchInv(Due), pc \in {"entries", "open"}, SyncFrame,
         NEW n \in Names, NEW i \in Inodes, <<n, i>> \in listing, listing' = listing \ {<<n, i>>},
         pc' = "entries", UNCHANGED <<handle, after, cur>>, Pending(Due, dir)
  PROVE  WatchInv(Due)'
  BY EntryWatched

\* A directory that is in sync lists its files where they are.
LEMMA ListedThere ==
  ASSUME NEW Due, FileInv, Known, WatchInv(Due), Running, NEW n \in Names, NEW i \in Inodes,
         <<n, i>> \in listing, ~Pending(Due, dir)
  PROVE  entry[n] = i
<1>1. Syncing /\ dir \in Dirs
  BY DEF FileInv, Position, Syncing, Types, ControlOK
<1>2. SyncCurrent
  BY <1>1 DEF WatchInv, CurrentOrPending
<1>3. n \in NamesIn(dir)
  BY DEF Known, RightDirectory, NamesIn
<1> QED
  BY <1>2, <1>3 DEF SyncCurrent

LEMMA SyncEntryWatched ==
  ASSUME NEW Due, FileInv, Known, WatchInv(Due), SyncEntry
  PROVE  WatchInv(Due)'
<1>1. PICK e \in listing :
        \/ \E h \in Handles : AlreadyWatched(e[1], e[2], h) \/ FollowRenamed(e[1], e[2], h)
        \/ OpenNew(e[1], e[2])
        \/ OpenFindsNothing(e[1], e[2])
  BY DEF SyncEntry
<1> DEFINE n == e[1]
           i == e[2]
<1>2. n \in Names /\ i \in Inodes /\ <<n, i>> \in listing
  BY DEF FileInv, Types, FilesOK
<1>3. pc = "entries" /\ SyncFrame /\ cur = None /\ Syncing
  BY DEF SyncEntry, SyncFrame, FileInv, Position
<1>4. None \notin Handles /\ None \notin Inodes
  BY Distinct
<1>5. ~Pending(Due, dir) => entry[n] = i
  BY <1>2, <1>3, ListedThere DEF Running
<1> HIDE DEF n, i
<1>6. ASSUME NEW h \in Handles, AlreadyWatched(n, i, h) PROVE WatchInv(Due)'
  BY <1>2, <1>3, <1>5, <1>6, KeepEntryWatched DEF AlreadyWatched, SameFile
<1>7. ASSUME NEW h \in Handles, FollowRenamed(n, i, h) PROVE WatchInv(Due)'
  <2>1. h \in HandlesIn(watched) /\ handle[h].inode = i
    BY <1>7 DEF FollowRenamed, SameFile
  <2>2. \A m \in Names : m # n /\ ~Pending(Due, DirOf[m]) => entry[m] # i
    BY <1>2, <1>3 DEF WatchInv, MovedIsPending, Running
  <2> QED
    BY <1>2, <1>3, <1>5, <1>7, <2>1, <2>2, RenameEntryWatched DEF FollowRenamed
<1>8. ASSUME OpenNew(n, i) PROVE WatchInv(Due)'
  <2>0. entry[n] \in Inodes
    BY <1>2, <1>8 DEF OpenNew, FileInv, Types, FileSystemOK
  <2>1. PICK pos \in Nat : pos = IF readall THEN 0 ELSE Len(content[entry[n]])
    <3>1. Len(content[entry[n]]) \in Nat
      BY <2>0 DEF FileInv, Types, FileSystemOK
    <3> QED
      BY <3>1
  <2>2. PICK h \in Unused : handle' = [handle EXCEPT ![h] = JustOpened(n, pos)] /\ cur' = h
    BY <1>8, <2>1 DEF OpenNew, JustOpened
  <2>3. pc' = "read" /\ listing' = listing \ {<<n, i>>} /\ after' = after
    BY <1>8 DEF OpenNew
  <2> QED
    BY <1>2, <1>3, <2>2, <2>3, OpenEntryWatched
<1>9. ASSUME OpenFindsNothing(n, i) PROVE WatchInv(Due)'
  <2>1. /\ handle' = handle /\ after' = after /\ cur' = cur /\ pc' = "entries"
        /\ listing' = listing \ {<<n, i>>}
    BY <1>3, <1>9 DEF OpenFindsNothing
  <2>2. Pending(Due, dir)
    BY <1>2, <1>4, <1>5, <1>9 DEF OpenFindsNothing
  <2> QED
    BY <1>2, <1>3, <2>1, <2>2, DropEntryWatched
<1> QED
  BY <1>1, <1>6, <1>7, <1>8, <1>9 DEF n, i

LEMMA FinishSyncWatched ==
  ASSUME NEW Due, FileInv, WatchInv(Due), FinishSync
  PROVE  WatchInv(Due)'
<1>1. /\ Syncing /\ Running /\ cur = None /\ toStat = {} /\ listing = {} /\ dirsLeft' = dirsLeft
      /\ entry' = entry /\ watched' = after /\ dir' = NoDir /\ cur' = None /\ listing' = {}
      /\ handle' = Close(Unwatched)
  BY DEF FinishSync, fsVars, readVars, FileInv, Position, Running
<1>2. /\ ~Syncing' /\ pc' \in {"sync", "files", "loop"} /\ (pc' = "loop" => dirsLeft = <<>>)
      /\ \A d : Pending(Due, d)' <=> Pending(Due, d)
  BY <1>1 DEF FinishSync, Syncing, Pending
<1>3. ASSUME NEW n \in Names, after[n] # None
      PROVE  /\ after[n] \in Handles /\ handle[after[n]].inode \in Inodes
             /\ handle'[after[n]] = handle[after[n]]
  <2>1. after[n] \in HandlesIn(after) /\ after[n] \in Handles
    BY <1>3 DEF HandlesIn, FileInv, Types, FilesOK
  <2>2. handle[after[n]].open /\ handle[after[n]] \in Opened \cup {Closed}
    BY <2>1 DEF FileInv, Types, FilesOK, Custody, OpenHandles
  <2>3. ~Closed.open
    BY DEF Closed
  <2>4. handle[after[n]].inode \in Inodes
    BY <2>2, <2>3 DEF Opened
  <2> QED
    BY <1>1, <2>1, <2>4 DEF Close, Unwatched
<1>4. ASSUME NEW d \in Dirs, ~Pending(Due, d), NEW n \in NamesIn(d)
      PROVE  IF n \in Matching /\ entry[n] # None
               THEN /\ after[n] # None
                    /\ handle'[after[n]].inode = entry[n]
                    /\ handle'[after[n]].name = n
               ELSE after[n] = None
  <2>1. n \in Names /\ DirOf[n] = d
    BY <1>4 DEF NamesIn
  <2>2. CASE d = dir
    <3>1. SyncCurrent
      BY <1>1, <1>4, <2>2 DEF WatchInv, CurrentOrPending
    <3>2. /\ after[n] # None =>
               n \in Matching /\ handle[after[n]].inode = entry[n] /\ handle[after[n]].name = n
          /\ n \in Matching /\ entry[n] # None => after[n] # None
      BY <1>1, <1>4, <2>2, <3>1 DEF SyncCurrent
    <3>3. after[n] # None => entry[n] # None
      BY <1>3, <2>1, <3>2, Distinct
    <3> QED
      BY <1>3, <2>1, <3>2, <3>3
  <2>3. CASE d # dir
    <3>1. DirCurrent(d) /\ after[n] = watched[n]
      BY <1>1, <1>4, <2>1, <2>3 DEF WatchInv, CurrentOrPending, OneSync
    <3> QED
      BY <1>3, <1>4, <2>1, <3>1 DEF DirCurrent
  <2> QED
    BY <2>2, <2>3
<1>5. CurrentOrPending(Due)'
  BY <1>1, <1>2, <1>4 DEF CurrentOrPending, DirCurrent
<1>6. MovedIsPending(Due)' /\ OneSync'
  BY <1>1, <1>2 DEF MovedIsPending, OneSync
<1> QED
  BY <1>5, <1>6 DEF WatchInv

\* In a sync the file that was read gets its key.
LEMMA ReturnWatched ==
  ASSUME NEW Due, FileInv, Known, WatchInv(Due), ReturnToCaller, cur # None,
         UNCHANGED <<fsVars, mapVars, task, dirsLeft, dir, toStat, listing>>
  PROVE  WatchInv(Due)'
<1> USE DEF fsVars, mapVars
<1>1. /\ cur \in Handles /\ cur' = None /\ Running /\ pc' \in {"entries", "loop", "files"} /\ Running'
      /\ (Syncing' <=> Syncing) /\ \A d : Pending(Due, d)' <=> Pending(Due, d)
  BY DEF ReturnToCaller, FileInv, Types, FilesOK, Position, Running, Syncing, Pending
<1>2. CASE ~Syncing
  <2>1. after' = after
    BY <1>2 DEF ReturnToCaller
  <2>2. pc' = "loop" => dirsLeft' = <<>>
    BY <1>2 DEF WatchInv, OneSync, FileInv, Position
  <2> QED
    BY <1>1, <1>2, <2>1, <2>2, WatchKept DEF SameFiles
<1>3. CASE Syncing
  <2> DEFINE n == handle[cur].name
  <2>1. /\ n \in Names /\ after[n] = None /\ after \in [Names -> Handles \cup {None}]
        /\ \A i \in Inodes : <<n, i>> \notin listing
        /\ toStat = {}
    BY <1>3 DEF FileInv, Types, FilesOK, OnePlace, Position
  <2>2. after'[n] = cur /\ \A m \in Names : m # n => after'[m] = after[m]
    BY <1>3, <2>1 DEF ReturnToCaller
  <2> HIDE DEF n
  <2>3. SyncCurrent => SyncCurrent'
    <3>1. ASSUME SyncCurrent, NEW m \in NamesIn(dir), m # n
          PROVE  /\ after'[m] = after[m]
                 /\ handle[cur].name # m
      BY <2>2, <3>1 DEF NamesIn, n
    <3>2. ASSUME SyncCurrent, n \in NamesIn(dir)
          PROVE  n \in Matching /\ handle[cur].inode = entry[n] /\ handle[cur].name = n
      BY <3>2 DEF SyncCurrent, n
    <3>3. ASSUME SyncCurrent, NEW m \in NamesIn(dir)
          PROVE  /\ after'[m] # None =>
                      m \in Matching /\ handle[after'[m]].inode = entry[m] /\ handle[after'[m]].name = m
                 /\ m \in Matching /\ entry[m] # None =>
                      \/ \E i \in Inodes : <<m, i>> \in listing
                      \/ after'[m] # None
      <4>1. CASE m = n
        BY <1>1, <2>2, <3>2, <3>3, <4>1
      <4>2. CASE m # n
        BY <2>1, <3>1, <3>3, <4>2 DEF SyncCurrent
      <4> QED
        BY <4>1, <4>2
    <3> QED
      BY <1>1, <2>1, <3>3 DEF SyncCurrent
  <2>4. \A d : DirCurrent(d) => DirCurrent(d)'
    BY DEF DirCurrent
  <2>5. CurrentOrPending(Due)'
    BY <1>1, <2>3, <2>4 DEF WatchInv, CurrentOrPending
  <2>6. MovedIsPending(Due)'
    BY <1>1 DEF WatchInv, MovedIsPending
  <2>7. DirOf[n] = dir /\ pc' = "entries"
    BY <1>3 DEF Known, RightDirectory, ReturnToCaller, n
  <2>8. OneSync'
    BY <1>1, <1>3, <2>2, <2>7 DEF WatchInv, OneSync
  <2> QED
    BY <2>5, <2>6, <2>8 DEF WatchInv
<1> QED
  BY <1>2, <1>3

LEMMA GoroutineWatched ==
  ASSUME NEW Due, FileInv, Known, WatchInv(Due), Goroutine
  PROVE  WatchInv(Due)'
<1> USE DEF syncVars, mapVars, fsVars, readVars
<1>1. CASE StartSync
  BY <1>1, ListNextWatched DEF StartSync
<1>2. CASE ListFails
  BY <1>2 DEF ListFails, WatchInv, CurrentOrPending, MovedIsPending, OneSync, Running, Syncing
<1>3. CASE \E n \in Names : LstatEntry(n)
  BY <1>3, LstatEntryWatched
<1>4. CASE SyncEntry
  BY <1>4, SyncEntryWatched
<1>5. CASE FinishSync
  BY <1>5, FinishSyncWatched
<1>6. CASE ReadBuffered \/ ReadChunk
  <2>1. /\ UNCHANGED <<entry, watched, dir, toStat, listing, after, cur, dirsLeft>>
        /\ pc = "read" /\ pc' \in {"read", "send"}
    BY <1>6 DEF ReadBuffered, ReadChunk, ReadOn
  <2>2. SameFiles
    BY <1>6, ReadKeepsFiles
  <2>3. \A d : Pending(Due, d)' <=> Pending(Due, d)
    BY <2>1 DEF Pending
  <2>4. (Running' => Running) /\ (pc' \in {"read", "send"} /\ ~Syncing => dirsLeft' = <<>>)
    BY <2>1 DEF WatchInv, OneSync, Running
  <2> QED
    BY <2>1, <2>2, <2>3, <2>4, WatchKept
<1>7. CASE ReadEOF \/ SendAborted
  <2>1. cur # None
    BY <1>7 DEF ReadEOF, SendAborted, FileInv, Position
  <2> QED
    BY <1>7, <2>1, ReturnWatched DEF ReadEOF, SendAborted
<1>8. CASE SendLine
  <2>1. /\ UNCHANGED <<entry, watched, dir, toStat, listing, after, cur, dirsLeft, handle>>
        /\ pc = "send" /\ pc' = "read"
    BY <1>8 DEF SendLine
  <2>2. \A d : Pending(Due, d)' <=> Pending(Due, d)
    BY <2>1 DEF Pending
  <2>3. (Running' => Running) /\ (~Syncing => dirsLeft' = <<>>)
    BY <2>1 DEF WatchInv, OneSync, Running
  <2> QED
    BY <2>1, <2>2, <2>3, WatchKept DEF SameFiles
<1>9. CASE Shutdown
  <2>1. ~Syncing
    BY <1>9 DEF Shutdown, FileInv, Position
  <2> QED
    BY <1>9, <2>1 DEF Shutdown, WatchInv, CurrentOrPending, MovedIsPending, OneSync, Running, Syncing
<1> QED
  BY <1>1, <1>2, <1>3, <1>4, <1>5, <1>6, <1>7, <1>8, <1>9 DEF Goroutine, ReadNewLines

-----------------------------------------------------------------------------
(* What is unread.  Each watcher says which events tell of it.              *)

LEMMA OpenIsOpened ==
  ASSUME FileInv, NEW h \in OpenHandles
  PROVE  h \in Handles /\ handle[h] \in Opened
<1>1. handle[h] \in Opened \cup {Closed}
  BY DEF FileInv, Types, FilesOK, OpenHandles
<1>2. handle[h].open /\ ~Closed.open
  BY DEF OpenHandles, Closed
<1> QED
  BY <1>1, <1>2 DEF OpenHandles

LEMMA ReaderTypes ==
  ASSUME FileInv, NEW h \in OpenHandles
  PROVE  /\ handle[h].inode \in Inodes /\ handle[h].pos \in Nat /\ handle[h].buf \in Seq(Piece)
         /\ Len(content[handle[h].inode]) \in Nat
<1>1. handle[h] \in Opened
  BY OpenIsOpened
<1>2. /\ handle[h].inode \in Inodes /\ handle[h].pos \in 0 .. MaxPieces /\ handle[h].buf \in Seq(Piece)
  BY <1>1 DEF Opened
<1>3. content[handle[h].inode] \in Seq(BOOLEAN)
  BY <1>2 DEF FileInv, Types, FileSystemOK
<1> QED
  BY <1>2, <1>3, ConstantsAssumption

\* What a sync does not look for.
Lost(i) == {"renamed", "truncated"} \subseteq history[i]

\* A file that was never renamed is where it was listed and opened.
NameKept ==
  \A i \in Inodes : "renamed" \notin history[i] =>
    \A n \in Names : entry[n] = i \/ <<n, i>> \in listing =>
      /\ \A h \in Readers(i) : handle[h].name = n
      /\ \A m \in Names : entry[m] = i \/ <<m, i>> \in listing => m = n

\* A file that was never renamed gets no second path and no second name.
LEMMA NamesStill ==
  ASSUME NameKept,
         \A i \in Inodes : "renamed" \notin history'[i] =>
           /\ "renamed" \notin history[i]
           /\ \A n \in Names : entry'[n] = i \/ <<n, i>> \in listing' => entry[n] = i \/ <<n, i>> \in listing
           /\ \A h \in Readers(i)' : h \in Readers(i) /\ handle'[h].name = handle[h].name
  PROVE  NameKept'
  BY DEF NameKept

\* The names of the files, and those that are open under them, stay; what is listed is
\* where it was listed.
LEMMA NothingRenamed ==
  ASSUME NameKept, SameFiles, UNCHANGED <<entry, history>>,
         \A n \in Names, i \in Inodes : <<n, i>> \in listing' => <<n, i>> \in listing \/ entry[n] = i
  PROVE  NameKept'
<1>1. \A i \in Inodes : Readers(i)' = Readers(i) /\ Readers(i) \subseteq Handles
  BY SameReaders DEF Readers, OpenHandles
<1> QED
  BY <1>1, NamesStill DEF SameFiles

\* A file that is found at another path was renamed.
LEMMA RenamedKeepsNames ==
  ASSUME FileInv, NameKept, NEW n \in Names, NEW h \in OpenHandles, handle[h].name # n,
         handle' = [handle EXCEPT ![h].name = n], NEW j \in Inodes, handle[h].inode = j,
         entry[n] = j \/ <<n, j>> \in listing, UNCHANGED <<entry, history>>, listing' \subseteq listing
  PROVE  NameKept' /\ "renamed" \in history[j]
<1>1. h \in Readers(j) /\ h \in Handles
  BY DEF Readers, OpenHandles
<1>2. "renamed" \in history[j]
  BY <1>1 DEF NameKept
<1>3. /\ handle'[h].inode = j /\ \A g \in Handles : g # h => handle'[g] = handle[g]
      /\ OpenHandles' = OpenHandles /\ OpenHandles \subseteq Handles
  BY RenamedFile DEF OpenHandles
<1>4. ASSUME NEW k \in Inodes, k # j, NEW g \in Readers(k)'
      PROVE  g \in Readers(k) /\ handle'[g].name = handle[g].name
  BY <1>3, <1>4 DEF Readers
<1>5. NameKept'
  BY <1>2, <1>4, NamesStill
<1> QED
  BY <1>2, <1>5

LEMMA OpenedKeepsNames ==
  ASSUME FileInv, NameKept, NEW n \in Names, entry[n] # None, NEW u \in Unused, NEW pos \in Nat,
         handle' = [handle EXCEPT ![u] = JustOpened(n, pos)],
         UNCHANGED <<entry, history>>, listing' \subseteq listing
  PROVE  NameKept'
<1>1. PICK j \in Inodes : j = entry[n]
  BY DEF FileInv, Types, FileSystemOK
<1>2. /\ u \in Handles /\ handle'[u] = JustOpened(n, pos)
      /\ \A g \in Handles : g # u => handle'[g] = handle[g]
  BY OpenedFile
<1>3. /\ u \in Handles /\ handle'[u].inode = j /\ handle'[u].name = n /\ handle'[u].open
      /\ \A g \in Handles : g # u => handle'[g] = handle[g]
  BY <1>1, <1>2 DEF JustOpened
<1>4. ASSUME NEW k \in Inodes, NEW g \in Readers(k)', g # u
      PROVE  g \in Readers(k) /\ handle'[g].name = handle[g].name
  BY <1>3, <1>4 DEF Readers, OpenHandles
<1>5. u \in Readers(j)' /\ \A k \in Inodes : u \in Readers(k)' => k = j
  BY <1>3 DEF Readers, OpenHandles
<1>7. ASSUME NEW k \in Inodes, "renamed" \notin history'[k], NEW m \in Names,
             entry'[m] = k \/ <<m, k>> \in listing'
      PROVE  /\ \A g \in Readers(k)' : handle'[g].name = m
             /\ \A p \in Names : entry'[p] = k \/ <<p, k>> \in listing' => p = m
  <2>1. "renamed" \notin history[k] /\ (entry[m] = k \/ <<m, k>> \in listing)
    BY <1>7
  <2>2. /\ \A g \in Readers(k) : handle[g].name = m
        /\ \A p \in Names : entry[p] = k \/ <<p, k>> \in listing => p = m
    BY <2>1 DEF NameKept
  <2>3. k = j => n = m
    BY <1>1, <2>2
  <2>4. ASSUME NEW g \in Readers(k)' PROVE handle'[g].name = m
    BY <1>3, <1>4, <1>5, <2>2, <2>3
  <2> QED
    BY <2>2, <2>4
<1> QED
  BY <1>7 DEF NameKept

LEMMA FileSystemKeepsNames ==
  ASSUME FileInv, Known, NameKept, UNCHANGED tailerVars,
         \/ \E n \in Names : CreateFile(n) \/ DeleteFile(n) \/ TruncateFile(n)
         \/ \E n \in Names, endsLine \in BOOLEAN : AppendPiece(n, endsLine)
         \/ \E m, n \in Names, marks \in SUBSET Past : RenameFile(m, n, marks)
         \/ \E d \in Dirs : RemoveDir(d)
  PROVE  NameKept'
<1>1. /\ entry \in [Names -> Inodes \cup {None}] /\ history \in [Inodes -> SUBSET Past]
      /\ handle' = handle /\ listing' = listing /\ \A i : Readers(i)' = Readers(i)
  BY DEF FileInv, Types, FileSystemOK, tailerVars, mapVars, syncVars, Readers, OpenHandles
<1>2. ASSUME NEW n \in Names, CreateFile(n) PROVE NameKept'
  <2>1. PICK j \in fresh : entry' = [entry EXCEPT ![n] = j] /\ history' = history
    BY <1>2 DEF CreateFile
  <2>2. Readers(j) = {} /\ \A m \in Names : entry[m] # j /\ <<m, j>> \notin listing
    BY <2>1 DEF Known, Paths
  <2>3. \A m \in Names : entry'[m] = IF m = n THEN j ELSE entry[m]
    BY <1>1, <2>1
  <2> QED
    BY <1>1, <2>1, <2>2, <2>3 DEF NameKept
<1>3. ASSUME NEW n \in Names, DeleteFile(n) PROVE NameKept'
  <2>1. \A m \in Names : entry'[m] = entry[m] \/ entry'[m] = None
    BY <1>1, <1>3 DEF DeleteFile
  <2> QED
    BY <1>1, <1>3, <2>1, NamesStill, Distinct DEF DeleteFile
<1>4. ASSUME NEW m \in Names, NEW n \in Names, NEW marks \in SUBSET Past, RenameFile(m, n, marks) PROVE NameKept'
  <2>1. PICK j \in Inodes : j = entry[m]
    BY <1>1, <1>4 DEF RenameFile
  <2>2. \A p \in Names : entry'[p] = entry[p] \/ entry'[p] = None \/ entry'[p] = j
    BY <1>1, <1>4, <2>1 DEF RenameFile
  <2>3. "renamed" \in history'[j] /\ \A i \in Inodes : history[i] \subseteq history'[i]
    BY <1>1, <1>4, <2>1 DEF RenameFile
  <2> QED
    BY <1>1, <2>2, <2>3, NamesStill, Distinct
<1>5. ASSUME NEW n \in Names, TruncateFile(n) PROVE NameKept'
  <2>1. \A i \in Inodes : history[i] \subseteq history'[i]
    BY <1>1, <1>5 DEF TruncateFile
  <2> QED
    BY <1>1, <1>5, <2>1, NamesStill DEF TruncateFile
<1>6. ASSUME UNCHANGED <<entry, history>> PROVE NameKept'
  BY <1>1, <1>6, NamesStill
<1> QED
  BY <1>2, <1>3, <1>4, <1>5, <1>6 DEF AppendPiece, RemoveDir

LEMMA StepKeepsNames == ASSUME FileInv, NameKept, Goroutine \/ ListNext PROVE NameKept'
<1> USE DEF fsVars, mapVars, syncVars, readVars
<1>1. /\ FileInv /\ handle \in [Handles -> Opened \cup {Closed}]
      /\ entry \in [Names -> Inodes \cup {None}]
  BY DEF FileInv, Types, FilesOK, FileSystemOK
<1>2. ASSUME UNCHANGED <<entry, history>>, SameFiles,
             \A n \in Names, i \in Inodes : <<n, i>> \in listing' => <<n, i>> \in listing \/ entry[n] = i
      PROVE  NameKept'
  BY <1>2, NothingRenamed
<1>3. CASE StartSync \/ ListNext \/ ListFails \/ (\E n \in Names : LstatEntry(n))
  BY <1>2, <1>3 DEF StartSync, ListNext, ListFails, LstatEntry, SameFiles
<1>4. CASE ReadEOF \/ SendLine \/ SendAborted
  BY <1>2, <1>4 DEF ReadEOF, SendLine, SendAborted, SameFiles
<1>5. CASE ReadBuffered \/ ReadChunk
  BY <1>1, <1>2, <1>5, ReadKeepsFiles DEF ReadBuffered, ReadChunk
<1>6. ASSUME UNCHANGED <<entry, history, listing>>, NEW hs, handle' = Close(hs) PROVE NameKept'
  <2>1. ASSUME NEW i \in Inodes, NEW h \in Readers(i)'
        PROVE  h \in Readers(i) /\ handle'[h].name = handle[h].name
    <3>1. h \in Handles /\ handle'[h].inode = i
      BY <2>1 DEF Readers, OpenHandles
    <3>2. Closed.inode # i
      BY Distinct DEF Closed
    <3>3. handle'[h] = handle[h]
      BY <1>6, <3>1, <3>2 DEF Close
    <3> QED
      BY <2>1, <3>3 DEF Readers, OpenHandles
  <2> QED
    BY <1>6, <2>1, NamesStill
<1>7. CASE FinishSync \/ Shutdown
  BY <1>6, <1>7 DEF FinishSync, Shutdown
<1>8. CASE SyncEntry
  <2>1. PICK e \in listing :
          \/ \E h \in Handles : AlreadyWatched(e[1], e[2], h) \/ FollowRenamed(e[1], e[2], h)
          \/ OpenNew(e[1], e[2])
          \/ OpenFindsNothing(e[1], e[2])
    BY <1>8 DEF SyncEntry
  <2>2. PICK n \in Names, i \in Inodes : n = e[1] /\ i = e[2] /\ <<n, i>> \in listing
    <3>1. e[1] \in Names /\ e[2] \in Inodes /\ <<e[1], e[2]>> \in listing
      BY <1>1 DEF FileInv, Types, FilesOK
    <3> QED
      BY <3>1
  <2>3. UNCHANGED <<entry, history>>
    BY <1>8 DEF SyncEntry
  <2>4. CASE (\E h \in Handles : AlreadyWatched(n, i, h)) \/ OpenFindsNothing(n, i)
    BY <1>2, <2>3, <2>4 DEF AlreadyWatched, OpenFindsNothing, SameFiles
  <2>5. ASSUME NEW h \in Handles, FollowRenamed(n, i, h) PROVE NameKept'
    <3>1. h \in OpenHandles /\ listing' \subseteq listing /\ handle[h].inode = i
      BY <2>5 DEF FollowRenamed, SameFile, FileInv, Custody
    <3> QED
      BY <2>2, <2>3, <2>5, <3>1, RenamedKeepsNames DEF FollowRenamed
  <2>6. ASSUME OpenNew(n, i) PROVE NameKept'
    <3>1. entry[n] \in Inodes /\ listing' \subseteq listing
      BY <1>1, <2>6 DEF OpenNew
    <3>2. PICK pos \in Nat : pos = IF readall THEN 0 ELSE Len(content[entry[n]])
      <4>1. Len(content[entry[n]]) \in Nat
        BY <3>1 DEF FileInv, Types, FileSystemOK
      <4> QED
        BY <4>1
    <3>3. PICK u \in Unused : handle' = [handle EXCEPT ![u] = JustOpened(n, pos)]
      BY <2>6, <3>2 DEF OpenNew, JustOpened
    <3> QED
      BY <1>1, <2>3, <2>6, <3>1, <3>3, OpenedKeepsNames DEF OpenNew
  <2> QED
    BY <2>1, <2>2, <2>4, <2>5, <2>6
<1> QED
  BY <1>3, <1>4, <1>5, <1>7, <1>8 DEF Goroutine, ReadNewLines

-----------------------------------------------------------------------------
(* How far the files are read.                                              *)

LEMMA ReadOffset ==
  ASSUME FileInv, ReadBuffered \/ ReadChunk
  PROVE  /\ \A h \in Handles : h # cur => handle'[h] = handle[h]
         /\ \/ handle'[cur].pos = handle[cur].pos
            \/ handle'[cur].pos \in Nat /\ handle'[cur].pos <= Len(File)
<1>1. cur \in Handles /\ handle \in [Handles -> Opened \cup {Closed}] /\ handle[cur] \in Opened
  BY ReadingIsOpen DEF FileInv, Position, ReadBuffered, ReadChunk
<1>2. ASSUME NEW p, NEW b, ReadOn(p, b)
      PROVE  /\ handle'[cur].pos = p
             /\ \A h \in Handles : h # cur => handle'[h] = handle[h]
  <2>1. PICK buf : handle' = [handle EXCEPT ![cur].pos = p, ![cur].buf = buf]
    BY <1>2 DEF ReadOn
  <2> DEFINE file == handle[cur]
             new == [file EXCEPT !.pos = p, !.buf = buf]
  <2>2. handle'[cur] = new /\ \A h \in Handles : h # cur => handle'[h] = handle[h]
    BY <1>1, <2>1
  <2>3. file \in Opened
    BY <1>1
  <2> HIDE DEF file
  <2>4. new.pos = p
    BY <2>3 DEF Opened
  <2> QED
    BY <2>2, <2>4
<1>3. CASE ReadBuffered
  BY <1>2, <1>3 DEF ReadBuffered
<1>4. CASE ReadChunk
  <2>1. PICK n, b : /\ n = (IF Len(File) - handle[cur].pos < ChunkPieces THEN Len(File) - handle[cur].pos
                            ELSE ChunkPieces)
                    /\ ReadOn(handle[cur].pos + n, b)
    BY <1>4 DEF ReadChunk
  <2>2. handle[cur].pos \in Nat /\ Len(File) \in Nat /\ ChunkPieces \in Nat
    <3>1. handle[cur].pos \in 0 .. MaxPieces /\ handle[cur].inode \in Inodes
      BY <1>1 DEF Opened
    <3> QED
      BY <3>1, ConstantsAssumption DEF File, FileInv, Types, FileSystemOK
  <2>3. handle[cur].pos < Len(File)
    BY <1>4 DEF ReadChunk
  <2>4. handle[cur].pos + n \in Nat /\ handle[cur].pos + n <= Len(File)
    BY <2>1, <2>2, <2>3
  <2> QED
    BY <1>2, <2>1, <2>4
<1> QED
  BY <1>3, <1>4

LEMMA RewoundOffset ==
  ASSUME FileInv, NEW h \in OpenHandles
  PROVE  LET truncated == handle[h].pos > Len(content[handle[h].inode])
         IN  /\ Rewound(h)[h].pos = IF truncated THEN 0 ELSE handle[h].pos
             /\ Rewound(h)[h].buf = IF truncated THEN <<>> ELSE handle[h].buf
<1>1. h \in Handles /\ handle \in [Handles -> Opened \cup {Closed}] /\ handle[h] \in Opened
  BY OpenIsOpened DEF FileInv, Types, FilesOK
<1> DEFINE file == handle[h]
           new == [file EXCEPT !.pos = 0, !.buf = <<>>]
<1>2. CASE handle[h].pos > Len(content[handle[h].inode])
  <2>1. Rewound(h)[h] = new
    BY <1>1, <1>2 DEF Rewound
  <2>2. file \in Opened
    BY <1>1
  <2> HIDE DEF file
  <2>3. new.pos = 0 /\ new.buf = <<>>
    BY <2>2 DEF Opened
  <2> QED
    BY <1>2, <2>1, <2>3
<1>3. CASE ~(handle[h].pos > Len(content[handle[h].inode]))
  BY <1>3 DEF Rewound
<1> QED
  BY <1>2, <1>3

\* The offset is past the end of a truncated file only.
WithinFiles ==
  \A h \in OpenHandles :
    "truncated" \in history[handle[h].inode] \/ handle[h].pos <= Len(content[handle[h].inode])

LEMMA FileSystemWithin ==
  ASSUME FileInv, WithinFiles, UNCHANGED tailerVars,
         \/ \E n \in Names : CreateFile(n) \/ DeleteFile(n) \/ TruncateFile(n)
         \/ \E n \in Names, endsLine \in BOOLEAN : AppendPiece(n, endsLine)
         \/ \E m, n \in Names, marks \in SUBSET Past : RenameFile(m, n, marks)
         \/ \E d \in Dirs : RemoveDir(d)
  PROVE  WithinFiles'
<1>1. handle' = handle /\ OpenHandles' = OpenHandles
  BY DEF tailerVars, mapVars, OpenHandles
<1>2. /\ entry \in [Names -> Inodes \cup {None}] /\ history \in [Inodes -> SUBSET Past]
      /\ content \in [Inodes -> Seq(BOOLEAN)]
  BY DEF FileInv, Types, FileSystemOK
<1> SUFFICES ASSUME NEW h \in OpenHandles
             PROVE  "truncated" \in history'[handle[h].inode] \/ handle[h].pos <= Len(content'[handle[h].inode])
  BY <1>1 DEF WithinFiles
<1> DEFINE i == handle[h].inode
<1>3. i \in Inodes /\ handle[h].pos \in Nat /\ Len(content[i]) \in Nat
  BY ReaderTypes
<1>4. "truncated" \in history[i] \/ handle[h].pos <= Len(content[i])
  BY DEF WithinFiles
<1> HIDE DEF i
<1>5. ASSUME history[i] \subseteq history'[i], content'[i] = content[i]
      PROVE  "truncated" \in history'[i] \/ handle[h].pos <= Len(content'[i])
  BY <1>4, <1>5
<1>6. CASE \E n \in Names : CreateFile(n) \/ DeleteFile(n)
  BY <1>5, <1>6 DEF CreateFile, DeleteFile, i
<1>7. ASSUME NEW n \in Names, TruncateFile(n)
      PROVE  "truncated" \in history'[i] \/ handle[h].pos <= Len(content'[i])
  <2>1. CASE entry[n] = i
    BY <1>2, <1>3, <1>7, <2>1 DEF TruncateFile
  <2>2. CASE entry[n] # i
    BY <1>2, <1>3, <1>5, <1>7, <2>2 DEF TruncateFile
  <2> QED
    BY <2>1, <2>2
<1>8. ASSUME NEW n \in Names, NEW endsLine \in BOOLEAN, AppendPiece(n, endsLine)
      PROVE  "truncated" \in history'[i] \/ handle[h].pos <= Len(content'[i])
  <2>1. CASE entry[n] = i
    <3>1. Len(content'[i]) = Len(content[i]) + 1 /\ history' = history
      BY <1>2, <1>3, <1>8, <2>1 DEF AppendPiece
    <3> QED
      BY <1>3, <1>4, <3>1
  <2>2. CASE entry[n] # i
    BY <1>2, <1>3, <1>5, <1>8, <2>2 DEF AppendPiece
  <2> QED
    BY <2>1, <2>2
<1>9. ASSUME NEW m \in Names, NEW n \in Names, NEW marks \in SUBSET Past, RenameFile(m, n, marks)
      PROVE  "truncated" \in history'[i] \/ handle[h].pos <= Len(content'[i])
  <2>1. history[i] \subseteq history'[i]
    BY <1>2, <1>3, <1>9 DEF RenameFile
  <2> QED
    BY <1>5, <1>9, <2>1 DEF RenameFile
<1>10. CASE \E d \in Dirs : RemoveDir(d)
  <2>1. content' = content /\ history' = history
    BY <1>10 DEF RemoveDir
  <2> QED
    BY <1>4, <2>1 DEF i
<1> QED
  BY <1>6, <1>7, <1>8, <1>9, <1>10 DEF i

\* Offsets move to what the file has, or stay.
LEMMA StaysWithin ==
  ASSUME WithinFiles, UNCHANGED fsVars,
         \A h \in Handles : handle'[h].open =>
           \/ handle'[h].pos <= Len(content[handle'[h].inode])
           \/ /\ handle[h].open /\ handle'[h].inode = handle[h].inode
              /\ handle'[h].pos = handle[h].pos
  PROVE  WithinFiles'
  BY DEF WithinFiles, OpenHandles, fsVars

\* Of a step of the goroutine: an open file keeps its offset, or is read up to
\* what it has, or is new at an offset that it has.
LEMMA RenamedWithin ==
  ASSUME FileInv, WithinFiles, NEW n \in Names, NEW h \in OpenHandles,
         handle' = [handle EXCEPT ![h].name = n], UNCHANGED fsVars
  PROVE  WithinFiles'
<1>1. /\ handle'[h].open = handle[h].open /\ handle'[h].inode = handle[h].inode /\ handle'[h].pos = handle[h].pos
      /\ \A g \in Handles : g # h => handle'[g] = handle[g]
  BY RenamedFile
<1> QED
  BY <1>1, StaysWithin

LEMMA OpenedWithin ==
  ASSUME FileInv, WithinFiles, NEW n \in Names, NEW u \in Unused, NEW pos \in 0 .. Len(content[entry[n]]),
         Len(content[entry[n]]) \in Nat, handle' = [handle EXCEPT ![u] = JustOpened(n, pos)], UNCHANGED fsVars
  PROVE  WithinFiles'
<1>1. pos \in Nat /\ pos <= Len(content[entry[n]])
  OBVIOUS
<1>2. handle'[u] = JustOpened(n, pos) /\ \A g \in Handles : g # u => handle'[g] = handle[g]
  BY <1>1, OpenedFile
<1>3. handle'[u].inode = entry[n] /\ handle'[u].pos = pos
  BY <1>2 DEF JustOpened
<1> QED
  BY <1>1, <1>2, <1>3, StaysWithin

LEMMA StepWithin ==
  ASSUME FileInv, WithinFiles, Goroutine \/ ListNext
  PROVE  WithinFiles'
<1> USE DEF mapVars, syncVars, readVars
<1>1. UNCHANGED fsVars
  BY DEF Goroutine, StartSync, ListNext, ListFails, LstatEntry, SyncEntry, FinishSync, ReadNewLines,
     ReadBuffered, ReadChunk, ReadEOF, SendLine, SendAborted, Shutdown
<1>2. /\ handle \in [Handles -> Opened \cup {Closed}] /\ entry \in [Names -> Inodes \cup {None}]
      /\ content \in [Inodes -> Seq(BOOLEAN)] /\ ~Closed.open
  BY DEF FileInv, Types, FilesOK, FileSystemOK, Closed
<1> DEFINE Stays(h) == /\ handle[h].open /\ handle'[h].inode = handle[h].inode
                       /\ handle'[h].pos = handle[h].pos
           Within(h) == handle'[h].pos <= Len(content[handle'[h].inode])
<1>0. ASSUME \A h \in Handles : handle'[h].open => Within(h) \/ Stays(h) PROVE WithinFiles'
  BY <1>0, <1>1, StaysWithin
<1>3. ASSUME NEW h \in Handles, handle'[h].open, handle'[h] = handle[h] PROVE Stays(h)
  BY <1>3
<1> HIDE DEF Stays, Within
<1>4. CASE StartSync \/ ListNext \/ ListFails \/ (\E n \in Names : LstatEntry(n))
  BY <1>0, <1>3, <1>4 DEF StartSync, ListNext, ListFails, LstatEntry
<1>5. CASE ReadEOF \/ SendLine \/ SendAborted
  BY <1>0, <1>3, <1>5 DEF ReadEOF, SendLine, SendAborted
<1>6. CASE ReadBuffered \/ ReadChunk
  <2> SUFFICES ASSUME NEW h \in Handles, handle'[h].open PROVE Within(h) \/ Stays(h)
    BY <1>0
  <2>1. handle[h].open /\ handle'[h].inode = handle[h].inode
    BY <1>6, ReadKeepsFiles DEF SameFiles
  <2>2. CASE h # cur
    BY <1>3, <1>6, <2>2, ReadOffset
  <2>3. CASE h = cur
    <3>1. handle'[h].pos = handle[h].pos \/ handle'[h].pos <= Len(content[handle[h].inode])
      BY <1>6, <2>3, ReadOffset DEF File
    <3> QED
      BY <2>1, <3>1 DEF Stays, Within
  <2> QED
    BY <2>2, <2>3
<1>7. CASE FinishSync \/ Shutdown
  <2> SUFFICES ASSUME NEW h \in Handles, handle'[h].open PROVE Within(h) \/ Stays(h)
    BY <1>0
  <2>1. PICK hs : handle' = Close(hs)
    BY <1>7 DEF FinishSync, Shutdown
  <2>2. handle'[h] = handle[h]
    BY <1>2, <2>1 DEF Close
  <2> QED
    BY <1>3, <2>2
<1>8. CASE SyncEntry
  <2>1. PICK e \in listing :
          \/ \E g \in Handles : AlreadyWatched(e[1], e[2], g) \/ FollowRenamed(e[1], e[2], g)
          \/ OpenNew(e[1], e[2])
          \/ OpenFindsNothing(e[1], e[2])
    BY <1>8 DEF SyncEntry
  <2>2. e[1] \in Names /\ e[2] \in Inodes
    BY DEF FileInv, Types, FilesOK
  <2>3. CASE (\E g \in Handles : AlreadyWatched(e[1], e[2], g)) \/ OpenFindsNothing(e[1], e[2])
    BY <1>0, <1>3, <2>3 DEF AlreadyWatched, OpenFindsNothing
  <2>4. ASSUME NEW g \in Handles, FollowRenamed(e[1], e[2], g) PROVE WithinFiles'
    <3>1. g \in OpenHandles
      BY <2>4 DEF FollowRenamed, SameFile, FileInv, Custody
    <3> QED
      BY <1>1, <2>2, <2>4, <3>1, RenamedWithin DEF FollowRenamed
  <2>5. ASSUME OpenNew(e[1], e[2]) PROVE WithinFiles'
    <3> DEFINE end == Len(content[entry[e[1]]])
    <3>1. end \in Nat
      BY <1>2, <2>2, <2>5 DEF OpenNew
    <3> HIDE DEF end
    <3>2. PICK pos \in 0 .. end : pos = IF readall THEN 0 ELSE end
      BY <3>1
    <3>3. PICK u \in Unused : handle' = [handle EXCEPT ![u] = JustOpened(e[1], pos)]
      BY <2>5, <3>2 DEF OpenNew, JustOpened, end
    <3> QED
      BY <1>1, <2>2, <3>1, <3>3, OpenedWithin DEF end
  <2> QED
    BY <2>1, <2>3, <2>4, <2>5
<1> QED
  BY <1>4, <1>5, <1>6, <1>7, <1>8 DEF Goroutine, ReadNewLines

-----------------------------------------------------------------------------
(* What is read although no event tells of it.  The events bear paths.      *)

\* No event has to tell of the file of h: it is at another path, read to its end
\* or being read; or it was both renamed and truncated, or came back.
NeedsNoEvent(h) ==
  LET file == handle[h]
      past == history[file.inode]
  IN  \/ Lost(file.inode) \/ "back" \in past
      \/ entry[file.name] # file.inode
      \/ file.pos <= Len(content[file.inode]) /\ (cur = h \/ ReadToEnd(h))

LEMMA NeedsNothingStill ==
  ASSUME NEW h, NeedsNoEvent(h), handle'[h] = handle[h], UNCHANGED fsVars, cur' = h <=> cur = h
  PROVE  NeedsNoEvent(h)'
  BY DEF NeedsNoEvent, Lost, ReadToEnd, fsVars

\* Other processes: a file comes to need an event only by what is written to it, or
\* cut off, at the path that the tailer has it under.
LEMMA OthersNeedNothing ==
  ASSUME FileInv, Known, UNCHANGED tailerVars, NEW h \in OpenHandles, NeedsNoEvent(h),
         \/ \E n \in Names : CreateFile(n) \/ DeleteFile(n)
         \/ \E n \in Names \ {handle[h].name} :
              TruncateFile(n) \/ \E endsLine \in BOOLEAN : AppendPiece(n, endsLine)
         \/ \E m, n \in Names, marks \in SUBSET Past : RenameFile(m, n, marks)
         \/ \E d \in Dirs : RemoveDir(d)
  PROVE  NeedsNoEvent(h)'
<1> DEFINE i == handle[h].inode
           n == handle[h].name
<1>1. /\ entry \in [Names -> Inodes \cup {None}] /\ history \in [Inodes -> SUBSET Past]
      /\ content \in [Inodes -> Seq(BOOLEAN)] /\ fresh \subseteq Inodes
  BY DEF FileInv, Types, FileSystemOK
<1>2. i \in Inodes /\ i # None /\ n \in Names /\ h \in Handles /\ h \in Readers(i)
  <2>1. h \in Handles /\ handle[h] \in Opened
    BY OpenIsOpened
  <2> QED
    BY <2>1, Distinct DEF Opened, Readers
<1>3. handle' = handle /\ cur' = cur
  BY DEF tailerVars, mapVars, readVars
<1> HIDE DEF i, n
<1>4. ASSUME entry'[n] # i PROVE NeedsNoEvent(h)'
  BY <1>3, <1>4 DEF NeedsNoEvent, i, n
<1>5. ASSUME entry'[n] = i => entry[n] = i, history[i] \subseteq history'[i], content'[i] = content[i]
      PROVE  NeedsNoEvent(h)'
  BY <1>3, <1>5 DEF NeedsNoEvent, Lost, ReadToEnd, i, n
<1>6. ASSUME NEW p \in Names, CreateFile(p) PROVE NeedsNoEvent(h)'
  <2>1. PICK j \in fresh : entry' = [entry EXCEPT ![p] = j]
    BY <1>6 DEF CreateFile
  <2>2. j # i
    BY <1>1, <1>2, <2>1 DEF Known, Paths
  <2>3. entry'[n] = i => entry[n] = i
    BY <1>1, <1>2, <2>1, <2>2
  <2>4. content' = content /\ history' = history
    BY <1>6 DEF CreateFile
  <2> QED
    BY <1>5, <2>3, <2>4
<1>7. ASSUME NEW p \in Names, DeleteFile(p) PROVE NeedsNoEvent(h)'
  <2>1. entry'[n] = i => entry[n] = i
    BY <1>1, <1>2, <1>7 DEF DeleteFile
  <2>2. content' = content /\ history' = history
    BY <1>7 DEF DeleteFile
  <2> QED
    BY <1>5, <2>1, <2>2
<1>8. ASSUME NEW p \in Names, TruncateFile(p), p # n PROVE NeedsNoEvent(h)'
  <2>1. entry' = entry /\ history[i] \subseteq history'[i]
    BY <1>1, <1>2, <1>8 DEF TruncateFile
  <2>2. CASE entry[n] # i
    BY <1>4, <2>1, <2>2
  <2>3. CASE entry[n] = i
    <3>1. entry[p] # i
      BY <1>2, <1>8, <2>3 DEF Known, Paths
    <3>2. content'[i] = content[i]
      BY <1>1, <1>2, <1>8, <3>1 DEF TruncateFile
    <3> QED
      BY <1>5, <2>1, <3>2
  <2> QED
    BY <2>2, <2>3
<1>9. ASSUME NEW p \in Names, NEW endsLine \in BOOLEAN, AppendPiece(p, endsLine), p # n
      PROVE  NeedsNoEvent(h)'
  <2>1. entry' = entry /\ history' = history
    BY <1>9 DEF AppendPiece
  <2>2. CASE entry[n] # i
    BY <1>4, <2>1, <2>2
  <2>3. CASE entry[n] = i
    <3>1. entry[p] # i
      BY <1>2, <1>9, <2>3 DEF Known, Paths
    <3>2. content'[i] = content[i]
      BY <1>1, <1>2, <1>9, <3>1 DEF AppendPiece
    <3> QED
      BY <1>5, <2>1, <3>2
  <2> QED
    BY <2>2, <2>3
<1>10. ASSUME NEW p \in Names, NEW q \in Names, NEW marks \in SUBSET Past, RenameFile(p, q, marks)
       PROVE  NeedsNoEvent(h)'
  <2>1. content' = content /\ history[i] \subseteq history'[i]
    BY <1>1, <1>2, <1>10 DEF RenameFile
  <2>2. \A m \in Names : entry'[m] = IF m = q THEN entry[p] ELSE IF m = p THEN None ELSE entry[m]
    BY <1>1, <1>10 DEF RenameFile
  <2>3. CASE n # q
    <3>1. entry'[n] = i => entry[n] = i
      BY <1>2, <2>2, <2>3
    <3> QED
      BY <1>5, <2>1, <3>1
  <2>4. CASE n = q /\ entry[p] # i
    BY <1>2, <1>4, <2>2, <2>4
  <2>5. CASE n = q /\ entry[p] = i
    <3>1. \E g \in Handles : handle[g].inode = entry[p] /\ handle[g].name = q
      BY <1>2, <2>5 DEF i, n
    <3>2. history' = [history EXCEPT ![i] = @ \cup {"renamed"} \cup marks \cup
            (IF DirOf[p] # DirOf[q] THEN {"moved"} ELSE {}) \cup
            (IF p \in Matching /\ q \notin Matching THEN {"left"} ELSE {}) \cup
            (IF "left" \in @ /\ q \in Matching THEN {"returned"} ELSE {}) \cup {"back"}]
      BY <1>10, <2>5, <3>1 DEF RenameFile
    <3>3. "back" \in history'[i]
      BY <1>1, <1>2, <3>2
    <3> QED
      BY <1>3, <3>3 DEF NeedsNoEvent, i
  <2> QED
    BY <2>3, <2>4, <2>5
<1>11. ASSUME NEW d \in Dirs, RemoveDir(d) PROVE NeedsNoEvent(h)'
  <2>1. UNCHANGED <<entry, content, history>>
    BY <1>11 DEF RemoveDir
  <2> QED
    BY <1>5, <2>1
<1> QED
  BY <1>6, <1>7, <1>8, <1>9, <1>10, <1>11 DEF n

LEMMA RenamedNeedsNothing ==
  ASSUME FileInv, NameKept, WithinFiles, NEW n \in Names, NEW h \in OpenHandles, handle[h].name # n,
         handle' = [handle EXCEPT ![h].name = n], cur' = h, NEW j \in Inodes, handle[h].inode = j,
         entry[n] = j \/ <<n, j>> \in listing, UNCHANGED fsVars, listing' \subseteq listing
  PROVE  NeedsNoEvent(h)'
<1>1. handle'[h].inode = j /\ handle'[h].pos = handle[h].pos
  BY RenamedFile
<1>2. "renamed" \in history[j]
  BY RenamedKeepsNames DEF fsVars
<1>3. CASE "truncated" \in history[j]
  BY <1>1, <1>2, <1>3 DEF NeedsNoEvent, Lost, fsVars
<1>4. CASE handle[h].pos <= Len(content[j])
  BY <1>1, <1>4 DEF NeedsNoEvent, fsVars
<1> QED
  BY <1>3, <1>4 DEF WithinFiles

LEMMA OpenedNeedsNothing ==
  ASSUME FileInv, NEW n \in Names, NEW u \in Unused, NEW pos \in 0 .. Len(content[entry[n]]),
         Len(content[entry[n]]) \in Nat, handle' = [handle EXCEPT ![u] = JustOpened(n, pos)], cur' = u,
         UNCHANGED fsVars
  PROVE  NeedsNoEvent(u)'
<1>1. pos \in Nat /\ pos <= Len(content[entry[n]])
  OBVIOUS
<1>2. handle'[u] = JustOpened(n, pos)
  BY <1>1, OpenedFile
<1>3. handle'[u].inode = entry[n] /\ handle'[u].pos = pos
  BY <1>2 DEF JustOpened
<1> QED
  BY <1>1, <1>3 DEF NeedsNoEvent, fsVars

\* The goroutine: a file that an event has to tell of keeps its name, and what
\* needs none goes on without: a file found under a new name is read, and a read
\* goes on to the end.
LEMMA StepNeeds ==
  ASSUME FileInv, NameKept, WithinFiles, Goroutine, ~done, NEW h \in Handles, handle'[h].open
  PROVE  \/ NeedsNoEvent(h)'
         \/ /\ h \in OpenHandles /\ ~NeedsNoEvent(h)
            /\ handle'[h].name = handle[h].name /\ handle'[h].inode = handle[h].inode
<1> USE DEF mapVars, syncVars, readVars
<1>1. UNCHANGED fsVars
  BY DEF Goroutine, StartSync, ListNext, ListFails, LstatEntry, SyncEntry, FinishSync, ReadNewLines,
     ReadBuffered, ReadChunk, ReadEOF, SendLine, SendAborted, Shutdown
<1>2. /\ handle \in [Handles -> Opened \cup {Closed}] /\ entry \in [Names -> Inodes \cup {None}]
      /\ content \in [Inodes -> Seq(BOOLEAN)] /\ ~Closed.open /\ h # None
  BY Distinct DEF FileInv, Types, FilesOK, FileSystemOK, Closed
<1> DEFINE Goal == \/ NeedsNoEvent(h)'
                   \/ /\ h \in OpenHandles /\ ~NeedsNoEvent(h)
                      /\ handle'[h].name = handle[h].name /\ handle'[h].inode = handle[h].inode
<1> SUFFICES Goal
  OBVIOUS
<1>3. ASSUME handle'[h] = handle[h], cur' = h <=> cur = h PROVE Goal
  <2>1. h \in OpenHandles
    BY <1>3 DEF OpenHandles
  <2> QED
    BY <1>1, <1>3, <2>1, NeedsNothingStill
<1> HIDE DEF Goal
<1>4. CASE StartSync \/ ListFails \/ (\E n \in Names : LstatEntry(n))
  BY <1>3, <1>4 DEF StartSync, ListNext, ListFails, LstatEntry
<1>5. CASE SendLine \/ SendAborted
  BY <1>3, <1>5 DEF SendLine, SendAborted
<1>6. CASE FinishSync \/ Shutdown
  <2>1. PICK hs : handle' = Close(hs)
    BY <1>6 DEF FinishSync, Shutdown
  <2>2. handle'[h] = handle[h]
    BY <1>2, <2>1 DEF Close
  <2>3. cur' = cur
    BY <1>6 DEF FinishSync, Shutdown
  <2> QED
    BY <1>3, <2>2, <2>3
<1>7. CASE ReadBuffered \/ ReadChunk \/ ReadEOF
  <2>1. SameFiles
    BY <1>7, ReadKeepsFiles DEF ReadEOF, SameFiles
  <2>2. /\ handle[h].open /\ handle'[h].inode = handle[h].inode /\ handle'[h].name = handle[h].name
        /\ h \in OpenHandles
    BY <2>1 DEF SameFiles, OpenHandles
  <2>3. CASE h # cur
    <3>1. CASE ReadEOF
      BY <1>2, <1>3, <2>3, <3>1 DEF ReadEOF, ReturnToCaller
    <3>2. CASE ReadBuffered \/ ReadChunk
      <4>1. handle'[h] = handle[h]
        BY <2>3, <3>2, ReadOffset
      <4>2. cur' = cur
        BY <3>2 DEF ReadBuffered, ReadChunk
      <4> QED
        BY <1>3, <4>1, <4>2
    <3> QED
      BY <1>7, <3>1, <3>2
  <2>4. CASE h = cur /\ NeedsNoEvent(h)
    <3> DEFINE i == handle[h].inode
    <3>1. handle[h].pos \in Nat /\ Len(content[i]) \in Nat
      BY <2>2, ReaderTypes
    <3>2. CASE Lost(i) \/ "back" \in history[i] \/ entry[handle[h].name] # i
      BY <1>1, <2>2, <3>2 DEF NeedsNoEvent, Lost, fsVars, Goal
    <3>3. CASE handle[h].pos <= Len(content[i]) /\ ReadEOF
      <4>1. /\ handle' = handle /\ handle[h].pos >= Len(content[i])
            /\ LineEnds(handle[h].buf) = {}
        BY <2>4, <3>3 DEF ReadEOF, File, Buf
      <4>2. handle[h].pos = Len(content[i])
        BY <3>1, <3>3, <4>1
      <4> QED
        BY <1>1, <3>3, <4>1, <4>2 DEF NeedsNoEvent, ReadToEnd, fsVars, Goal
    <3>4. CASE handle[h].pos <= Len(content[i]) /\ (ReadBuffered \/ ReadChunk)
      <4>1. handle'[h].pos <= Len(content[i])
        BY <2>4, <3>4, ReadOffset DEF File
      <4>2. cur' = h
        BY <2>4, <3>4 DEF ReadBuffered, ReadChunk
      <4> QED
        BY <1>1, <2>2, <4>1, <4>2 DEF NeedsNoEvent, fsVars, Goal
    <3> QED
      BY <1>7, <2>4, <3>2, <3>3, <3>4 DEF NeedsNoEvent
  <2> QED
    BY <2>2, <2>3, <2>4 DEF Goal
<1>8. CASE SyncEntry
  <2>1. PICK e \in listing :
          \/ \E g \in Handles : AlreadyWatched(e[1], e[2], g) \/ FollowRenamed(e[1], e[2], g)
          \/ OpenNew(e[1], e[2])
          \/ OpenFindsNothing(e[1], e[2])
    BY <1>8 DEF SyncEntry
  <2>2. e[1] \in Names /\ e[2] \in Inodes /\ <<e[1], e[2]>> \in listing
    BY DEF FileInv, Types, FilesOK
  <2>3. cur = None
    BY <1>8 DEF SyncEntry, FileInv, Position
  <2>4. CASE (\E g \in Handles : AlreadyWatched(e[1], e[2], g)) \/ OpenFindsNothing(e[1], e[2])
    BY <1>3, <2>4 DEF AlreadyWatched, OpenFindsNothing
  <2>5. ASSUME NEW g \in Handles, FollowRenamed(e[1], e[2], g) PROVE Goal
    <3>1. /\ handle' = [handle EXCEPT ![g].name = e[1]] /\ handle[g].inode = e[2]
          /\ handle[g].name # e[1] /\ cur' = g /\ listing' \subseteq listing
          /\ g \in OpenHandles
      BY <2>5 DEF FollowRenamed, SameFile, FileInv, Custody
    <3>2. CASE h # g
      BY <1>2, <1>3, <2>3, <3>1, <3>2
    <3>3. CASE h = g
      BY <1>1, <2>2, <3>1, <3>3, RenamedNeedsNothing DEF Goal
    <3> QED
      BY <3>2, <3>3
  <2>6. ASSUME OpenNew(e[1], e[2]) PROVE Goal
    <3> DEFINE end == Len(content[entry[e[1]]])
    <3>1. end \in Nat
      BY <1>2, <2>2, <2>6 DEF OpenNew
    <3> HIDE DEF end
    <3>2. PICK pos \in 0 .. end : pos = IF readall THEN 0 ELSE end
      BY <3>1
    <3>3. PICK u \in Unused : handle' = [handle EXCEPT ![u] = JustOpened(e[1], pos)] /\ cur' = u
      BY <2>6, <3>2 DEF OpenNew, JustOpened, end
    <3>4. CASE h # u
      <4>1. u \in Handles
        BY DEF Unused
      <4> QED
        BY <1>2, <1>3, <2>3, <3>3, <3>4, <4>1
    <3>5. CASE h = u
      BY <1>1, <2>2, <3>1, <3>3, <3>5, OpenedNeedsNothing DEF end, Goal
    <3> QED
      BY <3>4, <3>5
  <2> QED
    BY <2>1, <2>4, <2>5, <2>6
<1> QED
  BY <1>4, <1>5, <1>6, <1>7, <1>8 DEF Goroutine, ReadNewLines

\* A watched file that an event names is looked at for truncation and read.
LEMMA ExaminedNeedsNothing ==
  ASSUME FileInv, NEW h \in OpenHandles, handle' = Rewound(h), cur' = h, UNCHANGED fsVars
  PROVE  NeedsNoEvent(h)'
<1> DEFINE end == Len(content[handle[h].inode])
<1>1. h \in Handles /\ handle[h].pos \in Nat /\ end \in Nat
  BY OpenIsOpened, ReaderTypes
<1>2. /\ handle'[h].inode = handle[h].inode
      /\ handle'[h].pos = IF handle[h].pos > end THEN 0 ELSE handle[h].pos
  BY <1>1, RewoundFile, RewoundOffset
<1>3. handle'[h].pos <= end
  BY <1>1, <1>2
<1> QED
  BY <1>2, <1>3 DEF NeedsNoEvent, fsVars

\* A file that is watched under another path than its name is one whose directory
\* is synced again, or is in the directory being synced.
LEMMA OtherPathsPending ==
  ASSUME NEW Due, FileInv, WatchInv(Due), Running, NEW h \in OpenHandles,
         NEW n \in Names, n # handle[h].name
  PROVE  /\ after[n] = h => Pending(Due, DirOf[n])
         /\ watched[n] = h => Pending(Due, DirOf[n]) \/ (Syncing /\ DirOf[n] = dir)
<1>1. h # None /\ DirOf[n] \in Dirs /\ n \in NamesIn(DirOf[n])
  BY ConstantsAssumption, Distinct DEF NamesIn, OpenHandles
<1>2. ASSUME watched[n] = h, ~(Syncing /\ DirOf[n] = dir) PROVE Pending(Due, DirOf[n])
  <2>1. ~DirCurrent(DirOf[n])
    BY <1>1, <1>2 DEF DirCurrent
  <2> QED
    BY <1>1, <1>2, <2>1 DEF WatchInv, CurrentOrPending
<1>3. ASSUME after[n] = h PROVE Pending(Due, DirOf[n])
  <2>1. Syncing
    BY <1>1, <1>3 DEF FileInv, Position, NothingWatched
  <2>2. CASE DirOf[n] = dir
    <3>1. ~SyncCurrent
      BY <1>1, <1>3, <2>2 DEF SyncCurrent
    <3> QED
      BY <1>1, <2>1, <2>2, <3>1 DEF WatchInv, CurrentOrPending
  <2>3. CASE DirOf[n] # dir
    BY <1>2, <1>3, <2>1, <2>3 DEF WatchInv, OneSync
  <2> QED
    BY <2>2, <2>3
<1> QED
  BY <1>2, <1>3

=============================================================================
