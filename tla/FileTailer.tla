------------------------------ MODULE FileTailer ------------------------------
(***************************************************************************)
(* tailer/fswatcher/fswatcher.go: the goroutine of a file tailer, with the *)
(* directories it watches and the files it reads.                          *)
(*                                                                         *)
(* This module has what every watcher shares: the file system, the list of *)
(* watched files, syncFilesInDir and readNewLines, cut at every system     *)
(* call that another process can come between.  InotifyTailer and          *)
(* PollingTailer add the events and processEvent.                          *)
(*                                                                         *)
(* Files are written in pieces: a piece is TRUE if it ends a line.  What a *)
(* reader holds or delivers is the positions of the pieces in the file.    *)
(***************************************************************************)
EXTENDS Integers, Sequences, FiniteSets

CONSTANTS
  Names,       \* paths of files
  DirOf,       \* the directory of each path
  DirSeq,      \* the watched directories, in the order of watchedDirs
  Matching,    \* the paths that a glob matches
  ReadAll,     \* readall: deliver what the files hold when the tailer starts
  Inodes,      \* bound of the model: files that may exist, over all time
  MaxHandles,  \* bound of the model: files open at one time
  MaxPieces,   \* bound of the model: pieces written to one file
  MaxOps,      \* bound of the model: file system operations
  ChunkPieces, \* the pieces one read(2) of a chunk returns at most
  Ops,         \* the operations other processes and the application perform
  RenameTo     \* the paths each path may be renamed to

Dirs == {DirSeq[i] : i \in 1 .. Len(DirSeq)}
Handles == 1 .. MaxHandles
None == 0
NoDir == "none"

ASSUME ConstantsAssumption ==
  /\ DirSeq \in Seq(Dirs)
  /\ DirOf \in [Names -> Dirs]
  /\ NoDir \notin Dirs
  /\ Matching \subseteq Names
  /\ ReadAll \in BOOLEAN
  /\ Inodes \subseteq Nat \ {0}
  /\ RenameTo \in [Names -> SUBSET Names]
  /\ ChunkPieces \in Nat \ {0}
  /\ MaxHandles \in Nat /\ MaxPieces \in Nat \ {0} /\ MaxOps \in Nat
  /\ Ops \subseteq {"create", "append", "rename", "overwrite", "delete",
              "truncate", "rmdir", "close", "lock"}

VARIABLES
  entry,      \* the inode of each path, None if there is no such file
  content,    \* the pieces of each inode
  fresh,      \* the inodes that never existed yet
  removed,    \* the directories that were removed
  ops,        \* the operations performed so far
  history,    \* what happened to each inode: "renamed", "moved" to another
              \* directory, "left" the names that match, "returned" to them, came
              \* "back" to the name the tailer has it under, "truncated", "locked"
              \* (on Windows); and by a rename that disturbs a sync, see Disturbs:
              \* "raced" past the listing, "swapped" for a new file
  handle,     \* the fileWithReaders: inode, Name(), offset, buffered pieces
  watched,    \* t.watchedFiles, None for no key
  watchedDirs,  \* t.watchedDirs
  pc,         \* where the goroutine is
  task,       \* what it is doing there: "init", "event" or "poll"
  dirsLeft,   \* the directories still to be synced
  dir,        \* the directory of the syncFilesInDir in progress
  toStat,     \* names read from the directory and not lstat'ed yet
  listing,    \* the fileInfos not handled yet: pairs of path and inode
  after,      \* watchedFilesAfter
  filesLeft,  \* polling: the keys of watchedFiles not read yet
  cur,        \* the file readNewLines works on
  line,       \* the line it is about to send
  done,       \* the channel done is closed
  failure,    \* the error that ends the tailer, "none" before
  delivered   \* the pieces of each inode the application received

fsVars == <<entry, content, fresh, removed, ops, history>>
syncVars == <<dirsLeft, dir, toStat, listing, after>>
readVars == <<cur, line, delivered>>
mapVars == <<handle, watched, watchedDirs>>
tailerVars == <<mapVars, pc, task, syncVars, filesLeft, readVars, failure>>
vars == <<fsVars, tailerVars, done>>

Closed == [open |-> FALSE, inode |-> None, name |-> "", pos |-> 0, buf |-> <<>>]
NothingWatched == [n \in Names |-> None]
HandlesIn(m) == {m[n] : n \in Names} \ {None}

NamesIn(d) == {n \in Names : DirOf[n] = d}
Existing == {n \in Names : entry[n] # None}

\* The paths of S have a file each.
InitialEntries(S) ==
  {e \in [Names -> Inodes \cup {None}] :
     /\ \A n \in Names : e[n] = None <=> n \notin S
     /\ \A m, n \in S : e[m] = e[n] => m = n}

\* The files that exist when the tailer starts hold one line each.
Init ==
  /\ \E S \in SUBSET Matching :
       /\ InitialEntries(S) # {}   \* there are inodes enough
       /\ entry = CHOOSE e \in InitialEntries(S) : TRUE
       /\ fresh = {i \in Inodes : \A n \in S : entry[n] # i}
  /\ content = [i \in Inodes |-> IF i \in fresh THEN <<>> ELSE <<TRUE>>]
  /\ removed = {}
  /\ ops = 0
  /\ history = [i \in Inodes |-> {}]
  /\ handle = [h \in Handles |-> Closed]
  /\ watched = NothingWatched
  /\ watchedDirs = DirSeq
  /\ pc = "sync"
  /\ task = "init"
  /\ dirsLeft = DirSeq
  /\ dir = NoDir
  /\ toStat = {}
  /\ listing = {}
  /\ after = NothingWatched
  /\ filesLeft = {}
  /\ cur = None
  /\ line = <<>>
  /\ done = FALSE
  /\ failure = "none"
  /\ delivered = [i \in Inodes |-> <<>>]

-----------------------------------------------------------------------------
(* Other processes: writers, log rotation.  These actions say nothing of    *)
(* the tailer's variables; the watchers conjoin them with their events.     *)

Syncing == dir # NoDir

Operation(op) ==
  /\ op \in Ops
  /\ ops < MaxOps
  /\ ops' = ops + 1

CreateFile(n) ==
  /\ Operation("create")
  /\ entry[n] = None /\ DirOf[n] \notin removed
  /\ fresh # {}
  /\ LET i == CHOOSE i \in fresh : TRUE
     IN  entry' = [entry EXCEPT ![n] = i] /\ fresh' = fresh \ {i}
  /\ UNCHANGED <<content, removed, history>>

AppendPiece(n, endsLine) ==
  /\ Operation("append")
  /\ entry[n] # None
  /\ Len(content[entry[n]]) < MaxPieces
  /\ content' = [content EXCEPT ![entry[n]] = Append(@, endsLine)]
  /\ UNCHANGED <<entry, fresh, removed, history>>

\* rename(2), onto a free name or replacing a file; marks are what else history
\* records of it.
RenameFile(m, n, marks) ==
  /\ Operation(IF entry[n] = None THEN "rename" ELSE "overwrite")
  /\ n \in RenameTo[m] \ {m}
  /\ entry[m] # None /\ DirOf[n] \notin removed
  /\ entry' = [entry EXCEPT ![m] = None, ![n] = entry[m]]
  /\ history' = [history EXCEPT ![entry[m]] = @ \cup {"renamed"} \cup marks \cup
                   (IF DirOf[m] # DirOf[n] THEN {"moved"} ELSE {}) \cup
                   (IF m \in Matching /\ n \notin Matching THEN {"left"} ELSE {}) \cup
                   (IF "left" \in @ /\ n \in Matching THEN {"returned"} ELSE {}) \cup
                   (IF \E h \in Handles : handle[h].inode = entry[m] /\ handle[h].name = n
                      THEN {"back"} ELSE {})]
  /\ UNCHANGED <<content, fresh, removed>>

DeleteFile(n) ==
  /\ Operation("delete")
  /\ entry[n] # None
  /\ entry' = [entry EXCEPT ![n] = None]
  /\ UNCHANGED <<content, fresh, removed, history>>

TruncateFile(n) ==
  /\ Operation("truncate")
  /\ entry[n] # None
  /\ content[entry[n]] # <<>>
  /\ content' = [content EXCEPT ![entry[n]] = <<>>]
  /\ history' = [history EXCEPT ![entry[n]] = @ \cup {"truncated"}]
  /\ UNCHANGED <<entry, fresh, removed>>

RemoveDir(d) ==
  /\ Operation("rmdir")
  /\ d \notin removed
  /\ Existing \cap NamesIn(d) = {}
  /\ removed' = removed \cup {d}
  /\ UNCHANGED <<entry, content, fresh, history>>

-----------------------------------------------------------------------------
(* syncFilesInDir                                                           *)

\* Reads the names of the next directory; the entries of watchedFiles that are
\* not in this directory are kept.
ListNext ==
  /\ dir' = Head(dirsLeft)
  /\ dirsLeft' = Tail(dirsLeft)
  /\ after' = [n \in Names |-> IF DirOf[n] # dir' THEN watched[n] ELSE None]
  /\ toStat' = Existing \cap NamesIn(dir') \cap Matching
  /\ listing' = {}
  /\ pc' = IF toStat' = {} THEN "entries" ELSE "lstat"
  /\ UNCHANGED <<fsVars, mapVars, task, filesLeft, readVars, failure, done>>

StartSync ==
  /\ pc = "sync" /\ dirsLeft # <<>>
  /\ Head(dirsLeft) \notin removed
  /\ ListNext

\* The directory is gone: ls fails and with it the tailer.
ListFails ==
  /\ pc = "sync" /\ dirsLeft # <<>>
  /\ Head(dirsLeft) \in removed
  /\ failure' = "ls"
  /\ pc' = "failed"
  /\ UNCHANGED <<fsVars, mapVars, task, syncVars, filesLeft, readVars, done>>

\* os.File.Readdir reads the names first and then calls lstat on one after the
\* other, leaving out a name that is gone by then.  (Names no glob matches are
\* skipped when their entry's turn comes; they are not even listed here.)
LstatEntry(n) ==
  /\ pc = "lstat"
  /\ n \in toStat
  /\ toStat' = toStat \ {n}
  /\ listing' = IF entry[n] = None THEN listing ELSE listing \cup {<<n, entry[n]>>}
  /\ pc' = IF toStat' = {} THEN "entries" ELSE "lstat"
  /\ UNCHANGED <<fsVars, mapVars, task, dirsLeft, dir, after, filesLeft,
                 readVars, failure, done>>

\* Mutant of SameFile: the search is in the files this sync has seen so far.
SameFileAfter(i) == {h \in HandlesIn(after) : handle[h].inode = i}

\* findSameFile: the files of watchedFiles (not watchedFilesAfter) with inode i.
SameFile(i) == {h \in HandlesIn(watched) : handle[h].inode = i}

\* What history records of a rename of m to n that disturbs the sync in progress,
\* of a file the tailer has open.  "raced": from a name whose lstat is still to
\* come to one that has had it, or had no file; the listing may miss the file.
\* "swapped": onto the name of a listed file that is not watched; the sync opens
\* that name and does not compare again.
Disturbs(m, n) ==
  {mark \in {"raced", "swapped"} :
     /\ \E h \in Handles : handle[h].open /\ handle[h].inode = entry[m]
     /\ mark = "raced" => m \in toStat /\ n \in Matching \ toStat
     /\ mark = "swapped" => \E e \in listing : e[1] = n /\ SameFile(e[2]) = {}}

\* Mutant of AlreadyWatched: skipped without an entry in watchedFilesAfter.
AlreadyWatchedSkipped(n, i, h) ==
  /\ h \in SameFile(i)
  /\ handle[h].name = n
  /\ listing' = listing \ {<<n, i>>}
  /\ UNCHANGED <<handle, pc, after, cur>>

AlreadyWatched(n, i, h) ==
  /\ h \in SameFile(i)
  /\ handle[h].name = n
  /\ after' = [after EXCEPT ![n] = h]
  /\ listing' = listing \ {<<n, i>>}
  /\ UNCHANGED <<handle, pc, cur>>

\* Mutant of FollowRenamed: the renamed file waits for its next IN_MODIFY.
FollowRenamedUnread(n, i, h) ==
  /\ h \in SameFile(i)
  /\ handle[h].name # n
  /\ handle' = [handle EXCEPT ![h].name = n]
  /\ after' = [after EXCEPT ![n] = h]
  /\ listing' = listing \ {<<n, i>>}
  /\ UNCHANGED <<cur, pc>>

\* The file was renamed: a duplicate of the descriptor, which shares the
\* offset, takes the new name, and the line reader is kept.
FollowRenamed(n, i, h) ==
  /\ h \in SameFile(i)
  /\ handle[h].name # n
  /\ handle' = [handle EXCEPT ![h].name = n]
  /\ cur' = h
  /\ pc' = "read"
  /\ listing' = listing \ {<<n, i>>}
  /\ UNCHANGED after

\* Handles no variable refers to any more; one of them stands for a new file.
Unused == {h \in Handles : /\ ~handle[h].open /\ cur # h
                           /\ h \notin HandlesIn(watched) \cup HandlesIn(after)}

\* Mutant of readall: processEvent passes FALSE.
readallFirst == task = "init" /\ ReadAll

\* The parameter of syncFilesInDir: TRUE in every sync but the first.
readall == task # "init" \/ ReadAll

\* open by name: the file may be gone, or another file than the one listed.
OpenNew(n, i) ==
  /\ SameFile(i) = {}
  /\ entry[n] # None
  /\ Unused # {}
  /\ LET h == CHOOSE u \in Unused : TRUE
         end == Len(content[entry[n]])
     IN  /\ handle' = [handle EXCEPT ![h] =
                         [open |-> TRUE, inode |-> entry[n], name |-> n,
                          pos |-> IF readall THEN 0 ELSE end, buf |-> <<>>]]
         /\ cur' = h
  /\ pc' = "read"
  /\ listing' = listing \ {<<n, i>>}
  /\ UNCHANGED after

OpenFindsNothing(n, i) ==
  /\ SameFile(i) = {}
  /\ entry[n] = None
  /\ listing' = listing \ {<<n, i>>}
  /\ UNCHANGED <<handle, pc, after, cur>>

SyncEntry ==
  /\ pc = "entries"
  /\ \E e \in listing :
       LET n == e[1]
           i == e[2]
       IN  \/ \E h \in Handles : AlreadyWatched(n, i, h) \/ FollowRenamed(n, i, h)
           \/ OpenNew(n, i)
           \/ OpenFindsNothing(n, i)
  /\ UNCHANGED <<fsVars, watched, watchedDirs, task, dirsLeft, dir, toStat, filesLeft, line,
                 delivered, failure, done>>

\* handle with the files hs closed.
Close(hs) == [h \in Handles |-> IF h \in hs THEN Closed ELSE handle[h]]

\* Mutant of Unwatched: the files that are gone are not closed.
UnwatchedNone == {}

\* The watched files that are in no entry of watchedFilesAfter.
Unwatched == HandlesIn(watched) \ HandlesIn(after)

\* The unwatched files are closed and the new map takes over.  After the
\* last directory a poll goes on to read the files.
FinishSync ==
  /\ pc = "entries"
  /\ listing = {}
  /\ handle' = Close(Unwatched)
  /\ watched' = after
  /\ after' = NothingWatched
  /\ dir' = NoDir
  /\ pc' = CASE dirsLeft # <<>> -> "sync"
             [] dirsLeft = <<>> /\ task = "poll" -> "files"
             [] OTHER -> "loop"
  /\ filesLeft' = IF pc' = "files" THEN {n \in Names : after[n] # None} ELSE {}
  /\ UNCHANGED <<fsVars, watchedDirs, task, dirsLeft, toStat, listing, readVars, failure, done>>

-----------------------------------------------------------------------------
(* readNewLines                                                             *)

Buf == handle[cur].buf
File == content[handle[cur].inode]

\* A buffered piece is its position and whether it ends a line.
LineEnds(buf) == {k \in 1 .. Len(buf) : buf[k].ends}
Positions(buf) == [k \in 1 .. Len(buf) |-> buf[k].at]

\* ReadLine goes on with the buffered pieces buf at offset pos: it returns the
\* first line, or the loop reads on.
ReadOn(pos, buf) ==
  IF LineEnds(buf) = {}
    THEN /\ handle' = [handle EXCEPT ![cur].pos = pos, ![cur].buf = buf]
         /\ UNCHANGED <<line, pc>>
    ELSE \E k \in LineEnds(buf) :
           /\ \A j \in LineEnds(buf) : k <= j
           /\ line' = Positions(SubSeq(buf, 1, k))
           /\ handle' = [handle EXCEPT ![cur].pos = pos,
                                       ![cur].buf = SubSeq(buf, k + 1, Len(buf))]
           /\ pc' = "send"

ReadBuffered ==
  /\ pc = "read"
  /\ LineEnds(Buf) # {}
  /\ ReadOn(handle[cur].pos, Buf)
  /\ UNCHANGED <<fsVars, watched, watchedDirs, task, syncVars, filesLeft, cur, delivered,
                 failure, done>>

\* Without a line end in the buffer ReadLine reads a chunk at the file's offset.
ReadChunk ==
  /\ pc = "read"
  /\ LineEnds(Buf) = {}
  /\ handle[cur].pos < Len(File)
  /\ LET pos == handle[cur].pos
         n == IF Len(File) - pos < ChunkPieces THEN Len(File) - pos ELSE ChunkPieces
         chunk == [k \in 1 .. n |-> [at |-> pos + k, ends |-> File[pos + k]]]
     IN  ReadOn(pos + n, Buf \o chunk)
  /\ UNCHANGED <<fsVars, watched, watchedDirs, task, syncVars, filesLeft, cur, delivered,
                 failure, done>>

\* readNewLines returns nil to its caller: syncFilesInDir, which records the
\* file under its new path, or processEvent.
ReturnToCaller ==
  /\ after' = IF Syncing THEN [after EXCEPT ![handle[cur].name] = cur] ELSE after
  /\ pc' = CASE Syncing -> "entries"
             [] ~Syncing /\ task = "poll" -> "files"
             [] OTHER -> "loop"
  /\ cur' = None

ReadEOF ==
  /\ pc = "read"
  /\ LineEnds(Buf) = {}
  /\ handle[cur].pos >= Len(File)
  /\ ReturnToCaller
  /\ UNCHANGED <<fsVars, mapVars, task, dirsLeft, dir, toStat, listing,
                 filesLeft, line, delivered, failure, done>>

\* The application receives the line.
SendLine ==
  /\ pc = "send"
  /\ delivered' = [delivered EXCEPT ![handle[cur].inode] = @ \o line]
  /\ line' = <<>>
  /\ pc' = "read"
  /\ UNCHANGED <<fsVars, mapVars, task, syncVars, filesLeft, cur, failure, done>>

\* Mutant of SendAborted: a plain send, which only the application can end.
SendNeverAborted == FALSE

\* case <-t.done: the line is dropped; the caller does not learn of it.
SendAborted ==
  /\ pc = "send"
  /\ done
  /\ line' = <<>>
  /\ ReturnToCaller
  /\ UNCHANGED <<fsVars, mapVars, task, dirsLeft, dir, toStat, listing,
                 filesLeft, delivered, failure, done>>

ReadNewLines == ReadBuffered \/ ReadChunk \/ ReadEOF \/ SendLine \/ SendAborted

\* Mutant of Rewound: a shorter file goes unnoticed.
RewoundNever(h) == handle

\* isTruncated, and if so Seek and Clear.
Rewound(h) ==
  IF handle[h].pos > Len(content[handle[h].inode])
    THEN [handle EXCEPT ![h].pos = 0, ![h].buf = <<>>]
    ELSE handle

\* ... and readNewLines starts on h.
CheckTruncated(h) ==
  /\ handle' = Rewound(h)
  /\ cur' = h
  /\ pc' = "read"

-----------------------------------------------------------------------------
(* The end: Close, an error, shutdown.                                      *)

\* Whether Close counts among the MaxOps is up to the watcher's module.
CloseTailer ==
  /\ "close" \in Ops
  /\ ~done
  /\ done' = TRUE
  /\ UNCHANGED <<entry, content, fresh, removed, history, tailerVars>>

\* Mutant of Shutdown: the files stay open.
ShutdownLeavesFiles ==
  /\ \/ pc = "loop" /\ done
     \/ pc = "failed"
  /\ pc' = "returned"
  /\ UNCHANGED <<fsVars, mapVars, task, syncVars, filesLeft, readVars, failure, done>>

\* shutdown closes the files of watchedFiles.
Shutdown ==
  /\ \/ pc = "loop" /\ done
     \/ pc = "failed"     \* the error was sent, or done is closed
  /\ handle' = Close(HandlesIn(watched))
  /\ watched' = NothingWatched
  /\ pc' = "returned"
  /\ UNCHANGED <<fsVars, watchedDirs, task, syncVars, filesLeft, readVars, failure, done>>

Goroutine ==
  \/ StartSync \/ ListFails \/ (\E n \in Names : LstatEntry(n))
  \/ SyncEntry \/ FinishSync
  \/ ReadNewLines
  \/ Shutdown

\* The steps of the goroutine that do not need the application to receive a line
\* or, after a failure, the error.
Unaided ==
  \/ StartSync \/ ListFails \/ (\E n \in Names : LstatEntry(n))
  \/ SyncEntry \/ FinishSync
  \/ ReadBuffered \/ ReadChunk \/ ReadEOF \/ SendAborted
  \/ done /\ Shutdown

-----------------------------------------------------------------------------
Piece == [at : 1 .. MaxPieces, ends : BOOLEAN]

Opened == [open : {TRUE}, inode : Inodes, name : Names, pos : 0 .. MaxPieces, buf : Seq(Piece)]

Past == {"renamed", "moved", "raced", "swapped", "left", "returned", "back", "truncated", "locked"}

FileSystemOK ==
  /\ entry \in [Names -> Inodes \cup {None}]
  /\ content \in [Inodes -> Seq(BOOLEAN)]
  /\ \A i \in Inodes : Len(content[i]) <= MaxPieces
  /\ fresh \subseteq Inodes
  /\ removed \subseteq Dirs
  /\ ops \in 0 .. MaxOps
  /\ history \in [Inodes -> SUBSET Past]

FilesOK ==
  /\ handle \in [Handles -> Opened \cup {Closed}]
  /\ watched \in [Names -> Handles \cup {None}]
  /\ after \in [Names -> Handles \cup {None}]
  /\ cur \in Handles \cup {None}
  /\ filesLeft \subseteq Names
  /\ toStat \subseteq Names
  /\ listing \subseteq Names \X Inodes

ControlOK ==
  /\ pc \in {"sync", "lstat", "entries", "read", "send", "files", "loop", "failed",
             "returned"} \cup {"open", "seek", "rewind"}  \* the latter on Windows
  /\ task \in {"init", "event", "poll"}
  /\ dirsLeft \in Seq(Dirs)
  /\ dir \in Dirs \cup {NoDir}
  /\ line \in Seq(1 .. MaxPieces)
  /\ delivered \in [Inodes -> Seq(1 .. MaxPieces)]
  /\ done \in BOOLEAN
  /\ failure \in {"none", "ls", "ignored", "overflow", "deleted"} \cup
                {"open", "seek", "read", "truncated"}  \* the latter on Windows

TypeOK == FileSystemOK /\ FilesOK /\ ControlOK /\ watchedDirs \in Seq(Dirs)

OpenHandles == {h \in Handles : handle[h].open}

\* The goroutine never works on a closed file, whatever was renamed, replaced
\* or removed under it, and whenever it is back in its event loop the open
\* files are those of watchedFiles: none leaks, and shutdown closes them all.
OpenFilesWatched ==
  /\ HandlesIn(watched) \cup HandlesIn(after) \cup ({cur} \ {None}) \subseteq OpenHandles
  /\ pc \in {"loop", "files", "sync"} => OpenHandles = HandlesIn(watched)
  /\ pc = "returned" => OpenHandles = {}

\* What the application received of a file is an unbroken run of its pieces,
\* from the first one on if all was to be read.
Unbroken(i) ==
  LET d == delivered[i]
  IN  /\ \A k \in 1 .. Len(d) : d[k] = d[1] + k - 1
      /\ ReadAll /\ d # <<>> => d[1] = 1

\* Until Close no line of a file is delivered twice, skipped or out of order,
\* whatever names it takes in its directory, whatever replaces it and whatever
\* the tailer is doing meanwhile: listing, comparing, reading or waiting for the
\* application.  Excepted are files that were truncated, moved to another
\* directory, renamed to a name that does not match and back, or renamed by one
\* of the two renames that disturb a sync (see Disturbs and RenamedFileOnce).
ExactlyOnce == ~done => \A i \in Inodes : history[i] \subseteq {"renamed", "left", "back"} => Unbroken(i)

\* fswatcher_linux.go:168: "a file is renamed, but still matches the pattern so
\* we continue watching it": whenever it is renamed, and into whichever watched
\* directory.
RenamedFileOnce ==
  ~done => \A i \in Inodes :
    history[i] \subseteq {"renamed", "back", "moved", "raced", "swapped"} => Unbroken(i)

\* watchedFiles agrees with the directories: every matching path that exists
\* is there with its present file and name, and nothing else.
WatchListCurrent ==
  \A n \in Names :
    IF n \in Matching /\ entry[n] # None
      THEN /\ watched[n] # None
           /\ handle[watched[n]].inode = entry[n]
           /\ handle[watched[n]].name = n
      ELSE watched[n] = None

\* The file was read to its end and all its whole lines were sent.
ReadToEnd(h) ==
  /\ handle[h].pos = Len(content[handle[h].inode])
  /\ LineEnds(handle[h].buf) = {}

\* It was, or the file was both renamed and truncated, or locked.
ReadUp(h) ==
  LET past == history[handle[h].inode]
  IN  ReadToEnd(h) \/ {"renamed", "truncated"} \subseteq past \/ "locked" \in past

AllRead == \A h \in HandlesIn(watched) : ReadUp(h)

\* The application received the pieces of inode i up to its last line end.
LinesReceived(i) ==
  \A k \in 1 .. Len(content[i]) :
    content[i][k] => \E j \in 1 .. Len(delivered[i]) : delivered[i][j] = k

\* ... or need not: the tailer ends, or no name that matches is the file's.
LinesServed(i) ==
  \/ LinesReceived(i)
  \/ done \/ failure # "none"
  \/ history[i] \cap {"truncated", "locked"} # {}
  \/ \A n \in Matching : entry[n] # i
=============================================================================
