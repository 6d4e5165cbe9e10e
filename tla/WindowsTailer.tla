---------------------------- MODULE WindowsTailer ----------------------------
(***************************************************************************)
(* tailer/fswatcher/fswatcher_windows.go and file_windows.go: on Windows   *)
(* no file is kept open.  Every operation opens the file by its name again *)
(* and compares the file index, so each of them can find the file renamed, *)
(* replaced, removed or locked.  The tailer is driven by the events of     *)
(* fsnotify, or polls.                                                     *)
(***************************************************************************)
EXTENDS PollingTailer

CONSTANT MaxQueued  \* bound of the model: events that fsnotify queues

VARIABLES
  driver,    \* "events" or "poll"
  events,    \* the events fsnotify has not handed over, oldest first
  overflow,  \* fsnotify lost events and reports it on its error channel
  locked,    \* paths that another program has open and does not share
  opening    \* the path that syncFilesInDir is about to open

windowsVars == <<driver, events, overflow, locked, opening>>
allVars == <<vars, windowsVars>>

NoName == ""

WindowsInit ==
  /\ Init
  /\ driver \in {"events", "poll"}
  /\ events = <<>>
  /\ overflow = FALSE
  /\ locked = {}
  /\ opening = NoName

-----------------------------------------------------------------------------
(* Other programs, and fsnotify.                                            *)

\* Create, Remove and Rename are handled alike.
Event(op, n) == [op |-> op, dir |-> DirOf[n], name |-> n]

Emit(es) ==
  LET fits == Len(events) + Len(es) <= MaxQueued
  IN  /\ events' = IF driver = "events" /\ fits THEN events \o es ELSE events
      /\ overflow' = (overflow \/ (driver = "events" /\ ~fits))

\* An open that does not share the file, for longer than openWithBackoff tries.
LockFile(n) ==
  /\ Operation("lock")
  /\ entry[n] # None /\ n \notin locked
  /\ locked' = locked \cup {n}
  /\ history' = [history EXCEPT ![entry[n]] = @ \cup {"locked"}]
  /\ UNCHANGED <<entry, content, fresh, removed, events, overflow>>

UnlockFile(n) ==
  /\ n \in locked
  /\ locked' = locked \ {n}
  /\ UNCHANGED <<fsVars, events, overflow>>

\* See Disturbs in FileTailer; here the listing has the names only, all at once.
\* "raced": from a name whose entry has not had its turn to one that is not to have
\* one; the file's turn may not come.  "swapped": onto the name that was compared
\* and is opened next; or onto a name still to be compared, which is with the
\* watched files only, of a file that this sync opened.
DisturbsNames(m, n) ==
  LET readers == {h \in Handles : handle[h].open /\ handle[h].inode = entry[m]}
      listed == {e[1] : e \in listing}
  IN  {mark \in {"raced", "swapped"} :
         /\ readers # {}
         /\ mark = "raced" => m \in listed /\ n \in Matching \ listed
         /\ mark = "swapped" =>
              /\ n \in listed
              /\ (pc = "open" /\ n = opening) \/ ~(readers \subseteq HandlesIn(watched))}

Programs ==
  /\ \/ /\ \/ \E n \in Names \ locked :
                (CreateFile(n) \/ DeleteFile(n)) /\ Emit(<<Event("Name", n)>>)
           \/ \E n \in Names, endsLine \in BOOLEAN :
                AppendPiece(n, endsLine) /\ Emit(<<Event("Write", n)>>)
           \/ \E m, n \in Names \ locked :
                RenameFile(m, n, DisturbsNames(m, n)) /\ Emit(<<Event("Name", m), Event("Name", n)>>)
           \/ \E n \in Names : TruncateFile(n) /\ Emit(<<Event("Write", n)>>)
           \/ \E d \in Dirs :
                RemoveDir(d) /\ Emit(<<[op |-> "Name", dir |-> d, name |-> NoName]>>)
        /\ UNCHANGED locked
     \/ \E n \in Names : LockFile(n) \/ UnlockFile(n)
  /\ UNCHANGED <<tailerVars, done, driver, opening>>

-----------------------------------------------------------------------------
(* File                                                                     *)

\* reopen() succeeds; if not, it returns WinFileRemoved, whatever the reason.
Reopens(h) ==
  entry[handle[h].name] = handle[h].inode /\ handle[h].name \notin locked

Fails(why) ==
  /\ failure' = why
  /\ pc' = "failed"

\* Read() fails: bufio hands the error on, and readNewLines makes it one of type
\* NotSpecified, which ends the tailer.
ReadFails ==
  /\ pc = "read" /\ LineEnds(Buf) = {}
  /\ ~Reopens(cur)
  /\ Fails("read")
  /\ UNCHANGED <<fsVars, mapVars, task, syncVars, filesLeft, readVars, done, windowsVars>>

Read ==
  /\ pc = "read" /\ LineEnds(Buf) = {} => Reopens(cur)
  /\ ReadNewLines
  /\ UNCHANGED windowsVars

\* CheckTruncated succeeds; a truncated file is then sought in, see Rewind.
Examine(h) ==
  /\ Reopens(h)
  /\ cur' = h
  /\ pc' = IF Rewound(h) = handle THEN "read" ELSE "rewind"

\* Seek to the start, which opens the file again, and Clear.
Rewind ==
  /\ pc = "rewind"
  /\ IF Reopens(cur)
       THEN /\ handle' = [handle EXCEPT ![cur].pos = 0, ![cur].buf = <<>>]
            /\ pc' = "read"
            /\ UNCHANGED failure
       ELSE Fails("seek") /\ UNCHANGED handle
  /\ UNCHANGED <<fsVars, watched, watchedDirs, task, syncVars, filesLeft, readVars, done,
                 windowsVars>>

-----------------------------------------------------------------------------
(* syncFilesInDir                                                           *)

\* ls; the entries come with their names, and no other call.
ListDir ==
  /\ pc = "sync" /\ dirsLeft # <<>>
  /\ Head(dirsLeft) \notin removed
  /\ dir' = Head(dirsLeft)
  /\ dirsLeft' = Tail(dirsLeft)
  /\ after' = [n \in Names |-> IF DirOf[n] # dir' THEN watched[n] ELSE None]
  /\ listing' = {<<n, entry[n]>> : n \in Existing \cap NamesIn(dir') \cap Matching}
  /\ pc' = "entries"
  /\ UNCHANGED <<fsVars, mapVars, task, toStat, filesLeft, readVars, failure, done,
                 windowsVars>>

\* findSameFile opens the listed path, which may fail.  A file that is gone, or
\* not watched yet, is to be opened next; its entry is not done with before.
OpenToCompare(n) ==
  /\ n \notin locked
  /\ entry[n] = None \/ SameFile(entry[n]) = {}
  /\ opening' = n /\ pc' = "open"
  /\ UNCHANGED <<handle, after, cur, failure>>

OpenFails(n) ==
  /\ n \in locked
  /\ Fails("open")
  /\ UNCHANGED <<handle, after, cur, opening>>

\* Mutants of FoundSame: an unchanged file has no entry in watchedFilesAfter; a
\* renamed one is not read.
FoundSameSkipped(n) ==
  /\ n \notin locked /\ entry[n] # None
  /\ \E h \in SameFile(entry[n]) :
       IF handle[h].name = n
         THEN UNCHANGED <<handle, cur, pc>>
         ELSE /\ handle' = [handle EXCEPT ![h].name = n]
              /\ cur' = h /\ pc' = "read"
  /\ UNCHANGED <<after, failure, opening>>
FoundSameUnread(n) ==
  /\ n \notin locked /\ entry[n] # None
  /\ \E h \in SameFile(entry[n]) :
       /\ handle' = [handle EXCEPT ![h].name = n]
       /\ after' = [after EXCEPT ![n] = h]
  /\ UNCHANGED <<cur, pc, failure, opening>>

\* The index is that of the file at the path now, not of the one listed.
FoundSame(n) ==
  /\ n \notin locked /\ entry[n] # None
  /\ \E h \in SameFile(entry[n]) :
       IF handle[h].name = n
         THEN after' = [after EXCEPT ![n] = h] /\ UNCHANGED <<handle, cur, pc>>
         ELSE /\ handle' = [handle EXCEPT ![h].name = n]
              /\ cur' = h /\ pc' = "read"
              /\ UNCHANGED after
  /\ UNCHANGED <<failure, opening>>

CompareEntry ==
  /\ pc = "entries"
  /\ \E e \in listing :
       \/ (OpenToCompare(e[1]) \/ OpenFails(e[1])) /\ UNCHANGED listing
       \/ FoundSame(e[1]) /\ listing' = listing \ {e}
  /\ UNCHANGED <<fsVars, watched, watchedDirs, task, dirsLeft, dir, toStat, filesLeft,
                 line, delivered, done, driver, events, overflow, locked>>

EntryDone == listing' = {e \in listing : e[1] # opening}

\* open: a new file, and with readall off a seek to its end.
OpenFile ==
  /\ pc = "open" /\ opening \notin locked
  /\ entry[opening] # None /\ Unused # {}
  /\ LET h == CHOOSE u \in Unused : TRUE
     IN  /\ handle' = [handle EXCEPT ![h] =
                         [open |-> TRUE, inode |-> entry[opening], name |-> opening,
                          pos |-> 0, buf |-> <<>>]]
         /\ cur' = h
  /\ pc' = IF readall THEN "read" ELSE "seek"
  /\ EntryDone
  /\ UNCHANGED <<fsVars, watched, watchedDirs, task, dirsLeft, dir, toStat, after, filesLeft,
                 line, delivered, failure, done, windowsVars>>

OpenFindsNone ==
  /\ pc = "open"
  /\ IF opening \in locked THEN Fails("open") ELSE pc' = "entries" /\ UNCHANGED failure
  /\ opening \in locked \/ entry[opening] = None
  /\ EntryDone
  /\ UNCHANGED <<fsVars, mapVars, task, dirsLeft, dir, toStat, after, filesLeft, readVars, done,
                 windowsVars>>

SeekEnd ==
  /\ pc = "seek"
  /\ IF Reopens(cur)
       THEN /\ handle' = [handle EXCEPT ![cur].pos = Len(File)]
            /\ pc' = "read"
            /\ UNCHANGED failure
       ELSE Fails("seek") /\ UNCHANGED handle
  /\ UNCHANGED <<fsVars, watched, watchedDirs, task, syncVars, filesLeft, readVars, done,
                 windowsVars>>

Sync ==
  \/ ListDir \/ CompareEntry \/ OpenFile \/ OpenFindsNone \/ SeekEnd
  \/ (ListFails \/ FinishSync) /\ UNCHANGED windowsVars

-----------------------------------------------------------------------------
(* processEvent, of fsnotify and of the timer.                              *)

StartSyncOf(d) ==
  /\ dirsLeft' = <<d>>
  /\ pc' = "sync"
  /\ UNCHANGED cur

\* A file that is not where it was is looked for in the directory.
Written(e) ==
  /\ e.op = "Write"
  /\ \/ watched[e.name] = None /\ UNCHANGED <<cur, pc, dirsLeft>>
     \/ watched[e.name] # None /\ Examine(watched[e.name]) /\ UNCHANGED dirsLeft
     \/ watched[e.name] # None /\ ~Reopens(watched[e.name]) /\ StartSyncOf(e.dir)

NameChanged(e) == e.op = "Name" /\ StartSyncOf(e.dir)

ProcessEvent ==
  /\ pc = "loop" /\ events # <<>>
  /\ Written(Head(events)) \/ NameChanged(Head(events))
  /\ events' = Tail(events)
  /\ task' = "event"
  /\ UNCHANGED <<fsVars, mapVars, dir, toStat, listing, after, filesLeft, line, delivered,
                 failure, done, driver, overflow, locked, opening>>

\* The watcher's error, forwarded by the producer loop.
WatcherError ==
  /\ pc = "loop" /\ overflow
  /\ Fails("overflow")
  /\ UNCHANGED <<fsVars, mapVars, task, syncVars, filesLeft, readVars, done, windowsVars>>

\* A poll: a file that has gone since the sync ends the tailer.
PollNext(n) ==
  /\ pc = "files" /\ n \in filesLeft
  /\ filesLeft' = filesLeft \ {n}
  /\ \/ Examine(watched[n]) /\ UNCHANGED failure
     \/ ~Reopens(watched[n]) /\ Fails("truncated") /\ UNCHANGED cur
  /\ UNCHANGED <<fsVars, mapVars, task, syncVars, line, delivered, done, windowsVars>>

WindowsPoll ==
  /\ driver = "poll"
  /\ \/ (Tick \/ PollDone) /\ UNCHANGED windowsVars
     \/ \E n \in Names : PollNext(n)

Tailer ==
  \/ Sync \/ Read \/ ReadFails \/ Rewind
  \/ ProcessEvent \/ WatcherError \/ WindowsPoll
  \/ Shutdown /\ UNCHANGED windowsVars

WindowsNext ==
  \/ Programs
  \/ Tailer
  \/ CloseTailer /\ Operation("close") /\ UNCHANGED windowsVars

WindowsSpec == WindowsInit /\ [][WindowsNext]_allVars

\* The goroutine runs, timer and fsnotify included; the application reads the
\* lines and the error.
WindowsFairSpec == WindowsSpec /\ WF_allVars(Tailer)

-----------------------------------------------------------------------------
AtRest == pc = "loop" /\ driver = "events" /\ events = <<>> /\ ~overflow

\* Once the events are used up, the watched files are the files that are there,
\* whatever was renamed, replaced or removed between any two of the opens.
WatchListCurrentAtRest == AtRest => WatchListCurrent

\* ... and each of them was read to its end.  Files that were locked are excepted
\* (see ReadUp): a Write event whose reopen() finds the file locked leads to a
\* sync, which does not read a file that is watched already.  So are files that
\* were renamed and came back before a sync: it finds them where they were, and
\* the Write event of what was written meanwhile bears the other name.
AllReadAtRest ==
    AtRest /\ ~done => \A h \in HandlesIn(watched) : ReadUp(h) \/ "back" \in history[handle[h].inode]

\* When the file system has come to rest, the polls have found all files and read
\* all of them, or one ended the tailer with an error: none is passed over.
PollsCatchUp ==
  driver = "poll" =>
    <>[](\/ done \/ failure # "none"
         \/ /\ pc = "loop" => WatchListCurrent
            /\ \A h \in HandlesIn(watched) : ReadToEnd(h))

\* file_windows.go:130, on an error of Read: "in case of WinFileMoved, must return
\* special error to trigger sync dir" (and errors.go:26: it "is handled internally
\* in the FileTailer").  So a file that was renamed or removed ends no tailer.
MovedFileTriggersSync ==
  failure = "read" => "locked" \in history[handle[cur].inode]
=============================================================================
