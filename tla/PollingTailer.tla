---------------------------- MODULE PollingTailer ----------------------------
(***************************************************************************)
(* tailer/fswatcher/pollingwatcher.go: a file tailer driven by a timer.    *)
(* Each tick syncs every directory and then reads every watched file.      *)
(***************************************************************************)
EXTENDS FileTailer

FileSystem ==
  /\ \/ \E n \in Names : CreateFile(n) \/ DeleteFile(n) \/ TruncateFile(n)
     \/ \E n \in Names, endsLine \in BOOLEAN : AppendPiece(n, endsLine)
     \/ \E m, n \in Names : RenameFile(m, n, Disturbs(m, n))
     \/ \E d \in Dirs : RemoveDir(d)
  /\ UNCHANGED <<tailerVars, done>>

\* processEvent on a tick: first all directories, see FinishSync for the rest.
Tick ==
  /\ pc = "loop"
  /\ task' = "poll"
  /\ dirsLeft' = watchedDirs
  /\ pc' = "sync"
  /\ UNCHANGED <<fsVars, mapVars, dir, toStat, listing, after, filesLeft, readVars,
                 failure, done>>

\* The next file of watchedFiles, in the order of the map's iteration.
PollFile(n) ==
  /\ pc = "files"
  /\ n \in filesLeft
  /\ filesLeft' = filesLeft \ {n}
  /\ CheckTruncated(watched[n])
  /\ UNCHANGED <<fsVars, watched, watchedDirs, task, syncVars, line, delivered,
                 failure, done>>

PollDone ==
  /\ pc = "files"
  /\ filesLeft = {}
  /\ pc' = "loop"
  /\ UNCHANGED <<fsVars, mapVars, task, syncVars, filesLeft, readVars, failure, done>>

Poll == Tick \/ (\E n \in Names : PollFile(n)) \/ PollDone

PollingNext == FileSystem \/ Poll \/ Goroutine \/ (CloseTailer /\ UNCHANGED ops)

PollingSpec == Init /\ [][PollingNext]_vars

\* The ticks go on and the goroutine runs; nothing is promised of the
\* application.  Once done is closed the select of the event loop, which picks
\* at random among its ready cases, does not take ticks for ever.
PollingFairSpec == PollingSpec /\ WF_vars(Poll \/ Unaided) /\ SF_vars(done /\ Shutdown)

\* The application goes on reading Lines() and Errors().
Reading == WF_vars(SendLine) /\ WF_vars(Shutdown)

-----------------------------------------------------------------------------
\* A poll reads each watched file to the end it has when its turn comes, also
\* after a truncation, and syncs first.  So when the file system has come to
\* rest and the application reads, the tailer knows all files and has read all
\* of them, and stays so however many polls follow.
CatchesUp ==
  Reading => <>[](\/ done \/ failure # "none"
                  \/ /\ pc = "loop" => WatchListCurrent
                     /\ \A h \in HandlesIn(watched) : ReadToEnd(h))

\* Close ends the goroutine, whatever it is doing, without help from the
\* application or the file system, and with every file closed.
CloseEndsTailer == done ~> (pc = "returned" /\ OpenHandles = {})
=============================================================================
