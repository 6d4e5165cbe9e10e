# TLA+ models of go-libtail

go-libtail tails log files: it watches the directories of a set of globs, reads the
lines written to matching files, follows files through log rotation, and hands every
line to the application over a channel. This directory models it, checks the models
with TLC and proves part of them with TLAPS. Paths below are relative to `src/tailer/`
unless they start otherwise.

## 1. Inventory

| Component | Code | State | Operations | Hard behaviour | What makes it correct |
|---|---|---|---|---|---|
| Line buffer | `lineBuffer.go` | slots, head, tail, len, empty, closed, waiters of a `sync.Cond` | Push, BlockingPop, Len, Clear, Close | wrapping and growing, waking poppers | FIFO; no lost wakeup; nil only when closed |
| Buffered tailer | `bufferedTailer.go` | a line buffer, a metric, channels `out` and `done` | producer and consumer goroutine, Close | several critical sections per line; slow or absent application | order, no loss without a limit, the limit, the metric, termination |
| File tailer core | `fswatcher/fswatcher.go` | `watchedDirs`, `watchedFiles`, channels `lines`, `errors`, `done` | runFileTailer, syncFilesInDir, readNewLines, shutdown, Close | the file system changes between any two system calls; blocking sends; errors | each line once and in order; the watch list is that of the directories; no leak; it ends when told and never silently |
| inotify watcher | `fswatcher/fswatcher_linux.go`, `file_linux.go` | inotify descriptor, watch descriptors | watchDir, processEvent, findSameFile, isTruncated, ls, open, NewFile | events are late, merged, or lost when the queue overflows | everything is read once the events are used up |
| kqueue watcher | `fswatcher/fswatcher_darwin.go`, `file_darwin.go` | kqueue, one descriptor per directory and file | watchDir, watchFile, processEvent, ls, open, NewFile | events name descriptors, whose numbers are reused | as for inotify |
| Windows watcher | `fswatcher/fswatcher_windows.go`, `file_windows.go` | path, offset and file index per file | processEvent, Read, Seek, CheckTruncated, reopen, ls, open | every operation opens the file by name again, and may find it renamed, replaced, or locked | as for inotify, or an error |
| Polling watcher | `fswatcher/pollingwatcher.go` | none | a poll: sync all, then read all | changes during a poll | it catches up |
| Producer loops | `fswatcher/fseventProducerLoop_*.go`, `pollingFseventProducerLoop.go` | batch read, channels | a goroutine in a blocking read, or with a timer | shutdown while it blocks | it always ends; no event is lost |
| Line reader | `fswatcher/linereader.go` | a `bufio.Reader`, buffered bytes, overflow, discarding flag | ReadLine, Clear | length limit, writes between reads, re-binding to a renamed file | lines are those of the file taken as a whole |
| Globs | `glob/glob.go`, `glob/validator.go` | none | Parse, FromPath, Match | the validator's state machine; rewriting of a valid pattern | a valid glob can be matched; wildcards in the file name only |
| stdin tailer | `stdinTailer.go` | channels | one loop | cannot be stopped | lines in order |
| Command | `src/cmd/tailer/tailer.go` | processed lines | one select loop | ends at a count of lines | |
| Errors | `fswatcher/errors.go` | none | | | |

How they interact. The application calls `RunFileTailer` (or the polling variant), which
starts the *consumer* goroutine; that starts the *producer* goroutine of the watcher and
receives file system events from it over an unbuffered channel. The consumer handles an
event to its end, sends lines over the unbuffered `lines` and at most one error over
`errors`, and shuts down when `done` is closed. Each watched file has a line reader, which
stays with the file when it is renamed. `BufferedTailer` wraps any tailer with two
more goroutines and a line buffer, so that the consumer need not wait for the application.

The main hazards of this code, each at its line, are in `PROJECT.json`.

## 2. Modules

    LineQueue  <--implements--  LineBuffer  <--  LineBufferProofs
        ^ INSTANCE
    BufferedTailer  <--  BufferedTailerProofs

    FileTailer  <--  InotifyTailer  <--  InotifyTailerProofs
                <--  KqueueTailer  <--  KqueueTailerProofs
                <--  PollingTailer  <--  WindowsTailer  <--  WindowsTailerProofs
                <--  FileTailerProofs  <--  InotifyTailerProofs, KqueueTailerProofs, WindowsTailerProofs

    TailerLifecycle  <--  TailerLifecycleProofs

    LineReader  <--  LineReaderProofs

    Glob

(`<--` is EXTENDS.) `MC*` modules instantiate the specifications for TLC; each `.cfg` is one run. In
every module a definition described as a *mutant* of another one is that operation with a plausible
slip; no specification uses it. It is there to show that the property it is paired with in
`PROJECT.json` would notice the slip.

**LineQueue** is what `lineBuffer.go` promises its callers: a sequence, a closed flag and
the set of callers inside `BlockingPop`.

**LineBuffer** is the code: one action per method, since a method holds the mutex from its
first statement to its return, except `BlockingPop`, which gives it up in `Wait`. A popper is
`idle`, `locking` (about to test the loop condition with the mutex) or `waiting`; `Signal`
moves one waiter to `locking`. `Grown` unrolls the ring as `grow` does. A push to a closed
buffer changes nothing and is left out as a step. `lineBufferInitialSize` (1024) is the
constant `InitialSize`.

**BufferedTailer** has one action per statement of the two goroutines that touches shared
state: the producer's receive, `Len` test, `Clear`, `Set(0)`, `Push`, `Inc`, and the consumer's
pop, `Dec` and select. It uses the abstract queue, since LineBuffer implements it. The wrapped
tailer (`orig`) is one of files, which may stop at any time and does so after Close
(TailerLifecycle shows that), or one of stdin, whose Close does nothing and which ends
without closing its lines. The parameter `maxLinesInBuffer` is the variable `limit`, chosen in
`Init` from `Limits`. Lines are numbered in the order they come.

**FileTailer** has the file system (files by inode, names, contents) with the operations of
other processes, and the consumer goroutine cut at every system call something can come
before: opening a directory with the reading of its names (`StartSync`), the `lstat` of each
name that `Readdir` does next (`LstatEntry`), the comparison with the watched files and the
opening by name (`SyncEntry`), each read of a chunk (`ReadChunk`), each send. A file is
a sequence of *pieces* of which each does or does not end a line; what a reader buffers and
delivers are positions in it, so losing, repeating and reordering are visible. A `handle` is a
`fileWithReader`: inode, name, offset, buffered pieces. The duplicate descriptor that a renamed
file gets shares the offset, so renaming a handle changes its name only. `history` is
a history variable: it records for each file whether it was truncated, moved to another
directory, renamed, renamed in a way that disturbs the sync in progress, renamed to a name that does not
match and back, renamed back to the name the tailer still has it under, or locked, and only `history`
itself depends on it. `Disturbs` says which renames disturb a sync, of a file the tailer has open: *raced*, from a name
whose `lstat` is still to come to one that has had it or did not exist when the names were read, so that the listing misses the file; and
*swapped*, onto the name of a listed file that is not followed yet, which the sync opens without comparing again
(`fswatcher/fswatcher.go:323`). Any other rename during a sync leaves no such mark.

**InotifyTailer** adds the event queue and `processEvent`. The kernel's queue and the part of
it the producer has read ahead are one queue: only merging of equal `IN_MODIFY` events tells
them apart, and `Enqueued` leaves merging open. `MaxQueued` is the kernel's limit, past which one
`IN_Q_OVERFLOW` is queued.

**KqueueTailer** adds descriptor numbers (the lowest free one goes to the next file opened
or duplicated), the registration of files (`watchFile`), the flags that the kernel gathers for each
descriptor until `kevent()` takes them, and the batch of them that the producer hands over.
`Descriptors` says what opening, closing and duplicating a file in a step of FileTailer does to
them. The events of one batch are handled in any order, since kqueue promises none. A file's
NOTE_RENAME, NOTE_DELETE and NOTE_LINK are ignored by the code and left out.

**PollingTailer** adds the tick: sync every directory, then read every watched file.

**WindowsTailer** keeps FileTailer's `handle` as what the code's `File` is there: a path, an
offset and a file index, but no open file. `Reopens` is the comparison of indexes in `reopen`;
each `Read`, `Seek` and truncation check needs it, and other programs can rename, replace, remove or
lock (open without sharing) a file between any two of them. `DisturbsNames` is `Disturbs` for this
sync, which compares each name when its turn comes. The sync opens each listed path to
compare it and once more to read it; between the two the entry stays in `listing`. Events come from fsnotify's queue, whose overflow is an error on its
error channel; `driver` chooses between events and polls, which use the same files.

**TailerLifecycle** leaves out files and contents, and has the two goroutines, their channels,
the kernel's queue, the descriptor and the application: startup, failures at every point, Close
at every point, and the deferred calls of the end in their order. An unbuffered send and its
receive are one step, guarded by both sides. `osSpecific`, chosen in `Init`, tells the four
watchers apart, whose producers differ in how they wait, what wakes them at the end and which
errors they report. The case in which the consumer finds the producer's channels closed is
part of `SelectEnds`; `EndsForAReason` shows that it never ends a tailer that reported no error.

**LineReader** is `ReadLine` with the `bufio.Reader` below it, cut at each `read(2)`. What the
buffers hold is positions in the file, so that splitting, joining, losing or repeating bytes is
visible. Other processes append bytes, truncate the file (`Clear`), or rename it, upon which
`ReadLine` is called with another `*os.File` that shares the offset. A line that was sent is recorded with the
position it starts at. The reference says of each position at which a line of the whole file starts
(`Starts`) whether it is to be sent (`Reported`) and as what (`Cut`); `Exceeds` is what src/README.md
calls a line that exceeds the limit, its text being longer, and `Over` is the code's test, which counts the line
ending too. FileTailer has its own, coarser line reader; this
module justifies it.

**Glob** scans the pattern character by character as `IsPatternValid` does, then makes the
absolute path. `MatchParses` is the reference: the grammar by which `filepath.Match` reads a pattern,
written from the library. `Segments`, `Clean`, `Abs` and `Path` are the library's path functions.

## 3. Runs

| Run (cfg) | Expected | States | Shows |
|---|---|---|---|
| `LineBuffer` | pass | 6,700 | Types, consistent ring, no lost wakeup, nil only when closed, and `ImplementsQueue`, the refinement of LineQueue with its liveness. |
| `BufferedTailer` | pass | 29,000 | `InOrder`, `NothingLost`, `WithinLimit`, `MetricExact`, `MetricNeverAbove`; `CloseTerminates` whatever the application does; `EveryLineDelivered` to one that reads. |
| `BufferedMetricDrift` | violation | | `MetricAtRest`: `Set(0)` overtakes the `Dec` of a line popped before the clearing, and at rest the metric is one too low, until the buffer is cleared again. |
| `Inotify` | pass | 975,000 | `ExactlyOnce`, `OpenFilesWatched`, `WatchListCurrentAtRest`, `AllReadAtRest`, `EveryLineReceived`, every operation (any renames among them) interleaved with names, contents and events, with overflow and Close; for the files each property excepts see below. |
| `InotifyRenamed` | violation | | `RenamedFileOnce`: a file moved between two watched directories is delivered again. |
| `Kqueue` | pass | 621,000 | Types with the bookkeeping of descriptors; `ExactlyOnce`, `AllReadAtRest` (which includes the watch list), `EveryLineReceived`. |
| `Windows` | pass | 910,000 | `ExactlyOnce`, `WatchListCurrentAtRest`, `AllReadAtRest` by events, `PollsCatchUp` by polls. |
| `WindowsReadMoved` | violation | | `MovedFileTriggersSync`: a file renamed right before a `Read` ends the tailer. |
| `Polling` | pass | 629,000 | `OpenFilesWatched`, `CatchesUp`, `CloseEndsTailer`. |
| `TailerLifecycle` | pass | 95,000 | `EndsForAReason`, `CloseTerminates`, `RemovalEndsTailer`, for the four watchers. |
| `LineReader` | pass | 392,000 | `LinesAsWritten`, `NothingHeldBack`, also of a re-bound reader; `ReadLineReturns`. |
| `Glob` | pass | 1,330,000 | `ValidatorExact`, `SingleFile`. |

**Bounds.** Every bound is a constant named as one in its module. LineBuffer starts with one
slot and holds up to five lines, so it grows three times to eight slots, also with the lines
wrapped round the end, and is cleared at every fill; section 5 proves its properties for every
size. BufferedTailer gets five lines at a limit of two, so the buffer is cleared up to twice.
The file tailers have two or three names in one or two directories and three inodes: a rename within
a directory, one across (under inotify to a name that no glob matches), a replacement and a new file
under an old name all fit. Two or
three file system operations at any moments, on top of any set of initial files, reach rename
chains, create-write-rename and races with each step of a sync; the violations need at most
three. `MaxHandles` is large enough never to hold an open back. TailerLifecycle has two
directories and three events, enough for one removal in front of another and behind a change.
LineReader has limits of one to four bytes, a `bufio` buffer of three and six bytes of file:
every line is near the limit and near the end of a chunk, a line that is too long can be
followed by another one, and what a re-bound reader takes over is more than the limit, as much, or less. Glob takes every pattern of up to five characters out of all that the code
looks at and one other: a class with a range needs five.

**What the properties except.** `ExactlyOnce` excepts the files that `history` names as truncated,
moved to another directory, renamed to a name that does not match
and back (the tailer may close such a file between the two and deliver it again from its start), or renamed
by one of the two renames that disturb a sync (`Disturbs`, see `FileTailer` above, and `RenamedFileOnce` in section 4), on Windows files that were locked, and
everything after Close, when a dropped line may be followed by a later one. `AllReadAtRest` excepts files both renamed
and truncated (the sync for the rename does not look for a truncation, and the event of the
truncation comes under the old name) and files that were locked. Under inotify and on Windows it and
`EveryLineReceived` also except a file that came back to the name the tailer had it under: one that is renamed, written and renamed
back before the first sync stays unread until its next write, since the sync finds
it under its old name, and the event of the write comes under the other. Under kqueue, whose events name no
path, such a file is no exception, but there `AllReadAtRest` speaks of reading with
`ReadAll` only: with readall off a file may be truncated between the Seek to its end and its
registration, and no event tells. `LinesAsWritten` and
`NothingHeldBack` except a reader that was re-bound while its `bufio` buffer, larger than the limit, held
bytes (`Fits`, see section 4), and `LinesAsWritten` leaves open whether a line is flagged of which only the ending is over the
limit: the code flags it, and src/README.md:79 speaks of lines that exceed the limit. `NothingLost` speaks of the time until the wrapped tailer ends or
Close completes: once the buffer is closed, `BlockingPop` returns nil and the consumer drops what is queued. `EveryLineDelivered`
ends there as well.

**Fairness.** The Go scheduler runs a goroutine that can go on: weak fairness of the
goroutines' own steps. A `select` picks at random among ready cases, so one that is
always ready is taken in the end: strong fairness of the `done` case of the event loops. A
mutex is not refused for ever: weak fairness of `BlockingPop`. Nothing is assumed of the
application except where a property says `Reading => ...`, and in the fair specifications of the
inotify, kqueue and Windows tailers, where it receives what is sent. The kernel hands over its events: weak
fairness of `Kevent` and of fsnotify's part in `Tailer`. Other processes are never obliged to
do anything. `SourceStops` is weakly fair only after Close, as TailerLifecycle's `CloseTerminates`
justifies, and only for a tailer of files.

Deadlock is checked for LineBuffer. All others may stop: the goroutines have returned, or
wait for events that bounded processes no longer cause.

## 4. What the violations mean

Each is listed under `findings` in `PROJECT.json` with the sentence it contradicts. `RenamedFileOnce` is `ExactlyOnce`
without an exception for files that stay among the matching names, and the second delivery of a line takes one of three renames. The run
shows the first, a watched file that is moved from one watched directory to another. With one directory
(`DirSeq <- OneDir`, paths `a` and `b`, three operations) TLC shows the other two: with `rename` in `Ops` a file renamed
between the `lstat` calls of a listing, past the ones already made (*raced*), and with `create`, `append` and
`overwrite` one renamed onto the name of a new file that is listed but not yet opened, for which a blocked
send of a line leaves time enough (*swapped*). The metric
error needs a full buffer and a consumer between its pop and its `Dec`, and lasts until the next overflow sets the metric to 0
again. The end of the Windows
tailer needs a rename between the truncation check and the read that follows it: `Read` returns the special
error, but `readNewLines` wraps it in another type on the way to the test for it.

More that TLC finds, noted with the hazards:

- With two goroutines in `BlockingPop`, `Close` wakes one and two quick pushes wake one. No caller
  in the repository has two.
- A file renamed, written and renamed back stays unread until its next write (see section 3), except under kqueue.
- The event of a queue overflow ends the tailer at a place whose comment says that it is never reached
  (`fswatcher/fswatcher_linux.go:111`).
- The tailer waits for its error to be received; only Close ends the wait.
- A line of exactly `MaxLineBytes` is sent whole, but flagged as truncated: the newline counts towards the limit
  (`fswatcher/linereader.go:121`), where src/README.md:79 flags a line that exceeds it.
- With a limit of one byte an empty line that ends in `\r\n` is not sent.
- `Parse` accepts some patterns with a quoted separator, such as `\/.`, of which `Clean` makes a glob that `Match`
  refuses; that error is dropped.
- The lines that are queued when the wrapped tailer ends are dropped.
- With a limit below the size of the `bufio` buffer, a reader that is re-bound while that holds several
  lines sends their joined head as one line that is too long, and some of its bytes again
  (`fswatcher/linereader.go:84`). `readNewLines` empties that buffer before the file can be
  renamed under it, unless Close interrupts it; the default limit of 1 MiB is far larger than the buffer.
- A buffered stdin tailer does not end on Close, as the code's TODO admits.

## 5. Proofs

All theorems hold for every value of the constants that the module's `ConstantsAssumption`
allows: numbers are natural, nil is no line, a buffer has at least one slot.

**LineBufferProofs.** `TypeCorrect`, `RingCorrect` (`RingConsistent`), `NilMeansClosed`
(`NilOnlyWhenClosed`) and `OneConsumerNeverSleepsOnWork` (with one consumer, `NoLostWakeup`). The inductive invariant is
`RingInv == TypeOK /\ RingConsistent`. Neither part is inductive alone: that
`head` and `len` stay in range needs `empty <=> len = 0`, which guards the pop, and
where a pushed line lands needs `tail = Slot(len)`. `ModWrap` and `SlotValue` replace the
modulus by a case split (an index wraps at most once), since the SMT backend does not
reason well about `%` with a variable divisor. Each method has a lemma that it preserves the
invariant. The wakeup theorem adds that the only consumer
cannot be `locking` and `waiting` at once, so a push to an empty buffer or a Close wakes the
one that waits. With two consumers the statement is false; BufferedTailer has one, so the
theorem states exactly the case the repository uses.

The second half of the module is the refinement. `RingImplementsQueue`: every behaviour of LineBuffer satisfies the safety
part of LineQueue's specification, with the queued lines read off the slots from `head` on and every
consumer that is not idle inside `BlockingPop`. `QueuedIsSeq` and a lemma for each operation say what it
does to that sequence (`PushAppends` for a push with and without growing, `PopTakesHead`), and under
`RingInv` each step of the ring is one of the queue or a stutter. That a pop that can return does
return (the fairness in LineQueue's specification) is left to the run, see `ImplementsQueue`.

**BufferedTailerProofs.** `TypeCorrect`, `OrderCorrect` (`InOrder`), `LimitCorrect`
(`WithinLimit`), `MetricCorrect` (`MetricExact`), `MetricBounded` (`MetricNeverAbove`) and `LossFree`
(`NothingLost`), for any number of lines and any limits. `Holding` ties where a goroutine is to what
it holds; with `TypeOK` it is inductive. The order is that of the *pipe* (received, held by the
consumer, queued, held by the producer): every step takes a line from one place of the pipe to
the next or drops lines, so the pipe stays increasing; `QueueOrder`, `LineOrder` and `ResultOrder`
say so of each two places of it. `WithinLimit` needs more than the code's test: between test and push
only the consumer can change the buffer's length, and it only shrinks it, so `Room` bounds the
length by the producer's position. `NothingLost` needs that the lines are counted (`Counted`) and that the consumer goes on
while the buffer is open (`Served`).

**FileTailerProofs.** `InotifyOpenFilesWatched`, `KqueueOpenFilesWatched` and
`PollingOpenFilesWatched` state `OpenFilesWatched` for the three watchers: whatever other processes do
between any two system calls, no closed file is worked on and no open one is forgotten. The property
speaks only of the moments between events; what happens within a sync is in the inductive invariant
`FileInv`. `Custody` says that the open files are at every moment those of `watched` and of `after`
and the one being read. It is disturbed if an entry of `after` is overwritten, since that file
would stay open with no name to close it by, so `OnePlace` says that each path of the
directory is in one place only: still to be looked at, listed, being read, or in `after`. `Position` ties what the
goroutine holds to where it is, and `FilesLeft` says that the files a poll has yet to read are still
watched. The module has one lemma for each step of the goroutine and of other processes; the
watchers' modules add the events and the ticks. The proofs need that the inodes suffice for the
files that exist at the start, which `Init` says. `watchedDirs` is not typed
under inotify, where `SelectSeq` changes it, which is beyond the provers; nothing rests on it.

*Deliveries*, the second part of the module, is for `InotifyExactlyOnce`, `KqueueExactlyOnce`,
`PollingExactlyOnce` and `WindowsExactlyOnce`, which state `ExactlyOnce`, with the exceptions named in section 3: for any other renames, any replacements and deletions at any moment, any chunk and file sizes, with and without
`ReadAll`. The inductive invariant is `SyncInv`, which is `DeliveryInv == Known /\ Runs` with `ListingTrue` and `StillToSee`, on top of `FileInv`. `Runs` follows each
line: the pieces delivered, the line held for the application and the buffered pieces are one unbroken run
that ends at the reader's offset, and with `ReadAll` begins at the first piece. That is preserved by
reading; it would break if a file got a second reader, which begins at its start, so the rest (`Known`) is about why
that does not happen. `OneReader`: a file has one reader at most, and one that was read and has no reader any
more is at no matching name, so no sync finds it again. A reader is lost only when a sync finds no entry
for it: `StillToSee` says that during a sync each watched file was kept, is listed, is still to be looked at
or has left the matching names; a *raced* rename is exactly what breaks it. A second one is opened only when `findSameFile` does not see the first:
it looks in `watched`, not in `after`, so `ListingTrue` says that the file at the path of an entry to be opened is followed by nobody,
neither before this sync nor since; a *swapped* rename is exactly what breaks that. On Windows, where each name is compared when its turn comes,
`StillToCompare` and `Between` take the place of the two. `RightDirectory` is needed since a sync drops
the keys of its directory only. Each of these fails for the files that the property excepts; the proof found
the last of the exceptions (a file that leaves the matching names and returns), which the runs' bounds had not reached.

*The watch list*, its third part, is for `InotifyWatchListCurrent` and `WindowsWatchListCurrent`, which state
`WatchListCurrentAtRest`, also for any renames, and for `KqueueAllReadAtRest`, which includes the same. The invariant they share is
`WatchInv(Due)`, where `Due` is the set of directories whose sync an event is still going to ask for. It
says what makes the tailer's picture of a directory stale: `CurrentOrPending`, each directory is as the
tailer knows it, or it is due, or its sync is still to come; for the directory in the midst of a sync the
picture is `SyncCurrent`, which gives each path its stage: to be looked at, listed, being read, in
`after`. A sync changes a picture outside its directory only if it gives a new name to a file that was
renamed since it was listed; `MovedIsPending` says that such a rename has left an event. `OneSync` says
that the other directories' keys are kept. Each watcher says which directories its events make due. Under
inotify these are the directories of the queued events, or all of them behind an overflow, and
`QueueKeeps` is why a full queue or a merged event does no harm: what is dropped is replaced by the
overflow, which ends the tailer, and only an `IN_MODIFY` is merged. On Windows they are those of the queue's name
events, or all of them once fsnotify has lost events. Under kqueue they are the directories
with a flag that the kernel or the batch still has (`Awaited`).

The rest of the module is what the proofs about unread files share: `NameKept` says that a file that was never renamed is where it was
listed and opened, `WithinFiles` that the offset of a file that was never truncated is within it, and
`NeedsNoEvent` which files are read although no event tells of them.

**InotifyTailerProofs**, beyond the theorems named so far, has `InotifyAllReadAtRest` (`AllReadAtRest`). It takes more than
the watch list, since an `IN_MODIFY` bears a path, and by the time it is handled `watchedFiles` may have
another file under that path, or the file under another one. The invariant `AllTold` says of each open file that it
needs no event or is *told* of: an overflow is queued, or an `IN_MODIFY` that
bears the name the tailer has the file under, and `watchedFiles` has the file under no other key when that
event is handled (`OtherPathsGone`). The last part holds because a key that is not the file's
name is one whose directory is due to be synced, and what makes it due was queued before the write
(`OtherPathsPending`, from `WatchInv`): the write comes last, so by the time it is handled the sync has dropped the other keys. That an
event stays good (`ToldStill`, `ToldLater`, `StepTold`) needs that a sync gives a file no key but its name, and forgets the
keys it had in the directory (`StepOtherPaths`). A file at another path than its name needs no event because
the rename has one, and the sync it asks for reads the file. For a file that comes back, that sync finds nothing changed, which is
the exception.

**KqueueTailerProofs.** `KqueueTypeCorrect` (`KqueueTypeOK`, whose part `DescriptorsOK` says that the numbers
tell the open files apart), `KqueueOpenFilesWatched`, `KqueueExactlyOnce` and `KqueueAllReadAtRest`. A step
of the goroutine opens or duplicates one file at most (`OneNewFile`), and of one number more than there may
be files one is free (`FreeDescriptor`, by the pigeonhole principle): so the lowest free number exists
and is nobody else's. That everything is read once the events are used up needs, beside the watch
list, the invariant `ReadInv`. Its core is `WillBeRead`: what is unread of an open file is being read at this moment, or
there is a flag for the present descriptor of the file, pending or in the batch, that will
have it read. That is disturbed by three things. A file that was opened or duplicated has no knote, so it
must be on its way to be registered and read, from an offset that it has. An offset
past the end of the file waits for a NOTE_ATTRIB, and the test it asks for must not use up the
NOTE_WRITE of what was written since: that one is in the same event or still pending. And a number that
is given to another file takes no old flag with it: `KnotesRegistered` says that only registered
descriptors have pending flags, and what the batch still holds for an old number does no harm, since it can
only lead to a reading too many. Only renamed files are ever duplicated (`NameKept`). The exception of `ReadUp` is `Lost`:
a pending NOTE_ATTRIB dies with the descriptor that is duplicated.

**WindowsTailerProofs** has the theorems about polling on the other systems, and about Windows
`WindowsExactlyOnce` (by events and by polls), `WindowsWatchListCurrent` and `WindowsAllReadAtRest` (`AllReadAtRest`). There a
`handle` is no open file, but what must be true of it is the same: which path has it in which stage of a sync, that a file has one reader, and how far that
has read. So FileTailer's invariants hold on Windows as well, with `StillToCompare` in the
place of `StillToSee` and three additions, all in `WindowsInv`. An operation that fails leaves the maps as they are in the midst of a sync, so the invariants are claimed of a
tailer that is `Running` and of a failed one only that what it has delivered is in order (`Served`). `Between` says what holds
between two opens of one operation: the file at a path that was compared and is about to be opened has no reader, although
another file may have been moved there since; a file about to be sought to its end has delivered nothing; and one that
is sought to its start was truncated, hence excepted. `LockedExist` says that a locked path keeps its file and that this file's
history knows of the lock. The steps that the systems share are lemmas of FileTailerProofs about what a step does to
the variables (`Listed`, `SyncFrame`), not about FileTailer's actions, and each Windows step is shown to be of that form
(`ListDirLists`, `FoundSameIs`, `OpenFileOpens`). The read theorem follows inotify's (`Told`,
`OtherPathsGone`); new are the Write that no longer finds its file at its path, which needs no event of its own because a name event
is behind it in the queue (or the file is locked, which is the exception), and the seek between the test for a
truncation and the read (`Unconcerned`).

**TailerLifecycleProofs.** `TypeCorrect` and `EndsForAReasonCorrect` (`EndsForAReason`), for every set
of directories and each watcher. The property is not inductive because the consumer may also end
silently, when it finds the producer's channels closed. `ProducerReturned` shows why that takes a
Close: the producer only returns after it was told to, or after it handed over an error or
the end of a directory, and then the consumer is on its way to send its own error. `ErrorReceived`
says that a tailer that has left its loop has been closed or its error was received.

**LineReaderProofs.** `LinesAsWrittenCorrect` and `NothingHeldBackCorrect`, for any limit, any size of the `bufio`
buffer, any file, writes between any two reads, and truncations and renames between any two calls of `ReadLine`. Nothing of the reference is
recursive, so this is an argument about intervals of positions. `Pieces` says that what the reader holds is in one
piece: `buf`, `overflow` and the `bufio` buffer are intervals, one after the other, that begin at the start
of a line (`begin`) and end at the offset; while the rest of a long line is discarded, `buf` has its
first part and what follows begins at `rest`. `OneLineEach` says that `buf` and `overflow` have a newline
at their end only, since a chunk ends at the first one, unless they hold what was taken over from another
`bufio.Reader`: several lines, which together must not be too long for one, and that is what `Fits` is
needed for. `Sent` ties the output to the position: every line before `begin` that is to be sent was sent,
once and in order, and none after it but the one that is being discarded. It rests on the lemmas `EndedLinesFact`,
`OpenLinesFact` and `LongLinesFact` about the reference: a line that has ended, or is too long already, is the same
whatever is appended, and an unfinished one that is not is not yet to be sent. `AllReadAtEOF` says that ReadLine returns
`io.EOF` with the other buffers empty and no newline in `buf`, so `NothingHeldBack` follows from `Sent`. That a
set of numbers has a least one (`LeastNumber`, by the library's theorem of well-founded induction) is all the
induction that it takes. The invariant knows what the code makes of each line (`Line`, flagged if it is `Over`); that `LinesAsWritten`
follows takes `ExceedsIsOver`.

Only model-checked: all liveness (among it that polls catch up, on Windows and elsewhere); Glob, whose reference is recursive over data, so that a proof for every input would be an induction that the backends cannot do.

## 6. Not modelled

- The command line tool (one select loop) and the error type.
- The error of a single file within a sync on Linux and macOS (`fstat`, `lseek`, `dup`, and `open` other
  than "not found"); WindowsTailer has them, and their effect on the goroutine is TailerLifecycle's
  `WorkFails`.
- Directories whose names match a glob, which a sync skips (`fswatcher/fswatcher.go:289-292`).
- Hard links; a watched directory that is renamed, moved or unmounted; finalizers that close files.
- The decoding of inotify's event buffer and its short-read error.
- Windows: the listing of a directory as several calls, handles that are never closed (`FindClose`, some
  failing paths), and absolute paths in `Glob`, where the library knows other separators.
- The bytes of lines in the file tailers; LineReader has them. Read errors in LineReader;
  WindowsTailer has them.
- A truncated file that has grown past its old offset again is read on from there, as in the code; the
  models have this and no property speaks of it.
- Logging, and the contents of error messages.

## 7. Plan

Left to do: a model of the command line
tool on top of BufferedTailer; the several calls of a Windows directory listing.
