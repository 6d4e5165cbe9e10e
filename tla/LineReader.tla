------------------------------ MODULE LineReader ------------------------------
(***************************************************************************)
(* tailer/fswatcher/linereader.go: lines of a bounded length are cut out   *)
(* of a file that others write to.  A bufio.Reader stands between the      *)
(* reader and the file; ReadLine is cut at each read(2), so the writer may *)
(* come in anywhere.  What the buffers hold is positions in the file.      *)
(***************************************************************************)
EXTENDS Integers, SequencesExt

CONSTANTS
  Limits,           \* values of maxLineBytes
  readBufferSize,   \* the size of the bufio.Reader
  MaxBytes          \* bound of the model: the longest file

ASSUME ConstantsAssumption ==
  Limits \subseteq Nat \ {0} /\ readBufferSize \in Nat \ {0} /\ MaxBytes \in Nat

VARIABLES
  maxLineBytes,
  file,        \* the bytes of the file: "x", CR or NL
  offset,      \* its offset
  source,      \* r.source: "none", the "current" file, or the file "before" a rename
  buffered,    \* the unread bytes of the bufio.Reader
  eof,         \* its pending io.EOF
  buf,         \* r.buf[:r.pos]
  overflow, discardingTooLongLine,
  pc,          \* where ReadLine is; "idle" between two calls
  atEOF,       \* the last ReadLine returned eof
  lines,       \* what readNewLines sent of this file, and where each line starts
  rebound      \* history: the reader was re-bound with bytes in the bufio.Reader

fileVars == <<maxLineBytes, file>>
bufioVars == <<buffered, eof, offset>>
readerVars == <<buf, overflow, discardingTooLongLine>>
vars == <<fileVars, bufioVars, readerVars, source, pc, atEOF, lines, rebound>>

NL == "newline"
CR == "\r"

Init ==
  /\ maxLineBytes \in Limits
  /\ file = <<>> /\ offset = 0
  /\ source = "none" /\ buffered = <<>> /\ eof = FALSE
  /\ buf = <<>> /\ overflow = <<>> /\ discardingTooLongLine = FALSE
  /\ pc = "idle" /\ atEOF = FALSE
  /\ lines = <<>>
  /\ rebound = FALSE

From(s, k) == SubSeq(s, k, Len(s))

\* bytes.IndexByte: the index of the first newline, 0 if there is none.
IndexNewline(s) == SelectInSeq(s, LAMBDA p : file[p] = NL)

stripWindowsLineEnding(s) ==
  IF s # <<>> /\ file[Last(s)] = CR THEN Front(s) ELSE s

-----------------------------------------------------------------------------
(* The file: other processes, and what the tailer does about it.            *)

AppendByte(b) ==
  /\ Len(file) < MaxBytes
  /\ file' = Append(file, b)
  /\ UNCHANGED <<maxLineBytes, bufioVars, readerVars, source, pc, atEOF, lines, rebound>>

\* The file was renamed: the next ReadLine gets another *os.File, with the offset.
Rename ==
  /\ pc = "idle" /\ source = "current"
  /\ source' = "before"
  /\ UNCHANGED <<fileVars, bufioVars, readerVars, pc, atEOF, lines, rebound>>

Clear ==
  /\ buf' = <<>> /\ overflow' = <<>> /\ discardingTooLongLine' = FALSE
  /\ source' = "none" /\ buffered' = <<>> /\ eof' = FALSE

\* The file was truncated, and processEvent noticed: Seek(0) and Clear.
Truncated ==
  /\ pc = "idle" /\ file # <<>>
  /\ file' = <<>> /\ offset' = 0 /\ lines' = <<>> /\ rebound' = FALSE
  /\ Clear
  /\ atEOF' = FALSE
  /\ UNCHANGED <<maxLineBytes, pc>>

-----------------------------------------------------------------------------
(* readChunk, with ReadSlice('\n') of bufio.                                *)

\* What readChunk returns without a read(2), if it can.
ChunkReady ==
  \/ overflow # <<>> \/ IndexNewline(buffered) > 0
  \/ Len(buffered) >= readBufferSize \/ eof

\* Mutant of Chunk: what was set aside is read after the file's next bytes.
ChunkOverflowLast ==
  CASE IndexNewline(buffered) > 0 -> SubSeq(buffered, 1, IndexNewline(buffered))
    [] IndexNewline(buffered) = 0 /\ buffered # <<>> -> buffered
    [] OTHER -> overflow

Chunk ==
  CASE overflow # <<>> -> overflow
    [] overflow = <<>> /\ IndexNewline(buffered) > 0 ->
         SubSeq(buffered, 1, IndexNewline(buffered))
    [] OTHER -> buffered

\* The chunk comes with io.EOF.
ChunkEOF == overflow = <<>> /\ IndexNewline(buffered) = 0 /\ eof

TakeChunk ==
  /\ buffered' = IF overflow # <<>> THEN buffered ELSE From(buffered, Len(Chunk) + 1)
  /\ eof' = (eof /\ ~ChunkEOF)
  /\ UNCHANGED offset

\* bufio's fill: one read(2).
Fill ==
  /\ \/ pc = "line" /\ IndexNewline(buf) = 0
     \/ pc = "discard" /\ IndexNewline(buf) = 0
  /\ ~ChunkReady
  /\ LET n == Min({readBufferSize - Len(buffered), Len(file) - offset})
     IN  /\ buffered' = buffered \o [k \in 1 .. n |-> offset + k]
         /\ offset' = offset + n
         /\ eof' = (n = 0)
  /\ UNCHANGED <<fileVars, readerVars, source, pc, atEOF, lines, rebound>>

-----------------------------------------------------------------------------
(* ReadLine.                                                                *)

\* Mutant of Rebind: the bytes buffered for the old file are dropped.
RebindDrops ==
  /\ source' = "current"
  /\ buffered' = IF source = "before" THEN <<>> ELSE buffered
  /\ UNCHANGED <<overflow, rebound>>

\* A reader bound to another file is replaced, and the bytes it had read kept.
Rebind ==
  /\ source' = "current"
  /\ IF source = "before"
       THEN /\ overflow' = overflow \o buffered
            /\ buffered' = <<>>
            /\ rebound' = (rebound \/ buffered # <<>>)
       ELSE UNCHANGED <<overflow, buffered, rebound>>

Call ==
  /\ pc = "idle"
  /\ Rebind
  /\ eof' = FALSE
  /\ pc' = IF discardingTooLongLine THEN "discard" ELSE "line"
  /\ atEOF' = FALSE
  /\ UNCHANGED <<fileVars, offset, buf, discardingTooLongLine, lines>>

ReturnLine ==
  /\ pc = "line" /\ IndexNewline(buf) > 0
  /\ LET n == IndexNewline(buf)
     IN  /\ lines' = Append(lines, [start |-> Head(buf), bytes |-> stripWindowsLineEnding(SubSeq(buf, 1, n - 1)),
                                    truncated |-> FALSE])
         /\ buf' = From(buf, n + 1)
  /\ pc' = "idle"
  /\ UNCHANGED <<fileVars, bufioVars, overflow, discardingTooLongLine, source, atEOF, rebound>>

TooLong == Len(buf) + Len(Chunk) > maxLineBytes

BufferChunk ==
  /\ pc = "line" /\ IndexNewline(buf) = 0 /\ ChunkReady
  /\ Chunk # <<>> /\ ~TooLong
  /\ TakeChunk
  /\ buf' = buf \o Chunk
  /\ overflow' = <<>>
  /\ UNCHANGED <<fileVars, discardingTooLongLine, source, pc, atEOF, lines, rebound>>

\* lineTooLongError: readNewLines sends the first part, if it is not empty.
ReturnTooLong ==
  /\ pc = "line" /\ IndexNewline(buf) = 0 /\ ChunkReady
  /\ Chunk # <<>> /\ TooLong
  /\ TakeChunk
  /\ LET fitBytes == maxLineBytes - Len(buf)
     IN  /\ buf' = buf \o SubSeq(Chunk, 1, fitBytes)
         /\ overflow' = From(Chunk, fitBytes + 1)
  /\ discardingTooLongLine' = TRUE
  /\ LET line == stripWindowsLineEnding(buf')
     IN  lines' = IF line = <<>> THEN lines
                  ELSE Append(lines, [start |-> Head(buf'), bytes |-> line, truncated |-> TRUE])
  /\ pc' = "idle"
  /\ UNCHANGED <<fileVars, source, atEOF, rebound>>

\* Mutant of ReturnEOF: the loop goes on until there is a line.
ReturnEOFNever ==
  /\ pc = "line" /\ IndexNewline(buf) = 0 /\ ChunkReady
  /\ Chunk = <<>>
  /\ TakeChunk
  /\ UNCHANGED <<fileVars, readerVars, source, pc, atEOF, lines, rebound>>

ReturnEOF ==
  /\ pc = "line" /\ IndexNewline(buf) = 0 /\ ChunkReady
  /\ Chunk = <<>>
  /\ TakeChunk
  /\ pc' = "idle" /\ atEOF' = TRUE
  /\ UNCHANGED <<fileVars, readerVars, source, lines, rebound>>

-----------------------------------------------------------------------------
(* discardUntilNewline.                                                     *)

setBufferFromBytes(data) ==
  LET copySize == Min({Len(data), maxLineBytes})
  IN  buf' = SubSeq(data, 1, copySize) /\ overflow' = From(data, copySize + 1)

\* The newline is found: what follows it is kept.
DiscardEnds ==
  /\ discardingTooLongLine' = FALSE
  /\ pc' = "line"
  /\ UNCHANGED <<fileVars, source, atEOF, lines, rebound>>

DiscardInBuffer ==
  /\ pc = "discard" /\ IndexNewline(buf) > 0
  /\ buf' = From(buf, IndexNewline(buf) + 1)
  /\ UNCHANGED <<bufioVars, overflow>>
  /\ DiscardEnds

\* In the overflow, or else in the next chunk of the file.
DiscardFindsNewline ==
  /\ pc = "discard" /\ IndexNewline(buf) = 0 /\ ChunkReady
  /\ IndexNewline(Chunk) > 0
  /\ TakeChunk
  /\ setBufferFromBytes(From(Chunk, IndexNewline(Chunk) + 1))
  /\ DiscardEnds

\* No newline: the chunk is dropped, and at the end of the file ReadLine returns.
DiscardChunk ==
  /\ pc = "discard" /\ IndexNewline(buf) = 0 /\ ChunkReady
  /\ IndexNewline(Chunk) = 0
  /\ TakeChunk
  /\ overflow' = <<>>
  /\ pc' = IF ChunkEOF THEN "idle" ELSE pc
  /\ atEOF' = ChunkEOF
  /\ UNCHANGED <<fileVars, buf, discardingTooLongLine, source, lines, rebound>>

Discard == DiscardInBuffer \/ DiscardFindsNewline \/ DiscardChunk

ReadLine == Fill \/ ReturnLine \/ BufferChunk \/ ReturnTooLong \/ ReturnEOF \/ Discard

Next ==
  \/ \E b \in {"x", CR, NL} : AppendByte(b)
  \/ Rename \/ Truncated
  \/ Call \/ ReadLine

Spec == Init /\ [][Next]_vars

\* The goroutine that called ReadLine runs.
FairSpec == Spec /\ WF_vars(ReadLine)

-----------------------------------------------------------------------------
(* The reference: the lines of the file as a whole, each cut to the limit.  *)
Starts == {1} \cup {p + 1 : p \in {q \in DOMAIN file : file[q] = NL}}
NewlineAfter(s) == {p \in s .. Len(file) : file[p] = NL}
Content(s) == LET end == IF NewlineAfter(s) = {} THEN Len(file) ELSE Min(NewlineAfter(s)) - 1
              IN  [k \in 1 .. end - s + 1 |-> s + k - 1]

\* What src/README.md:79 calls a line that exceeds the limit: its text does.
Exceeds(s) == Len(stripWindowsLineEnding(Content(s))) > maxLineBytes
\* The line with its ending is over the limit.
Over(s) == Len(Content(s)) + (IF NewlineAfter(s) = {} THEN 0 ELSE 1) > maxLineBytes

Cut(s) == stripWindowsLineEnding(
            SubSeq(Content(s), 1, Min({Len(Content(s)), maxLineBytes})))

\* A line may be sent once it has ended or is too long already, and must be,
\* unless it is cut and nothing is left of it.
Ready(s) == NewlineAfter(s) # {} \/ Over(s)
Reported(s) == Ready(s) /\ (Over(s) => Cut(s) # <<>>)

\* Re-binding takes over what the bufio.Reader holds.  That may be several lines,
\* which as a whole must not be too long for one: with a buffer larger than the
\* limit their head would be sent as one line, and partly sent again.
Fits == ~rebound \/ readBufferSize <= maxLineBytes

\* However the bytes come, in whatever pieces the writer wrote and read(2) and
\* bufio cut them, and also when the reader is re-bound to a renamed file with
\* bytes in the bufio.Reader (lines 86-91), the lines sent are the first ones of
\* the file taken as a whole: none is split, joined, lost or repeated, and one that
\* is too long swallows nothing of the next.  A line whose text exceeds the limit is
\* flagged, one that fits with its ending is not.  If only the ending is over the limit
\* the flag is left open: line 121 sets it, by src/README.md:79 it should not.
LinesAsWritten ==
  Fits =>
    /\ \A i \in 1 .. Len(lines) :
         /\ lines[i].start \in Starts /\ Ready(lines[i].start)
         /\ lines[i].bytes = Cut(lines[i].start)
         /\ Exceeds(lines[i].start) => lines[i].truncated
         /\ lines[i].truncated => Over(lines[i].start)
    /\ \A i, j \in 1 .. Len(lines) : i < j => lines[i].start < lines[j].start
    /\ \A i \in 1 .. Len(lines) : \A s \in Starts :
         Reported(s) /\ s < lines[i].start => \E j \in 1 .. Len(lines) : lines[j].start = s

\* When ReadLine returns eof it has held nothing back but an unfinished line.
NothingHeldBack ==
  Fits /\ pc = "idle" /\ atEOF /\ offset = Len(file) =>
    \A s \in Starts : Reported(s) => \E i \in 1 .. Len(lines) : lines[i].start = s

\* ReadLine returns, also from the middle of a line that is too long.
ReadLineReturns == pc # "idle" ~> pc = "idle"
=============================================================================
