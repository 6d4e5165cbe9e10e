---------------------------- MODULE BufferedTailer ----------------------------
(***************************************************************************)
(* tailer/bufferedTailer.go: two goroutines and a line buffer between a    *)
(* wrapped tailer ("orig") and the application.  The producer moves lines  *)
(* from orig.Lines() into the buffer, the consumer from the buffer to the  *)
(* unbuffered channel out.  Both update a BufferLoadMetric beside the      *)
(* buffer, each update being a step of its own.                            *)
(*                                                                         *)
(* The buffer is the abstract queue of LineQueue, which LineBuffer (the    *)
(* ring buffer) is shown to implement.  Lines are numbered in the order    *)
(* orig delivers them.                                                     *)
(***************************************************************************)
EXTENDS Integers, Sequences, FiniteSets

CONSTANTS
  MaxLines,          \* bound of the model: lines orig delivers
  Limits             \* values of the parameter maxLinesInBuffer, 0 for no limit

ASSUME ConstantsAssumption ==
  /\ MaxLines \in Nat
  /\ Limits \subseteq Nat

VARIABLES
  queue, closed, popping, result,  \* the line buffer, see LineQueue
  limit,        \* maxLinesInBuffer, 0 for no limit
  orig,         \* the wrapped tailer: of a "file", of "stdin", or of a stdin that
                \* "ended", whose goroutine has returned
  next,         \* the number of the line orig delivers next
  srcClosed,    \* orig.Lines() is closed
  app,          \* the application: "open", "closing" (orig.Close() was
                \* called) or "closed" (done is closed too)
  producer,     \* where the producer goroutine is
  line,         \* the line it holds
  consumer,     \* where the consumer goroutine is
  metric,       \* the load the metric shows
  received      \* the lines the application got from out

buffer == <<queue, closed, popping, result>>
vars == <<buffer, limit, orig, next, srcClosed, app, producer, line, consumer, metric, received>>

NIL == 0
C == "consumer"
Buffer == INSTANCE LineQueue WITH
  Lines <- 1 .. MaxLines, Consumers <- {C}, MaxLen <- MaxLines

Init ==
  /\ Buffer!Init
  /\ limit \in Limits
  /\ orig \in {"file", "stdin"}
  /\ next = 1
  /\ srcClosed = FALSE
  /\ app = "open"
  /\ producer = "receive"
  /\ line = NIL
  /\ consumer = "pop"
  /\ metric = 0
  /\ received = <<>>

done == app = "closed"

-----------------------------------------------------------------------------
(* The wrapped tailer.  That of files closes its lines because Close was    *)
(* called on it or because of an error of its own.  That of stdin (see      *)
(* stdinTailer.go) has a Close that does nothing, and at the end of stdin   *)
(* its goroutine returns and leaves its lines open.                         *)

SourceStops ==
  /\ orig = "file"
  /\ ~srcClosed
  /\ srcClosed' = TRUE
  /\ UNCHANGED <<limit, orig, buffer, next, app, producer, line, consumer, metric, received>>

\* ReadString fails: the error is sent, an unfinished last line is not.
StdinEnds ==
  /\ orig = "stdin"
  /\ orig' = "ended"
  /\ UNCHANGED <<limit, buffer, next, srcClosed, app, producer, line, consumer, metric, received>>

-----------------------------------------------------------------------------
(* The producer goroutine.                                                  *)

ReceiveLine ==
  /\ producer = "receive"
  /\ ~srcClosed /\ orig # "ended"
  /\ next <= MaxLines
  /\ line' = next
  /\ next' = next + 1
  /\ producer' = "checkLimit"
  /\ UNCHANGED <<limit, orig, buffer, srcClosed, app, consumer, metric, received>>

\* Mutants of LimitReached: 0 does not mean "no limit"; one line too many.
LimitReachedAtZero == Len(queue) > limit - 1
LimitReachedLate == limit > 0 /\ Len(queue) > limit

\* maxLinesInBuffer > 0 && buffer.Len() > maxLinesInBuffer-1
LimitReached == limit > 0 /\ Len(queue) > limit - 1

CheckLimit ==
  /\ producer = "checkLimit"
  /\ producer' = IF LimitReached THEN "clear" ELSE "push"
  /\ UNCHANGED <<limit, orig, buffer, next, srcClosed, app, line, consumer, metric, received>>

\* Mutant of ClearBuffer: the metric is not reset.
ClearBufferOnly ==
  /\ producer = "clear"
  /\ Buffer!Clear
  /\ producer' = "push"
  /\ UNCHANGED <<limit, orig, next, srcClosed, app, line, consumer, metric, received>>

ClearBuffer ==
  /\ producer = "clear"
  /\ Buffer!Clear
  /\ producer' = "resetMetric"
  /\ UNCHANGED <<limit, orig, next, srcClosed, app, line, consumer, metric, received>>

ResetMetric ==
  /\ producer = "resetMetric"
  /\ metric' = 0
  /\ producer' = "push"
  /\ UNCHANGED <<limit, orig, buffer, next, srcClosed, app, line, consumer, received>>

PushLine ==
  /\ producer = "push"
  /\ Buffer!Push(line)
  /\ line' = NIL
  /\ producer' = "incMetric"
  /\ UNCHANGED <<limit, orig, next, srcClosed, app, consumer, metric, received>>

IncMetric ==
  /\ producer = "incMetric"
  /\ metric' = metric + 1
  /\ producer' = "receive"
  /\ UNCHANGED <<limit, orig, buffer, next, srcClosed, app, line, consumer, received>>

\* Mutants of ReceiveClosed: the buffer is left open; "open" is not tested.
ReceiveClosedOnly ==
  /\ producer = "receive"
  /\ srcClosed
  /\ producer' = "returned"
  /\ UNCHANGED <<limit, orig, buffer, next, srcClosed, app, line, consumer, metric, received>>

ReceiveClosedUntested ==
  /\ producer = "receive"
  /\ srcClosed
  /\ producer' = "push"
  /\ UNCHANGED <<limit, orig, buffer, next, srcClosed, app, line, consumer, metric, received>>

ReceiveClosed ==
  /\ producer = "receive"
  /\ srcClosed
  /\ Buffer!Close
  /\ producer' = "returned"
  /\ UNCHANGED <<limit, orig, next, srcClosed, app, line, consumer, metric, received>>

Producer ==
  \/ ReceiveLine \/ CheckLimit \/ ClearBuffer \/ ResetMetric
  \/ PushLine \/ IncMetric \/ ReceiveClosed

-----------------------------------------------------------------------------
(* The consumer goroutine; the line it holds is result[C].                  *)

StartPop ==
  /\ consumer = "pop"
  /\ Buffer!Call(C)
  /\ consumer' = "popping"
  /\ UNCHANGED <<limit, orig, next, srcClosed, app, producer, line, metric, received>>

PopReturns ==
  /\ consumer = "popping"
  /\ \/ Buffer!ReturnLine(C) /\ consumer' = "decMetric"
     \/ Buffer!ReturnNil(C) /\ consumer' = "returned"     \* close(out)
  /\ UNCHANGED <<limit, orig, next, srcClosed, app, producer, line, metric, received>>

\* Mutant of DecMetric: the popped line is still counted.
DecMetricForgotten ==
  /\ consumer = "decMetric"
  /\ consumer' = "send"
  /\ UNCHANGED <<limit, orig, buffer, next, srcClosed, app, producer, line, metric, received>>

DecMetric ==
  /\ consumer = "decMetric"
  /\ metric' = metric - 1
  /\ consumer' = "send"
  /\ UNCHANGED <<limit, orig, buffer, next, srcClosed, app, producer, line, received>>

\* Mutant of Deliver: the consumer sends the line again.
DeliverTwice ==
  /\ consumer = "send"
  /\ received' = Append(received, result[C])
  /\ consumer' \in {"pop", "send"}
  /\ UNCHANGED <<limit, orig, buffer, next, srcClosed, app, producer, line, metric>>

\* The application takes the line from out.
Deliver ==
  /\ consumer = "send"
  /\ received' = Append(received, result[C])
  /\ consumer' = "pop"
  /\ UNCHANGED <<limit, orig, buffer, next, srcClosed, app, producer, line, metric>>

\* Mutant of DropLine: a default case instead of case <-done.
DropLineAnytime ==
  /\ consumer = "send"
  /\ consumer' = "pop"
  /\ UNCHANGED <<limit, orig, buffer, next, srcClosed, app, producer, line, metric, received>>

\* case <-done: the line is dropped and the loop goes on.
DropLine ==
  /\ consumer = "send"
  /\ done
  /\ consumer' = "pop"
  /\ UNCHANGED <<limit, orig, buffer, next, srcClosed, app, producer, line, metric, received>>

outClosed == consumer = "returned"

-----------------------------------------------------------------------------
(* The application calls Close once: orig.Close(), then close(done).        *)

CloseOrig ==
  /\ app = "open"
  /\ app' = "closing"
  /\ UNCHANGED <<limit, orig, buffer, next, srcClosed, producer, line, consumer, metric, received>>

CloseDone ==
  /\ app = "closing"
  /\ app' = "closed"
  /\ UNCHANGED <<limit, orig, buffer, next, srcClosed, producer, line, consumer, metric, received>>

Consumer == StartPop \/ PopReturns \/ DecMetric \/ Deliver \/ DropLine
Next == SourceStops \/ StdinEnds \/ Producer \/ Consumer \/ CloseOrig \/ CloseDone

Spec == Init /\ [][Next]_vars

\* The scheduler runs both goroutines and the wrapped tailer; the consumer's send waits for the
\* application or for done, so Deliver itself is not promised.  A tailer that
\* was closed stops, and Close itself runs to its end.
FairSpec ==
  /\ Spec
  /\ WF_vars(Producer)
  /\ WF_vars(StartPop) /\ WF_vars(PopReturns) /\ WF_vars(DecMetric) /\ WF_vars(DropLine)
  /\ WF_vars(app # "open" /\ SourceStops)
  /\ WF_vars(CloseDone)

\* The application goes on reading Lines().
Reading == WF_vars(Deliver)

-----------------------------------------------------------------------------
TypeOK ==
  /\ limit \in Limits
  /\ queue \in Seq(1 .. MaxLines)
  /\ closed \in BOOLEAN
  /\ popping \subseteq {C}
  /\ result \in [{C} -> 0 .. MaxLines]
  /\ orig \in {"file", "stdin", "ended"}
  /\ next \in 1 .. MaxLines + 1
  /\ srcClosed \in BOOLEAN
  /\ app \in {"open", "closing", "closed"}
  /\ producer \in {"receive", "checkLimit", "clear", "resetMetric", "push",
                   "incMetric", "returned"}
  /\ line \in 0 .. MaxLines
  /\ consumer \in {"pop", "popping", "decMetric", "send", "returned"}
  /\ metric \in Int
  /\ received \in Seq(1 .. MaxLines)

\* The lines on their way, in the order of the pipe.
ConsumerHolds == IF consumer \in {"decMetric", "send"} THEN <<result[C]>> ELSE <<>>
ProducerHolds == IF line # NIL THEN <<line>> ELSE <<>>
Pipe == received \o ConsumerHolds \o queue \o ProducerHolds

\* Wherever the goroutines are, the lines received, held and queued are in the
\* order orig sent them, and none is there twice.
InOrder == \A i, j \in 1 .. Len(Pipe) : i < j => Pipe[i] < Pipe[j]

\* Without a limit, while orig goes on and until Close completes, every line
\* taken from orig is received, or held or queued for a consumer that goes on.
\* Nothing is claimed once the producer has closed the buffer because orig
\* ended: BlockingPop then returns nil and drops what is still queued.
NothingLost ==
  limit = 0 /\ ~done /\ ~closed =>
    Len(Pipe) = next - 1 /\ consumer # "returned"

\* The producer tests Len, clears and pushes in three separate critical
\* sections; the buffer stays within its limit all the same.
WithinLimit == limit > 0 => Len(queue) <= limit

\* What the metric does not show yet: a line pushed and not yet counted, less
\* a line popped and not yet discounted.
InTransit ==
  (IF producer = "incMetric" THEN 1 ELSE 0) - (IF consumer = "decMetric" THEN 1 ELSE 0)

\* Without a limit the metric is exact up to the updates in progress.
MetricExact == limit = 0 => metric = Len(queue) - InTransit

\* With a limit the metric may fall behind, but it never shows more lines than
\* are queued or held, but for the instant between Clear and Set(0).
MetricNeverAbove ==
  producer # "resetMetric" =>
    metric <= Len(queue) - InTransit

\* Comment at line 158, Set: "set the current number of lines in the buffer",
\* and at line 49: the number of buffered lines is exposed as a metric.
MetricAtRest ==
  producer = "receive" /\ consumer # "decMetric" => metric = Len(queue)

\* bufferedTailer_test.go:61-64: after Close the channel of lines is closed,
\* whether or not the application goes on reading, and both goroutines end;
\* not so around stdinTailer, whose Close (line 38) stops nothing.
CloseTerminates ==
  done /\ orig = "file" ~> (outClosed /\ producer = "returned")

\* While the application reads and nobody closes, every line taken from orig
\* reaches it, if there is no limit.
EveryLineDelivered ==
  Reading =>
    \A n \in 1 .. MaxLines :
      next > n ~> (\/ \E i \in 1 .. Len(received) : received[i] = n
                   \/ srcClosed \/ app # "open" \/ limit > 0)
=============================================================================
