------------------------- MODULE BufferedTailerProofs -------------------------
(***************************************************************************)
(* BufferedTailer for every number of lines and every set of limits: the   *)
(* order of the lines, the limit and the metric, under every interleaving  *)
(* of the two goroutines and the application.                              *)
(***************************************************************************)
EXTENDS BufferedTailer, TLAPS

-----------------------------------------------------------------------------
(* Where the goroutines are tells what they hold.                           *)

Holding ==
  /\ line # NIL <=> producer \in {"checkLimit", "clear", "resetMetric", "push"}
  /\ consumer \in {"decMetric", "send"} => result[C] # NIL
  /\ consumer = "popping" <=> popping = {C}
  /\ closed => producer = "returned"
  /\ producer \in {"clear", "resetMetric"} => limit > 0

TypeInv == TypeOK /\ Holding

LEMMA TypeInvInit == ASSUME Init PROVE TypeInv
<1> USE DEF Init, Buffer!Init, NIL
<1>1. TypeOK
  <2>1. result \in [{C} -> 0 .. MaxLines] /\ next \in 1 .. MaxLines + 1
    BY ConstantsAssumption
  <2>2. queue \in Seq(1 .. MaxLines) /\ received \in Seq(1 .. MaxLines)
    OBVIOUS
  <2>3. limit \in Limits /\ popping \subseteq {C} /\ line \in 0 .. MaxLines /\ metric \in Int
    BY ConstantsAssumption
  <2> QED
    BY <2>1, <2>2, <2>3 DEF TypeOK
<1>2. Holding
  BY DEF Holding, C
<1> QED
  BY <1>1, <1>2 DEF TypeInv

LEMMA TypeInvStep == ASSUME TypeInv, [Next]_vars PROVE TypeInv'
<1> USE ConstantsAssumption DEF TypeInv, TypeOK, Holding, NIL, C
<1>1. CASE SourceStops
  BY <1>1 DEF SourceStops, buffer
<1>2. CASE StdinEnds
  BY <1>2 DEF StdinEnds, buffer
<1>3. CASE ReceiveLine
  BY <1>3 DEF ReceiveLine, buffer
<1>4. CASE CheckLimit
  BY <1>4 DEF CheckLimit, LimitReached, buffer
<1>5. CASE ClearBuffer
  BY <1>5 DEF ClearBuffer, Buffer!Clear
<1>6. CASE ResetMetric
  BY <1>6 DEF ResetMetric, buffer
<1>7. CASE PushLine
  <2>1. queue' \in Seq(1 .. MaxLines)
    BY <1>7 DEF PushLine, Buffer!Push
  <2> QED
    BY <1>7, <2>1 DEF PushLine, Buffer!Push
<1>8. CASE IncMetric
  BY <1>8 DEF IncMetric, buffer
<1>9. CASE ReceiveClosed
  BY <1>9 DEF ReceiveClosed, Buffer!Close
<1>10. CASE StartPop
  BY <1>10 DEF StartPop, Buffer!Call
<1>11. CASE PopReturns
  <2>1. CASE Buffer!ReturnLine(C) /\ consumer' = "decMetric"
    <3>1. queue' \in Seq(1 .. MaxLines) /\ Head(queue) \in 1 .. MaxLines
      BY <2>1 DEF Buffer!ReturnLine
    <3> QED
      BY <1>11, <2>1, <3>1 DEF PopReturns, Buffer!ReturnLine
  <2>2. CASE Buffer!ReturnNil(C) /\ consumer' = "returned"
    BY <1>11, <2>2 DEF PopReturns, Buffer!ReturnNil
  <2> QED
    BY <1>11, <2>1, <2>2 DEF PopReturns
<1>12. CASE DecMetric
  BY <1>12 DEF DecMetric, buffer
<1>13. CASE Deliver
  <2>1. received' \in Seq(1 .. MaxLines)
    BY <1>13 DEF Deliver
  <2> QED
    BY <1>13, <2>1 DEF Deliver, buffer
<1>14. CASE DropLine
  BY <1>14 DEF DropLine, buffer
<1>15. CASE CloseOrig
  BY <1>15 DEF CloseOrig, buffer
<1>16. CASE CloseDone
  BY <1>16 DEF CloseDone, buffer
<1>17. CASE UNCHANGED vars
  BY <1>17 DEF vars, buffer
<1> QED
  BY <1>1, <1>2, <1>3, <1>4, <1>5, <1>6, <1>7, <1>8, <1>9, <1>10, <1>11, <1>12, <1>13,
     <1>14, <1>15, <1>16, <1>17 DEF Next, Producer, Consumer

\* The types, and that a goroutine never handles the nil line: a Pop that was
\* interrupted is told from one that returned a line.
THEOREM TypeCorrect == Spec => []TypeOK
<1>1. Init => TypeInv
  BY TypeInvInit
<1>2. TypeInv /\ [Next]_vars => TypeInv'
  BY TypeInvStep
<1>3. TypeInv => TypeOK
  BY DEF TypeInv
<1> QED
  BY <1>1, <1>2, <1>3, PTL DEF Spec

-----------------------------------------------------------------------------
(* The order.  The invariant compares the four places a line may be in      *)
(* pair by pair, with the number of the line orig delivers next above all.  *)

Sorted(s) == \A i, j \in 1 .. Len(s) : i < j => s[i] < s[j]
Below(s, n) == \A i \in 1 .. Len(s) : s[i] < n
Before(s, t) == \A i \in 1 .. Len(s), j \in 1 .. Len(t) : s[i] < t[j]

QueueOrder ==
  /\ Sorted(received) /\ Sorted(queue) /\ Before(received, queue)
  /\ Below(received, next) /\ Below(queue, next)

LineOrder ==
  line # NIL => line < next /\ Below(received, line) /\ Below(queue, line)

ResultOrder ==
  consumer \in {"decMetric", "send"} =>
    /\ Below(received, result[C]) /\ Before(<<result[C]>>, queue)
    /\ line # NIL => result[C] < line
    /\ result[C] < next

Order == QueueOrder /\ LineOrder /\ ResultOrder

\* A line behind all others goes to the end.
LEMMA SortedAppend ==
  ASSUME NEW s \in Seq(Nat), NEW n \in Nat, Sorted(s), Below(s, n)
  PROVE  Sorted(Append(s, n))
  BY DEF Sorted, Below

LEMMA SortedTail ==
  ASSUME NEW s \in Seq(Nat), s # <<>>, Sorted(s)
  PROVE  Sorted(Tail(s)) /\ Before(<<Head(s)>>, Tail(s))
  BY DEF Sorted, Before

LEMMA SortedConcat ==
  ASSUME NEW s \in Seq(Nat), NEW t \in Seq(Nat), Sorted(s), Sorted(t), Before(s, t)
  PROVE  s \o t \in Seq(Nat) /\ Sorted(s \o t)
<1> DEFINE u == s \o t
<1>1. u \in Seq(Nat) /\ Len(u) = Len(s) + Len(t)
  OBVIOUS
<1>2. \A k \in 1 .. Len(u) : u[k] = IF k <= Len(s) THEN s[k] ELSE t[k - Len(s)]
  OBVIOUS
<1>3. ASSUME NEW i \in 1 .. Len(u), NEW j \in 1 .. Len(u), i < j
      PROVE  u[i] < u[j]
  <2>1. CASE j <= Len(s)
    BY <1>2, <1>3, <2>1 DEF Sorted
  <2>2. CASE i <= Len(s) /\ j > Len(s)
    <3>1. j - Len(s) \in 1 .. Len(t)
      BY <1>1, <2>2
    <3> QED
      BY <1>2, <2>2, <3>1 DEF Before
  <2>3. CASE i > Len(s)
    <3>1. i - Len(s) \in 1 .. Len(t) /\ j - Len(s) \in 1 .. Len(t)
      BY <1>1, <1>3, <2>3
    <3>2. u[i] = t[i - Len(s)] /\ u[j] = t[j - Len(s)]
      BY <1>2, <1>3, <2>3
    <3>3. i - Len(s) < j - Len(s)
      BY <1>1, <1>3
    <3> QED
      BY <3>1, <3>2, <3>3 DEF Sorted
  <2> QED
    BY <1>3, <2>1, <2>2, <2>3
<1> QED
  BY <1>1, <1>3 DEF Sorted

LEMMA BeforeConcat ==
  ASSUME NEW s \in Seq(Nat), NEW t \in Seq(Nat), NEW u \in Seq(Nat),
         Before(s, u), Before(t, u)
  PROVE  Before(s \o t, u)
<1>1. \A k \in 1 .. Len(s \o t) :
        \/ k \in 1 .. Len(s) /\ (s \o t)[k] = s[k]
        \/ k - Len(s) \in 1 .. Len(t) /\ (s \o t)[k] = t[k - Len(s)]
  OBVIOUS
<1> QED
  BY <1>1 DEF Before

LEMMA OrderInit == ASSUME Init PROVE Order
  BY DEF Init, Buffer!Init, Order, QueueOrder, LineOrder, ResultOrder, Sorted, Below, Before, NIL

\* A step that moves no line.
LEMMA OrderUnchanged ==
  ASSUME Order, UNCHANGED <<queue, received, line, next, result>>,
         consumer' \in {"decMetric", "send"} => consumer \in {"decMetric", "send"}
  PROVE  Order'
  BY DEF Order, QueueOrder, LineOrder, ResultOrder, Sorted, Below, Before

LEMMA OrderStep == ASSUME TypeInv, Order, [Next]_vars PROVE Order'
<1> queue \in Seq(Nat) /\ received \in Seq(Nat) /\ next \in Nat /\ line \in Nat
    /\ result[C] \in Nat
  BY ConstantsAssumption DEF TypeInv, TypeOK
<1>1. CASE \/ SourceStops \/ StdinEnds \/ CheckLimit \/ ResetMetric \/ IncMetric
           \/ DecMetric \/ DropLine \/ CloseOrig \/ CloseDone \/ UNCHANGED vars
  BY <1>1, OrderUnchanged DEF SourceStops, StdinEnds, CheckLimit, ResetMetric, IncMetric,
     DecMetric, DropLine, CloseOrig, CloseDone, vars, buffer
<1>2. CASE ReceiveLine
  BY <1>2 DEF ReceiveLine, buffer, Order, QueueOrder, LineOrder, ResultOrder, Sorted, Below,
     Before, TypeInv, Holding
<1>3. CASE ClearBuffer
  BY <1>3 DEF ClearBuffer, Buffer!Clear, Order, QueueOrder, LineOrder, ResultOrder, Sorted,
     Below, Before
<1>4. CASE PushLine
  <2>1. line # NIL
    BY <1>4 DEF PushLine, TypeInv, Holding
  <2>2. queue' = Append(queue, line) /\ line' = NIL
        /\ UNCHANGED <<received, next, consumer, result>>
    BY <1>4 DEF PushLine, Buffer!Push
  <2>3. Sorted(queue')
    BY <2>1, <2>2, SortedAppend DEF Order, QueueOrder, LineOrder
  <2>4. Before(received, queue') /\ Below(queue', next)
    BY <2>1, <2>2 DEF Order, QueueOrder, LineOrder, Before, Below
  <2>5. ResultOrder'
    BY <2>1, <2>2 DEF Order, ResultOrder, Before, Below
  <2> QED
    BY <2>2, <2>3, <2>4, <2>5 DEF Order, QueueOrder, LineOrder, Below
<1>5. CASE StartPop \/ ReceiveClosed
  BY <1>5, OrderUnchanged DEF StartPop, ReceiveClosed, Buffer!Call, Buffer!Close
<1>6. CASE PopReturns
  <2>1. CASE Buffer!ReturnNil(C) /\ consumer' = "returned"
    BY <1>6, <2>1 DEF PopReturns, Buffer!ReturnNil, Order, QueueOrder, LineOrder,
       ResultOrder, Sorted, Below, Before
  <2>2. CASE Buffer!ReturnLine(C) /\ consumer' = "decMetric"
    <3>1. /\ queue # <<>> /\ queue' = Tail(queue)
          /\ result'[C] = Head(queue)
          /\ UNCHANGED <<received, line, next>>
      BY <1>6, <2>2 DEF PopReturns, Buffer!ReturnLine, TypeInv, TypeOK
    <3>2. Sorted(queue') /\ Before(<<Head(queue)>>, queue')
      BY <3>1, SortedTail DEF Order, QueueOrder
    <3>3. \A k \in 1 .. Len(queue') :
            k + 1 \in 1 .. Len(queue) /\ queue'[k] = queue[k + 1]
      BY <3>1
    <3>4. QueueOrder' /\ LineOrder'
      BY <3>1, <3>2, <3>3 DEF Order, QueueOrder, LineOrder, Before, Below, Sorted
    <3>5. ResultOrder'
      BY <3>1, <3>2 DEF Order, QueueOrder, LineOrder, ResultOrder, Before, Below
    <3> QED
      BY <3>4, <3>5 DEF Order
  <2> QED
    BY <1>6, <2>1, <2>2 DEF PopReturns
<1>7. CASE Deliver
  <2>1. /\ received' = Append(received, result[C]) /\ consumer' = "pop"
        /\ UNCHANGED <<queue, line, next, result>> /\ consumer = "send"
    BY <1>7 DEF Deliver, buffer
  <2>2. Sorted(received')
    BY <2>1, SortedAppend DEF Order, QueueOrder, ResultOrder
  <2>3. Before(received', queue) /\ Below(received', next)
    BY <2>1 DEF Order, QueueOrder, ResultOrder, Before, Below
  <2>4. LineOrder'
    BY <2>1 DEF Order, LineOrder, ResultOrder, Below
  <2> QED
    BY <2>1, <2>2, <2>3, <2>4 DEF Order, QueueOrder, ResultOrder, Sorted, Below
<1> QED
  BY <1>1, <1>2, <1>3, <1>4, <1>5, <1>6, <1>7 DEF Next, Producer, Consumer

\* Four sorted parts, each before the next, make a sorted pipe.
LEMMA OrderInOrder == ASSUME TypeInv, Order PROVE InOrder
<1> DEFINE held == ConsumerHolds
           coming == ProducerHolds
<1>1. received \in Seq(Nat) /\ queue \in Seq(Nat) /\ held \in Seq(Nat) /\ coming \in Seq(Nat)
  BY ConstantsAssumption DEF TypeInv, TypeOK, ConsumerHolds, ProducerHolds
<1>2. /\ Sorted(received) /\ Sorted(held) /\ Sorted(queue) /\ Sorted(coming)
      /\ Before(received, held) /\ Before(received, queue) /\ Before(received, coming)
      /\ Before(held, queue) /\ Before(held, coming) /\ Before(queue, coming)
  <2>1. Sorted(received) /\ Sorted(queue) /\ Before(received, queue)
    BY DEF Order, QueueOrder
  <2>2. Sorted(held) /\ Before(received, held) /\ Before(held, queue)
    BY DEF Order, ResultOrder, Sorted, Below, Before, ConsumerHolds
  <2>3. Sorted(coming) /\ Before(received, coming) /\ Before(queue, coming)
    BY DEF Order, LineOrder, Sorted, Below, Before, ProducerHolds
  <2>4. Before(held, coming)
    BY DEF Order, ResultOrder, Before, ConsumerHolds, ProducerHolds
  <2> QED
    BY <2>1, <2>2, <2>3, <2>4
<1> HIDE DEF held, coming
<1>3. /\ received \o held \in Seq(Nat) /\ Sorted(received \o held)
      /\ Before(received \o held, queue) /\ Before(received \o held, coming)
  BY <1>1, <1>2, SortedConcat, BeforeConcat
<1>4. /\ received \o held \o queue \in Seq(Nat) /\ Sorted(received \o held \o queue)
      /\ Before(received \o held \o queue, coming)
  BY <1>1, <1>2, <1>3, SortedConcat, BeforeConcat
<1>5. Sorted(received \o held \o queue \o coming)
  BY <1>1, <1>2, <1>4, SortedConcat
<1> QED
  BY <1>5 DEF InOrder, Pipe, Sorted, held, coming

\* Wherever the goroutines are, and however often the buffer was cleared, the
\* lines received, held and queued are in the order orig sent them, none twice.
THEOREM OrderCorrect == Spec => []InOrder
<1>1. Init => TypeInv /\ Order
  BY TypeInvInit, OrderInit
<1>2. TypeInv /\ Order /\ [Next]_vars => (TypeInv /\ Order)'
  BY TypeInvStep, OrderStep
<1>3. TypeInv /\ Order => InOrder
  BY OrderInOrder
<1> QED
  BY <1>1, <1>2, <1>3, PTL DEF Spec

-----------------------------------------------------------------------------
(* The limit and the metric.                                                *)

\* Between the test, or Clear, and Push there is room for a line: the consumer
\* only takes lines out.
Room ==
  limit > 0 /\ producer \in {"resetMetric", "push"} => Len(queue) <= limit - 1

LimitInv == TypeInv /\ WithinLimit /\ Room

LEMMA LimitInvStep == ASSUME LimitInv, [Next]_vars PROVE LimitInv'
<1>1. TypeInv'
  BY TypeInvStep DEF LimitInv
<1>2. queue \in Seq(1 .. MaxLines) /\ limit \in Nat /\ Len(queue) \in Nat
  BY ConstantsAssumption DEF LimitInv, TypeInv, TypeOK
<1> USE <1>2 DEF LimitInv, WithinLimit, Room
<1>3. CASE \/ SourceStops \/ StdinEnds \/ ReceiveLine \/ ResetMetric \/ IncMetric
           \/ DecMetric \/ Deliver \/ DropLine \/ CloseOrig \/ CloseDone \/ UNCHANGED vars
  BY <1>1, <1>3 DEF SourceStops, StdinEnds, ReceiveLine, ResetMetric, IncMetric,
     DecMetric, Deliver, DropLine, CloseOrig, CloseDone, vars, buffer
<1>4. CASE CheckLimit
  BY <1>1, <1>4 DEF CheckLimit, LimitReached, buffer
<1>5. CASE ClearBuffer
  BY <1>1, <1>5 DEF ClearBuffer, Buffer!Clear
<1>6. CASE PushLine
  BY <1>1, <1>6 DEF PushLine, Buffer!Push
<1>7. CASE ReceiveClosed \/ StartPop
  BY <1>1, <1>7 DEF ReceiveClosed, Buffer!Close, StartPop, Buffer!Call
<1>8. CASE PopReturns
  BY <1>1, <1>8 DEF PopReturns, Buffer!ReturnLine, Buffer!ReturnNil
<1> QED
  BY <1>3, <1>4, <1>5, <1>6, <1>7, <1>8 DEF Next, Producer, Consumer

\* Test, Clear and Push are three critical sections, and the buffer is within
\* its limit all the same, whatever the limit.
THEOREM LimitCorrect == Spec => []WithinLimit
<1>1. Init => LimitInv
  <2>1. ASSUME Init PROVE limit \in Nat /\ Len(queue) = 0 /\ producer = "receive"
    BY <2>1, ConstantsAssumption DEF Init, Buffer!Init
  <2> QED
    BY <2>1, TypeInvInit DEF LimitInv, WithinLimit, Room
<1>2. LimitInv /\ [Next]_vars => LimitInv'
  BY LimitInvStep
<1>3. LimitInv => WithinLimit
  BY DEF LimitInv
<1> QED
  BY <1>1, <1>2, <1>3, PTL DEF Spec

\* The metric is one behind a line that was pushed and not counted yet, one
\* ahead of a line that was popped and not discounted, and exact otherwise;
\* Clear, which breaks this, is only called when there is a limit.
MetricInv == TypeInv /\ MetricExact /\ MetricNeverAbove

LEMMA MetricInvInit == ASSUME Init PROVE MetricInv
<1>1. Len(queue) = 0 /\ metric = 0 /\ producer = "receive" /\ consumer = "pop"
  BY DEF Init, Buffer!Init
<1> QED
  BY <1>1, TypeInvInit DEF MetricInv, MetricExact, MetricNeverAbove, InTransit

LEMMA MetricInvStep == ASSUME MetricInv, [Next]_vars PROVE MetricInv'
<1>1. TypeInv'
  BY TypeInvStep DEF MetricInv
<1>2. /\ queue \in Seq(1 .. MaxLines) /\ Len(queue) \in Nat
      /\ limit \in Nat /\ metric \in Int
      /\ limit = 0 => producer \notin {"clear", "resetMetric"}
  BY ConstantsAssumption DEF MetricInv, TypeInv, TypeOK, Holding
<1> USE <1>2 DEF MetricInv, MetricExact, MetricNeverAbove, InTransit
<1>3. CASE \/ SourceStops \/ StdinEnds \/ ReceiveLine \/ CheckLimit \/ Deliver \/ DropLine
           \/ CloseOrig \/ CloseDone \/ UNCHANGED vars
  BY <1>1, <1>3 DEF SourceStops, StdinEnds, ReceiveLine, CheckLimit, Deliver, DropLine,
     CloseOrig, CloseDone, vars, buffer
<1>4. CASE ClearBuffer
  BY <1>1, <1>4 DEF ClearBuffer, Buffer!Clear
<1>5. CASE ResetMetric
  BY <1>1, <1>5 DEF ResetMetric, buffer
<1>6. CASE PushLine
  BY <1>1, <1>6 DEF PushLine, Buffer!Push
<1>7. CASE IncMetric
  BY <1>1, <1>7 DEF IncMetric, buffer
<1>8. CASE ReceiveClosed \/ StartPop
  BY <1>1, <1>8 DEF ReceiveClosed, Buffer!Close, StartPop, Buffer!Call
<1>9. CASE PopReturns
  BY <1>1, <1>9 DEF PopReturns, Buffer!ReturnLine, Buffer!ReturnNil
<1>10. CASE DecMetric
  BY <1>1, <1>10 DEF DecMetric, buffer
<1> QED
  BY <1>3, <1>4, <1>5, <1>6, <1>7, <1>8, <1>9, <1>10 DEF Next, Producer, Consumer

\* Without a limit the metric is exact up to the updates in progress.
THEOREM MetricCorrect == Spec => []MetricExact
<1>1. Init => MetricInv
  BY MetricInvInit
<1>2. MetricInv /\ [Next]_vars => MetricInv'
  BY MetricInvStep
<1>3. MetricInv => MetricExact
  BY DEF MetricInv
<1> QED
  BY <1>1, <1>2, <1>3, PTL DEF Spec

\* With a limit it may fall behind until the buffer is cleared the next time,
\* but never shows a line too many.
THEOREM MetricBounded == Spec => []MetricNeverAbove
<1>1. Init => MetricInv
  BY MetricInvInit
<1>2. MetricInv /\ [Next]_vars => MetricInv'
  BY MetricInvStep
<1>3. MetricInv => MetricNeverAbove
  BY DEF MetricInv
<1> QED
  BY <1>1, <1>2, <1>3, PTL DEF Spec

-----------------------------------------------------------------------------
(* Nothing lost.  What orig delivered is received, held or queued, and while *)
(* the buffer is open somebody will pop it.                                  *)

Counted ==
  Len(received) + (IF consumer \in {"decMetric", "send"} THEN 1 ELSE 0)
    + Len(queue) + (IF line # NIL THEN 1 ELSE 0)

\* The consumer does not return while the buffer is open.
Served == ~closed => consumer # "returned"

LossInv == TypeInv /\ Served /\ (limit = 0 /\ ~done => Counted = next - 1)

LEMMA LengthOfPipe == ASSUME TypeInv PROVE Len(Pipe) = Counted
<1>1. /\ received \in Seq(Nat) /\ queue \in Seq(Nat)
      /\ ConsumerHolds \in Seq(Nat) /\ ProducerHolds \in Seq(Nat)
  BY ConstantsAssumption DEF TypeInv, TypeOK, ConsumerHolds, ProducerHolds
<1>2. /\ Len(ConsumerHolds) = IF consumer \in {"decMetric", "send"} THEN 1 ELSE 0
      /\ Len(ProducerHolds) = IF line # NIL THEN 1 ELSE 0
  BY DEF ConsumerHolds, ProducerHolds
<1>3. Len(Pipe) = Len(received) + Len(ConsumerHolds) + Len(queue) + Len(ProducerHolds)
  BY <1>1 DEF Pipe
<1> QED
  BY <1>2, <1>3 DEF Counted

LEMMA ServedStep == ASSUME Served, [Next]_vars PROVE Served'
<1> USE DEF Served, Buffer!Call, Buffer!ReturnLine, Buffer!ReturnNil, Buffer!Push, Buffer!Clear,
        Buffer!Close, buffer
<1>1. CASE SourceStops \/ StdinEnds \/ CloseOrig \/ CloseDone \/ UNCHANGED vars
  BY <1>1 DEF SourceStops, StdinEnds, CloseOrig, CloseDone, vars
<1>2. CASE Producer
  BY <1>2 DEF Producer, ReceiveLine, CheckLimit, ClearBuffer, ResetMetric, PushLine, IncMetric,
     ReceiveClosed
<1>3. CASE Consumer
  BY <1>3 DEF Consumer, StartPop, PopReturns, DecMetric, Deliver, DropLine
<1> QED
  BY <1>1, <1>2, <1>3 DEF Next

LEMMA LossInvStep == ASSUME LossInv, [Next]_vars PROVE LossInv'
<1>1. TypeInv' /\ Served'
  BY TypeInvStep, ServedStep DEF LossInv
<1>2. /\ queue \in Seq(1 .. MaxLines) /\ received \in Seq(1 .. MaxLines)
      /\ Len(queue) \in Nat /\ Len(received) \in Nat /\ next \in Nat \ {0}
      /\ limit = 0 => producer \notin {"clear", "resetMetric"}
      /\ line # NIL <=> producer \in {"checkLimit", "clear", "resetMetric", "push"}
      /\ limit = 0 /\ ~done => Counted = next - 1
  BY ConstantsAssumption DEF LossInv, TypeInv, TypeOK, Holding
<1> USE <1>2 DEF Counted, done
<1>3. CASE \/ SourceStops \/ StdinEnds \/ CheckLimit \/ ResetMetric \/ IncMetric \/ DecMetric
           \/ DropLine \/ CloseOrig \/ CloseDone \/ UNCHANGED vars
  BY <1>1, <1>3 DEF SourceStops, StdinEnds, CheckLimit, ResetMetric, IncMetric, DecMetric,
     DropLine, CloseOrig, CloseDone, vars, buffer, LossInv
<1>4. CASE ReceiveLine
  BY <1>1, <1>4 DEF ReceiveLine, buffer, NIL, LossInv
<1>5. CASE ClearBuffer
  <2>1. limit # 0 /\ limit' = limit
    BY <1>5 DEF ClearBuffer
  <2> QED
    BY <1>1, <2>1 DEF LossInv
<1>6. CASE PushLine
  <2>1. /\ Len(queue') = Len(queue) + 1 /\ line # NIL /\ line' = NIL
        /\ UNCHANGED <<limit, next, app, consumer, received>>
    BY <1>6 DEF PushLine, Buffer!Push
  <2>2. ASSUME consumer \in {"decMetric", "send"} PROVE Counted' = Counted
    BY <2>1, <2>2 DEF NIL
  <2>3. ASSUME consumer \notin {"decMetric", "send"} PROVE Counted' = Counted
    BY <2>1, <2>3 DEF NIL
  <2> QED
    BY <1>1, <2>1, <2>2, <2>3 DEF LossInv
<1>7. CASE ReceiveClosed \/ StartPop
  BY <1>1, <1>7 DEF ReceiveClosed, Buffer!Close, StartPop, Buffer!Call, LossInv
<1>8. CASE PopReturns
  <2>1. CASE Buffer!ReturnLine(C) /\ consumer' = "decMetric"
    <3>1. /\ Len(queue') = Len(queue) - 1 /\ consumer = "popping"
          /\ UNCHANGED <<limit, next, app, line, received>>
      BY <1>8, <2>1 DEF PopReturns, Buffer!ReturnLine
    <3>2. Counted' = Counted
      BY <2>1, <3>1
    <3> QED
      BY <1>1, <3>1, <3>2 DEF LossInv
  <2>2. CASE Buffer!ReturnNil(C) /\ consumer' = "returned"
    <3>1. consumer = "popping" /\ UNCHANGED <<queue, limit, next, app, line, received>>
      BY <1>8, <2>2 DEF PopReturns, Buffer!ReturnNil
    <3>2. Counted' = Counted
      BY <2>2, <3>1
    <3> QED
      BY <1>1, <3>1, <3>2 DEF LossInv
  <2> QED
    BY <1>8, <2>1, <2>2 DEF PopReturns
<1>9. CASE Deliver
  BY <1>1, <1>9 DEF Deliver, buffer, LossInv
<1> QED
  BY <1>3, <1>4, <1>5, <1>6, <1>7, <1>8, <1>9 DEF Next, Producer, Consumer

\* Without a limit, until the application closes the tailer or the buffer is
\* closed because orig ended, every line taken from orig is received, or held or
\* queued for a consumer that goes on.
THEOREM LossFree == Spec => []NothingLost
<1>1. Init => LossInv
  <2>1. ASSUME Init
        PROVE  /\ Len(queue) = 0 /\ Len(received) = 0 /\ line = NIL /\ next = 1
               /\ consumer = "pop"
    BY <2>1 DEF Init, Buffer!Init
  <2> QED
    BY <2>1, TypeInvInit DEF LossInv, Served, Counted
<1>2. LossInv /\ [Next]_vars => LossInv'
  BY LossInvStep
<1>3. LossInv => NothingLost
  BY LengthOfPipe DEF LossInv, Served, NothingLost
<1> QED
  BY <1>1, <1>2, <1>3, PTL DEF Spec
=============================================================================
