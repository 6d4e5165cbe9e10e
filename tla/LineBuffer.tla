------------------------------ MODULE LineBuffer ------------------------------
(***************************************************************************)
(* tailer/lineBuffer.go: a growing ring buffer guarded by one mutex, with  *)
(* a sync.Cond on which BlockingPop waits.                                 *)
(*                                                                         *)
(* Every method holds the mutex from its first statement to its return, so *)
(* each is one action, except BlockingPop, which gives the mutex up inside *)
(* Wait.  A popper is "idle" (not in BlockingPop), "locking" (it contends  *)
(* for the mutex: it has just called, or it was signalled and is about to  *)
(* test the loop condition again) or "waiting" (in the Cond's list).       *)
(***************************************************************************)
EXTENDS Integers, Sequences

CONSTANTS
  Lines,        \* the lines that may be pushed
  Consumers,    \* the goroutines that call BlockingPop
  NIL,          \* a nil *Line
  InitialSize,  \* lineBufferInitialSize
  MaxLen        \* bound of the model: callers push while len < MaxLen

ASSUME ConstantsAssumption ==
  /\ NIL \notin Lines
  /\ InitialSize \in Nat \ {0}
  /\ MaxLen \in Nat

VARIABLES
  items,   \* the slots, a function on 0 .. Len(items)-1
  size,    \* len(b.items)
  head, tail, len, empty, closed,
  pc,      \* where each consumer is
  result   \* what each consumer's last BlockingPop returned

vars == <<items, size, head, tail, len, empty, closed, pc, result>>
ring == <<items, size, head, tail, len, empty>>

Slots == 0 .. size - 1
Waiting == {c \in Consumers : pc[c] = "waiting"}

\* The slot of the i-th queued line, counted from 0.
Slot(i) == (head + i) % size

Init ==
  /\ size = InitialSize
  /\ items = [i \in 0 .. InitialSize - 1 |-> NIL]
  /\ head = 0
  /\ tail = 0
  /\ len = 0
  /\ empty = TRUE
  /\ closed = FALSE
  /\ pc = [c \in Consumers |-> "idle"]
  /\ result = [c \in Consumers |-> NIL]

\* sync.Cond.Signal: one waiter, if there is any, goes for the mutex.
Signal ==
  IF Waiting = {}
    THEN pc' = pc
    ELSE \E c \in Waiting : pc' = [pc EXCEPT ![c] = "locking"]

\* Mutant of SignalIfWasEmpty: wasEmpty is read after b.empty was reset.
SignalReadsLate == IF empty' THEN Signal ELSE pc' = pc

\* Push wakes a popper when the buffer was empty before it.
SignalIfWasEmpty == IF empty THEN Signal ELSE pc' = pc

\* Mutant of Store: the tail index is not wrapped round the end.
StoreUnwrapped(s, n, t, l) ==
  /\ items' = [s EXCEPT ![t] = l]
  /\ tail' = t + 1

\* The store and the index updates of Push into slots s of n, at index t.
Store(s, n, t, l) ==
  /\ items' = [s EXCEPT ![t] = l]
  /\ tail' = (t + 1) % n

\* Mutant of Grown: the slots are copied where they are, not from head on.
GrownInPlace == [i \in 0 .. 2 * size - 1 |-> IF i < size THEN items[i] ELSE NIL]

\* grow: the doubled slots, with the lines unrolled from slot 0 on.
Grown == [i \in 0 .. 2 * size - 1 |-> IF i < len THEN items[Slot(i)] ELSE NIL]

PushFits(l) ==
  /\ len < size
  /\ Store(items, size, tail, l)
  /\ UNCHANGED <<size, head>>

\* Mutant of PushGrows: grow leaves head where it was.
PushGrowsKeepsHead(l) ==
  /\ len >= size
  /\ size' = 2 * size
  /\ head' = head
  /\ Store(Grown, 2 * size, len, l)

PushGrows(l) ==
  /\ len >= size
  /\ size' = 2 * size
  /\ head' = 0
  /\ Store(Grown, 2 * size, len, l)

\* On a closed buffer Push returns at once: a stuttering step, left out.
Push(l) ==
  /\ ~closed
  /\ len < MaxLen
  /\ PushFits(l) \/ PushGrows(l)
  /\ len' = len + 1
  /\ empty' = FALSE
  /\ SignalIfWasEmpty
  /\ UNCHANGED <<closed, result>>

Call(c) ==
  /\ pc[c] = "idle"
  /\ pc' = [pc EXCEPT ![c] = "locking"]
  /\ UNCHANGED <<items, size, head, tail, len, empty, closed, result>>

\* The loop condition of BlockingPop holds: Wait.
Wait(c) ==
  /\ pc[c] = "locking"
  /\ empty /\ ~closed
  /\ pc' = [pc EXCEPT ![c] = "waiting"]
  /\ UNCHANGED <<items, size, head, tail, len, empty, closed, result>>

PopNil(c) ==
  /\ pc[c] = "locking"
  /\ closed
  /\ pc' = [pc EXCEPT ![c] = "idle"]
  /\ result' = [result EXCEPT ![c] = NIL]
  /\ UNCHANGED <<items, size, head, tail, len, empty, closed>>

\* Mutant of PopLine: a woken popper does not test the condition again.
PopLineUntested(c) ==
  /\ pc[c] = "locking"
  /\ ~closed
  /\ result' = [result EXCEPT ![c] = items[head]]
  /\ items' = [items EXCEPT ![head] = NIL]
  /\ head' = (head + 1) % size
  /\ len' = len - 1
  /\ empty' = (len - 1 = 0)
  /\ pc' = [pc EXCEPT ![c] = "idle"]
  /\ UNCHANGED <<size, tail, closed>>

PopLine(c) ==
  /\ pc[c] = "locking"
  /\ ~empty /\ ~closed
  /\ result' = [result EXCEPT ![c] = items[head]]
  /\ items' = [items EXCEPT ![head] = NIL]
  /\ head' = (head + 1) % size
  /\ len' = len - 1
  /\ empty' = (len - 1 = 0)
  /\ pc' = [pc EXCEPT ![c] = "idle"]
  /\ UNCHANGED <<size, tail, closed>>

BlockingPop(c) == Wait(c) \/ PopNil(c) \/ PopLine(c)

\* Close signals one waiter; a second Close does nothing.
Close ==
  /\ ~closed
  /\ closed' = TRUE
  /\ Signal
  /\ UNCHANGED <<items, size, head, tail, len, empty, result>>

\* Clear niles the queued slots and keeps the grown size.
Clear ==
  /\ items' = [i \in Slots |->
                 IF \E k \in 0 .. len - 1 : i = Slot(k) THEN NIL ELSE items[i]]
  /\ head' = 0
  /\ tail' = 0
  /\ len' = 0
  /\ empty' = TRUE
  /\ UNCHANGED <<size, closed, pc, result>>

Next ==
  \/ \E l \in Lines : Push(l)
  \/ \E c \in Consumers : Call(c) \/ BlockingPop(c)
  \/ Clear
  \/ Close

Spec == Init /\ [][Next]_vars

\* The Go scheduler runs a goroutine that can take the mutex, and a
\* goroutine waiting for sync.Mutex is not starved.
FairSpec == Spec /\ \A c \in Consumers : WF_vars(BlockingPop(c))

-----------------------------------------------------------------------------
TypeOK ==
  /\ size \in Nat \ {0}
  /\ items \in [Slots -> Lines \cup {NIL}]
  /\ head \in Slots
  /\ tail \in Slots
  /\ len \in 0 .. size
  /\ empty \in BOOLEAN
  /\ closed \in BOOLEAN
  /\ pc \in [Consumers -> {"idle", "locking", "waiting"}]
  /\ result \in [Consumers -> Lines \cup {NIL}]

\* The slots from head on, as many as len says and wrapping round the end,
\* hold the queued lines; every other slot is nil, so a popped or cleared
\* line is not kept alive by the buffer (Push, grow, BlockingPop, Clear).
RingConsistent ==
  /\ empty <=> (len = 0)
  /\ tail = Slot(len)
  /\ \A i \in 0 .. len - 1 : items[Slot(i)] # NIL
  /\ \A s \in Slots : items[s] # NIL => \E i \in 0 .. len - 1 : s = Slot(i)

\* A popper sleeps in Wait only while there is nothing to return, or while
\* a signalled popper is on its way: Push signals only when the buffer was
\* empty, which is enough for the one consumer goroutine of BufferedTailer.
NoLostWakeup ==
  Waiting # {} => (empty /\ ~closed) \/ \E c \in Consumers : pc[c] = "locking"

\* A line returned to a popper is a real line unless the buffer was closed:
\* BufferedTailer's consumer takes nil for "closed" and ends.
NilOnlyWhenClosed ==
  [][\A c \in Consumers :
       pc[c] = "locking" /\ pc'[c] = "idle" /\ result'[c] = NIL => closed]_vars

\* The lines queued, oldest first.
Queued == [i \in 1 .. len |-> items[Slot(i - 1)]]

Queue == INSTANCE LineQueue WITH
  queue <- Queued,
  popping <- {c \in Consumers : pc[c] # "idle"}

\* The ring buffer implements the abstract queue, FIFO order, Clear, Close and
\* the promise that a call that can return does return (one consumer).
ImplementsQueue == Queue!Spec
=============================================================================
