-------------------------- MODULE LineBufferProofs --------------------------
(***************************************************************************)
(* LineBuffer for every set of lines and consumers, every initial size and *)
(* every bound: its types, the consistency of the ring, the absence of     *)
(* lost wakeups with one consumer, and that it implements the abstract     *)
(* queue of LineQueue.                                                     *)
(***************************************************************************)
EXTENDS LineBuffer, SequenceTheorems, TLAPS

-----------------------------------------------------------------------------
(* The slot of a line: the index wraps to the front at most once.          *)

\* An index wraps to the front at most once.
LEMMA ModWrap ==
  ASSUME NEW n \in Nat \ {0}, NEW h \in 0 .. n - 1, NEW i \in 0 .. n
  PROVE  (h + i) % n = IF h + i < n THEN h + i ELSE h + i - n
<1>1. CASE h + i < n
  BY <1>1
<1>2. CASE h + i >= n
  BY <1>2
<1> QED
  BY <1>1, <1>2

\* The slot of the i-th line, spelled out.
LEMMA SlotValue ==
  ASSUME TypeOK, NEW i \in 0 .. size
  PROVE  /\ Slot(i) = IF head + i < size THEN head + i ELSE head + i - size
         /\ i < size => Slot(i) \in Slots
<1>1. CASE head + i < size
  BY <1>1 DEF TypeOK, Slots, Slot
<1>2. CASE head + i >= size
  BY <1>2 DEF TypeOK, Slots, Slot
<1> QED
  BY <1>1, <1>2 DEF TypeOK, Slots

\* The index after head, and after tail.
LEMMA NextIndex ==
  ASSUME TypeOK
  PROVE  /\ (head + 1) % size = IF head + 1 < size THEN head + 1 ELSE 0
         /\ (tail + 1) % size = IF tail + 1 < size THEN tail + 1 ELSE 0
<1>1. (head + 1) % size = IF head + 1 < size THEN head + 1 ELSE 0
  <2>1. CASE head + 1 < size
    BY <2>1 DEF TypeOK, Slots
  <2>2. CASE head + 1 = size
    BY <2>2 DEF TypeOK, Slots
  <2> QED
    BY <2>1, <2>2 DEF TypeOK, Slots
<1>2. (tail + 1) % size = IF tail + 1 < size THEN tail + 1 ELSE 0
  <2>1. CASE tail + 1 < size
    BY <2>1 DEF TypeOK, Slots
  <2>2. CASE tail + 1 = size
    BY <2>2 DEF TypeOK, Slots
  <2> QED
    BY <2>1, <2>2 DEF TypeOK, Slots
<1> QED
  BY <1>1, <1>2

-----------------------------------------------------------------------------
(* The types and the ring: the inductive invariant is their conjunction,    *)
(* since the indices stay in range only while the ring is consistent and    *)
(* the ring is only read at indices in range.                               *)

RingInv == TypeOK /\ RingConsistent

LEMMA RingInvInit == ASSUME Init PROVE RingInv
<1>1. size \in Nat \ {0}
  BY ConstantsAssumption DEF Init
<1>2. Slot(0) = 0
  BY <1>1 DEF Init, Slot
<1>3. TypeOK
  <2>1. 0 \in 0 .. size - 1 /\ 0 \in 0 .. size
    BY <1>1
  <2>2. items \in [Slots -> Lines \cup {NIL}]
    BY DEF Init, Slots
  <2> QED
    BY <1>1, <2>1, <2>2 DEF Init, TypeOK, Slots
<1>4. RingConsistent
  <2>1. \A s \in Slots : items[s] = NIL
    BY DEF Init, Slots
  <2>2. len = 0 /\ tail = 0 /\ empty
    BY DEF Init
  <2>3. \A i \in 0 .. len - 1 : FALSE
    BY <2>2
  <2> QED
    BY <1>2, <2>1, <2>2, <2>3 DEF RingConsistent
<1> QED
  BY <1>3, <1>4 DEF RingInv

\* A step that leaves the ring alone and keeps the types keeps RingInv.
LEMMA RingUnchanged ==
  ASSUME RingInv, UNCHANGED ring, TypeOK'
  PROVE  RingInv'
  BY DEF RingInv, RingConsistent, ring, Slots, Slot

\* Signal moves a waiter to the mutex, and nobody else.
LEMMA SignalType ==
  ASSUME pc \in [Consumers -> {"idle", "locking", "waiting"}], Signal
  PROVE  pc' \in [Consumers -> {"idle", "locking", "waiting"}]
  BY DEF Signal, Waiting

\* No queued line is in the slot that Push stores to, if there is room.
LEMMA TailIsFree ==
  ASSUME RingInv, len < size, NEW i \in 0 .. len - 1
  PROVE  Slot(i) # tail /\ Slot(i) \in Slots
<1>1. i \in 0 .. size /\ i < size /\ len \in 0 .. size /\ TypeOK /\ tail = Slot(len)
  BY DEF RingInv, RingConsistent, TypeOK
<1>2. /\ tail = IF head + len < size THEN head + len ELSE head + len - size
      /\ Slot(i) = IF head + i < size THEN head + i ELSE head + i - size
      /\ Slot(i) \in Slots
  BY <1>1, SlotValue
<1> QED
  BY <1>1, <1>2 DEF TypeOK, Slots

LEMMA PushFitsInv ==
  ASSUME RingInv, NEW l \in Lines, Push(l), PushFits(l)
  PROVE  RingInv'
<1> USE DEF RingInv, Push, SignalIfWasEmpty, PushFits, Store
<1>1. TypeOK'
  <2>1. tail' \in Slots'
    <3>1. tail' = IF tail + 1 < size THEN tail + 1 ELSE 0
      BY NextIndex
    <3> QED
      BY <3>1 DEF TypeOK, Slots
  <2>2. pc' \in [Consumers -> {"idle", "locking", "waiting"}]
    BY SignalType DEF TypeOK
  <2>3. items' \in [Slots' -> Lines \cup {NIL}]
    BY DEF TypeOK, Slots
  <2>4. size' \in Nat \ {0} /\ head' \in Slots' /\ len' \in 0 .. size'
    BY DEF TypeOK, Slots
  <2>5. empty' \in BOOLEAN /\ closed' \in BOOLEAN
        /\ result' \in [Consumers -> Lines \cup {NIL}]
    BY DEF TypeOK
  <2> QED
    BY <2>1, <2>2, <2>3, <2>4, <2>5 DEF TypeOK
<1>2. \A i \in 0 .. len : Slot(i)' = Slot(i)
  BY DEF Slot
<1>3. tail = Slot(len) /\ tail \in Slots
  BY DEF RingConsistent, TypeOK
<1>4. \A i \in 0 .. len - 1 : Slot(i) # tail /\ Slot(i) \in Slots
  BY TailIsFree DEF TypeOK
<1>5. RingConsistent'
  <2>1. tail' = Slot(len)'
    <3>1. tail' = IF tail + 1 < size THEN tail + 1 ELSE 0
      BY NextIndex
    <3>2. /\ tail = IF head + len < size THEN head + len ELSE head + len - size
          /\ Slot(len + 1) = IF head + (len + 1) < size
                              THEN head + (len + 1) ELSE head + (len + 1) - size
      BY <1>3, SlotValue DEF TypeOK
    <3>3. tail' = Slot(len + 1)
      BY <3>1, <3>2 DEF TypeOK, Slots
    <3> QED
      BY <3>3 DEF Slot
  <2>2. ASSUME NEW i \in 0 .. len' - 1
        PROVE  items'[Slot(i)'] # NIL
    <3>1. CASE i = len
      BY <3>1, <1>2, <1>3, ConstantsAssumption DEF TypeOK, Slots
    <3>2. CASE i # len
      BY <3>2, <1>2, <1>4 DEF RingConsistent, TypeOK, Slots
    <3> QED
      BY <3>1, <3>2
  <2>3. ASSUME NEW s \in Slots', items'[s] # NIL
        PROVE  \E i \in 0 .. len' - 1 : s = Slot(i)'
    <3>1. CASE s = tail
      BY <3>1, <1>2, <1>3 DEF TypeOK
    <3>2. CASE s # tail
      BY <3>2, <2>3, <1>2 DEF RingConsistent, TypeOK, Slots
    <3> QED
      BY <3>1, <3>2
  <2>4. (empty <=> len = 0)'
    BY DEF TypeOK
  <2> QED
    BY <2>1, <2>2, <2>3, <2>4 DEF RingConsistent
<1> QED
  BY <1>1, <1>5

LEMMA PushGrowsInv ==
  ASSUME RingInv, NEW l \in Lines, Push(l), PushGrows(l)
  PROVE  RingInv'
<1> USE DEF RingInv, Push, SignalIfWasEmpty, PushGrows, Store
<1>1. len = size
  BY DEF TypeOK
<1>2. \A i \in 0 .. len - 1 : Slot(i) \in Slots
  BY SlotValue DEF TypeOK
<1>3. /\ Grown \in [0 .. 2 * size - 1 -> Lines \cup {NIL}]
      /\ \A i \in 0 .. len - 1 : Grown[i] # NIL
      /\ \A i \in len .. 2 * size - 1 : Grown[i] = NIL
  <2>1. \A i \in 0 .. 2 * size - 1 : i < len => items[Slot(i)] \in Lines \cup {NIL}
    BY <1>1, <1>2 DEF TypeOK
  <2>2. \A i \in 0 .. len - 1 : i \in 0 .. 2 * size - 1 /\ items[Slot(i)] # NIL
    BY <1>1 DEF TypeOK, RingConsistent
  <2>3. \A i \in len .. 2 * size - 1 : i \in 0 .. 2 * size - 1 /\ ~(i < len)
    BY <1>1 DEF TypeOK
  <2>4. Grown \in [0 .. 2 * size - 1 -> Lines \cup {NIL}]
    BY <2>1 DEF Grown
  <2>5. \A i \in 0 .. len - 1 : Grown[i] # NIL
    BY <2>2, <1>1 DEF Grown, TypeOK
  <2>6. \A i \in len .. 2 * size - 1 : Grown[i] = NIL
    BY <2>3 DEF Grown
  <2> QED
    BY <2>4, <2>5, <2>6
<1>4. /\ size' \in Nat \ {0}
      /\ tail' = len + 1 - (IF len + 1 < size' THEN 0 ELSE size')
      /\ tail' \in Slots'
  <2>1. size' \in Nat \ {0} /\ tail' = (len + 1) % size'
    BY <1>1 DEF TypeOK
  <2>2. CASE len + 1 < size'
    BY <2>1, <2>2, <1>1 DEF TypeOK, Slots
  <2>3. CASE len + 1 = size'
    BY <2>1, <2>3, <1>1 DEF TypeOK, Slots
  <2> QED
    BY <2>1, <2>2, <2>3, <1>1 DEF TypeOK
<1>5. TypeOK'
  <2>1. pc' \in [Consumers -> {"idle", "locking", "waiting"}]
    BY SignalType DEF TypeOK
  <2>2. items' \in [Slots' -> Lines \cup {NIL}]
    BY <1>3 DEF Slots
  <2>3. head' \in Slots' /\ len' \in 0 .. size'
    BY <1>1, <1>4 DEF TypeOK, Slots
  <2>4. empty' \in BOOLEAN /\ closed' \in BOOLEAN
        /\ result' \in [Consumers -> Lines \cup {NIL}]
    BY DEF TypeOK
  <2> QED
    BY <2>1, <2>2, <2>3, <2>4, <1>4 DEF TypeOK
<1>6. \A i \in 0 .. size' - 1 : Slot(i)' = i
  BY <1>4 DEF Slot
<1>7. RingConsistent'
  <2>1. tail' = Slot(len)'
    <3>1. head' + len' = len + 1
      BY DEF TypeOK
    <3> QED
      BY <3>1 DEF Slot
  <2>2. \A i \in 0 .. len' - 1 : items'[Slot(i)'] # NIL
    BY <1>1, <1>3, <1>6, ConstantsAssumption DEF TypeOK
  <2>3. \A s \in Slots' : items'[s] # NIL => \E i \in 0 .. len' - 1 : s = Slot(i)'
    BY <1>1, <1>3, <1>6 DEF TypeOK, Slots
  <2>4. (empty <=> len = 0)'
    BY DEF TypeOK
  <2> QED
    BY <2>1, <2>2, <2>3, <2>4 DEF RingConsistent
<1> QED
  BY <1>5, <1>7

\* What was the i-th line behind the first is the i-th line.
LEMMA PopShifts ==
  ASSUME RingInv, NEW c \in Consumers, PopLine(c), NEW i \in 0 .. len - 1
  PROVE  Slot(i)' = Slot(i + 1)
<1> USE DEF RingInv, PopLine
<1>1. head' = IF head + 1 < size THEN head + 1 ELSE 0
  BY NextIndex
<1>2. Slot(i)' = IF head' + i < size THEN head' + i ELSE head' + i - size
  <2>1. PICK n \in Nat \ {0} : n = size
    BY DEF TypeOK
  <2>2. PICK h \in 0 .. n - 1 : h = head'
    BY <1>1, <2>1 DEF TypeOK, Slots
  <2>3. i \in 0 .. n
    BY <2>1 DEF TypeOK
  <2>4. (h + i) % n = IF h + i < n THEN h + i ELSE h + i - n
    BY <2>3, ModWrap
  <2>5. size' = n
    BY <2>1
  <2>6. Slot(i)' = (h + i) % n
    BY <2>2, <2>5, Zenon DEF Slot
  <2> QED
    BY <2>1, <2>2, <2>4, <2>6, Zenon
<1>3. Slot(i + 1) = IF head + i + 1 < size THEN head + i + 1 ELSE head + i + 1 - size
  <2>1. PICK k \in 0 .. size : k = i + 1
    BY DEF TypeOK
  <2>2. Slot(k) = IF head + k < size THEN head + k ELSE head + k - size
    BY SlotValue
  <2> QED
    BY <2>1, <2>2 DEF TypeOK, Slots
<1> QED
  BY <1>1, <1>2, <1>3 DEF TypeOK, Slots

\* The first line's slot is freed; the others keep their order behind the
\* advanced head.
LEMMA PopLineInv ==
  ASSUME RingInv, NEW c \in Consumers, PopLine(c)
  PROVE  RingInv'
<1> USE DEF RingInv, PopLine
<1>1. len > 0 /\ Slot(0) = head /\ head \in Slots
  BY SlotValue DEF TypeOK, RingConsistent, Slots
<1>2. head' = IF head + 1 < size THEN head + 1 ELSE 0
  BY NextIndex
<1>3. head' \in Slots'
  BY <1>2 DEF TypeOK, Slots
<1>4. TypeOK'
  <2>1. items' \in [Slots' -> Lines \cup {NIL}] /\ items[head] \in Lines \cup {NIL}
    BY <1>1 DEF TypeOK, Slots
  <2>2. result' \in [Consumers -> Lines \cup {NIL}]
    BY <2>1 DEF TypeOK
  <2>3. len' \in 0 .. size'
    BY <1>1 DEF TypeOK
  <2> QED
    BY <2>1, <2>2, <2>3, <1>3 DEF TypeOK, Slots
<1>5. \A i \in 0 .. len - 1 : Slot(i)' = Slot(i + 1)
  BY PopShifts
<1>6. \A i \in 1 .. len - 1 : Slot(i) # head /\ Slot(i) \in Slots
  BY SlotValue DEF TypeOK, Slots
<1>7. RingConsistent'
  <2>1. tail' = Slot(len)'
    BY <1>1, <1>5 DEF TypeOK, RingConsistent
  <2>2. ASSUME NEW i \in 0 .. len' - 1
        PROVE  items'[Slot(i)'] # NIL
    <3>1. i + 1 \in 1 .. len - 1 /\ Slot(i)' = Slot(i + 1)
      BY <1>1, <1>5 DEF TypeOK
    <3> QED
      BY <3>1, <1>6 DEF TypeOK, RingConsistent
  <2>3. ASSUME NEW s \in Slots', items'[s] # NIL
        PROVE  \E i \in 0 .. len' - 1 : s = Slot(i)'
    <3>1. s # head /\ s \in Slots /\ items[s] # NIL
      BY <2>3, <1>1 DEF TypeOK, Slots
    <3>2. PICK i \in 0 .. len - 1 : s = Slot(i)
      BY <3>1 DEF RingConsistent
    <3>3. i # 0 /\ i - 1 \in 0 .. len' - 1
      BY <3>1, <3>2, <1>1 DEF TypeOK
    <3>4. Slot(i - 1)' = Slot((i - 1) + 1)
      BY <3>2, <3>3, <1>5 DEF TypeOK
    <3> QED
      BY <3>2, <3>3, <3>4
  <2>4. (empty <=> len = 0)'
    OBVIOUS
  <2> QED
    BY <2>1, <2>2, <2>3, <2>4 DEF RingConsistent
<1> QED
  BY <1>4, <1>7

LEMMA ClearInv == ASSUME RingInv, Clear PROVE RingInv'
<1> USE DEF RingInv, Clear
<1>1. TypeOK'
  BY DEF TypeOK, Slots
<1>2. \A s \in Slots' : items'[s] = NIL
  BY DEF TypeOK, RingConsistent, Slots
<1>3. Slot(0)' = 0
  BY DEF TypeOK, Slot, Slots
<1>4. RingConsistent'
  BY <1>2, <1>3 DEF RingConsistent
<1> QED
  BY <1>1, <1>4

LEMMA RingInvStep == ASSUME RingInv, [Next]_vars PROVE RingInv'
<1>1. ASSUME NEW l \in Lines, Push(l) PROVE RingInv'
  BY <1>1, PushFitsInv, PushGrowsInv DEF Push
<1>2. ASSUME NEW c \in Consumers, Call(c) PROVE RingInv'
  <2>1. TypeOK'
    BY <1>2 DEF RingInv, TypeOK, Call, Slots
  <2> QED
    BY <1>2, <2>1, RingUnchanged DEF Call, ring
<1>3. ASSUME NEW c \in Consumers, Wait(c) PROVE RingInv'
  <2>1. TypeOK'
    BY <1>3 DEF RingInv, TypeOK, Wait, Slots
  <2> QED
    BY <1>3, <2>1, RingUnchanged DEF Wait, ring
<1>4. ASSUME NEW c \in Consumers, PopNil(c) PROVE RingInv'
  <2>1. TypeOK'
    BY <1>4 DEF RingInv, TypeOK, PopNil, Slots
  <2> QED
    BY <1>4, <2>1, RingUnchanged DEF PopNil, ring
<1>5. ASSUME NEW c \in Consumers, PopLine(c) PROVE RingInv'
  BY <1>5, PopLineInv
<1>6. CASE Close
  <2>1. TypeOK'
    BY <1>6, SignalType DEF RingInv, TypeOK, Close, Slots
  <2> QED
    BY <1>6, <2>1, RingUnchanged DEF Close, ring
<1>7. CASE Clear
  BY <1>7, ClearInv
<1>8. CASE UNCHANGED vars
  <2>1. TypeOK'
    BY <1>8 DEF RingInv, TypeOK, vars, Slots
  <2> QED
    BY <1>8, <2>1, RingUnchanged DEF vars, ring
<1> QED
  BY <1>1, <1>2, <1>3, <1>4, <1>5, <1>6, <1>7, <1>8 DEF Next, BlockingPop

\* Every slot and index keeps its type: no method indexes outside the slots.
THEOREM TypeCorrect == Spec => []TypeOK
<1>1. Init => RingInv
  BY RingInvInit
<1>2. RingInv /\ [Next]_vars => RingInv'
  BY RingInvStep
<1>3. RingInv => TypeOK
  BY DEF RingInv
<1> QED
  BY <1>1, <1>2, <1>3, PTL DEF Spec

\* The slots from head on hold the queued lines and the others are nil,
\* through every growth, wrap-around and Clear.
THEOREM RingCorrect == Spec => []RingConsistent
<1>1. Init => RingInv
  BY RingInvInit
<1>2. RingInv /\ [Next]_vars => RingInv'
  BY RingInvStep
<1>3. RingInv => RingConsistent
  BY DEF RingInv
<1> QED
  BY <1>1, <1>2, <1>3, PTL DEF Spec

\* BlockingPop returns nil only after Close: what a popper takes from a buffer that
\* it finds not empty is a line, since a slot that is counted is never nil, however
\* many other poppers, pushes, growths and Clears came between its wakeup and its
\* test (BufferedTailer's consumer takes nil for the end).
THEOREM NilMeansClosed == Spec => NilOnlyWhenClosed
<1> DEFINE NilStep == \A c \in Consumers :
                        pc[c] = "locking" /\ pc'[c] = "idle" /\ result'[c] = NIL => closed
<1>1. Init => RingInv
  BY RingInvInit
<1>2. RingInv /\ [Next]_vars => RingInv'
  BY RingInvStep
<1>3. ASSUME RingInv, [Next]_vars, NEW c \in Consumers,
             pc[c] = "locking", pc'[c] = "idle", result'[c] = NIL
      PROVE  closed
  <2>1. /\ pc \in [Consumers -> {"idle", "locking", "waiting"}]
        /\ result \in [Consumers -> Lines \cup {NIL}]
    BY <1>3 DEF RingInv, TypeOK
  <2>2. ASSUME NEW d \in Consumers, PopLine(d), d = c PROVE FALSE
    <3>1. len \in Nat /\ len > 0 /\ head \in Slots /\ size \in Nat \ {0}
      BY <1>3, <2>2 DEF RingInv, TypeOK, RingConsistent, PopLine
    <3>2. Slot(0) = head
      BY <3>1, SlotValue DEF Slots, Slot
    <3>3. items[head] # NIL
      BY <1>3, <3>1, <3>2 DEF RingInv, RingConsistent
    <3> QED
      BY <1>3, <2>1, <2>2, <3>3 DEF PopLine
  <2>3. ASSUME NEW d \in Consumers, Call(d) \/ Wait(d) PROVE closed
    BY <1>3, <2>1, <2>3 DEF Call, Wait
  <2>4. ASSUME NEW d \in Consumers, PopNil(d) PROVE closed
    BY <2>4 DEF PopNil
  <2>5. ASSUME NEW d \in Consumers, PopLine(d), d # c PROVE closed
    BY <1>3, <2>1, <2>5 DEF PopLine
  <2>6. ASSUME Signal PROVE closed
    BY <1>3, <2>1, <2>6 DEF Signal, Waiting
  <2>7. CASE Clear \/ UNCHANGED vars
    BY <1>3, <2>7 DEF Clear, vars
  <2>8. ASSUME NEW l \in Lines, Push(l) PROVE closed
    BY <1>3, <2>6, <2>8 DEF Push, SignalIfWasEmpty
  <2>9. CASE Close
    BY <2>6, <2>9 DEF Close
  <2> QED
    BY <1>3, <2>2, <2>3, <2>4, <2>5, <2>7, <2>8, <2>9 DEF Next, BlockingPop
<1>4. RingInv /\ [Next]_vars => [NilStep]_vars
  BY <1>3
<1> HIDE DEF NilStep
<1>5. Spec => [][NilStep]_vars
  BY <1>1, <1>2, <1>4, PTL DEF Spec
<1> QED
  BY <1>5 DEF NilOnlyWhenClosed, NilStep

-----------------------------------------------------------------------------
(* Wakeups.  With one consumer, a Push into a buffer that is not empty has  *)
(* nobody to signal.  RingInv ties empty, which Push tests, to len.         *)

WakeInv == RingInv /\ NoLostWakeup

LEMMA WakeInvStep ==
  ASSUME NEW c, Consumers = {c}, WakeInv, [Next]_vars
  PROVE  NoLostWakeup'
<1> USE DEF WakeInv
<1>1. pc \in [Consumers -> {"idle", "locking", "waiting"}]
  BY DEF RingInv, TypeOK
<1>2. ASSUME NEW l \in Lines, Push(l) PROVE NoLostWakeup'
  <2>1. CASE empty
    BY <1>1, <1>2, <2>1 DEF Push, SignalIfWasEmpty, Signal, Waiting, NoLostWakeup
  <2>2. CASE ~empty
    BY <1>1, <1>2, <2>2 DEF Push, SignalIfWasEmpty, Waiting, NoLostWakeup
  <2> QED
    BY <2>1, <2>2
<1>3. ASSUME Call(c) PROVE NoLostWakeup'
  BY <1>1, <1>3 DEF Call, Waiting, NoLostWakeup
<1>4. ASSUME Wait(c) PROVE NoLostWakeup'
  BY <1>1, <1>4 DEF Wait, Waiting, NoLostWakeup
<1>5. ASSUME PopNil(c) \/ PopLine(c) PROVE NoLostWakeup'
  BY <1>1, <1>5 DEF PopNil, PopLine, Waiting, NoLostWakeup
<1>6. CASE Close
  BY <1>1, <1>6 DEF Close, Signal, Waiting, NoLostWakeup
<1>7. CASE Clear
  BY <1>1, <1>7 DEF Clear, Waiting, NoLostWakeup
<1>8. CASE UNCHANGED vars
  BY <1>8 DEF vars, Waiting, NoLostWakeup
<1> QED
  BY <1>2, <1>3, <1>4, <1>5, <1>6, <1>7, <1>8 DEF Next, BlockingPop

\* The one consumer goroutine of BufferedTailer never sleeps while a line is
\* queued or after Close, although Push signals only an empty buffer.
THEOREM OneConsumerNeverSleepsOnWork ==
  ASSUME NEW c, Consumers = {c}
  PROVE  Spec => []NoLostWakeup
<1>1. Init => WakeInv
  BY RingInvInit DEF Init, WakeInv, NoLostWakeup
<1>2. WakeInv /\ [Next]_vars => WakeInv'
  BY RingInvStep, WakeInvStep DEF WakeInv
<1>3. WakeInv => NoLostWakeup
  BY DEF WakeInv
<1> QED
  BY <1>1, <1>2, <1>3, PTL DEF Spec

-----------------------------------------------------------------------------
(* The abstract queue.  Every step of LineBuffer is, with the queued lines  *)
(* read off the slots from head on, a step of the queue or leaves the queue *)
(* as it is.                                                                *)

popping == {c \in Consumers : pc[c] # "idle"}

LEMMA QueuedIsSeq ==
  ASSUME RingInv
  PROVE  /\ Queued \in Seq(Lines \cup {NIL}) /\ Len(Queued) = len
         /\ \A i \in 1 .. len : Queued[i] = items[Slot(i - 1)]
<1>1. len \in Nat
  BY DEF RingInv, TypeOK
<1>2. ASSUME NEW i \in 1 .. len PROVE items[Slot(i - 1)] \in Lines \cup {NIL}
  <2>1. i - 1 \in 0 .. size /\ i - 1 < size
    BY DEF RingInv, TypeOK
  <2>2. Slot(i - 1) \in Slots
    BY <2>1, SlotValue DEF RingInv
  <2> QED
    BY <2>2 DEF RingInv, TypeOK
<1> QED
  BY <1>1, <1>2 DEF Queued

\* Two functions on 1 .. n with the same values are the same sequence.
LEMMA SameValues ==
  ASSUME NEW n \in Nat, NEW f, NEW g, f = [i \in 1 .. n |-> f[i]],
         g = [i \in 1 .. n |-> g[i]], \A i \in 1 .. n : f[i] = g[i]
  PROVE  f = g
<1>1. [i \in 1 .. n |-> f[i]] = [i \in 1 .. n |-> g[i]]
  OBVIOUS
<1> QED
  BY <1>1

\* Signal moves a popper within BlockingPop.
LEMMA SignalKeepsPopping ==
  ASSUME pc \in [Consumers -> {"idle", "locking", "waiting"}], Signal
  PROVE  popping' = popping
  BY DEF Signal, Waiting, popping

LEMMA PushAppends ==
  ASSUME RingInv, NEW l \in Lines, Push(l)
  PROVE  Queued' = Append(Queued, l)
<1>1. len' = len + 1 /\ len \in Nat
  BY DEF Push, RingInv, TypeOK
<1>2. ASSUME NEW i \in 0 .. len
      PROVE  items'[Slot(i)'] = IF i < len THEN items[Slot(i)] ELSE l
  <2>1. CASE PushFits(l)
    <3>1. Slot(i)' = Slot(i) /\ len < size /\ items' = [items EXCEPT ![tail] = l]
      BY <2>1 DEF PushFits, Store, Slot
    <3>2. tail = Slot(len) /\ tail \in Slots /\ items \in [Slots -> Lines \cup {NIL}]
      BY DEF RingInv, RingConsistent, TypeOK
    <3>3. CASE i < len
      <4>1. Slot(i) # tail /\ Slot(i) \in Slots
        BY <1>1, <3>1, <3>3, TailIsFree
      <4> QED
        BY <3>1, <3>2, <3>3, <4>1
    <3>4. CASE i = len
      BY <3>1, <3>2, <3>4
    <3> QED
      BY <1>1, <3>3, <3>4
  <2>2. CASE PushGrows(l)
    <3>1. len = size /\ size \in Nat \ {0}
      BY <2>2 DEF PushGrows, RingInv, TypeOK
    <3>2. size' = 2 * size /\ head' = 0 /\ items' = [Grown EXCEPT ![len] = l]
      BY <2>2 DEF PushGrows, Store
    <3>3. Slot(i)' = i
      BY <1>1, <3>1, <3>2 DEF Slot
    <3>4. i \in 0 .. 2 * size - 1
      BY <1>1, <3>1
    <3>5. Grown = [k \in 0 .. 2 * size - 1 |-> IF k < len THEN items[Slot(k)] ELSE NIL]
      BY DEF Grown
    <3> QED
      BY <1>1, <3>2, <3>3, <3>4, <3>5
  <2> QED
    BY <2>1, <2>2 DEF Push
<1>3. Queued' = [i \in 1 .. len + 1 |-> items'[Slot(i - 1)']]
  BY <1>1 DEF Queued
<1>4. ASSUME NEW i \in 1 .. len + 1 PROVE Queued'[i] = Append(Queued, l)[i]
  <2>1. i - 1 \in 0 .. len
    BY <1>1
  <2>2. Queued'[i] = IF i - 1 < len THEN items[Slot(i - 1)] ELSE l
    BY <1>2, <1>3, <2>1
  <2> QED
    BY <1>1, <2>2, QueuedIsSeq
<1>5. Append(Queued, l) \in Seq(Lines \cup {NIL}) /\ Len(Append(Queued, l)) = len + 1
  BY QueuedIsSeq, AppendProperties
<1>6. Append(Queued, l) = [i \in 1 .. len + 1 |-> Append(Queued, l)[i]]
  <2>1. Append(Queued, l) \in [1 .. len + 1 -> Lines \cup {NIL}]
    BY <1>5, LenProperties
  <2> QED
    BY <2>1, Zenon
<1>7. Queued' = [i \in 1 .. len + 1 |-> Queued'[i]]
  BY <1>3
<1>8. len + 1 \in Nat
  BY <1>1
<1> QED
  BY <1>4, <1>6, <1>7, <1>8, SameValues, Zenon

LEMMA PopTakesHead ==
  ASSUME RingInv, NEW c \in Consumers, PopLine(c)
  PROVE  Queued # <<>> /\ items[head] = Head(Queued) /\ Queued' = Tail(Queued)
<1>1. len \in Nat \ {0} /\ len' = len - 1 /\ head \in Slots /\ Slot(0) = head
  BY SlotValue DEF PopLine, RingInv, RingConsistent, TypeOK, Slots
<1>2. Queued # <<>> /\ Head(Queued) = items[head]
  <2>1. Queued[1] = items[Slot(1 - 1)]
    BY <1>1, QueuedIsSeq
  <2> QED
    BY <1>1, <2>1, QueuedIsSeq
<1>3. ASSUME NEW i \in 1 .. len - 1
      PROVE  items'[Slot(i - 1)'] = Tail(Queued)[i]
  <2>1. i - 1 \in 0 .. len - 1 /\ i \in 0 .. size /\ i < size
    BY <1>1 DEF RingInv, TypeOK
  <2>2. Slot(i - 1)' = Slot((i - 1) + 1)
    BY <2>1, PopShifts
  <2>3. Slot(i) \in Slots /\ Slot(i) # head
    <3>1. TypeOK /\ size \in Nat \ {0} /\ head \in 0 .. size - 1 /\ i > 0
      BY DEF RingInv, TypeOK, Slots
    <3>2. /\ Slot(i) = IF head + i < size THEN head + i ELSE head + i - size
          /\ Slot(i) \in Slots
      BY <2>1, <3>1, SlotValue
    <3> QED
      BY <2>1, <3>1, <3>2
  <2>4. items'[Slot(i)] = items[Slot(i)]
    BY <2>3 DEF PopLine, RingInv, TypeOK
  <2>5. Tail(Queued)[i] = Queued[i + 1] /\ Queued[i + 1] = items[Slot((i + 1) - 1)]
    BY <1>1, <1>2, QueuedIsSeq
  <2>6. (i - 1) + 1 = i /\ (i + 1) - 1 = i
    OBVIOUS
  <2> QED
    BY <2>2, <2>4, <2>5, <2>6
<1>4. Queued' = [i \in 1 .. len - 1 |-> items'[Slot(i - 1)']]
  BY <1>1 DEF Queued
<1>5. Tail(Queued) \in Seq(Lines \cup {NIL}) /\ Len(Tail(Queued)) = len - 1
  BY <1>1, <1>2, QueuedIsSeq
<1>6. Tail(Queued) = [i \in 1 .. len - 1 |-> Tail(Queued)[i]]
  <2>1. Tail(Queued) \in [1 .. len - 1 -> Lines \cup {NIL}]
    BY <1>5, LenProperties
  <2> QED
    BY <2>1, Zenon
<1>7. Queued' = [i \in 1 .. len - 1 |-> Queued'[i]]
  BY <1>4
<1>8. len - 1 \in Nat
  BY <1>1
<1>9. \A i \in 1 .. len - 1 : Queued'[i] = Tail(Queued)[i]
  BY <1>3, <1>4, Zenon
<1>10. Queued' = Tail(Queued)
  BY <1>6, <1>7, <1>8, <1>9, SameValues, Zenon
<1> QED
  BY <1>2, <1>10

\* The initial states of the ring buffer are those of the queue.
LEMMA RefinesInit == ASSUME Init PROVE Queue!Init
<1>1. len = 0 /\ Queued = <<>>
  BY DEF Init, Queued
<1> QED
  BY <1>1 DEF Init, Queue!Init

\* A step that does not touch the ring leaves the queue as it is.
LEMMA QueuedUnchanged == ASSUME UNCHANGED ring PROVE Queued' = Queued
  BY DEF ring, Queued, Slot

LEMMA RefinesStep ==
  ASSUME RingInv, [Next]_vars
  PROVE  [Queue!Next]_(Queue!vars)
<1>1. pc \in [Consumers -> {"idle", "locking", "waiting"}]
  BY DEF RingInv, TypeOK
<1>2. ASSUME NEW l \in Lines, Push(l) PROVE Queue!Push(l)
  <2>1. Len(Queued) < MaxLen /\ ~closed /\ UNCHANGED <<closed, result>>
    BY <1>2, QueuedIsSeq DEF Push
  <2>2. popping' = popping
    BY <1>1, <1>2, SignalKeepsPopping DEF Push, SignalIfWasEmpty, popping
  <2> QED
    BY <1>2, <2>1, <2>2, PushAppends DEF Queue!Push, popping
<1>3. ASSUME NEW c \in Consumers, Call(c) PROVE Queue!Call(c)
  BY <1>1, <1>3, QueuedUnchanged DEF Call, Queue!Call, ring
<1>4. ASSUME NEW c \in Consumers, Wait(c) PROVE UNCHANGED Queue!vars
  BY <1>1, <1>4, QueuedUnchanged DEF Wait, Queue!vars, ring
<1>5. ASSUME NEW c \in Consumers, PopNil(c) PROVE Queue!ReturnNil(c)
  BY <1>1, <1>5, QueuedUnchanged DEF PopNil, Queue!ReturnNil, ring
<1>6. ASSUME NEW c \in Consumers, PopLine(c) PROVE Queue!ReturnLine(c)
  BY <1>1, <1>6, PopTakesHead DEF PopLine, Queue!ReturnLine
<1>7. CASE Clear
  <2>1. Queued' = <<>>
    BY <1>7 DEF Clear, Queued
  <2> QED
    BY <1>7, <2>1 DEF Clear, Queue!Clear, Queue!Next
<1>8. CASE Close
  <2>1. popping' = popping
    BY <1>1, <1>8, SignalKeepsPopping DEF Close
  <2> QED
    BY <1>8, <2>1, QueuedUnchanged DEF Close, Queue!Close, Queue!Next, popping, ring
<1>9. CASE UNCHANGED vars
  BY <1>9, QueuedUnchanged DEF vars, Queue!vars, ring
<1> QED
  BY <1>2, <1>3, <1>4, <1>5, <1>6, <1>7, <1>8, <1>9
     DEF Next, BlockingPop, Queue!Next, Queue!Return

\* The ring buffer implements the queue: FIFO order, Clear, Close and what
\* BlockingPop returns, through every growth and wrap-around.  (That a call that
\* can return does return is left to the model checker, see ImplementsQueue.)
THEOREM RingImplementsQueue == Spec => Queue!SafetySpec
<1>1. Init => RingInv /\ Queue!Init
  BY RingInvInit, RefinesInit
<1>2. RingInv /\ [Next]_vars => RingInv' /\ [Queue!Next]_(Queue!vars)
  BY RingInvStep, RefinesStep
<1> QED
  BY <1>1, <1>2, PTL DEF Spec, Queue!SafetySpec
=============================================================================
