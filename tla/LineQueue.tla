------------------------------ MODULE LineQueue ------------------------------
(***************************************************************************)
(* What tailer/lineBuffer.go promises: "a thread safe queue" whose         *)
(* BlockingPop waits for a line and is interrupted by Close.  Nothing here *)
(* knows of slots, indices or a condition variable; LineBuffer implements  *)
(* this specification.                                                     *)
(***************************************************************************)
EXTENDS Naturals, Sequences

CONSTANTS
  Lines,      \* the lines that may be pushed
  Consumers,  \* the goroutines that call BlockingPop
  NIL,        \* the nil *Line a popper of a closed queue receives
  MaxLen      \* bound of the model: callers push while fewer lines are queued

VARIABLES
  queue,    \* the queued lines, oldest first
  closed,   \* TRUE once Close was called
  popping,  \* the consumers inside BlockingPop
  result    \* what each consumer's last BlockingPop returned

vars == <<queue, closed, popping, result>>

Init ==
  /\ queue = <<>>
  /\ closed = FALSE
  /\ popping = {}
  /\ result = [c \in Consumers |-> NIL]

Push(l) ==
  /\ ~closed
  /\ Len(queue) < MaxLen
  /\ queue' = Append(queue, l)
  /\ UNCHANGED <<closed, popping, result>>

Call(c) ==
  /\ c \notin popping
  /\ popping' = popping \cup {c}
  /\ UNCHANGED <<queue, closed, result>>

ReturnLine(c) ==
  /\ c \in popping
  /\ ~closed
  /\ queue # <<>>
  /\ result' = [result EXCEPT ![c] = Head(queue)]
  /\ queue' = Tail(queue)
  /\ popping' = popping \ {c}
  /\ UNCHANGED closed

\* A closed queue returns nil at once, even with lines left in it.
ReturnNil(c) ==
  /\ c \in popping
  /\ closed
  /\ result' = [result EXCEPT ![c] = NIL]
  /\ popping' = popping \ {c}
  /\ UNCHANGED <<queue, closed>>

Return(c) == ReturnLine(c) \/ ReturnNil(c)

Clear ==
  /\ queue' = <<>>
  /\ UNCHANGED <<closed, popping, result>>

Close ==
  /\ closed' = TRUE
  /\ UNCHANGED <<queue, popping, result>>

Next ==
  \/ \E l \in Lines : Push(l)
  \/ \E c \in Consumers : Call(c) \/ Return(c)
  \/ Clear
  \/ Close

SafetySpec == Init /\ [][Next]_vars

\* A call that can return does not stay blocked for ever.
Spec == SafetySpec /\ \A c \in Consumers : WF_vars(Return(c))
=============================================================================
