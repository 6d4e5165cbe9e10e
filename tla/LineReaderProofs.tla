--------------------------- MODULE LineReaderProofs ---------------------------
(***************************************************************************)
(* Proofs about LineReader, for any limit, any size of the bufio.Reader,   *)
(* any file and any moments of writing, renaming and truncation: the lines *)
(* sent are those of the file taken as a whole, none is held back at its   *)
(* end.  What the buffers hold are intervals of positions in the file, and *)
(* the proof is about their bounds.                                        *)
(***************************************************************************)
EXTENDS LineReader, SequenceTheorems, WellFoundedInduction, TLAPS

Text == Seq({"x", CR, NL})

Interval(a, n) == [k \in 1 .. n |-> a + k - 1]
NoNewline(a, b) == \A p \in a .. b : file[p] # NL

\* The first byte of what was read but is not in buf yet, and of the line in buf.
rest == offset + 1 - Len(buffered) - Len(overflow)
begin == IF discardingTooLongLine THEN Head(buf) ELSE rest - Len(buf)

ReaderTypeOK ==
  /\ maxLineBytes \in Nat \ {0}
  /\ file \in Text /\ offset \in 0 .. Len(file)
  /\ buf \in Seq(Nat) /\ overflow \in Seq(Nat) /\ buffered \in Seq(Nat)
  /\ Len(buf) <= maxLineBytes /\ Len(overflow) + Len(buffered) <= readBufferSize
  /\ {eof, discardingTooLongLine, atEOF, rebound} \subseteq BOOLEAN
  /\ source \in {"none", "current", "before"} /\ pc \in {"idle", "line", "discard"}
  /\ pc = "line" => ~discardingTooLongLine
  /\ pc = "discard" => discardingTooLongLine
  /\ atEOF => pc = "idle"
  /\ lines \in Seq([start : Nat, bytes : Seq(Nat), truncated : BOOLEAN])

\* What was read is in one piece, from the start of a line to the offset, but for
\* what was discarded of a line that is too long: then buf has its first part.
Pieces ==
  /\ begin \in Starts /\ rest \in Nat
  /\ buf = Interval(begin, Len(buf)) /\ overflow = Interval(rest, Len(overflow))
  /\ buffered = Interval(rest + Len(overflow), Len(buffered))
  /\ discardingTooLongLine =>
       /\ Len(buf) = maxLineBytes
       /\ begin + maxLineBytes <= rest /\ begin + maxLineBytes <= offset
       /\ NoNewline(begin, rest - 1)

\* The buffers hold one line each at most, unless lines were taken over from
\* another bufio.Reader: then they are all there is, and not too long for one.
OneLineEach ==
  /\ \/ NoNewline(begin, begin + Len(buf) - 2) /\ NoNewline(rest, rest + Len(overflow) - 2)
     \/ /\ rebound /\ buffered = <<>>
        /\ ~discardingTooLongLine => Len(buf) + Len(overflow) <= maxLineBytes
  /\ pc = "idle" /\ ~discardingTooLongLine /\ buffered # <<>> => buf = <<>>

\* The lines that were dealt with, and that exactly those to report were sent.
DoneStarts == {s \in Starts : s < begin \/ (discardingTooLongLine /\ s = begin)}

\* What ReadLine makes of the line at s.
Line(s) == [start |-> s, bytes |-> Cut(s), truncated |-> Over(s)]

Sent ==
  /\ \A i \in 1 .. Len(lines) :
       /\ lines[i].start \in DoneStarts /\ Reported(lines[i].start)
       /\ lines[i] = Line(lines[i].start)
  /\ \A i, j \in 1 .. Len(lines) : i < j => lines[i].start < lines[j].start
  /\ \A s \in DoneStarts : Reported(s) => \E i \in 1 .. Len(lines) : lines[i].start = s

AllReadAtEOF ==
  pc = "idle" /\ atEOF =>
    overflow = <<>> /\ buffered = <<>> /\ NoNewline(begin, begin + Len(buf) - 1)

ReaderOK == Pieces /\ OneLineEach /\ Sent /\ AllReadAtEOF
LineReaderInv == ReaderTypeOK /\ (Fits => ReaderOK)

-----------------------------------------------------------------------------
(* Intervals.                                                               *)

LEMMA IntervalTyped ==
  ASSUME NEW a \in Nat, NEW n \in Nat
  PROVE  /\ Interval(a, n) \in Seq(Nat)
         /\ Len(Interval(a, n)) = n
         /\ \A k \in 1 .. n : Interval(a, n)[k] = a + k - 1
         /\ n > 0 => Interval(a, n) # <<>> /\ Head(Interval(a, n)) = a
<1>1. Interval(a, n) \in [1 .. n -> Nat]
  BY DEF Interval
<1>2. Interval(a, n) \in Seq(Nat) /\ Len(Interval(a, n)) = n
  BY <1>1 DEF Interval
<1>3. \A k \in 1 .. n : Interval(a, n)[k] = a + k - 1
  BY DEF Interval
<1> QED
  BY <1>2, <1>3

LEMMA IntervalConcat ==
  ASSUME NEW a \in Nat, NEW m \in Nat, NEW n \in Nat
  PROVE  Interval(a, m) \o Interval(a + m, n) = Interval(a, m + n)
<1> DEFINE s == Interval(a, m)
           t == Interval(a + m, n)
           u == Interval(a, m + n)
<1>1. a + m \in Nat /\ m + n \in Nat
  OBVIOUS
<1>2. s \in Seq(Nat) /\ Len(s) = m /\ \A k \in 1 .. m : s[k] = a + k - 1
  BY IntervalTyped
<1>3. t \in Seq(Nat) /\ Len(t) = n /\ \A k \in 1 .. n : t[k] = a + m + k - 1
  BY <1>1, IntervalTyped
<1>4. u \in Seq(Nat) /\ Len(u) = m + n /\ \A k \in 1 .. m + n : u[k] = a + k - 1
  BY <1>1, IntervalTyped
<1> HIDE DEF s, t, u
<1>5. /\ s \o t \in Seq(Nat) /\ Len(s \o t) = m + n
      /\ \A k \in 1 .. m + n : (s \o t)[k] = IF k <= m THEN s[k] ELSE t[k - m]
  BY <1>2, <1>3, ConcatProperties
<1>6. ASSUME NEW k \in 1 .. m + n PROVE (s \o t)[k] = u[k]
  <2>1. CASE k <= m
    BY <1>2, <1>4, <1>5, <2>1
  <2>2. CASE k > m
    <3>1. k - m \in 1 .. n /\ a + m + (k - m) - 1 = a + k - 1
      BY <2>2
    <3>2. t[k - m] = a + m + (k - m) - 1
      BY <1>3, <3>1
    <3>3. (s \o t)[k] = t[k - m]
      <4>1. ~(k <= m)
        BY <2>2
      <4>2. (s \o t)[k] = IF k <= m THEN s[k] ELSE t[k - m]
        BY <1>5
      <4> QED
        BY <4>1, <4>2, Zenon
    <3> QED
      BY <1>4, <3>1, <3>2, <3>3
  <2>3. k <= m \/ k > m
    OBVIOUS
  <2> QED
    BY <2>1, <2>2, <2>3
<1>7. s \o t = u
  BY <1>4, <1>5, <1>6, SeqEqual
<1> QED
  BY <1>7 DEF s, t, u

LEMMA IntervalPart ==
  ASSUME NEW a \in Nat, NEW n \in Nat, NEW i \in 1 .. n + 1, NEW j \in i - 1 .. n
  PROVE  SubSeq(Interval(a, n), i, j) = Interval(a + i - 1, j - i + 1)
<1> DEFINE s == Interval(a, n)
           t == SubSeq(s, i, j)
           u == Interval(a + i - 1, j - i + 1)
<1>1. a + i - 1 \in Nat /\ j - i + 1 \in Nat /\ i \in Int /\ j \in Int
  OBVIOUS
<1>2. s \in Seq(Nat) /\ Len(s) = n /\ \A k \in 1 .. n : s[k] = a + k - 1
  BY IntervalTyped
<1>3. /\ u \in Seq(Nat) /\ Len(u) = j - i + 1
      /\ \A k \in 1 .. j - i + 1 : u[k] = (a + i - 1) + k - 1
  BY <1>1, IntervalTyped
<1> HIDE DEF s, u
<1>4. \A k \in i .. j : k \in 1 .. n /\ s[k] \in Nat
  BY <1>2
<1>5. /\ t \in Seq(Nat) /\ Len(t) = j - i + 1
      /\ \A k \in 1 .. j - i + 1 : t[k] = s[i + k - 1]
  BY <1>1, <1>4, SubSeqProperties
<1>6. ASSUME NEW k \in 1 .. j - i + 1 PROVE t[k] = u[k]
  <2>1. i + k - 1 \in 1 .. n /\ a + (i + k - 1) - 1 = (a + i - 1) + k - 1
    OBVIOUS
  <2>2. s[i + k - 1] = a + (i + k - 1) - 1
    BY <1>2, <2>1
  <2> QED
    BY <1>3, <1>5, <2>1, <2>2
<1> HIDE DEF t
<1>7. t = u
  BY <1>3, <1>5, <1>6, SeqEqual
<1> QED
  BY <1>7 DEF s, t, u

LEMMA FirstPart ==
  ASSUME NEW s \in Seq(Nat), NEW k \in 0 .. Len(s)
  PROVE  SubSeq(s, 1, k) \in Seq(Nat) /\ Len(SubSeq(s, 1, k)) = k
  OBVIOUS

LEMMA FromTyped ==
  ASSUME NEW s \in Seq(Nat), NEW k \in 1 .. Len(s) + 1
  PROVE  From(s, k) \in Seq(Nat) /\ Len(From(s, k)) = Len(s) - k + 1
  BY DEF From

LEMMA IntervalFrom ==
  ASSUME NEW a \in Nat, NEW n \in Nat, NEW k \in 1 .. n + 1
  PROVE  From(Interval(a, n), k) = Interval(a + k - 1, n - k + 1)
<1>1. n \in k - 1 .. n
  OBVIOUS
<1>2. Len(Interval(a, n)) = n
  BY IntervalTyped
<1>3. SubSeq(Interval(a, n), k, n) = Interval(a + k - 1, n - k + 1)
  BY <1>1, IntervalPart
<1> QED
  BY <1>2, <1>3 DEF From

LEMMA EmptyIntervals ==
  ASSUME NEW a \in Nat, NEW n \in Nat
  PROVE  Interval(a, 0) = <<>> /\ (Interval(a, n) = <<>> <=> n = 0)
  BY IntervalTyped DEF Interval

-----------------------------------------------------------------------------
(* Newlines.                                                                *)

Below == {p \in Nat \X Nat : p[1] < p[2]}

LEMMA LeastNumber ==
  ASSUME NEW T \in SUBSET Nat, T # {}
  PROVE  Min(T) \in T /\ \A y \in T : Min(T) <= y
<1>1. IsWellFoundedOn(Below, Nat)
  BY NatLessThanWellFounded DEF OpToRel, Below
<1>2. PICK x \in T : \A y \in T : ~(<<y, x>> \in Below)
  BY <1>1, WFMin
<1>3. ASSUME NEW y \in T PROVE x <= y
  <2>1. x \in Nat /\ y \in Nat /\ ~(<<y, x>> \in Below)
    BY <1>2
  <2>2. ~(y < x)
    BY <2>1 DEF Below
  <2> QED
    BY <2>1, <2>2
<1> QED
  BY <1>3 DEF Min

LEMMA FirstNewline ==
  ASSUME NEW s \in Seq(Nat)
  PROVE  /\ IndexNewline(s) \in 0 .. Len(s)
         /\ IndexNewline(s) = 0 => \A k \in 1 .. Len(s) : file[s[k]] # NL
         /\ IndexNewline(s) > 0 =>
              /\ file[s[IndexNewline(s)]] = NL
              /\ \A k \in 1 .. IndexNewline(s) - 1 : file[s[k]] # NL
<1> DEFINE I == {k \in 1 .. Len(s) : file[s[k]] = NL}
<1>1. IndexNewline(s) = IF I # {} THEN Min(I) ELSE 0
  BY DEF IndexNewline, SelectInSeq
<1>2. I \in SUBSET Nat
  OBVIOUS
<1>3. I # {} => Min(I) \in I /\ \A k \in I : Min(I) <= k
  BY <1>2, LeastNumber
<1>4. CASE I = {}
  BY <1>1, <1>4
<1>5. CASE I # {}
  <2>1. IndexNewline(s) \in I /\ \A k \in I : IndexNewline(s) <= k
    BY <1>1, <1>3, <1>5
  <2> QED
    BY <2>1
<1> QED
  BY <1>4, <1>5

\* The same in an interval, in terms of positions.
LEMMA FirstNewlineAt ==
  ASSUME NEW a \in Nat, NEW n \in Nat, NEW k, k = IndexNewline(Interval(a, n))
  PROVE  /\ k \in 0 .. n
         /\ k = 0 => NoNewline(a, a + n - 1)
         /\ k > 0 => file[a + k - 1] = NL /\ NoNewline(a, a + k - 2)
<1> DEFINE s == Interval(a, n)
<1>1. s \in Seq(Nat) /\ Len(s) = n /\ \A j \in 1 .. n : s[j] = a + j - 1
  BY IntervalTyped
<1> HIDE DEF s
<1>2. /\ k \in 0 .. n
      /\ k = 0 => \A j \in 1 .. n : file[s[j]] # NL
      /\ k > 0 => file[s[k]] = NL /\ \A j \in 1 .. k - 1 : file[s[j]] # NL
  BY <1>1, FirstNewline DEF s
<1>3. ASSUME k = 0, NEW p \in a .. a + n - 1 PROVE file[p] # NL
  <2>1. p - a + 1 \in 1 .. n /\ a + (p - a + 1) - 1 = p
    OBVIOUS
  <2> QED
    BY <1>1, <1>2, <1>3, <2>1
<1>4. ASSUME k > 0, NEW p \in a .. a + k - 2 PROVE file[p] # NL
  <2>1. p - a + 1 \in 1 .. k - 1 /\ p - a + 1 \in 1 .. n /\ a + (p - a + 1) - 1 = p
    BY <1>2
  <2> QED
    BY <1>1, <1>2, <1>4, <2>1
<1>5. k > 0 => file[a + k - 1] = NL
  BY <1>1, <1>2
<1> QED
  BY <1>2, <1>3, <1>4, <1>5 DEF NoNewline

-----------------------------------------------------------------------------
(* The reference, said without its choices of a least newline.              *)

FileTyped == file \in Text /\ maxLineBytes \in Nat \ {0}

Part(s, n) ==
  stripWindowsLineEnding(Interval(s, IF n <= maxLineBytes THEN n ELSE maxLineBytes))

EndedLines ==
  \A s \in 1 .. Len(file) + 1 : \A q \in s .. Len(file) :
    file[q] = NL /\ NoNewline(s, q - 1) =>
      /\ Over(s) <=> q - s + 1 > maxLineBytes
      /\ Cut(s) = Part(s, q - s)
      /\ Reported(s) <=> ~Over(s) \/ Cut(s) # <<>>

OpenLines ==
  \A s \in 1 .. Len(file) + 1 :
    NoNewline(s, Len(file)) =>
      /\ Over(s) <=> Len(file) - s + 1 > maxLineBytes
      /\ Cut(s) = Part(s, Len(file) - s + 1)
      /\ Reported(s) <=> Over(s) /\ Cut(s) # <<>>

\* A line whose first bytes are too many is known as such, however it ends.
LongLines ==
  \A s \in 1 .. Len(file) + 1 :
    s + maxLineBytes <= Len(file) /\ NoNewline(s, s + maxLineBytes - 1) =>
      /\ Over(s)
      /\ Cut(s) = stripWindowsLineEnding(Interval(s, maxLineBytes))
      /\ Reported(s) <=> Cut(s) # <<>>

LEMMA MinOfTwo ==
  ASSUME NEW a \in Nat, NEW b \in Nat
  PROVE  Min({a, b}) = IF a <= b THEN a ELSE b
<1>1. {a, b} \in SUBSET Nat /\ {a, b} # {}
  OBVIOUS
<1>2. Min({a, b}) \in {a, b} /\ \A y \in {a, b} : Min({a, b}) <= y
  BY <1>1, LeastNumber
<1> QED
  BY <1>2

LEMMA CutOf ==
  ASSUME FileTyped, NEW s \in Nat, NEW n \in Nat, Content(s) = Interval(s, n)
  PROVE  Len(Content(s)) = n /\ Cut(s) = Part(s, n)
<1> DEFINE c == IF n <= maxLineBytes THEN n ELSE maxLineBytes
<1>1. Len(Content(s)) = n
  BY IntervalTyped
<1>2. c \in 0 .. n /\ Min({n, maxLineBytes}) = c
  BY MinOfTwo DEF FileTyped
<1>3. SubSeq(Interval(s, n), 1, c) = Interval(s + 1 - 1, c - 1 + 1)
  <2>1. 1 \in 1 .. n + 1 /\ c \in 1 - 1 .. n
    BY <1>2
  <2> QED
    BY <2>1, IntervalPart
<1>4. s + 1 - 1 = s /\ c - 1 + 1 = c
  BY <1>2
<1> HIDE DEF c
<1>5. SubSeq(Content(s), 1, Min({Len(Content(s)), maxLineBytes})) = Interval(s, c)
  BY <1>1, <1>2, <1>3, <1>4
<1> QED
  BY <1>1, <1>5 DEF Cut, Part, c

LEMMA EndedLinesFact == FileTyped => EndedLines
<1> SUFFICES ASSUME FileTyped,
                    NEW s \in 1 .. Len(file) + 1, NEW q \in s .. Len(file),
                    file[q] = NL, NoNewline(s, q - 1)
             PROVE  /\ Over(s) <=> q - s + 1 > maxLineBytes
                    /\ Cut(s) = Part(s, q - s)
                    /\ Reported(s) <=> ~Over(s) \/ Cut(s) # <<>>
  BY DEF EndedLines
<1>1. Len(file) \in Nat /\ s \in Nat /\ q \in Nat /\ q - s \in Nat
  BY DEF FileTyped, Text
<1>2. q \in NewlineAfter(s) /\ NewlineAfter(s) \in SUBSET Nat
  BY <1>1 DEF NewlineAfter
<1>3. Min(NewlineAfter(s)) = q
  <2>1. Min(NewlineAfter(s)) \in NewlineAfter(s) /\ Min(NewlineAfter(s)) <= q
    BY <1>2, LeastNumber
  <2>2. \A p \in NewlineAfter(s) : ~(p < q)
    BY <1>1 DEF NewlineAfter, NoNewline
  <2> QED
    BY <1>1, <1>2, <2>1, <2>2
<1>4. Content(s) = Interval(s, q - s)
  <2>1. (q - 1) - s + 1 = q - s
    BY <1>1
  <2> QED
    BY <1>2, <1>3, <2>1 DEF Content, Interval
<1>5. Len(Content(s)) = q - s /\ Cut(s) = Part(s, q - s)
  BY <1>1, <1>4, CutOf
<1> QED
  BY <1>1, <1>2, <1>5 DEF Over, Ready, Reported

\* A text over the limit is, with its ending, a line over the limit.
LEMMA ExceedsIsOver ==
  ASSUME FileTyped, NEW s \in Starts, Exceeds(s)
  PROVE  Over(s)
<1>1. Len(file) \in Nat /\ maxLineBytes \in Nat /\ s \in Nat /\ s <= Len(file) + 1
  BY DEF FileTyped, Text, Starts
<1>2. PICK n \in Nat : Content(s) = Interval(s, n)
  <2>1. CASE NewlineAfter(s) = {}
    <3>1. Len(file) - s + 1 \in Nat /\ Content(s) = Interval(s, Len(file) - s + 1)
      BY <1>1, <2>1 DEF Content, Interval
    <3> QED
      BY <3>1
  <2>2. CASE NewlineAfter(s) # {}
    <3>1. NewlineAfter(s) \in SUBSET Nat /\ \A p \in NewlineAfter(s) : p >= s
      BY <1>1 DEF NewlineAfter
    <3>2. Min(NewlineAfter(s)) \in Nat /\ Min(NewlineAfter(s)) >= s
      BY <2>2, <3>1, LeastNumber
    <3>3. PICK q \in Nat : q = Min(NewlineAfter(s)) /\ q >= s
      BY <3>2
    <3>4. Content(s) = [k \in 1 .. (q - 1) - s + 1 |-> s + k - 1]
      BY <2>2, <3>3 DEF Content
    <3>5. (q - 1) - s + 1 = q - s /\ q - s \in Nat
      BY <1>1, <3>3
    <3> QED
      BY <3>4, <3>5 DEF Interval
  <2> QED
    BY <2>1, <2>2
<1>3. Content(s) \in Seq(Nat) /\ Len(Content(s)) = n
  BY <1>1, <1>2, IntervalTyped
<1>4. PICK c \in Seq(Nat) : c = Content(s)
  BY <1>3
<1>5. Len(stripWindowsLineEnding(c)) <= Len(c)
  <2>1. CASE c = <<>>
    BY <2>1 DEF stripWindowsLineEnding
  <2>2. CASE c # <<>>
    <3>1. Len(c) \in Nat /\ Len(c) > 0
      BY <2>2, EmptySeq
    <3>2. Len(c) - 1 \in 0 .. Len(c)
      BY <3>1
    <3>3. Len(SubSeq(c, 1, Len(c) - 1)) = Len(c) - 1
      BY <3>2, FirstPart
    <3>4. Len(Front(c)) = Len(c) - 1
      BY <3>3 DEF Front
    <3> QED
      BY <3>1, <3>4 DEF stripWindowsLineEnding
  <2> QED
    BY <2>1, <2>2
<1>6. Len(stripWindowsLineEnding(c)) > maxLineBytes
  BY <1>4 DEF Exceeds
<1>7. Len(c) > maxLineBytes
  <2>1. Len(stripWindowsLineEnding(c)) \in Nat
    BY DEF stripWindowsLineEnding, Front
  <2> QED
    BY <1>1, <1>5, <1>6, <2>1
<1> QED
  BY <1>1, <1>3, <1>4, <1>7 DEF Over

LEMMA OpenLinesFact == FileTyped => OpenLines
<1> SUFFICES ASSUME FileTyped, NEW s \in 1 .. Len(file) + 1, NoNewline(s, Len(file))
             PROVE  /\ Over(s) <=> Len(file) - s + 1 > maxLineBytes
                    /\ Cut(s) = Part(s, Len(file) - s + 1)
                    /\ Reported(s) <=> Over(s) /\ Cut(s) # <<>>
  BY DEF OpenLines
<1>1. Len(file) \in Nat /\ s \in Nat /\ Len(file) - s + 1 \in Nat
  BY DEF FileTyped, Text
<1>2. NewlineAfter(s) = {}
  BY <1>1 DEF NewlineAfter, NoNewline
<1>3. Content(s) = Interval(s, Len(file) - s + 1)
  BY <1>2 DEF Content, Interval
<1>4. Len(Content(s)) = Len(file) - s + 1 /\ Cut(s) = Part(s, Len(file) - s + 1)
  BY <1>1, <1>3, CutOf
<1> QED
  BY <1>1, <1>2, <1>4 DEF Over, Ready, Reported

LEMMA NextNewline ==
  ASSUME FileTyped, NEW s \in 1 .. Len(file) + 1
  PROVE  \/ NoNewline(s, Len(file))
         \/ \E q \in s .. Len(file) : file[q] = NL /\ NoNewline(s, q - 1)
<1>1. Len(file) \in Nat /\ NewlineAfter(s) \in SUBSET Nat
  BY DEF FileTyped, Text, NewlineAfter
<1>2. CASE NewlineAfter(s) = {}
  BY <1>2 DEF NewlineAfter, NoNewline
<1>3. CASE NewlineAfter(s) # {}
  <2>1. PICK q \in NewlineAfter(s) : \A y \in NewlineAfter(s) : q <= y
    BY <1>1, <1>3, LeastNumber
  <2>2. q \in s .. Len(file) /\ file[q] = NL
    BY DEF NewlineAfter
  <2>3. NoNewline(s, q - 1)
    <3>1. ASSUME NEW p \in s .. q - 1, file[p] = NL PROVE FALSE
      <4>1. p \in NewlineAfter(s) /\ ~(q <= p)
        BY <1>1, <2>2, <3>1 DEF NewlineAfter
      <4> QED
        BY <2>1, <4>1
    <3> QED
      BY <3>1 DEF NoNewline
  <2> QED
    BY <2>2, <2>3
<1> QED
  BY <1>2, <1>3

LEMMA LongLinesFact == FileTyped => LongLines
<1> SUFFICES ASSUME FileTyped, NEW s \in 1 .. Len(file) + 1,
                    s + maxLineBytes <= Len(file), NoNewline(s, s + maxLineBytes - 1)
             PROVE  /\ Over(s)
                    /\ Cut(s) = stripWindowsLineEnding(Interval(s, maxLineBytes))
                    /\ Reported(s) <=> Cut(s) # <<>>
  BY DEF LongLines
<1>1. Len(file) \in Nat /\ maxLineBytes \in Nat \ {0} /\ s \in Nat
  BY DEF FileTyped, Text
<1>2. CASE NoNewline(s, Len(file))
  <2>1. /\ Over(s) <=> Len(file) - s + 1 > maxLineBytes
        /\ Cut(s) = Part(s, Len(file) - s + 1)
        /\ Reported(s) <=> Over(s) /\ Cut(s) # <<>>
    BY <1>2, OpenLinesFact DEF OpenLines
  <2>2. Len(file) - s + 1 > maxLineBytes /\ ~(Len(file) - s + 1 <= maxLineBytes)
    BY <1>1
  <2> QED
    BY <2>1, <2>2 DEF Part
<1>3. ASSUME NEW q \in s .. Len(file), file[q] = NL, NoNewline(s, q - 1)
      PROVE  /\ Over(s)
             /\ Cut(s) = stripWindowsLineEnding(Interval(s, maxLineBytes))
             /\ Reported(s) <=> Cut(s) # <<>>
  <2>1. /\ Over(s) <=> q - s + 1 > maxLineBytes
        /\ Cut(s) = Part(s, q - s)
        /\ Reported(s) <=> ~Over(s) \/ Cut(s) # <<>>
    BY <1>3, EndedLinesFact DEF EndedLines
  <2>2. q >= s + maxLineBytes
    BY <1>1, <1>3 DEF NoNewline
  <2>3. q - s + 1 > maxLineBytes /\ (q - s <= maxLineBytes => q - s = maxLineBytes)
    BY <1>1, <2>2
  <2> QED
    BY <2>1, <2>3 DEF Part
<1> QED
  BY <1>2, <1>3, NextNewline

LEMMA ReferenceNext == FileTyped' => EndedLines' /\ OpenLines' /\ LongLines'
  BY EndedLinesFact, OpenLinesFact, LongLinesFact, PTL

-----------------------------------------------------------------------------
(* What readChunk returns, and what is left behind it.                      *)

LEMMA ChunkTyped ==
  ASSUME ReaderTypeOK
  PROVE  /\ Chunk \in Seq(Nat)
         /\ Chunk = <<>> => overflow = <<>> /\ buffered = <<>>
         /\ TakeChunk =>
              /\ buffered' \in Seq(Nat) /\ eof' \in BOOLEAN /\ offset' = offset
              /\ Len(Chunk) + Len(buffered') = Len(overflow) + Len(buffered)
<1> DEFINE n == IndexNewline(buffered)
<1>1. overflow \in Seq(Nat) /\ buffered \in Seq(Nat) /\ eof \in BOOLEAN
  BY DEF ReaderTypeOK
<1>2. CASE overflow # <<>>
  <2>1. Chunk = overflow
    BY <1>2 DEF Chunk
  <2> QED
    BY <1>1, <1>2, <2>1 DEF TakeChunk, ChunkEOF
<1>3. ASSUME overflow = <<>>, n > 0
      PROVE  /\ Chunk \in Seq(Nat) /\ Chunk # <<>>
             /\ Len(Chunk) \in 0 .. Len(buffered)
  <2>1. n \in 1 .. Len(buffered)
    BY <1>1, <1>3, FirstNewline
  <2>2. Chunk = SubSeq(buffered, 1, n)
    BY <1>3 DEF Chunk
  <2>3. SubSeq(buffered, 1, n) \in Seq(Nat) /\ Len(SubSeq(buffered, 1, n)) = n
    BY <1>1, <2>1
  <2> QED
    BY <2>1, <2>2, <2>3
<1>4. ASSUME overflow = <<>>, ~(n > 0) PROVE Chunk = buffered
  BY <1>4 DEF Chunk
<1>5. CASE overflow = <<>>
  <2>1. /\ Chunk \in Seq(Nat) /\ Len(Chunk) \in 0 .. Len(buffered)
        /\ Chunk = <<>> => buffered = <<>>
    BY <1>1, <1>3, <1>4, <1>5
  <2>2. /\ From(buffered, Len(Chunk) + 1) \in Seq(Nat)
        /\ Len(From(buffered, Len(Chunk) + 1)) = Len(buffered) - Len(Chunk)
    <3>1. Len(Chunk) + 1 \in 1 .. Len(buffered) + 1
      BY <1>1, <2>1
    <3> QED
      BY <1>1, <2>1, <3>1, FromTyped
  <2>3. TakeChunk => /\ buffered' = From(buffered, Len(Chunk) + 1) /\ offset' = offset
                     /\ eof' \in BOOLEAN
    BY <1>1, <1>5 DEF TakeChunk
  <2>4. Len(overflow) = 0
    BY <1>5
  <2>5. ASSUME TakeChunk
        PROVE  /\ buffered' \in Seq(Nat)
               /\ Len(Chunk) + Len(buffered') = Len(overflow) + Len(buffered)
    <3>1. buffered' \in Seq(Nat) /\ Len(buffered') = Len(buffered) - Len(Chunk)
      BY <2>2, <2>3, <2>5
    <3>2. Len(buffered) \in Nat /\ Len(Chunk) \in Nat
      BY <1>1, <2>1
    <3> QED
      BY <2>4, <3>1, <3>2
  <2> QED
    BY <1>5, <2>1, <2>3, <2>5
<1> QED
  BY <1>2, <1>5

LEMMA ChunkPlace ==
  ASSUME ReaderTypeOK, Pieces
  PROVE  /\ rest \in Nat /\ Chunk = Interval(rest, Len(Chunk))
         /\ TakeChunk => buffered' = Interval(rest + Len(Chunk), Len(buffered'))
         /\ overflow # <<>> => Chunk = overflow /\ ~ChunkEOF
         /\ overflow = <<>> => NoNewline(rest, rest + Len(Chunk) - 2)
         /\ ChunkEOF => Chunk = buffered
<1> DEFINE n == IndexNewline(buffered)
<1>1. /\ overflow \in Seq(Nat) /\ buffered \in Seq(Nat) /\ rest \in Nat
      /\ overflow = Interval(rest, Len(overflow))
      /\ buffered = Interval(rest + Len(overflow), Len(buffered))
  BY DEF ReaderTypeOK, Pieces
<1>2. CASE overflow # <<>>
  <2>1. Chunk = overflow /\ ~ChunkEOF
    BY <1>2 DEF Chunk, ChunkEOF
  <2> QED
    BY <1>1, <1>2, <2>1 DEF TakeChunk
<1>3. CASE overflow = <<>>
  <2>1. Len(overflow) = 0 /\ buffered = Interval(rest, Len(buffered)) /\ Len(buffered) \in Nat
    BY <1>1, <1>3
  <2>2. /\ n \in 0 .. Len(buffered)
        /\ n = 0 => NoNewline(rest, rest + Len(buffered) - 1)
        /\ n > 0 => file[rest + n - 1] = NL /\ NoNewline(rest, rest + n - 2)
    BY <1>1, <2>1, FirstNewlineAt
  <2>3. ASSUME n > 0
        PROVE  /\ Chunk = Interval(rest, n) /\ Len(Chunk) = n
               /\ ~ChunkEOF
    <3>1. 1 \in 1 .. Len(buffered) + 1 /\ n \in 1 - 1 .. Len(buffered)
      BY <2>1, <2>2
    <3>2. SubSeq(Interval(rest, Len(buffered)), 1, n) = Interval(rest + 1 - 1, n - 1 + 1)
      BY <1>1, <2>1, <3>1, IntervalPart
    <3>3. rest + 1 - 1 = rest /\ n - 1 + 1 = n /\ n \in Nat
      BY <1>1, <2>2
    <3>4. SubSeq(buffered, 1, n) = Interval(rest, n)
      BY <2>1, <3>2, <3>3
    <3> QED
      BY <1>1, <1>3, <2>3, <3>3, <3>4, IntervalTyped DEF Chunk, ChunkEOF
  <2>4. ASSUME n = 0 PROVE Chunk = buffered
    BY <1>3, <2>4 DEF Chunk
  <2>5. /\ Chunk = Interval(rest, Len(Chunk)) /\ Len(Chunk) \in 0 .. Len(buffered)
        /\ NoNewline(rest, rest + Len(Chunk) - 2)
        /\ ChunkEOF => Chunk = buffered
    <3>1. CASE n > 0
      BY <2>2, <2>3, <3>1
    <3>2. CASE n = 0
      <4>1. NoNewline(rest, rest + Len(buffered) - 2)
        BY <1>1, <2>1, <2>2, <3>2 DEF NoNewline
      <4> QED
        BY <2>1, <2>4, <3>2, <4>1
    <3> QED
      BY <2>2, <3>1, <3>2
  <2>6. ASSUME TakeChunk PROVE buffered' = Interval(rest + Len(Chunk), Len(buffered'))
    <3>1. Len(Chunk) + 1 \in 1 .. Len(buffered) + 1
      BY <2>1, <2>5
    <3>2. From(Interval(rest, Len(buffered)), Len(Chunk) + 1)
            = Interval(rest + (Len(Chunk) + 1) - 1, Len(buffered) - (Len(Chunk) + 1) + 1)
      BY <1>1, <2>1, <3>1, IntervalFrom
    <3>3. /\ rest + (Len(Chunk) + 1) - 1 = rest + Len(Chunk)
          /\ Len(buffered) - (Len(Chunk) + 1) + 1 = Len(buffered) - Len(Chunk)
          /\ rest + Len(Chunk) \in Nat /\ Len(buffered) - Len(Chunk) \in Nat
      BY <1>1, <2>1, <2>5
    <3>4. buffered' = Interval(rest + Len(Chunk), Len(buffered) - Len(Chunk))
      BY <1>3, <2>1, <2>6, <3>2, <3>3 DEF TakeChunk
    <3> QED
      BY <3>3, <3>4, IntervalTyped
  <2> QED
    BY <1>1, <1>3, <2>5, <2>6
<1> QED
  BY <1>2, <1>3

-----------------------------------------------------------------------------
(* The lines that were sent.                                                *)

SameFile == file' = file /\ maxLineBytes' = maxLineBytes

LEMMA SameReference ==
  ASSUME SameFile
  PROVE  /\ Starts' = Starts
         /\ \A s : Line(s)' = Line(s) /\ (Reported(s)' <=> Reported(s))
  BY DEF SameFile, Starts, Line, Ready, Reported, Over, Cut, Content, NewlineAfter,
         stripWindowsLineEnding

LEMMA SentKept ==
  ASSUME Sent, UNCHANGED lines, DoneStarts' = DoneStarts,
         \A s \in DoneStarts : Line(s)' = Line(s) /\ (Reported(s)' <=> Reported(s))
  PROVE  Sent'
<1>1. ASSUME NEW i \in 1 .. Len(lines)
      PROVE  /\ lines[i].start \in DoneStarts'
             /\ \A s : s = lines[i].start => Reported(s)' /\ lines[i] = Line(s)'
  BY DEF Sent
<1>2. \A i \in 1 .. Len(lines') :
        /\ lines'[i].start \in DoneStarts' /\ Reported(lines[i].start)'
        /\ lines'[i] = Line(lines[i].start)'
  <2>1. ASSUME NEW i \in 1 .. Len(lines), NEW s, s = lines'[i].start
        PROVE  s \in DoneStarts' /\ Reported(s)' /\ lines'[i] = Line(s)'
    BY <1>1, <2>1
  <2> QED
    BY <2>1
<1>3. \A s \in DoneStarts' : Reported(s)' => \E i \in 1 .. Len(lines') : lines'[i].start = s
  BY DEF Sent
<1> QED
  BY <1>2, <1>3 DEF Sent

\* The line that was begun is done with, and is sent if it is one to report.
LEMMA SentNext ==
  ASSUME ReaderTypeOK, Sent, SameFile,
         NEW b \in Starts, DoneStarts' = DoneStarts \cup {b}, \A s \in DoneStarts : s < b,
         lines' = IF Reported(b) THEN Append(lines, Line(b)) ELSE lines
  PROVE  Sent'
<1>1. \A s : Line(s)' = Line(s) /\ (Reported(s)' <=> Reported(s))
  BY SameReference
<1>2. CASE ~Reported(b)
  <2>1. \A i \in 1 .. Len(lines) :
          /\ lines[i].start \in DoneStarts' /\ Reported(lines[i].start)
          /\ lines[i] = Line(lines[i].start)
    BY DEF Sent
  <2>2. lines' = lines
    BY <1>2
  <2>3. \A i \in 1 .. Len(lines') :
          /\ lines'[i].start \in DoneStarts' /\ Reported(lines[i].start)'
          /\ lines'[i] = Line(lines[i].start)'
    <3>1. ASSUME NEW i \in 1 .. Len(lines), NEW s, s = lines'[i].start
          PROVE  s \in DoneStarts' /\ Reported(s)' /\ lines'[i] = Line(s)'
      BY <1>1, <2>1, <2>2, <3>1
    <3> QED
      BY <2>2, <3>1
  <2>4. \A s \in DoneStarts' : Reported(s)' => \E i \in 1 .. Len(lines') : lines'[i].start = s
    BY <1>1, <1>2, <2>2 DEF Sent
  <2> QED
    BY <2>2, <2>3, <2>4 DEF Sent
<1>3. CASE Reported(b)
  <2> DEFINE n == Len(lines)
  <2>1. /\ n \in Nat /\ lines' = Append(lines, Line(b)) /\ Len(lines') = n + 1
        /\ \A i \in 1 .. n : lines'[i] = lines[i]
        /\ lines'[n + 1] = Line(b)
    BY <1>3 DEF ReaderTypeOK
  <2>2. Line(b).start = b
    BY DEF Line
  <2> HIDE DEF n
  <2>3. ASSUME NEW i \in 1 .. n + 1, NEW s, s = lines'[i].start
        PROVE  s \in DoneStarts' /\ Reported(s)' /\ lines'[i] = Line(s)'
    <3>1. CASE i = n + 1
      BY <1>1, <1>3, <2>1, <2>2, <2>3, <3>1
    <3>2. CASE i \in 1 .. n
      BY <1>1, <2>1, <2>3, <3>2 DEF Sent, n
    <3> QED
      BY <2>1, <3>1, <3>2
  <2>4. \A i, j \in 1 .. n + 1 : i < j => lines'[i].start < lines'[j].start
    <3>1. \A i \in 1 .. n : lines'[i].start < b
      BY <2>1 DEF Sent, n
    <3>2. \A i, j \in 1 .. n : i < j => lines'[i].start < lines'[j].start
      BY <2>1 DEF Sent, n
    <3>3. \A i, j \in 1 .. n + 1 : i < j => i \in 1 .. n /\ (j \in 1 .. n \/ j = n + 1)
      BY <2>1
    <3> QED
      BY <2>1, <2>2, <3>1, <3>2, <3>3
  <2>5. ASSUME NEW s \in DoneStarts', Reported(s)'
        PROVE  \E i \in 1 .. n + 1 : lines'[i].start = s
    <3>1. CASE s = b
      BY <2>1, <2>2, <3>1
    <3>2. CASE s \in DoneStarts
      <4>1. PICK i \in 1 .. n : lines[i].start = s
        BY <1>1, <2>5, <3>2 DEF Sent, n
      <4> QED
        BY <2>1, <4>1
    <3> QED
      BY <3>1, <3>2
  <2>6. \A i \in 1 .. Len(lines') :
          /\ lines'[i].start \in DoneStarts' /\ Reported(lines[i].start)'
          /\ lines'[i] = Line(lines[i].start)'
    BY <2>1, <2>3
  <2> QED
    BY <2>1, <2>4, <2>5, <2>6 DEF Sent
<1> QED
  BY <1>2, <1>3

LEMMA Bounds ==
  ASSUME ReaderTypeOK, Pieces
  PROVE  /\ offset \in Nat /\ Len(file) \in Nat /\ offset <= Len(file)
         /\ Len(buf) \in Nat /\ Len(overflow) \in Nat /\ Len(buffered) \in Nat
         /\ begin \in 1 .. offset + 1 /\ rest \in begin .. offset + 1
         /\ rest + Len(overflow) + Len(buffered) = offset + 1
         /\ ~discardingTooLongLine => rest = begin + Len(buf)
         /\ begin > 1 => file[begin - 1] = NL
<1>1. /\ offset \in Nat /\ Len(file) \in Nat /\ offset <= Len(file)
      /\ Len(buf) \in Nat /\ Len(overflow) \in Nat /\ Len(buffered) \in Nat
      /\ maxLineBytes \in Nat \ {0} /\ DOMAIN file = 1 .. Len(file)
  BY DEF ReaderTypeOK, Text
<1>2. rest = offset + 1 - Len(buffered) - Len(overflow)
  BY DEF rest
<1>3. rest + Len(overflow) + Len(buffered) = offset + 1 /\ rest \in Nat /\ rest <= offset + 1
  BY <1>1, <1>2 DEF Pieces
<1>4. begin \in Nat \ {0} /\ (begin > 1 => file[begin - 1] = NL)
  BY <1>1 DEF Pieces, Starts
<1>5. CASE discardingTooLongLine
  <2>1. begin + maxLineBytes <= rest
    BY <1>5 DEF Pieces
  <2> QED
    BY <1>1, <1>3, <1>4, <1>5, <2>1
<1>6. CASE ~discardingTooLongLine
  <2>1. begin = rest - Len(buf)
    BY <1>6 DEF begin
  <2> QED
    BY <1>1, <1>3, <1>4, <1>6, <2>1
<1> QED
  BY <1>5, <1>6

\* What was dealt with is not changed by bytes that are appended.
LEMMA PartKept ==
  ASSUME FileTyped, NEW b, file' = Append(file, b), maxLineBytes' = maxLineBytes,
         NEW s \in Nat \ {0}, NEW n \in Nat, s + n <= Len(file) + 1
  PROVE  Part(s, n)' = Part(s, n)
<1> DEFINE c == IF n <= maxLineBytes THEN n ELSE maxLineBytes
           t == Interval(s, c)
<1>1. c \in 0 .. n /\ c' = c
  BY DEF FileTyped
<1>2. Len(t) = c /\ (t # <<>> => c > 0 /\ t[c] = s + c - 1)
  <2>1. c \in Nat /\ s \in Nat
    BY <1>1
  <2> HIDE DEF c
  <2>2. Len(t) = c /\ (\A k \in 1 .. c : t[k] = s + k - 1) /\ (t = <<>> <=> c = 0)
    BY <2>1, IntervalTyped, EmptyIntervals
  <2> QED
    BY <2>1, <2>2
<1>3. t # <<>> => file'[Last(t)] = file[Last(t)]
  <2>1. Len(file) \in Nat /\ \A p \in 1 .. Len(file) : file'[p] = file[p]
    BY DEF FileTyped, Text
  <2>2. t # <<>> => Last(t) \in 1 .. Len(file)
    BY <1>1, <1>2, <2>1 DEF Last
  <2> QED
    BY <2>1, <2>2
<1>4. t' = t
  BY <1>1 DEF Interval
<1> HIDE DEF t, c
<1>5. stripWindowsLineEnding(t)' = stripWindowsLineEnding(t)
  BY <1>3, <1>4 DEF stripWindowsLineEnding
<1> QED
  BY <1>5 DEF Part, t, c

LEMMA AppendKeepsDone ==
  ASSUME ReaderTypeOK, Pieces, NEW b \in {"x", CR, NL}, AppendByte(b)
  PROVE  /\ Starts \subseteq Starts' /\ DoneStarts' = DoneStarts
         /\ \A s \in DoneStarts : Line(s)' = Line(s) /\ (Reported(s)' <=> Reported(s))
<1>1. /\ file \in Text /\ Len(file) \in Nat /\ file' = Append(file, b) /\ maxLineBytes' = maxLineBytes
      /\ Len(file') = Len(file) + 1
      /\ \A p \in 1 .. Len(file) : file'[p] = file[p]
      /\ DOMAIN file = 1 .. Len(file) /\ DOMAIN file' = 1 .. Len(file) + 1
      /\ file' \in Text
  BY DEF AppendByte, ReaderTypeOK, Text
<1>2. FileTyped /\ FileTyped'
  BY <1>1 DEF ReaderTypeOK, FileTyped
<1>3. EndedLines /\ EndedLines' /\ LongLines /\ LongLines'
  BY <1>2, EndedLinesFact, LongLinesFact, ReferenceNext
<1>4. /\ offset <= Len(file) /\ offset \in Nat
      /\ begin \in 1 .. offset + 1 /\ (begin > 1 => file[begin - 1] = NL)
  BY Bounds
<1>5. begin' = begin /\ discardingTooLongLine' = discardingTooLongLine
  BY DEF AppendByte, begin, rest, bufioVars, readerVars
<1>6. Starts \subseteq Starts' /\ \A s \in Starts' : s \in Starts \/ s = Len(file) + 2
  BY <1>1 DEF Starts
<1>7. DoneStarts' = DoneStarts
  <2>1. ~(Len(file) + 2 < begin) /\ Len(file) + 2 # begin
    BY <1>1, <1>4
  <2> QED
    BY <1>5, <1>6, <2>1 DEF DoneStarts
<1>8. ASSUME NEW s \in DoneStarts
      PROVE  Line(s)' = Line(s) /\ (Reported(s)' <=> Reported(s))
  <2>1. s \in Starts /\ s \in 1 .. Len(file) + 1 /\ (s < begin \/ (discardingTooLongLine /\ s = begin))
    BY <1>1 DEF DoneStarts, Starts
  <2>2. CASE s < begin
    <3>1. ~NoNewline(s, Len(file))
      <4>1. begin - 1 \in s .. Len(file) /\ file[begin - 1] = NL
        BY <1>1, <1>4, <2>1, <2>2
      <4> QED
        BY <4>1 DEF NoNewline
    <3>2. PICK q \in s .. Len(file) : file[q] = NL /\ NoNewline(s, q - 1)
      BY <1>2, <2>1, <3>1, NextNewline
    <3>3. /\ s \in (1 .. Len(file) + 1)' /\ q \in (s .. Len(file))'
          /\ file'[q] = NL /\ NoNewline(s, q - 1)'
      BY <1>1, <2>1, <3>2 DEF NoNewline
    <3>4. /\ Over(s) <=> q - s + 1 > maxLineBytes
          /\ Cut(s) = Part(s, q - s)
          /\ Reported(s) <=> ~Over(s) \/ Cut(s) # <<>>
      BY <1>3, <2>1, <3>2 DEF EndedLines
    <3>5. /\ Over(s)' <=> q - s + 1 > maxLineBytes'
          /\ Cut(s)' = Part(s, q - s)'
          /\ Reported(s)' <=> ~Over(s)' \/ Cut(s)' # <<>>
      BY <1>3, <3>3 DEF EndedLines
    <3>6. Part(s, q - s)' = Part(s, q - s)
      <4>1. s \in Nat \ {0} /\ q - s \in Nat /\ s + (q - s) <= Len(file) + 1
        BY <1>1, <2>1
      <4> QED
        BY <1>1, <1>2, <4>1, PartKept
    <3>7. Over(s)' <=> Over(s)
      BY <1>1, <3>4, <3>5
    <3> QED
      BY <3>4, <3>5, <3>6, <3>7 DEF Line, Over
  <2>3. CASE discardingTooLongLine /\ s = begin
    <3>1. begin + maxLineBytes <= offset /\ maxLineBytes \in Nat \ {0} /\ begin + maxLineBytes <= rest
      BY <2>3 DEF Pieces, ReaderTypeOK
    <3>2. s + maxLineBytes <= Len(file) /\ NoNewline(s, s + maxLineBytes - 1)
      <4>1. NoNewline(s, rest - 1) /\ rest \in Nat
        BY <2>3 DEF Pieces
      <4> QED
        BY <1>1, <1>4, <2>3, <3>1, <4>1 DEF NoNewline
    <3>3. /\ s \in (1 .. Len(file) + 1)' /\ (s + maxLineBytes <= Len(file))'
          /\ NoNewline(s, s + maxLineBytes - 1)'
      BY <1>1, <2>1, <3>1, <3>2 DEF NoNewline
    <3>4. /\ Over(s)
          /\ Cut(s) = stripWindowsLineEnding(Interval(s, maxLineBytes))
          /\ Reported(s) <=> Cut(s) # <<>>
      BY <1>3, <2>1, <3>2 DEF LongLines
    <3>5. /\ Over(s)'
          /\ Cut(s)' = stripWindowsLineEnding(Interval(s, maxLineBytes))'
          /\ Reported(s)' <=> Cut(s)' # <<>>
      BY <1>3, <3>3 DEF LongLines
    <3>6. Part(s, maxLineBytes)' = Part(s, maxLineBytes)
      <4>1. s \in Nat \ {0} /\ maxLineBytes \in Nat /\ s + maxLineBytes <= Len(file) + 1
        BY <1>1, <2>1, <3>1, <3>2
      <4>2. \A n \in Nat : s + n <= Len(file) + 1 => Part(s, n)' = Part(s, n)
        BY <1>1, <1>2, <4>1, PartKept
      <4> QED
        BY <1>1, <4>1, <4>2 DEF Part
    <3>7. Part(s, maxLineBytes) = stripWindowsLineEnding(Interval(s, maxLineBytes))
      BY <3>1 DEF Part
    <3>8. Part(s, maxLineBytes)' = stripWindowsLineEnding(Interval(s, maxLineBytes))'
      BY <1>1, <3>1 DEF Part
    <3> QED
      BY <3>4, <3>5, <3>6, <3>7, <3>8 DEF Line
  <2> QED
    BY <2>1, <2>2, <2>3
<1> QED
  BY <1>6, <1>7, <1>8

-----------------------------------------------------------------------------
(* Types.                                                                   *)

LEMMA BufferSet ==
  ASSUME maxLineBytes \in Nat \ {0}, NEW data \in Seq(Nat), setBufferFromBytes(data)
  PROVE  \E c \in 0 .. Len(data) :
           /\ c = IF Len(data) <= maxLineBytes THEN Len(data) ELSE maxLineBytes
           /\ buf' = SubSeq(data, 1, c) /\ overflow' = From(data, c + 1)
           /\ buf' \in Seq(Nat) /\ overflow' \in Seq(Nat)
           /\ Len(buf') = c /\ Len(overflow') = Len(data) - c
<1> DEFINE c == IF Len(data) <= maxLineBytes THEN Len(data) ELSE maxLineBytes
<1>1. c \in 0 .. Len(data) /\ Min({Len(data), maxLineBytes}) = c
  BY MinOfTwo
<1>2. buf' = SubSeq(data, 1, c) /\ overflow' = From(data, c + 1)
  BY <1>1 DEF setBufferFromBytes
<1>3. c + 1 \in 1 .. Len(data) + 1
  BY <1>1
<1> HIDE DEF c
<1>4. buf' \in Seq(Nat) /\ overflow' \in Seq(Nat) /\ Len(buf') = c /\ Len(overflow') = Len(data) - c
  <2>1. Len(data) - (c + 1) + 1 = Len(data) - c
    BY <1>1
  <2> QED
    BY <1>1, <1>2, <1>3, <2>1, FirstPart, FromTyped
<1> QED
  BY <1>1, <1>2, <1>4 DEF c

Sendable == [start : Nat, bytes : Seq(Nat), truncated : BOOLEAN]

LEMMA StripTyped ==
  ASSUME NEW s \in Seq(Nat)
  PROVE  stripWindowsLineEnding(s) \in Seq(Nat)
<1>1. s # <<>> => Front(s) \in Seq(Nat)
  BY DEF Front
<1> QED
  BY <1>1 DEF stripWindowsLineEnding

LEMMA TypesReadLine ==
  ASSUME ReaderTypeOK, ReadLine
  PROVE  ReaderTypeOK'
<1>1. /\ maxLineBytes \in Nat \ {0} /\ readBufferSize \in Nat \ {0}
      /\ file \in Text /\ offset \in 0 .. Len(file) /\ Len(file) \in Nat
      /\ buf \in Seq(Nat) /\ overflow \in Seq(Nat) /\ buffered \in Seq(Nat)
      /\ Len(buf) \in Nat /\ Len(overflow) \in Nat /\ Len(buffered) \in Nat
      /\ Len(buf) <= maxLineBytes /\ Len(overflow) + Len(buffered) <= readBufferSize
      /\ lines \in Seq(Sendable)
  BY ConstantsAssumption DEF ReaderTypeOK, Text, Sendable
<1>2. /\ Chunk \in Seq(Nat) /\ Len(Chunk) \in Nat
      /\ TakeChunk =>
           /\ buffered' \in Seq(Nat) /\ eof' \in BOOLEAN /\ offset' = offset
           /\ Len(Chunk) + Len(buffered') = Len(overflow) + Len(buffered)
           /\ Len(buffered') \in Nat /\ Len(buffered') <= readBufferSize
  BY <1>1, ChunkTyped
<1>3. CASE Fill
  <2> DEFINE n == Min({readBufferSize - Len(buffered), Len(file) - offset})
             t == [k \in 1 .. n |-> offset + k]
  <2>1. overflow = <<>> /\ Len(overflow) = 0 /\ Len(buffered) < readBufferSize
    BY <1>1, <1>3 DEF Fill, ChunkReady
  <2>2. n \in Nat /\ n <= readBufferSize - Len(buffered) /\ n <= Len(file) - offset
    <3>1. readBufferSize - Len(buffered) \in Nat /\ Len(file) - offset \in Nat
      BY <1>1, <2>1
    <3>2. n = IF readBufferSize - Len(buffered) <= Len(file) - offset
                THEN readBufferSize - Len(buffered) ELSE Len(file) - offset
      BY <3>1, MinOfTwo
    <3> QED
      BY <3>1, <3>2
  <2>3. /\ buffered' = buffered \o t /\ offset' = offset + n /\ eof' = (n = 0)
        /\ UNCHANGED <<fileVars, readerVars, source, pc, atEOF, lines, rebound>>
    BY <1>3 DEF Fill
  <2> HIDE DEF n
  <2>4. t \in Seq(Nat) /\ Len(t) = n
    <3>1. t \in [1 .. n -> Nat]
      BY <1>1, <2>2
    <3> QED
      BY <2>2, <3>1
  <2> HIDE DEF t
  <2>5. buffered' \in Seq(Nat) /\ Len(buffered') = Len(buffered) + n
    BY <1>1, <2>3, <2>4
  <2>6. offset' \in 0 .. Len(file)' /\ Len(overflow') + Len(buffered') <= readBufferSize
    BY <1>1, <2>1, <2>2, <2>3, <2>5 DEF fileVars, readerVars
  <2> QED
    BY <2>3, <2>5, <2>6 DEF ReaderTypeOK, fileVars, readerVars
<1>4. CASE ReturnLine
  <2> DEFINE n == IndexNewline(buf)
  <2>1. n \in 1 .. Len(buf) /\ n - 1 \in 0 .. Len(buf) /\ n + 1 \in 1 .. Len(buf) + 1
    <3>1. n \in 0 .. Len(buf) /\ n > 0
      BY <1>1, <1>4, FirstNewline DEF ReturnLine
    <3> HIDE DEF n
    <3> QED
      BY <1>1, <3>1
  <2>2. From(buf, n + 1) \in Seq(Nat) /\ Len(From(buf, n + 1)) = Len(buf) - (n + 1) + 1
    BY <1>1, <2>1, FromTyped
  <2>3. [start |-> Head(buf), bytes |-> stripWindowsLineEnding(SubSeq(buf, 1, n - 1)),
         truncated |-> FALSE] \in Sendable
    <3>1. Head(buf) \in Nat
      <4>1. buf # <<>>
        BY <1>1, <2>1
      <4> QED
        BY <1>1, <4>1, HeadTailProperties
    <3>2. stripWindowsLineEnding(SubSeq(buf, 1, n - 1)) \in Seq(Nat)
      BY <1>1, <2>1, FirstPart, StripTyped
    <3> QED
      BY <3>1, <3>2 DEF Sendable
  <2>4. lines' \in Seq(Sendable)
    BY <1>1, <1>4, <2>3 DEF ReturnLine
  <2>5. buf' \in Seq(Nat) /\ Len(buf') <= maxLineBytes
    <3>1. buf' = From(buf, n + 1)
      BY <1>4 DEF ReturnLine
    <3> HIDE DEF n
    <3> QED
      BY <1>1, <2>1, <2>2, <3>1
  <2> QED
    BY <1>4, <2>4, <2>5 DEF ReaderTypeOK, ReturnLine, fileVars, bufioVars, Sendable
<1>5. CASE BufferChunk
  <2>1. buf' = buf \o Chunk /\ overflow' = <<>> /\ Len(buf) + Len(Chunk) <= maxLineBytes
    BY <1>1, <1>2, <1>5 DEF BufferChunk, TooLong
  <2>2. buf' \in Seq(Nat) /\ Len(buf') = Len(buf) + Len(Chunk)
    BY <1>1, <1>2, <2>1
  <2>3. overflow' \in Seq(Nat) /\ Len(overflow') + Len(buffered') <= readBufferSize
    BY <1>1, <1>2, <1>5, <2>1 DEF BufferChunk
  <2> QED
    BY <1>2, <1>5, <2>1, <2>2, <2>3 DEF ReaderTypeOK, BufferChunk, fileVars
<1>6. CASE ReturnTooLong
  <2> DEFINE fit == maxLineBytes - Len(buf)
  <2>1. fit \in 0 .. Len(Chunk) /\ fit + 1 \in 1 .. Len(Chunk) + 1
    <3>1. Len(buf) + Len(Chunk) > maxLineBytes
      BY <1>6 DEF ReturnTooLong, TooLong
    <3> QED
      BY <1>1, <1>2, <3>1
  <2>2. /\ buf' = buf \o SubSeq(Chunk, 1, fit) /\ overflow' = From(Chunk, fit + 1)
        /\ TakeChunk
    BY <1>6 DEF ReturnTooLong
  <2> HIDE DEF fit
  <2>3. /\ SubSeq(Chunk, 1, fit) \in Seq(Nat) /\ Len(SubSeq(Chunk, 1, fit)) = fit
        /\ overflow' \in Seq(Nat) /\ Len(overflow') = Len(Chunk) - (fit + 1) + 1
    BY <1>2, <2>1, <2>2, FirstPart, FromTyped
  <2>4. buf' \in Seq(Nat) /\ Len(buf') = Len(buf) + fit
    BY <1>1, <2>2, <2>3
  <2>5. Len(buf') = maxLineBytes /\ buf' # <<>> /\ Head(buf') \in Nat
    BY <1>1, <2>1, <2>4 DEF fit
  <2>6. Len(overflow') + Len(buffered') <= readBufferSize
    BY <1>1, <1>2, <2>1, <2>2, <2>3
  <2>7. lines' \in Seq(Sendable)
    <3> DEFINE line == stripWindowsLineEnding(buf')
    <3>1. stripWindowsLineEnding(buf)' = line
      BY <1>6 DEF ReturnTooLong, stripWindowsLineEnding, fileVars
    <3>2. line \in Seq(Nat)
      BY <2>4, StripTyped
    <3>3. lines' = IF line = <<>> THEN lines
                   ELSE Append(lines, [start |-> Head(buf'), bytes |-> line, truncated |-> TRUE])
      BY <1>6, Zenon DEF ReturnTooLong
    <3> HIDE DEF line
    <3>4. [start |-> Head(buf'), bytes |-> line, truncated |-> TRUE] \in Sendable
      BY <2>5, <3>2 DEF Sendable
    <3> QED
      BY <1>1, <3>3, <3>4
  <2>8. /\ UNCHANGED <<maxLineBytes, file, offset, source, atEOF, rebound>>
        /\ pc' = "idle" /\ discardingTooLongLine' = TRUE
    BY <1>2, <1>6, <2>2 DEF ReturnTooLong, fileVars
  <2>9. Len(buf') <= maxLineBytes'
    BY <1>1, <2>5, <2>8
  <2>10. buffered' \in Seq(Nat) /\ eof' \in BOOLEAN
    BY <1>2, <2>2
  <2> QED
    BY <2>3, <2>4, <2>6, <2>7, <2>8, <2>9, <2>10 DEF ReaderTypeOK, Sendable
<1>7. CASE ReturnEOF
  <2>1. Len(overflow') + Len(buffered') <= readBufferSize
    BY <1>1, <1>2, <1>7, ChunkTyped DEF ReturnEOF, readerVars
  <2> QED
    BY <1>2, <1>7, <2>1 DEF ReaderTypeOK, ReturnEOF, fileVars, readerVars
<1>8. CASE DiscardInBuffer
  <2> DEFINE n == IndexNewline(buf)
  <2>1. n \in 1 .. Len(buf) /\ n + 1 \in 1 .. Len(buf) + 1
    BY <1>1, <1>8, FirstNewline DEF DiscardInBuffer
  <2>2. From(buf, n + 1) \in Seq(Nat) /\ Len(From(buf, n + 1)) = Len(buf) - (n + 1) + 1
    BY <1>1, <2>1, FromTyped
  <2>3. buf' \in Seq(Nat) /\ Len(buf') <= maxLineBytes
    BY <1>1, <1>8, <2>1, <2>2 DEF DiscardInBuffer
  <2> QED
    BY <1>8, <2>3 DEF ReaderTypeOK, DiscardInBuffer, DiscardEnds, fileVars, bufioVars
<1>9. CASE DiscardFindsNewline
  <2> DEFINE n == IndexNewline(Chunk)
  <2>1. n \in 1 .. Len(Chunk) /\ n + 1 \in 1 .. Len(Chunk) + 1
    BY <1>2, <1>9, FirstNewline DEF DiscardFindsNewline
  <2>2. /\ From(Chunk, n + 1) \in Seq(Nat) /\ Len(From(Chunk, n + 1)) = Len(Chunk) - (n + 1) + 1
        /\ setBufferFromBytes(From(Chunk, n + 1)) /\ TakeChunk
    BY <1>2, <1>9, <2>1, FromTyped DEF DiscardFindsNewline
  <2> HIDE DEF n
  <2>3. PICK c \in 0 .. Len(From(Chunk, n + 1)) :
          /\ c = IF Len(From(Chunk, n + 1)) <= maxLineBytes
                   THEN Len(From(Chunk, n + 1)) ELSE maxLineBytes
          /\ buf' \in Seq(Nat) /\ overflow' \in Seq(Nat)
          /\ Len(buf') = c /\ Len(overflow') = Len(From(Chunk, n + 1)) - c
    BY <1>1, <2>2, BufferSet
  <2>4. Len(buf') <= maxLineBytes /\ Len(overflow') + Len(buffered') <= readBufferSize
    <3>1. Len(From(Chunk, n + 1)) \in Nat /\ Len(From(Chunk, n + 1)) <= Len(Chunk)
      BY <1>2, <2>1, <2>2
    <3>2. Len(buf') <= maxLineBytes /\ Len(overflow') \in Nat /\ Len(overflow') <= Len(Chunk)
      BY <1>1, <2>3, <3>1
    <3> QED
      BY <1>1, <1>2, <2>2, <3>2
  <2> QED
    BY <1>2, <1>9, <2>2, <2>3, <2>4 DEF ReaderTypeOK, DiscardFindsNewline, DiscardEnds, fileVars
<1>10. CASE DiscardChunk
  <2>1. overflow' = <<>> /\ Len(overflow') = 0 /\ TakeChunk
    BY <1>10 DEF DiscardChunk
  <2>2. overflow' \in Seq(Nat) /\ Len(overflow') + Len(buffered') <= readBufferSize
    BY <1>2, <2>1
  <2>3. ChunkEOF \in BOOLEAN
    BY DEF ChunkEOF, ReaderTypeOK
  <2> QED
    BY <1>2, <1>10, <2>1, <2>2, <2>3 DEF ReaderTypeOK, DiscardChunk, fileVars
<1> QED
  BY <1>3, <1>4, <1>5, <1>6, <1>7, <1>8, <1>9, <1>10 DEF ReadLine, Discard

LEMMA TypesStep ==
  ASSUME ReaderTypeOK, [Next]_vars
  PROVE  ReaderTypeOK'
<1>1. ASSUME NEW b \in {"x", CR, NL}, AppendByte(b) PROVE ReaderTypeOK'
  <2>1. /\ file' = Append(file, b) /\ file \in Text /\ offset \in 0 .. Len(file)
        /\ UNCHANGED <<maxLineBytes, bufioVars, readerVars, source, pc, atEOF, lines, rebound>>
    BY <1>1 DEF AppendByte, ReaderTypeOK
  <2>2. file' \in Text /\ Len(file') = Len(file) + 1 /\ Len(file) \in Nat
    BY <2>1 DEF Text
  <2>3. offset \in 0 .. Len(file')
    BY <2>1, <2>2
  <2> QED
    BY <2>1, <2>2, <2>3 DEF ReaderTypeOK, bufioVars, readerVars
<1>2. CASE Rename
  BY <1>2 DEF Rename, ReaderTypeOK, fileVars, bufioVars, readerVars
<1>3. CASE Truncated
  <2>1. /\ file' = <<>> /\ offset' = 0 /\ lines' = <<>> /\ rebound' = FALSE /\ atEOF' = FALSE
        /\ buf' = <<>> /\ overflow' = <<>> /\ discardingTooLongLine' = FALSE
        /\ source' = "none" /\ buffered' = <<>> /\ eof' = FALSE
        /\ pc = "idle" /\ UNCHANGED <<maxLineBytes, pc>>
    BY <1>3 DEF Truncated, Clear
  <2>2. maxLineBytes \in Nat \ {0} /\ readBufferSize \in Nat
    BY ConstantsAssumption DEF ReaderTypeOK
  <2>3. file' \in Text /\ offset' \in 0 .. Len(file') /\ Len(buf') <= maxLineBytes
    BY <2>1, <2>2 DEF Text
  <2>4. Len(overflow') + Len(buffered') <= readBufferSize
    BY <2>1, <2>2
  <2>5. buf' \in Seq(Nat) /\ overflow' \in Seq(Nat) /\ buffered' \in Seq(Nat)
    BY <2>1
  <2>6. lines' \in Seq([start : Nat, bytes : Seq(Nat), truncated : BOOLEAN])
    BY <2>1, EmptySeq
  <2>7. pc' = "idle" /\ maxLineBytes' = maxLineBytes
    BY <2>1
  <2> QED
    BY <2>1, <2>2, <2>3, <2>4, <2>5, <2>6, <2>7 DEF ReaderTypeOK
<1>4. CASE Call
  <2>1. /\ overflow \in Seq(Nat) /\ buffered \in Seq(Nat)
        /\ Len(overflow) + Len(buffered) <= readBufferSize
    BY DEF ReaderTypeOK
  <2>2. /\ overflow' \in Seq(Nat) /\ buffered' \in Seq(Nat) /\ rebound' \in BOOLEAN
        /\ Len(overflow') + Len(buffered') <= readBufferSize
    <3>1. ASSUME source = "before"
          PROVE  /\ overflow' \in Seq(Nat) /\ buffered' \in Seq(Nat)
                 /\ Len(overflow') + Len(buffered') <= readBufferSize
      <4>1. overflow' = overflow \o buffered /\ buffered' = <<>>
        BY <1>4, <3>1 DEF Call, Rebind
      <4>2. Len(overflow \o buffered) = Len(overflow) + Len(buffered) /\ Len(buffered') = 0
        BY <2>1, <4>1
      <4> QED
        BY <2>1, <4>1, <4>2
    <3>2. source # "before" => overflow' = overflow /\ buffered' = buffered
      BY <1>4 DEF Call, Rebind
    <3>3. rebound' \in BOOLEAN
      BY <1>4 DEF Call, Rebind, ReaderTypeOK
    <3> QED
      BY <2>1, <3>1, <3>2, <3>3
  <2>3. source' \in {"none", "current", "before"}
    BY <1>4 DEF Call, Rebind
  <2> QED
    BY <1>4, <2>2, <2>3 DEF Call, ReaderTypeOK, fileVars
<1>5. CASE UNCHANGED vars
  BY <1>5 DEF ReaderTypeOK, vars, fileVars, bufioVars, readerVars
<1> QED
  BY <1>1, <1>2, <1>3, <1>4, <1>5, TypesReadLine DEF Next

-----------------------------------------------------------------------------
(* The steps that read nothing.                                             *)

Fresh ==
  /\ file = <<>> /\ offset = 0 /\ buffered = <<>>
  /\ buf = <<>> /\ overflow = <<>> /\ ~discardingTooLongLine
  /\ pc = "idle" /\ ~atEOF /\ lines = <<>>

LEMMA FreshReader == Fresh => ReaderOK
<1> SUFFICES ASSUME Fresh PROVE ReaderOK
  OBVIOUS
<1>1. rest = 1 /\ begin = 1 /\ Len(buf) = 0 /\ Len(overflow) = 0 /\ Len(buffered) = 0
  BY DEF Fresh, rest, begin
<1>2. Starts = {1} /\ DoneStarts = {}
  <2>1. Starts = {1}
    BY DEF Fresh, Starts
  <2> QED
    BY <1>1, <2>1 DEF DoneStarts, Fresh
<1>3. Interval(1, 0) = <<>> /\ 1 + 0 = 1
  BY EmptyIntervals
<1>4. Pieces
  BY <1>1, <1>2, <1>3 DEF Pieces, Fresh
<1>5. OneLineEach
  BY <1>1 DEF OneLineEach, NoNewline, Fresh
<1>6. Sent
  BY <1>2 DEF Sent, Fresh
<1> QED
  BY <1>4, <1>5, <1>6 DEF ReaderOK, AllReadAtEOF, Fresh

LEMMA FreshReaderNext == Fresh' => ReaderOK'
  BY FreshReader, PTL

LEMMA ReaderStays ==
  ASSUME ReaderOK, UNCHANGED <<fileVars, offset, buffered, readerVars, pc, atEOF, lines, rebound>>
  PROVE  ReaderOK'
<1>1. /\ UNCHANGED <<maxLineBytes, file, offset, buffered, buf, overflow, discardingTooLongLine>>
      /\ UNCHANGED <<pc, atEOF, lines, rebound>>
  BY DEF fileVars, readerVars
<1>2. rest' = rest /\ begin' = begin /\ Starts' = Starts
  BY <1>1 DEF rest, begin, Starts
<1>3. Pieces'
  BY <1>1, <1>2 DEF ReaderOK, Pieces, NoNewline
<1>4. OneLineEach'
  BY <1>1, <1>2 DEF ReaderOK, OneLineEach, NoNewline
<1>5. Sent'
  <2>1. DoneStarts' = DoneStarts
    BY <1>1, <1>2 DEF DoneStarts
  <2>2. SameFile
    BY <1>1 DEF SameFile
  <2> QED
    BY <1>1, <2>1, <2>2, SameReference, SentKept DEF ReaderOK
<1>6. AllReadAtEOF'
  BY <1>1, <1>2 DEF ReaderOK, AllReadAtEOF, NoNewline
<1> QED
  BY <1>3, <1>4, <1>5, <1>6 DEF ReaderOK

LEMMA ReaderAppend ==
  ASSUME ReaderTypeOK, ReaderOK, NEW b \in {"x", CR, NL}, AppendByte(b)
  PROVE  ReaderOK'
<1>1. /\ UNCHANGED <<maxLineBytes, offset, buffered, buf, overflow, discardingTooLongLine>>
      /\ UNCHANGED <<pc, atEOF, lines, rebound>>
  BY DEF AppendByte, bufioVars, readerVars
<1>2. rest' = rest /\ begin' = begin
  BY <1>1 DEF rest, begin
<1>3. /\ Starts \subseteq Starts' /\ DoneStarts' = DoneStarts
      /\ \A s \in DoneStarts : Line(s)' = Line(s) /\ (Reported(s)' <=> Reported(s))
  BY AppendKeepsDone DEF ReaderOK
<1>4. /\ offset \in Nat /\ Len(file) \in Nat /\ offset <= Len(file)
      /\ Len(buf) \in Nat /\ Len(overflow) \in Nat /\ Len(buffered) \in Nat
      /\ begin \in 1 .. offset + 1 /\ rest \in begin .. offset + 1
      /\ rest + Len(overflow) + Len(buffered) = offset + 1
      /\ ~discardingTooLongLine => rest = begin + Len(buf)
  BY Bounds DEF ReaderOK
<1>5. begin + Len(buf) <= offset + 1
  <2>1. CASE discardingTooLongLine
    <3>1. Len(buf) = maxLineBytes /\ begin + maxLineBytes <= offset /\ maxLineBytes \in Nat
      BY <2>1 DEF ReaderOK, Pieces, ReaderTypeOK
    <3> QED
      BY <1>4, <3>1
  <2> QED
    BY <1>4, <2>1
<1>6. \A p \in 1 .. Len(file) : file'[p] = file[p]
  BY DEF AppendByte, ReaderTypeOK, Text
<1>7. ASSUME NEW c \in 1 .. offset + 1, NEW d \in Int, d <= offset, NoNewline(c, d)
      PROVE  NoNewline(c, d)'
  BY <1>4, <1>6, <1>7 DEF NoNewline
<1>8. Pieces'
  <2>1. NoNewline(begin, rest - 1) => NoNewline(begin, rest - 1)'
    <3>1. rest - 1 \in Int /\ rest - 1 <= offset
      BY <1>4
    <3> QED
      BY <1>2, <1>4, <1>6, <3>1 DEF NoNewline
  <2> QED
    BY <1>1, <1>2, <1>3, <2>1 DEF ReaderOK, Pieces
<1>9. OneLineEach'
  <2>1. NoNewline(begin, begin + Len(buf) - 2) => NoNewline(begin, begin + Len(buf) - 2)'
    BY <1>1, <1>2, <1>4, <1>5, <1>6 DEF NoNewline
  <2>2. NoNewline(rest, rest + Len(overflow) - 2) => NoNewline(rest, rest + Len(overflow) - 2)'
    BY <1>1, <1>2, <1>4, <1>6 DEF NoNewline
  <2> QED
    BY <1>1, <2>1, <2>2 DEF ReaderOK, OneLineEach
<1>10. Sent'
  BY <1>1, <1>3, SentKept DEF ReaderOK
<1>11. AllReadAtEOF'
  <2>1. NoNewline(begin, begin + Len(buf) - 1) => NoNewline(begin, begin + Len(buf) - 1)'
    BY <1>1, <1>2, <1>4, <1>5, <1>6 DEF NoNewline
  <2> QED
    BY <1>1, <2>1 DEF ReaderOK, AllReadAtEOF
<1> QED
  BY <1>8, <1>9, <1>10, <1>11 DEF ReaderOK

\* Re-binding: the bytes of the bufio.Reader go behind those set aside.
LEMMA ReaderCall ==
  ASSUME ReaderTypeOK, ReaderOK, Call, Fits'
  PROVE  ReaderOK'
<1>1. /\ UNCHANGED <<maxLineBytes, file, offset, buf, discardingTooLongLine, lines>>
      /\ pc = "idle" /\ pc' # "idle"
  BY DEF Call, fileVars
<1>2. /\ offset \in Nat /\ begin \in 1 .. offset + 1 /\ rest \in Nat
      /\ Len(buf) \in Nat /\ Len(overflow) \in Nat /\ Len(buffered) \in Nat
      /\ maxLineBytes \in Nat
  BY Bounds DEF ReaderOK, ReaderTypeOK
<1>3. /\ overflow \in Seq(Nat) /\ buffered \in Seq(Nat)
      /\ overflow = Interval(rest, Len(overflow))
      /\ buffered = Interval(rest + Len(overflow), Len(buffered))
      /\ rest = offset + 1 - Len(buffered) - Len(overflow)
      /\ Len(overflow) + Len(buffered) <= readBufferSize
      /\ readBufferSize \in Nat
  BY ConstantsAssumption DEF ReaderOK, Pieces, ReaderTypeOK, rest
<1>4. CASE source # "before"
  <2>1. UNCHANGED <<overflow, buffered, rebound>>
    BY <1>4 DEF Call, Rebind
  <2>2. rest' = rest /\ begin' = begin /\ Starts' = Starts
    BY <1>1, <2>1 DEF rest, begin, Starts
  <2>3. Pieces'
    BY <1>1, <2>1, <2>2 DEF ReaderOK, Pieces, NoNewline
  <2>4. OneLineEach'
    BY <1>1, <2>1, <2>2 DEF ReaderOK, OneLineEach, NoNewline
  <2>5. Sent'
    <3>1. DoneStarts' = DoneStarts /\ SameFile
      BY <1>1, <2>2 DEF DoneStarts, SameFile
    <3> QED
      BY <1>1, <3>1, SameReference, SentKept DEF ReaderOK
  <2> QED
    BY <1>1, <2>3, <2>4, <2>5 DEF ReaderOK, AllReadAtEOF
<1>5. CASE source = "before"
  <2>1. /\ overflow' = overflow \o buffered /\ buffered' = <<>>
        /\ rebound' = (rebound \/ buffered # <<>>)
    BY <1>5 DEF Call, Rebind
  <2>2. Len(overflow') = Len(overflow) + Len(buffered) /\ Len(buffered') = 0
    BY <1>3, <2>1
  <2>3. rest' = rest
    BY <1>1, <1>2, <1>3, <2>2 DEF rest
  <2>4. begin' = begin /\ Starts' = Starts
    BY <1>1, <2>3 DEF begin, Starts
  <2>5. overflow' = Interval(rest', Len(overflow'))
    <3>1. Interval(rest, Len(overflow)) \o Interval(rest + Len(overflow), Len(buffered))
            = Interval(rest, Len(overflow) + Len(buffered))
      BY <1>2, IntervalConcat
    <3>2. overflow \o buffered = Interval(rest, Len(overflow) + Len(buffered))
      BY <1>3, <3>1
    <3> QED
      BY <2>1, <2>2, <2>3, <3>2
  <2>6. buffered' = Interval(rest' + Len(overflow'), Len(buffered'))
    <3>1. rest' + Len(overflow') \in Nat
      BY <1>2, <2>2, <2>3
    <3> QED
      BY <2>1, <2>2, <3>1, EmptyIntervals
  <2>7. Pieces'
    BY <1>1, <2>3, <2>4, <2>5, <2>6 DEF ReaderOK, Pieces, NoNewline
  <2>8. OneLineEach'
    <3>1. CASE buffered = <<>>
      <4>1. Len(buffered) = 0 /\ Len(overflow') = Len(overflow) /\ (rebound' <=> rebound)
        <5>1. Len(buffered) = 0
          BY <3>1
        <5>2. rebound \in BOOLEAN
          BY DEF ReaderTypeOK
        <5> QED
          BY <1>2, <2>1, <2>2, <3>1, <5>1, <5>2
      <4> QED
        BY <1>1, <2>1, <2>3, <2>4, <3>1, <4>1 DEF ReaderOK, OneLineEach, NoNewline
    <3>2. CASE buffered # <<>>
      <4>1. rebound' /\ readBufferSize <= maxLineBytes
        BY <1>1, <2>1, <3>2 DEF Fits
      <4>2. ~discardingTooLongLine => Len(buf) = 0
        BY <1>1, <3>2 DEF ReaderOK, OneLineEach
      <4>3. ~discardingTooLongLine' => Len(buf') + Len(overflow') <= maxLineBytes'
        BY <1>1, <1>2, <1>3, <2>2, <4>1, <4>2
      <4> QED
        BY <1>1, <2>1, <4>1, <4>3 DEF OneLineEach
    <3> QED
      BY <3>1, <3>2
  <2>9. Sent'
    <3>1. DoneStarts' = DoneStarts /\ SameFile
      BY <1>1, <2>4 DEF DoneStarts, SameFile
    <3> QED
      BY <1>1, <3>1, SameReference, SentKept DEF ReaderOK
  <2> QED
    BY <1>1, <2>7, <2>8, <2>9 DEF ReaderOK, AllReadAtEOF
<1> QED
  BY <1>4, <1>5

-----------------------------------------------------------------------------
(* The steps of ReadLine.                                                   *)

\* What the steps need to know of where they start from.
LEMMA AtWork ==
  ASSUME ReaderTypeOK, ReaderOK
  PROVE  /\ maxLineBytes \in Nat \ {0} /\ Len(file) \in Nat /\ offset \in Nat /\ offset <= Len(file)
         /\ Len(buf) \in Nat /\ Len(overflow) \in Nat /\ Len(buffered) \in Nat
         /\ Len(buf) <= maxLineBytes
         /\ begin \in Nat \ {0} /\ rest \in Nat \ {0} /\ begin <= rest
         /\ rest + Len(overflow) + Len(buffered) = offset + 1
         /\ ~discardingTooLongLine => rest = begin + Len(buf)
         /\ begin \in Starts /\ Starts \subseteq 1 .. Len(file) + 1
         /\ \A s \in Starts : s > 1 => file[s - 1] = NL
         /\ \A p \in 1 .. Len(file) : file[p] = NL => p + 1 \in Starts
         /\ buf = Interval(begin, Len(buf))
<1>1. /\ maxLineBytes \in Nat \ {0} /\ Len(buf) <= maxLineBytes
      /\ Len(file) \in Nat /\ DOMAIN file = 1 .. Len(file)
  BY DEF ReaderTypeOK, Text
<1>2. /\ Starts \subseteq 1 .. Len(file) + 1
      /\ \A s \in Starts : s > 1 => file[s - 1] = NL
      /\ \A p \in 1 .. Len(file) : file[p] = NL => p + 1 \in Starts
  BY <1>1 DEF Starts
<1>3. begin \in Starts /\ buf = Interval(begin, Len(buf))
  BY DEF ReaderOK, Pieces
<1> QED
  BY <1>1, <1>2, <1>3, Bounds DEF ReaderOK

LEMMA ChunkAtWork ==
  ASSUME ReaderTypeOK, ReaderOK, TakeChunk
  PROVE  /\ Chunk \in Seq(Nat) /\ Len(Chunk) \in Nat /\ Len(buffered') \in Nat
         /\ offset' = offset
         /\ Len(Chunk) + Len(buffered') = Len(overflow) + Len(buffered)
         /\ rest + Len(Chunk) + Len(buffered') = offset + 1
         /\ Chunk = Interval(rest, Len(Chunk))
         /\ buffered' = Interval(rest + Len(Chunk), Len(buffered'))
         /\ overflow # <<>> => Chunk = overflow /\ buffered' = buffered /\ ~ChunkEOF
         /\ overflow = <<>> => NoNewline(rest, rest + Len(Chunk) - 2)
         /\ ChunkEOF => Chunk = buffered /\ overflow = <<>> /\ buffered' = <<>>
<1>1. /\ Chunk \in Seq(Nat) /\ buffered' \in Seq(Nat) /\ offset' = offset
      /\ Len(Chunk) + Len(buffered') = Len(overflow) + Len(buffered)
  BY ChunkTyped
<1>2. /\ Chunk = Interval(rest, Len(Chunk))
      /\ buffered' = Interval(rest + Len(Chunk), Len(buffered'))
      /\ overflow # <<>> => Chunk = overflow /\ ~ChunkEOF
      /\ overflow = <<>> => NoNewline(rest, rest + Len(Chunk) - 2)
      /\ ChunkEOF => Chunk = buffered
  BY ChunkPlace DEF ReaderOK
<1>3. Len(Chunk) \in Nat /\ Len(buffered') \in Nat
  BY <1>1
<1>4. rest + Len(Chunk) + Len(buffered') = offset + 1
  <2>1. /\ rest \in Nat /\ Len(overflow) \in Nat /\ Len(buffered) \in Nat
        /\ rest + Len(overflow) + Len(buffered) = offset + 1
    BY AtWork
  <2>2. rest + (Len(overflow) + Len(buffered)) = offset + 1
    BY <2>1
  <2>3. rest + (Len(Chunk) + Len(buffered')) = offset + 1
    BY <1>1, <2>2
  <2> QED
    BY <1>3, <2>1, <2>3
<1>5. overflow # <<>> => buffered' = buffered
  BY DEF TakeChunk
<1>6. ChunkEOF => overflow = <<>>
  BY DEF ChunkEOF
<1>7. ChunkEOF => buffered' = <<>>
  <2>1. ASSUME ChunkEOF PROVE buffered' = <<>>
    <3>1. Len(overflow) = 0 /\ Len(Chunk) = Len(buffered)
      BY <1>2, <1>6, <2>1
    <3>2. Len(buffered') = 0
      BY <1>1, <1>3, <3>1
    <3> QED
      BY <1>1, <3>2
  <2> QED
    BY <2>1
<1> QED
  BY <1>1, <1>2, <1>3, <1>4, <1>5, <1>6, <1>7

LEMMA NoNewlineInBuf ==
  ASSUME ReaderTypeOK, ReaderOK, IndexNewline(buf) = 0
  PROVE  NoNewline(begin, begin + Len(buf) - 1)
<1>1. begin \in Nat /\ Len(buf) \in Nat /\ buf = Interval(begin, Len(buf))
  BY AtWork
<1>2. IndexNewline(Interval(begin, Len(buf))) = 0
  BY <1>1
<1> QED
  BY <1>1, <1>2, FirstNewlineAt

LEMMA ReaderFill ==
  ASSUME ReaderTypeOK, ReaderOK, Fill
  PROVE  ReaderOK'
<1> DEFINE n == Min({readBufferSize - Len(buffered), Len(file) - offset})
           t == [k \in 1 .. n |-> offset + k]
<1>1. /\ UNCHANGED <<maxLineBytes, file, buf, overflow, discardingTooLongLine, lines, pc>>
      /\ pc # "idle" /\ IndexNewline(buf) = 0 /\ overflow = <<>>
      /\ buffered' = buffered \o t /\ offset' = offset + n
      /\ Len(buffered) < readBufferSize
  BY ConstantsAssumption DEF Fill, fileVars, readerVars, ChunkReady, ReaderTypeOK
<1>2. n \in Nat
  <2>1. readBufferSize - Len(buffered) \in Nat /\ Len(file) - offset \in Nat
    BY <1>1, AtWork, ConstantsAssumption
  <2> QED
    BY <2>1, MinOfTwo
<1> HIDE DEF n
<1>3. /\ offset \in Nat /\ Len(buffered) \in Nat /\ Len(overflow) = 0 /\ rest \in Nat \ {0}
      /\ begin \in Nat \ {0} /\ Len(buf) \in Nat
      /\ rest + Len(buffered) = offset + 1
  BY <1>1, AtWork
<1>4. t = Interval(offset + 1, n)
  <2>1. \A k \in 1 .. n : offset + k = (offset + 1) + k - 1
    BY <1>2, <1>3
  <2> QED
    BY <2>1 DEF Interval
<1> HIDE DEF t
<1>5. buffered' = Interval(rest, Len(buffered) + n)
  <2>1. buffered = Interval(rest, Len(buffered))
    BY <1>1, <1>3 DEF ReaderOK, Pieces
  <2>2. Interval(rest, Len(buffered)) \o Interval(rest + Len(buffered), n)
          = Interval(rest, Len(buffered) + n)
    BY <1>2, <1>3, IntervalConcat
  <2> QED
    BY <1>1, <1>3, <1>4, <2>1, <2>2
<1>6. Len(buffered') = Len(buffered) + n
  BY <1>2, <1>3, <1>5, IntervalTyped
<1>7. rest' = rest
  <2>1. rest' = offset + n + 1 - (Len(buffered) + n) - 0
    BY <1>1, <1>3, <1>6 DEF rest
  <2> QED
    BY <1>2, <1>3, <2>1
<1>8. begin' = begin /\ Starts' = Starts
  BY <1>1, <1>7 DEF begin, Starts
<1>9. Pieces'
  <2>1. buffered' = Interval(rest' + Len(overflow'), Len(buffered'))
    BY <1>1, <1>3, <1>5, <1>6, <1>7
  <2>2. discardingTooLongLine => begin + maxLineBytes <= offset'
    BY <1>1, <1>2, <1>3, AtWork DEF ReaderOK, Pieces
  <2> QED
    BY <1>1, <1>7, <1>8, <2>1, <2>2 DEF ReaderOK, Pieces, NoNewline
<1>10. OneLineEach'
  <2>1. NoNewline(begin, begin + Len(buf) - 1)
    BY <1>1, NoNewlineInBuf
  <2>2. NoNewline(begin', begin' + Len(buf') - 2)
    BY <1>1, <1>3, <1>8, <2>1 DEF NoNewline
  <2>3. NoNewline(rest', rest' + Len(overflow') - 2)
    BY <1>1, <1>3, <1>7 DEF NoNewline
  <2> QED
    BY <1>1, <2>2, <2>3 DEF OneLineEach, NoNewline
<1>11. Sent'
  <2>1. DoneStarts' = DoneStarts /\ SameFile
    BY <1>1, <1>8 DEF DoneStarts, SameFile
  <2> QED
    BY <1>1, <2>1, SameReference, SentKept DEF ReaderOK
<1> QED
  BY <1>1, <1>9, <1>10, <1>11 DEF ReaderOK, AllReadAtEOF

LEMMA ReaderReturnLine ==
  ASSUME ReaderTypeOK, ReaderOK, ReturnLine
  PROVE  ReaderOK'
<1> DEFINE n == IndexNewline(buf)
           L == Len(buf)
<1>1. /\ UNCHANGED <<maxLineBytes, file, offset, buffered, overflow, discardingTooLongLine, rebound>>
      /\ ~discardingTooLongLine /\ n > 0 /\ buf' = From(buf, n + 1) /\ ~atEOF'
  BY DEF ReturnLine, fileVars, bufioVars, ReaderTypeOK
<1>2. /\ begin \in Nat \ {0} /\ L \in Nat /\ L <= maxLineBytes /\ maxLineBytes \in Nat
      /\ buf = Interval(begin, L) /\ rest = begin + L
      /\ rest <= Len(file) + 1 /\ Len(file) \in Nat /\ rest \in Nat
      /\ Len(overflow) \in Nat /\ Len(buffered) \in Nat
  BY <1>1, AtWork
<1>3. n \in 1 .. L /\ file[begin + n - 1] = NL /\ NoNewline(begin, begin + n - 2)
  <2>1. n = IndexNewline(Interval(begin, L))
    BY <1>2
  <2> HIDE DEF n, L
  <2>2. begin \in Nat /\ L \in Nat
    BY <1>2
  <2>3. /\ n \in 0 .. L
        /\ n > 0 => file[begin + n - 1] = NL /\ NoNewline(begin, begin + n - 2)
    BY <2>1, <2>2, FirstNewlineAt
  <2> QED
    BY <1>1, <2>2, <2>3
<1> HIDE DEF n, L
<1>4. buf' = Interval(begin + n, L - n) /\ Len(buf') = L - n
  <2>1. n + 1 \in 1 .. L + 1 /\ L - n \in Nat /\ begin + n \in Nat
    BY <1>2, <1>3
  <2>2. From(Interval(begin, L), n + 1) = Interval(begin + (n + 1) - 1, L - (n + 1) + 1)
    BY <1>2, <2>1, IntervalFrom
  <2>3. begin + (n + 1) - 1 = begin + n /\ L - (n + 1) + 1 = L - n
    BY <1>2, <1>3
  <2>4. buf' = Interval(begin + n, L - n)
    BY <1>1, <1>2, <2>2, <2>3
  <2> QED
    BY <2>1, <2>4, IntervalTyped
<1>5. rest' = rest /\ Starts' = Starts
  BY <1>1 DEF rest, Starts
<1>6. begin' = begin + n
  <2>1. begin' = rest - (L - n)
    BY <1>1, <1>4, <1>5 DEF begin
  <2> QED
    BY <1>2, <1>3, <2>1
<1>7. begin' \in Starts
  <2>1. begin + n - 1 \in 1 .. Len(file) /\ (begin + n - 1) + 1 = begin + n
    BY <1>2, <1>3
  <2> QED
    BY <1>3, <1>6, <2>1, AtWork
<1>8. Pieces'
  BY <1>1, <1>4, <1>5, <1>6, <1>7 DEF ReaderOK, Pieces
<1>9. OneLineEach'
  <2>1. CASE NoNewline(begin, begin + L - 2) /\ NoNewline(rest, rest + Len(overflow) - 2)
    <3>1. n = L
      <4>1. ~(begin + n - 1 <= begin + L - 2)
        <5>1. begin + n - 1 \in Int /\ begin <= begin + n - 1
          BY <1>2, <1>3
        <5> QED
          BY <1>2, <1>3, <2>1, <5>1 DEF NoNewline
      <4> QED
        BY <1>2, <1>3, <4>1
    <3>2. Len(buf') = 0 /\ buf' = <<>>
      BY <1>2, <1>3, <1>4, <3>1, EmptyIntervals
    <3>4. NoNewline(rest, rest + Len(overflow) - 2)'
      BY <1>1, <1>5, <2>1 DEF NoNewline
    <3>5. NoNewline(begin, begin + Len(buf) - 2)'
      BY <1>2, <1>3, <1>6, <3>2 DEF NoNewline
    <3> QED
      BY <3>2, <3>4, <3>5 DEF OneLineEach
  <2>2. CASE rebound /\ buffered = <<>> /\ L + Len(overflow) <= maxLineBytes
    <3>1. Len(buf') + Len(overflow') <= maxLineBytes'
      BY <1>1, <1>2, <1>3, <1>4, <2>2
    <3> QED
      BY <1>1, <2>2, <3>1 DEF OneLineEach
  <2> QED
    BY <1>1, <2>1, <2>2 DEF ReaderOK, OneLineEach, L
<1>10. Sent'
  <2>1. DoneStarts' = DoneStarts \cup {begin} /\ \A s \in DoneStarts : s < begin
    <3>1. \A s \in Starts : s < begin + n <=> s < begin \/ s = begin
      <4>1. ASSUME NEW s \in Starts, s > begin, s < begin + n PROVE FALSE
        <5>1. s \in Nat /\ s > 1 /\ file[s - 1] = NL
          BY <1>2, <4>1, AtWork
        <5>2. s - 1 \in begin .. begin + n - 2
          BY <1>2, <1>3, <4>1, <5>1
        <5> QED
          BY <1>3, <5>1, <5>2 DEF NoNewline
      <4>2. \A s \in Starts : s \in Nat
        BY AtWork
      <4> QED
        BY <1>2, <1>3, <4>1, <4>2
    <3>2. begin \in Starts
      BY AtWork
    <3> QED
      BY <1>1, <1>5, <1>6, <3>1, <3>2 DEF DoneStarts
  <2>2. /\ ~Over(begin) /\ Reported(begin)
        /\ Cut(begin) = stripWindowsLineEnding(Interval(begin, n - 1))
    <3> DEFINE q == begin + n - 1
    <3>1. /\ begin \in 1 .. Len(file) + 1 /\ q \in begin .. Len(file)
          /\ q - 1 = begin + n - 2 /\ q - begin + 1 = n /\ q - begin = n - 1
          /\ n <= maxLineBytes /\ n - 1 <= maxLineBytes
      BY <1>2, <1>3
    <3>2. EndedLines
      BY EndedLinesFact DEF FileTyped, ReaderTypeOK
    <3>3. /\ Over(begin) <=> q - begin + 1 > maxLineBytes
          /\ Cut(begin) = Part(begin, q - begin)
          /\ Reported(begin) <=> ~Over(begin) \/ Cut(begin) # <<>>
      BY <1>3, <3>1, <3>2 DEF EndedLines
    <3>4. Part(begin, n - 1) = stripWindowsLineEnding(Interval(begin, n - 1))
      BY <3>1 DEF Part
    <3>5. ~(n > maxLineBytes)
      BY <1>2, <1>3, <3>1
    <3> HIDE DEF q
    <3> QED
      BY <3>1, <3>3, <3>4, <3>5
  <2>3. lines' = Append(lines, Line(begin))
    <3>1. lines' = Append(lines, [start |-> Head(buf),
                                  bytes |-> stripWindowsLineEnding(SubSeq(buf, 1, n - 1)),
                                  truncated |-> FALSE])
      BY DEF ReturnLine, n
    <3>2. SubSeq(buf, 1, n - 1) = Interval(begin, n - 1)
      <4>1. 1 \in 1 .. L + 1 /\ n - 1 \in 1 - 1 .. L
        BY <1>2, <1>3
      <4>2. SubSeq(Interval(begin, L), 1, n - 1) = Interval(begin + 1 - 1, (n - 1) - 1 + 1)
        BY <1>2, <4>1, IntervalPart
      <4>3. begin + 1 - 1 = begin /\ (n - 1) - 1 + 1 = n - 1
        BY <1>2, <1>3
      <4> QED
        BY <1>2, <4>2, <4>3
    <3>3. Head(buf) = begin
      <4>1. L > 0 /\ begin \in Nat /\ L \in Nat
        BY <1>2, <1>3
      <4>2. Head(Interval(begin, L)) = begin
        BY <4>1, IntervalTyped
      <4> QED
        BY <1>2, <4>2
    <3>4. Over(begin) = FALSE
      BY <2>2 DEF Over
    <3> QED
      BY <2>2, <3>1, <3>2, <3>3, <3>4 DEF Line
  <2>4. SameFile /\ begin \in Starts
    BY <1>1, AtWork DEF SameFile
  <2> QED
    BY <2>1, <2>2, <2>3, <2>4, SentNext DEF ReaderOK
<1> QED
  BY <1>1, <1>8, <1>9, <1>10 DEF ReaderOK, AllReadAtEOF

\* A chunk is one line at most, or lines that were taken over and fit.
LEMMA ChunkOneLine ==
  ASSUME ReaderTypeOK, ReaderOK, TakeChunk
  PROVE  \/ NoNewline(rest, rest + Len(Chunk) - 2)
         \/ /\ rebound /\ buffered = <<>> /\ buffered' = <<>> /\ Chunk = overflow
            /\ ~discardingTooLongLine => Len(buf) + Len(Chunk) <= maxLineBytes
<1>1. CASE overflow = <<>>
  BY <1>1, ChunkAtWork
<1>2. CASE overflow # <<>>
  <2>1. Chunk = overflow /\ buffered' = buffered
    BY <1>2, ChunkAtWork
  <2> QED
    BY <2>1 DEF ReaderOK, OneLineEach
<1> QED
  BY <1>1, <1>2

LEMMA ReaderBufferChunk ==
  ASSUME ReaderTypeOK, ReaderOK, BufferChunk
  PROVE  ReaderOK'
<1> DEFINE L == Len(buf)
           C == Len(Chunk)
<1>1. /\ UNCHANGED <<maxLineBytes, file, discardingTooLongLine, lines, rebound>>
      /\ pc' = "line" /\ ~discardingTooLongLine /\ IndexNewline(buf) = 0
      /\ TakeChunk /\ buf' = buf \o Chunk /\ overflow' = <<>> /\ ~(L + C > maxLineBytes)
  BY DEF BufferChunk, fileVars, ReaderTypeOK, TooLong
<1>2. /\ begin \in Nat \ {0} /\ L \in Nat /\ C \in Nat /\ maxLineBytes \in Nat
      /\ rest \in Nat /\ rest = begin + L
      /\ buf = Interval(begin, L) /\ NoNewline(begin, begin + L - 1)
      /\ offset \in Nat
  BY <1>1, AtWork, ChunkAtWork, NoNewlineInBuf
<1>3. /\ Chunk = Interval(rest, C) /\ buffered' = Interval(rest + C, Len(buffered'))
      /\ Len(buffered') \in Nat /\ rest + C + Len(buffered') = offset + 1 /\ offset' = offset
  BY <1>1, ChunkAtWork
<1> HIDE DEF L, C
<1>4. buf' = Interval(begin, L + C) /\ Len(buf') = L + C
  <2>1. Interval(begin, L) \o Interval(begin + L, C) = Interval(begin, L + C)
    BY <1>2, IntervalConcat
  <2>2. buf' = Interval(begin, L + C)
    BY <1>1, <1>2, <1>3, <2>1
  <2>3. begin \in Nat /\ L + C \in Nat
    BY <1>2
  <2> QED
    BY <2>2, <2>3, IntervalTyped
<1>5. rest' = rest + C /\ Len(overflow') = 0
  <2>1. Len(overflow') = 0
    BY <1>1
  <2>2. rest' = offset + 1 - Len(buffered') - 0
    BY <1>3, <2>1 DEF rest
  <2> QED
    BY <1>2, <1>3, <2>1, <2>2
<1>6. begin' = begin /\ Starts' = Starts
  <2>1. begin' = rest' - Len(buf')
    BY <1>1 DEF begin
  <2>2. rest' - Len(buf') = begin
    BY <1>2, <1>4, <1>5
  <2> QED
    BY <1>1, <2>1, <2>2 DEF Starts
<1>7. Pieces'
  <2>1. rest + C \in Nat /\ overflow' = Interval(rest + C, 0) /\ (rest + C) + 0 = rest + C
    BY <1>1, <1>2, EmptyIntervals
  <2>2. buffered' = Interval(rest' + Len(overflow'), Len(buffered'))
    BY <1>3, <1>5, <2>1
  <2> QED
    BY <1>1, <1>4, <1>5, <1>6, <2>1, <2>2 DEF ReaderOK, Pieces
<1>8. OneLineEach'
  <2>1. CASE NoNewline(rest, rest + C - 2)
    <3>1. NoNewline(begin, begin + (L + C) - 2)
      BY <1>2, <2>1 DEF NoNewline
    <3>2. NoNewline(begin, begin + Len(buf) - 2)'
      BY <1>1, <1>4, <1>6, <3>1 DEF NoNewline
    <3>3. NoNewline(rest, rest + Len(overflow) - 2)'
      BY <1>2, <1>5 DEF NoNewline
    <3> QED
      BY <1>1, <3>2, <3>3 DEF OneLineEach
  <2>2. CASE rebound /\ buffered' = <<>>
    <3>1. Len(buf') + Len(overflow') <= maxLineBytes'
      BY <1>1, <1>2, <1>4, <1>5
    <3> QED
      BY <1>1, <2>2, <3>1 DEF OneLineEach
  <2> QED
    BY <1>1, <2>1, <2>2, ChunkOneLine DEF C
<1>9. Sent'
  <2>1. DoneStarts' = DoneStarts /\ SameFile
    BY <1>1, <1>6 DEF DoneStarts, SameFile
  <2> QED
    BY <1>1, <2>1, SameReference, SentKept DEF ReaderOK
<1> QED
  BY <1>1, <1>7, <1>8, <1>9 DEF ReaderOK, AllReadAtEOF

LEMMA ReaderReturnTooLong ==
  ASSUME ReaderTypeOK, ReaderOK, ReturnTooLong
  PROVE  ReaderOK'
<1> DEFINE L == Len(buf)
           C == Len(Chunk)
           fit == maxLineBytes - L
           line == stripWindowsLineEnding(buf')
<1>1. /\ UNCHANGED <<maxLineBytes, file, rebound>>
      /\ pc' = "idle" /\ ~atEOF' /\ ~discardingTooLongLine /\ discardingTooLongLine' = TRUE
      /\ IndexNewline(buf) = 0 /\ TakeChunk /\ L + C > maxLineBytes
      /\ buf' = buf \o SubSeq(Chunk, 1, fit) /\ overflow' = From(Chunk, fit + 1)
  BY DEF ReturnTooLong, fileVars, ReaderTypeOK, TooLong
<1>2. lines' = IF line = <<>> THEN lines
               ELSE Append(lines, [start |-> Head(buf'), bytes |-> line, truncated |-> TRUE])
  <2>1. stripWindowsLineEnding(buf)' = line
    BY <1>1 DEF stripWindowsLineEnding
  <2> QED
    BY Zenon DEF ReturnTooLong
<1>3. /\ begin \in Nat \ {0} /\ L \in Nat /\ C \in Nat /\ maxLineBytes \in Nat \ {0}
      /\ L <= maxLineBytes
      /\ rest \in Nat /\ rest = begin + L
      /\ buf = Interval(begin, L) /\ NoNewline(begin, begin + L - 1)
      /\ offset \in Nat /\ Len(file) \in Nat /\ offset <= Len(file)
  BY <1>1, AtWork, ChunkAtWork, NoNewlineInBuf
<1>4. /\ Chunk = Interval(rest, C) /\ buffered' = Interval(rest + C, Len(buffered'))
      /\ Len(buffered') \in Nat /\ rest + C + Len(buffered') = offset + 1 /\ offset' = offset
  BY <1>1, ChunkAtWork
<1>5. NoNewline(rest, rest + C - 2)
  BY <1>1, <1>3, ChunkOneLine
<1> HIDE DEF L, C
<1>6. fit \in 0 .. C - 1 /\ C - fit \in Nat /\ rest + fit = begin + maxLineBytes /\ L + fit = maxLineBytes
  BY <1>1, <1>3
<1> HIDE DEF fit
<1>7. buf' = Interval(begin, maxLineBytes) /\ Len(buf') = maxLineBytes /\ Head(buf') = begin
  <2>1. SubSeq(Chunk, 1, fit) = Interval(rest, fit)
    <3>1. 1 \in 1 .. C + 1 /\ fit \in 1 - 1 .. C
      BY <1>3, <1>6
    <3>2. SubSeq(Interval(rest, C), 1, fit) = Interval(rest + 1 - 1, fit - 1 + 1)
      BY <1>3, <3>1, IntervalPart
    <3>3. rest + 1 - 1 = rest /\ fit - 1 + 1 = fit
      BY <1>3, <1>6
    <3> QED
      BY <1>4, <3>2, <3>3
  <2>2. Interval(begin, L) \o Interval(begin + L, fit) = Interval(begin, L + fit)
    <3>1. begin \in Nat /\ L \in Nat /\ fit \in Nat
      BY <1>3, <1>6
    <3> QED
      BY <3>1, IntervalConcat
  <2>3. buf' = Interval(begin, maxLineBytes)
    BY <1>1, <1>3, <1>6, <2>1, <2>2
  <2>4. begin \in Nat /\ maxLineBytes \in Nat /\ maxLineBytes > 0
    BY <1>3
  <2> QED
    BY <2>3, <2>4, IntervalTyped
<1>8. overflow' = Interval(rest + fit, C - fit) /\ Len(overflow') = C - fit
  <2>1. fit + 1 \in 1 .. C + 1 /\ rest + fit \in Nat
    BY <1>3, <1>6
  <2>2. From(Interval(rest, C), fit + 1) = Interval(rest + (fit + 1) - 1, C - (fit + 1) + 1)
    BY <1>3, <2>1, IntervalFrom
  <2>3. rest + (fit + 1) - 1 = rest + fit /\ C - (fit + 1) + 1 = C - fit
    BY <1>3, <1>6
  <2>4. overflow' = Interval(rest + fit, C - fit)
    BY <1>1, <1>4, <2>2, <2>3
  <2> QED
    BY <1>6, <2>1, <2>4, IntervalTyped
<1>9. rest' = rest + fit /\ begin' = begin /\ Starts' = Starts
  <2>1. rest' = offset + 1 - Len(buffered') - (C - fit)
    BY <1>4, <1>8 DEF rest
  <2>2. rest' = rest + fit
    BY <1>3, <1>4, <1>6, <2>1
  <2> QED
    BY <1>1, <1>7, <2>2 DEF begin, Starts
<1>10. /\ NoNewline(begin, rest + fit - 1)
       /\ begin + maxLineBytes <= offset /\ begin + maxLineBytes <= Len(file)
  BY <1>3, <1>4, <1>5, <1>6 DEF NoNewline
<1>11. Pieces'
  <2>1. buffered' = Interval(rest' + Len(overflow'), Len(buffered'))
    <3>1. rest' + Len(overflow') = rest + C
      BY <1>3, <1>6, <1>8, <1>9
    <3> QED
      BY <1>4, <3>1
  <2>2. NoNewline(begin, rest - 1)'
    <3>1. file' = file
      BY <1>1
    <3>2. \A p \in begin .. rest + fit - 1 : file[p] # NL
      BY <1>10 DEF NoNewline
    <3>3. begin' = begin /\ rest' = rest + fit
      BY <1>9
    <3>4. \A p \in begin' .. rest' - 1 : file'[p] # NL
      BY <1>3, <1>6, <3>1, <3>2, <3>3
    <3> QED
      BY <3>4 DEF NoNewline
  <2>3. begin' + maxLineBytes' <= rest' /\ begin' + maxLineBytes' <= offset'
    BY <1>1, <1>3, <1>4, <1>6, <1>9, <1>10
  <2>4. rest' \in Nat /\ begin' \in Starts'
    BY <1>3, <1>6, <1>9, AtWork
  <2> QED
    BY <1>1, <1>7, <1>8, <1>9, <2>1, <2>2, <2>3, <2>4 DEF Pieces
<1>12. OneLineEach'
  <2>1. NoNewline(begin, begin + Len(buf) - 2)'
    BY <1>1, <1>3, <1>6, <1>7, <1>9, <1>10 DEF NoNewline
  <2>2. NoNewline(rest, rest + Len(overflow) - 2)'
    BY <1>1, <1>3, <1>5, <1>6, <1>8, <1>9 DEF NoNewline
  <2> QED
    BY <1>1, <2>1, <2>2 DEF OneLineEach
<1>13. Sent'
  <2>1. DoneStarts' = DoneStarts \cup {begin} /\ \A s \in DoneStarts : s < begin
    <3>1. begin \in Starts
      BY AtWork
    <3> QED
      BY <1>1, <1>9, <3>1 DEF DoneStarts
  <2>2. /\ Over(begin) = TRUE /\ Cut(begin) = line
        /\ Reported(begin) <=> Cut(begin) # <<>>
    <3>1. LongLines
      BY LongLinesFact DEF FileTyped, ReaderTypeOK
    <3>2. begin \in 1 .. Len(file) + 1 /\ NoNewline(begin, begin + maxLineBytes - 1)
      BY <1>3, <1>6, <1>10 DEF NoNewline
    <3>3. /\ Over(begin)
          /\ Cut(begin) = stripWindowsLineEnding(Interval(begin, maxLineBytes))
          /\ Reported(begin) <=> Cut(begin) # <<>>
      BY <1>10, <3>1, <3>2 DEF LongLines
    <3>4. Over(begin) = TRUE
      BY <3>3 DEF Over
    <3> QED
      BY <1>7, <3>3, <3>4
  <2>3. lines' = IF Reported(begin) THEN Append(lines, Line(begin)) ELSE lines
    BY <1>2, <1>7, <2>2 DEF Line
  <2>4. SameFile /\ begin \in Starts
    BY <1>1, AtWork DEF SameFile
  <2> QED
    BY <2>1, <2>3, <2>4, SentNext DEF ReaderOK
<1> QED
  BY <1>1, <1>11, <1>12, <1>13 DEF ReaderOK, AllReadAtEOF

LEMMA ReaderReturnEOF ==
  ASSUME ReaderTypeOK, ReaderOK, ReturnEOF
  PROVE  ReaderOK'
<1>1. /\ UNCHANGED <<maxLineBytes, file, buf, overflow, discardingTooLongLine, lines, rebound>>
      /\ IndexNewline(buf) = 0 /\ Chunk = <<>> /\ TakeChunk
  BY DEF ReturnEOF, fileVars, readerVars
<1>2. overflow = <<>> /\ buffered = <<>> /\ Len(overflow) = 0 /\ Len(buffered) = 0 /\ Len(Chunk) = 0
  BY <1>1, ChunkTyped
<1>3. /\ Len(buffered') \in Nat /\ offset' = offset
      /\ Len(Chunk) + Len(buffered') = Len(overflow) + Len(buffered)
      /\ buffered' \in Seq(Nat)
  BY <1>1, ChunkAtWork, ChunkTyped
<1>4. Len(buffered') = 0 /\ buffered' = buffered
  BY <1>2, <1>3
<1>5. rest' = rest /\ begin' = begin /\ Starts' = Starts
  BY <1>1, <1>3, <1>4 DEF rest, begin, Starts
<1>6. Pieces'
  BY <1>1, <1>3, <1>4, <1>5 DEF ReaderOK, Pieces, NoNewline
<1>7. NoNewline(begin, begin + Len(buf) - 1)
  BY <1>1, NoNewlineInBuf
<1>8. begin \in Nat /\ Len(buf) \in Nat /\ rest \in Nat
  BY AtWork
<1>9. OneLineEach'
  <2>1. NoNewline(begin, begin + Len(buf) - 2)'
    BY <1>1, <1>5, <1>7, <1>8 DEF NoNewline
  <2>2. NoNewline(rest, rest + Len(overflow) - 2)'
    BY <1>1, <1>2, <1>5, <1>8 DEF NoNewline
  <2> QED
    BY <1>2, <1>4, <2>1, <2>2 DEF OneLineEach
<1>10. Sent'
  <2>1. DoneStarts' = DoneStarts /\ SameFile
    BY <1>1, <1>5 DEF DoneStarts, SameFile
  <2> QED
    BY <1>1, <2>1, SameReference, SentKept DEF ReaderOK
<1>11. AllReadAtEOF'
  BY <1>1, <1>2, <1>4, <1>5, <1>7 DEF AllReadAtEOF, NoNewline
<1> QED
  BY <1>6, <1>9, <1>10, <1>11 DEF ReaderOK

\* The first part of a line that is too long has no newline, so nothing that
\* was sent is looked at again.
LEMMA NothingToDiscardInBuffer ==
  ASSUME ReaderTypeOK, ReaderOK, DiscardInBuffer
  PROVE  FALSE
<1> DEFINE n == IndexNewline(buf)
           L == Len(buf)
<1>1. discardingTooLongLine /\ n > 0
  BY DEF DiscardInBuffer, ReaderTypeOK
<1>2. /\ begin \in Nat /\ L \in Nat /\ buf = Interval(begin, L) /\ rest \in Nat
      /\ L = maxLineBytes /\ begin + maxLineBytes <= rest /\ NoNewline(begin, rest - 1)
  BY <1>1, AtWork DEF ReaderOK, Pieces
<1>3. n = IndexNewline(Interval(begin, L))
  BY <1>2
<1> HIDE DEF n, L
<1>4. n \in 0 .. L /\ file[begin + n - 1] = NL
  <2>1. /\ n \in 0 .. L
        /\ n > 0 => file[begin + n - 1] = NL
    BY <1>2, <1>3, FirstNewlineAt
  <2> QED
    BY <1>1, <2>1
<1>5. begin + n - 1 \in begin .. rest - 1
  BY <1>1, <1>2, <1>4
<1> QED
  BY <1>2, <1>4, <1>5 DEF NoNewline

LEMMA ReaderDiscardChunk ==
  ASSUME ReaderTypeOK, ReaderOK, DiscardChunk
  PROVE  ReaderOK'
<1> DEFINE L == Len(buf)
           C == Len(Chunk)
<1>1. /\ UNCHANGED <<maxLineBytes, file, buf, discardingTooLongLine, lines, rebound>>
      /\ discardingTooLongLine /\ IndexNewline(buf) = 0 /\ IndexNewline(Chunk) = 0
      /\ TakeChunk /\ overflow' = <<>> /\ atEOF' = ChunkEOF
  BY DEF DiscardChunk, fileVars, ReaderTypeOK
<1>2. /\ begin \in Nat \ {0} /\ L \in Nat /\ L = maxLineBytes
      /\ rest \in Nat /\ begin + L <= rest /\ begin + L <= offset /\ NoNewline(begin, rest - 1)
      /\ offset \in Nat
  BY <1>1, AtWork DEF ReaderOK, Pieces
<1>3. /\ C \in Nat /\ Chunk = Interval(rest, C) /\ buffered' = Interval(rest + C, Len(buffered'))
      /\ Len(buffered') \in Nat /\ rest + C + Len(buffered') = offset + 1 /\ offset' = offset
      /\ ChunkEOF => buffered' = <<>>
  BY <1>1, ChunkAtWork
<1> HIDE DEF L, C
<1>4. NoNewline(rest, rest + C - 1)
  <2>1. IndexNewline(Interval(rest, C)) = 0
    BY <1>1, <1>3
  <2> QED
    BY <1>2, <1>3, <2>1, FirstNewlineAt
<1>5. NoNewline(begin, rest + C - 1)
  BY <1>2, <1>3, <1>4 DEF NoNewline
<1>6. rest' = rest + C /\ Len(overflow') = 0 /\ begin' = begin /\ Starts' = Starts
  <2>1. Len(overflow') = 0
    BY <1>1
  <2>2. rest' = offset + 1 - Len(buffered') - 0
    BY <1>3, <2>1 DEF rest
  <2>3. rest' = rest + C
    BY <1>2, <1>3, <2>2
  <2>4. begin' = begin /\ Starts' = Starts
    BY <1>1 DEF begin, Starts
  <2> QED
    BY <2>1, <2>3, <2>4
<1>7. Pieces'
  <2>1. rest + C \in Nat /\ overflow' = Interval(rest + C, 0) /\ (rest + C) + 0 = rest + C
    BY <1>1, <1>2, <1>3, EmptyIntervals
  <2>2. buffered' = Interval(rest' + Len(overflow'), Len(buffered'))
    BY <1>3, <1>6, <2>1
  <2>3. NoNewline(begin, rest - 1)'
    BY <1>1, <1>2, <1>3, <1>5, <1>6 DEF NoNewline
  <2>4. begin' + maxLineBytes' <= rest' /\ begin' + maxLineBytes' <= offset'
    BY <1>1, <1>2, <1>3, <1>6
  <2>5. Len(buf') = maxLineBytes' /\ buf' = Interval(begin', Len(buf')) /\ begin' \in Starts'
    BY <1>1, <1>2, <1>6, AtWork DEF L
  <2>6. rest' \in Nat /\ overflow' = Interval(rest', Len(overflow'))
    BY <1>6, <2>1
  <2> QED
    BY <2>2, <2>3, <2>4, <2>5, <2>6 DEF Pieces
<1>8. OneLineEach'
  <2>1. NoNewline(begin, begin + Len(buf) - 2)'
    BY <1>1, <1>2, <1>3, <1>5, <1>6 DEF NoNewline, L
  <2>2. NoNewline(rest, rest + Len(overflow) - 2)'
    BY <1>2, <1>3, <1>6 DEF NoNewline
  <2> QED
    BY <1>1, <2>1, <2>2 DEF OneLineEach
<1>9. Sent'
  <2>1. DoneStarts' = DoneStarts /\ SameFile
    BY <1>1, <1>6 DEF DoneStarts, SameFile
  <2> QED
    BY <1>1, <2>1, SameReference, SentKept DEF ReaderOK
<1>10. AllReadAtEOF'
  <2>1. NoNewline(begin, begin + Len(buf) - 1)'
    BY <1>1, <1>2, <1>3, <1>5, <1>6 DEF NoNewline, L
  <2> QED
    BY <1>1, <1>3, <2>1 DEF AllReadAtEOF
<1> QED
  BY <1>7, <1>8, <1>9, <1>10 DEF ReaderOK

LEMMA ReaderDiscardFindsNewline ==
  ASSUME ReaderTypeOK, ReaderOK, DiscardFindsNewline, Fits
  PROVE  ReaderOK'
<1> DEFINE C == Len(Chunk)
           n == IndexNewline(Chunk)
           data == From(Chunk, n + 1)
<1>1. /\ UNCHANGED <<maxLineBytes, file, lines, rebound>>
      /\ discardingTooLongLine /\ discardingTooLongLine' = FALSE /\ pc' = "line"
      /\ n > 0 /\ TakeChunk /\ setBufferFromBytes(data)
  BY DEF DiscardFindsNewline, DiscardEnds, fileVars, ReaderTypeOK
<1>2. /\ begin \in Nat \ {0} /\ maxLineBytes \in Nat \ {0}
      /\ rest \in Nat /\ begin <= rest /\ begin + maxLineBytes <= rest
      /\ NoNewline(begin, rest - 1) /\ offset \in Nat /\ Len(file) \in Nat /\ offset <= Len(file)
  BY <1>1, AtWork DEF ReaderOK, Pieces
<1>3. /\ C \in Nat /\ Chunk \in Seq(Nat)
      /\ Chunk = Interval(rest, C) /\ buffered' = Interval(rest + C, Len(buffered'))
      /\ Len(buffered') \in Nat /\ rest + C + Len(buffered') = offset + 1 /\ offset' = offset
  BY <1>1, ChunkAtWork
<1>4. C <= readBufferSize /\ readBufferSize \in Nat
  <2>1. /\ Len(Chunk) \in Nat /\ Len(buffered') \in Nat
        /\ Len(Chunk) + Len(buffered') = Len(overflow) + Len(buffered)
    BY <1>1, ChunkAtWork
  <2>2. Len(overflow) + Len(buffered) <= readBufferSize /\ readBufferSize \in Nat
    BY ConstantsAssumption DEF ReaderTypeOK
  <2> QED
    BY <2>1, <2>2
<1> HIDE DEF C
<1>5. n \in 1 .. C /\ file[rest + n - 1] = NL /\ NoNewline(rest, rest + n - 2)
  <2>1. n = IndexNewline(Interval(rest, C))
    BY <1>3
  <2> HIDE DEF n
  <2>2. /\ n \in 0 .. C
        /\ n > 0 => file[rest + n - 1] = NL /\ NoNewline(rest, rest + n - 2)
    BY <1>2, <1>3, <2>1, FirstNewlineAt
  <2> QED
    BY <1>1, <1>3, <2>2
<1> HIDE DEF n
<1>6. data = Interval(rest + n, C - n) /\ data \in Seq(Nat) /\ Len(data) = C - n
  <2>1. n + 1 \in 1 .. C + 1 /\ rest + n \in Nat /\ C - n \in Nat
    BY <1>2, <1>3, <1>5
  <2>2. From(Interval(rest, C), n + 1) = Interval(rest + (n + 1) - 1, C - (n + 1) + 1)
    BY <1>2, <1>3, <2>1, IntervalFrom
  <2>3. rest + (n + 1) - 1 = rest + n /\ C - (n + 1) + 1 = C - n
    BY <1>2, <1>3, <1>5
  <2>4. data = Interval(rest + n, C - n)
    BY <1>3, <2>2, <2>3
  <2> QED
    BY <2>1, <2>4, IntervalTyped
<1> HIDE DEF data
<1>7. PICK c \in 0 .. Len(data) :
        /\ c = IF Len(data) <= maxLineBytes THEN Len(data) ELSE maxLineBytes
        /\ buf' = SubSeq(data, 1, c) /\ overflow' = From(data, c + 1)
        /\ Len(buf') = c /\ Len(overflow') = Len(data) - c
  BY <1>1, <1>2, <1>6, BufferSet
<1>8. /\ buf' = Interval(rest + n, c) /\ Len(buf') = c
      /\ overflow' = Interval(rest + n + c, C - n - c) /\ Len(overflow') = C - n - c
  <2>1. /\ 1 \in 1 .. (C - n) + 1 /\ c \in 1 - 1 .. C - n /\ c + 1 \in 1 .. (C - n) + 1
        /\ rest + n \in Nat /\ C - n \in Nat
    BY <1>2, <1>3, <1>5, <1>6
  <2>2. SubSeq(Interval(rest + n, C - n), 1, c) = Interval((rest + n) + 1 - 1, c - 1 + 1)
    BY <2>1, IntervalPart
  <2>3. From(Interval(rest + n, C - n), c + 1)
          = Interval((rest + n) + (c + 1) - 1, (C - n) - (c + 1) + 1)
    BY <2>1, IntervalFrom
  <2>4. /\ (rest + n) + 1 - 1 = rest + n /\ c - 1 + 1 = c
        /\ (rest + n) + (c + 1) - 1 = rest + n + c /\ (C - n) - (c + 1) + 1 = C - n - c
    BY <1>2, <1>3, <1>5, <2>1
  <2> QED
    BY <1>6, <1>7, <2>2, <2>3, <2>4
<1>9. c \in 0 .. C - n /\ c <= maxLineBytes
  BY <1>2, <1>6, <1>7
<1>10. rest' = rest + n + c /\ begin' = rest + n /\ Starts' = Starts
  <2>1. rest' = offset + 1 - Len(buffered') - (C - n - c)
    BY <1>3, <1>8 DEF rest
  <2>2. /\ rest \in Nat /\ C \in Nat /\ n \in Nat /\ c \in Nat
        /\ offset \in Nat /\ Len(buffered') \in Nat
    BY <1>2, <1>3, <1>5, <1>9
  <2>3. offset + 1 = rest + C + Len(buffered')
    BY <1>3
  <2>4. rest' = rest + n + c
    BY <2>1, <2>2, <2>3
  <2>5. begin' = rest' - c
    BY <1>1, <1>8 DEF begin
  <2>6. begin' = rest + n
    BY <2>2, <2>4, <2>5
  <2> QED
    BY <1>1, <2>4, <2>6 DEF Starts
<1>11. rest + n - 1 \in 1 .. Len(file) /\ rest + n \in Starts
  <2>1. rest + n - 1 \in 1 .. Len(file) /\ (rest + n - 1) + 1 = rest + n
    BY <1>2, <1>3, <1>5
  <2> QED
    BY <1>5, <2>1, AtWork
<1>12. Pieces'
  <2>1. rest + n + c \in Nat /\ (rest + n + c) + (C - n - c) = rest + C
    BY <1>2, <1>3, <1>5, <1>9
  <2>2. buffered' = Interval(rest' + Len(overflow'), Len(buffered'))
    BY <1>3, <1>8, <1>10, <2>1
  <2> QED
    BY <1>1, <1>8, <1>10, <1>11, <2>1, <2>2 DEF Pieces
<1>13. OneLineEach'
  <2>1. CASE NoNewline(rest, rest + C - 2)
    <3>1. n = C
      <4>1. rest + n - 1 \in Int /\ rest <= rest + n - 1
        BY <1>2, <1>5
      <4>2. ~(rest + n - 1 <= rest + C - 2)
        BY <1>5, <2>1, <4>1, <1>2, <1>3 DEF NoNewline
      <4> QED
        BY <1>2, <1>3, <1>5, <4>2
    <3>2. c = 0 /\ C - n - c = 0
      <4>1. C - n = 0
        BY <1>3, <3>1
      <4>2. c = 0
        BY <1>9, <4>1
      <4> QED
        BY <4>1, <4>2
    <3>3. NoNewline(begin, begin + Len(buf) - 2)'
      BY <1>2, <1>5, <1>8, <1>10, <3>2 DEF NoNewline
    <3>4. NoNewline(rest, rest + Len(overflow) - 2)'
      BY <1>2, <1>5, <1>8, <1>10, <3>2 DEF NoNewline
    <3> QED
      BY <1>1, <3>3, <3>4 DEF OneLineEach
  <2>2. CASE rebound /\ buffered' = <<>>
    <3>1. readBufferSize <= maxLineBytes
      BY <2>2 DEF Fits
    <3>2. Len(buf') + Len(overflow') <= maxLineBytes'
      BY <1>1, <1>2, <1>3, <1>4, <1>5, <1>8, <1>9, <3>1
    <3> QED
      BY <1>1, <2>2, <3>2 DEF OneLineEach
  <2> QED
    BY <1>1, <2>1, <2>2, ChunkOneLine DEF C
<1>14. Sent'
  <2>1. \A s \in Starts : s < rest + n <=> s < begin \/ s = begin
    <3>1. ASSUME NEW s \in Starts, s > begin, s < rest + n PROVE FALSE
      <4>1. s \in Nat /\ s > 1 /\ file[s - 1] = NL
        BY <1>2, <3>1, AtWork
      <4>2. s - 1 \in begin .. rest - 1 \/ s - 1 \in rest .. rest + n - 2
        BY <1>2, <1>5, <3>1, <4>1
      <4> QED
        BY <1>2, <1>5, <4>1, <4>2 DEF NoNewline
    <3>2. \A s \in Starts : s \in Nat
      BY AtWork
    <3> QED
      BY <1>2, <1>5, <3>1, <3>2
  <2>2. DoneStarts' = DoneStarts /\ SameFile
    BY <1>1, <1>10, <2>1 DEF DoneStarts, SameFile
  <2> QED
    BY <1>1, <2>2, SameReference, SentKept DEF ReaderOK
<1> QED
  BY <1>1, <1>12, <1>13, <1>14 DEF ReaderOK, AllReadAtEOF

-----------------------------------------------------------------------------
(* The invariant, and what follows from it.                                 *)

LEMMA InvStart == Init => LineReaderInv
<1> SUFFICES ASSUME Init PROVE LineReaderInv
  OBVIOUS
<1>1. maxLineBytes \in Nat \ {0} /\ readBufferSize \in Nat
  BY ConstantsAssumption DEF Init
<1>2. lines \in Seq([start : Nat, bytes : Seq(Nat), truncated : BOOLEAN])
  BY EmptySeq DEF Init
<1>3. file \in Text /\ offset \in 0 .. Len(file) /\ Len(buf) <= maxLineBytes
  BY <1>1 DEF Init, Text
<1>4. Len(overflow) + Len(buffered) <= readBufferSize
  BY <1>1 DEF Init
<1>5. ReaderTypeOK
  <2>1. buf \in Seq(Nat) /\ overflow \in Seq(Nat) /\ buffered \in Seq(Nat)
    BY DEF Init
  <2>2. /\ eof = FALSE /\ discardingTooLongLine = FALSE /\ atEOF = FALSE /\ rebound = FALSE
        /\ source = "none" /\ pc = "idle"
    BY DEF Init
  <2> QED
    BY <1>1, <1>2, <1>3, <1>4, <2>1, <2>2 DEF ReaderTypeOK
<1>6. Fresh
  BY DEF Init, Fresh
<1> QED
  BY <1>5, <1>6, FreshReader DEF LineReaderInv

LEMMA InvStep == LineReaderInv /\ [Next]_vars => LineReaderInv'
<1> SUFFICES ASSUME LineReaderInv, [Next]_vars PROVE LineReaderInv'
  OBVIOUS
<1>1. ReaderTypeOK /\ ReaderTypeOK'
  BY TypesStep DEF LineReaderInv
<1>2. CASE Truncated
  <2>1. Fresh'
    BY <1>2 DEF Truncated, Clear, Fresh
  <2> QED
    BY <1>1, <2>1, FreshReaderNext DEF LineReaderInv
<1>3. ASSUME ~Truncated, Fits' PROVE ReaderOK'
  <2>1. Fits
    BY <1>1, <1>3 DEF Fits, Next, AppendByte, Rename, Call, Rebind, ReadLine, Fill, ReturnLine,
       BufferChunk, ReturnTooLong, ReturnEOF, Discard, DiscardInBuffer, DiscardFindsNewline,
       DiscardChunk, DiscardEnds, fileVars, vars, ReaderTypeOK
  <2>2. ReaderOK
    BY <2>1 DEF LineReaderInv
  <2>3. ASSUME NEW b \in {"x", CR, NL}, AppendByte(b) PROVE ReaderOK'
    BY <1>1, <2>2, <2>3, ReaderAppend
  <2>4. CASE Rename
    BY <2>2, <2>4, ReaderStays DEF Rename, bufioVars
  <2>5. CASE Call
    BY <1>1, <1>3, <2>2, <2>5, ReaderCall
  <2>6. CASE ReadLine
    BY <1>1, <2>1, <2>2, <2>6, ReaderFill, ReaderReturnLine, ReaderBufferChunk,
       ReaderReturnTooLong, ReaderReturnEOF, NothingToDiscardInBuffer,
       ReaderDiscardFindsNewline, ReaderDiscardChunk DEF ReadLine, Discard
  <2>7. CASE UNCHANGED vars
    BY <2>2, <2>7, ReaderStays DEF vars, bufioVars
  <2> QED
    BY <1>3, <2>3, <2>4, <2>5, <2>6, <2>7 DEF Next
<1> QED
  BY <1>1, <1>2, <1>3 DEF LineReaderInv

LEMMA InvAlways == Spec => []LineReaderInv
  BY InvStart, InvStep, PTL DEF Spec

\* The lines that readNewLines sends are the first lines of the file as a whole,
\* each cut to the limit, however writes, reads, bufio's chunks and re-bindings cut
\* them: for any limit, any buffer size and files of any length.
THEOREM LinesAsWrittenCorrect == Spec => []LinesAsWritten
<1>1. LineReaderInv => LinesAsWritten
  <2> SUFFICES ASSUME ReaderTypeOK, ReaderOK, Fits PROVE LinesAsWritten
    BY DEF LineReaderInv, LinesAsWritten
  <2>1. \A s \in Starts : s \in Nat
    BY AtWork
  <2>2. begin \in Nat
    BY AtWork
  <2>3. ASSUME NEW i \in 1 .. Len(lines), NEW s \in Starts, Reported(s), s < lines[i].start
        PROVE  \E j \in 1 .. Len(lines) : lines[j].start = s
    <3>1. lines[i].start \in DoneStarts
      BY DEF ReaderOK, Sent
    <3>2. s \in DoneStarts
      BY <2>1, <2>2, <2>3, <3>1 DEF DoneStarts
    <3> QED
      BY <2>3, <3>2 DEF ReaderOK, Sent
  <2>4. \A i, j \in 1 .. Len(lines) : i < j => lines[i].start < lines[j].start
    BY DEF ReaderOK, Sent
  <2>5. ASSUME NEW i \in 1 .. Len(lines)
        PROVE  /\ lines[i].start \in Starts /\ Ready(lines[i].start)
               /\ lines[i].bytes = Cut(lines[i].start)
               /\ Exceeds(lines[i].start) => lines[i].truncated
               /\ lines[i].truncated => Over(lines[i].start)
    <3>1. PICK s \in Starts : s = lines[i].start /\ Reported(s) /\ lines[i] = Line(s)
      BY DEF ReaderOK, Sent, DoneStarts
    <3>2. lines[i].bytes = Cut(s) /\ lines[i].truncated = Over(s)
      BY <3>1 DEF Line
    <3>3. Ready(s)
      BY <3>1 DEF Reported
    <3>4. Exceeds(s) => Over(s)
      BY ExceedsIsOver DEF ReaderTypeOK, FileTyped
    <3> QED
      BY <3>1, <3>2, <3>3, <3>4
  <2> QED
    BY <2>3, <2>4, <2>5 DEF LinesAsWritten
<1> QED
  BY <1>1, InvAlways, PTL

\* When ReadLine has returned eof at the end of the file, every line of the file that
\* is to be reported was sent: only an unfinished one is held back.
THEOREM NothingHeldBackCorrect == Spec => []NothingHeldBack
<1>1. LineReaderInv => NothingHeldBack
  <2> SUFFICES ASSUME ReaderTypeOK, ReaderOK, pc = "idle", atEOF, offset = Len(file),
                      NEW s \in Starts, Reported(s)
               PROVE  \E i \in 1 .. Len(lines) : lines[i].start = s
    BY DEF LineReaderInv, NothingHeldBack
  <2>1. overflow = <<>> /\ buffered = <<>> /\ NoNewline(begin, begin + Len(buf) - 1)
    BY DEF ReaderOK, AllReadAtEOF
  <2>2. /\ begin \in Nat \ {0} /\ Len(buf) \in Nat /\ Len(file) \in Nat /\ maxLineBytes \in Nat
        /\ Len(buf) <= maxLineBytes /\ rest \in Nat
        /\ rest + Len(overflow) + Len(buffered) = offset + 1
        /\ ~discardingTooLongLine => rest = begin + Len(buf)
        /\ s \in 1 .. Len(file) + 1 /\ (s > 1 => file[s - 1] = NL)
    BY AtWork
  <2>3. rest = Len(file) + 1
    <3>1. Len(overflow) = 0 /\ Len(buffered) = 0
      BY <2>1
    <3> QED
      BY <2>2, <3>1
  <2>4. NoNewline(begin, Len(file))
    <3>1. CASE discardingTooLongLine
      <4>1. NoNewline(begin, rest - 1)
        BY <3>1 DEF ReaderOK, Pieces
      <4> QED
        BY <2>2, <2>3, <4>1 DEF NoNewline
    <3>2. CASE ~discardingTooLongLine
      BY <2>1, <2>2, <2>3, <3>2 DEF NoNewline
    <3> QED
      BY <3>1, <3>2
  <2>5. ~(s > begin)
    <3>1. ASSUME s > begin PROVE FALSE
      <4>1. s - 1 \in begin .. Len(file) /\ file[s - 1] = NL
        BY <2>2, <3>1
      <4> QED
        BY <2>4, <4>1 DEF NoNewline
    <3> QED
      BY <3>1
  <2>6. s = begin => discardingTooLongLine
    <3>1. ASSUME s = begin, ~discardingTooLongLine PROVE FALSE
      <4>1. OpenLines
        BY OpenLinesFact DEF FileTyped, ReaderTypeOK
      <4>2. Over(s) <=> Len(file) - s + 1 > maxLineBytes
        BY <2>2, <2>4, <3>1, <4>1 DEF OpenLines
      <4>3. Reported(s) <=> Over(s) /\ Cut(s) # <<>>
        BY <2>2, <2>4, <3>1, <4>1 DEF OpenLines
      <4> QED
        BY <2>2, <2>3, <3>1, <4>2, <4>3
    <3> QED
      BY <3>1
  <2>7. s \in DoneStarts
    BY <2>2, <2>5, <2>6 DEF DoneStarts
  <2> QED
    BY <2>7 DEF ReaderOK, Sent
<1> QED
  BY <1>1, InvAlways, PTL

=============================================================================
