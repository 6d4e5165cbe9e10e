--------------------------------- MODULE Glob ---------------------------------
(***************************************************************************)
(* tailer/glob: a pattern is validated character by character, made an     *)
(* absolute path and accepted if its directory has no wildcards.           *)
(***************************************************************************)
EXTENDS Integers, SequencesExt

CONSTANTS
  Chars,      \* the characters of the patterns
  MaxLength,  \* bound of the model: the longest pattern
  Cwd         \* the working directory: its segments

ASSUME ConstantsAssumption == MaxLength \in Nat /\ Cwd \in Seq(Seq(Chars))

VARIABLES
  goos,             \* runtime.GOOS: "unix" or "windows"
  single,           \* FromPath is called, and not Parse
  pattern,
  i,                \* IsPatternValid: the next character
  charClassItems, insideCharClass, escaped,
  pc,               \* "scan", "invalid" or "valid"; "refused" or "parsed"
  glob              \* the segments of the glob that Parse returns

scanVars == <<i, charClassItems, insideCharClass, escaped>>
vars == <<goos, single, pattern, scanVars, pc, glob>>

-----------------------------------------------------------------------------
(* Helpers: containsWildcards, and the path functions of Go's filepath.     *)

\* Mutant of Quoted: a backslash quotes whatever follows, a quoted one as well.
QuotedByAny(p) == [k \in 1 .. Len(p) |-> goos # "windows" /\ k > 1 /\ p[k - 1] = "\\"]

\* Which characters a backslash quotes.
Quoted(p) ==
  LET q[k \in 1 .. Len(p)] ==
        goos # "windows" /\ k > 1 /\ p[k - 1] = "\\" /\ ~q[k - 1]
  IN  q

containsWildcards(p) == \E k \in 1 .. Len(p) : p[k] \in {"[", "*", "?"} /\ ~Quoted(p)[k]

Segments(p) ==
  FoldLeft(LAMBDA segs, c : IF c = "/" THEN Append(segs, <<>>)
                            ELSE [segs EXCEPT ![Len(segs)] = Append(@, c)],
           <<<<>>>>, p)

\* filepath.Clean of an absolute path, as segments; it knows no quoting.
Clean(segs) ==
  FoldLeft(LAMBDA path, seg : CASE seg \in {<<>>, <<".">>} -> path
                                [] seg = <<".", ".">> /\ path # <<>> -> Front(path)
                                [] seg = <<".", ".">> /\ path = <<>> -> path
                                [] OTHER -> Append(path, seg),
           <<>>, segs)

Abs(p) == Clean(IF p # <<>> /\ Head(p) = "/" THEN Segments(p) ELSE Cwd \o Segments(p))

Path(segs) == FlattenSeq([k \in 1 .. Len(segs) |-> <<"/">> \o segs[k]])
Dir(segs) == IF segs = <<>> THEN <<>> ELSE Path(Front(segs))

-----------------------------------------------------------------------------
(* IsPatternValid                                                           *)

\* FromPath refuses wildcards before it calls Parse.
Init ==
  /\ goos \in {"unix", "windows"}
  /\ single \in BOOLEAN
  /\ pattern \in UNION {[1 .. n -> Chars] : n \in 0 .. MaxLength}
  /\ i = 1 /\ charClassItems = <<>> /\ insideCharClass = FALSE /\ escaped = FALSE
  /\ pc = IF single /\ containsWildcards(pattern) THEN "refused" ELSE "scan"
  /\ glob = <<>>

Scanning == pc = "scan" /\ i <= Len(pattern)
Backslash == pattern[i] = "\\" /\ ~escaped /\ goos # "windows"

Scanned(next) == i' = next /\ escaped' = FALSE /\ UNCHANGED <<goos, single, pattern, glob>>

Escape ==
  /\ Scanning /\ Backslash
  /\ escaped' = TRUE
  /\ i' = i + 1
  /\ UNCHANGED <<goos, single, pattern, charClassItems, insideCharClass, pc, glob>>

ClassStart ==
  /\ Scanning /\ ~insideCharClass /\ ~escaped /\ pattern[i] = "["
  /\ insideCharClass' = TRUE
  /\ Scanned(IF i < Len(pattern) /\ pattern[i + 1] = "^" THEN i + 2 ELSE i + 1)
  /\ UNCHANGED <<charClassItems, pc>>

Minus ==
  /\ Scanning /\ insideCharClass /\ ~escaped /\ pattern[i] = "-"
  /\ charClassItems' = Append(charClassItems, "minus")
  /\ Scanned(i + 1)
  /\ UNCHANGED <<insideCharClass, pc>>

\* Mutant of isCharClassValid: the class may end with a minus.
isCharClassValidOpen(items) ==
  LET n == Len(items)
      ok[k \in 1 .. n + 3] ==
        \/ k > n
        \/ /\ items[k] # "minus"
           /\ IF k < n /\ items[k + 1] = "minus"
                THEN (k + 2 <= n => items[k + 2] # "minus") /\ ok[k + 3]
                ELSE ok[k + 1]
  IN  n > 0 /\ ok[1]

\* The loop over the items: from item k on they are characters and ranges.
isCharClassValid(items) ==
  LET n == Len(items)
      ok[k \in 1 .. n + 1] ==
        \/ k = n + 1
        \/ /\ items[k] # "minus"
           /\ IF k < n /\ items[k + 1] = "minus"
                THEN k + 2 <= n /\ items[k + 2] # "minus" /\ ok[k + 3]
                ELSE ok[k + 1]
  IN  n > 0 /\ ok[1]

ClassEnd ==
  /\ Scanning /\ insideCharClass /\ ~escaped /\ pattern[i] = "]"
  /\ IF isCharClassValid(charClassItems)
       THEN charClassItems' = <<>> /\ insideCharClass' = FALSE /\ UNCHANGED pc
       ELSE pc' = "invalid" /\ UNCHANGED <<charClassItems, insideCharClass>>
  /\ Scanned(i + 1)

ClassChar ==
  /\ Scanning /\ insideCharClass /\ ~Backslash
  /\ escaped \/ pattern[i] \notin {"-", "]"}
  /\ charClassItems' = Append(charClassItems, "char")
  /\ Scanned(i + 1)
  /\ UNCHANGED <<insideCharClass, pc>>

OtherChar ==
  /\ Scanning /\ ~insideCharClass /\ ~Backslash
  /\ escaped \/ pattern[i] # "["
  /\ Scanned(i + 1)
  /\ UNCHANGED <<charClassItems, insideCharClass, pc>>

ScanDone ==
  /\ pc = "scan" /\ i > Len(pattern)
  /\ pc' = IF ~escaped /\ ~insideCharClass THEN "valid" ELSE "invalid"
  /\ UNCHANGED <<goos, single, pattern, scanVars, glob>>

\* The rest of Parse.
Absolute ==
  /\ pc = "valid" /\ goos = "unix"
  /\ glob' = Abs(pattern)
  /\ pc' = IF containsWildcards(Dir(glob')) THEN "refused" ELSE "parsed"
  /\ UNCHANGED <<goos, single, pattern, scanVars>>

Next ==
  \/ Escape \/ ClassStart \/ Minus \/ ClassEnd \/ ClassChar \/ OtherChar \/ ScanDone
  \/ Absolute

Spec == Init /\ [][Next]_vars

-----------------------------------------------------------------------------
(* The reference: what filepath.Match parses without ErrBadPattern.  Its    *)
(* getEsc reads one character of a class, after which the class must go on. *)
getEsc(p, k) ==
  LET at == IF k <= Len(p) /\ p[k] = "\\" /\ goos # "windows" THEN k + 1 ELSE k
  IN  IF k > Len(p) \/ at >= Len(p) THEN 0
      ELSE IF p[k] \in {"-", "]"} THEN 0 ELSE at + 1

MatchParses(p) ==
  LET n == Len(p)
      parses[inClass \in {"out", "first", "in"}, k \in 1 .. n + 2] ==
        CASE inClass = "out" /\ k > n -> k = n + 1
          [] inClass = "out" /\ k <= n ->
               CASE p[k] = "[" -> parses["first", IF k < n /\ p[k + 1] = "^" THEN k + 2 ELSE k + 1]
                 [] p[k] = "\\" /\ goos # "windows" -> parses["out", k + 2]
                 [] OTHER -> parses["out", k + 1]
          [] inClass = "in" /\ k <= n /\ p[k] = "]" -> parses["out", k + 1]
          [] OTHER ->
               LET lo == getEsc(p, k)
                   hi == IF lo # 0 /\ p[lo] = "-" THEN getEsc(p, lo + 1) ELSE lo
               IN  hi # 0 /\ parses["in", hi]
  IN  parses["out", 1]

\* The validator accepts exactly the patterns that filepath.Match can parse: a
\* valid one never fails later, where Match's error is dropped, and none that
\* would work is refused.
ValidatorExact ==
  /\ pc \in {"valid", "parsed"} => MatchParses(pattern)
  /\ pc = "invalid" => ~MatchParses(pattern)

\* Character k follows an odd number of backslashes.
OddBackslashes(p, k) ==
  \E n \in 1 .. k - 1 :
    /\ n % 2 = 1
    /\ \A j \in k - n .. k - 1 : p[j] = "\\"
    /\ k - n > 1 => p[k - n - 1] # "\\"

\* FromPath's comment: "be sure only a single file is watched".  No character of
\* its glob is a wildcard for filepath.Match.
SingleFile ==
  pc = "parsed" /\ single =>
    \A k \in 1 .. Len(Path(glob)) :
      Path(glob)[k] \in {"[", "*", "?"} => OddBackslashes(Path(glob), k)
=============================================================================
