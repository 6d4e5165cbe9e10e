-------------------------------- MODULE MCGlob --------------------------------
(* Instances of Glob for TLC. *)
EXTENDS Glob

\* All characters that the code looks at, and one more.
MCChars == {"[", "]", "^", "-", "*", "\\", "/", ".", "a"}
MCCwd == <<<<"a">>>>
=============================================================================
