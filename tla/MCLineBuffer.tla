---------------------------- MODULE MCLineBuffer ----------------------------
(* Instances of LineBuffer for TLC. *)
EXTENDS LineBuffer, TLC

\* The lines are only stored and compared.
Symmetry == Permutations(Lines)
=============================================================================
