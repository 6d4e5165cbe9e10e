---------------------------- MODULE MCWindowsTailer ----------------------------
(* Instances of WindowsTailer for TLC. *)
EXTENDS WindowsTailer

MCDirOf == [n \in Names |-> "d1"]
OneDir == <<"d1">>

\* A file may be renamed to any name, back to one it had as well.
Anywhere == [n \in Names |-> Names]
=============================================================================
