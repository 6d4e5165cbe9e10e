---------------------------- MODULE MCKqueueTailer ----------------------------
(* Instances of KqueueTailer for TLC. *)
EXTENDS KqueueTailer

MCDirOf == [n \in Names |-> "d1"]
OneDir == <<"d1">>

\* Any rename, also back to an earlier name.
Anywhere == [n \in Names |-> Names]
=============================================================================
