--------------------------- MODULE MCPollingTailer ---------------------------
(* Instances of PollingTailer for TLC. *)
EXTENDS PollingTailer

MCDirOf == [n \in Names |-> IF n = "c" THEN "d2" ELSE "d1"]
TwoDirs == <<"d1", "d2">>

\* Any rename, also back to an earlier name.
Anywhere == [n \in Names |-> Names]
=============================================================================
