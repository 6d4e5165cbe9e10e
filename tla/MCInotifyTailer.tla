--------------------------- MODULE MCInotifyTailer ---------------------------
(* Instances of InotifyTailer for TLC. *)
EXTENDS InotifyTailer

\* Paths a and b in one directory, c in another.
MCDirOf == [n \in Names |-> IF n = "c" THEN "d2" ELSE "d1"]

\* Any rename, also back to an earlier name.
Anywhere == [n \in Names |-> Names]
OneDir == <<"d1">>
TwoDirs == <<"d1", "d2">>
=============================================================================
