-------------------------- MODULE MCBufferedTailer --------------------------
(* Instances of BufferedTailer for TLC. *)
EXTENDS BufferedTailer
=============================================================================
