-------------------------- MODULE MCTailerLifecycle --------------------------
(* Instances of TailerLifecycle for TLC. *)
EXTENDS TailerLifecycle
=============================================================================
