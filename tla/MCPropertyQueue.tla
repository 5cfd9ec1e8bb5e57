-------------------------- MODULE MCPropertyQueue ---------------------------
(* Instances of PropertyQueue for TLC. *)
EXTENDS PropertyQueue
=============================================================================
