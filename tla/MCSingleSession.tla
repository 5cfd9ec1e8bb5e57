-------------------------- MODULE MCSingleSession --------------------------
(* Instances of SingleSession for TLC. *)
EXTENDS SingleSession
=============================================================================
