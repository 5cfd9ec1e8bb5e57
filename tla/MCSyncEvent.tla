---------------------------- MODULE MCSyncEvent -----------------------------
(* An instance of SyncEvent for TLC. *)
EXTENDS SyncEvent
=============================================================================
