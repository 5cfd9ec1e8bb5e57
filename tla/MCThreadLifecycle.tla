------------------------- MODULE MCThreadLifecycle --------------------------
(* An instance of ThreadLifecycle for TLC. *)
EXTENDS ThreadLifecycle
=============================================================================
