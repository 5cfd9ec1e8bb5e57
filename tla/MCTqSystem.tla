---------------------------- MODULE MCTqSystem ----------------------------
\* An instance of TqSystem for TLC: see MCTqSystem.cfg.
EXTENDS TqSystem
===========================================================================
