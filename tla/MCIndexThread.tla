--------------------------- MODULE MCIndexThread ---------------------------
\* An instance of IndexThread for TLC: see MCIndexThread.cfg.
EXTENDS IndexThread
===========================================================================
