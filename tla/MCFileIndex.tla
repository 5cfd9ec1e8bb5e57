---------------------------- MODULE MCFileIndex ----------------------------
\* An instance of FileIndex for TLC: see MCFileIndex.cfg.
EXTENDS FileIndex
============================================================================
