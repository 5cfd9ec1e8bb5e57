--------------------------- MODULE WorkerContract ---------------------------
(***************************************************************************)
(* What a thread object promises to the code that owns it, without the     *)
(* events, flags and handles that CThread uses to keep the promise.  Both  *)
(* the thread pool and the thread objects themselves implement it.         *)
(***************************************************************************)
CONSTANT Workers  \* the thread objects

VARIABLE phase    \* the life of each object

Phases == {"unborn",   \* the object has no thread and can be started
           "starting", \* the thread exists, its InitThread is not over
           "running",  \* the thread is past InitThread
           "exited",   \* the thread touches nothing any more
           "failed",   \* no thread could be created
           "gone"}     \* the object is destroyed

\* An object gets a thread only when it has none, a thread is initialised
\* before it runs, and a destroyed object never comes back.
MayBecome(p) ==
  CASE p = "unborn"   -> {"unborn", "starting", "failed", "gone"}
    [] p = "starting" -> {"starting", "running", "exited", "gone"}
    [] p = "running"  -> {"running", "exited", "gone"}
    [] p = "exited"   -> {"exited", "unborn", "starting", "failed", "gone"}
    [] p = "failed"   -> {"failed", "unborn", "starting", "gone"}
    [] p = "gone"     -> {"gone"}

Init == phase = [o \in Workers |-> "unborn"]

Next == \A o \in Workers : phase'[o] \in MayBecome(phase[o])

Spec == Init /\ [][Next]_phase
=============================================================================
