--------------------------- MODULE PropertyQueue ---------------------------
(***************************************************************************)
(* One key of the property queue of htmapp: tq::set, tq::swp and tq::wait   *)
(* on the global property bag g_htmapp_pb and the wait pool g_htmapp_wp.   *)
(* set and swp are one critical section on g_htmapp_pb_lock each; wait has *)
(* two, and blocks on a manual-reset event between them.  The keys share   *)
(* nothing but that lock, and tq::get changes nothing that matters here.   *)
(* A call that does not get the lock in time changes nothing, but for the  *)
(* second critical section of wait: see WaitLockFails.                     *)
(*                                                                         *)
(* A value is abstracted to its version: every write is a new one.         *)
(***************************************************************************)
EXTENDS Integers

CONSTANTS
  Waiters,    \* threads that call wait
  MaxVersion, \* BOUND: writes to the key
  MaxNodes,   \* BOUND: entries the wait pool ever creates for the key
  MaxRef      \* BOUND: references to one event

ASSUME WaitersAssumption  == Waiters # {}
ASSUME VersionsAssumption == MaxVersion \in Nat /\ MaxNodes \in Nat /\ MaxRef \in Nat

NoNode == 0
Nodes  == 1 .. MaxNodes

VARIABLES
  version, \* the value of the key in the property bag
  node,    \* the map node of the key in the wait pool, or NoNode
  used,    \* number of nodes created so far
  ref,     \* node -> references to its event; the event is freed at 0
  signaled,\* node -> the event is signaled
  pc,      \* waiter -> where it is in wait()
  w,       \* waiter -> the node whose event it has a pointer to
  bRet,    \* waiter -> what wait() is going to return, see Outcome
  since,   \* waiter -> the version when wait() was entered
  clean    \* history: no two waits have overlapped so far, and each that is
           \* over has removed its entry

vars == <<version, node, used, ref, signaled, pc, w, bRet, since, clean>>

Init ==
  /\ version = 0
  /\ node = NoNode
  /\ used = 0
  /\ ref = [n \in Nodes |-> 0]
  /\ signaled = [n \in Nodes |-> FALSE]
  /\ pc = [x \in Waiters |-> "idle"]
  /\ w = [x \in Waiters |-> NoNode]
  /\ bRet = [x \in Waiters |-> FALSE]
  /\ since = [x \in Waiters |-> 0]
  /\ clean = TRUE

-----------------------------------------------------------------------------
BugNoSignal == UNCHANGED signaled

\* The end of set and swp: signal the entry of the key, if there is one.
SignalKey ==
  signaled' = [n \in Nodes |-> signaled[n] \/ n = node]

\* The critical section of tq::set and of tq::swp, which also returns the
\* value it replaces.
Write ==
  /\ version < MaxVersion
  /\ version' = version + 1
  /\ SignalKey
  /\ UNCHANGED <<node, used, ref, pc, w, bRet, since, clean>>

\* CreateRi: an event is born with the reference of its creator.
FirstReference == 1

\* tq::wait, first critical section: create the entry or add a reference.
WaitEnter(x) ==
  /\ pc[x] = "idle"
  /\ IF node = NoNode
       THEN /\ used < MaxNodes
            /\ used' = used + 1
            /\ node' = used + 1
            /\ ref' = [ref EXCEPT ![used + 1] = FirstReference]
       ELSE /\ ref[node] < MaxRef
            /\ ref' = [ref EXCEPT ![node] = @ + 1]
            /\ UNCHANGED <<used, node>>
  /\ w' = [w EXCEPT ![x] = node']
  /\ since' = [since EXCEPT ![x] = version]
  /\ pc' = [pc EXCEPT ![x] = "entered"]
  /\ clean' = (clean /\ \A y \in Waiters : pc[y] = "idle")
  /\ UNCHANGED <<version, signaled, bRet>>

\* bool bRet = w->Wait( uTimeout ): waitSuccess is 0, so a wait that was ended
\* by the event is FALSE, and one that timed out or failed is TRUE.
Outcome(x, success) == bRet' = [bRet EXCEPT ![x] = ~success]

\* Wait() finds the event signaled, or blocks.
WaitBlock(x) ==
  /\ pc[x] = "entered"
  /\ w[x] = node
  /\ pc' = [pc EXCEPT ![x] = IF signaled[w[x]] THEN "returned" ELSE "blocked"]
  /\ Outcome(x, signaled[w[x]])
  /\ UNCHANGED <<version, node, used, ref, signaled, w, since, clean>>

\* If the entry has been erased in the meantime w points into freed memory, and
\* Wait reads whatever is there: it returns either way, sooner or later.
WaitFreed(x) ==
  /\ pc[x] = "entered"
  /\ w[x] # node
  /\ pc' = [pc EXCEPT ![x] = "returned"]
  /\ \E success \in BOOLEAN : Outcome(x, success)
  /\ UNCHANGED <<version, node, used, ref, signaled, w, since, clean>>

WaitSignaled(x) ==
  /\ pc[x] = "blocked"
  /\ signaled[w[x]]
  /\ pc' = [pc EXCEPT ![x] = "returned"]
  /\ Outcome(x, TRUE)
  /\ UNCHANGED <<version, node, used, ref, signaled, w, since, clean>>

\* pthread_cond_timedwait ran out of time: the flag is not looked at again.
WaitTimedOut(x) ==
  /\ pc[x] = "blocked"
  /\ pc' = [pc EXCEPT ![x] = "returned"]
  /\ Outcome(x, FALSE)
  /\ UNCHANGED <<version, node, used, ref, signaled, w, since, clean>>

BugKeepEntry == node

\* Destroy() drops one reference and returns 0 whether or not it was the last,
\* so the entry is erased by whoever leaves first.
EntryAfterDestroy == NoNode

\* tq::wait, second critical section.
WaitLeave(x) ==
  /\ pc[x] = "returned"
  /\ IF node = NoNode
       THEN UNCHANGED <<ref, node>>
       ELSE /\ ref' = [ref EXCEPT ![node] = @ - 1]
            /\ node' = EntryAfterDestroy
  /\ pc' = [pc EXCEPT ![x] = "idle"]
  /\ w' = [w EXCEPT ![x] = NoNode]
  /\ UNCHANGED <<version, used, signaled, bRet, since, clean>>

\* The lock is not to be had in time: wait() returns with its reference still
\* taken and the entry, signaled or not, still in the pool.
WaitLockFails(x) ==
  /\ pc[x] = "returned"
  /\ pc' = [pc EXCEPT ![x] = "idle"]
  /\ w' = [w EXCEPT ![x] = NoNode]
  /\ clean' = FALSE
  /\ UNCHANGED <<version, node, used, ref, signaled, bRet, since>>

Waiting(x) ==
  \/ WaitEnter(x) \/ WaitBlock(x) \/ WaitFreed(x) \/ WaitSignaled(x)
  \/ WaitTimedOut(x) \/ WaitLeave(x) \/ WaitLockFails(x)

Next == Write \/ \E x \in Waiters : Waiting(x)

Spec == Init /\ [][Next]_vars

-----------------------------------------------------------------------------
(* Properties                                                              *)

\* Types.  No event has less than no reference.
TypeOK ==
  /\ version \in 0 .. MaxVersion
  /\ node \in 0 .. used
  /\ used \in 0 .. MaxNodes
  /\ ref \in [Nodes -> Nat]
  /\ signaled \in [Nodes -> BOOLEAN]
  /\ pc \in [Waiters -> {"idle", "entered", "blocked", "returned"}]
  /\ w \in [Waiters -> 0 .. used]
  /\ bRet \in [Waiters -> BOOLEAN]
  /\ since \in [Waiters -> 0 .. MaxVersion]
  /\ clean \in BOOLEAN

\* "Returns ... when ts::set() is called": a write wakes every thread that is
\* inside wait() for the key, that is, it signals the event the thread blocks
\* on or is about to block on.
WakesAll ==
  version' # version =>
    \A x \in Waiters : pc[x] \in {"entered", "blocked"} => signaled'[w[x]]

\* ... as long as no two waits on the key overlap and each removes its entry.
SetWakesLoneWaiter == [][clean => WakesAll]_vars

\* The event a thread waits on holds a reference for it: nobody frees it while
\* the thread is inside Wait().
EventOutlivesWaiter ==
  clean => \A x \in Waiters : pc[x] \in {"entered", "blocked"} => ref[w[x]] > 0

\* When nobody waits on the key no event is left allocated.
NoEventLeak ==
  clean /\ (\A x \in Waiters : pc[x] = "idle") => \A n \in Nodes : ref[n] = 0

\* A wait that was ended by the event, and is going to return FALSE, was ended
\* by a write that came after it began: no stale signal is left for it.
WokenByNewWrite ==
  clean => \A x \in Waiters : pc[x] = "returned" /\ ~bRet[x] => version > since[x]

\* What a thread that waits alone can count on, until a wait overlaps another
\* or ends without the lock: an event that lives as long as the wait, is freed
\* with it, and is signaled by new writes only.
LoneWaitSafe == EventOutlivesWaiter /\ NoEventLeak /\ WokenByNewWrite
=============================================================================
