------------------------ MODULE PropertyQueue_proofs ------------------------
(***************************************************************************)
(* Proofs about PropertyQueue, for any threads and any number of writes.   *)
(*                                                                         *)
(* While no two waits have overlapped, and none has ended without the lock *)
(* and so without removing its entry, the entry of the key belongs to the  *)
(* one thread that waits: LoneWait says what that means, and everything    *)
(* promised to a waiter follows from it.                                   *)
(***************************************************************************)
EXTENDS PropertyQueue, TLAPS

\* What is true however the waits overlap: the entry in the pool has a
\* reference, entries to come are untouched, and a waiter has a pointer.
Entries ==
  /\ node # NoNode => ref[node] > 0
  /\ \A n \in Nodes : n > used => ref[n] = 0 /\ ~signaled[n]
  /\ \A x \in Waiters : pc[x] # "idle" => w[x] # NoNode
  /\ \A x \in Waiters : since[x] <= version

\* As long as waits have not overlapped and have cleaned up, there is at most
\* one waiter, it owns the only entry, and later writes only have signaled it.
LoneWait ==
  clean =>
    /\ \A x, y \in Waiters : pc[x] # "idle" /\ pc[y] # "idle" => x = y
    /\ \A x \in Waiters : pc[x] # "idle" =>
         /\ w[x] = node
         /\ signaled[node] => version > since[x]
         /\ pc[x] = "returned" /\ ~bRet[x] => version > since[x]
    /\ (\A x \in Waiters : pc[x] = "idle") => node = NoNode
    /\ \A n \in Nodes : ref[n] = IF n = node THEN 1 ELSE 0

IInv == TypeOK /\ Entries /\ LoneWait

-----------------------------------------------------------------------------
USE WaitersAssumption, VersionsAssumption
USE DEF NoNode, Nodes

LEMMA InitInv == Init => IInv
<1> SUFFICES ASSUME Init PROVE IInv
  OBVIOUS
<1>1. TypeOK
  BY DEF Init, TypeOK
<1>2. Entries
  BY DEF Init, Entries
<1>3. LoneWait
  BY DEF Init, LoneWait
<1> QED
  BY <1>1, <1>2, <1>3 DEF IInv

\* A write, by set or swp, signals the entry and leaves the waiters alone.
LEMMA WriteInv == ASSUME IInv, Write PROVE IInv'
<1>0. TypeOK /\ Entries /\ LoneWait
  BY DEF IInv
<1>1. /\ version' = version + 1 /\ version' \in 0 .. MaxVersion
      /\ UNCHANGED <<node, used, ref, pc, w, bRet, since, clean>>
  BY <1>0 DEF TypeOK, Write
<1>2. /\ signaled' \in [Nodes -> BOOLEAN]
      /\ \A n \in Nodes : n # node => signaled'[n] = signaled[n]
  BY <1>0 DEF Write, SignalKey, TypeOK
<1>3. Entries'
  <2>1. \A n \in Nodes : n > used => n # node
    BY <1>0 DEF TypeOK
  <2>2. ASSUME NEW x \in Waiters PROVE since[x] <= version + 1
    <3>1. since[x] \in Int /\ version \in Int
      BY <1>0 DEF TypeOK
    <3>2. since[x] <= version
      BY <1>0 DEF Entries
    <3> QED
      BY <3>1, <3>2
  <2> QED
    BY <1>0, <1>1, <1>2, <2>1, <2>2 DEF Entries
<1>4. LoneWait'
  <2>1. \A x \in Waiters : version' > since[x]
    BY <1>0, <1>1 DEF TypeOK, Entries
  <2> QED
    BY <1>0, <1>1, <2>1 DEF LoneWait
<1>5. TypeOK'
  BY <1>0, <1>1, <1>2 DEF TypeOK
<1> QED
  BY <1>3, <1>4, <1>5 DEF IInv

-----------------------------------------------------------------------------
LEMMA EnterInv == ASSUME IInv, NEW x \in Waiters, WaitEnter(x) PROVE IInv'
<1>0. TypeOK /\ Entries /\ LoneWait
  BY DEF IInv
<1>1. /\ pc[x] = "idle"
      /\ w' = [w EXCEPT ![x] = node']
      /\ since' = [since EXCEPT ![x] = version]
      /\ pc' = [pc EXCEPT ![x] = "entered"]
      /\ clean' = (clean /\ \A y \in Waiters : pc[y] = "idle")
      /\ UNCHANGED <<version, signaled, bRet>>
  BY DEF WaitEnter
<1>2. CASE node = NoNode
  <2>1. /\ used < MaxNodes /\ used' = used + 1 /\ node' = used + 1
        /\ ref' = [ref EXCEPT ![used + 1] = 1]
    BY <1>2 DEF WaitEnter, FirstReference
  <2>2. used' \in 0 .. MaxNodes /\ node' \in 1 .. used' /\ node' \in Nodes
    BY <1>0, <2>1 DEF TypeOK
  <2>3. TypeOK'
    BY <1>0, <1>1, <2>1, <2>2 DEF TypeOK
  <2>4. Entries'
    BY <1>0, <1>1, <2>1, <2>2 DEF TypeOK, Entries
  <2>5. LoneWait'
    <3> SUFFICES ASSUME clean' PROVE LoneWait'
      BY DEF LoneWait
    <3>1. clean /\ \A y \in Waiters : pc[y] = "idle"
      BY <1>1
    <3>2. \A y \in Waiters : pc'[y] # "idle" => y = x
      BY <1>0, <1>1, <3>1 DEF TypeOK
    <3>3. w'[x] = node' /\ ~signaled'[node'] /\ pc'[x] = "entered"
      BY <1>0, <1>1, <2>1, <2>2 DEF TypeOK, Entries
    <3>4. \A n \in Nodes : ref'[n] = IF n = node' THEN 1 ELSE 0
      BY <1>0, <1>2, <2>1, <2>2, <3>1 DEF TypeOK, LoneWait
    <3> QED
      BY <3>2, <3>3, <3>4 DEF LoneWait
  <2> QED
    BY <2>3, <2>4, <2>5 DEF IInv
<1>3. CASE node # NoNode
  <2>1. ref' = [ref EXCEPT ![node] = @ + 1] /\ UNCHANGED <<used, node>>
    BY <1>3 DEF WaitEnter
  <2>2. node \in Nodes
    BY <1>0, <1>3 DEF TypeOK
  <2>3. TypeOK'
    <3>1. ref' \in [Nodes -> Nat]
      BY <1>0, <2>1, <2>2 DEF TypeOK
    <3>2. w' \in [Waiters -> 0 .. used'] /\ since' \in [Waiters -> 0 .. MaxVersion]
      BY <1>0, <1>1, <2>1 DEF TypeOK
    <3>3. pc' \in [Waiters -> {"idle", "entered", "blocked", "returned"}] /\ clean' \in BOOLEAN
      BY <1>0, <1>1 DEF TypeOK
    <3> QED
      BY <1>0, <1>1, <2>1, <3>1, <3>2, <3>3 DEF TypeOK
  <2>4. Entries'
    <3>1. ref'[node] > 0 /\ \A n \in Nodes : n # node => ref'[n] = ref[n]
      BY <1>0, <2>1, <2>2 DEF TypeOK
    <3>2. \A n \in Nodes : n > used => n # node
      BY <1>0 DEF TypeOK
    <3>3. w'[x] = node /\ \A y \in Waiters : y # x => w'[y] = w[y] /\ pc'[y] = pc[y]
      BY <1>0, <1>1, <2>1 DEF TypeOK
    <3>4. since'[x] = version /\ \A y \in Waiters : y # x => since'[y] = since[y]
      BY <1>0, <1>1 DEF TypeOK
    <3>5. version' = version /\ version \in Int
      BY <1>0, <1>1 DEF TypeOK
    <3> QED
      BY <1>0, <1>1, <1>3, <2>1, <3>1, <3>2, <3>3, <3>4, <3>5 DEF Entries
  <2>5. ~clean'
    BY <1>0, <1>1, <1>3 DEF LoneWait
  <2>6. LoneWait'
    BY <2>5 DEF LoneWait
  <2> QED
    BY <2>3, <2>4, <2>6 DEF IInv
<1> QED
  BY <1>2, <1>3

\* The wait itself: only the waiter's place and its result change.
LEMMA InsideInv ==
  ASSUME IInv, NEW x \in Waiters,
         WaitBlock(x) \/ WaitFreed(x) \/ WaitSignaled(x) \/ WaitTimedOut(x)
  PROVE  IInv'
<1>0. TypeOK /\ Entries /\ LoneWait
  BY DEF IInv
<1>1. UNCHANGED <<version, node, used, ref, signaled, w, since, clean>>
  BY DEF WaitBlock, WaitFreed, WaitSignaled, WaitTimedOut
<1>2. PICK l \in {"blocked", "returned"}, b \in BOOLEAN :
        /\ pc' = [pc EXCEPT ![x] = l]
        /\ bRet' = [bRet EXCEPT ![x] = b]
        /\ w[x] = node /\ ~b /\ l = "returned" => signaled[node]
  <2>1. w[x] \in Nodes
    <3>1. pc[x] # "idle"
      BY DEF WaitBlock, WaitFreed, WaitSignaled, WaitTimedOut
    <3>2. w[x] \in 0 .. used /\ used \in 0 .. MaxNodes /\ w[x] # 0
      BY <1>0, <3>1 DEF TypeOK, Entries
    <3> QED
      BY <3>2
  <2>2. signaled[w[x]] \in BOOLEAN
    BY <1>0, <2>1 DEF TypeOK
  <2> QED
    BY <2>2 DEF WaitBlock, WaitFreed, WaitSignaled, WaitTimedOut, Outcome
<1>3. pc[x] # "idle"
  BY DEF WaitBlock, WaitFreed, WaitSignaled, WaitTimedOut
<1>4. \A y \in Waiters : pc'[y] # "idle" <=> pc[y] # "idle"
  BY <1>0, <1>2, <1>3 DEF TypeOK
<1>5. TypeOK'
  BY <1>0, <1>1, <1>2 DEF TypeOK
<1>6. Entries'
  BY <1>0, <1>1, <1>4 DEF Entries
<1>7. LoneWait'
  <2> SUFFICES ASSUME clean' PROVE LoneWait'
    BY DEF LoneWait
  <2>1. w[x] = node /\ (signaled[node] => version > since[x])
    BY <1>0, <1>1, <1>3 DEF LoneWait
  <2>2. pc'[x] = "returned" /\ ~bRet'[x] => version > since[x]
    BY <1>0, <1>2, <2>1 DEF TypeOK
  <2>3. \A y \in Waiters : pc[y] # "idle" => y = x
    BY <1>0, <1>1, <1>3 DEF LoneWait
  <2> QED
    BY <1>0, <1>1, <1>4, <2>1, <2>2, <2>3 DEF LoneWait
<1> QED
  BY <1>5, <1>6, <1>7 DEF IInv

LEMMA LeaveInv == ASSUME IInv, NEW x \in Waiters, WaitLeave(x) PROVE IInv'
<1>0. TypeOK /\ Entries /\ LoneWait
  BY DEF IInv
<1>1. /\ pc[x] = "returned"
      /\ pc' = [pc EXCEPT ![x] = "idle"]
      /\ w' = [w EXCEPT ![x] = NoNode]
      /\ UNCHANGED <<version, used, signaled, bRet, since, clean>>
  BY DEF WaitLeave
<1>2. /\ node' = NoNode
      /\ \/ node = NoNode /\ ref' = ref
         \/ node # NoNode /\ ref' = [ref EXCEPT ![node] = @ - 1]
  BY DEF WaitLeave, EntryAfterDestroy
<1>3. node # NoNode => node \in Nodes /\ ref[node] \in Nat \ {0} /\ node <= used
  BY <1>0 DEF TypeOK, Entries
<1>4. TypeOK'
  <2>1. ref' \in [Nodes -> Nat]
    <3>1. CASE node = NoNode
      BY <1>0, <1>2, <3>1 DEF TypeOK
    <3>2. CASE node # NoNode
      <4>1. ref[node] - 1 \in Nat /\ ref' = [ref EXCEPT ![node] = ref[node] - 1]
        BY <1>2, <1>3, <3>2
      <4> QED
        BY <1>0, <4>1 DEF TypeOK
    <3> QED
      BY <3>1, <3>2
  <2>2. w' \in [Waiters -> 0 .. used']
    BY <1>0, <1>1 DEF TypeOK
  <2>3. pc' \in [Waiters -> {"idle", "entered", "blocked", "returned"}]
    BY <1>0, <1>1 DEF TypeOK
  <2>4. node' \in 0 .. used'
    BY <1>0, <1>1, <1>2 DEF TypeOK
  <2> QED
    BY <1>0, <1>1, <2>1, <2>2, <2>3, <2>4 DEF TypeOK
<1>5. Entries'
  BY <1>0, <1>1, <1>2, <1>3 DEF TypeOK, Entries
<1>6. LoneWait'
  <2> SUFFICES ASSUME clean' PROVE LoneWait'
    BY DEF LoneWait
  <2>1. \A y \in Waiters : pc'[y] = "idle"
    BY <1>0, <1>1 DEF TypeOK, LoneWait
  <2>2. \A n \in Nodes : ref'[n] = 0
    BY <1>0, <1>1, <1>2, <1>3 DEF TypeOK, LoneWait
  <2> QED
    BY <1>2, <2>1, <2>2 DEF LoneWait
<1> QED
  BY <1>4, <1>5, <1>6 DEF IInv

\* A wait that ends without the lock leaves its entry to whoever comes next.
LEMMA LockFailsInv == ASSUME IInv, NEW x \in Waiters, WaitLockFails(x) PROVE IInv'
<1>0. TypeOK /\ Entries
  BY DEF IInv
<1>1. TypeOK'
  <2>1. /\ pc' = [pc EXCEPT ![x] = "idle"] /\ w' = [w EXCEPT ![x] = 0] /\ clean' = FALSE
        /\ UNCHANGED <<version, node, used, ref, signaled, bRet, since>>
    BY DEF WaitLockFails
  <2>2. w' \in [Waiters -> 0 .. used']
    BY <1>0, <2>1 DEF TypeOK
  <2>3. pc' \in [Waiters -> {"idle", "entered", "blocked", "returned"}]
    BY <1>0, <2>1 DEF TypeOK
  <2> QED
    BY <1>0, <2>1, <2>2, <2>3 DEF TypeOK
<1>2. Entries'
  BY <1>0 DEF WaitLockFails, TypeOK, Entries
<1>3. LoneWait'
  BY DEF WaitLockFails, LoneWait
<1> QED
  BY <1>1, <1>2, <1>3 DEF IInv

LEMMA NextInv == IInv /\ [Next]_vars => IInv'
<1> SUFFICES ASSUME IInv, [Next]_vars PROVE IInv'
  OBVIOUS
<1>1. CASE \E x \in Waiters : Waiting(x)
  BY <1>1, EnterInv, InsideInv, LeaveInv, LockFailsInv DEF Waiting
<1>2. CASE UNCHANGED vars
  BY <1>2 DEF IInv, TypeOK, Entries, LoneWait, vars
<1> QED
  BY <1>1, <1>2, WriteInv DEF Next

\* A lone waiter owns the only entry of its key, in every reachable state.
THEOREM InvHolds == Spec => []IInv
BY InitInv, NextInv, PTL DEF Spec

-----------------------------------------------------------------------------
\* Until a wait overlaps another or ends without the lock, the event a thread
\* waits on is not freed under it, is not left behind after it, and wakes it
\* for a new write only.
THEOREM LoneWaitHolds == Spec => []LoneWaitSafe
<1>1. IInv => EventOutlivesWaiter
  <2> SUFFICES ASSUME IInv, clean, NEW x \in Waiters, pc[x] \in {"entered", "blocked"}
               PROVE  ref[w[x]] > 0
    BY DEF EventOutlivesWaiter
  <2>1. w[x] = node /\ node # NoNode
    BY DEF IInv, LoneWait, Entries
  <2> QED
    BY <2>1 DEF IInv, Entries
<1>2. IInv => NoEventLeak
  BY DEF IInv, LoneWait, NoEventLeak
<1>3. IInv => WokenByNewWrite
  BY DEF IInv, LoneWait, WokenByNewWrite
<1>4. IInv => LoneWaitSafe
  BY <1>1, <1>2, <1>3 DEF LoneWaitSafe
<1> QED
  BY <1>4, InvHolds, PTL

\* Until then a write signals the event of a thread that has entered wait(),
\* whether it blocks already or is still on its way to Wait().
THEOREM SetWakesLoneWaiterHolds == Spec => SetWakesLoneWaiter
<1>1. IInv /\ [Next]_vars => [clean => WakesAll]_vars
  <2> SUFFICES ASSUME IInv, Next, clean, version' # version,
                      NEW x \in Waiters, pc[x] \in {"entered", "blocked"}
               PROVE  signaled'[w[x]]
    BY DEF WakesAll
  <2>1. w[x] = node /\ node \in Nodes
    BY DEF IInv, TypeOK, LoneWait, Entries
  <2>2. SignalKey
    BY DEF Next, Write, Waiting, WaitEnter, WaitBlock, WaitFreed, WaitSignaled,
           WaitTimedOut, WaitLeave, WaitLockFails
  <2> QED
    BY <2>1, <2>2 DEF SignalKey
<1> QED
  BY <1>1, InvHolds, PTL DEF Spec, SetWakesLoneWaiter
=============================================================================
