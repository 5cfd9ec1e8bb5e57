----------------------- MODULE ThreadLifecycle_proofs -----------------------
(***************************************************************************)
(* Proofs about ThreadLifecycle, for any objects and any number of starts. *)
(*                                                                         *)
(* What the owner sees of a thread, the handle and its exit event, and the *)
(* place of the thread in ThreadProc never disagree (Linked).  That makes  *)
(* isRunning() mean what its callers take it for.                          *)
(***************************************************************************)
EXTENDS ThreadLifecycle, TLAPS

Labels == {"none", "born", "inc", "init", "inited", "do", "check", "again",
           "end", "dec", "decd", "over", "exited"}

\* The thread has not signaled its init event yet.
Early == {"born", "inc", "init", "inited"}

\* A handle is valid as long as there is a thread, and its exit event is
\* signaled exactly when the thread is over.
Linked ==
  \A o \in Objs :
    /\ valid[o] <=> tpc[o] # "none"
    /\ sync[o] <=> tpc[o] = "exited"

\* Destroyed objects, and stopped ones, have no handle; one that Stop() has
\* given up has.
Dropped ==
  \A o \in Objs :
    /\ o \in gone => ~valid[o]
    /\ opc = "idle" /\ result[1] = "stop" /\ result[2] = o => (result[3] = 0 <=> ~valid[o])

IInv == TypeOK /\ Linked /\ Dropped

-----------------------------------------------------------------------------
(* The invariant holds.                                                    *)

LEMMA InitInv == Init => IInv
<1> SUFFICES ASSUME Init PROVE IInv
  OBVIOUS
<1>1. TypeOK
  BY StartsAssumption DEF Init, TypeOK, MaxLate
<1>2. Linked
  BY DEF Init, Linked
<1>3. Dropped
  BY DEF Init, Dropped, NoResult
<1> QED
  BY <1>1, <1>2, <1>3 DEF IInv

\* A thread that has not exited moves on, and does not exit yet: the part of
\* the invariant that relates it to its owner is untouched.
LEMMA InsideStep ==
  ASSUME IInv, NEW o \in Objs,
         NEW from \in Labels \ {"none", "exited"}, NEW to \in Labels \ {"none", "exited"},
         Goto(o, from, to), UNCHANGED <<valid, sync, ownerVars>>
  PROVE  /\ tpc' \in [Objs -> Labels]
         /\ Linked'
         /\ Dropped'
<1>1. tpc[o] = from /\ tpc' = [tpc EXCEPT ![o] = to] /\ tpc \in [Objs -> Labels]
  BY DEF Goto, IInv, TypeOK, Labels
<1>2. Linked'
  BY <1>1 DEF IInv, Linked
<1>3. Dropped'
  BY DEF IInv, Dropped, ownerVars
<1> QED
  BY <1>1, <1>2, <1>3

\* The calls of DoThread that are counted stay in range.
LEMMA LateTyped ==
  ASSUME TypeOK, NEW o \in Objs, CallBegins(o)
  PROVE  late' \in [Objs -> 0 .. MaxLate]
BY DEF TypeOK, CallBegins, MaxLate

LEMMA ThreadInv == ASSUME IInv, NEW o \in Objs, ThreadProc(o) PROVE IInv'
<1> USE DEF objVars, ownerVars
<1>0. TypeOK
  BY DEF IInv
<1>1. CASE IncLoad(o)
  <2>1. tpc' \in [Objs -> Labels] /\ Linked' /\ Dropped'
    BY <1>1, InsideStep DEF IncLoad, Labels
  <2>2. TypeOK'
    BY <1>0, <1>1, <2>1 DEF IncLoad, TypeOK, Labels
  <2> QED
    BY <2>1, <2>2 DEF IInv
<1>2. CASE IncStore(o)
  <2>1. tpc' \in [Objs -> Labels] /\ Linked' /\ Dropped'
    BY <1>2, InsideStep DEF IncStore, Labels
  <2>2. TypeOK'
    BY <1>0, <1>2, <2>1 DEF IncStore, TypeOK, Labels
  <2> QED
    BY <2>1, <2>2 DEF IInv
<1>3. CASE InitThread(o)
  <2>1. tpc' \in [Objs -> Labels] /\ Linked' /\ Dropped'
    BY <1>3, InsideStep DEF InitThread, Labels
  <2>2. TypeOK'
    BY <1>0, <1>3, <2>1 DEF InitThread, TypeOK, Labels
  <2> QED
    BY <2>1, <2>2 DEF IInv
<1>4. CASE SignalInit(o)
  <2> DEFINE next == IF initStatus[o] THEN "do" ELSE "dec"
  <2>1. Goto(o, "inited", next) /\ next \in Labels \ {"none", "exited"}
    BY <1>4 DEF SignalInit, Labels
  <2>2. tpc' \in [Objs -> Labels] /\ Linked' /\ Dropped'
    <3> HIDE DEF next
    <3> QED
      BY <1>4, <2>1, InsideStep DEF SignalInit, Labels
  <2>3. late' \in [Objs -> 0 .. MaxLate]
    BY <1>0, <1>4, LateTyped DEF SignalInit, TypeOK
  <2>4. TypeOK'
    BY <1>0, <1>4, <2>2, <2>3 DEF SignalInit, TypeOK, Labels
  <2> QED
    BY <2>2, <2>4 DEF IInv
<1>e. CASE EndThread(o)
  <2>1. tpc' \in [Objs -> Labels] /\ Linked' /\ Dropped'
    BY <1>e, InsideStep DEF EndThread, Labels
  <2>2. initStatus' \in [Objs -> BOOLEAN]
    BY <1>0, <1>e DEF EndThread, TypeOK
  <2>3. TypeOK'
    BY <1>0, <1>e, <2>1, <2>2 DEF EndThread, TypeOK, Labels
  <2> QED
    BY <2>1, <2>3 DEF IInv
<1>5. CASE DoThread(o) \/ CheckStop(o) \/ SleepOver(o)
  <2>1. PICK from \in Labels \ {"none", "exited"}, to \in Labels \ {"none", "exited"} :
          Goto(o, from, to)
    BY <1>5 DEF DoThread, CheckStop, SleepOver, Labels
  <2>2. UNCHANGED <<objVars, sync, evInit, initStatus, reg, running, late, ownerVars>>
    BY <1>5 DEF DoThread, CheckStop, SleepOver
  <2>3. tpc' \in [Objs -> Labels] /\ Linked' /\ Dropped'
    BY <2>1, <2>2, InsideStep
  <2>4. TypeOK'
    BY <1>0, <2>2, <2>3 DEF TypeOK, Labels
  <2> QED
    BY <2>3, <2>4 DEF IInv
<1>6. CASE DoAgain(o)
  <2>1. tpc' \in [Objs -> Labels] /\ Linked' /\ Dropped'
    BY <1>6, InsideStep DEF DoAgain, Labels
  <2>2. late' \in [Objs -> 0 .. MaxLate]
    BY <1>0, <1>6, LateTyped DEF DoAgain
  <2>3. TypeOK'
    BY <1>0, <1>6, <2>1, <2>2 DEF DoAgain, TypeOK, Labels
  <2> QED
    BY <2>1, <2>3 DEF IInv
<1>7. CASE DecLoad(o)
  <2>1. tpc' \in [Objs -> Labels] /\ Linked' /\ Dropped'
    BY <1>7, InsideStep DEF DecLoad, Labels
  <2>2. TypeOK'
    BY <1>0, <1>7, <2>1 DEF DecLoad, TypeOK, Labels
  <2> QED
    BY <2>1, <2>2 DEF IInv
<1>8. CASE DecStore(o)
  <2>1. tpc' \in [Objs -> Labels] /\ Linked' /\ Dropped'
    BY <1>8, InsideStep DEF DecStore, Labels
  <2>2. running' \in Nat
    BY <1>0, <1>8 DEF DecStore, OneLess, TypeOK
  <2>3. TypeOK'
    BY <1>0, <1>8, <2>1, <2>2 DEF DecStore, TypeOK, Labels
  <2> QED
    BY <2>1, <2>3 DEF IInv
<1>9. CASE SignalSync(o)
  <2>1. /\ tpc[o] = "over" /\ tpc' = [tpc EXCEPT ![o] = "exited"]
        /\ sync' = [sync EXCEPT ![o] = TRUE]
    BY <1>9 DEF SignalSync, Goto
  <2>2. TypeOK'
    BY <1>0, <1>9, <2>1 DEF SignalSync, TypeOK
  <2>3. Linked'
    BY <1>0, <1>9, <2>1 DEF SignalSync, IInv, Linked, TypeOK
  <2>4. Dropped'
    BY <1>9 DEF SignalSync, IInv, Dropped
  <2> QED
    BY <2>2, <2>3, <2>4 DEF IInv
<1> QED
  BY <1>1, <1>2, <1>3, <1>4, <1>e, <1>5, <1>6, <1>7, <1>8, <1>9 DEF ThreadProc

\* Joining the thread of an object and dropping its handle.
LEMMA JoinedInv ==
  ASSUME IInv, NEW o \in Objs, Joined(o)
  PROVE  /\ ~valid'[o] /\ tpc'[o] = "none"
         /\ \A p \in Objs \ {o} : tpc'[p] = tpc[p] /\ valid'[p] = valid[p] /\ sync'[p] = sync[p]
         /\ Linked'
         /\ valid' \in [Objs -> BOOLEAN] /\ sync' \in [Objs -> BOOLEAN]
         /\ initStatus' \in [Objs -> BOOLEAN] /\ tpc' \in [Objs -> Labels]
BY DEF IInv, TypeOK, Linked, Joined, Labels

LEMMA OwnerInv == ASSUME IInv, Owner PROVE IInv'
<1> USE DEF objVars, threadVars
<1>0. TypeOK /\ Linked /\ Dropped
  BY DEF IInv
<1>1. CASE \E o \in Objs : StartRunning(o)
  <2>1. PICK o \in Objs : StartRunning(o)
    BY <1>1
  <2>2. TypeOK'
    BY <1>0, <2>1 DEF StartRunning, Return, TypeOK
  <2>3. Linked' /\ Dropped'
    BY <1>0, <2>1 DEF StartRunning, Return, Linked, Dropped
  <2> QED
    BY <2>2, <2>3 DEF IInv
<1>2. CASE \E o \in Objs : Start(o)
  <2>1. PICK o \in Objs : Start(o)
    BY <1>2
  <2>2. TypeOK'
    <3>1. /\ stopFlag' = [stopFlag EXCEPT ![o] = FALSE]
          /\ evStop' = [evStop EXCEPT ![o] = FALSE]
          /\ evInit' = [evInit EXCEPT ![o] = FALSE]
          /\ sync' = [sync EXCEPT ![o] = FALSE]
          /\ late' = [late EXCEPT ![o] = 0]
          /\ starts < MaxStarts /\ starts' = starts + 1
          /\ opc' \in {"idle", "nothread"} /\ obj' = o
          /\ UNCHANGED <<initStatus, reg, running, gone>>
      BY <2>1 DEF Start, Return, InitReset, NewSync
    <3>2. valid' \in [Objs -> BOOLEAN] /\ tpc' \in [Objs -> Labels]
      <4>1. /\ \E b \in BOOLEAN : valid' = [valid EXCEPT ![o] = b]
            /\ \E l \in Labels : tpc' = [tpc EXCEPT ![o] = l]
        BY <2>1 DEF Start, Labels
      <4> QED
        BY <1>0, <4>1 DEF TypeOK, Labels
    <3>3. starts' \in 0 .. MaxStarts
      BY <1>0, <3>1, StartsAssumption DEF TypeOK
    <3>4. late' \in [Objs -> 0 .. MaxLate]
      BY <1>0, <3>1 DEF TypeOK, MaxLate
    <3>5. /\ stopFlag' \in [Objs -> BOOLEAN] /\ evStop' \in [Objs -> BOOLEAN]
          /\ evInit' \in [Objs -> BOOLEAN] /\ sync' \in [Objs -> BOOLEAN]
      BY <1>0, <3>1 DEF TypeOK
    <3> QED
      BY <1>0, <3>1, <3>2, <3>3, <3>4, <3>5 DEF TypeOK, Labels
  <2>3. Linked'
    BY <1>0, <2>1 DEF Start, TypeOK, Linked, NewSync
  <2>4. Dropped'
    BY <1>0, <2>1 DEF Start, Return, TypeOK, Dropped
  <2> QED
    BY <2>2, <2>3, <2>4 DEF IInv
<1>3. CASE \E o \in Objs : BeginStop(o) \/ BeginDestroy(o)
  <2>1. PICK o \in Objs, to \in {"stop", "destroy"} : StopFlagSet(o, to)
    BY <1>3 DEF BeginStop, BeginDestroy
  <2>2. TypeOK'
    BY <1>0, <2>1 DEF StopFlagSet, TypeOK
  <2>3. Linked' /\ Dropped'
    BY <1>0, <2>1 DEF StopFlagSet, Linked, Dropped
  <2> QED
    BY <2>2, <2>3 DEF IInv
<1>4. CASE StopSignaled \/ DestroySignaled
  <2>1. PICK from \in {"stop", "destroy"}, to \in {"stopWait", "destroyWait"} :
          SignalStop(from, to)
    BY <1>4 DEF StopSignaled, DestroySignaled
  <2>2. TypeOK'
    BY <1>0, <2>1 DEF SignalStop, TypeOK
  <2>3. Linked' /\ Dropped'
    BY <1>0, <2>1 DEF SignalStop, Linked, Dropped
  <2> QED
    BY <2>2, <2>3 DEF IInv
<1>f. CASE StartFailed \/ Aborted
  <2>1. UNCHANGED <<valid, sync, stopFlag, evStop, evInit, initStatus, tpc, reg, running,
                    late, obj, starts, gone>>
    BY <1>f DEF StartFailed, Aborted
  <2>2. TypeOK'
    BY <1>0, <1>f, <2>1 DEF StartFailed, Aborted, Return, TypeOK
  <2>3. Linked' /\ Dropped'
    BY <1>0, <1>f, <2>1 DEF StartFailed, Aborted, Return, Linked, Dropped
  <2> QED
    BY <2>2, <2>3 DEF IInv
<1>5. CASE StopNoThread \/ StopTimedOut
  <2>1. TypeOK'
    BY <1>0, <1>5 DEF StopNoThread, StopTimedOut, Return, TypeOK
  <2>2. Linked'
    BY <1>0, <1>5 DEF StopNoThread, StopTimedOut, Linked
  <2>3. Dropped'
    BY <1>0, <1>5 DEF StopNoThread, StopTimedOut, Return, GaveUp, Dropped, WaitFails, isRunning
  <2> QED
    BY <2>1, <2>2, <2>3 DEF IInv
<1>6. CASE StopJoined
  <2>1. obj \in Objs /\ Joined(obj)
    BY <1>0, <1>6 DEF StopJoined, TypeOK
  <2>2. TypeOK'
    BY <1>0, <1>6, <2>1, JoinedInv DEF StopJoined, Joined, Return, TypeOK, Labels
  <2>3. Dropped'
    BY <1>0, <1>6, <2>1, JoinedInv DEF StopJoined, Return, Dropped
  <2> QED
    BY <2>1, <2>2, <2>3, JoinedInv DEF IInv
<1>7. CASE DestroyNoThread
  <2>1. TypeOK'
    BY <1>0, <1>7 DEF DestroyNoThread, Destroyed, Return, TypeOK
  <2>2. Linked' /\ Dropped'
    BY <1>0, <1>7 DEF DestroyNoThread, Destroyed, Return, Linked, Dropped
  <2> QED
    BY <2>1, <2>2 DEF IInv
<1>8. CASE DestroyJoined \/ DestroyCanceled
  <2>1. obj \in Objs /\ Joined(obj) /\ Destroyed
    BY <1>0, <1>8 DEF DestroyJoined, DestroyCanceled, TypeOK
  <2>2. TypeOK'
    BY <1>0, <2>1, JoinedInv DEF Destroyed, Joined, Return, TypeOK, Labels
  <2>3. Dropped'
    BY <1>0, <2>1, JoinedInv DEF Destroyed, Return, Dropped
  <2> QED
    BY <2>1, <2>2, <2>3, JoinedInv DEF IInv
<1> QED
  BY <1>1, <1>2, <1>3, <1>4, <1>f, <1>5, <1>6, <1>7, <1>8 DEF Owner

LEMMA NextInv == IInv /\ [Next]_vars => IInv'
<1> SUFFICES ASSUME IInv, [Next]_vars PROVE IInv'
  OBVIOUS
<1>1. CASE Owner
  BY <1>1, OwnerInv
<1>2. CASE \E o \in Objs : ThreadProc(o)
  BY <1>2, ThreadInv
<1>3. CASE UNCHANGED vars
  BY <1>3 DEF IInv, TypeOK, Linked, Dropped, vars
<1> QED
  BY <1>1, <1>2, <1>3 DEF Next

\* The handle, the exit event and the place of the thread always agree.
THEOREM InvHolds == Spec => []IInv
BY InitInv, NextInv, PTL DEF Spec

\* The state of the thread objects is well typed, and the count of running
\* threads never goes below zero, for any objects.
THEOREM TypeCorrect == Spec => []TypeOK
<1>1. IInv => TypeOK
  BY DEF IInv
<1> QED
  BY <1>1, InvHolds, PTL

\* An object that does not look like running has no thread that could still
\* touch it, so Start() may reset its events and replace its handle.
THEOREM NotRunningIsOverHolds == Spec => []NotRunningIsOver
<1>1. IInv => NotRunningIsOver
  BY DEF IInv, Linked, NotRunningIsOver, isRunning, Alive
<1> QED
  BY <1>1, InvHolds, PTL

\* What Stop() returns says whether the thread is gone, for any objects and
\* wherever the thread was when it was asked to stop; after the destructor
\* there is none.
THEOREM StopLeavesNoThreadHolds == Spec => []StopLeavesNoThread
<1>1. IInv => StopLeavesNoThread
  BY DEF IInv, Linked, Dropped, StopLeavesNoThread, Alive
<1> QED
  BY <1>1, InvHolds, PTL

-----------------------------------------------------------------------------
(* Thread objects implement the contract that the pool relies on.          *)

\* The phase of one object, case by case, before and after a step.
LEMMA PhaseNow ==
  ASSUME NEW o \in Objs
  PROVE  /\ o \in gone => phaseOf[o] = "gone"
         /\ o \notin gone /\ ~valid[o] => phaseOf[o] = "unborn"
         /\ o \notin gone /\ valid[o] /\ sync[o] => phaseOf[o] = "exited"
         /\ o \notin gone /\ valid[o] /\ ~sync[o] /\ tpc[o] \in Early => phaseOf[o] = "starting"
         /\ o \notin gone /\ valid[o] /\ ~sync[o] /\ tpc[o] \notin Early => phaseOf[o] = "running"
BY DEF phaseOf, Early

LEMMA PhaseNext ==
  ASSUME NEW o \in Objs
  PROVE  /\ o \in gone' => phaseOf'[o] = "gone"
         /\ o \notin gone' /\ ~valid'[o] => phaseOf'[o] = "unborn"
         /\ o \notin gone' /\ valid'[o] /\ sync'[o] => phaseOf'[o] = "exited"
         /\ o \notin gone' /\ valid'[o] /\ ~sync'[o] /\ tpc'[o] \in Early => phaseOf'[o] = "starting"
         /\ o \notin gone' /\ valid'[o] /\ ~sync'[o] /\ tpc'[o] \notin Early => phaseOf'[o] = "running"
BY DEF phaseOf, Early

\* The moves of the contract that thread objects make.
LEMMA ContractMoves ==
  /\ \A p \in Contract!Phases : p \in Contract!MayBecome(p) /\ "gone" \in Contract!MayBecome(p)
  /\ "starting" \in Contract!MayBecome("unborn")
  /\ "running" \in Contract!MayBecome("starting")
  /\ "exited" \in Contract!MayBecome("running")
  /\ {"unborn", "starting"} \subseteq Contract!MayBecome("exited")
BY DEF Contract!Phases, Contract!MayBecome

LEMMA PhaseTyped == ASSUME NEW o \in Objs PROVE phaseOf[o] \in Contract!Phases
BY PhaseNow DEF Contract!Phases

\* An object that a step leaves alone stays in its phase.
LEMMA PhaseSame ==
  ASSUME NEW o \in Objs, valid'[o] = valid[o], sync'[o] = sync[o], o \in gone' <=> o \in gone,
         tpc'[o] \in Early <=> tpc[o] \in Early
  PROVE  phaseOf'[o] \in Contract!MayBecome(phaseOf[o])
<1>1. phaseOf'[o] = phaseOf[o]
  BY PhaseNow, PhaseNext
<1> QED
  BY <1>1, PhaseTyped, ContractMoves

\* A thread only moves from starting to running to exited.
LEMMA ThreadMoves ==
  ASSUME IInv, NEW o \in Objs, ThreadProc(o), NEW p \in Objs
  PROVE  phaseOf'[p] \in Contract!MayBecome(phaseOf[p])
<1> USE DEF objVars, ownerVars
<1>0. TypeOK /\ Linked
  BY DEF IInv
<1>1. CASE \/ IncLoad(o) \/ IncStore(o) \/ InitThread(o) \/ DoThread(o) \/ CheckStop(o)
           \/ SleepOver(o) \/ DoAgain(o) \/ EndThread(o) \/ DecLoad(o) \/ DecStore(o)
  <2>1. PICK from \in Labels, to \in Labels :
          Goto(o, from, to) /\ (from \in Early <=> to \in Early)
    BY <1>1 DEF IncLoad, IncStore, InitThread, DoThread, CheckStop, SleepOver, DoAgain,
                EndThread, DecLoad, DecStore, Labels, Early
  <2>2. UNCHANGED <<valid, sync, gone>>
    BY <1>1 DEF IncLoad, IncStore, InitThread, DoThread, CheckStop, SleepOver, DoAgain,
                EndThread, DecLoad, DecStore
  <2>3. tpc'[p] \in Early <=> tpc[p] \in Early
    BY <1>0, <2>1 DEF Goto, TypeOK
  <2> QED
    BY <2>2, <2>3, PhaseSame
<1>2. CASE SignalInit(o)
  <2>1. /\ tpc[o] = "inited" /\ tpc' = [tpc EXCEPT ![o] = IF initStatus[o] THEN "do" ELSE "dec"]
        /\ UNCHANGED <<valid, sync, gone>>
    BY <1>2 DEF SignalInit, Goto
  <2>2. CASE p = o
    <3>1. tpc[p] \in Early /\ tpc'[p] \notin Early
      BY <1>0, <2>1, <2>2 DEF TypeOK, Early
    <3>2. valid[p] /\ ~sync[p]
      BY <1>0, <2>1, <2>2 DEF Linked
    <3>3. CASE p \in gone
      BY <2>1, <3>3, PhaseNow, PhaseNext, PhaseTyped, ContractMoves
    <3>4. CASE p \notin gone
      BY <2>1, <3>1, <3>2, <3>4, PhaseNow, PhaseNext, ContractMoves
    <3> QED
      BY <3>3, <3>4
  <2>3. CASE p # o
    <3>1. tpc'[p] = tpc[p]
      BY <1>0, <2>1, <2>3 DEF TypeOK
    <3> QED
      BY <2>1, <3>1, PhaseSame
  <2> QED
    BY <2>2, <2>3
<1>3. CASE SignalSync(o)
  <2>1. /\ tpc[o] = "over" /\ tpc' = [tpc EXCEPT ![o] = "exited"]
        /\ sync' = [sync EXCEPT ![o] = TRUE]
        /\ UNCHANGED <<valid, gone>>
    BY <1>3 DEF SignalSync, Goto
  <2>2. CASE p = o
    <3>1. tpc[p] \notin Early /\ valid[p] /\ ~sync[p] /\ sync'[p]
      BY <1>0, <2>1, <2>2 DEF TypeOK, Linked, Early
    <3>2. CASE p \in gone
      BY <2>1, <3>2, PhaseNow, PhaseNext, PhaseTyped, ContractMoves
    <3>3. CASE p \notin gone
      BY <2>1, <3>1, <3>3, PhaseNow, PhaseNext, ContractMoves
    <3> QED
      BY <3>2, <3>3
  <2>3. CASE p # o
    <3>1. tpc'[p] = tpc[p] /\ sync'[p] = sync[p]
      BY <1>0, <2>1, <2>3 DEF TypeOK
    <3> QED
      BY <2>1, <3>1, PhaseSame
  <2> QED
    BY <2>2, <2>3
<1> QED
  BY <1>1, <1>2, <1>3 DEF ThreadProc

\* The owner starts an object that has no thread, and drops or destroys it.
LEMMA OwnerMoves ==
  ASSUME IInv, Owner, NEW p \in Objs
  PROVE  phaseOf'[p] \in Contract!MayBecome(phaseOf[p])
<1> USE DEF objVars, threadVars
<1>0. TypeOK /\ Linked
  BY DEF IInv
<1>1. CASE \/ \E o \in Objs : StartRunning(o) \/ BeginStop(o) \/ BeginDestroy(o)
           \/ StartFailed \/ Aborted
           \/ StopSignaled \/ DestroySignaled \/ StopNoThread \/ StopTimedOut
  <2>1. UNCHANGED <<valid, sync, tpc, gone>>
    BY <1>1 DEF StartRunning, StartFailed, Aborted, BeginStop, BeginDestroy, StopFlagSet,
                StopSignaled, DestroySignaled, SignalStop, StopNoThread, StopTimedOut
  <2> QED
    BY <2>1, PhaseSame
<1>2. CASE \E o \in Objs : Start(o)
  <2>1. PICK o \in Objs : Start(o)
    BY <1>2
  <2>2. /\ o \notin gone /\ ~isRunning(o)
        /\ sync' = [sync EXCEPT ![o] = FALSE]
        /\ UNCHANGED gone
    BY <2>1 DEF Start, NewSync
  <2>3. \/ valid' = [valid EXCEPT ![o] = TRUE] /\ tpc' = [tpc EXCEPT ![o] = "born"]
        \/ valid' = [valid EXCEPT ![o] = FALSE] /\ tpc' = [tpc EXCEPT ![o] = "none"]
    BY <2>1 DEF Start
  <2>4. CASE p = o
    <3>1. phaseOf[p] \in {"unborn", "exited"}
      BY <2>2, <2>4, PhaseNow DEF isRunning
    <3>2. phaseOf'[p] \in {"unborn", "starting"}
      <4>1. ~sync'[p] /\ p \notin gone'
        BY <1>0, <2>2, <2>4 DEF TypeOK
      <4>2. ~valid'[p] \/ (valid'[p] /\ tpc'[p] \in Early)
        BY <1>0, <2>3, <2>4 DEF TypeOK, Early
      <4> QED
        BY <4>1, <4>2, PhaseNext
    <3>3. "unborn" \in Contract!MayBecome("unborn")
      BY DEF Contract!MayBecome
    <3> QED
      BY <3>1, <3>2, <3>3, ContractMoves
  <2>5. CASE p # o
    <3>1. valid'[p] = valid[p] /\ tpc'[p] = tpc[p] /\ sync'[p] = sync[p]
      BY <1>0, <2>2, <2>3, <2>5 DEF TypeOK
    <3> QED
      BY <2>2, <3>1, PhaseSame
  <2> QED
    BY <2>4, <2>5
<1>3. CASE StopJoined
  <2>1. obj \in Objs /\ valid[obj] /\ sync[obj] /\ Joined(obj) /\ gone' = gone
    BY <1>0, <1>3 DEF StopJoined, ThreadExited, TypeOK
  <2>2. CASE p = obj
    <3>1. CASE p \in gone
      BY <2>1, <3>1, PhaseNow, PhaseNext, PhaseTyped, ContractMoves
    <3>2. CASE p \notin gone
      BY <2>1, <2>2, <3>2, JoinedInv, PhaseNow, PhaseNext, ContractMoves
    <3> QED
      BY <3>1, <3>2
  <2>3. CASE p # obj
    BY <2>1, <2>3, JoinedInv, PhaseSame
  <2> QED
    BY <2>2, <2>3
<1>4. CASE DestroyNoThread \/ DestroyJoined \/ DestroyCanceled
  <2>1. obj \in Objs /\ gone' = gone \cup {obj}
    BY <1>0, <1>4 DEF DestroyNoThread, DestroyJoined, DestroyCanceled, Destroyed, TypeOK
  <2>2. Joined(obj) \/ UNCHANGED <<valid, sync, tpc>>
    BY <1>4 DEF DestroyNoThread, DestroyJoined, DestroyCanceled
  <2>3. CASE p = obj
    BY <2>1, <2>3, PhaseNext, PhaseTyped, ContractMoves
  <2>4. CASE p # obj
    <3>1. valid'[p] = valid[p] /\ tpc'[p] = tpc[p] /\ sync'[p] = sync[p]
      BY <2>1, <2>2, <2>4, JoinedInv
    <3> QED
      BY <2>1, <2>4, <3>1, PhaseSame
  <2> QED
    BY <2>3, <2>4
<1> QED
  BY <1>1, <1>2, <1>3, <1>4 DEF Owner

\* What the pool is shown to count on: an object gets a thread only when it
\* has none, is initialised before it runs, and never comes back.
THEOREM KeepsContractHolds == Spec => KeepsContract
<1>1. Init => Contract!Init
  <2> SUFFICES ASSUME Init PROVE phaseOf = [o \in Objs |-> "unborn"]
    BY DEF Contract!Init
  <2> QED
    BY DEF Init, phaseOf
<1>2. IInv /\ [Next]_vars => [Contract!Next]_phaseOf
  <2> SUFFICES ASSUME IInv, [Next]_vars PROVE [Contract!Next]_phaseOf
    OBVIOUS
  <2>1. CASE Owner
    BY <2>1, OwnerMoves DEF Contract!Next
  <2>2. CASE \E o \in Objs : ThreadProc(o)
    BY <2>2, ThreadMoves DEF Contract!Next
  <2>3. CASE UNCHANGED vars
    BY <2>3 DEF vars, phaseOf
  <2> QED
    BY <2>1, <2>2, <2>3 DEF Next
<1> QED
  BY <1>1, <1>2, InvHolds, PTL DEF Spec, KeepsContract, Contract!Spec

-----------------------------------------------------------------------------
(* The init event, and calls after a stop request.                         *)

\* Start() has cleared what the last thread left; the first call after a stop
\* request is the last, since the flag is looked at before the next one.
Fresh ==
  \A o \in Objs :
    /\ tpc[o] \in Early => ~evInit[o]
    /\ tpc[o] \in Early \cup {"again"} => late[o] = 0
    /\ ~stopFlag[o] => late[o] = 0
    /\ late[o] <= 1

LEMMA FreshThread == ASSUME IInv, Fresh, NEW o \in Objs, ThreadProc(o) PROVE Fresh'
<1> USE DEF objVars, ownerVars
<1>0. TypeOK
  BY DEF IInv
<1>1. CASE IncLoad(o) \/ IncStore(o) \/ InitThread(o)
  <2>1. tpc[o] \in Early /\ UNCHANGED <<evInit, late, stopFlag>>
    BY <1>1 DEF IncLoad, IncStore, InitThread, Goto, Early
  <2>2. \A p \in Objs : p # o => tpc'[p] = tpc[p]
    BY <1>0, <1>1 DEF IncLoad, IncStore, InitThread, Goto, TypeOK
  <2> QED
    BY <2>1, <2>2 DEF Fresh
<1>2. CASE SignalInit(o) \/ DoAgain(o)
  <2>1. tpc[o] \in {"inited", "again"} /\ late[o] = 0
    BY <1>2 DEF SignalInit, DoAgain, Goto, Fresh, Early
  <2>2. tpc'[o] \in {"do", "dec"} /\ \A p \in Objs : p # o => tpc'[p] = tpc[p]
    BY <1>0, <1>2 DEF SignalInit, DoAgain, Goto, TypeOK
  <2>3. late' = late \/ late' = [late EXCEPT ![o] = IF stopFlag[o] THEN 1 ELSE 0]
    BY <1>2, <2>1 DEF SignalInit, DoAgain, CallBegins, MaxLate
  <2>4. /\ late'[o] <= 1 /\ (~stopFlag[o] => late'[o] = 0)
        /\ \A p \in Objs : p # o => late'[p] = late[p]
    BY <1>0, <2>1, <2>3 DEF TypeOK, Fresh
  <2>5. stopFlag' = stopFlag /\ \A p \in Objs : p # o => evInit'[p] = evInit[p]
    BY <1>0, <1>2 DEF SignalInit, DoAgain, TypeOK
  <2> QED
    BY <2>2, <2>4, <2>5 DEF Fresh, Early
<1>3. CASE SleepOver(o)
  <2>1. ~stopFlag[o] /\ UNCHANGED <<evInit, late, stopFlag>>
    BY <1>3 DEF SleepOver, StopSeen
  <2>2. tpc'[o] = "again" /\ \A p \in Objs : p # o => tpc'[p] = tpc[p]
    BY <1>0, <1>3 DEF SleepOver, Goto, TypeOK
  <2> QED
    BY <2>1, <2>2 DEF Fresh, Early
<1>4. CASE \/ DoThread(o) \/ CheckStop(o) \/ EndThread(o) \/ DecLoad(o) \/ DecStore(o)
           \/ SignalSync(o)
  <2>1. UNCHANGED <<evInit, late, stopFlag>>
    BY <1>4 DEF DoThread, CheckStop, EndThread, DecLoad, DecStore, SignalSync
  <2>2. tpc'[o] \notin Early \cup {"again"} /\ \A p \in Objs : p # o => tpc'[p] = tpc[p]
    BY <1>0, <1>4 DEF DoThread, CheckStop, EndThread, DecLoad, DecStore, SignalSync,
                      Goto, TypeOK, Early
  <2> QED
    BY <2>1, <2>2 DEF Fresh
<1> QED
  BY <1>1, <1>2, <1>3, <1>4 DEF ThreadProc

LEMMA FreshOwner == ASSUME IInv, Fresh, Owner PROVE Fresh'
<1> USE DEF objVars, threadVars
<1>0. TypeOK
  BY DEF IInv
<1>1. CASE \E o \in Objs : Start(o)
  <2>1. PICK o \in Objs : Start(o)
    BY <1>1
  <2>2. evInit' = [evInit EXCEPT ![o] = FALSE] /\ late' = [late EXCEPT ![o] = 0]
    BY <2>1 DEF Start, InitReset
  <2>3. \A p \in Objs : p # o => tpc'[p] = tpc[p] /\ stopFlag'[p] = stopFlag[p]
    BY <1>0, <2>1 DEF Start, TypeOK
  <2> QED
    BY <1>0, <2>2, <2>3 DEF Fresh, TypeOK
<1>2. CASE \E o \in Objs : BeginStop(o) \/ BeginDestroy(o)
  <2>1. PICK o \in Objs : stopFlag' = [stopFlag EXCEPT ![o] = TRUE]
    BY <1>2 DEF BeginStop, BeginDestroy, StopFlagSet
  <2>2. UNCHANGED <<tpc, evInit, late>>
    BY <1>2 DEF BeginStop, BeginDestroy, StopFlagSet
  <2> QED
    BY <1>0, <2>1, <2>2 DEF Fresh, TypeOK
<1>3. CASE StopJoined \/ DestroyJoined \/ DestroyCanceled
  <2>1. tpc' = [tpc EXCEPT ![obj] = "none"] /\ UNCHANGED <<evInit, late, stopFlag>>
    BY <1>3 DEF StopJoined, DestroyJoined, DestroyCanceled, Joined
  <2> QED
    BY <1>0, <2>1 DEF Fresh, TypeOK, Early
<1>4. CASE \/ \E o \in Objs : StartRunning(o)
           \/ StartFailed \/ Aborted
           \/ StopSignaled \/ DestroySignaled \/ StopNoThread \/ StopTimedOut \/ DestroyNoThread
  <2>1. UNCHANGED <<tpc, evInit, late, stopFlag>>
    BY <1>4 DEF StartRunning, StartFailed, Aborted, StopSignaled, DestroySignaled, SignalStop, StopNoThread,
                StopTimedOut, DestroyNoThread
  <2> QED
    BY <2>1 DEF Fresh
<1> QED
  BY <1>1, <1>2, <1>3, <1>4 DEF Owner

\* What a start has cleared, and the call that may come late, for any objects.
THEOREM FreshHolds == Spec => []Fresh
<1>1. Init => Fresh
  BY DEF Init, Fresh, Early
<1>2. IInv /\ Fresh /\ [Next]_vars => Fresh'
  <2> SUFFICES ASSUME IInv, Fresh, [Next]_vars PROVE Fresh'
    OBVIOUS
  <2>1. CASE UNCHANGED vars
    BY <2>1 DEF Fresh, vars
  <2> QED
    BY <2>1, FreshThread, FreshOwner DEF Next
<1> QED
  BY <1>1, <1>2, InvHolds, PTL DEF Spec

\* Whoever has waited for the init event of a running thread reads the result
\* of that thread's InitThread, whatever an earlier thread has left.
THEOREM InitPublishedHolds == Spec => []InitPublished
<1>1. IInv /\ Fresh => InitPublished
  BY DEF IInv, Linked, Fresh, Early, InitPublished, isRunning
<1> QED
  BY <1>1, InvHolds, FreshHolds, PTL

\* After a stop request DoThread begins at most once more.
THEOREM AtMostOneLateCallHolds == Spec => []AtMostOneLateCall
<1>1. Fresh => AtMostOneLateCall
  BY DEF Fresh, AtMostOneLateCall
<1> QED
  BY <1>1, FreshHolds, PTL
=============================================================================
