--------------------------- MODULE TqSystem_proofs ---------------------------
(***************************************************************************)
(* tq::uninit, for any number of workers and ticks.                        *)
(*                                                                         *)
(* NoUseAfterDelete rests on who holds the property lock and on one fact   *)
(* about time: uninit waits for the lock only if it is orphaned (Calm).    *)
(*                                                                         *)
(* PoolOutlivesManager is an argument about time alone.  While uninit      *)
(* waits, time passes only if the worker that the manager waits for is at  *)
(* its own work or waits for the property lock in turn.  So what has       *)
(* passed of the wait is paid for by the ticks of work, by the calls that  *)
(* were made in vain, a time limit each, and by the call that is waiting   *)
(* (Paid).                                                                 *)
(***************************************************************************)
EXTENDS TqSystem, Integers, TLAPS

(* Who holds the lock: a writer, uninit, or a thread that was cancelled.   *)
OwnerOK ==
  /\ \A w \in Workers : wpc[w] = "write" => owner = w
  /\ owner \in Workers => wpc[owner] \in {"write", "gone"}
  /\ owner = Main <=> (main \in {"stop1", "stop2", "torn", "bag"})
  /\ owner # Manager
  /\ owner = Main => poolStop

(* A worker that the manager waits for was asked to stop and is still      *)
(* there; a manager that has exited has left nobody.                       *)
ManagerOK ==
  /\ MgrWaits => cur \in evStop /\ wpc[cur] # "gone"
  /\ mgr = "dead" => AllGone

(* What uninit has deleted, by where it is: it gets on only when the       *)
(* manager has exited or the lock is orphaned.                             *)
Deleted ==
  /\ pool = "deleted" \/ ~bag \/ main = "bag" => mgr = "dead"
  /\ ~lock => main = "done"
  /\ main \in {"dellock", "done"} => mgr = "dead" \/ Orphaned
  /\ pool = "torn" <=> (main = "torn")

(* uninit waits for the lock only if a cancelled thread has it: a writer   *)
(* never waits for anything.                                               *)
Calm == main = "lock" /\ timer[Main] < Limit => Orphaned

Safe == TypeOK /\ OwnerOK /\ ManagerOK /\ Deleted /\ Calm

-----------------------------------------------------------------------------
USE LimitAssumption, NamesAssumption
USE DEF Main, Manager, Nobody, MaxRefused

\* The three names stand for different things, none of them a worker.
LEMMA Apart ==
  /\ Main \notin Workers /\ Manager \notin Workers /\ Nobody \notin Workers
  /\ Main \in Threads /\ Manager \in Threads /\ Workers \subseteq Threads
  /\ 1 \in 0 .. Limit /\ Limit \in 0 .. Limit /\ 0 \in 0 .. Limit
BY DEF Threads

\* Initially.
LEMMA InitSafe == Init => Safe
<1> SUFFICES ASSUME Init PROVE Safe
  OBVIOUS
<1>1. TypeOK
  <2>1. timer \in [Threads -> 0 .. Limit]
    BY Apart DEF Init
  <2>2. wpc \in [Workers -> {"work", "lock", "write", "inpool", "exited", "gone"}]
    BY DEF Init
  <2>3. /\ evStop = {} /\ refused \in 0 .. MaxRefused /\ worked \in 0 .. MaxWorked
        /\ toStop = {} /\ poolStop = FALSE /\ mgr = "loop" /\ cur \in Workers
        /\ main = "run" /\ owner = Nobody /\ bag = TRUE /\ lock = TRUE /\ pool = "live"
    BY DEF Init, MaxWorked
  <2> QED BY <2>1, <2>2, <2>3 DEF TypeOK
<1>2. OwnerOK /\ ManagerOK /\ Deleted /\ Calm
  BY Apart DEF Init, OwnerOK, ManagerOK, Deleted, Calm, MgrWaits
<1> QED BY <1>1, <1>2 DEF Safe

\* Setting one timer keeps the timers typed and the other timers as they are.
LEMMA TimerSet ==
  ASSUME TypeOK, NEW t \in Threads, NEW n \in 0 .. Limit,
         timer' = [timer EXCEPT ![t] = n]
  PROVE  /\ timer' \in [Threads -> 0 .. Limit]
         /\ timer'[t] = n
         /\ \A u \in Threads : u # t => timer'[u] = timer[u]
BY DEF TypeOK

\* Moving one worker keeps the others where they are.
LEMMA WorkerMoves ==
  ASSUME TypeOK, NEW w \in Workers, NEW l \in {"work", "lock", "write", "inpool", "exited", "gone"},
         wpc' = [wpc EXCEPT ![w] = l]
  PROVE  /\ wpc' \in [Workers -> {"work", "lock", "write", "inpool", "exited", "gone"}]
         /\ wpc'[w] = l
         /\ \A u \in Workers : u # w => wpc'[u] = wpc[u]
BY DEF TypeOK

Places == {"work", "lock", "write", "inpool", "exited", "gone"}

\* A worker that goes elsewhere, takes the lock to write and gives it back,
\* leaves everything that uninit and the manager rely on as it was.
LEMMA MoveSafe ==
  ASSUME Safe, NEW w \in Workers, NEW l \in Places \ {"gone"},
         Alive(w), wpc' = [wpc EXCEPT ![w] = l],
         \/ owner' = owner /\ l # "write" /\ wpc[w] # "write"
         \/ owner = Nobody /\ owner' = w /\ l = "write"
         \/ wpc[w] = "write" /\ owner' = Nobody /\ l = "work",
         UNCHANGED <<evStop, worked, poolVars, main, globals>>,
         refused' \in 0 .. MaxRefused,
         timer' \in [Threads -> 0 .. Limit], timer'[Main] = timer[Main]
  PROVE  Safe'
<1> USE DEF poolVars, globals
<1>1. /\ wpc' \in [Workers -> Places]
      /\ wpc'[w] = l
      /\ \A u \in Workers : u # w => wpc'[u] = wpc[u]
  BY WorkerMoves DEF Safe, Places
<1>2. owner' \in Threads \cup {Nobody}
  BY Apart DEF Safe, TypeOK
<1>3. TypeOK'
  BY <1>1, <1>2 DEF Safe, TypeOK, Places
<1>4. OwnerOK'
  BY <1>1, Apart DEF Safe, OwnerOK, Alive
<1>5. mgr # "dead"
  BY DEF Safe, ManagerOK, AllGone, Alive
<1>6. ManagerOK'
  BY <1>1, <1>5 DEF Safe, ManagerOK, MgrWaits
<1>7. Orphaned => Orphaned'
  BY <1>1, Apart DEF Safe, OwnerOK, Orphaned, Alive
<1>8. Deleted' /\ Calm'
  BY <1>5, <1>7 DEF Safe, Deleted, Calm
<1> QED BY <1>3, <1>4, <1>6, <1>8 DEF Safe

\* The steps of a worker.
WorkerStep(w) == UrgentWorker(w) \/ BeginSet(w) \/ BeginStart(w) \/ Leave(w)

\* The count of calls made in vain is typed.
LEMMA InVainTyped ==
  ASSUME TypeOK, NEW w, InVain(w)
  PROVE  refused' \in 0 .. MaxRefused
BY DEF TypeOK, InVain

\* Every step of a worker keeps the invariant.
LEMMA WorkerSafe ==
  ASSUME Safe, NEW w \in Workers, WorkerStep(w)
  PROVE  Safe'
<1> USE DEF Places, Alive, WorkerGoto, poolVars, globals
<1>t. /\ TypeOK /\ w \in Threads /\ w # Main
      /\ \A n \in 0 .. Limit : timer' = [timer EXCEPT ![w] = n] =>
           timer' \in [Threads -> 0 .. Limit] /\ timer'[Main] = timer[Main]
  BY Apart, TimerSet DEF Safe
<1>u. /\ refused \in 0 .. MaxRefused
      /\ timer \in [Threads -> 0 .. Limit] /\ wpc \in [Workers -> Places]
  BY <1>t DEF TypeOK
<1>1. CASE BeginSet(w)
  <2>1. timer' \in [Threads -> 0 .. Limit] /\ timer'[Main] = timer[Main]
    BY <1>1, <1>t, Apart DEF BeginSet, Set
  <2> QED BY <1>1, <2>1, <1>u, MoveSafe DEF BeginSet
<1>2. CASE Leave(w)
  BY <1>2, <1>u, MoveSafe DEF Leave
<1>3. CASE SetLocked(w)
  BY <1>3, <1>u, MoveSafe DEF SetLocked
<1>4. CASE SetDone(w)
  <2>1. timer' \in [Threads -> 0 .. Limit] /\ timer'[Main] = timer[Main]
    BY <1>4, <1>t, Apart DEF SetDone, WorkOn
  <2> QED BY <1>4, <2>1, <1>u, MoveSafe DEF SetDone
<1>5. CASE SetTimedOut(w)
  <2>1. timer' \in [Threads -> 0 .. Limit] /\ timer'[Main] = timer[Main]
    BY <1>5, <1>t, Apart DEF SetTimedOut, WorkOn
  <2>2. refused' \in 0 .. MaxRefused
    BY <1>5, <1>t, InVainTyped DEF SetTimedOut
  <2> QED BY <1>5, <2>1, <2>2, <1>u, MoveSafe DEF SetTimedOut
<1>6. CASE BeginStart(w)
  BY <1>6, <1>u, MoveSafe DEF BeginStart
<1>7. CASE StartDone(w)
  <2>1. timer' \in [Threads -> 0 .. Limit] /\ timer'[Main] = timer[Main]
    BY <1>7, <1>t, Apart DEF StartDone, WorkOn
  <2> QED BY <1>7, <2>1, <1>u, MoveSafe DEF StartDone
<1> QED BY <1>1, <1>2, <1>3, <1>4, <1>5, <1>6, <1>7 DEF UrgentWorker, WorkerStep

\* A worker that has ended or is cancelled, and an owner of the lock that
\* stays dead: what the manager does when it is done with a worker.
LEMMA GoneSafe ==
  ASSUME Safe, MgrWaits, wpc' = [wpc EXCEPT ![cur] = "gone"], mgr' = MgrNext,
         refused' \in 0 .. MaxRefused,
         UNCHANGED <<evStop, worked, toStop, poolStop, cur, main, owner, timer, globals>>
  PROVE  Safe'
<1> USE DEF globals, MgrWaits, MgrNext
<1>1. /\ wpc' \in [Workers -> Places] /\ cur \in Workers
      /\ wpc'[cur] = "gone"
      /\ \A u \in Workers : u # cur => wpc'[u] = wpc[u]
  BY WorkerMoves DEF Safe, TypeOK, Places
<1>2. TypeOK'
  BY <1>1 DEF Safe, TypeOK, Places
<1>3. OwnerOK'
  BY <1>1, Apart DEF Safe, OwnerOK
<1>4. ManagerOK'
  BY <1>1 DEF Safe, ManagerOK, AllGone
<1>5. Orphaned => Orphaned'
  BY <1>1 DEF Orphaned, Alive
<1>6. Deleted' /\ Calm'
  BY <1>5 DEF Safe, Deleted, Calm
<1> QED BY <1>2, <1>3, <1>4, <1>6 DEF Safe

\* Every step of the manager keeps the invariant.
LEMMA ManagerSafe == Safe /\ ManagerStep => Safe'
<1> SUFFICES ASSUME Safe, ManagerStep PROVE Safe'
  OBVIOUS
<1> USE DEF workerVars, globals
<1>t. TypeOK /\ OwnerOK /\ ManagerOK /\ Deleted /\ Calm
  BY DEF Safe
<1>1. ASSUME NEW w \in Workers, MgrStop(w) \/ MgrEndWorker(w) PROVE Safe'
  <2>1. CASE wpc[w] # "gone"
    <3>1. /\ evStop' = evStop \cup {w} /\ cur' = w /\ mgr' = "stop1" /\ mgr # "dead"
          /\ timer' = [timer EXCEPT ![Manager] = Limit]
          /\ UNCHANGED <<wpc, refused, worked, poolStop, main, owner, globals>>
          /\ toStop' \in SUBSET Workers
      BY <1>1, <1>t, <2>1 DEF MgrStop, MgrEndWorker, AskToStop, Set, TypeOK
    <3>2. timer' \in [Threads -> 0 .. Limit] /\ timer'[Main] = timer[Main]
      BY <3>1, <1>t, TimerSet, Apart
    <3> QED BY <1>t, <2>1, <3>1, <3>2 DEF Safe, TypeOK, OwnerOK, ManagerOK, Deleted, Calm,
               MgrWaits, AllGone, Orphaned, Alive
  <2>2. CASE wpc[w] = "gone"
    <3>1. /\ UNCHANGED <<evStop, cur, mgr, timer, wpc, refused, worked, poolStop, main, owner, globals>>
          /\ toStop' \in SUBSET Workers
      BY <1>1, <1>t, <2>2 DEF MgrStop, MgrEndWorker, TypeOK
    <3> QED BY <1>t, <3>1 DEF Safe, TypeOK, OwnerOK, ManagerOK, Deleted, Calm,
               MgrWaits, AllGone, Orphaned, Alive
  <2> QED BY <2>1, <2>2
<1>2. CASE MgrEnd \/ MgrExit
  BY <1>2, <1>t DEF MgrEnd, MgrExit, Safe, TypeOK, OwnerOK, ManagerOK, Deleted, Calm,
     MgrWaits, AllGone, Orphaned, Alive
<1>3. CASE MgrJoined
  BY <1>3, <1>t, GoneSafe DEF MgrJoined, TypeOK
<1>4. CASE MgrWaitsOn
  <2>1. timer' \in [Threads -> 0 .. Limit] /\ timer'[Main] = timer[Main]
    BY <1>4, <1>t, TimerSet, Apart DEF MgrWaitsOn, Set
  <2> QED BY <1>4, <1>t, <2>1 DEF MgrWaitsOn, Safe, TypeOK, OwnerOK, ManagerOK, Deleted, Calm,
             MgrWaits, AllGone, Orphaned, Alive, poolVars
<1>5. CASE MgrCancels
  <2>1. refused' \in 0 .. MaxRefused
    BY <1>5, <1>t, InVainTyped DEF MgrCancels, TypeOK
  <2> QED BY <1>5, <2>1, GoneSafe DEF MgrCancels, MgrWaits
<1> QED BY <1>1, <1>2, <1>3, <1>4, <1>5 DEF ManagerStep

\* Every step of the main thread keeps the invariant.  uninit goes on without
\* the lock only when it has waited, that is (Calm) when the lock is orphaned.
LEMMA MainSafe ==
  ASSUME Safe, MainStep \/ Uninit \/ \E w \in Workers : StopWorker(w)
  PROVE  Safe'
<1> USE DEF workerVars, poolVars, globals, MainGoto
<1>t. TypeOK /\ OwnerOK /\ ManagerOK /\ Deleted /\ Calm
  BY DEF Safe
<1>s. Set(Main) => timer' \in [Threads -> 0 .. Limit] /\ timer'[Main] = Limit
  BY <1>t, TimerSet, Apart DEF Set
<1>1. CASE \E w \in Workers : StopWorker(w)
  <2>1. PICK w \in Workers : StopWorker(w)
    BY <1>1
  <2> QED BY <1>t, <2>1 DEF StopWorker, Safe, TypeOK, OwnerOK, ManagerOK, Deleted, Calm,
             MgrWaits, AllGone, Orphaned, Alive
<1>2. CASE Uninit
  BY <1>2, <1>t, <1>s DEF Uninit, Safe, TypeOK, OwnerOK, ManagerOK, Deleted, Calm,
     MgrWaits, AllGone, Orphaned, Alive
<1>3. CASE UninitLocked
  BY <1>3, <1>t, <1>s, Apart DEF UninitLocked, Safe, TypeOK, OwnerOK, ManagerOK, Deleted, Calm,
     MgrWaits, AllGone, Orphaned, Alive
<1>4. CASE UninitNotLocked
  <2>1. Orphaned
    BY <1>4, <1>t DEF UninitNotLocked, LockTimedOut, Calm
  <2> QED BY <1>4, <2>1, <1>t DEF UninitNotLocked, Safe, TypeOK, OwnerOK, ManagerOK, Deleted, Calm,
             MgrWaits, AllGone, Orphaned, Alive
<1>5. CASE PoolStopped
  BY <1>5, <1>t DEF PoolStopped, MainWaits, Safe, TypeOK, OwnerOK, ManagerOK, Deleted, Calm,
     MgrWaits, AllGone, Orphaned, Alive
<1>6. CASE StopAgain
  BY <1>6, <1>t, <1>s DEF StopAgain, Safe, TypeOK, OwnerOK, ManagerOK, Deleted, Calm,
     MgrWaits, AllGone, Orphaned, Alive
<1>7. CASE DestroyPool
  BY <1>7, <1>t DEF DestroyPool, LastWait, Safe, TypeOK, OwnerOK, ManagerOK, Deleted, Calm,
     MgrWaits, AllGone, Orphaned, Alive
<1>8. CASE DeleteBag \/ DeleteLock
  BY <1>8, <1>t, Apart DEF DeleteBag, DeleteLock, Safe, TypeOK, OwnerOK, ManagerOK, Deleted, Calm,
     MgrWaits, AllGone, Orphaned, Alive
<1> QED BY <1>1, <1>2, <1>3, <1>4, <1>5, <1>6, <1>7, <1>8 DEF MainStep

\* Time takes one tick from every timer that runs.
LEMMA TickTimers ==
  ASSUME TypeOK, Tick
  PROVE  /\ timer' \in [Threads -> 0 .. Limit]
         /\ \A t \in Threads : timer'[t] = IF timer[t] > 0 THEN timer[t] - 1 ELSE 0
         /\ worked' \in 0 .. MaxWorked
BY DEF TypeOK, Tick, MaxWorked

\* Time keeps the invariant: no writer is there while it passes, so if uninit
\* waits for the lock, a dead thread has it.
LEMMA TickSafe == Safe /\ Tick => Safe'
<1> SUFFICES ASSUME Safe, Tick PROVE Safe'
  OBVIOUS
<1>t. TypeOK /\ OwnerOK /\ ManagerOK /\ Deleted /\ Calm
  BY DEF Safe
<1>1. timer' \in [Threads -> 0 .. Limit] /\ worked' \in 0 .. MaxWorked
  BY <1>t, TickTimers
<1>2. UNCHANGED <<evStop, wpc, refused, poolVars, main, owner, globals>>
  BY DEF Tick
<1>3. main = "lock" => Orphaned
  <2> SUFFICES ASSUME main = "lock" PROVE Orphaned
    OBVIOUS
  <2>1. owner # Nobody
    BY DEF Tick, AllIdle, MainIdle, MainWaits
  <2>2. owner \in Workers
    BY <1>t, <2>1 DEF TypeOK, OwnerOK, Threads
  <2>3. wpc[owner] # "write"
    BY <2>2 DEF Tick, AllIdle, WorkerIdle, Alive
  <2> QED BY <1>t, <2>2, <2>3 DEF OwnerOK, Orphaned, Alive
<1> QED BY <1>t, <1>1, <1>2, <1>3 DEF Safe, TypeOK, OwnerOK, ManagerOK, Deleted, Calm,
           MgrWaits, AllGone, Orphaned, Alive, poolVars, globals

\* Every step keeps the invariant.
LEMMA NextSafe == Safe /\ [Next]_vars => Safe'
<1> SUFFICES ASSUME Safe, [Next]_vars PROVE Safe'
  OBVIOUS
<1>1. CASE UNCHANGED vars
  BY <1>1 DEF vars, Safe, TypeOK, OwnerOK, ManagerOK, Deleted, Calm,
     MgrWaits, AllGone, Orphaned, Alive
<1>2. CASE Next
  BY <1>2, WorkerSafe, ManagerSafe, MainSafe, TickSafe DEF Next, Urgent, Free, WorkerStep
<1> QED BY <1>1, <1>2

\* The strengthened invariant.
THEOREM SafeHolds == Spec => []Safe
BY InitSafe, NextSafe, PTL DEF Spec

\* Whatever functions do, whenever they are stopped and however time passes:
\* the values are typed, and timers stay within the limit.
THEOREM TypeCorrect == Spec => []TypeOK
<1>1. Safe => TypeOK
  BY DEF Safe
<1> QED BY <1>1, SafeHolds, PTL

\* What uninit deletes is not in use: no worker is inside the pool, the bag or
\* the lock once they are gone, unless a cancelled thread has orphaned the lock.
THEOREM NoUseAfterDeleteHolds == Spec => []NoUseAfterDelete
<1>1. Safe => NoUseAfterDelete
  BY DEF Safe, Deleted, ManagerOK, AllGone, NoUseAfterDelete
<1> QED BY <1>1, SafeHolds, PTL

-----------------------------------------------------------------------------
(* Who pays for the time that uninit waits.                                *)

\* The time that has passed since Stop() of the pool was called first.
Passed == (IF main = "stop2" THEN Limit ELSE 0) + Limit - timer[Main]

\* A call made in vain has taken a time limit, and the call that the worker of
\* the manager is in has taken some of it.
Refusals == IF refused = 0 THEN 0 ELSE Limit
Waited   == IF MgrWaits /\ wpc[cur] = "lock" THEN Limit - timer[cur] ELSE 0

(* All that passes is paid for, until the counts are at their bounds.      *)
Paid ==
  MainWaits /\ refused < 2 /\ worked < MaxWorked => Passed <= worked + Refusals + Waited

Time == Paid /\ PoolOutlivesManager

\* The account is about times up to a limit, or two.
LEMMA Ranges ==
  ASSUME TypeOK
  PROVE  /\ \A t \in Threads : timer[t] \in 0 .. Limit
         /\ cur \in Workers /\ cur \in Threads /\ cur # Main /\ cur # Manager
         /\ Refusals \in 0 .. Limit /\ Waited \in 0 .. Limit
         /\ worked \in 0 .. MaxWorked /\ MaxWorked = Limit + Limit
         /\ refused \in {0, 1, 2} /\ Passed \in Int
<1>1. \A t \in Threads : timer[t] \in 0 .. Limit
  BY DEF TypeOK
<1>2. cur \in Workers /\ cur \in Threads /\ cur # Main /\ cur # Manager
  BY Apart DEF TypeOK
<1>3. Refusals \in 0 .. Limit
  BY Apart DEF Refusals
<1>4. Waited \in 0 .. Limit
  BY <1>1, <1>2, Apart DEF Waited
<1>5. worked \in 0 .. MaxWorked /\ MaxWorked = Limit + Limit
  BY DEF TypeOK, MaxWorked
<1>6. refused \in {0, 1, 2}
  BY DEF TypeOK
<1>7. Passed \in Int
  BY <1>1, Apart DEF Passed
<1> QED BY ONLY <1>1, <1>2, <1>3, <1>4, <1>5, <1>6, <1>7

\* Initially.
LEMMA InitTime == Init => Time
BY DEF Init, Time, Paid, PoolOutlivesManager, MainWaits

\* A step that takes no time keeps the account if what is paid does not shrink.
LEMMA PaidOn ==
  ASSUME Paid, TypeOK, TypeOK', worked' = worked, refused' >= refused,
         UNCHANGED <<main, timer[Main]>>,
         refused' < 2 => Refusals + Waited <= Refusals' + Waited'
  PROVE  Paid'
<1> SUFFICES ASSUME MainWaits', refused' < 2, worked' < MaxWorked'
             PROVE  Passed' <= worked' + Refusals' + Waited'
  BY DEF Paid
<1>1. MainWaits /\ refused < 2 /\ worked < MaxWorked /\ Passed' = Passed
  BY Ranges DEF MainWaits, MaxWorked, Passed, TypeOK
<1>2. Passed <= worked + Refusals + Waited
  BY <1>1 DEF Paid
<1>3. /\ Refusals \in Int /\ Waited \in Int /\ worked \in Int /\ Passed \in Int
  BY Ranges
<1>4. Refusals' \in Int /\ Waited' \in Int
  <2>1. timer'[cur'] \in 0 .. Limit
    BY Apart DEF TypeOK
  <2> QED BY <2>1 DEF Refusals, Waited
<1>5. \A d, e, a, b, c, f \in Int : d <= e + a + b /\ a + b <= c + f => d <= e + c + f
  OBVIOUS
<1> QED BY <1>1, <1>2, <1>3, <1>4, <1>5

\* A worker that goes elsewhere: a call that begins has its limit before it,
\* and one that is made in vain has used it up.
LEMMA WorkerTime ==
  ASSUME Safe, Safe', Time, NEW w \in Workers, WorkerStep(w)
  PROVE  Time'
<1> USE DEF WorkerGoto, poolVars, globals, Set, WorkOn
<1>t. TypeOK /\ OwnerOK /\ Deleted /\ TypeOK' /\ w \in Threads
  BY Apart DEF Safe
<1>u. \A n \in 0 .. Limit : timer' = [timer EXCEPT ![w] = n] =>
        timer'[w] = n /\ \A t \in Threads : t # w => timer'[t] = timer[t]
  BY <1>t, TimerSet
<1>1. /\ UNCHANGED <<mgr, cur, main, pool, worked>> /\ MgrWaits' = MgrWaits
      /\ \A u \in Workers : u # w => wpc'[u] = wpc[u]
      /\ \A t \in Threads : t # w => timer'[t] = timer[t]
      /\ timer'[Main] = timer[Main]
  <2>1. \A t \in Threads : t # w => timer'[t] = timer[t]
    BY <1>u, Apart DEF WorkerStep, UrgentWorker, BeginSet, Leave, SetLocked, SetDone,
       SetTimedOut, BeginStart, StartDone
  <2> QED BY <2>1, <1>t, Apart DEF WorkerStep, UrgentWorker, BeginSet, Leave, SetLocked, SetDone,
             SetTimedOut, BeginStart, StartDone, MgrWaits, TypeOK
<1>2. CASE ~SetTimedOut(w) /\ ~SetLocked(w)
  <2>1. /\ refused' = refused /\ wpc[w] # "lock"
        /\ wpc'[w] = "lock" => timer'[w] = Limit
    BY <1>2, <1>t, <1>u, Apart DEF WorkerStep, UrgentWorker, BeginSet, Leave, SetDone,
       BeginStart, StartDone, TypeOK
  <2>2. Refusals' = Refusals /\ Waited' = Waited
    BY <2>1, <1>1, <1>t, Apart DEF Refusals, Waited, TypeOK
  <2>3. Paid'
    BY <1>1, <1>t, <2>1, <2>2, PaidOn, Ranges DEF Time
  <2>4. PoolOutlivesManager'
    BY <1>1, <1>t, <2>1, Ranges DEF Time, PoolOutlivesManager
  <2> QED BY <2>3, <2>4 DEF Time
<1>3. CASE SetLocked(w)
  <2>1. ~MainWaits' /\ pool' # "torn"
    BY <1>3, <1>t, <1>1 DEF SetLocked, OwnerOK, Deleted, MainWaits
  <2> QED BY <2>1 DEF Time, Paid, PoolOutlivesManager
<1>4. CASE SetTimedOut(w)
  <2>1. /\ wpc[w] = "lock" /\ wpc'[w] = "work" /\ InVain(w) /\ owner' = owner
    BY <1>4, <1>t DEF SetTimedOut, TypeOK
  <2>2. CASE ~(MgrWaits /\ cur = w)
    <3>1. refused' = refused
      BY <2>1, <2>2 DEF InVain
    <3>2. Refusals' = Refusals /\ Waited' = Waited
      BY <3>1, <2>2, <1>1, <1>t, Ranges, Apart DEF Refusals, Waited
    <3>3. MgrWaits /\ wpc[cur] = "lock" <=> (MgrWaits /\ wpc[cur] = "lock")'
      BY <2>2, <1>1, <1>t, Ranges
    <3> QED BY <1>1, <1>t, <3>1, <3>2, <3>3, PaidOn, Ranges DEF Time, PoolOutlivesManager
  <2>3. CASE MgrWaits /\ cur = w /\ owner = Main
    <3>1. /\ refused' = IF refused < 2 THEN refused + 1 ELSE refused
          /\ wpc'[cur'] # "lock"
      BY <1>1, <2>1, <2>3 DEF InVain
    <3>2. PoolOutlivesManager'
      BY <3>1, <1>1, <1>t, <2>1, <2>3, Ranges DEF Time, PoolOutlivesManager
    <3>3. refused' < 2 => Refusals + Waited <= Refusals' + Waited'
      BY <3>1, <1>t, Ranges DEF Refusals, Waited
    <3> QED BY <1>1, <1>t, <3>1, <3>2, <3>3, PaidOn, Ranges DEF Time
  <2>4. CASE owner # Main
    BY <2>4, <1>t, <1>1 DEF OwnerOK, Deleted, MainWaits, Time, Paid, PoolOutlivesManager
  <2> QED BY <2>2, <2>3, <2>4
<1> QED BY <1>2, <1>3, <1>4

\* Every step of the manager keeps the account: a call that it cuts off counts
\* as one made in vain.
LEMMA ManagerTime == Safe /\ Safe' /\ Time /\ ManagerStep => Time'
<1> SUFFICES ASSUME Safe, Safe', Time, ManagerStep PROVE Time'
  OBVIOUS
<1> USE DEF workerVars, poolVars, globals
<1>t. TypeOK /\ OwnerOK /\ Deleted /\ TypeOK'
  BY DEF Safe
<1>1. ASSUME NEW w \in Workers, MgrStop(w) \/ MgrEndWorker(w), wpc[w] # "gone"
      PROVE  Time'
  <2>1. /\ mgr \in {"loop", "end"} /\ ~MgrWaits
        /\ timer' = [timer EXCEPT ![Manager] = Limit]
        /\ UNCHANGED <<wpc, refused, worked, main, owner, pool>>
    BY <1>1 DEF MgrStop, MgrEndWorker, AskToStop, Set, MgrWaits
  <2>2. timer'[Main] = timer[Main]
    BY <2>1, <1>t, TimerSet, Apart
  <2>3. Refusals' = Refusals /\ Waited = 0
    BY <2>1 DEF Refusals, Waited
  <2>4. Waited' \in 0 .. Limit
    <3>1. timer'[cur'] \in 0 .. Limit
      BY <1>t, Apart DEF TypeOK
    <3> QED BY <3>1, Apart DEF Waited
  <2>5. Paid'
    BY <2>1, <2>2, <2>3, <2>4, <1>t, PaidOn, Ranges DEF Time
  <2> QED BY <2>1, <2>5, <1>t, Ranges DEF Time, PoolOutlivesManager
<1>2. ASSUME UNCHANGED <<wpc, refused, worked, cur, main, owner, timer, pool>>,
             mgr' = mgr \/ (mgr \in {"loop", "end"} /\ mgr' \in {"end", "dead"})
      PROVE  Time'
  <2>1. MgrWaits' = MgrWaits /\ MainWaits' = MainWaits /\ Passed' = Passed
    BY <1>2 DEF MgrWaits, MainWaits, Passed
  <2>2. Refusals' = Refusals /\ Waited' = Waited
    BY <1>2, <2>1 DEF Refusals, Waited
  <2> QED BY <1>2, <2>1, <2>2 DEF Time, Paid, PoolOutlivesManager, MaxWorked
<1>3. CASE MgrJoined
  <2>1. wpc'[cur] = "gone" /\ cur' = cur
    BY <1>3, <1>t DEF MgrJoined, TypeOK
  <2>2. /\ Waited' = Waited /\ Refusals' = Refusals
        /\ UNCHANGED <<refused, worked, main, timer, pool>>
    BY <1>3, <2>1 DEF MgrJoined, Waited, Refusals
  <2> QED BY <2>1, <2>2, <1>3, <1>t, PaidOn, Ranges DEF Time, PoolOutlivesManager, MgrJoined
<1>4. CASE MgrWaitsOn
  <2>1. /\ MgrWaits /\ MgrWaits'
        /\ timer' = [timer EXCEPT ![Manager] = Limit]
        /\ UNCHANGED <<wpc, refused, worked, cur, main, owner, pool>>
    BY <1>4 DEF MgrWaitsOn, MgrWaits, Set
  <2>2. \A t \in Threads : t # Manager => timer'[t] = timer[t]
    BY <2>1, <1>t, TimerSet, Apart
  <2>3. timer'[Main] = timer[Main] /\ Refusals' = Refusals /\ Waited' = Waited
    BY <2>1, <2>2, <1>t, Ranges, Apart DEF Refusals, Waited
  <2> QED BY <2>1, <2>3, <1>t, PaidOn, Ranges DEF Time, PoolOutlivesManager
<1>5. CASE MgrCancels
  <2>1. /\ wpc'[cur] = "gone" /\ cur' = cur /\ MgrWaits /\ Waited' = 0
        /\ UNCHANGED <<worked, main, owner, timer, pool>>
        /\ refused' \in {refused, refused + 1}
        /\ wpc[cur] # "lock" => refused' = refused
        /\ wpc[cur] = "lock" /\ owner = Main /\ refused < 2 => refused' = refused + 1
    BY <1>5, <1>t, Ranges DEF MgrCancels, InVain, MgrWaits, TypeOK, Waited
  <2>2. CASE owner # Main
    BY <2>1, <2>2, <1>t DEF OwnerOK, Deleted, MainWaits, Time, Paid, PoolOutlivesManager
  <2>3. CASE owner = Main
    <3>1. refused' < 2 => Refusals + Waited <= Refusals' + Waited'
      BY <2>1, <2>3, <1>t, Ranges DEF Refusals, Waited
    <3>2. Paid'
      BY <2>1, <3>1, <1>t, PaidOn, Ranges DEF Time
    <3>3. PoolOutlivesManager'
      BY <2>1, <2>3, <1>t, Ranges DEF Time, PoolOutlivesManager
    <3> QED BY <3>2, <3>3 DEF Time
  <2> QED BY <2>2, <2>3
<1>6. ASSUME NEW w \in Workers, MgrStop(w) \/ MgrEndWorker(w), wpc[w] = "gone"
      PROVE  Time'
  BY <1>2, <1>6 DEF MgrStop, MgrEndWorker
<1>7. CASE MgrEnd \/ MgrExit
  BY <1>2, <1>7 DEF MgrEnd, MgrExit
<1> QED BY <1>1, <1>3, <1>4, <1>5, <1>6, <1>7 DEF ManagerStep

\* Every step of the main thread keeps the account, and when the second limit
\* of uninit is over, what has been paid is two limits.
LEMMA MainTime ==
  ASSUME Safe, Safe', Time, MainStep \/ Uninit \/ \E w \in Workers : StopWorker(w)
  PROVE  Time'
<1> USE DEF workerVars, poolVars, globals, MainGoto
<1>t. TypeOK /\ OwnerOK /\ Deleted /\ TypeOK' /\ Deleted'
  BY DEF Safe
<1>1. UNCHANGED <<wpc, refused, worked, cur, mgr>>
  BY DEF MainStep, Uninit, StopWorker, UninitLocked, UninitNotLocked, PoolStopped,
     StopAgain, DestroyPool, DeleteBag, DeleteLock
<1>2. CASE main' \notin {"stop1", "stop2", "torn"}
  BY <1>2, <1>t DEF Time, Paid, PoolOutlivesManager, MainWaits, Deleted
<1>3. CASE UninitLocked
  <2>1. main' = "stop1" /\ timer' = [timer EXCEPT ![Main] = Limit]
    BY <1>3 DEF UninitLocked, Set
  <2>2. timer'[Main] = Limit
    BY <2>1, <1>t, TimerSet, Apart
  <2>3. Passed' = 0
    BY <2>1, <2>2 DEF Passed
  <2>4. worked' + Refusals' + Waited' >= 0
    <3>1. timer'[cur'] \in 0 .. Limit /\ worked' \in Nat
      BY <1>t, Apart DEF TypeOK, MaxWorked
    <3> QED BY <3>1 DEF Refusals, Waited
  <2> QED BY <1>t, <2>1, <2>3, <2>4 DEF Time, Paid, PoolOutlivesManager, Deleted
<1>4. CASE StopAgain
  <2>1. main = "stop1" /\ main' = "stop2" /\ timer[Main] = 0
        /\ timer' = [timer EXCEPT ![Main] = Limit]
    BY <1>4 DEF StopAgain, Set
  <2>2. timer'[Main] = Limit /\ \A t \in Threads : t # Main => timer'[t] = timer[t]
    BY <2>1, <1>t, TimerSet, Apart
  <2>3. Passed' = Passed /\ Refusals' = Refusals /\ Waited' = Waited
    BY <1>1, <2>1, <2>2, <1>t, Ranges DEF Passed, Refusals, Waited, MgrWaits
  <2>4. Paid'
    BY <1>1, <2>1, <2>3 DEF Time, Paid, MainWaits, MaxWorked
  <2> QED BY <1>t, <2>1, <2>4 DEF Time, PoolOutlivesManager, Deleted
<1>5. CASE DestroyPool
  <2>1. main = "stop2" /\ main' = "torn" /\ timer[Main] = 0
    BY <1>5 DEF DestroyPool, LastWait
  <2>2. CASE refused < 2 /\ worked < MaxWorked
    <3>1. Limit + Limit <= worked + Refusals + Waited
      BY <2>1, <2>2 DEF Time, Paid, MainWaits, Passed
    <3>2. CASE refused = 0 /\ ~(MgrWaits /\ wpc[cur] = "lock")
      BY <2>2, <3>1, <3>2, <1>t, Ranges DEF Refusals, Waited
    <3>3. CASE refused = 1 /\ ~(MgrWaits /\ wpc[cur] = "lock")
      <4>1. worked >= Limit
        BY <3>1, <3>3, <1>t, Ranges DEF Refusals, Waited
      <4> QED BY <2>1, <4>1, <3>3, <1>1 DEF PoolOutlivesManager, Time, Paid, MainWaits, MgrWaits
    <3>4. CASE refused = 0 /\ MgrWaits /\ wpc[cur] = "lock"
      <4>1. worked >= Limit
        BY <3>1, <3>4, <1>t, Ranges DEF Refusals
      <4> QED BY <2>1, <4>1, <3>4, <1>1 DEF PoolOutlivesManager, Time, Paid, MainWaits, MgrWaits
    <3>5. CASE refused = 1 /\ MgrWaits /\ wpc[cur] = "lock"
      BY <2>1, <3>5, <1>1 DEF PoolOutlivesManager, Time, Paid, MainWaits, MgrWaits
    <3> QED BY <2>2, <3>2, <3>3, <3>4, <3>5, <1>t, Ranges
  <2>3. CASE ~(refused < 2 /\ worked < MaxWorked)
    BY <2>1, <2>3, <1>1, <1>t, Ranges DEF Time, PoolOutlivesManager, Paid, MainWaits, MgrWaits
  <2> QED BY <2>2, <2>3
<1> QED BY <1>2, <1>3, <1>4, <1>5 DEF MainStep, Uninit, StopWorker, UninitNotLocked, PoolStopped,
           DeleteBag, DeleteLock

\* While time passes and uninit waits, its manager waits for a worker that is
\* at its own work or that waits for the lock in turn.
LEMMA TickWaits ==
  ASSUME Safe, Tick, MainWaits
  PROVE  /\ owner = Main /\ timer[Main] > 0 /\ MgrWaits
         /\ wpc[cur] = "work" \/ (wpc[cur] = "lock" /\ timer[cur] > 0)
<1>t. TypeOK /\ OwnerOK
  BY DEF Safe
<1>1. owner = Main /\ poolStop /\ mgr # "dead" /\ timer[Main] > 0
  BY <1>t DEF Tick, AllIdle, MainIdle, MainWaits, OwnerOK
<1>2. MgrWaits /\ Alive(cur)
  BY <1>1 DEF Tick, AllIdle, ManagerIdle
<1>3. WorkerIdle(cur)
  BY <1>t DEF Tick, AllIdle, TypeOK
<1> QED BY <1>1, <1>2, <1>3 DEF WorkerIdle

\* Time keeps the account: what it takes from uninit, it adds to the work or
\* takes from the call of the worker that the manager waits for.
LEMMA TickTime ==
  ASSUME Safe, Safe', Time, Tick
  PROVE  Time'
<1>t. TypeOK /\ TypeOK'
  BY DEF Safe
<1>1. UNCHANGED <<wpc, refused, cur, mgr, main, owner, pool>>
  BY DEF Tick, poolVars, globals
<1>2. /\ \A t \in Threads : timer'[t] = IF timer[t] > 0 THEN timer[t] - 1 ELSE 0
      /\ worked' >= worked
  BY <1>t, TickTimers, Ranges DEF Tick
<1>3. PoolOutlivesManager'
  BY <1>1, <1>2, <1>t, Ranges DEF Time, PoolOutlivesManager, TypeOK, MaxWorked, MgrWaits
<1>4. Paid'
  <2> SUFFICES ASSUME MainWaits', refused' < 2, worked' < MaxWorked'
               PROVE  Passed' <= worked' + Refusals' + Waited'
    BY DEF Paid
  <2>1. MainWaits /\ refused < 2 /\ worked < MaxWorked /\ MaxWorked' = MaxWorked
    BY <1>1, <1>2, <1>t, Ranges DEF MainWaits, MaxWorked, TypeOK
  <2>2. /\ owner = Main /\ timer[Main] > 0 /\ MgrWaits /\ MgrWaits'
        /\ wpc[cur] = "work" \/ (wpc[cur] = "lock" /\ timer[cur] > 0)
    BY <2>1, TickWaits, <1>1 DEF MgrWaits
  <2>3. Passed <= worked + Refusals + Waited
    BY <2>1 DEF Time, Paid
  <2>4. Passed' = Passed + 1 /\ Refusals' = Refusals
    BY <1>1, <1>2, <1>t, <2>2, Ranges, Apart DEF Passed, Refusals
  <2>5. CASE wpc[cur] = "work"
    <3>1. worked' = worked + 1
      BY <2>1, <2>2, <2>5 DEF Tick
    <3>2. Waited' = 0 /\ Waited = 0
      BY <2>5, <1>1 DEF Waited
    <3> QED BY <2>3, <2>4, <3>1, <3>2, <1>t, Ranges
  <2>6. CASE wpc[cur] = "lock" /\ timer[cur] > 0
    <3>1. worked' = worked
      BY <2>6 DEF Tick
    <3>2. Waited' = Waited + 1
      BY <1>1, <1>2, <2>2, <2>6, <1>t, Ranges DEF Waited
    <3> QED BY <2>3, <2>4, <3>1, <3>2, <1>t, Ranges
  <2> QED BY <2>2, <2>5, <2>6
<1> QED BY <1>3, <1>4 DEF Time

\* Every step keeps the account.
LEMMA NextTime == Safe /\ Safe' /\ Time /\ [Next]_vars => Time'
<1> SUFFICES ASSUME Safe, Safe', Time, [Next]_vars PROVE Time'
  OBVIOUS
<1>1. CASE UNCHANGED vars
  BY <1>1 DEF vars, Time, Paid, PoolOutlivesManager, MgrWaits, MainWaits, Passed, Refusals,
     Waited, MaxWorked
<1>2. CASE Next
  BY <1>2, WorkerTime, ManagerTime, MainTime, TickTime DEF Next, Urgent, Free, WorkerStep
<1> QED BY <1>1, <1>2

\* The manager loses its pool in the middle of its work only if two limits went
\* by in calls made in vain or in the functions' own work: however the waits of
\* the main thread, the manager and the workers start and end, one call is not
\* enough.
THEOREM PoolOutlivesManagerHolds == Spec => []PoolOutlivesManager
<1>1. Time => PoolOutlivesManager
  BY DEF Time
<1> QED BY <1>1, InitTime, SafeHolds, NextTime, PTL DEF Spec
=============================================================================
