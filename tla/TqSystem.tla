------------------------------ MODULE TqSystem ------------------------------
(***************************************************************************)
(* tq::init and tq::uninit: how the thread pool, the property bag and the  *)
(* property lock are taken down while the threads that use them still run. *)
(*                                                                         *)
(* The main thread asks for threads to be stopped and then calls uninit,   *)
(* which holds the property lock while it waits for the pool to stop.  The *)
(* manager thread of the pool ends the workers one after the other.  The   *)
(* workers call tq::set and tq::start.                                     *)
(*                                                                         *)
(* All of these waits have the same time limit, so how they compare is     *)
(* what decides the outcome.  Time is therefore explicit: it passes, for   *)
(* all limits alike, when no thread can do anything but wait.              *)
(***************************************************************************)
EXTENDS Naturals, FiniteSets

CONSTANTS
  Workers,  \* threads in the pool
  Limit     \* eDefaultWaitTime, in ticks

ASSUME LimitAssumption   == Limit \in Nat \ {0}

Main    == "main"
Manager == "manager"
Nobody  == "nobody"

ASSUME NamesAssumption == {Main, Manager, Nobody} \cap Workers = {}

Threads == Workers \cup {Main, Manager}

VARIABLES
  evStop,    \* workers that have been asked to stop
  wpc,       \* where a worker is
  refused,   \* since uninit has the lock: calls of tq::set the manager's worker
             \* made in vain
  worked,    \* since then: ticks that worker was at its own work
  toStop,    \* commands of tq::stop the manager has not taken yet
  poolStop,  \* the manager has been asked to stop
  mgr,       \* where the manager is
  cur,       \* the worker it is destroying
  main,      \* where the main thread is
  owner,     \* who has the property lock
  timer,     \* what is left of a thread's time limit
  bag,       \* g_htmapp_pb and g_htmapp_wp exist
  lock,      \* g_htmapp_pb_lock exists
  pool       \* g_htmapp_tp: "live", "deleted", or "torn" when its members were
             \* destroyed while the manager was using them

workerVars == <<evStop, wpc, refused, worked>>
poolVars   == <<toStop, poolStop, mgr, cur>>
globals    == <<bag, lock, pool>>
vars == <<evStop, wpc, refused, worked, toStop, poolStop, mgr, cur, main, owner,
          timer, bag, lock, pool>>

\* tq::init( true ), and a pool that has created its workers.
Init ==
  /\ evStop = {}
  /\ wpc = [w \in Workers |-> "work"]
  /\ refused = 0
  /\ worked = 0
  /\ toStop = {}
  /\ poolStop = FALSE
  /\ mgr = "loop"
  /\ cur \in Workers
  /\ main = "run"
  /\ owner = Nobody
  /\ timer = [t \in Threads |-> 0]
  /\ bag = TRUE
  /\ lock = TRUE
  /\ pool = "live"

Alive(w) == wpc[w] \notin {"exited", "gone"}
Set(t)   == timer' = [timer EXCEPT ![t] = Limit]

\* BOUND: a tick is the time a function works, at least, after a call.
WorkOn(w)  == timer' = [timer EXCEPT ![w] = 1]
MayCall(w) == timer[w] = 0

\* A thread that was cancelled inside its critical section has left the lock
\* taken for ever.
Orphaned == owner \in Workers /\ ~Alive(owner)

-----------------------------------------------------------------------------
(* The workers.                                                            *)

WorkerGoto(w, from, to) == wpc[w] = from /\ wpc' = [wpc EXCEPT ![w] = to]

\* tq::set looks at the globals, without the lock, before it asks for the lock.
HasGlobals == lock /\ bag

\* tq::set: wait for the property lock.  A function calls it when it likes,
\* also when it has been asked to stop.
BeginSet(w) ==
  /\ MayCall(w)
  /\ HasGlobals
  /\ WorkerGoto(w, "work", "lock")
  /\ Set(w)
  /\ UNCHANGED <<evStop, refused, worked, poolVars, main, owner, globals>>

\* A function looks at its stop event when it likes, or never.
Leave(w) ==
  /\ w \in evStop
  /\ WorkerGoto(w, "work", "exited")
  /\ UNCHANGED <<evStop, refused, worked, poolVars, main, owner, timer, globals>>

\* The lock is got: write the property ...
SetLocked(w) ==
  /\ owner = Nobody
  /\ lock
  /\ WorkerGoto(w, "lock", "write")
  /\ owner' = w
  /\ UNCHANGED <<evStop, refused, worked, poolVars, main, timer, globals>>

\* ... and release the lock.
SetDone(w) ==
  /\ WorkerGoto(w, "write", "work")
  /\ owner' = Nobody
  /\ WorkOn(w)
  /\ UNCHANGED <<evStop, refused, worked, poolVars, main, globals>>

\* BOUND: refused calls are counted up to 2.
MaxRefused == 2

\* The manager waits for a worker.
MgrWaits == mgr \in {"stop1", "stop2", "stop3"}

\* A call of the worker that the manager waits for has come to nothing while
\* uninit has the lock.
InVain(w) ==
  refused' = IF owner = Main /\ MgrWaits /\ cur = w /\ refused < MaxRefused
             THEN refused + 1 ELSE refused

\* The lock is not got in time: tq::set returns false, which nobody looks at.
SetTimedOut(w) ==
  /\ timer[w] = 0
  /\ WorkerGoto(w, "lock", "work")
  /\ WorkOn(w)
  /\ InVain(w)
  /\ UNCHANGED <<evStop, worked, poolVars, main, owner, globals>>

\* tq::start and tq::stop, called by a worker: look at g_htmapp_tp ...
BeginStart(w) ==
  /\ MayCall(w)
  /\ pool # "deleted"
  /\ WorkerGoto(w, "work", "inpool")
  /\ UNCHANGED <<evStop, refused, worked, poolVars, main, owner, timer, globals>>

\* ... and then use the pool.
StartDone(w) ==
  /\ WorkerGoto(w, "inpool", "work")
  /\ WorkOn(w)
  /\ UNCHANGED <<evStop, refused, worked, poolVars, main, owner, globals>>

-----------------------------------------------------------------------------
(* The manager: ThreadPool in short.                                       *)

\* ~CWorkerThread signals the stop event and waits for the thread.
AskToStop(w, to) ==
  /\ evStop' = evStop \cup {w}
  /\ cur' = w
  /\ mgr' = to
  /\ Set(Manager)

\* A command of tq::stop; the pool may have let go of the worker before.
MgrStop(w) ==
  /\ mgr = "loop" /\ ~poolStop
  /\ w \in toStop
  /\ toStop' = toStop \ {w}
  /\ IF wpc[w] # "gone" THEN AskToStop(w, "stop1")
                        ELSE UNCHANGED <<evStop, cur, mgr, timer>>
  /\ UNCHANGED <<wpc, refused, worked, poolStop, main, owner, globals>>

MgrEnd ==
  /\ mgr = "loop" /\ poolStop
  /\ mgr' = "end"
  /\ UNCHANGED <<workerVars, toStop, poolStop, cur, main, owner, timer,
                 globals>>

\* EndThread: m_tp.clear()
MgrEndWorker(w) ==
  /\ mgr = "end"
  /\ wpc[w] # "gone"
  /\ AskToStop(w, "stop1")
  /\ UNCHANGED <<wpc, refused, worked, toStop, poolStop, main, owner, globals>>

MgrNext == IF poolStop THEN "end" ELSE "loop"

MgrJoined ==
  /\ MgrWaits
  /\ wpc[cur] = "exited"
  /\ wpc' = [wpc EXCEPT ![cur] = "gone"]
  /\ mgr' = MgrNext
  /\ UNCHANGED <<evStop, refused, worked, toStop, poolStop, cur, main, owner, timer,
                 globals>>

\* Stop() in ~CWorkerThread, Stop() in ~CThread and FreeRi wait in turn.
MgrWaitsOn ==
  /\ mgr \in {"stop1", "stop2"}
  /\ Alive(cur) /\ timer[Manager] = 0
  /\ mgr' = IF mgr = "stop1" THEN "stop2" ELSE "stop3"
  /\ Set(Manager)
  /\ UNCHANGED <<workerVars, toStop, poolStop, cur, main, owner, globals>>

\* pthread_cancel, wherever the worker is; whatever it has locked stays so.
MgrCancels ==
  /\ mgr = "stop3"
  /\ Alive(cur) /\ timer[Manager] = 0
  /\ IF wpc[cur] = "lock" THEN InVain(cur) ELSE refused' = refused
  /\ wpc' = [wpc EXCEPT ![cur] = "gone"]
  /\ mgr' = MgrNext
  /\ UNCHANGED <<evStop, worked, toStop, poolStop, cur, main, owner, timer, globals>>

BugLeaveLast == Cardinality({w \in Workers : wpc[w] # "gone"}) <= 1

\* m_tp is empty.
AllGone == \A w \in Workers : wpc[w] = "gone"

MgrExit ==
  /\ mgr = "end"
  /\ AllGone
  /\ mgr' = "dead"
  /\ UNCHANGED <<workerVars, toStop, poolStop, cur, main, owner, timer,
                 globals>>

-----------------------------------------------------------------------------
(* The main thread.                                                        *)

MainGoto(from, to) == main = from /\ main' = to

\* tq::stop, while the program runs.
StopWorker(w) ==
  /\ main = "run"
  /\ toStop' = toStop \cup {w}
  /\ UNCHANGED <<workerVars, poolStop, mgr, cur, main, owner, timer,
                 globals>>

Uninit ==
  /\ MainGoto("run", "lock")
  /\ Set(Main)
  /\ UNCHANGED <<workerVars, poolVars, owner, globals>>

\* Stop() of the pool, with the property lock held.
UninitLocked ==
  /\ owner = Nobody
  /\ MainGoto("lock", "stop1")
  /\ owner' = Main
  /\ poolStop' = TRUE
  /\ Set(Main)
  /\ UNCHANGED <<workerVars, toStop, mgr, cur, globals>>

BugWaitForever == FALSE

LockTimedOut == timer[Main] = 0

\* The lock is not got: nothing is deleted but the lock itself.
UninitNotLocked ==
  /\ LockTimedOut
  /\ MainGoto("lock", "dellock")
  /\ UNCHANGED <<workerVars, poolVars, owner, timer, globals>>

MainWaits == main \in {"stop1", "stop2"}

\* The manager has exited, and is joined.
PoolStopped ==
  /\ MainWaits
  /\ mgr = "dead"
  /\ main' = "bag"
  /\ pool' = "deleted"
  /\ UNCHANGED <<workerVars, poolVars, owner, timer, bag, lock>>

\* The result of Stop() is not looked at: the pool is deleted, and the
\* destructor stops it once more ...
StopAgain ==
  /\ mgr # "dead" /\ timer[Main] = 0
  /\ MainGoto("stop1", "stop2")
  /\ Set(Main)
  /\ UNCHANGED <<workerVars, poolVars, owner, globals>>

BugNoSecondWait == {"stop1", "stop2"}

LastWait == {"stop2"}

\* ... and destroys the members under the manager when this fails, too.  What
\* follows is undefined.
DestroyPool ==
  /\ main \in LastWait
  /\ mgr # "dead" /\ timer[Main] = 0
  /\ main' = "torn"
  /\ pool' = "torn"
  /\ UNCHANGED <<workerVars, poolVars, owner, timer, bag, lock>>

\* Property bag and wait pool; the end of the scope releases the lock.
DeleteBag ==
  /\ MainGoto("bag", "dellock")
  /\ bag' = FALSE
  /\ owner' = Nobody
  /\ UNCHANGED <<workerVars, poolVars, timer, lock, pool>>

DeleteLock ==
  /\ MainGoto("dellock", "done")
  /\ lock' = FALSE
  /\ UNCHANGED <<workerVars, poolVars, owner, timer, bag, pool>>

-----------------------------------------------------------------------------
(* A step is urgent if its thread has nothing to wait for, and a thread is  *)
(* idle while no step of its own is.  How long a function works before it   *)
(* calls tq again or looks at its stop event, and how long the program      *)
(* runs, is open.                                                           *)

UrgentWorker(w) == SetLocked(w) \/ SetDone(w) \/ SetTimedOut(w) \/ StartDone(w)

ManagerStep ==
  \/ \E w \in Workers : MgrStop(w) \/ MgrEndWorker(w)
  \/ MgrEnd \/ MgrJoined \/ MgrWaitsOn \/ MgrCancels \/ MgrExit

MainStep ==
  \/ UninitLocked \/ UninitNotLocked \/ PoolStopped \/ StopAgain \/ DestroyPool
  \/ DeleteBag \/ DeleteLock

Urgent == MainStep \/ ManagerStep \/ \E w \in Workers : UrgentWorker(w)

Free ==
  \/ Uninit
  \/ \E w \in Workers : StopWorker(w) \/ BeginSet(w) \/ BeginStart(w) \/ Leave(w)

WorkerIdle(w) ==
  \/ ~Alive(w)
  \/ wpc[w] = "work"
  \/ wpc[w] = "lock" /\ ~(owner = Nobody /\ lock) /\ timer[w] > 0

ManagerIdle ==
  \/ mgr = "dead"
  \/ mgr = "loop" /\ ~poolStop /\ toStop = {}
  \/ MgrWaits /\ Alive(cur) /\ timer[Manager] > 0

MainIdle ==
  \/ main \in {"run", "torn", "done"}
  \/ main = "lock" /\ owner # Nobody /\ ~LockTimedOut
  \/ MainWaits /\ mgr # "dead" /\ timer[Main] > 0

\* ~ENABLED Urgent, written out.
AllIdle == MainIdle /\ ManagerIdle /\ \A w \in Workers : WorkerIdle(w)

\* BOUND: the ticks of own work are counted up to two limits.
MaxWorked == 2 * Limit

Tick ==
  /\ AllIdle
  /\ \E t \in Threads : timer[t] > 0
  /\ timer' = [t \in Threads |-> IF timer[t] > 0 THEN timer[t] - 1 ELSE 0]
  /\ worked' = IF owner = Main /\ MgrWaits /\ wpc[cur] = "work" /\ worked < MaxWorked
               THEN worked + 1 ELSE worked
  /\ UNCHANGED <<evStop, wpc, refused, poolVars, main, owner, globals>>

Next == Urgent \/ Free \/ Tick

Spec == Init /\ [][Next]_vars

\* The threads run and time passes.  Nothing is assumed of the functions of the
\* workers.
FairSpec ==
  /\ Spec
  /\ WF_vars(MainStep \/ Tick)
  /\ WF_vars(ManagerStep)
  /\ \A w \in Workers : WF_vars(UrgentWorker(w))

-----------------------------------------------------------------------------
(* Properties                                                              *)

\* Types, and that a lock which is deleted or not wanted is nobody's.
TypeOK ==
  /\ evStop \subseteq Workers
  /\ wpc \in [Workers -> {"work", "lock", "write", "inpool", "exited", "gone"}]
  /\ refused \in 0 .. MaxRefused
  /\ worked \in 0 .. MaxWorked
  /\ toStop \subseteq Workers
  /\ poolStop \in BOOLEAN
  /\ mgr \in {"loop", "stop1", "stop2", "stop3", "end", "dead"}
  /\ cur \in Workers
  /\ main \in {"run", "lock", "stop1", "stop2", "torn", "bag", "dellock", "done"}
  /\ owner \in Threads \cup {Nobody}
  /\ timer \in [Threads -> 0 .. Limit]
  /\ bag \in BOOLEAN /\ lock \in BOOLEAN
  /\ pool \in {"live", "deleted", "torn"}

\* Once uninit has deleted the pool, no worker is in it or on its way into it;
\* once it has deleted the bag, none is writing to it; and once it has deleted
\* the lock, nobody holds it or waits for it.  Unless the lock was orphaned.
NoUseAfterDelete ==
  ~Orphaned =>
    \A w \in Workers :
      /\ pool = "deleted" => wpc[w] # "inpool"
      /\ ~bag => wpc[w] # "write"
      /\ ~lock => wpc[w] \notin {"lock", "write"}

\* The destructor of the pool takes the members from under the manager only if
\* the two limits that uninit waits were used up by the workers the manager
\* waited for: each by a call of tq::set, which waits in vain for the lock that
\* uninit holds, or by a function that was at its own work for so long before
\* it looked at its stop event.  One such call alone is not enough.
PoolOutlivesManager ==
  pool = "torn" =>
    LET calls == refused + (IF MgrWaits /\ wpc[cur] = "lock" THEN 1 ELSE 0)
    IN  \/ calls >= 2
        \/ calls = 1 /\ worked >= Limit
        \/ worked >= 2 * Limit

\* uninit comes to its end, although it holds the lock that the workers it
\* waits for are waiting for, and also if the lock is orphaned.
UninitEnds == (main = "lock") ~> (main \in {"done", "torn"})
=============================================================================
