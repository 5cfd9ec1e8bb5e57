----------------------------- MODULE ThreadPool -----------------------------
(***************************************************************************)
(* The thread pool of htmapp, tq::CThreadPool.                             *)
(*                                                                         *)
(* Any thread may call start() and stop(); each call is one critical       *)
(* section on m_lock that leaves a command, keyed by thread id, in m_cmds  *)
(* and signals m_event.  One manager thread (CThreadPool::DoThread) takes  *)
(* the commands in id order and creates and destroys the worker threads.   *)
(* Destroying a worker blocks the manager until that worker has exited, or *)
(* until the time limits of CThread::Stop and FreeRi expire and            *)
(* pthread_cancel ends it.                                                 *)
(***************************************************************************)
EXTENDS Integers

CONSTANTS
  Names,          \* thread names a caller may use
  NoName,         \* the empty name: an anonymous thread
  MaxId           \* BOUND: start() hands out the ids 0 .. MaxId-1

ASSUME NoNameAssumption == NoName \notin Names
ASSUME MaxIdAssumption  == MaxId \in Nat \ {0}

NoId   == -1                \* what a failed start() returns
Ids    == 0 .. MaxId - 1    \* ids start() can return
CmdIds == NoId .. MaxId - 1 \* keys m_cmds can get: stop(-1) is accepted too

Phases == {"unborn",   \* not in m_tp yet
           "starting", \* NewThread done, evInit not signaled yet
           "running",  \* inside the loop of CThread::ThreadProc
           "exited",   \* cSync signaled, object still in m_tp
           "failed",   \* NewThread failed: in m_tp, without a thread
           "gone"}     \* erased from m_tp

VARIABLES
  m_id,      \* next thread id
  m_names,   \* name -> id, NoId when the name is not in the map
  m_cmds,    \* id -> pending command, "none" when the id is not in the map
  m_event,   \* the manual-reset event that says a command is waiting
  m_enable,  \* cleared by the destructor
  nameOf,    \* the name stored with the command and the worker (SCmdInfo.s)
  phase,     \* id -> life of the CWorkerThread
  mpc,       \* where the manager thread is
  cur,       \* the command the manager is carrying out: <<id, "start" | "stop">>
  stopFlag,  \* stop flag and stop event of the manager thread
  lost       \* history: the ids whose name a stop(name) has given up while it
             \* read another value in their place, see StopName

poolVars == <<m_id, m_names, m_cmds, m_event, m_enable, nameOf, lost>>
vars     == <<m_id, m_names, m_cmds, m_event, m_enable, nameOf, lost,
              phase, mpc, cur, stopFlag>>

HasThread(i) == phase[i] \in {"starting", "running"}
Nothing == <<NoId, "none">>  \* no command in the manager's hands

InPool(i)    == phase[i] \in {"starting", "running", "exited", "failed"}

Init ==
  /\ m_id = 0
  /\ m_names = [n \in Names |-> NoId]
  /\ m_cmds = [i \in CmdIds |-> "none"]
  /\ m_event = FALSE
  /\ m_enable = TRUE
  /\ nameOf = [i \in Ids |-> NoName]
  /\ phase = [i \in Ids |-> "unborn"]
  /\ mpc = "wait"
  /\ cur = Nothing
  /\ stopFlag = FALSE
  /\ lost = {}

-----------------------------------------------------------------------------
(* m_id, m_event, m_cmds and the loop of ThreadProc.  A definition named     *)
(* Bug... is a mistake in the one that follows it, which a property below   *)
(* must notice; no action uses it.                                          *)

BugIssuedTooFew(id)   == id + 1 < m_id

\* stop() accepts an id that has been handed out, and negative ones.
Issued(id) == id < m_id

BugNoSignal == UNCHANGED m_event

\* m_event.Signal() at the end of the critical sections of start and stop.
SignalEvent == m_event' = TRUE

BugDrainedUnchecked == TRUE

\* The test, under m_lock, before the manager resets m_event.
NoCommand == \A id \in CmdIds : m_cmds[id] = "none"

BugAnyCmd(id) == m_cmds[id] # "none"

\* m_cmds.begin(): commands are taken in id order.
IsFirstCmd(id) ==
  /\ m_cmds[id] # "none"
  /\ \A j \in CmdIds : m_cmds[j] # "none" => id <= j

BugPeek(id) == m_cmds

\* m_cmds.erase( m_cmds.begin() )
CmdsWithout(id) == [m_cmds EXCEPT ![id] = "none"]

BugDoneWhenIdle == stopFlag /\ NoCommand

\* The stop test of the loop in ThreadProc, for the manager thread.
LoopDone == stopFlag

\* m_tp.clear() is over.
PoolEmpty == \A i \in Ids : ~InPool(i)

-----------------------------------------------------------------------------
(* The callers.  Each action is the critical section of one call.          *)

\* start( s, f, p ).  The id is consumed even when the name is refused.
Start(s) ==
  /\ m_enable
  /\ m_id < MaxId
  /\ m_id' = m_id + 1
  /\ IF s \in Names /\ m_names[s] # NoId
       THEN UNCHANGED <<m_names, m_cmds, m_event, nameOf>>
       ELSE /\ m_names' = [n \in Names |-> IF n = s THEN m_id ELSE m_names[n]]
            /\ m_cmds' = [m_cmds EXCEPT ![m_id] = "start"]
            /\ nameOf' = [nameOf EXCEPT ![m_id] = s]
            /\ SignalEvent
  /\ UNCHANGED <<m_enable, lost, phase, mpc, cur, stopFlag>>

\* What the iterator reads once its node is erased: the old id as long as the
\* allocator leaves the freed node alone, and any number otherwise.  Below
\* NoId and above MaxId nothing new happens.
FreedNode == NoId .. MaxId

\* stop( s ) erases the iterator and then reads the id through it.
StopName(s) ==
  /\ m_enable
  /\ m_names[s] # NoId
  /\ \E id \in FreedNode :
       /\ lost' = IF id = m_names[s] THEN lost ELSE lost \cup {m_names[s]}
       /\ IF Issued(id)
            THEN /\ m_cmds' = [m_cmds EXCEPT ![id] = "stop"]
                 /\ SignalEvent
            ELSE UNCHANGED <<m_cmds, m_event>>
  /\ m_names' = [m_names EXCEPT ![s] = NoId]
  /\ UNCHANGED <<m_id, m_enable, nameOf, phase, mpc, cur, stopFlag>>

\* stop( id ).  The name the thread may have stays in m_names.
StopId(id) ==
  /\ m_enable
  /\ Issued(id)
  /\ m_cmds' = [m_cmds EXCEPT ![id] = "stop"]
  /\ SignalEvent
  /\ UNCHANGED <<m_id, m_names, m_enable, nameOf, lost, phase, mpc, cur,
                 stopFlag>>

\* tq::uninit: Stop() asks the manager to exit ...
StopPool ==
  /\ ~stopFlag
  /\ stopFlag' = TRUE
  /\ UNCHANGED <<poolVars, phase, mpc, cur>>

\* ... and the pool is deleted when it has.
DeletePool ==
  /\ stopFlag
  /\ mpc = "dead"
  /\ m_enable
  /\ m_enable' = FALSE
  /\ UNCHANGED <<m_id, m_names, m_cmds, m_event, nameOf, lost, phase, mpc, cur,
                 stopFlag>>

-----------------------------------------------------------------------------
(* The manager thread: CThreadPool::DoThread in the loop of ThreadProc.    *)

\* Wait( m_event, 100 ) returns on a signal or after 100 ms; only the second
\* look at m_event decides.
MgrWake ==
  /\ mpc = "wait"
  /\ mpc' = IF m_event THEN "pop" ELSE "reap"
  /\ UNCHANGED <<poolVars, phase, cur, stopFlag>>

\* Under m_lock: take the first command, which is dropped if its id is
\* negative.
MgrPop(id) ==
  /\ mpc = "pop"
  /\ IsFirstCmd(id)
  /\ m_cmds' = CmdsWithout(id)
  /\ IF 0 <= id
       THEN cur' = <<id, m_cmds[id]>> /\ mpc' = "exec"
       ELSE cur' = cur /\ mpc' = "reap"
  /\ UNCHANGED <<m_id, m_names, m_event, m_enable, nameOf, lost, phase, stopFlag>>

\* Under m_lock: no command left, reset the event.
MgrDrained ==
  /\ mpc = "pop"
  /\ NoCommand
  /\ m_event' = FALSE
  /\ mpc' = "reap"
  /\ UNCHANGED <<m_id, m_names, m_cmds, m_enable, nameOf, lost, phase, cur,
                 stopFlag>>

\* The lock is released: create the worker.  pthread_create may fail, and
\* NewThread then destroys the handle it has begun.
MgrStartWorker ==
  /\ mpc = "exec"
  /\ cur[2] = "start"
  /\ \/ /\ phase' = [phase EXCEPT ![cur[1]] = "starting"]
        /\ mpc' = "reap"
        /\ cur' = Nothing
     \/ mpc' = "nothread" /\ UNCHANGED <<phase, cur>>
  /\ UNCHANGED <<poolVars, stopFlag>>

\* FreeRi waits out its limits for an exit event that nobody will signal, and
\* passes pthread_cancel a handle that was never set: an error that ends
\* there, or the end of the process.  If it happens to be the handle of some
\* live thread, that thread takes no more steps, as any worker may.  The
\* result of Start() is ignored.
MgrNoThread ==
  /\ mpc = "nothread"
  /\ phase' = [phase EXCEPT ![cur[1]] = "failed"]
  /\ mpc' \in {"reap", "aborted"}
  /\ cur' = Nothing
  /\ UNCHANGED <<poolVars, stopFlag>>

\* Destroy the worker if the id is in the pool: the destructor blocks.
MgrStopWorker ==
  /\ mpc = "exec"
  /\ cur[2] = "stop"
  /\ IF InPool(cur[1])
       THEN mpc' = "kill" /\ cur' = cur
       ELSE mpc' = "reap" /\ cur' = Nothing
  /\ UNCHANGED <<poolVars, phase, stopFlag>>

\* ~CWorkerThread is done: its thread has exited, or never existed ...
Erased(from, to) ==
  /\ mpc = from
  /\ phase[cur[1]] \in {"exited", "failed"}
  /\ phase' = [phase EXCEPT ![cur[1]] = "gone"]
  /\ mpc' = to
  /\ cur' = Nothing
  /\ UNCHANGED <<poolVars, stopFlag>>

\* ... or has been cancelled after the time limits.  A thread that is cancelled
\* under the catch(...) of ThreadProc, which does not throw on, takes the
\* process with it (glibc).
Canceled(from, to) ==
  /\ mpc = from
  /\ HasThread(cur[1])
  /\ phase' = [phase EXCEPT ![cur[1]] = "gone"]
  /\ mpc' \in {to, "aborted"}
  /\ cur' = Nothing
  /\ UNCHANGED <<poolVars, stopFlag>>

MgrWorkerErased   == Erased("kill", "reap")
MgrWorkerCanceled == Canceled("kill", "reap")

\* Cleanup of expired thread objects.  A worker whose thread was never created
\* has not signaled evInit and stays.
MgrReap ==
  /\ mpc = "reap"
  /\ phase' = [i \in Ids |-> IF phase[i] = "exited" THEN "gone" ELSE phase[i]]
  /\ mpc' = IF LoopDone THEN "end" ELSE "wait"
  /\ UNCHANGED <<poolVars, cur, stopFlag>>

\* EndThread: m_tp.clear() destroys the workers one by one.
MgrEndWorker(i) ==
  /\ mpc = "end"
  /\ InPool(i)
  /\ cur' = <<i, "stop">>
  /\ mpc' = "endkill"
  /\ UNCHANGED <<poolVars, phase, stopFlag>>

MgrEndErased   == Erased("endkill", "end")
MgrEndCanceled == Canceled("endkill", "end")

MgrExit ==
  /\ mpc = "end"
  /\ PoolEmpty
  /\ mpc' = "dead"
  /\ UNCHANGED <<poolVars, phase, cur, stopFlag>>

-----------------------------------------------------------------------------
(* The worker threads: CThread::ThreadProc around the user's function.     *)

WorkerInit(i) ==
  /\ phase[i] = "starting"
  /\ phase' = [phase EXCEPT ![i] = "running"]
  /\ UNCHANGED <<poolVars, mpc, cur, stopFlag>>

\* The function returns less than zero, or returns after a stop request.
WorkerExit(i) ==
  /\ phase[i] = "running"
  /\ phase' = [phase EXCEPT ![i] = "exited"]
  /\ UNCHANGED <<poolVars, mpc, cur, stopFlag>>

-----------------------------------------------------------------------------
Manager ==
  \/ MgrWake
  \/ \E id \in CmdIds : MgrPop(id)
  \/ MgrDrained
  \/ MgrStartWorker
  \/ MgrNoThread
  \/ MgrStopWorker
  \/ MgrWorkerErased
  \/ MgrWorkerCanceled
  \/ MgrReap
  \/ \E i \in Ids : MgrEndWorker(i)
  \/ MgrEndErased
  \/ MgrEndCanceled
  \/ MgrExit

Callers ==
  \/ \E s \in Names \cup {NoName} : Start(s)
  \/ \E s \in Names : StopName(s)
  \/ \E id \in CmdIds : StopId(id)
  \/ StopPool
  \/ DeletePool

Workers == \E i \in Ids : WorkerInit(i) \/ WorkerExit(i)

\* Nobody takes a step when the process has been aborted.
Next == mpc # "aborted" /\ (Callers \/ Manager \/ Workers)

Spec == Init /\ [][Next]_vars

\* The manager never waits without a time limit, so it keeps taking steps.
\* Nothing is assumed of the callers or of the users' functions.
FairSpec == Spec /\ WF_vars(Manager)

-----------------------------------------------------------------------------
(* Properties                                                              *)

\* Types, and what the ids that start() has not handed out look like.
TypeOK ==
  /\ m_id \in 0 .. MaxId
  /\ m_names \in [Names -> CmdIds]
  /\ m_cmds \in [CmdIds -> {"none", "start", "stop"}]
  /\ m_event \in BOOLEAN
  /\ m_enable \in BOOLEAN
  /\ nameOf \in [Ids -> Names \cup {NoName}]
  /\ phase \in [Ids -> Phases]
  /\ mpc \in {"wait", "pop", "exec", "nothread", "kill", "reap", "end",
             "endkill", "dead", "aborted"}
  /\ cur \in CmdIds \X {"none", "start", "stop"}
  /\ stopFlag \in BOOLEAN
  /\ lost \in SUBSET Ids
  /\ \A i \in Ids : i >= m_id =>
       m_cmds[i] = "none" /\ phase[i] = "unborn" /\ cur[1] # i

\* A command in m_cmds always has m_event signaled: the manager's reset, which
\* is decided under m_lock, never swallows the signal of a start() or stop().
NoLostCommand ==
  (\E id \in CmdIds : m_cmds[id] # "none") => m_event

\* Two threads never run under one name, although a name can be used again as
\* soon as stop(name) has returned and long before its old thread has exited:
\* unless the stop(name) before has read another id than it had erased.
OneThreadPerName ==
  \A i, j \in Ids :
    /\ HasThread(i) /\ HasThread(j) /\ i < j
    /\ nameOf[i] = nameOf[j] /\ nameOf[i] \in Names
    => i \in lost

\* An id has one life: no command, however it is overtaken or repeated,
\* restarts a thread that was stopped, or replaces one that is in the pool.
OneLife ==
  [][\A i \in Ids :
       /\ phase'[i] = "starting" => phase[i] \in {"unborn", "starting"}
       /\ phase[i] = "gone" => phase'[i] = "gone"]_vars

\* Seen from outside, the pool runs its thread objects as they allow: it gives
\* an object a thread only when it has none, and never revives one.
Contract == INSTANCE WorkerContract WITH Workers <- Ids

KeepsContract == Contract!Spec

\* stop(name) reaches the thread the name stood for: once the name is free,
\* that thread is dead or about to be destroyed.  The threads that go on
\* without a name are just those whose id stop(name) did not read back.
StopNameReaches ==
  \A i \in Ids :
    HasThread(i) /\ nameOf[i] \in Names /\ m_names[nameOf[i]] # i
      => \/ m_cmds[i] = "stop"
         \/ cur = <<i, "stop">>
         \/ mpc \in {"end", "endkill", "aborted"}
         \/ i \in lost

\* Commands are taken in id order, so a command is served once the commands of
\* lower ids stop coming in: a started thread is created, a stopped one
\* destroyed, unless the pool itself is stopped.
Served ==
  \A i \in Ids :
    (\A j \in CmdIds : j < i => <>[](m_cmds[j] = "none"))
      => /\ (m_cmds[i] = "start")
               ~> (phase[i] # "unborn" \/ m_cmds[i] = "stop" \/ stopFlag \/ mpc = "aborted")
         /\ (m_cmds[i] = "stop") ~> (~HasThread(i) \/ stopFlag \/ mpc = "aborted")

\* Stopping the pool ends the manager and every worker thread, whatever the
\* workers do and whatever is still queued, if no cancel ends the process.
StopPoolEnds ==
  stopFlag ~> (mpc = "aborted" \/ (mpc = "dead" /\ \A i \in Ids : ~HasThread(i)))
=============================================================================
