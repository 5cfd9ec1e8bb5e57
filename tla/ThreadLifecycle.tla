-------------------------- MODULE ThreadLifecycle --------------------------
(***************************************************************************)
(* CThread: Start(), Stop() and the destructor, called by the thread that  *)
(* owns the objects, against ThreadProc() in the threads it creates.       *)
(*                                                                         *)
(* The owner never holds two calls at once.  Stop() waits for the thread   *)
(* at most x_uWait; the destructor also cancels it.  The time limits are   *)
(* taken as able to expire at any moment.                                  *)
(***************************************************************************)
EXTENDS Integers, FiniteSets

CONSTANTS
  Objs,      \* CThread objects
  MaxStarts  \* BOUND: threads the owner creates in all

ASSUME ObjsAssumption   == IsFiniteSet(Objs) /\ Objs # {}
ASSUME StartsAssumption == MaxStarts \in Nat

VARIABLES
  valid,      \* the handle of the object is not cInvalid()
  sync,       \* cSync of the current handle: ThreadProc is over
  stopFlag,   \* m_lStopFlag
  evStop,     \* m_evStop is signaled
  evInit,     \* m_evInit is signaled
  initStatus, \* m_bInitStatus
  tpc,        \* where the thread of the object is in ThreadProc
  reg,        \* its copy of m_lRunningThreadCount between load and store
  running,    \* m_lRunningThreadCount
  late,       \* calls of DoThread begun since the stop flag was set
  opc,        \* where the owner is: "idle" or inside a call
  obj,        \* the object of that call
  result,     \* what the last call returned: <<call, object, value>>
  starts,     \* threads created so far
  gone        \* objects destroyed

objVars    == <<valid, stopFlag, evStop>>
threadVars == <<sync, evInit, initStatus, tpc, reg, running, late>>
ownerVars  == <<opc, obj, result, starts, gone>>
vars       == <<valid, sync, stopFlag, evStop, evInit, initStatus, tpc, reg,
                running, late, opc, obj, result, starts, gone>>

NoResult == <<"none", "none", 0>>

Alive(o)     == tpc[o] \notin {"none", "exited"}
isRunning(o) == valid[o] /\ ~sync[o]

Init ==
  /\ valid = [o \in Objs |-> FALSE]
  /\ sync = [o \in Objs |-> FALSE]
  /\ stopFlag = [o \in Objs |-> FALSE]
  /\ evStop = [o \in Objs |-> FALSE]
  /\ evInit = [o \in Objs |-> FALSE]
  /\ initStatus = [o \in Objs |-> FALSE]
  /\ tpc = [o \in Objs |-> "none"]
  /\ reg = [o \in Objs |-> 0]
  /\ running = 0
  /\ late = [o \in Objs |-> 0]
  /\ opc = "idle"
  /\ obj \in Objs
  /\ result = NoResult
  /\ starts = 0
  /\ gone = {}

-----------------------------------------------------------------------------
(* ThreadProc, for the thread of object o.                                 *)

\* BOUND: calls after a stop request are counted up to 2.
MaxLate == 2

\* A call of DoThread begins.
CallBegins(o) ==
  late' = [late EXCEPT ![o] = IF stopFlag[o] /\ @ < MaxLate THEN @ + 1 ELSE @]

Goto(o, from, to) == tpc[o] = from /\ tpc' = [tpc EXCEPT ![o] = to]

\* m_lRunningThreadCount++ is a load and a store.
IncLoad(o) ==
  /\ Goto(o, "born", "inc")
  /\ reg' = [reg EXCEPT ![o] = running]
  /\ UNCHANGED <<objVars, sync, evInit, initStatus, running, late, ownerVars>>

IncStore(o) ==
  /\ Goto(o, "inc", "init")
  /\ running' = reg[o] + 1
  /\ UNCHANGED <<objVars, sync, evInit, initStatus, reg, late, ownerVars>>

\* InitThread succeeds, fails or throws.
InitThread(o) ==
  /\ Goto(o, "init", "inited")
  /\ \E ok \in BOOLEAN : initStatus' = [initStatus EXCEPT ![o] = ok]
  /\ UNCHANGED <<objVars, sync, evInit, reg, running, late, ownerVars>>

\* The first call of DoThread follows without a look at the stop flag.
SignalInit(o) ==
  /\ Goto(o, "inited", IF initStatus[o] THEN "do" ELSE "dec")
  /\ evInit' = [evInit EXCEPT ![o] = TRUE]
  /\ IF initStatus[o] THEN CallBegins(o) ELSE UNCHANGED late
  /\ UNCHANGED <<objVars, sync, initStatus, reg, running, ownerVars>>

\* DoThread returns a negative value and the loop ends; or it returns another
\* value, or throws, and the stop signals are looked at.
DoThread(o) ==
  /\ \E next \in {"end", "check"} : Goto(o, "do", next)
  /\ UNCHANGED <<objVars, sync, evInit, initStatus, reg, running, late, ownerVars>>

BugIgnoreFlag(o) == evStop[o]
BugIgnoreBoth(o) == FALSE

\* *getStopFlag() || !m_evStop.Wait( nSleep ): the wait may also time out.
StopSeen(o) == stopFlag[o] \/ evStop[o]

CheckStop(o) ==
  /\ StopSeen(o)
  /\ Goto(o, "check", "end")
  /\ UNCHANGED <<objVars, sync, evInit, initStatus, reg, running, late, ownerVars>>

SleepOver(o) ==
  /\ ~StopSeen(o)
  /\ Goto(o, "check", "again")
  /\ UNCHANGED <<objVars, sync, evInit, initStatus, reg, running, late, ownerVars>>

\* Back at the top of the loop; Stop() may have been called in between.
DoAgain(o) ==
  /\ Goto(o, "again", "do")
  /\ CallBegins(o)
  /\ UNCHANGED <<objVars, sync, evInit, initStatus, reg, running, ownerVars>>

\* EndThread is called only if InitThread succeeded.  It may throw, which
\* clears the init status.
EndThread(o) ==
  /\ Goto(o, "end", "dec")
  /\ initStatus' \in {initStatus, [initStatus EXCEPT ![o] = FALSE]}
  /\ UNCHANGED <<objVars, sync, evInit, reg, running, late, ownerVars>>

DecLoad(o) ==
  /\ Goto(o, "dec", "decd")
  /\ reg' = [reg EXCEPT ![o] = running]
  /\ UNCHANGED <<objVars, sync, evInit, initStatus, running, late, ownerVars>>

\* DecRunningThreadCount leaves a count of zero alone.
OneLess(count) == IF count > 0 THEN count - 1 ELSE running

DecStore(o) ==
  /\ Goto(o, "decd", "over")
  /\ running' = OneLess(reg[o])
  /\ UNCHANGED <<objVars, sync, evInit, initStatus, reg, late, ownerVars>>

\* CThreadResource::ThreadProc signals cSync as the last thing it does.
SignalSync(o) ==
  /\ Goto(o, "over", "exited")
  /\ sync' = [sync EXCEPT ![o] = TRUE]
  /\ UNCHANGED <<objVars, evInit, initStatus, reg, running, late, ownerVars>>

ThreadProc(o) ==
  \/ IncLoad(o) \/ IncStore(o) \/ InitThread(o) \/ SignalInit(o)
  \/ DoThread(o) \/ CheckStop(o) \/ SleepOver(o) \/ DoAgain(o)
  \/ EndThread(o) \/ DecLoad(o) \/ DecStore(o) \/ SignalSync(o)

-----------------------------------------------------------------------------
(* The owner.                                                              *)

Return(call, o, value) == result' = <<call, o, value>> /\ opc' = "idle"

StartRunning(o) ==
  /\ opc = "idle" /\ o \notin gone
  /\ isRunning(o)
  /\ Return("start", o, 0)
  /\ UNCHANGED <<objVars, threadVars, obj, starts, gone>>

BugKeepInit(o) == evInit

\* Start() resets m_evInit, with the stop signals of the last run.
InitReset(o) == [evInit EXCEPT ![o] = FALSE]

BugKeepSync(o) == sync

\* The new handle has an exit event of its own.
NewSync(o) == [sync EXCEPT ![o] = FALSE]

\* NewThread joins the old thread, which has exited, and creates the new one.
\* If that fails it destroys the handle it has begun.
Start(o) ==
  /\ opc = "idle" /\ o \notin gone
  /\ ~isRunning(o)
  /\ starts < MaxStarts
  /\ starts' = starts + 1
  /\ stopFlag' = [stopFlag EXCEPT ![o] = FALSE]
  /\ evStop' = [evStop EXCEPT ![o] = FALSE]
  /\ evInit' = InitReset(o)
  /\ sync' = NewSync(o)
  /\ late' = [late EXCEPT ![o] = 0]
  /\ obj' = o
  /\ \/ /\ valid' = [valid EXCEPT ![o] = TRUE]
        /\ tpc' = [tpc EXCEPT ![o] = "born"]
        /\ Return("start", o, 0)
     \/ /\ valid' = [valid EXCEPT ![o] = FALSE]
        /\ tpc' = [tpc EXCEPT ![o] = "none"]
        /\ opc' = "nothread" /\ UNCHANGED result
  /\ UNCHANGED <<initStatus, reg, running, gone>>

\* FreeRi then waits out its limits for an exit event that nobody will signal
\* and calls pthread_cancel on a handle that was never set: an error that ends
\* there, or the end of the process.  A live thread that the handle happens to
\* name takes no more steps, as any thread may.
StartFailed ==
  /\ opc = "nothread"
  /\ Return("start", obj, -1)
  /\ UNCHANGED <<objVars, threadVars, obj, starts, gone>>

\* Stop(), and the destructor, which calls it: the flag, then the event.
StopFlagSet(o, to) ==
  /\ opc = "idle" /\ o \notin gone
  /\ stopFlag' = [stopFlag EXCEPT ![o] = TRUE]
  /\ obj' = o
  /\ opc' = to
  /\ UNCHANGED <<valid, evStop, threadVars, result, starts, gone>>

BeginStop(o)    == StopFlagSet(o, "stop")
BeginDestroy(o) == StopFlagSet(o, "destroy")

SignalStop(from, to) ==
  /\ opc = from
  /\ evStop' = [evStop EXCEPT ![obj] = TRUE]
  /\ opc' = to
  /\ UNCHANGED <<valid, stopFlag, threadVars, obj, result, starts, gone>>

StopSignaled    == SignalStop("stop", "stopWait")
DestroySignaled == SignalStop("destroy", "destroyWait")

\* Destroy() of the handle: join the thread and drop the handle.
Joined(o) ==
  /\ valid' = [valid EXCEPT ![o] = FALSE]
  /\ sync' = [sync EXCEPT ![o] = FALSE]
  /\ tpc' = [tpc EXCEPT ![o] = "none"]
  /\ initStatus' = [initStatus EXCEPT ![o] = FALSE]
  /\ UNCHANGED <<stopFlag, evStop, evInit, reg, running, late>>

StopNoThread ==
  /\ opc = "stopWait"
  /\ ~valid[obj]
  /\ Return("stop", obj, 0)
  /\ UNCHANGED <<objVars, threadVars, obj, starts, gone>>

BugNotWaited == valid[obj]

\* WaitThreadExit: cSync of the handle.
ThreadExited == sync[obj]

StopJoined ==
  /\ opc = "stopWait"
  /\ valid[obj]
  /\ ThreadExited
  /\ Joined(obj)
  /\ Return("stop", obj, 0)
  /\ UNCHANGED <<obj, starts, gone>>

\* Every wait for the thread has a time limit.
WaitFails(o) == isRunning(o)

BugSuccess == 0

\* The thread did not exit in time: it is left running and -1 returned.
GaveUp == -1

StopTimedOut ==
  /\ opc = "stopWait"
  /\ WaitFails(obj)
  /\ Return("stop", obj, GaveUp)
  /\ UNCHANGED <<objVars, threadVars, obj, starts, gone>>

Destroyed ==
  /\ gone' = gone \cup {obj}
  /\ Return("destroy", obj, 0)
  /\ UNCHANGED <<obj, starts>>

DestroyNoThread ==
  /\ opc = "destroyWait"
  /\ ~valid[obj]
  /\ Destroyed
  /\ UNCHANGED <<objVars, threadVars>>

DestroyJoined ==
  /\ opc = "destroyWait"
  /\ valid[obj] /\ sync[obj]
  /\ Joined(obj)
  /\ Destroyed

\* After the last wait FreeRi calls pthread_cancel, which is asynchronous and
\* ends the thread wherever it is, and joins it.  (m_evStop and m_evInit are
\* destroyed by then, and the thread may still look at them.)
DestroyCanceled ==
  /\ opc = "destroyWait"
  /\ WaitFails(obj)
  /\ Joined(obj)
  /\ Destroyed

\* Where ThreadProc is inside a try with catch(...).
InTry(o) == tpc[o] \in {"init", "do", "end"}

\* The process ends: a cancel meets a catch(...) that does not throw on, which
\* glibc does not survive, or a handle that was never set.
Aborted ==
  /\ \/ opc = "destroyWait" /\ WaitFails(obj) /\ InTry(obj)
     \/ opc = "nothread"
  /\ opc' = "aborted"
  /\ UNCHANGED <<objVars, threadVars, obj, result, starts, gone>>

Owner ==
  \/ \E o \in Objs : StartRunning(o) \/ Start(o) \/ BeginStop(o) \/ BeginDestroy(o)
  \/ StartFailed \/ Aborted
  \/ StopSignaled \/ StopNoThread \/ StopJoined \/ StopTimedOut
  \/ DestroySignaled \/ DestroyNoThread \/ DestroyJoined \/ DestroyCanceled

\* Nobody takes a step when the process has been aborted.
Next == opc # "aborted" /\ (Owner \/ \E o \in Objs : ThreadProc(o))

Spec == Init /\ [][Next]_vars

\* A call of the owner keeps going, because every wait in it has a time limit.
\* Nothing is assumed of the threads: the users' functions may never return.
FairSpec == Spec /\ WF_vars(opc # "idle" /\ Owner)

-----------------------------------------------------------------------------
(* Properties                                                              *)

\* Types.  The count of running threads, which is read and written in two
\* steps, never goes below zero.
TypeOK ==
  /\ valid \in [Objs -> BOOLEAN] /\ sync \in [Objs -> BOOLEAN]
  /\ stopFlag \in [Objs -> BOOLEAN] /\ evStop \in [Objs -> BOOLEAN]
  /\ evInit \in [Objs -> BOOLEAN] /\ initStatus \in [Objs -> BOOLEAN]
  /\ tpc \in [Objs -> {"none", "born", "inc", "init", "inited", "do", "check",
                       "again", "end", "dec", "decd", "over", "exited"}]
  /\ reg \in [Objs -> Nat] /\ running \in Nat /\ late \in [Objs -> 0 .. MaxLate]
  /\ opc \in {"idle", "nothread", "stop", "stopWait", "destroy", "destroyWait",
             "aborted"}
  /\ obj \in Objs
  /\ starts \in 0 .. MaxStarts
  /\ gone \subseteq Objs

\* An object that does not look like running has no thread that could still
\* touch it: that is why Start() may reset the events and replace the handle.
NotRunningIsOver == \A o \in Objs : ~isRunning(o) => ~Alive(o)

\* What Stop() returns tells its caller, both ways.  After 0 the thread is
\* gone, whatever it was doing when it was asked to stop, as it is after the
\* destructor.  After any other value nothing was killed: the object has kept
\* its handle, to be stopped again or destroyed.  (The code's convention;
\* threads.h:840-847 has it the other way round and promises the kill.)
StopLeavesNoThread ==
  \A o \in Objs :
    /\ o \in gone => ~Alive(o) /\ ~valid[o]
    /\ opc = "idle" /\ result[1] = "stop" /\ result[2] = o =>
         IF result[3] = 0 THEN ~Alive(o) /\ ~valid[o] ELSE valid[o]

\* Whoever has waited for the init event of a running thread reads the result
\* of that thread's InitThread, not of an earlier one.
InitPublished ==
  \A o \in Objs :
    isRunning(o) /\ evInit[o] => tpc[o] \notin {"born", "inc", "init", "inited"}

\* After a stop request DoThread begins at most once more.
AtMostOneLateCall == \A o \in Objs : late[o] <= 1

\* A stop request reaches a thread whose functions return, even if Stop() has
\* given up waiting for it: unless it is started again, it ends.
StopReaches ==
  \A o \in Objs :
    WF_vars(ThreadProc(o)) => (stopFlag[o] ~> (~Alive(o) \/ ~stopFlag[o]))

\* The thread object keeps the contract that the pool relies on.
phaseOf == [o \in Objs |->
  IF o \in gone THEN "gone"
  ELSE IF ~valid[o] THEN "unborn"
  ELSE IF sync[o] THEN "exited"
  ELSE IF tpc[o] \in {"born", "inc", "init", "inited"} THEN "starting"
  ELSE "running"]

Contract == INSTANCE WorkerContract WITH Workers <- Objs, phase <- phaseOf

KeepsContract == Contract!Spec
=============================================================================
