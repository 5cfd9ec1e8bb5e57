----------------------------- MODULE SyncEvent -----------------------------
(***************************************************************************)
(* The event of CThreadResource on POSIX: a flag, a mutex and a condition  *)
(* variable.  Wait() and Signal() of a manual reset event take the mutex;  *)
(* Reset(), the first look of Wait() and Signal() of an automatic reset    *)
(* event do not.                                                           *)
(***************************************************************************)
EXTENDS Integers, FiniteSets

CONSTANTS
  Waiters,     \* threads that call Wait()
  Signalers,   \* threads that call Signal()
  NoThread     \* holds the mutex when nobody does

ASSUME ThreadsAssumption ==
  /\ Waiters \cap Signalers = {}
  /\ NoThread \notin Waiters \cup Signalers

Threads == Waiters \cup Signalers

VARIABLES
  manual,   \* bmanual
  signaled, \* bSignaled
  mutex,    \* the thread that holds cSync
  asleep,   \* waiters in pthread_cond_timedwait
  pc,       \* where each thread is
  result    \* what the last Wait() of each waiter returned

eventVars == <<manual, signaled, mutex, asleep, pc, result>>

Results == {"none", "success", "timeout", "failed"}

EventInit ==
  /\ manual \in BOOLEAN
  /\ signaled = FALSE
  /\ mutex = NoThread
  /\ asleep = {}
  /\ pc = [t \in Threads |-> "out"]
  /\ result = [w \in Waiters |-> "none"]

Goto(t, l) == pc' = [pc EXCEPT ![t] = l]

Returns(w, r) ==
  /\ Goto(w, "out")
  /\ result' = [result EXCEPT ![w] = r]

Lock(t) == mutex = NoThread /\ mutex' = t

Unlocked == NoThread

-----------------------------------------------------------------------------
(* Wait                                                                    *)

\* "Try to get out for free".
WaitFree(w) ==
  /\ pc[w] = "out"
  /\ IF signaled
       THEN Returns(w, "success")
       ELSE \/ manual /\ Returns(w, "timeout")
            \/ Goto(w, "lock") /\ UNCHANGED result
  /\ UNCHANGED <<manual, signaled, mutex, asleep>>

WaitLock(w) ==
  /\ pc[w] = "lock"
  /\ \/ Lock(w) /\ Goto(w, "check") /\ UNCHANGED result
     \/ mutex # NoThread /\ Returns(w, "failed") /\ UNCHANGED mutex
  /\ UNCHANGED <<manual, signaled, asleep>>

BugNoRecheck == FALSE

\* "Ensure it wasn't signaled while we were waiting".
SignaledMeanwhile == signaled

WaitCheck(w) ==
  /\ pc[w] = "check"
  /\ IF SignaledMeanwhile
       THEN Returns(w, "success") /\ mutex' = Unlocked
       ELSE Goto(w, "sleep") /\ UNCHANGED <<mutex, result>>
  /\ UNCHANGED <<manual, signaled, asleep>>

\* pthread_cond_timedwait lets go of the mutex as it goes to sleep.
WaitSleep(w) ==
  /\ pc[w] = "sleep"
  /\ asleep' = asleep \cup {w}
  /\ mutex' = Unlocked
  /\ Goto(w, "asleep")
  /\ UNCHANGED <<manual, signaled, result>>

\* ... and may wake up for no reason.
WakeUp(w) ==
  /\ w \in asleep
  /\ asleep' = asleep \ {w}
  /\ Goto(w, "awake")
  /\ UNCHANGED <<manual, signaled, mutex, result>>

TimeOut(w) ==
  /\ w \in asleep
  /\ asleep' = asleep \ {w}
  /\ Goto(w, "late")
  /\ UNCHANGED <<manual, signaled, mutex, result>>

\* Before it returns, it takes the mutex again; ~CScopeLock frees it.
WaitReturns(w) ==
  /\ pc[w] \in {"released", "awake", "late"}
  /\ mutex = NoThread
  /\ Returns(w, IF signaled /\ pc[w] # "late" THEN "success" ELSE "timeout")
  /\ UNCHANGED <<manual, signaled, mutex, asleep>>

-----------------------------------------------------------------------------
(* Signal and Reset                                                        *)

\* The waiters S are woken.
Release(S) ==
  /\ asleep' = asleep \ S
  /\ pc' = [t \in Threads |-> IF t \in S THEN "released" ELSE pc[t]]

SignalLock(s) ==
  /\ manual
  /\ pc[s] = "out"
  /\ Lock(s)
  /\ Goto(s, "set")
  /\ UNCHANGED <<manual, signaled, asleep, result>>

SignalSet(s) ==
  /\ pc[s] = "set"
  /\ signaled' = TRUE
  /\ Goto(s, "wake")
  /\ UNCHANGED <<manual, mutex, asleep, result>>

BugWakesOne == IF asleep = {} THEN {} ELSE {CHOOSE w \in asleep : TRUE}

\* pthread_cond_broadcast
Woken == asleep

SignalWake(s) ==
  /\ pc[s] = "wake"
  /\ asleep' = asleep \ Woken
  /\ pc' = [t \in Threads |->
              IF t \in Woken THEN "released" ELSE IF t = s THEN "out" ELSE pc[t]]
  /\ mutex' = Unlocked
  /\ UNCHANGED <<manual, signaled, result>>

\* "Auto reset releases only one thread".
SignalAuto(s) ==
  /\ ~manual
  /\ signaled' = FALSE
  /\ IF asleep = {} THEN UNCHANGED <<asleep, pc>> ELSE \E w \in asleep : Release({w})
  /\ UNCHANGED <<manual, mutex, result>>

Reset ==
  /\ signaled' = FALSE
  /\ UNCHANGED <<manual, mutex, asleep, pc, result>>

-----------------------------------------------------------------------------
Wait(w) ==
  \/ WaitFree(w) \/ WaitLock(w) \/ WaitCheck(w) \/ WaitSleep(w)
  \/ WakeUp(w) \/ TimeOut(w) \/ WaitReturns(w)

Signal(s) == SignalLock(s) \/ SignalSet(s) \/ SignalWake(s) \/ SignalAuto(s)

EventNext ==
  \/ \E w \in Waiters : Wait(w)
  \/ \E s \in Signalers : Signal(s)
  \/ Reset

EventSpec == EventInit /\ [][EventNext]_eventVars

\* A thread that has begun a call goes on with it, and a mutex that is free
\* again and again is got.  No timeout is counted on.
EventFairSpec ==
  /\ EventSpec
  /\ \A w \in Waiters :
       /\ SF_eventVars(WaitLock(w) /\ mutex = NoThread) /\ WF_eventVars(WaitCheck(w))
       /\ WF_eventVars(WaitSleep(w)) /\ SF_eventVars(WaitReturns(w))
  /\ \A s \in Signalers : WF_eventVars(SignalSet(s)) /\ WF_eventVars(SignalWake(s))

-----------------------------------------------------------------------------
(* Properties                                                              *)

WaitLabels   == {"out", "lock", "check", "sleep", "asleep", "released", "awake", "late"}
SignalLabels == {"out", "set", "wake"}

Inside(t) == pc[t] \in {"check", "sleep", "set", "wake"}

\* Types.  The mutex is held by the thread that is between its lock and its
\* unlock.
EventTypeOK ==
  /\ manual \in BOOLEAN /\ signaled \in BOOLEAN
  /\ mutex \in Threads \cup {NoThread}
  /\ asleep \subseteq Waiters
  /\ pc \in [Threads -> WaitLabels \cup SignalLabels]
  /\ result \in [Waiters -> Results]
  /\ \A t \in Threads : Inside(t) <=> mutex = t

\* No wake-up is lost: while the event is signaled nobody sleeps in Wait(),
\* except before the broadcast of the very Signal() that has set the flag.
NoLostWakeup ==
  signaled /\ (\A s \in Signalers : pc[s] # "wake") => asleep = {}

\* As long as a manual reset event stays signaled, every waiter is let go,
\* without waiting for its time limit.
SignalReleases ==
  \A w \in Waiters :
    (signaled /\ pc[w] = "asleep") ~> (pc[w] = "out" \/ ~signaled)

=============================================================================
