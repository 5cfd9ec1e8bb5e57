---------------------------- MODULE IndexThread ----------------------------
(***************************************************************************)
(* The disk indexer of the example application.  Its pages and its thread  *)
(* talk through the property queue: the page graph posts a job and starts  *)
(* the thread, the page drives stops it, the page data asks for updates.   *)
(* Each tq::get and tq::set is a critical section of its own, so each is   *)
(* an action of its own.                                                   *)
(*                                                                         *)
(* Of the thread pool the model has what ThreadPool promises: one thread   *)
(* has the name at a time, and the next is created when the one before it  *)
(* is gone.                                                                *)
(***************************************************************************)
EXTENDS Naturals

CONSTANTS
  MaxJobs,    \* BOUND: jobs the page graph posts
  MaxThreads  \* BOUND: threads the pool creates under the name "indexer"

ASSUME JobsAssumption    == MaxJobs \in Nat
ASSUME ThreadsAssumption == MaxThreads \in Nat

NoJob   == 0
Jobs    == 1 .. MaxJobs
Threads == 1 .. MaxThreads

VARIABLES
  (* the property bag below "indexer" *)
  job,       \* indexer.job
  run,       \* indexer.job.run
  cancel,    \* indexer.job.cancel
  progress,  \* indexer.progress: has the last job been reported as done (-1)?
  update,    \* indexer.update
  (* the pages and the pool *)
  page,      \* jobs posted by a page graph that has yet to call tq::start
  named,     \* the thread that has the name "indexer", or 0
  started,   \* threads tq::start has accepted
  toStop,    \* threads tq::stop was called for
  (* the threads *)
  pc,        \* where a thread is in index_thread
  flag,      \* its stop flag
  event,     \* its stop event
  mine,      \* its copy of the job
  scan,      \* how far the tree of that job is indexed
  (* what has happened, for the properties *)
  posted,    \* the last job posted
  exposed,   \* jobs posted, or stopped, at a bad moment
  taken,     \* jobs a thread has begun
  done,      \* jobs ended, and how: "whole", "full" or "cut"
  by,        \* the thread that ended a job, or 0
  raisedBy   \* the job during which a thread's callback first raised its
             \* flag, or NoJob

bagVars  == <<job, run, cancel, progress, update>>
pageVars == <<page, named, started, toStop>>
notes    == <<posted, exposed, taken, done, by, raisedBy>>
vars == <<job, run, cancel, progress, update, page, named, started, toStop,
          pc, flag, event, mine, scan, posted, exposed, taken, done, by, raisedBy>>

Init ==
  /\ job = NoJob /\ run = FALSE /\ cancel = FALSE
  /\ progress = FALSE /\ update = FALSE
  /\ page = {} /\ named = 0 /\ started = 0 /\ toStop = {}
  /\ pc = [t \in Threads |-> "none"]
  /\ flag = [t \in Threads |-> FALSE]
  /\ event = [t \in Threads |-> FALSE]
  /\ mine = [t \in Threads |-> NoJob]
  /\ scan = [t \in Threads |-> "no"]
  /\ posted = NoJob /\ exposed = {} /\ taken = {}
  /\ done = [j \in Jobs |-> "no"]
  /\ by = [j \in Jobs |-> 0]
  /\ raisedBy = [t \in Threads |-> NoJob]

Over(t) == pc[t] \in {"none", "gone"}

-----------------------------------------------------------------------------
(* The moments at which a post is in danger: a thread has read the last job  *)
(* and has not cleared its flag yet, or a thread that is to stop has yet to *)
(* clear the whole of "indexer".                                            *)
InWindow == \E t \in Threads :
  \/ pc[t] \in {"clrCancel", "clrRun"}
  \/ ~Over(t) /\ (t \in toStop \/ event[t])
  
-----------------------------------------------------------------------------
(* The pages.                                                              *)

\* graph: post the job ...
PostJob(j) ==
  /\ j = posted + 1
  /\ posted' = j
  /\ job' = j /\ run' = TRUE /\ cancel' = TRUE
  /\ page' = page \cup {j}
  /\ exposed' = IF InWindow THEN exposed \cup {j} ELSE exposed
  /\ UNCHANGED <<progress, update, named, started, toStop, pc, flag, event,
                 mine, scan, taken, done, by, raisedBy>>

\* ... and see that the thread runs: a name that is taken is refused.
StartIndexer(j) ==
  /\ j \in page
  /\ page' = page \ {j}
  /\ IF named = 0
       THEN /\ started < MaxThreads
            /\ started' = started + 1
            /\ named' = started + 1
       ELSE UNCHANGED <<started, named>>
  /\ UNCHANGED <<bagVars, toStop, pc, flag, event, mine, scan, notes>>

\* drives: the name is free at once, the thread ends later.
StopIndexer ==
  /\ named # 0
  /\ toStop' = toStop \cup {named}
  /\ named' = 0
  /\ exposed' = exposed \cup {posted}
  /\ UNCHANGED <<bagVars, page, started, pc, flag, event, mine, scan,
                 posted, taken, done, by, raisedBy>>

\* data: another update, please.
RequestUpdate ==
  /\ update' = TRUE
  /\ UNCHANGED <<job, run, cancel, progress, pageVars, pc, flag, event, mine,
                 scan, notes>>

-----------------------------------------------------------------------------
(* The pool.                                                               *)

\* A worker is created once the one before it is gone; one that is stopped
\* before that is never created.
CreateThread(t) ==
  /\ pc[t] = "none" /\ t <= started
  /\ \A u \in Threads : u < t => pc[u] = "gone"
  /\ pc' = [pc EXCEPT ![t] = IF t \in toStop THEN "gone" ELSE "top"]
  /\ UNCHANGED <<bagVars, pageVars, flag, event, mine, scan, notes>>

\* CThread::Stop
AskToStop(t) ==
  /\ t \in toStop
  /\ ~Over(t) /\ ~event[t]
  /\ flag' = [flag EXCEPT ![t] = TRUE]
  /\ event' = [event EXCEPT ![t] = TRUE]
  /\ UNCHANGED <<bagVars, pageVars, pc, mine, scan, notes>>

\* The time limits expire: the thread is cancelled wherever it is.
CancelThread(t) ==
  /\ event[t]
  /\ ~Over(t)
  /\ pc' = [pc EXCEPT ![t] = "gone"]
  /\ UNCHANGED <<bagVars, pageVars, flag, event, mine, scan, notes>>

-----------------------------------------------------------------------------
(* index_thread.                                                           *)

Goto(t, from, to) == pc[t] = from /\ pc' = [pc EXCEPT ![t] = to]

\* getStopEvent().Wait( 100 )
Top(t) ==
  /\ Goto(t, "top", IF event[t] THEN "exit" ELSE "get")
  /\ UNCHANGED <<bagVars, pageVars, flag, event, mine, scan, notes>>

\* MUTANT: a job that is still marked as canceled is not run.
BugSkipCanceled(t) == run /\ ~cancel

\* Does the job that was read ask to be run?
WantsRun(t) == run

\* The whole of indexer.job is copied.
GetJob(t) ==
  /\ Goto(t, "get", IF WantsRun(t) THEN "clrCancel" ELSE "idle")
  /\ mine' = [mine EXCEPT ![t] = job]
  /\ taken' = IF WantsRun(t) THEN taken \cup {job} ELSE taken
  /\ UNCHANGED <<bagVars, pageVars, flag, event, scan, posted, exposed, done,
                 by, raisedBy>>

\* MUTANT: the cancel flag is left as the page set it.
BugKeepCancel(t) ==
  /\ Goto(t, "clrCancel", "clrRun")
  /\ UNCHANGED <<bagVars, pageVars, flag, event, mine, scan, notes>>

ClearCancel(t) ==
  /\ Goto(t, "clrCancel", "clrRun")
  /\ cancel' = FALSE
  /\ UNCHANGED <<job, run, progress, update, pageVars, flag, event, mine, scan,
                 notes>>

ClearRun(t) ==
  /\ Goto(t, "clrRun", "clrProgress")
  /\ run' = FALSE
  /\ UNCHANGED <<job, cancel, progress, update, pageVars, flag, event, mine,
                 scan, notes>>

\* fi.Init empties the tree.
ClearProgress(t) ==
  /\ Goto(t, "clrProgress", "index")
  /\ progress' = FALSE
  /\ scan' = [scan EXCEPT ![t] = "part"]
  /\ UNCHANGED <<job, run, cancel, update, pageVars, flag, event, mine, notes>>

\* Index finds another entry, or has no more, and calls back.
ScanOn(t) ==
  /\ ~flag[t]
  /\ scan[t] # "whole"
  /\ Goto(t, "index", "cbUpdate")
  /\ \E s \in {"part", "whole"} : scan' = [scan EXCEPT ![t] = s]
  /\ UNCHANGED <<bagVars, pageVars, flag, event, mine, notes>>

Ended(t) == IF scan[t] \in {"whole", "full"} THEN scan[t] ELSE "cut"

\* Index returns: there is nothing more to find, or the stop flag is set.  The
\* job is reported as done either way.
ScanOver(t) ==
  /\ flag[t] \/ scan[t] = "whole"
  /\ Goto(t, "index", "top")
  /\ progress' = TRUE
  /\ done' = [done EXCEPT ![mine[t]] = Ended(t)]
  /\ by' = [by EXCEPT ![mine[t]] = t]
  /\ UNCHANGED <<job, run, cancel, update, pageVars, flag, event, mine, scan,
                 posted, exposed, taken, raisedBy>>

-----------------------------------------------------------------------------
(* index_callback, from Index and, when there is no job, from the loop.    *)

\* Without a request for an update nothing else is looked at.
CallbackUpdate(t) ==
  /\ Goto(t, "cbUpdate", IF update THEN "cbClear" ELSE "index")
  /\ UNCHANGED <<bagVars, pageVars, flag, event, mine, scan, notes>>

CallbackClear(t) ==
  /\ Goto(t, "cbClear", "cbCancel")
  /\ update' = FALSE
  /\ UNCHANGED <<job, run, cancel, progress, pageVars, flag, event, mine, scan,
                 notes>>

\* Index sets its cancel flag when the callback says so, and this is the stop
\* flag of the thread.
RaiseFlag(t) ==
  /\ flag' = [flag EXCEPT ![t] = TRUE]
  /\ raisedBy' = [raisedBy EXCEPT ![t] = IF @ = NoJob THEN mine[t] ELSE @]

CallbackCanceled(t) ==
  /\ cancel
  /\ Goto(t, "cbCancel", "index")
  /\ RaiseFlag(t)
  /\ UNCHANGED <<bagVars, pageVars, event, mine, scan, posted, exposed, taken,
                 done, by>>

\* The files found are as large as what is used on the drive.
CallbackFull(t) ==
  /\ ~cancel /\ ~progress
  /\ Goto(t, "cbCancel", "index")
  /\ RaiseFlag(t)
  /\ scan' = [scan EXCEPT ![t] = IF @ = "whole" THEN @ ELSE "full"]
  /\ UNCHANGED <<bagVars, pageVars, event, mine, posted, exposed, taken, done,
                 by>>

\* The map is written for the page.
CallbackGoesOn(t) ==
  /\ ~cancel
  /\ Goto(t, "cbCancel", "index")
  /\ UNCHANGED <<bagVars, pageVars, flag, event, mine, scan, notes>>

\* No job: the callback keeps the map up to date, and its result is ignored.
IdleUpdate(t) ==
  /\ Goto(t, "idle", IF update THEN "idleClear" ELSE "top")
  /\ UNCHANGED <<bagVars, pageVars, flag, event, mine, scan, notes>>

\* MUTANT: the flags of the job are cleared with the request.
BugForgetRun(t) ==
  /\ Goto(t, "idleClear", "top")
  /\ update' = FALSE /\ run' = FALSE
  /\ UNCHANGED <<job, cancel, progress, pageVars, flag, event, mine, scan,
                 notes>>

IdleClear(t) ==
  /\ Goto(t, "idleClear", "top")
  /\ update' = FALSE
  /\ UNCHANGED <<job, run, cancel, progress, pageVars, flag, event, mine, scan,
                 notes>>

\* tq::set( "indexer", "" ) replaces everything below "indexer".
ClearAll(t) ==
  /\ Goto(t, "exit", "gone")
  /\ job' = NoJob /\ run' = FALSE /\ cancel' = FALSE
  /\ progress' = FALSE /\ update' = FALSE
  /\ UNCHANGED <<pageVars, flag, event, mine, scan, notes>>

-----------------------------------------------------------------------------
Pages ==
  \/ \E j \in Jobs : PostJob(j) \/ StartIndexer(j)
  \/ StopIndexer \/ RequestUpdate

Pool == \E t \in Threads : CreateThread(t) \/ AskToStop(t) \/ CancelThread(t)

Step(t) ==
  \/ Top(t) \/ GetJob(t) \/ ClearCancel(t) \/ ClearRun(t) \/ ClearProgress(t)
  \/ ScanOn(t) \/ ScanOver(t)
  \/ CallbackUpdate(t) \/ CallbackClear(t)
  \/ CallbackCanceled(t) \/ CallbackFull(t) \/ CallbackGoesOn(t)
  \/ IdleUpdate(t) \/ IdleClear(t) \/ ClearAll(t)

Next == Pages \/ Pool \/ \E t \in Threads : Step(t)

Spec == Init /\ [][Next]_vars

\* A page that has posted calls tq::start, the page that shows the map asks for
\* updates on a timer, the pool's manager creates and stops, and a thread runs.
FairSpec ==
  /\ Spec
  /\ \A j \in Jobs : WF_vars(StartIndexer(j))
  /\ WF_vars(RequestUpdate)
  /\ \A t \in Threads :
       WF_vars(CreateThread(t)) /\ WF_vars(AskToStop(t)) /\ WF_vars(Step(t))

-----------------------------------------------------------------------------
(* Every variable has its type. *)
TypeOK ==
  /\ job \in Jobs \cup {NoJob}
  /\ run \in BOOLEAN /\ cancel \in BOOLEAN
  /\ progress \in BOOLEAN /\ update \in BOOLEAN
  /\ page \subseteq Jobs
  /\ named \in Threads \cup {0} /\ started \in 0 .. MaxThreads
  /\ toStop \subseteq Threads
  /\ pc \in [Threads -> {"none", "top", "get", "clrCancel", "clrRun",
                         "clrProgress", "index", "cbUpdate", "cbClear",
                         "cbCancel", "idle", "idleClear", "exit", "gone"}]
  /\ flag \in [Threads -> BOOLEAN] /\ event \in [Threads -> BOOLEAN]
  /\ mine \in [Threads -> Jobs \cup {NoJob}]
  /\ scan \in [Threads -> {"no", "part", "whole", "full"}]
  /\ posted \in Jobs \cup {NoJob}
  /\ exposed \subseteq Jobs \cup {NoJob} /\ taken \subseteq Jobs \cup {NoJob}
  /\ done \in [Jobs -> {"no", "whole", "full", "cut"}]
  /\ by \in [Jobs -> Threads \cup {0}]
  /\ raisedBy \in [Threads -> Jobs \cup {NoJob}]

(* The last job posted waits in the queue, marked to be run, until a thread *)
(* takes it: none of the separate reads and writes of the pages and the     *)
(* threads loses it, but for a post into one of two windows.  The first is  *)
(* between a thread's copy of the job and the clearing of its two flags     *)
(* (index_thread.cpp:222 to 227), the second is between the stop of a       *)
(* thread and the end of it, which clears the whole of "indexer" (:253).    *)
JobNotLost ==
  posted # NoJob /\ posted \notin exposed =>
    (job = posted /\ run) \/ posted \in taken

(* A job is reported as done before its tree is whole only when there is a  *)
(* newer one, when its thread is asked to stop, or when the callback of its *)
(* thread raised the stop flag during an EARLIER job: that flag is the      *)
(* cancel flag of Index (index_thread.cpp:236, file_index.cpp:476), and     *)
(* nothing lowers it again.                                                 *)
JobScanned ==
  \A j \in Jobs : done[j] = "cut" =>
    posted > j \/ by[j] \in toStop \/ raisedBy[by[j]] \in 1 .. j - 1

(* A job is taken in the end, whatever an earlier job's thread is doing:    *)
(* its scan ends with the next update (the cancel flag), or its end lets    *)
(* the next thread be created.  But for the two windows, a newer job, and   *)
(* the bound on threads.                                                    *)
JobTaken ==
  \A j \in Jobs :
    posted = j ~> \/ j \in taken \cup exposed
                  \/ posted # j
                  \/ named = 0 /\ started = MaxThreads
=============================================================================
