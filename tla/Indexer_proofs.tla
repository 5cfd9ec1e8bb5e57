--------------------------- MODULE Indexer_proofs ---------------------------
(***************************************************************************)
(* The example's indexer: the thread that takes the jobs, and the index it *)
(* builds.                                                                 *)
(*                                                                         *)
(* IndexThread is type correct, loses no job outside of its two windows,   *)
(* and ends none early without a reason, for any numbers of jobs and       *)
(* threads.                                                                *)
(*                                                                         *)
(* FileIndex, for any number of blocks and any sizes of files, is type     *)
(* correct, keeps the size of every directory right and implements the     *)
(* tree of its users; it loses no block when its buffer is no multiple of  *)
(* a block in size.                                                        *)
(***************************************************************************)
EXTENDS IndexThread, FileIndex, FiniteSetTheorems, WellFoundedInduction, TLAPS

-----------------------------------------------------------------------------
(* The thread.                                                             *)

Clearing == {"clrCancel", "clrRun"}
Scanning == {"index", "cbUpdate", "cbClear", "cbCancel"}
Labels   == {"none", "top", "get", "clrCancel", "clrRun", "clrProgress", "index",
             "cbUpdate", "cbClear", "cbCancel", "idle", "idleClear", "exit", "gone"}

(* Why no job is lost: whoever clears a flag does it while the last job is  *)
(* taken or exposed.                                                        *)
Marked      == posted = NoJob => ~run
Cleared     == \A t \in Threads : pc[t] \in Clearing => posted \in exposed \cup taken
Stopping    == \A t \in Threads : t \in toStop /\ ~Over(t) => posted \in exposed
EventIsStop == \A t \in Threads : event[t] => t \in toStop
ExitIsStop  == \A t \in Threads : pc[t] = "exit" => event[t]

LostInv == Marked /\ Cleared /\ Stopping /\ EventIsStop /\ ExitIsStop /\ JobNotLost

(* Why no job ends early: a cancel flag seen during a scan belongs to a     *)
(* newer job, and a flag raised during this job comes with one or with a    *)
(* tree that is whole or full.                                              *)
Ordered    == /\ job <= posted /\ (run => job # NoJob)
              /\ \A t \in Threads : mine[t] <= posted /\ raisedBy[t] <= posted
HasJob     == \A t \in Threads :
                pc[t] \in Clearing \cup Scanning \cup {"clrProgress"} => mine[t] # NoJob
NewCancel  == \A t \in Threads :
                pc[t] \in Scanning \cup {"clrRun", "clrProgress"} /\ cancel =>
                  posted > mine[t]
NewRun     == \A t \in Threads :
                pc[t] \in Scanning \cup {"clrProgress"} /\ run => job > mine[t]
FlagReason == \A t \in Threads :
                /\ flag[t] => t \in toStop \/ raisedBy[t] # NoJob
                /\ raisedBy[t] # NoJob => flag[t]
RaisedOld  == \A t \in Threads : run => job > raisedBy[t]
RaisedWhen == \A t \in Threads :
                /\ pc[t] \in Clearing \cup {"clrProgress"} => raisedBy[t] < mine[t]
                /\ pc[t] \in Scanning =>
                     \/ raisedBy[t] < mine[t]
                     \/ posted > mine[t]
                     \/ scan[t] \in {"whole", "full"}

ScanInv == /\ Ordered /\ HasJob /\ NewCancel /\ NewRun /\ FlagReason
           /\ RaisedOld /\ RaisedWhen /\ JobScanned

IInv == TypeOK /\ LostInv /\ ScanInv

\* Initially nothing is posted.
LEMMA InitInv == Init => IInv
<1> SUFFICES ASSUME Init PROVE IInv
  OBVIOUS
<1>1. TypeOK
  <2>1. /\ pc \in [Threads -> {"none"}] /\ scan \in [Threads -> {"no"}]
        /\ done \in [Jobs -> {"no"}]
    BY DEF Init
  <2>2. /\ flag \in [Threads -> BOOLEAN] /\ event \in [Threads -> BOOLEAN]
        /\ mine \in [Threads -> Jobs \cup {NoJob}]
        /\ raisedBy \in [Threads -> Jobs \cup {NoJob}]
        /\ by \in [Jobs -> Threads \cup {0}]
    BY DEF Init
  <2>3. /\ pc \in [Threads -> Labels] /\ scan \in [Threads -> {"no", "part", "whole", "full"}]
        /\ done \in [Jobs -> {"no", "whole", "full", "cut"}]
    BY <2>1 DEF Labels
  <2>4. started \in 0 .. MaxThreads
    BY ThreadsAssumption DEF Init
  <2> QED BY <2>2, <2>3, <2>4 DEF Init, TypeOK, Labels
<1>2. LostInv
  BY DEF Init, LostInv, Marked, Cleared, Stopping, EventIsStop, ExitIsStop, JobNotLost,
         Clearing, Over
<1>3. ScanInv
  BY DEF Init, ScanInv, Ordered, HasJob, NewCancel, NewRun, FlagReason, RaisedOld,
         RaisedWhen, JobScanned, Clearing, Scanning, NoJob
<1> QED BY <1>1, <1>2, <1>3 DEF IInv

\* How the label of one thread changes when it goes elsewhere.
LEMMA GotoOne ==
  ASSUME TypeOK, NEW t \in Threads, NEW from, NEW to \in Labels, Goto(t, from, to)
  PROVE  /\ pc' \in [Threads -> Labels]
         /\ pc[t] = from /\ pc'[t] = to
         /\ \A u \in Threads : u # t => pc'[u] = pc[u]
BY DEF TypeOK, Goto, Labels

-----------------------------------------------------------------------------
\* Every step keeps the types.
LEMMA TypeStep == ASSUME TypeOK, [Next]_vars PROVE TypeOK'
<1> USE JobsAssumption, ThreadsAssumption DEF TypeOK, Jobs, Threads, NoJob
<1>1. ASSUME NEW j \in Jobs, PostJob(j) PROVE TypeOK'
  BY <1>1 DEF PostJob
<1>2. ASSUME NEW j \in Jobs, StartIndexer(j) PROVE TypeOK'
  BY <1>2 DEF StartIndexer, bagVars, notes
<1>3. CASE StopIndexer
  BY <1>3 DEF StopIndexer, bagVars
<1>4. CASE RequestUpdate
  BY <1>4 DEF RequestUpdate, pageVars, notes
<1>5. ASSUME NEW t \in Threads, CreateThread(t) PROVE TypeOK'
  BY <1>5 DEF CreateThread, bagVars, pageVars, notes
<1>6. ASSUME NEW t \in Threads, AskToStop(t) PROVE TypeOK'
  BY <1>6 DEF AskToStop, bagVars, pageVars, notes
<1>7. ASSUME NEW t \in Threads, CancelThread(t) PROVE TypeOK'
  BY <1>7 DEF CancelThread, bagVars, pageVars, notes
<1>8. ASSUME NEW t \in Threads, Step(t) PROVE TypeOK'
  <2> USE <1>8 DEF Goto, bagVars, pageVars, notes
  <2>1. CASE Top(t)
    BY <2>1 DEF Top
  <2>2. CASE GetJob(t)
    BY <2>2 DEF GetJob
  <2>3. CASE ClearCancel(t) \/ ClearRun(t) \/ IdleClear(t) \/ ClearAll(t)
    BY <2>3 DEF ClearCancel, ClearRun, IdleClear, ClearAll
  <2>4. CASE ClearProgress(t)
    BY <2>4 DEF ClearProgress
  <2>5. CASE ScanOn(t)
    BY <2>5 DEF ScanOn
  <2>6. CASE ScanOver(t)
    <3>1. Ended(t) \in {"whole", "full", "cut"}
      BY DEF Ended
    <3> QED BY <2>6, <3>1 DEF ScanOver
  <2>7. CASE CallbackUpdate(t) \/ CallbackClear(t) \/ CallbackGoesOn(t) \/ IdleUpdate(t)
    BY <2>7 DEF CallbackUpdate, CallbackClear, CallbackGoesOn, IdleUpdate
  <2>8. CASE CallbackCanceled(t)
    BY <2>8 DEF CallbackCanceled, RaiseFlag
  <2>9. CASE CallbackFull(t)
    BY <2>9 DEF CallbackFull, RaiseFlag
  <2> QED BY <2>1, <2>2, <2>3, <2>4, <2>5, <2>6, <2>7, <2>8, <2>9 DEF Step
<1>9. CASE UNCHANGED vars
  BY <1>9 DEF vars
<1> QED BY <1>1, <1>2, <1>3, <1>4, <1>5, <1>6, <1>7, <1>8, <1>9 DEF Next, Pages, Pool

-----------------------------------------------------------------------------
\* Every step keeps the last job marked, taken or exposed.
LEMMA LostStep == ASSUME IInv, [Next]_vars PROVE LostInv'
<1>t. TypeOK /\ LostInv
  BY DEF IInv
<1> USE <1>t DEF LostInv, Marked, Cleared, Stopping, EventIsStop, ExitIsStop, JobNotLost,
                 Clearing, Over
<1>1. ASSUME NEW j \in Jobs, PostJob(j) PROVE LostInv'
  BY <1>1, JobsAssumption DEF PostJob, InWindow, Jobs, NoJob
<1>2. ASSUME NEW j \in Jobs, StartIndexer(j) PROVE LostInv'
  BY <1>2 DEF StartIndexer, bagVars, notes
<1>3. CASE StopIndexer
  BY <1>3 DEF StopIndexer, bagVars
<1>4. CASE RequestUpdate
  BY <1>4 DEF RequestUpdate, pageVars, notes
<1>5. ASSUME NEW t \in Threads, CreateThread(t) PROVE LostInv'
  BY <1>5 DEF CreateThread, bagVars, pageVars, notes, TypeOK
<1>6. ASSUME NEW t \in Threads, AskToStop(t) PROVE LostInv'
  BY <1>6 DEF AskToStop, bagVars, pageVars, notes, TypeOK
<1>7. ASSUME NEW t \in Threads, CancelThread(t) PROVE LostInv'
  BY <1>7 DEF CancelThread, bagVars, pageVars, notes, TypeOK
<1>8. ASSUME NEW t \in Threads, Step(t) PROVE LostInv'
  <2> DEFINE Goes(from, to) ==
        /\ pc[t] = from /\ pc'[t] = to
        /\ \A u \in Threads : u # t => pc'[u] = pc[u]
  <2>0. ASSUME NEW from, NEW to \in Labels, Goto(t, from, to) PROVE Goes(from, to)
    BY <2>0, GotoOne
  <2> USE DEF bagVars, pageVars, notes
  <2>1. CASE Top(t)
    <3>1. Goes("top", IF event[t] THEN "exit" ELSE "get")
      BY <2>0, <2>1 DEF Top, Labels
    <3> QED BY <2>1, <3>1 DEF Top
  <2>2. CASE GetJob(t)
    <3>1. Goes("get", IF run THEN "clrCancel" ELSE "idle")
      BY <2>0, <2>2 DEF GetJob, WantsRun, Labels
    <3> QED BY <2>2, <3>1 DEF GetJob, WantsRun
  <2>3. CASE ClearCancel(t)
    <3>1. Goes("clrCancel", "clrRun")
      BY <2>0, <2>3 DEF ClearCancel, Labels
    <3> QED BY <2>3, <3>1 DEF ClearCancel
  <2>4. CASE ClearRun(t)
    <3>1. Goes("clrRun", "clrProgress")
      BY <2>0, <2>4 DEF ClearRun, Labels
    <3> QED BY <2>4, <3>1 DEF ClearRun
  <2>5. CASE ClearProgress(t)
    <3>1. Goes("clrProgress", "index")
      BY <2>0, <2>5 DEF ClearProgress, Labels
    <3> QED BY <2>5, <3>1 DEF ClearProgress
  <2>6. CASE ScanOn(t)
    <3>1. Goes("index", "cbUpdate")
      BY <2>0, <2>6 DEF ScanOn, Labels
    <3> QED BY <2>6, <3>1 DEF ScanOn
  <2>7. CASE ScanOver(t)
    <3>1. Goes("index", "top")
      BY <2>0, <2>7 DEF ScanOver, Labels
    <3> QED BY <2>7, <3>1 DEF ScanOver
  <2>8. CASE CallbackUpdate(t)
    <3>1. Goes("cbUpdate", IF update THEN "cbClear" ELSE "index")
      BY <2>0, <2>8 DEF CallbackUpdate, Labels
    <3> QED BY <2>8, <3>1 DEF CallbackUpdate
  <2>9. CASE CallbackClear(t)
    <3>1. Goes("cbClear", "cbCancel")
      BY <2>0, <2>9 DEF CallbackClear, Labels
    <3> QED BY <2>9, <3>1 DEF CallbackClear
  <2>10. CASE CallbackCanceled(t) \/ CallbackFull(t) \/ CallbackGoesOn(t)
    <3>1. Goes("cbCancel", "index")
      BY <2>0, <2>10 DEF CallbackCanceled, CallbackFull, CallbackGoesOn, Labels
    <3> QED BY <2>10, <3>1 DEF CallbackCanceled, CallbackFull, CallbackGoesOn, RaiseFlag
  <2>11. CASE IdleUpdate(t)
    <3>1. Goes("idle", IF update THEN "idleClear" ELSE "top")
      BY <2>0, <2>11 DEF IdleUpdate, Labels
    <3> QED BY <2>11, <3>1 DEF IdleUpdate
  <2>12. CASE IdleClear(t)
    <3>1. Goes("idleClear", "top")
      BY <2>0, <2>12 DEF IdleClear, Labels
    <3> QED BY <2>12, <3>1 DEF IdleClear
  <2>13. CASE ClearAll(t)
    <3>1. Goes("exit", "gone")
      BY <2>0, <2>13 DEF ClearAll, Labels
    <3>2. posted \in exposed
      BY <3>1
    <3> QED BY <2>13, <3>1, <3>2 DEF ClearAll
  <2> HIDE DEF LostInv
  <2> QED BY <1>8, <2>1, <2>2, <2>3, <2>4, <2>5, <2>6, <2>7, <2>8, <2>9, <2>10, <2>11,
             <2>12, <2>13 DEF Step
<1>9. CASE UNCHANGED vars
  BY <1>9 DEF vars
<1> HIDE DEF LostInv
<1> QED BY <1>1, <1>2, <1>3, <1>4, <1>5, <1>6, <1>7, <1>8, <1>9 DEF Next, Pages, Pool

-----------------------------------------------------------------------------
\* Every step keeps a reason for each job that ended early.
LEMMA ScanStep == ASSUME IInv, [Next]_vars PROVE ScanInv'
<1>t. TypeOK /\ LostInv /\ ScanInv
  BY DEF IInv
<1>n. NoJob = 0 /\ Jobs \subseteq Nat \ {0} /\ Threads \subseteq Nat \ {0} /\ MaxJobs \in Nat
  BY JobsAssumption, ThreadsAssumption DEF Jobs, Threads, NoJob
<1>m. /\ job \in Nat /\ posted \in Nat
      /\ mine \in [Threads -> Nat] /\ raisedBy \in [Threads -> Nat]
      /\ pc \in [Threads -> Labels] /\ scan \in [Threads -> {"no", "part", "whole", "full"}]
      /\ flag \in [Threads -> BOOLEAN] /\ event \in [Threads -> BOOLEAN]
      /\ by \in [Jobs -> Nat] /\ done \in [Jobs -> {"no", "whole", "full", "cut"}]
      /\ run \in BOOLEAN /\ cancel \in BOOLEAN
  <2>1. Jobs \cup {NoJob} \subseteq Nat /\ Threads \cup {0} \subseteq Nat
    BY <1>n
  <2> QED BY <1>t, <2>1 DEF TypeOK, Labels
<1> USE <1>m, <1>n DEF Clearing, Scanning
<1>o. Ordered /\ HasJob /\ NewCancel /\ NewRun /\ FlagReason /\ RaisedOld /\ RaisedWhen /\ JobScanned
  BY <1>t DEF ScanInv
<1> USE <1>o DEF Ordered, HasJob, NewCancel, NewRun, FlagReason, RaisedOld, RaisedWhen, JobScanned
<1>1. ASSUME NEW j \in Jobs, PostJob(j) PROVE ScanInv'
  <2>1. posted' = posted + 1 /\ job' = posted' /\ UNCHANGED <<mine, raisedBy, pc, flag, toStop, scan, done, by>>
    BY <1>1 DEF PostJob
  <2> QED BY <2>1 DEF ScanInv
<1>2. ASSUME NEW j \in Jobs, StartIndexer(j) PROVE ScanInv'
  BY <1>2 DEF StartIndexer, bagVars, notes, ScanInv
<1>3. CASE StopIndexer
  BY <1>3 DEF StopIndexer, bagVars, ScanInv
<1>4. CASE RequestUpdate
  BY <1>4 DEF RequestUpdate, pageVars, notes, ScanInv
<1>5. ASSUME NEW t \in Threads, CreateThread(t) PROVE ScanInv'
  BY <1>5 DEF CreateThread, bagVars, pageVars, notes, ScanInv
<1>6. ASSUME NEW t \in Threads, AskToStop(t) PROVE ScanInv'
  BY <1>6 DEF AskToStop, bagVars, pageVars, notes, ScanInv
<1>7. ASSUME NEW t \in Threads, CancelThread(t) PROVE ScanInv'
  BY <1>7 DEF CancelThread, bagVars, pageVars, notes, ScanInv
<1>8. ASSUME NEW t \in Threads, Step(t) PROVE ScanInv'
  <2> DEFINE Goes(from, to) ==
        /\ pc[t] = from /\ pc'[t] = to
        /\ \A u \in Threads : u # t => pc'[u] = pc[u]
  <2>0. ASSUME NEW from, NEW to \in Labels, Goto(t, from, to) PROVE Goes(from, to)
    BY <2>0, <1>t, GotoOne
  <2> USE DEF bagVars, pageVars, notes, ScanInv
  <2>1. CASE Top(t)
    <3>1. Goes("top", IF event[t] THEN "exit" ELSE "get")
      BY <2>0, <2>1 DEF Top, Labels
    <3> QED BY <2>1, <3>1 DEF Top
  <2>2. CASE GetJob(t)
    <3>1. Goes("get", IF run THEN "clrCancel" ELSE "idle")
      BY <2>0, <2>2 DEF GetJob, WantsRun, Labels
    <3> QED BY <2>2, <3>1 DEF GetJob, WantsRun
  <2>3. CASE ClearCancel(t)
    <3>1. Goes("clrCancel", "clrRun")
      BY <2>0, <2>3 DEF ClearCancel, Labels
    <3> QED BY <2>3, <3>1 DEF ClearCancel
  <2>4. CASE ClearRun(t)
    <3>1. Goes("clrRun", "clrProgress")
      BY <2>0, <2>4 DEF ClearRun, Labels
    <3> QED BY <2>4, <3>1 DEF ClearRun
  <2>5. CASE ClearProgress(t)
    <3>1. Goes("clrProgress", "index")
      BY <2>0, <2>5 DEF ClearProgress, Labels
    <3> QED BY <2>5, <3>1 DEF ClearProgress
  <2>6. CASE ScanOn(t)
    <3>1. Goes("index", "cbUpdate")
      BY <2>0, <2>6 DEF ScanOn, Labels
    <3>2. raisedBy[t] < mine[t]
      BY <2>6, <3>1 DEF ScanOn
    <3> QED BY <2>6, <3>1, <3>2 DEF ScanOn
  <2>7. CASE ScanOver(t)
    <3>1. Goes("index", "top")
      BY <2>0, <2>7 DEF ScanOver, Labels
    <3>2. mine[t] \in Jobs
      BY <3>1, <1>t DEF TypeOK
    <3>3. Ended(t) = "cut" =>
            posted > mine[t] \/ t \in toStop \/ raisedBy[t] \in 1 .. mine[t] - 1
      BY <2>7, <3>1 DEF ScanOver, Ended
    <3>4. \A j \in Jobs : j # mine[t] => done'[j] = done[j] /\ by'[j] = by[j]
      BY <2>7, <3>2 DEF ScanOver
    <3>5. done'[mine[t]] = Ended(t) /\ by'[mine[t]] = t
      BY <2>7, <3>2 DEF ScanOver
    <3>6. UNCHANGED <<posted, toStop, raisedBy>>
      BY <2>7 DEF ScanOver
    <3>7. JobScanned'
      BY <3>3, <3>4, <3>5, <3>6
    <3>8. (Ordered /\ HasJob /\ NewCancel /\ NewRun /\ FlagReason /\ RaisedOld /\ RaisedWhen)'
      BY <2>7, <3>1 DEF ScanOver
    <3> QED BY <3>7, <3>8
  <2>8. CASE CallbackUpdate(t)
    <3>1. Goes("cbUpdate", IF update THEN "cbClear" ELSE "index")
      BY <2>0, <2>8 DEF CallbackUpdate, Labels
    <3> QED BY <2>8, <3>1 DEF CallbackUpdate
  <2>9. CASE CallbackClear(t)
    <3>1. Goes("cbClear", "cbCancel")
      BY <2>0, <2>9 DEF CallbackClear, Labels
    <3> QED BY <2>9, <3>1 DEF CallbackClear
  <2>10. CASE CallbackCanceled(t)
    <3>1. Goes("cbCancel", "index")
      BY <2>0, <2>10 DEF CallbackCanceled, Labels
    <3> QED BY <2>10, <3>1 DEF CallbackCanceled, RaiseFlag
  <2>11. CASE CallbackFull(t)
    <3>1. Goes("cbCancel", "index")
      BY <2>0, <2>11 DEF CallbackFull, Labels
    <3> QED BY <2>11, <3>1 DEF CallbackFull, RaiseFlag
  <2>12. CASE CallbackGoesOn(t)
    <3>1. Goes("cbCancel", "index")
      BY <2>0, <2>12 DEF CallbackGoesOn, Labels
    <3> QED BY <2>12, <3>1 DEF CallbackGoesOn
  <2>13. CASE IdleUpdate(t)
    <3>1. Goes("idle", IF update THEN "idleClear" ELSE "top")
      BY <2>0, <2>13 DEF IdleUpdate, Labels
    <3> QED BY <2>13, <3>1 DEF IdleUpdate
  <2>14. CASE IdleClear(t)
    <3>1. Goes("idleClear", "top")
      BY <2>0, <2>14 DEF IdleClear, Labels
    <3> QED BY <2>14, <3>1 DEF IdleClear
  <2>15. CASE ClearAll(t)
    <3>1. Goes("exit", "gone")
      BY <2>0, <2>15 DEF ClearAll, Labels
    <3> QED BY <2>15, <3>1 DEF ClearAll
  <2> HIDE DEF ScanInv
  <2> QED BY <1>8, <2>1, <2>2, <2>3, <2>4, <2>5, <2>6, <2>7, <2>8, <2>9, <2>10, <2>11,
             <2>12, <2>13, <2>14, <2>15 DEF Step
<1>9. CASE UNCHANGED vars
  BY <1>9 DEF vars, ScanInv
<1> QED BY <1>1, <1>2, <1>3, <1>4, <1>5, <1>6, <1>7, <1>8, <1>9 DEF Next, Pages, Pool

-----------------------------------------------------------------------------
\* The invariant is inductive.
THEOREM Invariant == Spec => []IInv
<1>1. IInv /\ [Next]_vars => IInv'
  <2> SUFFICES ASSUME IInv, [Next]_vars PROVE IInv'
    OBVIOUS
  <2> QED BY TypeStep, LostStep, ScanStep DEF IInv
<1> QED BY InitInv, <1>1, PTL DEF Spec

\* Every variable of the indexer has its type.
THEOREM TypeCorrect == Spec => []TypeOK
<1>1. IInv => TypeOK
  BY DEF IInv
<1> QED BY Invariant, <1>1, PTL

\* The last job posted waits in the queue until a thread takes it, but for the
\* two windows in which index_thread clears what it has not read.
THEOREM JobKept == Spec => []JobNotLost
<1>1. IInv => JobNotLost
  BY DEF IInv, LostInv
<1> QED BY Invariant, <1>1, PTL

\* A job that ends before its tree is whole has been replaced, its thread is to
\* stop, or its thread still has the flag a cancel before this job has raised.
THEOREM EarlyEnd == Spec => []JobScanned
<1>1. IInv => JobScanned
  BY DEF IInv, ScanInv
<1> QED BY Invariant, <1>1, PTL

-----------------------------------------------------------------------------
(* The index.                                                              *)

\* A non-empty set of naturals has a least element.
LEMMA LeastOf ==
  ASSUME NEW I, I \subseteq Nat, I # {}
  PROVE  \E i \in I : \A j \in I : i <= j
<1> DEFINE Less == OpToRel(<, Nat)
<1>1. IsWellFoundedOn(Less, Nat)
  BY NatLessThanWellFounded
<1>2. \A i, j \in Nat : i < j => <<i, j>> \in Less
  BY DEF OpToRel
<1> HIDE DEF Less
<1>3. \E i \in I : \A j \in I : <<j, i>> \notin Less
  BY <1>1, WFMin
<1>4. PICK i \in I : \A j \in I : <<j, i>> \notin Less
  BY <1>3
<1>5. \A j \in I : ~(j < i)
  BY <1>2, <1>4
<1>6. \A j \in I : i \in Nat /\ j \in Nat
  BY <1>4
<1>7. \A j \in I : i <= j
  BY <1>5, <1>6
<1> QED BY <1>4, <1>7

\* Induction, for a set in place of a predicate.
LEMMA AllNaturals ==
  ASSUME NEW P, 0 \in P, \A n \in Nat : n \in P => n + 1 \in P
  PROVE  \A n \in Nat : n \in P
<1> SUFFICES ASSUME Nat \ P # {}
             PROVE  FALSE
  OBVIOUS
<1>1. PICK i \in Nat \ P : \A j \in Nat \ P : i <= j
  BY LeastOf
<1>2. i # 0 /\ i - 1 \in Nat
  BY <1>1
<1>3. i - 1 \in P
  BY <1>1, <1>2
<1>4. (i - 1) + 1 = i
  BY <1>1
<1> QED BY <1>1, <1>2, <1>3, <1>4

\* The values of g begin with v, and F makes each from the one before it.
IsMadeBy(g, V, v, F) ==
  /\ g \in [Nat -> V]
  /\ g[0] = v
  /\ \A n \in Nat : g[n + 1] = F[<<n, g[n]>>]

\* What is defined by recursion on a natural exists.
LEMMA Recursion ==
  ASSUME NEW V, NEW v \in V, NEW F \in [Nat \X V -> V]
  PROVE  \E g : IsMadeBy(g, V, v, F)
<1> DEFINE Good(h, n) == /\ h \in [0 .. n -> V]
                         /\ h[0] = v
                         /\ \A k \in 0 .. n - 1 : h[k + 1] = F[<<k, h[k]>>]
           Some == {n \in Nat : \E h : Good(h, n)}
           H(n) == CHOOSE h : Good(h, n)
           g == [n \in Nat |-> H(n)[n]]
<1>1. \A n \in Nat : n \in Some
  <2>1. 0 \in Some
    <3>1. Good([k \in 0 .. 0 |-> v], 0)
      OBVIOUS
    <3> QED BY <3>1
  <2>2. ASSUME NEW n \in Nat, n \in Some
        PROVE  n + 1 \in Some
    <3>1. PICK h : Good(h, n)
      BY <2>2
    <3> DEFINE h1 == [k \in 0 .. n + 1 |-> IF k = n + 1 THEN F[<<n, h[n]>>] ELSE h[k]]
    <3>2. h[n] \in V
      BY <3>1
    <3>3. h1 \in [0 .. n + 1 -> V]
      BY <3>1, <3>2
    <3>4. h1[0] = v
      BY <3>1
    <3>5. ASSUME NEW k \in 0 .. (n + 1) - 1
          PROVE  h1[k + 1] = F[<<k, h1[k]>>]
      <4>1. CASE k = n
        <5>1. h1[k + 1] = F[<<n, h[n]>>] /\ h1[k] = h[n]
          BY <4>1
        <5> QED BY <5>1, <4>1
      <4>2. CASE k # n
        <5>1. k \in 0 .. n - 1 /\ k + 1 \in 0 .. n
          BY <4>2
        <5>2. h1[k + 1] = h[k + 1] /\ h1[k] = h[k]
          BY <5>1
        <5> QED BY <5>1, <5>2, <3>1
      <4> QED BY <4>1, <4>2
    <3> HIDE DEF h1
    <3>6. Good(h1, n + 1)
      BY <3>3, <3>4, <3>5
    <3> QED BY <3>6
  <2> HIDE DEF Some
  <2> QED BY <2>1, <2>2, AllNaturals
<1>2. \A n \in Nat : Good(H(n), n)
  BY <1>1
<1>3. ASSUME NEW n \in Nat
      PROVE  H(n)[n] = H(n + 1)[n]
  <2> DEFINE Same == {k \in Nat : k <= n => H(n)[k] = H(n + 1)[k]}
  <2> HIDE DEF H
  <2>1. Good(H(n), n) /\ Good(H(n + 1), n + 1)
    BY <1>2
  <2>2. 0 \in Same
    BY <2>1
  <2>3. ASSUME NEW k \in Nat, k \in Same
        PROVE  k + 1 \in Same
    <3> SUFFICES ASSUME k + 1 <= n
                 PROVE  H(n)[k + 1] = H(n + 1)[k + 1]
      OBVIOUS
    <3>1. k \in 0 .. n - 1 /\ k \in 0 .. (n + 1) - 1
      OBVIOUS
    <3>2. H(n)[k] = H(n + 1)[k]
      BY <2>3
    <3> QED BY <2>1, <3>1, <3>2
  <2> HIDE DEF Same
  <2>4. \A k \in Nat : k \in Same
    BY <2>2, <2>3, AllNaturals
  <2> QED BY <2>4 DEF Same
<1>4. \A n \in Nat : H(n)[n] \in V
  <2> HIDE DEF H
  <2> QED BY <1>2
<1>5. g \in [Nat -> V]
  <2> HIDE DEF H
  <2> QED BY <1>4
<1>6. g[0] = v
  <2> HIDE DEF H
  <2> QED BY <1>2
<1>7. ASSUME NEW n \in Nat
      PROVE  g[n + 1] = F[<<n, g[n]>>]
  <2> HIDE DEF H
  <2>1. Good(H(n + 1), n + 1)
    BY <1>2
  <2>2. n \in 0 .. (n + 1) - 1
    OBVIOUS
  <2>3. H(n + 1)[n + 1] = F[<<n, H(n + 1)[n]>>]
    BY <2>1, <2>2
  <2>4. g[n + 1] = H(n + 1)[n + 1] /\ g[n] = H(n)[n]
    OBVIOUS
  <2> HIDE DEF g
  <2> QED BY <2>3, <2>4, <1>3
<1> HIDE DEF g
<1> QED BY <1>5, <1>6, <1>7 DEF IsMadeBy

-----------------------------------------------------------------------------
(* Walks.                                                                  *)

LinkSets == [Blocks -> SUBSET Blocks]

More(links, met) == met \cup UNION {links[c] : c \in met}

MeetMore(links, n, w) ==
  [met \in SUBSET Blocks |->
     IF n = 0 \/ More(links, met) = met THEN met ELSE w[More(links, met)]]

\* What the recursion of Reach computes.
LEMMA WalkRecursion ==
  ASSUME NEW links \in LinkSets
  PROVE  \E walk \in [Nat -> [SUBSET Blocks -> SUBSET Blocks]] :
           /\ \A n \in Nat : walk[n] = MeetMore(links, n, walk[n - 1])
           /\ \A b : Reach(links, b) = walk[MaxBlocks][{b}]
<1> DEFINE V == [SUBSET Blocks -> SUBSET Blocks]
           F == [y \in Nat \X V |-> MeetMore(links, y[1] + 1, y[2])]
           v == MeetMore(links, 0, <<>>)
           walk == CHOOSE walk : walk = [n \in Nat |-> MeetMore(links, n, walk[n - 1])]
<1>1. ASSUME NEW n \in Nat, NEW w \in V
      PROVE  MeetMore(links, n, w) \in V
  <2>1. \A met \in SUBSET Blocks : More(links, met) \in SUBSET Blocks
    BY DEF More, LinkSets
  <2> QED BY <2>1 DEF MeetMore
<1>2. F \in [Nat \X V -> V]
  <2> HIDE DEF V
  <2>1. \A y \in Nat \X V : y[1] + 1 \in Nat /\ y[2] \in V
    OBVIOUS
  <2> QED BY <1>1, <2>1
<1>3. v \in V
  BY DEF MeetMore
<1> HIDE DEF V
<1>f. \A n \in Nat, w \in V : F[<<n, w>>] = MeetMore(links, n + 1, w)
  OBVIOUS
<1> HIDE DEF F, v
<1>4a. PICK g : IsMadeBy(g, V, v, F)
  BY <1>2, <1>3, Recursion
<1>4. /\ g \in [Nat -> V]
      /\ g[0] = v
      /\ \A n \in Nat : g[n + 1] = F[<<n, g[n]>>]
  BY <1>4a DEF IsMadeBy
<1>5. ASSUME NEW n \in Nat
      PROVE  g[n] = MeetMore(links, n, g[n - 1])
  <2>1. CASE n = 0
    BY <2>1, <1>4 DEF MeetMore, v
  <2>2. CASE n # 0
    <3>1. n - 1 \in Nat /\ (n - 1) + 1 = n
      BY <2>2
    <3>2. g[n] = F[<<n - 1, g[n - 1]>>]
      BY <3>1, <1>4
    <3> QED BY <3>1, <3>2, <1>4, <1>f
  <2> QED BY <2>1, <2>2
<1>6. g = [n \in Nat |-> MeetMore(links, n, g[n - 1])]
  BY <1>4, <1>5
<1>7. walk = [n \in Nat |-> MeetMore(links, n, walk[n - 1])]
  BY <1>6
<1>8. \A b : Reach(links, b) = walk[MaxBlocks][{b}]
  BY DEF Reach, MeetMore, More
<1> HIDE DEF walk
<1>9. \A n \in Nat : walk[n] = MeetMore(links, n, walk[n - 1])
  BY <1>7
<1>10. \A n \in Nat : walk[n] \in V
  <2> DEFINE P == {n \in Nat : walk[n] \in V}
  <2>1. 0 \in P
    BY <1>9 DEF MeetMore, V
  <2>2. \A n \in Nat : n \in P => n + 1 \in P
    BY <1>1, <1>9
  <2> HIDE DEF P
  <2>3. \A n \in Nat : n \in P
    BY <2>1, <2>2, AllNaturals
  <2> QED BY <2>3 DEF P
<1>11. walk \in [Nat -> V]
  BY <1>7, <1>10
<1> QED BY <1>8, <1>9, <1>11 DEF V

\* The blocks are finitely many.
LEMMA BlocksFinite ==
  /\ MaxBlocks \in Nat /\ MaxBlocks >= 2
  /\ Null \in Blocks /\ Root \in Blocks /\ Null # Root
  /\ IsFiniteSet(Blocks) /\ Cardinality(Blocks) = MaxBlocks
  /\ \A S \in SUBSET Blocks : IsFiniteSet(S) /\ Cardinality(S) \in Nat
<1>1. MaxBlocks \in Nat /\ MaxBlocks >= 2
  BY BlocksAssumption
<1>2. 0 \in Int /\ MaxBlocks - 1 \in Int /\ ~(0 > MaxBlocks - 1) /\ (MaxBlocks - 1) - 0 + 1 = MaxBlocks
  BY <1>1
<1>3. IsFiniteSet(Blocks) /\ Cardinality(Blocks) = MaxBlocks
  BY <1>2, FS_Interval DEF Blocks
<1>4. \A S \in SUBSET Blocks : IsFiniteSet(S) /\ Cardinality(S) \in Nat
  BY <1>3, FS_Subset, FS_CardinalityType
<1>5. Null \in Blocks /\ Root \in Blocks /\ Null # Root
  BY <1>1 DEF Blocks, Null, Root
<1> QED BY <1>1, <1>3, <1>4, <1>5

\* S has all that links lead to from it.
Closed(links, S) == \A c \in S : links[c] \subseteq S

\* What a walk meets is the smallest set that has its start in it and that no
\* link leads out of.
LEMMA ReachFacts ==
  ASSUME NEW links \in LinkSets, NEW b \in Blocks
  PROVE  /\ Reach(links, b) \subseteq Blocks
         /\ b \in Reach(links, b)
         /\ Closed(links, Reach(links, b))
         /\ \A S \in SUBSET Blocks : b \in S /\ Closed(links, S) => Reach(links, b) \subseteq S
<1>1. PICK walk \in [Nat -> [SUBSET Blocks -> SUBSET Blocks]] :
        /\ \A n \in Nat : walk[n] = MeetMore(links, n, walk[n - 1])
        /\ \A c : Reach(links, c) = walk[MaxBlocks][{c}]
  BY WalkRecursion
<1> DEFINE Right(n, met) ==
             /\ met \subseteq walk[n][met]
             /\ \A S \in SUBSET Blocks : met \subseteq S /\ Closed(links, S) => walk[n][met] \subseteq S
             /\ Cardinality(met) + n >= MaxBlocks => Closed(links, walk[n][met])
           P == {n \in Nat : \A met \in SUBSET Blocks : Right(n, met)}
<1>2. 0 \in P
  <2> SUFFICES ASSUME NEW met \in SUBSET Blocks
               PROVE  Right(0, met)
    OBVIOUS
  <2>1. walk[0][met] = met
    BY <1>1 DEF MeetMore
  <2>2. ASSUME Cardinality(met) + 0 >= MaxBlocks
        PROVE  Closed(links, met)
    <3>1. met = Blocks
      BY <2>2, BlocksFinite, FS_Subset
    <3> QED BY <3>1 DEF Closed, LinkSets
  <2> QED BY <2>1, <2>2
<1>3. ASSUME NEW n \in Nat, n \in P
      PROVE  n + 1 \in P
  <2> SUFFICES ASSUME NEW met \in SUBSET Blocks
               PROVE  Right(n + 1, met)
    OBVIOUS
  <2> DEFINE more == More(links, met)
  <2>1. more \in SUBSET Blocks /\ met \subseteq more
    BY DEF More, LinkSets
  <2>2. CASE more = met
    <3>1. walk[n + 1][met] = met
      BY <1>1, <2>2 DEF MeetMore
    <3>2. Closed(links, met)
      BY <2>2 DEF More, Closed
    <3> QED BY <3>1, <3>2
  <2>3. CASE more # met
    <3>1. walk[n + 1][met] = walk[n][more]
      BY <1>1, <2>3 DEF MeetMore
    <3>2. Right(n, more)
      BY <1>3, <2>1
    <3>3. ASSUME NEW S \in SUBSET Blocks, met \subseteq S, Closed(links, S)
          PROVE  more \subseteq S
      BY <3>3 DEF More, Closed
    <3>4. Cardinality(met) + 1 <= Cardinality(more)
      <4>1. Cardinality(met) <= Cardinality(more) /\ Cardinality(met) # Cardinality(more)
        BY <2>1, <2>3, BlocksFinite, FS_Subset
      <4> QED BY <4>1, <2>1, BlocksFinite
    <3>5. Cardinality(met) \in Nat /\ Cardinality(more) \in Nat
      BY <2>1, BlocksFinite
    <3>6. Cardinality(met) + (n + 1) >= MaxBlocks => Cardinality(more) + n >= MaxBlocks
      BY <3>4, <3>5, BlocksFinite
    <3> HIDE DEF more
    <3> QED BY <2>1, <3>1, <3>2, <3>3, <3>6
  <2> QED BY <2>2, <2>3
<1> HIDE DEF P
<1>4. MaxBlocks \in P
  BY <1>2, <1>3, AllNaturals, BlocksFinite
<1> USE DEF P
<1>5. {b} \in SUBSET Blocks /\ Cardinality({b}) + MaxBlocks >= MaxBlocks
  <2>1. Cardinality({b}) = 1
    BY FS_Singleton
  <2> QED BY <2>1, BlocksFinite
<1>6. Right(MaxBlocks, {b})
  BY <1>4, <1>5
<1>7. walk[MaxBlocks][{b}] \in SUBSET Blocks
  BY <1>1, <1>5, BlocksFinite
<1> QED BY <1>1, <1>5, <1>6, <1>7

-----------------------------------------------------------------------------
(* Ranks.                                                                  *)

Ranks == [Blocks -> Nat]

\* Ranks have a bound.
LEMMA RanksBounded ==
  ASSUME NEW r \in Ranks
  PROVE  \E m \in Nat : \A b \in Blocks : r[b] <= m
<1> DEFINE P == {n \in Nat : \E m \in Nat : \A b \in Blocks : b < n => r[b] <= m}
<1>1. 0 \in P
  BY DEF Blocks
<1>2. ASSUME NEW n \in Nat, n \in P
      PROVE  n + 1 \in P
  <2>1. PICK m \in Nat : \A b \in Blocks : b < n => r[b] <= m
    BY <1>2
  <2>2. CASE n \in Blocks
    <3> DEFINE k == IF r[n] <= m THEN m ELSE r[n]
    <3>1. k \in Nat /\ m <= k /\ r[n] <= k
      BY <2>2 DEF Ranks
    <3> HIDE DEF k
    <3>2. ASSUME NEW b \in Blocks, b < n + 1
          PROVE  r[b] <= k
      <4>1. r[b] \in Nat /\ (b < n \/ b = n)
        BY <3>2 DEF Ranks, Blocks
      <4> QED BY <4>1, <2>1, <3>1
    <3> QED BY <3>1, <3>2
  <2>3. CASE n \notin Blocks
    <3>1. \A b \in Blocks : b < n + 1 => b < n
      BY <2>3 DEF Blocks
    <3> QED BY <2>1, <3>1
  <2> QED BY <2>2, <2>3
<1> HIDE DEF P
<1>3. MaxBlocks \in P
  BY <1>1, <1>2, AllNaturals, BlocksFinite
<1>4. \A b \in Blocks : b < MaxBlocks
  BY BlocksFinite DEF Blocks
<1> QED BY <1>3, <1>4 DEF P

\* A set of blocks has one of the lowest rank.
LEMMA LowestIn ==
  ASSUME NEW r \in Ranks, NEW S \in SUBSET Blocks, S # {}
  PROVE  \E b \in S : \A c \in S : r[b] <= r[c]
<1> DEFINE I == {r[b] : b \in S}
<1>1. I \subseteq Nat /\ I # {}
  BY DEF Ranks
<1>2. PICK i \in I : \A j \in I : i <= j
  BY <1>1, LeastOf
<1> QED BY <1>2

\* A set of blocks has one of the highest rank.
LEMMA HighestIn ==
  ASSUME NEW r \in Ranks, NEW S \in SUBSET Blocks, S # {}
  PROVE  \E b \in S : \A c \in S : r[c] <= r[b]
<1>1. PICK m \in Nat : \A b \in Blocks : r[b] <= m
  BY RanksBounded
<1> DEFINE q == [b \in Blocks |-> m - r[b]]
<1>2. \A b \in Blocks : r[b] \in Nat
  BY DEF Ranks
<1>3. q \in Ranks
  BY <1>1, <1>2 DEF Ranks
<1>4. \A b \in Blocks : q[b] = m - r[b]
  OBVIOUS
<1> HIDE DEF q
<1>5. PICK b \in S : \A c \in S : q[b] <= q[c]
  BY <1>3, LowestIn
<1>6. ASSUME NEW c \in S
      PROVE  r[c] <= r[b]
  <2>1. m - r[b] <= m - r[c]
    BY <1>4, <1>5
  <2> QED BY <2>1, <1>2
<1> QED BY <1>6

-----------------------------------------------------------------------------
(* Lists.                                                                  *)

\* The links next make the blocks in A one list that begins at head and ends
\* at Null.  The rank falls along it.
IsList(next, head, A, r) ==
  /\ A \subseteq Blocks \ {Null}
  /\ head \in A \cup {Null}
  /\ \A b \in A : /\ next[b] \in A \cup {Null}
                  /\ next[b] # Null => r[next[b]] < r[b]
                  /\ b = head \/ \E c \in A : next[c] = b

Links == [Blocks -> Blocks]

\* Links that lead from each block to one.
LEMMA AlongLinks ==
  ASSUME NEW link \in Links
  PROVE  /\ Along(link) \in LinkSets
         /\ \A S : Closed(Along(link), S) /\ S \subseteq Blocks <=>
                     S \subseteq Blocks /\ \A b \in S : link[b] \in S
<1>1. Along(link) \in LinkSets
  BY DEF Along, LinkSets, Links
<1>2. \A b \in Blocks : Along(link)[b] = {link[b]}
  BY DEF Along
<1> QED BY <1>1, <1>2 DEF Closed

\* A walk along one link.
LEMMA ReachAlong ==
  ASSUME NEW link \in Links, NEW b \in Blocks
  PROVE  LET R == Reach(Along(link), b)
         IN  /\ R \subseteq Blocks
             /\ b \in R
             /\ \A c \in R : link[c] \in R
             /\ \A S \in SUBSET Blocks : b \in S /\ (\A c \in S : link[c] \in S) => R \subseteq S
<1>1. Along(link) \in LinkSets
  BY AlongLinks
<1> DEFINE R == Reach(Along(link), b)
<1>2. /\ R \subseteq Blocks
      /\ b \in R
      /\ Closed(Along(link), R)
      /\ \A S \in SUBSET Blocks : b \in S /\ Closed(Along(link), S) => R \subseteq S
  BY <1>1, ReachFacts
<1>3. \A b1 \in Blocks : Along(link)[b1] = {link[b1]}
  BY DEF Along
<1> QED BY <1>2, <1>3 DEF Closed

\* What a walk over a list meets, from any place on: the list, to its end.
LEMMA ListIsWalked ==
  ASSUME NEW next \in Links, NEW r \in Ranks, NEW head, NEW A,
         IsList(next, head, A, r), next[Null] = Null
  PROVE  Reach(Along(next), head) = A \cup {Null}
<1> DEFINE R == Reach(Along(next), head)
<1>1. head \in Blocks /\ A \cup {Null} \in SUBSET Blocks
  BY BlocksFinite DEF IsList
<1>2. /\ R \subseteq Blocks
      /\ head \in R
      /\ \A c \in R : next[c] \in R
      /\ \A S \in SUBSET Blocks : head \in S /\ (\A c \in S : next[c] \in S) => R \subseteq S
  BY <1>1, ReachAlong
<1> HIDE DEF R
<1>3. R \subseteq A \cup {Null}
  <2>1. head \in A \cup {Null} /\ \A c \in A \cup {Null} : next[c] \in A \cup {Null}
    BY DEF IsList
  <2> QED BY <1>1, <1>2, <2>1
<1>4. A \subseteq R
  <2> SUFFICES ASSUME A \ R # {}
               PROVE  FALSE
    OBVIOUS
  <2>1. A \ R \in SUBSET Blocks
    BY <1>1
  <2>2. PICK b \in A \ R : \A c \in A \ R : r[c] <= r[b]
    BY <2>1, HighestIn
  <2>3. b # head
    BY <1>2
  <2>4. PICK c \in A : next[c] = b
    BY <2>3 DEF IsList
  <2>5. c \notin R
    BY <1>2, <2>4
  <2>6. r[b] < r[c] /\ b # Null
    BY <2>4 DEF IsList
  <2>7. r[b] \in Nat /\ r[c] \in Nat
    BY <1>1, <2>4 DEF Ranks
  <2> QED BY <2>2, <2>4, <2>5, <2>6, <2>7
<1>5. Null \in R
  <2>1. PICK b \in R : \A c \in R : r[b] <= r[c]
    BY <1>2, LowestIn
  <2> SUFFICES ASSUME b # Null
               PROVE  Null \in R
    BY <2>1
  <2>2. b \in A /\ next[b] \in R
    BY <1>2, <1>3
  <2>3. next[b] # Null => r[next[b]] < r[b] /\ r[b] <= r[next[b]]
    BY <2>1, <2>2 DEF IsList
  <2>4. r[b] \in Nat /\ r[next[b]] \in Nat
    BY <1>2, <2>2 DEF Ranks
  <2>5. next[b] = Null
    BY <2>3, <2>4
  <2> QED BY <2>2, <2>5
<1> QED BY <1>3, <1>4, <1>5 DEF R

\* A list without a head is empty, and one with a head has an end.
LEMMA ListHeadAndEnd ==
  ASSUME NEW next \in Links, NEW r \in Ranks, NEW head, NEW A,
         IsList(next, head, A, r)
  PROVE  /\ head = Null <=> A = {}
         /\ A # {} => \E b \in A : next[b] = Null
<1>1. ASSUME A # {}
      PROVE  head # Null
  <2>1. PICK b \in A : \A c \in A : r[c] <= r[b]
    BY <1>1, HighestIn DEF IsList
  <2>2. ASSUME NEW c \in A, next[c] = b
        PROVE  FALSE
    <3>1. b # Null /\ r[b] < r[c] /\ r[c] <= r[b]
      BY <2>1, <2>2 DEF IsList
    <3>2. r[b] \in Nat /\ r[c] \in Nat
      BY DEF IsList, Ranks
    <3> QED BY <3>1, <3>2
  <2> QED BY <2>2 DEF IsList
<1>2. ASSUME A # {}
      PROVE  \E b \in A : next[b] = Null
  <2>1. PICK b \in A : \A c \in A : r[b] <= r[c]
    BY <1>2, LowestIn DEF IsList
  <2>2. next[b] # Null => r[next[b]] < r[b] /\ r[b] <= r[next[b]]
    BY <2>1 DEF IsList
  <2>3. r[b] \in Nat /\ (next[b] # Null => r[next[b]] \in Nat)
    BY DEF IsList, Ranks
  <2> QED BY <2>1, <2>2, <2>3
<1> QED BY <1>1, <1>2 DEF IsList

-----------------------------------------------------------------------------
(* The way up.                                                             *)

\* A block and all that is above it, along the links parent.
Above(parent, b) == Reach(Along(parent), b) \ {Null}

\* The links parent lead from every block in T to the root.  The rank falls
\* along them.
IsTree(parent, T, r) ==
  /\ T \subseteq Blocks \ {Null}
  /\ Root \in T
  /\ parent[Root] = Null /\ parent[Null] = Null
  /\ \A b \in T \ {Root} : parent[b] \in T /\ r[parent[b]] < r[b]

\* The way up from a block is that block and the way up from its parent.
LEMMA AboveUnfolds ==
  ASSUME NEW parent \in Links, NEW b \in Blocks, parent[Null] = Null
  PROVE  /\ Above(parent, Null) = {}
         /\ b # Null => Above(parent, b) = {b} \cup Above(parent, parent[b])
         /\ \A a \in Above(parent, b) : Above(parent, a) \subseteq Above(parent, b)
<1> DEFINE R(c) == Reach(Along(parent), c)
<1>1. \A c \in Blocks :
        /\ R(c) \subseteq Blocks
        /\ c \in R(c)
        /\ \A d \in R(c) : parent[d] \in R(c)
        /\ \A S \in SUBSET Blocks : c \in S /\ (\A d \in S : parent[d] \in S) => R(c) \subseteq S
  BY ReachAlong
<1> HIDE DEF R
<1>2. R(Null) \subseteq {Null}
  <2>1. Null \in Blocks /\ {Null} \in SUBSET Blocks /\ \A d \in {Null} : parent[d] \in {Null}
    BY BlocksFinite
  <2> QED BY <1>1, <2>1
<1>3. \A c \in Blocks : \A d \in R(c) : R(d) \subseteq R(c)
  BY <1>1
<1>4. parent[b] \in Blocks
  BY DEF Links
<1>5. R(b) \subseteq {b} \cup R(parent[b])
  <2> DEFINE S == {b} \cup R(parent[b])
  <2>1. S \in SUBSET Blocks /\ b \in S /\ \A d \in S : parent[d] \in S
    BY <1>1, <1>4
  <2> QED BY <1>1, <2>1
<1>6. {b} \cup R(parent[b]) \subseteq R(b)
  BY <1>1, <1>3
<1> QED BY <1>2, <1>3, <1>5, <1>6 DEF Above, R

\* The way up from a block of a tree ends at the root, and ranks fall along it.
LEMMA AboveInTree ==
  ASSUME NEW parent \in Links, NEW r \in Ranks, NEW T, IsTree(parent, T, r), NEW b \in T
  PROVE  /\ b \in Above(parent, b)
         /\ Above(parent, b) \subseteq T
         /\ \A a \in Above(parent, b) : a # b => r[a] < r[b]
         /\ Root \in Above(parent, b)
<1> DEFINE R == Reach(Along(parent), b)
           S == {b} \cup {a \in T : r[a] < r[b]} \cup {Null}
<1>1. b \in Blocks /\ b # Null
  BY DEF IsTree
<1>2. /\ R \subseteq Blocks
      /\ b \in R
      /\ \A c \in R : parent[c] \in R
      /\ \A S1 \in SUBSET Blocks : b \in S1 /\ (\A c \in S1 : parent[c] \in S1) => R \subseteq S1
  BY <1>1, ReachAlong
<1> HIDE DEF R
<1>3. R \subseteq S
  <2>1. S \in SUBSET Blocks /\ b \in S
    BY <1>1, BlocksFinite DEF IsTree
  <2>2. ASSUME NEW c \in S
        PROVE  parent[c] \in S
    <3>1. CASE c = Null \/ c = Root
      BY <3>1 DEF IsTree
    <3>2. CASE c # Null /\ c # Root
      <4>1. c \in T /\ parent[c] \in T /\ r[parent[c]] < r[c] /\ (c = b \/ r[c] < r[b])
        BY <3>2 DEF IsTree
      <4>2. r[parent[c]] \in Nat /\ r[c] \in Nat /\ r[b] \in Nat
        BY <4>1 DEF IsTree, Ranks
      <4>3. r[parent[c]] < r[b]
        BY <4>1, <4>2
      <4> QED BY <4>1, <4>3
    <3> QED BY <3>1, <3>2
  <2> HIDE DEF S
  <2> QED BY <1>2, <2>1, <2>2
<1>4. Root \in R
  <2> DEFINE Q == R \ {Null}
  <2>1. Q \in SUBSET Blocks /\ b \in Q
    BY <1>1, <1>2
  <2>2. PICK c \in Q : \A d \in Q : r[c] <= r[d]
    BY <2>1, LowestIn
  <2> SUFFICES ASSUME c # Root
               PROVE  FALSE
    BY <2>2
  <2>3. c \in T \ {Root}
    BY <1>3
  <2>4. parent[c] \in Q /\ r[parent[c]] < r[c]
    BY <1>2, <2>3 DEF IsTree
  <2>5. r[parent[c]] \in Nat /\ r[c] \in Nat
    BY <1>2, <2>4 DEF Ranks
  <2> QED BY <2>2, <2>4, <2>5
<1>5. Root # Null
  BY BlocksFinite
<1>6. R \ {Null} = Above(parent, b)
  BY DEF R, Above
<1> QED BY <1>1, <1>2, <1>3, <1>4, <1>5, <1>6

\* Of two blocks above a third one is above the other.
LEMMA AboveIsAWay ==
  ASSUME NEW parent \in Links, parent[Null] = Null,
         NEW b \in Blocks, NEW a \in Above(parent, b), NEW c \in Above(parent, b)
  PROVE  a \in Above(parent, c) \/ c \in Above(parent, a)
<1> DEFINE S == {d \in Blocks : a \in Above(parent, d)} \cup Above(parent, a) \cup {Null}
<1>1. Above(parent, b) \subseteq Blocks \ {Null}
  BY ReachAlong DEF Above
<1>2. a \in Above(parent, a) /\ Above(parent, a) \subseteq Blocks \ {Null}
  BY <1>1, ReachAlong DEF Above
<1>3. S \in SUBSET Blocks
  BY <1>2, BlocksFinite
<1>4. ASSUME NEW d \in S
      PROVE  parent[d] \in S
  <2>1. CASE d = Null
    BY <2>1
  <2>2. CASE d # Null /\ d \in Above(parent, a)
    <3>1. parent[d] \in Reach(Along(parent), a)
      BY <1>1, <2>2, ReachAlong DEF Above
    <3> QED BY <3>1 DEF Above
  <2>3. CASE d # Null /\ d \in Blocks /\ a \in Above(parent, d)
    <3>1. a = d \/ a \in Above(parent, parent[d])
      BY <2>3, AboveUnfolds
    <3>2. parent[d] \in Blocks
      BY <2>3 DEF Links
    <3>3. CASE a = d
      <4>1. d \in Above(parent, a)
        BY <3>3, <1>2
      <4> QED BY <4>1, <2>2, <2>3
    <3> QED BY <3>1, <3>2, <3>3
  <2> QED BY <2>1, <2>2, <2>3
<1>5. b \in S
  OBVIOUS
<1> HIDE DEF S
<1>6. Reach(Along(parent), b) \subseteq S
  BY <1>3, <1>4, <1>5, ReachAlong
<1>7. c \in S /\ c # Null
  BY <1>6 DEF Above
<1> QED BY <1>7 DEF S

\* The way up depends on the links of the tree only.
LEMMA AboveSame ==
  ASSUME NEW p \in Links, NEW q \in Links, NEW r \in Ranks, NEW T,
         IsTree(p, T, r), q[Null] = Null, \A b \in T : q[b] = p[b], NEW b \in T
  PROVE  Above(q, b) = Above(p, b)
<1>1. IsTree(q, T, r)
  BY DEF IsTree
<1>2. b \in Blocks
  BY DEF IsTree
<1>3. ASSUME NEW f \in Links, NEW g \in Links, IsTree(f, T, r), IsTree(g, T, r),
             \A c \in T : f[c] = g[c]
      PROVE  Reach(Along(f), b) \subseteq Reach(Along(g), b)
  <2>1. Reach(Along(g), b) \subseteq T \cup {Null}
    BY <1>3, AboveInTree DEF Above
  <2>2. \A c \in Reach(Along(g), b) : f[c] = g[c]
    BY <2>1, <1>3 DEF IsTree
  <2>3. /\ Reach(Along(g), b) \in SUBSET Blocks
        /\ b \in Reach(Along(g), b)
        /\ \A c \in Reach(Along(g), b) : f[c] \in Reach(Along(g), b)
    BY <1>2, <2>2, ReachAlong
  <2> QED BY <1>2, <2>3, ReachAlong
<1>4. Reach(Along(p), b) \subseteq Reach(Along(q), b)
  BY <1>1, <1>3
<1>5. Reach(Along(q), b) \subseteq Reach(Along(p), b)
  <2>1. \A c \in T : q[c] = p[c]
    OBVIOUS
  <2> QED BY <1>1, <1>3, <2>1
<1> QED BY <1>4, <1>5 DEF Above

-----------------------------------------------------------------------------
(* The structure of an index.                                              *)

Kids(parent, T, d) == {b \in T \ {Root} : parent[b] = d}

Below(parent, T, b) == {c \in T : b \in Above(parent, c)}

\* The blocks in T are the tree, those in C the chain of removed blocks.
IsIndex(s, T, C, r) ==
  /\ s \in Indexes /\ r \in Ranks
  /\ s.offset \in 2 .. MaxBlocks
  /\ T \cup C \subseteq 1 .. s.offset - 1 /\ T \cap C = {}
  /\ s.next[Null] = Null /\ s.child[Null] = Null
  /\ IsTree(s.parent, T, r)
  /\ \A d \in T : IsList(s.next, s.child[d], Kids(s.parent, T, d), r)
  /\ IsList(s.next, s.deleted, C, r)

\* The parts of an index have their types.
LEMMA IndexParts ==
  ASSUME NEW s, s \in Indexes
  PROVE  /\ s.parent \in Links /\ s.next \in Links /\ s.child \in Links
         /\ s.size \in [Blocks -> Int]
         /\ s.deleted \in Blocks /\ s.offset \in Nat /\ s.room \in Nat
BY DEF Indexes, Links

\* The entries of a directory are the blocks that have it as their parent, and
\* the chain of removed blocks is C.
LEMMA ChildrenAreKids ==
  ASSUME NEW s, NEW T, NEW C, NEW r, IsIndex(s, T, C, r)
  PROVE  /\ \A d \in T : Reach(Along(s.next), s.child[d]) = Kids(s.parent, T, d) \cup {Null}
         /\ \A d \in T : Children(s, d) = Kids(s.parent, T, d)
         /\ Reach(Along(s.next), s.deleted) = C \cup {Null}
<1>1. s.next \in Links /\ r \in Ranks /\ s.next[Null] = Null
  BY IndexParts DEF IsIndex
<1>2. ASSUME NEW d \in T
      PROVE  Reach(Along(s.next), s.child[d]) = Kids(s.parent, T, d) \cup {Null}
  <2>1. IsList(s.next, s.child[d], Kids(s.parent, T, d), r)
    BY DEF IsIndex
  <2> QED BY <1>1, <2>1, ListIsWalked
<1>3. Reach(Along(s.next), s.deleted) = C \cup {Null}
  <2>1. IsList(s.next, s.deleted, C, r)
    BY DEF IsIndex
  <2> QED BY <1>1, <2>1, ListIsWalked
<1>4. ASSUME NEW d \in T
      PROVE  Null \notin Kids(s.parent, T, d)
  BY DEF IsIndex, IsTree, Kids
<1> QED BY <1>2, <1>3, <1>4 DEF Children, List

\* A block is below its parent and not above it.
LEMMA ParentIsAbove ==
  ASSUME NEW parent \in Links, NEW r \in Ranks, NEW T, IsTree(parent, T, r), NEW b \in T \ {Root}
  PROVE  /\ parent[b] \in T /\ parent[b] # b
         /\ Above(parent, b) = {b} \cup Above(parent, parent[b])
         /\ b \notin Above(parent, parent[b])
         /\ \A a \in Above(parent, parent[b]) : r[a] < r[b]
<1>1. b \in Blocks /\ b # Null /\ parent[b] \in T /\ r[parent[b]] < r[b] /\ parent[Null] = Null
  BY DEF IsTree
<1>2. Above(parent, b) = {b} \cup Above(parent, parent[b])
  BY <1>1, AboveUnfolds
<1>3. ASSUME NEW a \in Above(parent, parent[b])
      PROVE  r[a] < r[b]
  <2>1. a \in T /\ (a # parent[b] => r[a] < r[parent[b]])
    BY <1>1, AboveInTree
  <2>2. r[a] \in Nat /\ r[b] \in Nat /\ r[parent[b]] \in Nat
    BY <1>1, <2>1 DEF IsTree, Ranks
  <2> QED BY <1>1, <2>1, <2>2
<1>4. ~(r[b] < r[b])
  BY <1>1 DEF Ranks
<1> QED BY <1>1, <1>2, <1>3, <1>4

\* Nothing else is above the root.
LEMMA AboveRoot ==
  ASSUME NEW parent \in Links, NEW r \in Ranks, NEW T, IsTree(parent, T, r)
  PROVE  Above(parent, Root) = {Root}
<1>1. Root \in Blocks /\ Root # Null /\ parent[Null] = Null /\ parent[Root] = Null
  BY BlocksFinite DEF IsTree
<1> QED BY <1>1, AboveUnfolds

\* The branch that hangs from b is what has b above it.
LEMMA SubtreeIsBelow ==
  ASSUME NEW s, NEW T, NEW C, NEW r, IsIndex(s, T, C, r), NEW b \in T
  PROVE  Subtree(s, b) = Below(s.parent, T, b)
<1> DEFINE p == s.parent
           links == [c \in Blocks |-> {s.child[c], s.next[c]}]
           R == Reach(links, s.child[b])
           B == Below(p, T, b) \ {b}
<1>1. /\ p \in Links /\ s.next \in Links /\ s.child \in Links /\ r \in Ranks
      /\ IsTree(p, T, r) /\ p[Null] = Null
      /\ s.next[Null] = Null /\ s.child[Null] = Null
  BY IndexParts DEF IsIndex, IsTree
<1>2. T \subseteq Blocks \ {Null} /\ b \in Blocks
  BY <1>1 DEF IsTree
<1>3. links \in LinkSets /\ s.child[b] \in Blocks
  BY <1>1, <1>2 DEF LinkSets, Links
<1>4. \A c \in Blocks : links[c] = {s.child[c], s.next[c]}
  OBVIOUS
<1> HIDE DEF links
<1>5. /\ R \subseteq Blocks
      /\ s.child[b] \in R
      /\ \A c \in R : s.child[c] \in R /\ s.next[c] \in R
      /\ \A S \in SUBSET Blocks :
           s.child[b] \in S /\ (\A c \in S : s.child[c] \in S /\ s.next[c] \in S) => R \subseteq S
  BY <1>3, <1>4, ReachFacts DEF Closed
<1> HIDE DEF R
<1>6. \A d \in T : /\ s.child[d] \in Kids(p, T, d) \cup {Null}
                   /\ \A c \in Kids(p, T, d) : s.next[c] \in Kids(p, T, d) \cup {Null}
  BY DEF IsIndex, IsList
<1> HIDE DEF p
<1>7. ASSUME NEW c \in T, NEW k \in Kids(p, T, c), b \in Above(p, c)
      PROVE  k \in B
  <2>1. k \in T \ {Root} /\ p[k] = c
    BY DEF Kids
  <2>2. Above(p, k) = {k} \cup Above(p, c) /\ k \notin Above(p, c)
    BY <1>1, <2>1, ParentIsAbove
  <2> QED BY <2>1, <2>2, <1>7 DEF Below
<1>8. ASSUME NEW c \in B
      PROVE  /\ c \in T \ {Root} /\ p[c] \in T
             /\ b \in Above(p, p[c])
  <2>1. c \in T /\ b \in Above(p, c) /\ c # b
    BY DEF Below
  <2>2. c # Root
    BY <1>1, <2>1, AboveRoot
  <2> QED BY <1>1, <2>1, <2>2, ParentIsAbove
<1>9. R \subseteq B \cup {Null}
  <2>1. B \cup {Null} \in SUBSET Blocks
    BY <1>2, BlocksFinite DEF Below
  <2>2. s.child[b] \in B \cup {Null}
    <3>1. b \in Above(p, b)
      BY <1>1, AboveInTree
    <3> QED BY <1>6, <1>7, <3>1
  <2>3. ASSUME NEW c \in B
        PROVE  s.child[c] \in B \cup {Null}
    BY <1>6, <1>7 DEF Below
  <2>4. ASSUME NEW c \in B
        PROVE  s.next[c] \in B \cup {Null}
    <3>1. c \in Kids(p, T, p[c]) /\ p[c] \in T /\ b \in Above(p, p[c])
      BY <1>8 DEF Kids
    <3> QED BY <3>1, <1>6, <1>7
  <2> HIDE DEF B
  <2>5. \A c \in B \cup {Null} : s.child[c] \in B \cup {Null} /\ s.next[c] \in B \cup {Null}
    BY <1>1, <2>3, <2>4
  <2> QED BY <1>5, <2>1, <2>2, <2>5
<1>10. B \subseteq R
  <2> SUFFICES ASSUME B \ R # {}
               PROVE  FALSE
    OBVIOUS
  <2>1. B \ R \in SUBSET Blocks
    BY <1>2 DEF Below
  <2>2. PICK c \in B \ R : \A d \in B \ R : r[c] <= r[d]
    BY <1>1, <2>1, LowestIn
  <2>3. /\ c \in T \ {Root} /\ p[c] \in T /\ r[p[c]] < r[c]
        /\ b \in Above(p, p[c])
    BY <1>1, <1>8 DEF IsTree
  <2>4. p[c] = b \/ p[c] \in B
    BY <2>3 DEF Below
  <2>5. ~(r[c] <= r[p[c]])
    BY <1>1, <1>2, <2>3 DEF Ranks
  <2>6. s.child[p[c]] \in R
    BY <1>5, <2>2, <2>4, <2>5
  <2>7. Reach(Along(s.next), s.child[p[c]]) \subseteq R
    BY <1>1, <1>5, <2>6, ReachAlong
  <2>8. c \in Reach(Along(s.next), s.child[p[c]])
    BY <2>3, ChildrenAreKids DEF Kids, p
  <2> QED BY <2>7, <2>8
<1>11. Null \notin B
  BY <1>2 DEF Below
<1>12. b \in Below(p, T, b)
  BY <1>1, AboveInTree DEF Below
<1> QED BY <1>9, <1>10, <1>11, <1>12 DEF Subtree, p, R, links

-----------------------------------------------------------------------------
(* What the operations do to a list.                                       *)

\* A list stays one when links and ranks change elsewhere.
LEMMA ListSame ==
  ASSUME NEW next, NEW r, NEW head, NEW A, IsList(next, head, A, r),
         NEW next1, NEW q, \A b \in A : next1[b] = next[b] /\ q[b] = r[b]
  PROVE  IsList(next1, head, A, q)
BY DEF IsList

\* A block of a higher rank becomes the head.
LEMMA ListPush ==
  ASSUME NEW next, NEW r \in Ranks, NEW head, NEW A, IsList(next, head, A, r),
         NEW n \in Blocks \ {Null}, n \notin A,
         NEW next1, NEW q \in Ranks, \A b \in A : next1[b] = next[b] /\ q[b] = r[b],
         next1[n] = head, \A b \in A : r[b] < q[n]
  PROVE  IsList(next1, n, A \cup {n}, q)
<1>1. ASSUME NEW b \in A
      PROVE  /\ next1[b] \in A \cup {n} \cup {Null}
             /\ next1[b] # Null => q[next1[b]] < q[b]
             /\ b = n \/ \E c \in A \cup {n} : next1[c] = b
  BY DEF IsList
<1>2. /\ next1[n] \in A \cup {n} \cup {Null}
      /\ next1[n] # Null => q[next1[n]] < q[n]
  BY DEF IsList
<1> QED BY <1>1, <1>2 DEF IsList

\* No link of a list leads to its head.
LEMMA HeadIsFirst ==
  ASSUME NEW next \in Links, NEW r \in Ranks, NEW head, NEW A,
         IsList(next, head, A, r), NEW b \in A
  PROVE  next[b] # Null => next[b] # head
<1> SUFFICES ASSUME next[b] = head, head # Null
             PROVE  FALSE
  OBVIOUS
<1>1. PICK h \in A : \A c \in A : r[c] <= r[h]
  BY HighestIn DEF IsList
<1>2. ASSUME NEW c \in A, next[c] = h
      PROVE  FALSE
  <2>1. h # Null /\ r[h] < r[c] /\ r[c] <= r[h]
    BY <1>1, <1>2 DEF IsList
  <2>2. r[h] \in Nat /\ r[c] \in Nat
    BY DEF IsList, Ranks
  <2> QED BY <2>1, <2>2
<1>3. h = head
  BY <1>2 DEF IsList
<1> QED BY <1>2, <1>3

\* The head is taken off.
LEMMA ListPop ==
  ASSUME NEW next \in Links, NEW r \in Ranks, NEW head, NEW A,
         IsList(next, head, A, r), head # Null
  PROVE  IsList(next, next[head], A \ {head}, r)
<1>1. head \in A /\ head \in Blocks
  BY DEF IsList
<1>2. \A c \in A : next[c] # head
  BY <1>1, HeadIsFirst DEF IsList
<1>3. ASSUME NEW b \in A \ {head}
      PROVE  b = next[head] \/ \E c \in A \ {head} : next[c] = b
  BY DEF IsList
<1>4. ASSUME NEW b \in A \ {head}
      PROVE  /\ next[b] \in (A \ {head}) \cup {Null}
             /\ next[b] # Null => r[next[b]] < r[b]
  BY <1>2 DEF IsList
<1>5. next[head] \in (A \ {head}) \cup {Null}
  BY <1>1, <1>2 DEF IsList
<1>6. A \ {head} \subseteq Blocks \ {Null}
  BY DEF IsList
<1> QED BY <1>3, <1>4, <1>5, <1>6 DEF IsList

\* A block that is not the head is taken out.
LEMMA ListUnlink ==
  ASSUME NEW next \in Links, NEW r \in Ranks, NEW head, NEW A,
         IsList(next, head, A, r), NEW b \in A, b # head,
         NEW next1, \A c \in A : next1[c] = IF next[c] = b THEN next[b] ELSE next[c]
  PROVE  IsList(next1, head, A \ {b}, r)
<1>1. \A c \in A : c \in Blocks /\ c # Null /\ r[c] \in Nat
  BY DEF IsList, Ranks
<1>2. next[b] \in A \cup {Null} /\ (next[b] # Null => r[next[b]] < r[b]) /\ next[b] # b
  <2>1. next[b] \in A \cup {Null} /\ (next[b] # Null => r[next[b]] < r[b])
    BY DEF IsList
  <2>2. next[b] # b
    BY <1>1, <2>1
  <2> QED BY <2>1, <2>2
<1>3. ASSUME NEW c \in A \ {b}
      PROVE  /\ next1[c] \in (A \ {b}) \cup {Null}
             /\ next1[c] # Null => r[next1[c]] < r[c]
  <2>1. CASE next[c] = b
    <3>1. next1[c] = next[b] /\ r[b] < r[c]
      BY <1>1, <2>1 DEF IsList
    <3>2. next[b] # Null => r[next[b]] < r[c]
      BY <1>1, <1>2, <3>1
    <3> QED BY <1>2, <3>1, <3>2
  <2>2. CASE next[c] # b
    BY <2>2 DEF IsList
  <2> QED BY <2>1, <2>2
<1>4. ASSUME NEW c \in A \ {b}, c # head
      PROVE  \E e \in A \ {b} : next1[e] = c
  <2>1. PICK e \in A : next[e] = c
    BY <1>4 DEF IsList
  <2>2. CASE e = b
    <3>1. PICK f \in A : next[f] = b
      BY DEF IsList
    <3>2. f # b /\ next1[f] = c
      BY <1>2, <2>1, <2>2, <3>1
    <3> QED BY <3>2
  <2>3. CASE e # b
    BY <2>1, <2>3
  <2> QED BY <2>2, <2>3
<1>5. A \ {b} \subseteq Blocks \ {Null} /\ head \in (A \ {b}) \cup {Null}
  BY DEF IsList
<1> QED BY <1>3, <1>4, <1>5 DEF IsList

\* A list that is not empty is put before another one.
LEMMA ListJoin ==
  ASSUME NEW next \in Links, NEW r \in Ranks, NEW q \in Ranks,
         NEW head, NEW A, IsList(next, head, A, r), head # Null,
         NEW head2, NEW C, IsList(next, head2, C, r), A \cap C = {},
         NEW last \in A, next[last] = Null,
         NEW next1, next1 = [next EXCEPT ![last] = head2],
         \A c \in C : q[c] = r[c],
         \A b \in A : \A c \in C : r[c] < q[b],
         \A b, c \in A : r[b] < r[c] => q[b] < q[c]
  PROVE  IsList(next1, head, A \cup C, q)
<1>1. next1[last] = head2 /\ \A b \in Blocks : b # last => next1[b] = next[b]
  BY DEF IsList, Links
<1>2. A \subseteq Blocks /\ C \subseteq Blocks /\ Null \notin A /\ Null \notin C
  BY DEF IsList
<1>3. ASSUME NEW b \in A
      PROVE  /\ next1[b] \in A \cup C \cup {Null}
             /\ next1[b] # Null => q[next1[b]] < q[b]
             /\ b = head \/ \E c \in A \cup C : next1[c] = b
  <2>1. CASE b = last
    BY <1>1, <1>2, <2>1 DEF IsList
  <2>2. CASE b # last
    BY <1>1, <1>2, <2>2 DEF IsList
  <2> QED BY <2>1, <2>2
<1>4. ASSUME NEW b \in C
      PROVE  /\ next1[b] \in A \cup C \cup {Null}
             /\ next1[b] # Null => q[next1[b]] < q[b]
             /\ \E c \in A \cup C : next1[c] = b
  BY <1>1, <1>2 DEF IsList
<1>5. head \in A
  BY DEF IsList
<1> QED BY <1>2, <1>3, <1>4, <1>5 DEF IsList

-----------------------------------------------------------------------------
(* What the operations do to the parts of an index.                        *)

SameLinks(s, t) ==
  /\ t.parent = s.parent /\ t.next = s.next /\ t.child = s.child
  /\ t.deleted = s.deleted /\ t.offset = s.offset /\ t.room = s.room

\* AddSize changes sizes only.
LEMMA AddSizeFields ==
  ASSUME NEW s, s \in Indexes, NEW bs, NEW z \in Int
  PROVE  LET t == AddSize(s, bs, z)
         IN  /\ t \in Indexes /\ SameLinks(s, t)
             /\ \A b \in Blocks : t.size[b] = IF b \in bs THEN s.size[b] + z ELSE s.size[b]
<1> DEFINE size == [b \in Blocks |-> IF b \in bs THEN s.size[b] + z ELSE s.size[b]]
           t == AddSize(s, bs, z)
<1>1. s.size \in [Blocks -> Int]
  BY IndexParts
<1>2. size \in [Blocks -> Int]
  BY <1>1
<1>3. t = [s EXCEPT !.size = size]
  BY DEF AddSize
<1>4. \A b \in Blocks : size[b] = IF b \in bs THEN s.size[b] + z ELSE s.size[b]
  OBVIOUS
<1> HIDE DEF size
<1>5. t \in Indexes /\ SameLinks(s, t) /\ t.size = size
  BY <1>2, <1>3 DEF Indexes, SameLinks
<1> HIDE DEF t
<1>6. \A b \in Blocks : t.size[b] = IF b \in bs THEN s.size[b] + z ELSE s.size[b]
  BY <1>4, <1>5
<1> QED BY <1>5, <1>6 DEF t

\* RemoveCount takes the size of a block from all above it.
LEMMA RemoveCountFields ==
  ASSUME NEW s, s \in Indexes, NEW b \in Blocks
  PROVE  LET t == RemoveCount(s, b)
         IN  /\ t \in Indexes /\ SameLinks(s, t)
             /\ \A a \in Blocks :
                  t.size[a] = IF a \in Above(s.parent, s.parent[b]) THEN s.size[a] - s.size[b]
                              ELSE s.size[a]
<1>1. s.size \in [Blocks -> Int]
  BY IndexParts
<1>2. s.size[b] \in Int /\ -s.size[b] \in Int
  BY <1>1
<1>3. Ancestors(s, b) = Above(s.parent, s.parent[b])
  BY DEF Ancestors, Above
<1> DEFINE t == RemoveCount(s, b)
<1>4. /\ t \in Indexes /\ SameLinks(s, t)
      /\ \A a \in Blocks : t.size[a] = IF a \in Above(s.parent, s.parent[b])
                                         THEN s.size[a] + (-s.size[b]) ELSE s.size[a]
  BY <1>2, <1>3, AddSizeFields DEF RemoveCount
<1> HIDE DEF t
<1>5. \A a \in Blocks : s.size[a] \in Int
  BY <1>1
<1>6. \A a \in Blocks : s.size[a] + (-s.size[b]) = s.size[a] - s.size[b]
  BY <1>2, <1>5
<1>7. \A a \in Blocks : t.size[a] = IF a \in Above(s.parent, s.parent[b])
                                      THEN s.size[a] - s.size[b] ELSE s.size[a]
  BY <1>4, <1>6
<1> QED BY <1>4, <1>7 DEF t

\* The end of the list of a directory.
LastEntry(s, d) == CHOOSE b \in Children(s, d) : s.next[b] = Null

\* The entries of a directory go to the chain of removed blocks.
LEMMA EmptiedFields ==
  ASSUME NEW s, s \in Indexes, NEW d \in Blocks
  PROVE  LET t == Emptied(s, d)
         IN  /\ t \in Indexes
             /\ t.parent = s.parent /\ t.size = s.size
             /\ t.offset = s.offset /\ t.room = s.room
             /\ t.deleted = s.child[d]
             /\ t.child = [s.child EXCEPT ![d] = Null]
             /\ t.next = [s.next EXCEPT ![LastEntry(s, d)] = s.deleted]
<1> DEFINE last == LastEntry(s, d)
           t == Emptied(s, d)
<1>1. t = [s EXCEPT !.next[last] = s.deleted, !.deleted = s.child[d], !.child[d] = Null]
  BY DEF Emptied, LastEntry
<1> HIDE DEF last
<1>2. s.child[d] \in Blocks /\ Null \in Blocks /\ s.deleted \in Blocks
  BY IndexParts, BlocksFinite DEF Links
<1>3. [s.next EXCEPT ![last] = s.deleted] \in Links /\ [s.child EXCEPT ![d] = Null] \in Links
  BY <1>2, IndexParts DEF Links
<1> HIDE DEF t
<1>4. /\ t \in Indexes
      /\ t.parent = s.parent /\ t.size = s.size
      /\ t.offset = s.offset /\ t.room = s.room
      /\ t.deleted = s.child[d]
      /\ t.child = [s.child EXCEPT ![d] = Null]
      /\ t.next = [s.next EXCEPT ![last] = s.deleted]
  BY <1>1, <1>2, <1>3 DEF Indexes, Links
<1> QED BY <1>4 DEF t, last

\* The block becomes the head of the chain.
LEMMA PushedFields ==
  ASSUME NEW s, s \in Indexes, NEW b \in Blocks
  PROVE  LET t == Pushed(s, b)
         IN  /\ t \in Indexes
             /\ t.parent = s.parent /\ t.size = s.size /\ t.child = s.child
             /\ t.offset = s.offset /\ t.room = s.room
             /\ t.deleted = b
             /\ t.next = [s.next EXCEPT ![b] = s.deleted]
<1>1. s.deleted \in Blocks /\ [s.next EXCEPT ![b] = s.deleted] \in Links
  BY IndexParts DEF Links
<1> QED BY <1>1 DEF Indexes, Links, Pushed

\* Only the list of the parent changes when a block is taken out of it.
LEMMA UnlinkedFields ==
  ASSUME NEW s, s \in Indexes, NEW b \in Blocks
  PROVE  LET t == Unlinked(s, b)
             d == s.parent[b]
         IN  /\ t \in Indexes
             /\ t.parent = s.parent /\ t.size = s.size /\ t.deleted = s.deleted
             /\ t.offset = s.offset /\ t.room = s.room
             /\ s.child[d] = b => /\ t.child = [s.child EXCEPT ![d] = s.next[b]]
                                  /\ t.next = s.next
             /\ s.child[d] # b =>
                  /\ t.child = s.child
                  /\ t.next = [x \in Blocks |->
                       IF x \in Children(s, d) /\ s.next[x] = b THEN s.next[b] ELSE s.next[x]]
<1> DEFINE t == Unlinked(s, b)
           d == s.parent[b]
           next == [x \in Blocks |->
                      IF x \in Children(s, d) /\ s.next[x] = b THEN s.next[b] ELSE s.next[x]]
<1>1. d \in Blocks /\ s.next[b] \in Blocks
  BY IndexParts DEF Links
<1>2. next \in Links
  BY <1>1, IndexParts DEF Links
<1>3. [s.child EXCEPT ![d] = s.next[b]] \in Links
  BY <1>1, IndexParts DEF Links
<1>4. t = IF s.child[d] = b THEN [s EXCEPT !.child[d] = s.next[b]]
          ELSE [s EXCEPT !.next = next]
  BY DEF Unlinked
<1> HIDE DEF next, d, t
<1>5. CASE s.child[d] = b
  <2>1. t = [s EXCEPT !.child = [s.child EXCEPT ![d] = s.next[b]]]
    BY <1>4, <1>5
  <2> QED BY <2>1, <1>3, <1>5 DEF Indexes, Links, t, d
<1>6. CASE s.child[d] # b
  <2>1. t = [s EXCEPT !.next = next]
    BY <1>4, <1>6
  <2>2. /\ t \in Indexes
        /\ t.parent = s.parent /\ t.size = s.size /\ t.deleted = s.deleted
        /\ t.offset = s.offset /\ t.room = s.room
        /\ t.child = s.child /\ t.next = next
    BY <2>1, <1>2 DEF Indexes, Links
  <2> QED BY <2>2, <1>6 DEF next, t, d
<1> QED BY <1>5, <1>6

-----------------------------------------------------------------------------
(* What the operations do to the structure.                                *)

\* The structure is in the links.
LEMMA IndexSame ==
  ASSUME NEW s, NEW T, NEW C, NEW r, IsIndex(s, T, C, r),
         NEW t, t \in Indexes, SameLinks(s, t)
  PROVE  IsIndex(t, T, C, r)
BY DEF IsIndex, SameLinks

\* The parts of an index.
LEMMA IndexFacts ==
  ASSUME NEW s, NEW T, NEW C, NEW r, IsIndex(s, T, C, r)
  PROVE  /\ s \in Indexes /\ r \in Ranks /\ IsTree(s.parent, T, r)
         /\ s.parent \in Links /\ s.next \in Links /\ s.child \in Links
         /\ s.size \in [Blocks -> Int] /\ s.deleted \in Blocks
         /\ T \subseteq Blocks \ {Null} /\ C \subseteq Blocks \ {Null}
         /\ Root \in T /\ T \cap C = {}
         /\ s.next[Null] = Null /\ s.child[Null] = Null
         /\ s.parent[Null] = Null /\ s.parent[Root] = Null
         /\ \A b \in T \ {Root} : s.parent[b] \in T /\ b \in Kids(s.parent, T, s.parent[b])
         /\ \A d \in T : /\ IsList(s.next, s.child[d], Kids(s.parent, T, d), r)
                         /\ s.child[d] = Null <=> Kids(s.parent, T, d) = {}
                         /\ d \notin Kids(s.parent, T, d)
         /\ IsList(s.next, s.deleted, C, r)
<1>1. /\ s \in Indexes /\ r \in Ranks /\ IsTree(s.parent, T, r)
      /\ s.parent \in Links /\ s.next \in Links /\ s.child \in Links
      /\ s.size \in [Blocks -> Int] /\ s.deleted \in Blocks
  BY IndexParts DEF IsIndex
<1>2. /\ T \subseteq Blocks \ {Null} /\ C \subseteq Blocks \ {Null}
      /\ Root \in T /\ T \cap C = {}
      /\ s.next[Null] = Null /\ s.child[Null] = Null
      /\ s.parent[Null] = Null /\ s.parent[Root] = Null
      /\ IsList(s.next, s.deleted, C, r)
  BY DEF IsIndex, IsTree, IsList
<1>3. \A b \in T \ {Root} : s.parent[b] \in T /\ b \in Kids(s.parent, T, s.parent[b])
  BY DEF IsIndex, IsTree, Kids
<1>4. ASSUME NEW d \in T
      PROVE  /\ IsList(s.next, s.child[d], Kids(s.parent, T, d), r)
             /\ s.child[d] = Null <=> Kids(s.parent, T, d) = {}
             /\ d \notin Kids(s.parent, T, d)
  <2>1. IsList(s.next, s.child[d], Kids(s.parent, T, d), r)
    BY DEF IsIndex
  <2>2. d \notin Kids(s.parent, T, d)
    BY <1>1, ParentIsAbove DEF Kids
  <2> QED BY <1>1, <2>1, <2>2, ListHeadAndEnd
<1> QED BY <1>1, <1>2, <1>3, <1>4

\* The entries of a directory that have no entries of their own leave the tree
\* for the chain of removed blocks.
LEMMA EmptiedIsIndex ==
  ASSUME NEW s, NEW T, NEW C, NEW r, IsIndex(s, T, C, r), NEW d \in T,
         s.child[d] # Null, \A b \in Kids(s.parent, T, d) : s.child[b] = Null
  PROVE  /\ \E q : IsIndex(Emptied(s, d), T \ Kids(s.parent, T, d), C \cup Kids(s.parent, T, d), q)
         /\ \A b \in Blocks \ Kids(s.parent, T, d) : Emptied(s, d).next[b] = s.next[b]
<1> DEFINE K == Kids(s.parent, T, d)
           t == Emptied(s, d)
           last == LastEntry(s, d)
<1>1. /\ s \in Indexes /\ r \in Ranks /\ IsTree(s.parent, T, r)
      /\ s.parent \in Links /\ s.next \in Links /\ s.child \in Links /\ s.deleted \in Blocks
      /\ T \subseteq Blocks \ {Null} /\ C \subseteq Blocks \ {Null}
      /\ Root \in T /\ T \cap C = {}
      /\ s.next[Null] = Null /\ s.child[Null] = Null
      /\ IsList(s.next, s.child[d], K, r)
      /\ IsList(s.next, s.deleted, C, r)
      /\ d \notin K
  BY IndexFacts
<1>2. /\ Children(s, d) = K
      /\ \A e \in T : s.child[e] = Null => Kids(s.parent, T, e) = {}
  BY ChildrenAreKids, IndexFacts
<1>3. last \in K /\ s.next[last] = Null
  <2>1. K # {}
    BY <1>1 DEF IsList
  <2>2. \E b \in K : s.next[b] = Null
    BY <1>1, <2>1, ListHeadAndEnd
  <2> QED BY <1>2, <2>2 DEF LastEntry
<1>4. /\ t \in Indexes
      /\ t.parent = s.parent /\ t.offset = s.offset
      /\ t.deleted = s.child[d]
      /\ t.child = [s.child EXCEPT ![d] = Null]
      /\ t.next = [s.next EXCEPT ![last] = s.deleted]
  <2>1. d \in Blocks
    BY <1>1
  <2> QED BY <1>1, <2>1, EmptiedFields
<1>5. K \subseteq T /\ K \subseteq Blocks \ {Null} /\ Root \notin K
  BY <1>1 DEF Kids
<1> HIDE DEF t, last
<1>6. \A b \in Blocks : b # last => t.next[b] = s.next[b]
  BY <1>1, <1>4 DEF Links
<1>7. \A b \in Blocks : t.child[b] = IF b = d THEN Null ELSE s.child[b]
  BY <1>1, <1>4 DEF Links
<1>8. PICK m \in Nat : \A b \in Blocks : r[b] <= m
  BY <1>1, RanksBounded
<1> DEFINE q == [b \in Blocks |-> IF b \in K THEN m + 1 + r[b] ELSE r[b]]
<1>9. \A b \in Blocks : r[b] \in Nat
  BY <1>1 DEF Ranks
<1>10. q \in Ranks
  BY <1>8, <1>9 DEF Ranks
<1>11. /\ \A b \in Blocks \ K : q[b] = r[b]
       /\ \A b \in K : q[b] = m + 1 + r[b]
  BY <1>5
<1> HIDE DEF q, K
<1>12. IsTree(t.parent, T \ K, q)
  <2>1. ASSUME NEW b \in (T \ K) \ {Root}
        PROVE  s.parent[b] \in T \ K /\ q[s.parent[b]] < q[b]
    <3>1. s.parent[b] \in T /\ b \in Kids(s.parent, T, s.parent[b]) /\ r[s.parent[b]] < r[b]
      BY IndexFacts DEF IsTree
    <3>2. s.parent[b] \notin K
      <4> SUFFICES ASSUME s.parent[b] \in K
                   PROVE  FALSE
        OBVIOUS
      <4>1. s.child[s.parent[b]] = Null
        BY DEF K
      <4>2. Kids(s.parent, T, s.parent[b]) = {}
        BY <3>1, <4>1, <1>2
      <4> QED BY <3>1, <4>2
    <3> QED BY <3>1, <3>2, <1>1, <1>11
  <2> QED BY <1>1, <1>4, <1>5, <2>1 DEF IsTree
<1>13. ASSUME NEW e \in T \ K
       PROVE  IsList(t.next, t.child[e], Kids(t.parent, T \ K, e), q)
  <2>1. CASE e = d
    <3>1. Kids(t.parent, T \ K, e) = {}
      BY <1>4, <2>1 DEF Kids, K
    <3>2. t.child[e] = Null
      BY <1>1, <1>7, <2>1
    <3> QED BY <3>1, <3>2 DEF IsList
  <2>2. CASE e # d
    <3>1. Kids(t.parent, T \ K, e) = Kids(s.parent, T, e) /\ Kids(s.parent, T, e) \cap K = {}
      BY <1>4, <2>2 DEF Kids, K
    <3>2. t.child[e] = s.child[e]
      BY <1>1, <1>7, <2>2
    <3>3. \A b \in Kids(s.parent, T, e) : t.next[b] = s.next[b] /\ q[b] = r[b]
      BY <1>1, <1>3, <1>6, <1>11, <3>1 DEF Kids
    <3>4. IsList(s.next, s.child[e], Kids(s.parent, T, e), r)
      BY IndexFacts
    <3> QED BY <3>1, <3>2, <3>3, <3>4, ListSame
  <2> QED BY <2>1, <2>2
<1>14. IsList(t.next, t.deleted, K \cup C, q)
  <2>1. K \cap C = {} /\ \A c \in C : q[c] = r[c]
    BY <1>1, <1>5, <1>11
  <2>2. \A b \in K : \A c \in C : r[c] < q[b]
    <3> SUFFICES ASSUME NEW b \in K, NEW c \in C
                 PROVE  r[c] < q[b]
      OBVIOUS
    <3>1. b \in Blocks /\ c \in Blocks
      BY <1>1, <1>5
    <3>2. r[b] \in Nat /\ r[c] \in Nat /\ r[c] <= m /\ q[b] = m + 1 + r[b]
      BY <3>1, <1>8, <1>9, <1>11
    <3> QED BY <3>2
  <2>3. \A b, c \in K : r[b] < r[c] => q[b] < q[c]
    <3> SUFFICES ASSUME NEW b \in K, NEW c \in K, r[b] < r[c]
                 PROVE  q[b] < q[c]
      OBVIOUS
    <3>1. r[b] \in Nat /\ r[c] \in Nat /\ q[b] = m + 1 + r[b] /\ q[c] = m + 1 + r[c]
      BY <1>5, <1>9, <1>11
    <3> QED BY <3>1
  <2>4. IsList(s.next, t.deleted, K, r) /\ t.deleted # Null
    BY <1>1, <1>4
  <2>5. /\ s.next \in Links /\ r \in Ranks /\ last \in K /\ s.next[last] = Null
        /\ IsList(s.next, s.deleted, C, r)
        /\ t.next = [s.next EXCEPT ![last] = s.deleted]
    BY <1>1, <1>3, <1>4
  <2> QED BY <1>10, <2>1, <2>2, <2>3, <2>4, <2>5, ListJoin
<1>15. t.next[Null] = Null /\ t.child[Null] = Null
  BY <1>1, <1>3, <1>5, <1>6, <1>7, BlocksFinite
<1>16. /\ t.offset \in 2 .. MaxBlocks
       /\ (T \ K) \cup (C \cup K) \subseteq 1 .. t.offset - 1
       /\ (T \ K) \cap (C \cup K) = {}
  BY <1>1, <1>4, <1>5 DEF IsIndex
<1>17. C \cup K = K \cup C
  OBVIOUS
<1>18. IsIndex(t, T \ K, C \cup K, q)
  BY <1>4, <1>10, <1>12, <1>13, <1>14, <1>15, <1>16, <1>17 DEF IsIndex
<1> QED BY <1>3, <1>6, <1>18 DEF K, t

\* An entry that has no entries of its own leaves the tree.
LEMMA UnlinkedIsIndex ==
  ASSUME NEW s, NEW T, NEW C, NEW r, IsIndex(s, T, C, r), NEW b \in T \ {Root},
         s.child[b] = Null
  PROVE  IsIndex(Unlinked(s, b), T \ {b}, C, r)
<1> DEFINE t == Unlinked(s, b)
           d == s.parent[b]
           K == Kids(s.parent, T, d)
<1>1. /\ s \in Indexes /\ r \in Ranks /\ IsTree(s.parent, T, r)
      /\ s.parent \in Links /\ s.next \in Links /\ s.child \in Links
      /\ T \subseteq Blocks \ {Null} /\ C \subseteq Blocks \ {Null}
      /\ Root \in T /\ T \cap C = {}
      /\ s.next[Null] = Null /\ s.child[Null] = Null
      /\ d \in T /\ b \in K /\ Kids(s.parent, T, b) = {}
      /\ IsList(s.next, s.child[d], K, r)
      /\ IsList(s.next, s.deleted, C, r)
  BY IndexFacts
<1>2. Children(s, d) = K
  BY <1>1, ChildrenAreKids
<1>3. b \in Blocks /\ b # Null /\ d # b /\ d # Null
  BY <1>1, ParentIsAbove
<1>4. /\ t \in Indexes
      /\ t.parent = s.parent /\ t.deleted = s.deleted /\ t.offset = s.offset
      /\ s.child[d] = b => /\ t.child = [s.child EXCEPT ![d] = s.next[b]]
                           /\ t.next = s.next
      /\ s.child[d] # b =>
           /\ t.child = s.child
           /\ t.next = [x \in Blocks |-> IF x \in K /\ s.next[x] = b THEN s.next[b] ELSE s.next[x]]
  BY <1>1, <1>2, <1>3, UnlinkedFields
<1> HIDE DEF t
<1>5. /\ \A x \in Blocks \ K : t.next[x] = s.next[x]
      /\ \A x \in Blocks \ {d} : t.child[x] = s.child[x]
      /\ s.child[d] = b => t.child[d] = s.next[b] /\ t.next = s.next
      /\ s.child[d] # b => /\ t.child[d] = s.child[d]
                           /\ \A x \in K : t.next[x] = IF s.next[x] = b THEN s.next[b] ELSE s.next[x]
  <2>1. K \subseteq Blocks
    BY <1>1 DEF IsList
  <2> HIDE DEF K
  <2> QED BY <1>1, <1>3, <1>4, <2>1 DEF Links
<1>6. IsTree(t.parent, T \ {b}, r)
  <2>1. ASSUME NEW c \in (T \ {b}) \ {Root}
        PROVE  s.parent[c] \in T \ {b} /\ r[s.parent[c]] < r[c]
    BY <1>1 DEF IsTree, Kids
  <2> QED BY <1>1, <1>4, <2>1 DEF IsTree
<1>7. IsList(t.next, t.child[d], K \ {b}, r)
  <2>1. CASE s.child[d] = b
    <3>1. t.child[d] = s.next[s.child[d]] /\ t.next = s.next /\ s.child[d] # Null
      BY <1>3, <1>5, <2>1
    <3> HIDE DEF K, d
    <3> QED BY <1>1, <2>1, <3>1, ListPop
  <2>2. CASE s.child[d] # b
    <3>1. t.child[d] = s.child[d]
          /\ \A x \in K : t.next[x] = IF s.next[x] = b THEN s.next[b] ELSE s.next[x]
      BY <1>5, <2>2
    <3> HIDE DEF K, d
    <3> QED BY <1>1, <2>2, <3>1, ListUnlink
  <2> QED BY <2>1, <2>2
<1>8. ASSUME NEW e \in T \ {b}
      PROVE  IsList(t.next, t.child[e], Kids(t.parent, T \ {b}, e), r)
  <2>1. CASE e = d
    <3>1. Kids(t.parent, T \ {b}, e) = K \ {b}
      BY <1>4, <2>1 DEF Kids
    <3> QED BY <1>7, <2>1, <3>1
  <2>2. CASE e # d
    <3>1. Kids(t.parent, T \ {b}, e) = Kids(s.parent, T, e) /\ Kids(s.parent, T, e) \cap K = {}
      BY <1>4, <2>2 DEF Kids
    <3>2. t.child[e] = s.child[e]
      BY <1>1, <1>5, <2>2
    <3>3. \A x \in Kids(s.parent, T, e) : t.next[x] = s.next[x] /\ r[x] = r[x]
      BY <1>1, <1>5, <3>1 DEF Kids
    <3>4. IsList(s.next, s.child[e], Kids(s.parent, T, e), r)
      BY IndexFacts
    <3> QED BY <3>1, <3>2, <3>3, <3>4, ListSame
  <2> QED BY <2>1, <2>2
<1>9. IsList(t.next, t.deleted, C, r)
  <2>1. \A x \in C : t.next[x] = s.next[x] /\ r[x] = r[x]
    BY <1>1, <1>5 DEF Kids
  <2>2. t.deleted = s.deleted
    BY <1>4
  <2> QED BY <1>1, <2>1, <2>2, ListSame
<1>10. t.next[Null] = Null /\ t.child[Null] = Null
  <2>1. Null \notin K
    BY <1>1 DEF IsList
  <2> QED BY <1>1, <1>3, <1>5, <2>1, BlocksFinite
<1>11. /\ t.offset \in 2 .. MaxBlocks
       /\ (T \ {b}) \cup C \subseteq 1 .. t.offset - 1
       /\ (T \ {b}) \cap C = {}
  BY <1>1, <1>4 DEF IsIndex
<1> QED BY <1>1, <1>4, <1>6, <1>8, <1>9, <1>10, <1>11 DEF IsIndex, t

\* A block that is in neither becomes the head of the chain.
LEMMA PushedIsIndex ==
  ASSUME NEW s, NEW T, NEW C, NEW r, IsIndex(s, T, C, r),
         NEW b \in 1 .. s.offset - 1, b \notin T, b \notin C
  PROVE  \E q : IsIndex(Pushed(s, b), T, C \cup {b}, q)
<1> DEFINE t == Pushed(s, b)
<1>1. /\ s \in Indexes /\ r \in Ranks /\ IsTree(s.parent, T, r)
      /\ s.parent \in Links /\ s.next \in Links /\ s.child \in Links
      /\ T \subseteq Blocks \ {Null} /\ C \subseteq Blocks \ {Null}
      /\ s.next[Null] = Null /\ s.child[Null] = Null
      /\ IsList(s.next, s.deleted, C, r)
  BY IndexFacts
<1>2. b \in Blocks /\ b # Null
  <2>1. MaxBlocks \in Nat /\ s.offset \in 2 .. MaxBlocks
    BY BlocksFinite DEF IsIndex
  <2> QED BY <2>1 DEF Blocks, Null
<1>3. /\ t \in Indexes
      /\ t.parent = s.parent /\ t.child = s.child /\ t.offset = s.offset
      /\ t.deleted = b
      /\ t.next = [s.next EXCEPT ![b] = s.deleted]
  BY <1>1, <1>2, PushedFields
<1> HIDE DEF t
<1>4. t.next[b] = s.deleted /\ \A x \in Blocks \ {b} : t.next[x] = s.next[x]
  BY <1>1, <1>2, <1>3 DEF Links
<1>5. PICK m \in Nat : \A x \in Blocks : r[x] <= m
  BY <1>1, RanksBounded
<1> DEFINE q == [r EXCEPT ![b] = m + 1]
<1>6. q \in Ranks /\ q[b] = m + 1 /\ \A x \in Blocks \ {b} : q[x] = r[x]
  BY <1>1, <1>2 DEF Ranks
<1> HIDE DEF q
<1>7. \A x \in T \cup C : x \in Blocks \ {b}
  BY <1>1
<1>8. IsTree(t.parent, T, q)
  BY <1>1, <1>3, <1>6, <1>7 DEF IsTree
<1>9. ASSUME NEW d \in T
      PROVE  IsList(t.next, t.child[d], Kids(t.parent, T, d), q)
  <2>1. \A x \in Kids(s.parent, T, d) : t.next[x] = s.next[x] /\ q[x] = r[x]
    BY <1>4, <1>6, <1>7 DEF Kids
  <2>2. IsList(s.next, s.child[d], Kids(s.parent, T, d), r)
    BY IndexFacts
  <2>3. t.child[d] = s.child[d] /\ Kids(t.parent, T, d) = Kids(s.parent, T, d)
    BY <1>3
  <2> QED BY <2>1, <2>2, <2>3, ListSame
<1>10. IsList(t.next, t.deleted, C \cup {b}, q)
  <2>1. \A x \in C : t.next[x] = s.next[x] /\ q[x] = r[x]
    BY <1>4, <1>6, <1>7
  <2>2. \A x \in C : r[x] < q[b]
    <3>1. \A x \in C : r[x] \in Nat /\ r[x] <= m
      BY <1>1, <1>5 DEF Ranks
    <3> QED BY <3>1, <1>6
  <2>3. b \in Blocks \ {Null} /\ t.next[b] = s.deleted /\ t.deleted = b
    BY <1>2, <1>3, <1>4
  <2>4. IsList(t.next, b, C \cup {b}, q)
    <3>1. /\ r \in Ranks /\ q \in Ranks /\ IsList(s.next, s.deleted, C, r)
          /\ b \in Blocks \ {Null} /\ b \notin C
          /\ \A x \in C : t.next[x] = s.next[x] /\ q[x] = r[x]
          /\ t.next[b] = s.deleted
          /\ \A x \in C : r[x] < q[b]
      BY <1>1, <1>6, <2>1, <2>2, <2>3
    <3> QED BY <3>1, ListPush
  <2> QED BY <2>3, <2>4
<1>11. t.next[Null] = Null /\ t.child[Null] = Null
  BY <1>1, <1>2, <1>3, <1>4, BlocksFinite
<1>12. /\ t.offset \in 2 .. MaxBlocks
       /\ T \cup (C \cup {b}) \subseteq 1 .. t.offset - 1
       /\ T \cap (C \cup {b}) = {}
  BY <1>3 DEF IsIndex
<1>13. IsIndex(t, T, C \cup {b}, q)
  BY <1>3, <1>6, <1>8, <1>9, <1>10, <1>11, <1>12 DEF IsIndex
<1> QED BY <1>13 DEF t

\* The links of t are those of s with n as the first entry of d.
IsLinked(s, d, n, t) ==
  /\ t \in Indexes
  /\ t.parent = [s.parent EXCEPT ![n] = d]
  /\ t.next = [s.next EXCEPT ![n] = s.child[d]]
  /\ t.child = [[s.child EXCEPT ![d] = n] EXCEPT ![n] = Null]
  /\ t.deleted = s.deleted /\ t.offset = s.offset /\ t.room = s.room

\* A block that is in neither becomes the first entry of a directory.
LEMMA LinkedIsIndex ==
  ASSUME NEW s, NEW T, NEW C, NEW r, IsIndex(s, T, C, r), NEW d \in T,
         NEW n \in 1 .. s.offset - 1, n \notin T, n \notin C,
         NEW t, IsLinked(s, d, n, t)
  PROVE  \E q : IsIndex(t, T \cup {n}, C, q)
<1>1. /\ s \in Indexes /\ r \in Ranks /\ IsTree(s.parent, T, r)
      /\ s.parent \in Links /\ s.next \in Links /\ s.child \in Links
      /\ T \subseteq Blocks \ {Null} /\ C \subseteq Blocks \ {Null}
      /\ Root \in T /\ T \cap C = {}
      /\ s.next[Null] = Null /\ s.child[Null] = Null
      /\ IsList(s.next, s.deleted, C, r)
  BY IndexFacts
<1>2. n \in Blocks /\ n # Null /\ d \in Blocks /\ d # Null /\ n # d /\ Null \in Blocks
  <2>1. MaxBlocks \in Nat /\ s.offset \in 2 .. MaxBlocks
    BY BlocksFinite DEF IsIndex
  <2>2. n \in Blocks /\ n # Null
    BY <2>1 DEF Blocks, Null
  <2> QED BY <1>1, <2>2, BlocksFinite
<1>3. /\ t.parent[n] = d /\ \A x \in Blocks \ {n} : t.parent[x] = s.parent[x]
      /\ t.next[n] = s.child[d] /\ \A x \in Blocks \ {n} : t.next[x] = s.next[x]
      /\ t.child[n] = Null /\ t.child[d] = n
      /\ \A x \in Blocks \ {n, d} : t.child[x] = s.child[x]
      /\ t \in Indexes /\ t.deleted = s.deleted /\ t.offset = s.offset
  BY <1>1, <1>2 DEF Links, IsLinked
<1>4. PICK m \in Nat : \A x \in Blocks : r[x] <= m
  BY <1>1, RanksBounded
<1> DEFINE q == [r EXCEPT ![n] = m + 1]
<1>5. q \in Ranks /\ q[n] = m + 1 /\ \A x \in Blocks \ {n} : q[x] = r[x]
  BY <1>1, <1>2 DEF Ranks
<1> HIDE DEF q
<1>6. \A x \in T \cup C : x \in Blocks \ {n}
  BY <1>1
<1>7. \A x \in T \cup C : r[x] < q[n]
  <2>1. \A x \in T \cup C : r[x] \in Nat /\ r[x] <= m
    BY <1>4, <1>6, <1>1 DEF Ranks
  <2> QED BY <2>1, <1>5
<1>8. IsTree(t.parent, T \cup {n}, q)
  <2>1. ASSUME NEW b \in (T \cup {n}) \ {Root}
        PROVE  t.parent[b] \in T \cup {n} /\ q[t.parent[b]] < q[b]
    <3>1. CASE b = n
      BY <1>3, <1>5, <1>6, <1>7, <3>1
    <3>2. CASE b # n
      <4>1. b \in T \ {Root} /\ t.parent[b] = s.parent[b] /\ s.parent[b] \in T
        BY <1>1, <1>3, <1>6, <3>2 DEF IsTree
      <4> QED BY <4>1, <1>1, <1>5, <1>6 DEF IsTree
    <3> QED BY <3>1, <3>2
  <2>2. t.parent[Root] = Null /\ t.parent[Null] = Null
    BY <1>1, <1>2, <1>3, <1>6 DEF IsTree
  <2> QED BY <1>1, <1>2, <2>1, <2>2 DEF IsTree
<1>9. ASSUME NEW e \in T \cup {n}
      PROVE  IsList(t.next, t.child[e], Kids(t.parent, T \cup {n}, e), q)
  <2>1. CASE e = n
    <3>1. Kids(t.parent, T \cup {n}, n) = {}
      <4>1. \A b \in T \ {Root} : t.parent[b] \in T
        BY <1>1, <1>3, <1>6 DEF IsTree
      <4> QED BY <4>1, <1>2, <1>3 DEF Kids
    <3> QED BY <1>3, <2>1, <3>1 DEF IsList
  <2>2. CASE e = d
    <3>1. Kids(t.parent, T \cup {n}, d) = Kids(s.parent, T, d) \cup {n}
      <4>1. n # Root
        BY <1>1
      <4> QED BY <1>3, <1>6, <4>1 DEF Kids
    <3>2. /\ r \in Ranks /\ q \in Ranks /\ IsList(s.next, s.child[d], Kids(s.parent, T, d), r)
          /\ n \in Blocks \ {Null} /\ n \notin Kids(s.parent, T, d)
          /\ \A x \in Kids(s.parent, T, d) : t.next[x] = s.next[x] /\ q[x] = r[x]
          /\ t.next[n] = s.child[d]
          /\ \A x \in Kids(s.parent, T, d) : r[x] < q[n]
      <4>1. IsList(s.next, s.child[d], Kids(s.parent, T, d), r)
        BY IndexFacts
      <4>2. \A x \in Kids(s.parent, T, d) : x \in T
        BY DEF Kids
      <4> QED BY <1>1, <1>2, <1>3, <1>5, <1>6, <1>7, <4>1, <4>2
    <3>3. IsList(t.next, n, Kids(s.parent, T, d) \cup {n}, q)
      BY <3>2, ListPush
    <3> QED BY <1>3, <2>2, <3>1, <3>3
  <2>3. CASE e # n /\ e # d
    <3>1. Kids(t.parent, T \cup {n}, e) = Kids(s.parent, T, e)
      BY <1>3, <1>6, <2>3 DEF Kids
    <3>2. t.child[e] = s.child[e]
      BY <1>3, <1>6, <2>3
    <3>3. \A x \in Kids(s.parent, T, e) : t.next[x] = s.next[x] /\ q[x] = r[x]
      BY <1>3, <1>5, <1>6 DEF Kids
    <3>4. IsList(s.next, s.child[e], Kids(s.parent, T, e), r)
      BY <2>3, IndexFacts
    <3> QED BY <3>1, <3>2, <3>3, <3>4, ListSame
  <2> QED BY <2>1, <2>2, <2>3
<1>10. IsList(t.next, t.deleted, C, q)
  <2>1. \A x \in C : t.next[x] = s.next[x] /\ q[x] = r[x]
    BY <1>3, <1>5, <1>6
  <2> QED BY <1>1, <1>3, <2>1, ListSame
<1>11. t.next[Null] = Null /\ t.child[Null] = Null
  BY <1>1, <1>2, <1>3
<1>12. /\ t.offset \in 2 .. MaxBlocks
       /\ (T \cup {n}) \cup C \subseteq 1 .. t.offset - 1
       /\ (T \cup {n}) \cap C = {}
  BY <1>3 DEF IsIndex
<1>13. IsIndex(t, T \cup {n}, C, q)
  BY <1>3, <1>5, <1>8, <1>9, <1>10, <1>11, <1>12 DEF IsIndex
<1> QED BY <1>13

\* A block is taken from the chain, or from the end of the buffer.
LEMMA TakenIsIndex ==
  ASSUME NEW s, NEW T, NEW C, NEW r, IsIndex(s, T, C, r), NewBlock(s) \in Blocks
  PROVE  LET t == Taken(s)
             n == NewBlock(s)
         IN  /\ t.parent = s.parent /\ t.next = s.next
             /\ t.child = s.child /\ t.size = s.size
             /\ n \in 1 .. t.offset - 1 /\ n \notin T
             /\ Reuses(s) => /\ n \in C /\ t.offset = s.offset /\ t.room = s.room
                             /\ IsIndex(t, T, C \ {n}, r)
             /\ ~Reuses(s) => /\ n = s.offset /\ t.offset = s.offset + 1
                              /\ t.room = IF Item * s.offset + Item > s.room THEN 2 * s.room ELSE s.room
                              /\ IsIndex(t, T, {}, r)
<1> DEFINE t == Taken(s)
           n == NewBlock(s)
<1>1. /\ s \in Indexes /\ r \in Ranks /\ IsTree(s.parent, T, r)
      /\ s.parent \in Links /\ s.next \in Links /\ s.child \in Links
      /\ s.size \in [Blocks -> Int] /\ s.deleted \in Blocks
      /\ T \subseteq Blocks \ {Null} /\ C \subseteq Blocks \ {Null}
      /\ T \cap C = {}
      /\ s.next[Null] = Null /\ s.child[Null] = Null
      /\ \A d \in T : IsList(s.next, s.child[d], Kids(s.parent, T, d), r)
      /\ IsList(s.next, s.deleted, C, r)
  BY IndexFacts
<1>2. /\ s.offset \in 2 .. MaxBlocks /\ s.offset \in Nat /\ s.room \in Nat /\ MaxBlocks \in Nat
      /\ T \cup C \subseteq 1 .. s.offset - 1
      /\ Null \in Blocks
  BY <1>1, IndexParts, BlocksFinite DEF IsIndex
<1>3. CASE Reuses(s)
  <2>1. n = s.deleted /\ t = [s EXCEPT !.deleted = s.next[s.deleted]] /\ s.deleted # Null
    BY <1>3 DEF NewBlock, Taken, Reuses
  <2>2. s.next[s.deleted] \in Blocks
    BY <1>1 DEF Links
  <2>3. /\ t \in Indexes
        /\ t.parent = s.parent /\ t.next = s.next /\ t.child = s.child /\ t.size = s.size
        /\ t.offset = s.offset /\ t.room = s.room /\ t.deleted = s.next[n]
    BY <1>1, <2>1, <2>2 DEF Indexes
  <2>4. n \in C
    BY <1>1, <2>1 DEF IsList
  <2>5. IsList(s.next, s.next[n], C \ {n}, r)
    BY <1>1, <2>1, ListPop
  <2> HIDE DEF n, t
  <2>6. IsIndex(t, T, C \ {n}, r)
    BY <1>1, <1>2, <2>3, <2>5 DEF IsIndex
  <2>7. n \in 1 .. t.offset - 1 /\ n \notin T
    BY <1>1, <1>2, <2>3, <2>4
  <2> QED BY <1>3, <2>3, <2>4, <2>6, <2>7 DEF n, t
<1>4. CASE ~Reuses(s)
  <2> DEFINE m == IF Item * s.offset + Item > s.room THEN 2 * s.room ELSE s.room
  <2>1. n = s.offset /\ t = [s EXCEPT !.deleted = Null, !.offset = s.offset + 1, !.room = m]
    BY <1>4 DEF NewBlock, Taken
  <2>2. m \in Nat /\ s.offset + 1 \in Nat
    BY <1>2
  <2> HIDE DEF m
  <2>3. /\ t \in Indexes
        /\ t.parent = s.parent /\ t.next = s.next /\ t.child = s.child /\ t.size = s.size
        /\ t.offset = s.offset + 1 /\ t.room = m /\ t.deleted = Null
    BY <1>1, <1>2, <2>1, <2>2 DEF Indexes
  <2>4. s.offset + 1 \in 2 .. MaxBlocks
    BY <1>2, <2>1 DEF Blocks
  <2>5. T \subseteq 1 .. (s.offset + 1) - 1 /\ n \in 1 .. (s.offset + 1) - 1 /\ n \notin T
    BY <1>2, <2>1
  <2>6. IsList(s.next, Null, {}, r)
    BY DEF IsList
  <2> HIDE DEF n, t
  <2>7. IsIndex(t, T, {}, r)
    BY <1>1, <1>2, <2>3, <2>4, <2>5, <2>6 DEF IsIndex
  <2> QED BY <1>4, <2>1, <2>3, <2>5, <2>7 DEF n, t, m
<1> QED BY <1>3, <1>4

-----------------------------------------------------------------------------
(* The recursion of RemoveChildren().                                      *)

\* One entry is emptied, with w for what is below it.
BranchRemoved(w, s, b) ==
  LET t == RemoveCount(s, b)
  IN  IF t.child[b] = Null THEN t ELSE Emptied(w[t][t.child[b]], b)

\* The entries after b, with w.
RestRemoved(w, u, b) == IF u.next[b] = Null THEN u ELSE w[u][u.next[b]]

RemoveStep(n, w) ==
  [s \in Indexes |-> [b \in Blocks |->
     IF n = 0 THEN s ELSE RestRemoved(w, BranchRemoved(w, s, b), b)]]

\* What RemoveList is, by its recursion.
LEMMA RemoveListRecursion ==
  /\ \A n \in Nat : RemoveList[n] \in [Indexes -> [Blocks -> Indexes]]
  /\ \A n \in Nat, s \in Indexes, b \in Blocks :
       RemoveList[n][s][b] = IF n = 0 THEN s
                             ELSE RestRemoved(RemoveList[n - 1], BranchRemoved(RemoveList[n - 1], s, b), b)
<1> DEFINE V == [Indexes -> [Blocks -> Indexes]]
           F == [y \in Nat \X V |-> RemoveStep(y[1] + 1, y[2])]
           v == RemoveStep(0, <<>>)
<1>1. ASSUME NEW w \in V, NEW s \in Indexes, NEW b \in Blocks
      PROVE  /\ BranchRemoved(w, s, b) \in Indexes
             /\ RestRemoved(w, s, b) \in Indexes
  <2> DEFINE t == RemoveCount(s, b)
  <2>1. t \in Indexes
    BY RemoveCountFields
  <2>2. BranchRemoved(w, s, b) = IF t.child[b] = Null THEN t ELSE Emptied(w[t][t.child[b]], b)
    BY DEF BranchRemoved
  <2> HIDE DEF t
  <2>3. t.child[b] \in Blocks /\ s.next[b] \in Blocks
    BY <2>1, IndexParts DEF Links
  <2>4. w[t][t.child[b]] \in Indexes /\ w[s][s.next[b]] \in Indexes
    BY <2>1, <2>3
  <2>5. Emptied(w[t][t.child[b]], b) \in Indexes
    BY <2>4, EmptiedFields
  <2> QED BY <2>1, <2>2, <2>4, <2>5 DEF RestRemoved
<1>2. ASSUME NEW n \in Nat, NEW w \in V
      PROVE  RemoveStep(n, w) \in V
  BY <1>1 DEF RemoveStep
<1>3. F \in [Nat \X V -> V]
  <2> HIDE DEF V
  <2>1. \A y \in Nat \X V : y[1] + 1 \in Nat /\ y[2] \in V
    OBVIOUS
  <2> QED BY <1>2, <2>1
<1>4. v \in V
  BY DEF RemoveStep
<1> HIDE DEF V
<1>5. \A n \in Nat, w \in V : F[<<n, w>>] = RemoveStep(n + 1, w)
  OBVIOUS
<1> HIDE DEF F, v
<1>6. PICK g : IsMadeBy(g, V, v, F)
  BY <1>3, <1>4, Recursion
<1>7. /\ g \in [Nat -> V]
      /\ g[0] = v
      /\ \A n \in Nat : g[n + 1] = F[<<n, g[n]>>]
  BY <1>6 DEF IsMadeBy
<1>8. ASSUME NEW n \in Nat
      PROVE  g[n] = RemoveStep(n, g[n - 1])
  <2>1. CASE n = 0
    BY <2>1, <1>7 DEF RemoveStep, v
  <2>2. CASE n # 0
    <3>1. n - 1 \in Nat /\ (n - 1) + 1 = n
      BY <2>2
    <3>2. g[n] = F[<<n - 1, g[n - 1]>>]
      BY <3>1, <1>7
    <3> QED BY <3>1, <3>2, <1>5, <1>7
  <2> QED BY <2>1, <2>2
<1>9. g = [n \in Nat |-> RemoveStep(n, g[n - 1])]
  BY <1>7, <1>8
<1>10. RemoveList = CHOOSE f : f = [n \in Nat |-> RemoveStep(n, f[n - 1])]
  BY DEF RemoveList, RemoveStep, BranchRemoved, RestRemoved
<1>11. RemoveList = [n \in Nat |-> RemoveStep(n, RemoveList[n - 1])]
  BY <1>9, <1>10
<1>12. \A n \in Nat : RemoveList[n] = RemoveStep(n, RemoveList[n - 1])
  BY <1>11
<1>13. \A n \in Nat : RemoveList[n] \in V
  <2> DEFINE P == {n \in Nat : RemoveList[n] \in V}
  <2>1. 0 \in P
    <3>1. RemoveList[0] = RemoveStep(0, RemoveList[0 - 1])
      BY <1>12
    <3>2. RemoveStep(0, RemoveList[0 - 1]) \in V
      BY DEF RemoveStep, V
    <3> QED BY <3>1, <3>2
  <2>2. \A n \in Nat : n \in P => n + 1 \in P
    BY <1>2, <1>12
  <2> HIDE DEF P
  <2>3. \A n \in Nat : n \in P
    BY <2>1, <2>2, AllNaturals
  <2> QED BY <2>3 DEF P
<1>14. ASSUME NEW n \in Nat, NEW s \in Indexes, NEW b \in Blocks
       PROVE  RemoveList[n][s][b] =
                IF n = 0 THEN s
                ELSE RestRemoved(RemoveList[n - 1], BranchRemoved(RemoveList[n - 1], s, b), b)
  <2>1. RemoveList[n] = RemoveStep(n, RemoveList[n - 1])
    BY <1>12
  <2> QED BY <2>1 DEF RemoveStep
<1> QED BY <1>13, <1>14 DEF V

\* A block of a list and those after it.
Rest(next, b) == Reach(Along(next), b) \ {Null}

\* The rest of a list is its first block and the rest after that.
LEMMA RestUnfolds ==
  ASSUME NEW next \in Links, NEW r \in Ranks, NEW head, NEW A,
         IsList(next, head, A, r), next[Null] = Null, NEW b \in A
  PROVE  /\ b \in Rest(next, b) /\ Rest(next, b) \subseteq A
         /\ next[b] = Null => Rest(next, b) = {b}
         /\ next[b] # Null => /\ next[b] \in A
                              /\ Rest(next, b) = {b} \cup Rest(next, next[b])
                              /\ b \notin Rest(next, next[b])
<1> DEFINE R(c) == Reach(Along(next), c)
<1>1. \A c \in Blocks :
        /\ R(c) \subseteq Blocks
        /\ c \in R(c)
        /\ \A d \in R(c) : next[d] \in R(c)
        /\ \A S \in SUBSET Blocks : c \in S /\ (\A d \in S : next[d] \in S) => R(c) \subseteq S
  BY ReachAlong
<1> HIDE DEF R
<1>2. A \subseteq Blocks /\ Null \notin A /\ Null \in Blocks /\ b \in Blocks /\ b # Null
  BY BlocksFinite DEF IsList
<1>3. \A c \in A : next[c] \in A \cup {Null} /\ (next[c] # Null => r[next[c]] < r[c])
  BY DEF IsList
<1>4. R(b) \subseteq A \cup {Null}
  <2>1. A \cup {Null} \in SUBSET Blocks /\ \A c \in A \cup {Null} : next[c] \in A \cup {Null}
    BY <1>2, <1>3
  <2> QED BY <1>1, <1>2, <2>1
<1>5. ASSUME next[b] = Null
      PROVE  R(b) \subseteq {b, Null}
  <2>1. {b, Null} \in SUBSET Blocks /\ \A c \in {b, Null} : next[c] \in {b, Null}
    BY <1>2, <1>5
  <2> QED BY <1>1, <1>2, <2>1
<1>6. ASSUME next[b] # Null
      PROVE  /\ R(b) = {b} \cup R(next[b])
             /\ b \notin R(next[b])
  <2>1. next[b] \in A /\ r[next[b]] < r[b]
    BY <1>3, <1>6
  <2>2. R(b) \subseteq {b} \cup R(next[b])
    <3> DEFINE S == {b} \cup R(next[b])
    <3>1. S \in SUBSET Blocks /\ b \in S /\ \A c \in S : next[c] \in S
      BY <1>1, <1>2, <2>1
    <3> QED BY <1>1, <1>2, <3>1
  <2>3. R(next[b]) \subseteq R(b)
    BY <1>1, <1>2, <2>1
  <2>4. b \notin R(next[b])
    <3> DEFINE S == {c \in A : r[c] < r[b]} \cup {Null}
    <3>1. S \in SUBSET Blocks /\ next[b] \in S
      BY <1>2, <2>1
    <3>2. ASSUME NEW c \in S
          PROVE  next[c] \in S
      <4>1. CASE c = Null \/ next[c] = Null
        BY <4>1
      <4>2. CASE c # Null /\ next[c] # Null
        <5>1. next[c] \in A /\ r[next[c]] < r[c] /\ r[c] < r[b]
          BY <1>3, <4>2
        <5>2. r[next[c]] \in Nat /\ r[c] \in Nat /\ r[b] \in Nat
          BY <1>2, <4>2, <5>1 DEF Ranks
        <5>3. r[next[c]] < r[b]
          BY <5>1, <5>2
        <5> QED BY <5>1, <5>3
      <4> QED BY <4>1, <4>2
    <3>3. b \notin S
      <4>1. ~(r[b] < r[b])
        BY <1>2 DEF Ranks
      <4> QED BY <1>2, <4>1
    <3> HIDE DEF S
    <3>4. R(next[b]) \subseteq S
      BY <1>1, <1>2, <2>1, <3>1, <3>2
    <3> QED BY <3>3, <3>4
  <2> QED BY <1>1, <1>2, <2>2, <2>3, <2>4
<1>7. b \in R(b)
  BY <1>1, <1>2
<1> QED BY <1>2, <1>3, <1>4, <1>5, <1>6, <1>7 DEF Rest, R

\* The rest of a list depends on the links of the list only.
LEMMA RestSame ==
  ASSUME NEW next \in Links, NEW next1 \in Links, NEW r \in Ranks, NEW head, NEW A,
         IsList(next, head, A, r), next[Null] = Null, next1[Null] = Null,
         \A c \in A : next1[c] = next[c], NEW b \in A
  PROVE  Rest(next1, b) = Rest(next, b)
<1>1. b \in Blocks /\ A \cup {Null} \in SUBSET Blocks
  BY BlocksFinite DEF IsList
<1>2. ASSUME NEW f \in Links, NEW g \in Links,
             \A c \in A : f[c] = g[c] /\ g[c] \in A \cup {Null}, f[Null] = Null, g[Null] = Null
      PROVE  Reach(Along(f), b) \subseteq Reach(Along(g), b)
  <2> DEFINE G == Reach(Along(g), b)
  <2>1. /\ G \subseteq Blocks /\ b \in G /\ \A c \in G : g[c] \in G
        /\ \A S \in SUBSET Blocks : b \in S /\ (\A c \in S : g[c] \in S) => G \subseteq S
    BY <1>1, ReachAlong
  <2> HIDE DEF G
  <2>2. G \subseteq A \cup {Null}
    BY <1>1, <1>2, <2>1
  <2>3. \A c \in G : f[c] \in G
    BY <1>2, <2>1, <2>2
  <2>4. Reach(Along(f), b) \subseteq G
    BY <1>1, <2>1, <2>3, ReachAlong
  <2> QED BY <2>4 DEF G
<1>3. \A c \in A : next[c] \in A \cup {Null} /\ next1[c] \in A \cup {Null}
  BY DEF IsList
<1>4. Reach(Along(next), b) \subseteq Reach(Along(next1), b)
  BY <1>2, <1>3
<1>5. Reach(Along(next1), b) \subseteq Reach(Along(next), b)
  BY <1>2, <1>3
<1> QED BY <1>4, <1>5 DEF Rest

\* All that is strictly below a block, and below the blocks of a list.
Branch(parent, T, b) == Below(parent, T, b) \ {b}

Branches(parent, T, L) == UNION {Branch(parent, T, l) : l \in L}

\* How branches lie to each other.
LEMMA BranchFacts ==
  ASSUME NEW parent \in Links, NEW r \in Ranks, NEW T, IsTree(parent, T, r), NEW d \in T
  PROVE  /\ Branch(parent, T, d) = Kids(parent, T, d) \cup Branches(parent, T, Kids(parent, T, d))
         /\ \A a \in Above(parent, d) : /\ a \notin Kids(parent, T, d)
                                        /\ a \notin Branches(parent, T, Kids(parent, T, d))
         /\ Kids(parent, T, d) \cap Branches(parent, T, Kids(parent, T, d)) = {}
<1> DEFINE K == Kids(parent, T, d)
<1>1. parent[Null] = Null /\ T \subseteq Blocks \ {Null} /\ d \in Above(parent, d)
      /\ \A b \in T : r[b] \in Nat
  BY AboveInTree DEF IsTree, Ranks
<1>2. ASSUME NEW k \in K
      PROVE  /\ k \in T /\ k # Root /\ parent[k] = d
             /\ Above(parent, k) = {k} \cup Above(parent, d) /\ k \notin Above(parent, d)
             /\ \A a \in Above(parent, d) : r[a] < r[k]
  <2>1. k \in T \ {Root} /\ parent[k] = d
    BY DEF Kids
  <2> QED BY <2>1, ParentIsAbove
<1>3. ASSUME NEW k \in K
      PROVE  k \in Branch(parent, T, d)
  BY <1>1, <1>2 DEF Branch, Below
<1>4. ASSUME NEW k \in K, NEW b \in Branch(parent, T, k)
      PROVE  b \in Branch(parent, T, d) /\ r[k] < r[b]
  <2>1. b \in T /\ k \in Above(parent, b) /\ b # k
    BY <1>4 DEF Branch, Below
  <2>2. r[k] < r[b] /\ Above(parent, k) \subseteq Above(parent, b)
    BY <1>1, <2>1, AboveInTree, AboveUnfolds
  <2>3. d \in Above(parent, b)
    BY <1>1, <1>2, <2>2
  <2>4. b # d
    <3>1. r[d] < r[k]
      BY <1>1, <1>2
    <3> QED BY <1>1, <1>2, <2>1, <2>2, <3>1
  <2> QED BY <2>1, <2>2, <2>3, <2>4 DEF Branch, Below
<1>5. Branch(parent, T, d) \subseteq K \cup Branches(parent, T, K)
  <2> SUFFICES ASSUME Branch(parent, T, d) \ (K \cup Branches(parent, T, K)) # {}
               PROVE  FALSE
    OBVIOUS
  <2> DEFINE S == Branch(parent, T, d) \ (K \cup Branches(parent, T, K))
  <2>1. S \in SUBSET Blocks
    BY <1>1 DEF Branch, Below
  <2>2. PICK b \in S : \A c \in S : r[b] <= r[c]
    BY <2>1, LowestIn
  <2>3. b \in T /\ d \in Above(parent, b) /\ b # d
    BY DEF Branch, Below
  <2>4. b # Root
    BY <2>3, AboveRoot
  <2>5. /\ parent[b] \in T /\ r[parent[b]] < r[b]
        /\ Above(parent, b) = {b} \cup Above(parent, parent[b])
    BY <2>3, <2>4, ParentIsAbove DEF IsTree
  <2>6. parent[b] # d
    BY <2>3, <2>4 DEF Kids
  <2>7. parent[b] \in Branch(parent, T, d) /\ parent[b] \notin S
    <3>1. ~(r[b] <= r[parent[b]])
      BY <1>1, <2>3, <2>5
    <3> QED BY <2>2, <2>3, <2>5, <2>6, <3>1 DEF Branch, Below
  <2>8. PICK k \in K : k \in Above(parent, parent[b])
    <3>1. CASE parent[b] \in K
      BY <2>5, <3>1, AboveInTree
    <3>2. CASE parent[b] \in Branches(parent, T, K)
      BY <3>2 DEF Branches, Branch, Below
    <3> QED BY <2>7, <3>1, <3>2
  <2>9. b \in Branch(parent, T, k)
    <3>1. b \notin Above(parent, parent[b])
      BY <2>3, <2>4, ParentIsAbove
    <3> QED BY <2>3, <2>5, <2>8, <3>1 DEF Branch, Below
  <2> QED BY <2>9 DEF Branches
<1>6. ASSUME NEW a \in Above(parent, d)
      PROVE  a \notin K /\ a \notin Branches(parent, T, K)
  <2>1. a \in T /\ a \notin K
    BY <1>2, AboveInTree
  <2>2. ASSUME NEW k \in K, a \in Branch(parent, T, k)
        PROVE  FALSE
    <3>1. r[k] < r[a] /\ r[a] < r[k]
      BY <1>2, <1>4, <2>2
    <3> QED BY <1>1, <1>2, <2>1, <3>1
  <2> QED BY <2>1, <2>2 DEF Branches
<1>7. ASSUME NEW k \in K, NEW l \in K, k \in Branch(parent, T, l)
      PROVE  FALSE
  <2>1. l \in Above(parent, k) /\ k # l
    BY <1>7 DEF Branch, Below
  <2>2. l \in Above(parent, d)
    BY <1>2, <2>1
  <2> QED BY <1>2, <2>2
<1> QED BY <1>3, <1>4, <1>5, <1>6, <1>7 DEF Branches
-----------------------------------------------------------------------------
(* Weights.                                                                *)

Weights == [Blocks -> Int]

\* The sums of f for the blocks of bs that are below n.
IsSum(f, bs, sum) ==
  /\ sum \in [Nat -> Int]
  /\ sum[0] = 0
  /\ \A n \in Nat : sum[n + 1] = sum[n] + (IF n \in bs THEN f[n] ELSE 0)
  /\ Weight(f, bs) = sum[MaxBlocks]

\* What the recursion of Weight computes.
LEMMA WeightRecursion ==
  ASSUME NEW f \in Weights, NEW bs \in SUBSET Blocks
  PROVE  \E sum : IsSum(f, bs, sum)
<1> DEFINE E(n) == IF n \in bs THEN f[n] ELSE 0
           F == [y \in Nat \X Int |-> y[2] + E(y[1])]
           sum == CHOOSE sum : sum = [n \in Nat |-> IF n = 0 THEN 0 ELSE sum[n - 1] + E(n - 1)]
<1>1. \A n \in Nat : E(n) \in Int
  BY DEF Weights
<1>2. Weight(f, bs) = sum[MaxBlocks]
  BY DEF Weight
<1> HIDE DEF E
<1>3. F \in [Nat \X Int -> Int]
  BY <1>1
<1>4. \A n \in Nat, w \in Int : F[<<n, w>>] = w + E(n)
  OBVIOUS
<1> HIDE DEF F
<1>5. PICK g : IsMadeBy(g, Int, 0, F)
  BY <1>3, Recursion
<1>6. /\ g \in [Nat -> Int]
      /\ g[0] = 0
      /\ \A n \in Nat : g[n + 1] = g[n] + E(n)
  BY <1>4, <1>5 DEF IsMadeBy
<1>7. ASSUME NEW n \in Nat
      PROVE  g[n] = IF n = 0 THEN 0 ELSE g[n - 1] + E(n - 1)
  <2>1. CASE n = 0
    BY <2>1, <1>6
  <2>2. CASE n # 0
    <3>1. n - 1 \in Nat /\ (n - 1) + 1 = n
      BY <2>2
    <3>2. g[(n - 1) + 1] = g[n - 1] + E(n - 1)
      BY <3>1, <1>6
    <3> QED BY <2>2, <3>1, <3>2
  <2> QED BY <2>1, <2>2
<1>8. g = [n \in Nat |-> IF n = 0 THEN 0 ELSE g[n - 1] + E(n - 1)]
  BY <1>6, <1>7
<1>9. sum = [n \in Nat |-> IF n = 0 THEN 0 ELSE sum[n - 1] + E(n - 1)]
  BY <1>8
<1> HIDE DEF sum
<1>10. sum[0] = 0 /\ \A n \in Nat : sum[n + 1] = sum[n] + E(n)
  <2>1. \A n \in Nat : sum[n] = IF n = 0 THEN 0 ELSE sum[n - 1] + E(n - 1)
    BY <1>9
  <2>2. ASSUME NEW n \in Nat
        PROVE  sum[n + 1] = sum[n] + E(n)
    <3>1. n + 1 \in Nat /\ n + 1 # 0 /\ (n + 1) - 1 = n
      OBVIOUS
    <3>2. sum[n + 1] = sum[(n + 1) - 1] + E((n + 1) - 1)
      BY <2>1, <3>1
    <3> QED BY <3>1, <3>2
  <2> QED BY <2>1, <2>2
<1>11. \A n \in Nat : sum[n] \in Int
  <2> DEFINE P == {n \in Nat : sum[n] \in Int}
  <2>1. 0 \in P /\ \A n \in Nat : n \in P => n + 1 \in P
    BY <1>1, <1>10
  <2> HIDE DEF P
  <2>2. \A n \in Nat : n \in P
    BY <2>1, AllNaturals
  <2> QED BY <2>2 DEF P
<1>12. sum \in [Nat -> Int]
  BY <1>9, <1>11
<1>13. \A n \in Nat : sum[n + 1] = sum[n] + (IF n \in bs THEN f[n] ELSE 0)
  BY <1>10 DEF E
<1> QED BY <1>2, <1>10, <1>12, <1>13 DEF IsSum

\* The weight of nothing, of what weighs the same, and of two sets that do not
\* meet.
LEMMA WeightFacts ==
  ASSUME NEW f \in Weights
  PROVE  /\ \A A \in SUBSET Blocks : Weight(f, A) \in Int
         /\ Weight(f, {}) = 0
         /\ \A g \in Weights : \A A \in SUBSET Blocks :
              (\A b \in A : g[b] = f[b]) => Weight(g, A) = Weight(f, A)
         /\ \A A, B \in SUBSET Blocks :
              A \cap B = {} => Weight(f, A \cup B) = Weight(f, A) + Weight(f, B)
<1>0. MaxBlocks \in Nat
  BY BlocksFinite
<1>1. ASSUME NEW A \in SUBSET Blocks
      PROVE  Weight(f, A) \in Int
  BY <1>0, WeightRecursion DEF IsSum
<1>2. Weight(f, {}) = 0
  <2> DEFINE A == {}
  <2> HIDE DEF A
  <2>0. A \in SUBSET Blocks
    BY DEF A
  <2>1. PICK s : IsSum(f, A, s)
    BY <2>0, WeightRecursion
  <2> DEFINE P == {n \in Nat : s[n] = 0}
  <2>2. 0 \in P /\ \A n \in Nat : n \in P => n + 1 \in P
    BY <2>1 DEF IsSum, A
  <2> HIDE DEF P
  <2>3. MaxBlocks \in P
    BY <1>0, <2>2, AllNaturals
  <2> QED BY <2>1, <2>3 DEF P, IsSum, A
<1>3. ASSUME NEW g \in Weights, NEW A \in SUBSET Blocks, \A b \in A : g[b] = f[b]
      PROVE  Weight(g, A) = Weight(f, A)
  <2>1. PICK s : IsSum(f, A, s)
    BY WeightRecursion
  <2>2. PICK t : IsSum(g, A, t)
    BY WeightRecursion
  <2> DEFINE P == {n \in Nat : t[n] = s[n]}
  <2>3. 0 \in P /\ \A n \in Nat : n \in P => n + 1 \in P
    BY <1>3, <2>1, <2>2 DEF IsSum
  <2> HIDE DEF P
  <2>4. MaxBlocks \in P
    BY <1>0, <2>3, AllNaturals
  <2> QED BY <2>1, <2>2, <2>4 DEF P, IsSum
<1>4. ASSUME NEW A \in SUBSET Blocks, NEW B \in SUBSET Blocks, A \cap B = {}
      PROVE  Weight(f, A \cup B) = Weight(f, A) + Weight(f, B)
  <2>1. PICK s : IsSum(f, A, s)
    BY WeightRecursion
  <2>2. PICK t : IsSum(f, B, t)
    BY WeightRecursion
  <2>3. PICK u : IsSum(f, A \cup B, u)
    BY WeightRecursion
  <2> DEFINE P == {n \in Nat : u[n] = s[n] + t[n]}
  <2>4. 0 \in P
    BY <2>1, <2>2, <2>3 DEF IsSum
  <2>5. ASSUME NEW n \in Nat, n \in P
        PROVE  n + 1 \in P
    <3>1. n \in A \cup B => f[n] \in Int
      BY DEF Weights
    <3>2. u[n] \in Int /\ s[n] \in Int /\ t[n] \in Int
      BY <2>1, <2>2, <2>3 DEF IsSum
    <3>3. CASE n \in A
      <4>1. n \notin B /\ n \in A \cup B
        BY <1>4, <3>3
      <4>2. u[n + 1] = u[n] + f[n] /\ s[n + 1] = s[n] + f[n] /\ t[n + 1] = t[n] + 0
        BY <2>1, <2>2, <2>3, <3>3, <4>1 DEF IsSum
      <4> QED BY <2>5, <3>1, <3>2, <4>1, <4>2
    <3>4. CASE n \in B
      <4>1. n \notin A /\ n \in A \cup B
        BY <1>4, <3>4
      <4>2. u[n + 1] = u[n] + f[n] /\ s[n + 1] = s[n] + 0 /\ t[n + 1] = t[n] + f[n]
        BY <2>1, <2>2, <2>3, <3>4, <4>1 DEF IsSum
      <4> QED BY <2>5, <3>1, <3>2, <4>1, <4>2
    <3>5. CASE n \notin A /\ n \notin B
      <4>1. n \notin A \cup B
        BY <3>5
      <4>2. u[n + 1] = u[n] + 0 /\ s[n + 1] = s[n] + 0 /\ t[n + 1] = t[n] + 0
        BY <2>1, <2>2, <2>3, <3>5, <4>1 DEF IsSum
      <4> QED BY <2>5, <3>2, <4>2
    <3> QED BY <3>3, <3>4, <3>5
  <2> HIDE DEF P
  <2>6. MaxBlocks \in P
    BY <1>0, <2>4, <2>5, AllNaturals
  <2> QED BY <2>1, <2>2, <2>3, <2>6 DEF P, IsSum
<1> QED BY <1>1, <1>2, <1>3, <1>4

\* The weight of one block.
LEMMA WeightOfOne ==
  ASSUME NEW f \in Weights, NEW x \in Blocks
  PROVE  Weight(f, {x}) = f[x]
<1>1. PICK s : IsSum(f, {x}, s)
  BY WeightRecursion
<1>2. MaxBlocks \in Nat /\ x \in Nat /\ x < MaxBlocks /\ f[x] \in Int
  BY BlocksFinite DEF Blocks, Weights
<1> DEFINE P == {n \in Nat : s[n] = IF x < n THEN f[x] ELSE 0}
<1>3. 0 \in P
  BY <1>1, <1>2 DEF IsSum
<1>4. ASSUME NEW n \in Nat, n \in P
      PROVE  n + 1 \in P
  <2>1. CASE n = x
    <3>1. s[n] = 0 /\ s[n + 1] = s[n] + f[n] /\ x < n + 1
      BY <1>1, <1>2, <1>4, <2>1 DEF IsSum
    <3> QED BY <1>2, <2>1, <3>1
  <2>2. CASE n # x
    <3>1. s[n + 1] = s[n] + 0 /\ s[n] \in Int
      BY <1>1, <2>2 DEF IsSum
    <3>2. x < n + 1 <=> x < n
      BY <1>2, <2>2
    <3> QED BY <1>2, <1>4, <3>1, <3>2
  <2> QED BY <2>1, <2>2
<1> HIDE DEF P
<1>5. MaxBlocks \in P
  BY <1>2, <1>3, <1>4, AllNaturals
<1> QED BY <1>1, <1>2, <1>5 DEF P, IsSum
-----------------------------------------------------------------------------
(* What RemoveChildren() leaves.                                           *)

\* Entries of d, those in L, have lost all that was below them, which is G.
\* What is above d weighs less, and nothing else has changed.
Removed(s, T, C, d, L, G, t) ==
  /\ t \in Indexes
  /\ t.parent = s.parent /\ t.offset = s.offset /\ t.room = s.room
  /\ \E q : IsIndex(t, T \ G, C \cup G, q)
  /\ \A x \in T \ G : /\ t.next[x] = s.next[x]
                      /\ t.child[x] = IF x \in L THEN Null ELSE s.child[x]
  /\ \E k \in Int :
       /\ \A a \in Above(s.parent, d) : t.size[a] = s.size[a] - k
       /\ (\A l \in L : s.child[l] = Null) => k = Weight(s.size, L)
  /\ \A x \in T \ (G \cup L \cup Above(s.parent, d)) : t.size[x] = s.size[x]

\* A set that has lost an element has fewer.
LEMMA FewerThan ==
  ASSUME NEW X \in SUBSET Blocks, NEW b \in X, NEW S, S \subseteq X \ {b},
         NEW n \in Nat, Cardinality(X) <= n
  PROVE  Cardinality(S) <= n - 1
<1>1. IsFiniteSet(X) /\ Cardinality(X) \in Nat
  BY BlocksFinite
<1>2. IsFiniteSet(X \ {b}) /\ Cardinality(X \ {b}) = Cardinality(X) - 1
  BY <1>1, FS_RemoveElement
<1>3. IsFiniteSet(S) /\ Cardinality(S) <= Cardinality(X \ {b})
  BY <1>2, FS_Subset
<1>4. Cardinality(S) \in Nat
  BY <1>3, FS_CardinalityType
<1> QED BY <1>1, <1>2, <1>3, <1>4

\* Nothing is below two entries of one directory.
LEMMA SiblingsApart ==
  ASSUME NEW parent \in Links, NEW r \in Ranks, NEW T, IsTree(parent, T, r), NEW d \in T,
         NEW b \in Kids(parent, T, d), NEW l \in Kids(parent, T, d), b # l
  PROVE  Below(parent, T, b) \cap Below(parent, T, l) = {}
<1>1. /\ b \in T \ {Root} /\ l \in T \ {Root} /\ parent[b] = d /\ parent[l] = d
      /\ parent[Null] = Null /\ T \subseteq Blocks
  BY DEF Kids, IsTree
<1>2. /\ Above(parent, b) = {b} \cup Above(parent, d) /\ b \notin Above(parent, d)
      /\ Above(parent, l) = {l} \cup Above(parent, d) /\ l \notin Above(parent, d)
  BY <1>1, ParentIsAbove
<1>3. ASSUME NEW x \in T, b \in Above(parent, x), l \in Above(parent, x)
      PROVE  FALSE
  <2>1. x \in Blocks
    BY <1>1
  <2>2. b \in Above(parent, l) \/ l \in Above(parent, b)
    BY <1>1, <1>3, <2>1, AboveIsAWay
  <2> QED BY <1>2, <2>2
<1> QED BY <1>3 DEF Below

\* One entry after the other.
LEMMA RemovedJoin ==
  ASSUME NEW s, NEW T, NEW C, NEW r, IsIndex(s, T, C, r), NEW d \in T,
         NEW b \in Kids(s.parent, T, d),
         NEW L, L \subseteq Kids(s.parent, T, d), b \notin L,
         NEW B, NEW G, B \cap Kids(s.parent, T, d) = {}, B \cap Above(s.parent, d) = {},
         NEW u, NEW t,
         Removed(s, T, C, d, {b}, B, u), Removed(u, T \ B, C \cup B, d, L, G, t)
  PROVE  Removed(s, T, C, d, {b} \cup L, B \cup G, t)
<1> DEFINE K == Kids(s.parent, T, d)
           A == Above(s.parent, d)
<1>1. /\ s \in Indexes /\ r \in Ranks /\ IsTree(s.parent, T, r) /\ s.parent \in Links
      /\ T \subseteq Blocks \ {Null} /\ s.size \in Weights
  BY IndexFacts DEF Weights
<1>2. A \subseteq T /\ K \subseteq T /\ K \subseteq Blocks /\ A \cap K = {}
  <2>1. A \subseteq T
    BY <1>1, AboveInTree
  <2>2. \A a \in A : a \notin K
    BY <1>1, BranchFacts
  <2>3. K \subseteq T
    BY DEF Kids
  <2> QED BY <1>1, <2>1, <2>2, <2>3
<1> HIDE DEF K, A
<1>3. /\ u \in Indexes /\ u.parent = s.parent /\ u.offset = s.offset /\ u.room = s.room
      /\ \A x \in T \ B : /\ u.next[x] = s.next[x]
                          /\ u.child[x] = IF x \in {b} THEN Null ELSE s.child[x]
      /\ \A x \in T \ (B \cup {b} \cup A) : u.size[x] = s.size[x]
  BY DEF Removed, A
<1>4. PICK k \in Int : /\ \A a \in A : u.size[a] = s.size[a] - k
                       /\ s.child[b] = Null => k = Weight(s.size, {b})
  BY DEF Removed, A
<1>5. /\ t \in Indexes /\ t.parent = u.parent /\ t.offset = u.offset /\ t.room = u.room
      /\ \E q : IsIndex(t, (T \ B) \ G, (C \cup B) \cup G, q)
      /\ \A x \in (T \ B) \ G : /\ t.next[x] = u.next[x]
                                /\ t.child[x] = IF x \in L THEN Null ELSE u.child[x]
      /\ \A x \in (T \ B) \ (G \cup L \cup A) : t.size[x] = u.size[x]
  BY <1>3 DEF Removed, A
<1>6. PICK m \in Int : /\ \A a \in A : t.size[a] = u.size[a] - m
                       /\ (\A l \in L : u.child[l] = Null) => m = Weight(u.size, L)
  BY <1>3 DEF Removed, A
<1>7. \E q : IsIndex(t, T \ (B \cup G), C \cup (B \cup G), q)
  <2>1. (T \ B) \ G = T \ (B \cup G) /\ (C \cup B) \cup G = C \cup (B \cup G)
    OBVIOUS
  <2> QED BY <1>5, <2>1
<1>8. \A x \in T \ (B \cup G) : /\ t.next[x] = s.next[x]
                                /\ t.child[x] = IF x \in {b} \cup L THEN Null ELSE s.child[x]
  BY <1>3, <1>5
<1>9. \A a \in A : t.size[a] = s.size[a] - (k + m)
  <2> SUFFICES ASSUME NEW a \in A
               PROVE  t.size[a] = s.size[a] - (k + m)
    OBVIOUS
  <2>1. s.size[a] \in Int
    BY <1>1, <1>2 DEF Weights
  <2>2. t.size[a] = (s.size[a] - k) - m
    BY <1>4, <1>6
  <2> QED BY <2>1, <2>2
<1>10. \A x \in T \ ((B \cup G) \cup ({b} \cup L) \cup A) : t.size[x] = s.size[x]
  BY <1>3, <1>5
<1>11. ASSUME \A l \in {b} \cup L : s.child[l] = Null
       PROVE  k + m = Weight(s.size, {b} \cup L)
  <2>1. L \subseteq T \ (B \cup {b} \cup A)
    BY <1>2 DEF K, A
  <2>2. \A l \in L : u.child[l] = Null
    BY <1>3, <1>11, <2>1
  <2>3. u.size \in Weights /\ L \in SUBSET Blocks /\ {b} \in SUBSET Blocks
    BY <1>2, <1>3, IndexParts DEF Weights, K
  <2>4. Weight(u.size, L) = Weight(s.size, L)
    BY <1>1, <1>3, <2>1, <2>3, WeightFacts
  <2>5. Weight(s.size, {b} \cup L) = Weight(s.size, {b}) + Weight(s.size, L)
    BY <1>1, <2>3, WeightFacts
  <2> QED BY <1>4, <1>6, <1>11, <2>2, <2>4, <2>5
<1>12. k + m \in Int
  OBVIOUS
<1> QED BY <1>3, <1>5, <1>7, <1>8, <1>9, <1>10, <1>11, <1>12 DEF Removed, A
\* RemoveList[n] empties the entries of a list, if there are at most n blocks in
\* them and below.
Empties(n) ==
  \A s, T, C, r : \A b \in T \ {Root} :
    LET L == Rest(s.next, b)
        G == Branches(s.parent, T, L)
    IN  IsIndex(s, T, C, r) /\ Cardinality(L \cup G) <= n
          => Removed(s, T, C, s.parent[b], L, G, RemoveList[n][s][b])

\* One entry is emptied.
LEMMA EntryIsEmptied ==
  ASSUME NEW n \in Nat, Empties(n),
         NEW s, NEW T, NEW C, NEW r, IsIndex(s, T, C, r), NEW b \in T \ {Root},
         Cardinality(Branch(s.parent, T, b)) <= n
  PROVE  Removed(s, T, C, s.parent[b], {b}, Branch(s.parent, T, b),
                 BranchRemoved(RemoveList[n], s, b))
<1> DEFINE p == s.parent
           d == p[b]
           A == Above(p, d)
           B == Branch(p, T, b)
           K == Kids(p, T, b)
           w == RemoveList[n]
           v == RemoveCount(s, b)
           u == BranchRemoved(w, s, b)
<1>1. /\ s \in Indexes /\ r \in Ranks /\ IsTree(p, T, r) /\ p \in Links
      /\ s.next \in Links /\ s.child \in Links
      /\ T \subseteq Blocks \ {Null} /\ s.size \in Weights
      /\ s.next[Null] = Null
      /\ d \in T /\ b \in Kids(p, T, d)
      /\ IsList(s.next, s.child[b], K, r)
      /\ s.child[b] = Null <=> K = {}
      /\ b \notin K
  BY IndexFacts DEF Weights
<1>2. /\ Above(p, b) = {b} \cup A /\ b \notin A /\ d # b /\ A \subseteq T
  BY <1>1, ParentIsAbove, AboveInTree
<1>3. B = K \cup Branches(p, T, K) /\ K \cap Branches(p, T, K) = {}
      /\ \A a \in Above(p, b) : a \notin K /\ a \notin Branches(p, T, K)
  BY <1>1, BranchFacts
<1>4. b \in Blocks /\ s.size[b] \in Int /\ \A a \in T : s.size[a] \in Int
  BY <1>1 DEF Weights
<1>5. /\ v \in Indexes /\ SameLinks(s, v)
      /\ \A a \in Blocks : v.size[a] = IF a \in A THEN s.size[a] - s.size[b] ELSE s.size[a]
  BY <1>1, <1>4, RemoveCountFields
<1>6. IsIndex(v, T, C, r)
  BY <1>5, IndexSame
<1>7. u = IF v.child[b] = Null THEN v ELSE Emptied(w[v][v.child[b]], b)
  BY DEF BranchRemoved
<1>8. /\ v.parent = p /\ v.next = s.next /\ v.child = s.child
      /\ v.offset = s.offset /\ v.room = s.room
  BY <1>5 DEF SameLinks
<1> HIDE DEF v, u, w, A
<1>9. CASE s.child[b] = Null
  <2>1. u = v
    BY <1>7, <1>8, <1>9
  <2>2. B = {}
    BY <1>1, <1>3, <1>9 DEF Branches
  <2>3. T \ B = T /\ C \cup B = C
    BY <2>2
  <2>4. Weight(s.size, {b}) = s.size[b]
    BY <1>1, <1>4, WeightOfOne
  <2>5. \A a \in A : v.size[a] = s.size[a] - s.size[b]
    BY <1>1, <1>2, <1>5
  <2>6. \A x \in T \ (B \cup {b} \cup A) : v.size[x] = s.size[x]
    BY <1>1, <1>5
  <2>7. \E q : IsIndex(v, T \ B, C \cup B, q)
    BY <1>6, <2>3
  <2>8. \A x \in T \ B : /\ v.next[x] = s.next[x]
                         /\ v.child[x] = IF x \in {b} THEN Null ELSE s.child[x]
    BY <1>8, <1>9
  <2>9. \E k \in Int : /\ \A a \in Above(p, d) : v.size[a] = s.size[a] - k
                       /\ (\A l \in {b} : s.child[l] = Null) => k = Weight(s.size, {b})
    BY <1>4, <2>4, <2>5 DEF A
  <2> HIDE DEF B
  <2>10. Removed(s, T, C, d, {b}, B, v)
    BY <1>5, <1>8, <2>6, <2>7, <2>8, <2>9 DEF Removed, A
  <2> QED BY <2>1, <2>10 DEF u, w, B
<1>10. CASE s.child[b] # Null
  <2> DEFINE c == s.child[b]
             G == Branches(p, T, K)
             t == w[v][c]
  <2>1. u = Emptied(t, b)
    BY <1>7, <1>8, <1>10
  <2>2. c \in K /\ c \in T \ {Root} /\ p[c] = b
    BY <1>1, <1>10 DEF IsList, Kids
  <2>3. Rest(v.next, c) = K
    <3>1. Reach(Along(s.next), s.child[b]) = K \cup {Null}
      BY ChildrenAreKids
    <3>2. Null \notin K
      BY <1>1 DEF Kids
    <3> QED BY <1>8, <3>1, <3>2 DEF Rest
  <2>4. Cardinality(K \cup G) <= n
    BY <1>3
  <2>5. Removed(v, T, C, b, K, G, t)
    <3>1. /\ IsIndex(v, T, C, r) /\ c \in T \ {Root}
          /\ Cardinality(Rest(v.next, c) \cup Branches(v.parent, T, Rest(v.next, c))) <= n
      BY <1>6, <1>8, <2>2, <2>3, <2>4
    <3>2. Removed(v, T, C, v.parent[c], Rest(v.next, c), Branches(v.parent, T, Rest(v.next, c)),
                  RemoveList[n][v][c])
      <4> HIDE DEF c
      <4> QED BY <3>1 DEF Empties
    <3> QED BY <1>8, <2>2, <2>3, <3>2 DEF w
  <2> HIDE DEF c, t, G
  <2>6. /\ t \in Indexes /\ t.parent = p /\ t.offset = s.offset /\ t.room = s.room
        /\ \A x \in T \ G : /\ t.next[x] = s.next[x]
                            /\ t.child[x] = IF x \in K THEN Null ELSE s.child[x]
        /\ \A x \in T \ (G \cup K \cup Above(p, b)) : t.size[x] = v.size[x]
    BY <1>8, <2>5 DEF Removed
  <2>7. PICK q : IsIndex(t, T \ G, C \cup G, q)
    BY <2>5 DEF Removed
  <2>8. PICK k \in Int : \A a \in Above(p, b) : t.size[a] = v.size[a] - k
    BY <1>8, <2>5 DEF Removed
  <2>9. b \in T \ G /\ Kids(t.parent, T \ G, b) = K /\ K \subseteq T \ G
    BY <1>2, <1>3, <2>6 DEF Kids, G
  <2>10. t.child[b] # Null /\ \A x \in Kids(t.parent, T \ G, b) : t.child[x] = Null
    <3>1. b \in T \ G /\ b \notin K /\ s.child[b] # Null
      BY <1>1, <1>10, <2>9
    <3>2. \A x \in T \ G : t.child[x] = IF x \in K THEN Null ELSE s.child[x]
      BY <2>6
    <3> HIDE DEF K
    <3>3. t.child[b] # Null
      BY <3>1, <3>2
    <3>4. \A x \in K : t.child[x] = Null
      BY <2>9, <3>2
    <3> QED BY <2>9, <3>3, <3>4
  <2>11. /\ \E q1 : IsIndex(u, (T \ G) \ K, (C \cup G) \cup K, q1)
         /\ \A x \in Blocks \ K : u.next[x] = t.next[x]
    <3> HIDE DEF K
    <3> DEFINE T2 == T \ G
               C2 == C \cup G
    <3>1. /\ IsIndex(t, T2, C2, q) /\ b \in T2 /\ t.child[b] # Null
          /\ \A x \in Kids(t.parent, T2, b) : t.child[x] = Null
      BY <2>7, <2>9, <2>10
    <3>2. Kids(t.parent, T2, b) = K
      BY <2>9
    <3> HIDE DEF T2, C2
    <3>3. /\ \E q1 : IsIndex(Emptied(t, b), T2 \ Kids(t.parent, T2, b),
                             C2 \cup Kids(t.parent, T2, b), q1)
          /\ \A x \in Blocks \ Kids(t.parent, T2, b) : Emptied(t, b).next[x] = t.next[x]
      BY <3>1, EmptiedIsIndex
    <3>4. /\ \E q1 : IsIndex(u, T2 \ K, C2 \cup K, q1)
          /\ \A x \in Blocks \ K : u.next[x] = t.next[x]
      BY <2>1, <3>2, <3>3
    <3> QED BY <3>4 DEF T2, C2
  <2>12. /\ u \in Indexes /\ u.parent = t.parent /\ u.size = t.size
         /\ u.offset = t.offset /\ u.room = t.room
         /\ u.child = [t.child EXCEPT ![b] = Null]
    BY <1>4, <2>1, <2>6, EmptiedFields
  <2>13. (T \ G) \ K = T \ B /\ (C \cup G) \cup K = C \cup B
    BY <1>3 DEF G
  <2>14. \E q1 : IsIndex(u, T \ B, C \cup B, q1)
    BY <2>11, <2>13
  <2>15. ASSUME NEW x \in T \ B
         PROVE  /\ u.next[x] = s.next[x]
                /\ u.child[x] = IF x \in {b} THEN Null ELSE s.child[x]
    <3>1. x \in T \ G /\ x \notin K /\ x \in Blocks
      BY <1>1, <2>13
    <3>2. t.child \in Links
      BY <2>6, IndexParts
    <3>3. u.child[x] = IF x = b THEN Null ELSE t.child[x]
      BY <1>4, <2>12, <3>1, <3>2 DEF Links
    <3> QED BY <2>6, <2>11, <3>1, <3>3
  <2>16. \A a \in A : u.size[a] = s.size[a] - (s.size[b] + k)
    <3> SUFFICES ASSUME NEW a \in A
                 PROVE  u.size[a] = s.size[a] - (s.size[b] + k)
      OBVIOUS
    <3>1. a \in T /\ a \in Blocks /\ a \in Above(p, b)
      BY <1>1, <1>2
    <3>2. u.size[a] = (s.size[a] - s.size[b]) - k
      BY <1>5, <2>8, <2>12, <3>1
    <3>3. s.size[a] \in Int /\ s.size[b] \in Int
      BY <1>4, <3>1
    <3> QED BY <3>2, <3>3
  <2>17. \E m \in Int : /\ \A a \in Above(p, d) : u.size[a] = s.size[a] - m
                        /\ (\A l \in {b} : s.child[l] = Null) => m = Weight(s.size, {b})
    <3>1. s.size[b] + k \in Int
      BY <1>4
    <3> QED BY <1>10, <2>16, <3>1 DEF A
  <2>18. ASSUME NEW x \in T \ (B \cup {b} \cup A)
         PROVE  u.size[x] = s.size[x]
    <3>1. x \in T \ (G \cup K \cup Above(p, b)) /\ x \in Blocks
      BY <1>1, <1>2, <2>13
    <3> QED BY <1>5, <2>6, <2>12, <3>1
  <2> HIDE DEF B, K
  <2>19. Removed(s, T, C, d, {b}, B, u)
    BY <2>6, <2>12, <2>14, <2>15, <2>17, <2>18 DEF Removed, A
  <2> QED BY <2>19 DEF u, w, B
<1> QED BY <1>9, <1>10

\* What RemoveList does.
LEMMA RemoveListEmpties ==
  \A n \in Nat : Empties(n)
<1> DEFINE P == {n \in Nat : Empties(n)}
<1>1. 0 \in P
  <2> SUFFICES ASSUME NEW s, NEW T, NEW C, NEW r, NEW b \in T \ {Root}, IsIndex(s, T, C, r),
                      Cardinality(Rest(s.next, b) \cup Branches(s.parent, T, Rest(s.next, b))) <= 0
               PROVE  FALSE
    BY DEF Empties
  <2> DEFINE X == Rest(s.next, b) \cup Branches(s.parent, T, Rest(s.next, b))
  <2>1. /\ s.next \in Links /\ T \subseteq Blocks /\ b \in Blocks /\ b # Null
    BY IndexFacts
  <2>2. X \in SUBSET Blocks
    BY <2>1, ReachAlong DEF Rest, Branches, Branch, Below
  <2>3. b \in X
    BY <2>1, ReachAlong DEF Rest
  <2> HIDE DEF X
  <2>4. IsFiniteSet(X) /\ Cardinality(X) \in Nat
    BY <2>2, BlocksFinite
  <2>5. Cardinality({}) <= 0 - 1
    <3>1. {} \subseteq X \ {b} /\ 0 \in Nat /\ Cardinality(X) <= 0
      BY DEF X
    <3> QED BY <2>2, <2>3, <3>1, FewerThan
  <2> QED BY <2>5, FS_EmptySet
<1>2. ASSUME NEW m \in Nat, m \in P
      PROVE  m + 1 \in P
  <2> SUFFICES ASSUME NEW s, NEW T, NEW C, NEW r, NEW b \in T \ {Root}, IsIndex(s, T, C, r),
                      Cardinality(Rest(s.next, b) \cup Branches(s.parent, T, Rest(s.next, b))) <= m + 1
               PROVE  Removed(s, T, C, s.parent[b], Rest(s.next, b),
                              Branches(s.parent, T, Rest(s.next, b)), RemoveList[m + 1][s][b])
    BY DEF Empties
  <2> DEFINE p == s.parent
             d == p[b]
             K == Kids(p, T, d)
             L == Rest(s.next, b)
             G == Branches(p, T, L)
             X == L \cup G
             B == Branch(p, T, b)
             w == RemoveList[m]
             u == BranchRemoved(w, s, b)
             t == RemoveList[m + 1][s][b]
             c == s.next[b]
  <2>1. /\ s \in Indexes /\ r \in Ranks /\ IsTree(p, T, r) /\ p \in Links
        /\ s.next \in Links
        /\ T \subseteq Blocks \ {Null}
        /\ s.next[Null] = Null
        /\ d \in T /\ b \in K
        /\ IsList(s.next, s.child[d], K, r)
    BY IndexFacts
  <2>2. /\ b \in L /\ L \subseteq K
        /\ c = Null => L = {b}
        /\ c # Null => /\ c \in K
                       /\ L = {b} \cup Rest(s.next, c)
                       /\ b \notin Rest(s.next, c)
    BY <2>1, RestUnfolds
  <2>3. /\ K \cap Branches(p, T, K) = {}
        /\ \A a \in Above(p, d) : a \notin K /\ a \notin Branches(p, T, K)
    BY <2>1, BranchFacts
  <2>4. G \subseteq Branches(p, T, K) /\ B \subseteq G /\ b \notin G /\ B \subseteq T
    BY <2>1, <2>2, <2>3 DEF Branches, Branch, Below
  <2>5. X \in SUBSET Blocks /\ b \in X /\ Cardinality(X) <= m + 1 /\ m + 1 \in Nat
    <3>1. G \subseteq T
      BY DEF Branches, Branch, Below
    <3>2. K \subseteq T
      BY DEF Kids
    <3> QED BY <2>1, <2>2, <3>1, <3>2
  <2>6. \A S : S \subseteq X \ {b} => Cardinality(S) <= m
    <3> HIDE DEF X
    <3>1. \A S : S \subseteq X \ {b} => Cardinality(S) <= (m + 1) - 1
      BY <2>5, FewerThan
    <3> QED BY <3>1
  <2>7. Removed(s, T, C, d, {b}, B, u)
    <3>1. B \subseteq X \ {b}
      BY <2>4
    <3>2. Cardinality(B) <= m /\ Empties(m)
      BY <1>2, <2>6, <3>1
    <3> HIDE DEF B
    <3> QED BY <3>2, EntryIsEmptied DEF B
  <2>8. u \in Indexes /\ u.parent = p /\ \A x \in T \ B : u.next[x] = s.next[x]
    BY <2>7 DEF Removed
  <2>9. t = IF u.next[b] = Null THEN u ELSE w[u][u.next[b]]
    <3>1. m + 1 \in Nat /\ m + 1 # 0 /\ (m + 1) - 1 = m /\ b \in Blocks
      BY <2>1
    <3> QED BY <2>1, <3>1, RemoveListRecursion DEF RestRemoved
  <2>10. u.next[b] = c
    BY <2>4, <2>8
  <2> HIDE DEF u, t, w
  <2>11. CASE c = Null
    <3>1. t = u /\ L = {b}
      BY <2>2, <2>9, <2>10, <2>11
    <3>2. G = B
      BY <3>1 DEF Branches
    <3> QED BY <2>7, <3>1, <3>2 DEF t
  <2>12. CASE c # Null
    <3> DEFINE M == Rest(s.next, c)
               H == Branches(p, T, M)
    <3>1. t = w[u][c]
      BY <2>9, <2>10, <2>12
    <3>2. c \in K /\ L = {b} \cup M /\ b \notin M /\ M \subseteq K /\ c \in M
      <4>1. c \in K /\ L = {b} \cup M /\ b \notin M
        BY <2>2, <2>12
      <4> HIDE DEF c
      <4>2. c \in M /\ M \subseteq K
        BY <2>1, <4>1, RestUnfolds
      <4> QED BY <4>1, <4>2
    <3>3. \A x \in K : x \in T \ B /\ x \in T \ {Root} /\ p[x] = d
      BY <2>3, <2>4 DEF Kids
    <3>4. u.next \in Links /\ u.next[Null] = Null
      <4>1. PICK q : IsIndex(u, T \ B, C \cup B, q)
        BY <2>7 DEF Removed
      <4> QED BY <4>1, IndexFacts
    <3>5. Rest(u.next, c) = M
      <4>1. \A x \in K : u.next[x] = s.next[x]
        BY <2>8, <3>3
      <4> HIDE DEF c, K
      <4> QED BY <2>1, <3>2, <3>4, <4>1, RestSame
    <3>6. Branches(p, T \ B, M) = H
      <4>1. ASSUME NEW l \in M
            PROVE  Branch(p, T \ B, l) = Branch(p, T, l)
        <5>1. l \in K /\ b \in K /\ l # b
          BY <2>1, <3>2
        <5> HIDE DEF K, M, d
        <5>2. Below(p, T, b) \cap Below(p, T, l) = {}
          BY <2>1, <5>1, SiblingsApart DEF K
        <5> QED BY <5>2 DEF Branch, Below
      <4> QED BY <4>1 DEF Branches
    <3>7. Cardinality(M \cup H) <= m
      <4>1. M \cup H \subseteq X \ {b}
        BY <2>4, <3>2 DEF Branches
      <4> QED BY <2>6, <4>1
    <3>8. Removed(u, T \ B, C \cup B, d, M, H, t)
      <4>1. PICK q : IsIndex(u, T \ B, C \cup B, q)
        BY <2>7 DEF Removed
      <4>2. c \in (T \ B) \ {Root} /\ u.parent[c] = d
        BY <2>8, <3>2, <3>3
      <4> HIDE DEF c, d, M, H, B
      <4>3. Cardinality(Rest(u.next, c) \cup Branches(u.parent, T \ B, Rest(u.next, c))) <= m
        BY <2>8, <3>5, <3>6, <3>7
      <4>4. Removed(u, T \ B, C \cup B, u.parent[c], Rest(u.next, c),
                    Branches(u.parent, T \ B, Rest(u.next, c)), RemoveList[m][u][c])
        <5>1. Empties(m)
          BY <1>2
        <5> HIDE DEF P
        <5> QED BY <4>1, <4>2, <4>3, <5>1 DEF Empties
      <4> QED BY <2>8, <3>1, <3>5, <3>6, <4>2, <4>4 DEF w
    <3>9. G = B \cup H
      BY <3>2 DEF Branches
    <3>10. B \cap K = {} /\ B \cap Above(p, d) = {}
      BY <2>3, <2>4
    <3>11. Removed(s, T, C, d, {b} \cup M, B \cup H, t)
      <4>1. d \in T /\ b \in K /\ M \subseteq K /\ b \notin M
        BY <2>1, <3>2
      <4> HIDE DEF M, H, B, d
      <4>2. Removed(s, T, C, d, {b}, B, u)
        BY <2>7
      <4> QED BY <3>8, <3>10, <4>1, <4>2, RemovedJoin
    <3> QED BY <3>2, <3>9, <3>11 DEF t
  <2> QED BY <2>11, <2>12
<1> HIDE DEF P
<1>3. \A n \in Nat : n \in P
  BY <1>1, <1>2, AllNaturals
<1> QED BY <1>3 DEF P
\* All that was below d has left the tree.  What is above d, and d itself,
\* weighs less, and nothing else has changed.
BranchGone(s, T, C, d, t) ==
  LET B == Branch(s.parent, T, d)
      A == Above(s.parent, d)
      K == Kids(s.parent, T, d)
  IN  /\ t \in Indexes
      /\ t.parent = s.parent /\ t.offset = s.offset /\ t.room = s.room
      /\ \E q : IsIndex(t, T \ B, C \cup B, q)
      /\ t.child[d] = Null
      /\ \E k \in Int :
           /\ \A a \in A : t.size[a] = s.size[a] - k
           /\ (\A l \in K : s.child[l] = Null) => k = Weight(s.size, K)
      /\ \A x \in T \ (B \cup A) : t.size[x] = s.size[x]

\* What RemoveChildren() does.
LEMMA RemoveChildrenRemoves ==
  ASSUME NEW s, NEW T, NEW C, NEW r, IsIndex(s, T, C, r), NEW d \in T
  PROVE  BranchGone(s, T, C, d, RemoveChildren(s, d))
<1> DEFINE p == s.parent
           A == Above(p, d)
           B == Branch(p, T, d)
           K == Kids(p, T, d)
           G == Branches(p, T, K)
           c == s.child[d]
           w == RemoveList[MaxBlocks][s][c]
           t == RemoveChildren(s, d)
<1>1. /\ s \in Indexes /\ r \in Ranks /\ IsTree(p, T, r) /\ p \in Links
      /\ s.next \in Links /\ s.child \in Links
      /\ T \subseteq Blocks \ {Null} /\ s.size \in Weights
      /\ s.next[Null] = Null
      /\ IsList(s.next, c, K, r)
      /\ c = Null <=> K = {}
      /\ d \notin K
  BY IndexFacts DEF Weights
<1>2. A \subseteq T /\ d \in A /\ d \in Blocks
  BY <1>1, AboveInTree
<1>3. B = K \cup G /\ K \cap G = {} /\ \A a \in A : a \notin K /\ a \notin G
  BY <1>1, BranchFacts
<1>4. \A a \in T : s.size[a] \in Int
  BY <1>1 DEF Weights
<1>5. CASE c = Null
  <2>1. t = s /\ K = {} /\ B = {}
    BY <1>1, <1>3, <1>5 DEF RemoveChildren, Branches
  <2>2. IsIndex(t, T \ B, C \cup B, r)
    <3>1. T \ B = T /\ C \cup B = C
      BY <2>1
    <3> QED BY <2>1, <3>1
  <2>3. \A a \in A : t.size[a] = s.size[a] - 0
    <3>1. \A a \in A : s.size[a] \in Int
      BY <1>2, <1>4
    <3> QED BY <2>1, <3>1
  <2>4. 0 = Weight(s.size, K) /\ 0 \in Int
    BY <1>1, <2>1, WeightFacts
  <2> HIDE DEF BranchGone, t, B, A, K, c
  <2> QED BY <1>1, <1>5, <2>1, <2>2, <2>3, <2>4 DEF BranchGone, t, B, A, K, c
<1>6. CASE c # Null
  <2>1. t = Emptied(w, d)
    BY <1>6 DEF RemoveChildren
  <2>2. c \in K /\ c \in T \ {Root} /\ p[c] = d
    BY <1>1, <1>6 DEF IsList, Kids
  <2>3. Rest(s.next, c) = K
    <3>1. Reach(Along(s.next), s.child[d]) = K \cup {Null}
      BY ChildrenAreKids
    <3>2. Null \notin K
      BY <1>1 DEF Kids
    <3> QED BY <3>1, <3>2 DEF Rest
  <2>4. Cardinality(K \cup G) <= MaxBlocks /\ MaxBlocks \in Nat
    <3>1. K \cup G \in SUBSET Blocks
      BY <1>1 DEF Kids, Branches, Branch, Below
    <3> HIDE DEF K, G
    <3> QED BY <3>1, BlocksFinite, FS_Subset
  <2>5. Removed(s, T, C, d, K, G, w)
    <3>1. /\ IsIndex(s, T, C, r) /\ c \in T \ {Root}
          /\ Cardinality(Rest(s.next, c) \cup Branches(p, T, Rest(s.next, c))) <= MaxBlocks
      BY <2>2, <2>3, <2>4
    <3>2. Removed(s, T, C, p[c], Rest(s.next, c), Branches(p, T, Rest(s.next, c)),
                  RemoveList[MaxBlocks][s][c])
      <4>1. Empties(MaxBlocks)
        BY <2>4, RemoveListEmpties
      <4> HIDE DEF c
      <4> QED BY <3>1, <4>1 DEF Empties
    <3> QED BY <2>2, <2>3, <3>2
  <2> HIDE DEF c, w, G
  <2>6. /\ w \in Indexes /\ w.parent = p /\ w.offset = s.offset /\ w.room = s.room
        /\ \A x \in T \ G : w.child[x] = IF x \in K THEN Null ELSE s.child[x]
        /\ \A x \in T \ (G \cup K \cup A) : w.size[x] = s.size[x]
    BY <2>5 DEF Removed
  <2>7. PICK q : IsIndex(w, T \ G, C \cup G, q)
    BY <2>5 DEF Removed
  <2>8. PICK k \in Int : /\ \A a \in A : w.size[a] = s.size[a] - k
                         /\ (\A l \in K : s.child[l] = Null) => k = Weight(s.size, K)
    BY <2>5 DEF Removed
  <2>9. d \in T \ G /\ Kids(w.parent, T \ G, d) = K /\ K \subseteq T \ G
    BY <1>2, <1>3, <2>6 DEF Kids
  <2>10. w.child[d] # Null /\ \A x \in Kids(w.parent, T \ G, d) : w.child[x] = Null
    BY <1>1, <1>6, <2>6, <2>9 DEF c
  <2>11. \E q1 : IsIndex(t, (T \ G) \ K, (C \cup G) \cup K, q1)
    <3> HIDE DEF K, t
    <3>1. \E q1 : IsIndex(Emptied(w, d), (T \ G) \ Kids(w.parent, T \ G, d),
                          (C \cup G) \cup Kids(w.parent, T \ G, d), q1)
      BY <2>7, <2>9, <2>10, EmptiedIsIndex
    <3> QED BY <2>1, <2>9, <3>1
  <2> HIDE DEF t
  <2>12. /\ t \in Indexes /\ t.parent = w.parent /\ t.size = w.size
         /\ t.offset = w.offset /\ t.room = w.room
         /\ t.child = [w.child EXCEPT ![d] = Null]
    BY <1>2, <2>1, <2>6, EmptiedFields
  <2>13. (T \ G) \ K = T \ B /\ (C \cup G) \cup K = C \cup B
    BY <1>3
  <2>14. \E q1 : IsIndex(t, T \ B, C \cup B, q1)
    BY <2>11, <2>13
  <2>15. t.child[d] = Null
    <3>1. w.child \in Links
      BY <2>6, IndexParts
    <3> QED BY <1>2, <2>12, <3>1 DEF Links
  <2>16. \A x \in T \ (B \cup A) : t.size[x] = s.size[x]
    BY <1>3, <2>6, <2>12
  <2> HIDE DEF B, A, K
  <2> QED BY <2>6, <2>8, <2>12, <2>14, <2>15, <2>16 DEF BranchGone, t, B, A, K
<1> QED BY <1>5, <1>6

\* The branch of b has gone to the chain of removed blocks, and all above it
\* have lost what the block weighed.
BranchMoved(s, T, C, b, t) ==
  LET B == Below(s.parent, T, b)
      A == Above(s.parent, s.parent[b])
  IN  /\ t \in Indexes
      /\ t.parent = s.parent /\ t.offset = s.offset /\ t.room = s.room
      /\ \E q : IsIndex(t, T \ B, C \cup B, q)
      /\ \A a \in A : t.size[a] = s.size[a] - s.size[b]
      /\ \A x \in T \ (B \cup A) : t.size[x] = s.size[x]

\* What RemoveBlock() does.
LEMMA RemoveBlockRemoves ==
  ASSUME NEW s, NEW T, NEW C, NEW r, IsIndex(s, T, C, r), NEW b \in T \ {Root}
  PROVE  BranchMoved(s, T, C, b, RemoveBlock(s, b))
<1> DEFINE p == s.parent
           d == p[b]
           A == Above(p, d)
           B == Below(p, T, b)
           G == Branch(p, T, b)
           u == RemoveChildren(s, b)
           v == Unlinked(u, b)
           w == RemoveCount(v, b)
           t == RemoveBlock(s, b)
<1>1. /\ s \in Indexes /\ r \in Ranks /\ IsTree(p, T, r) /\ p \in Links
      /\ T \subseteq Blocks \ {Null} /\ s.size \in Weights
      /\ T \cap C = {} /\ d \in T
  BY IndexFacts DEF Weights
<1>2. /\ Above(p, b) = {b} \cup A /\ b \notin A /\ A \subseteq T /\ b \in Blocks
      /\ \A a \in T : s.size[a] \in Int
  BY <1>1, ParentIsAbove, AboveInTree DEF Weights
<1>3. B = G \cup {b} /\ b \notin G /\ G \subseteq T
  BY <1>2 DEF Branch, Below
<1>4. A \cap B = {}
  <2>1. G = Kids(p, T, b) \cup Branches(p, T, Kids(p, T, b))
        /\ \A a \in Above(p, b) : a \notin Kids(p, T, b) /\ a \notin Branches(p, T, Kids(p, T, b))
    BY <1>1, BranchFacts
  <2> QED BY <1>2, <1>3, <2>1
<1>5. /\ u \in Indexes
      /\ u.parent = p /\ u.offset = s.offset /\ u.room = s.room
      /\ \E q : IsIndex(u, T \ G, C \cup G, q)
      /\ u.child[b] = Null
      /\ \E k \in Int :
           /\ \A a \in Above(p, b) : u.size[a] = s.size[a] - k
           /\ (\A l \in Kids(p, T, b) : s.child[l] = Null) => k = Weight(s.size, Kids(p, T, b))
      /\ \A x \in T \ (G \cup Above(p, b)) : u.size[x] = s.size[x]
  <2>1. BranchGone(s, T, C, b, u)
    BY RemoveChildrenRemoves
  <2> HIDE DEF u
  <2> QED BY <2>1 DEF BranchGone
<1> HIDE DEF u, G, A, B
<1>6. PICK q : IsIndex(u, T \ G, C \cup G, q)
  BY <1>5
<1>7. PICK k \in Int : \A a \in Above(p, b) : u.size[a] = s.size[a] - k
  BY <1>5
<1>8. IsIndex(v, (T \ G) \ {b}, C \cup G, q)
  BY <1>3, <1>5, <1>6, UnlinkedIsIndex
<1>9. /\ v \in Indexes /\ v.parent = p /\ v.size = u.size
      /\ v.offset = s.offset /\ v.room = s.room
  BY <1>2, <1>5, UnlinkedFields
<1> HIDE DEF v
<1>10. /\ w \in Indexes /\ SameLinks(v, w)
       /\ \A a \in Blocks : w.size[a] = IF a \in A THEN u.size[a] - u.size[b] ELSE u.size[a]
  <2>1. /\ w \in Indexes /\ SameLinks(v, w)
        /\ \A a \in Blocks : w.size[a] = IF a \in Above(v.parent, v.parent[b])
                                           THEN v.size[a] - v.size[b] ELSE v.size[a]
    BY <1>2, <1>9, RemoveCountFields
  <2> QED BY <1>9, <2>1 DEF A
<1> HIDE DEF w
<1>11. IsIndex(w, (T \ G) \ {b}, C \cup G, q)
  BY <1>8, <1>10, IndexSame
<1>12. /\ w.parent = p /\ w.offset = s.offset /\ w.room = s.room
  BY <1>9, <1>10 DEF SameLinks
<1>13. t = Pushed(w, b)
  BY DEF RemoveBlock, t, u, v, w
<1> HIDE DEF t
<1>14. \E q1 : IsIndex(t, (T \ G) \ {b}, (C \cup G) \cup {b}, q1)
  <2>1. b \in 1 .. w.offset - 1
    BY <1>12 DEF IsIndex
  <2>2. b \notin (T \ G) \ {b} /\ b \notin C \cup G
    BY <1>1, <1>3
  <2> QED BY <1>11, <1>13, <2>1, <2>2, PushedIsIndex
<1>15. /\ t \in Indexes /\ t.parent = p /\ t.size = w.size
       /\ t.offset = s.offset /\ t.room = s.room
  BY <1>2, <1>10, <1>12, <1>13, PushedFields
<1>16. \E q1 : IsIndex(t, T \ B, C \cup B, q1)
  <2>1. (T \ G) \ {b} = T \ B /\ (C \cup G) \cup {b} = C \cup B
    BY <1>3
  <2> QED BY <1>14, <2>1
<1>17. ASSUME NEW a \in A
       PROVE  t.size[a] = s.size[a] - s.size[b]
  <2>1. a \in T /\ a \in Blocks /\ a \in Above(p, b) /\ b \in Above(p, b) /\ b \in T
    BY <1>1, <1>2
  <2>2. u.size[a] = s.size[a] - k /\ u.size[b] = s.size[b] - k
    BY <1>7, <2>1
  <2>3. t.size[a] = u.size[a] - u.size[b]
    BY <1>10, <1>15, <2>1
  <2>4. s.size[a] \in Int /\ s.size[b] \in Int
    BY <1>2, <2>1
  <2> QED BY <2>2, <2>3, <2>4
<1>18. ASSUME NEW x \in T \ (B \cup A)
       PROVE  t.size[x] = s.size[x]
  <2>1. x \in T \ (G \cup Above(p, b)) /\ x \in Blocks
    BY <1>1, <1>2, <1>3
  <2> QED BY <1>5, <1>10, <1>15, <2>1
<1> QED BY <1>15, <1>16, <1>17, <1>18 DEF BranchMoved, t, A, B
-----------------------------------------------------------------------------
(* What AddChild() does.                                                   *)

\* A block becomes the first entry of a directory, and all above it weigh more.
LEMMA LinkedFields ==
  ASSUME NEW s, s \in Indexes, s.parent[Null] = Null,
         NEW d \in Blocks \ {Null}, NEW n \in Blocks, NEW z \in Int
  PROVE  LET t == Linked(s, d, n, z)
         IN  /\ IsLinked(s, d, n, t)
             /\ \A x \in Blocks : x # n =>
                  t.size[x] = IF x \in Above(s.parent, d) THEN s.size[x] + z ELSE s.size[x]
             /\ n \notin Above(s.parent, d) => t.size[n] = z
<1> DEFINE bs == {d} \cup Ancestors(s, d)
           m == [s EXCEPT !.next[n] = s.child[d], !.child = [@ EXCEPT ![d] = n, ![n] = Null],
                          !.parent[n] = d, !.size[n] = z]
           t == Linked(s, d, n, z)
<1>1. /\ s.parent \in Links /\ s.next \in Links /\ s.child \in Links
      /\ s.size \in [Blocks -> Int] /\ Null \in Blocks
  BY IndexParts, BlocksFinite
<1>2. bs = Above(s.parent, d)
  <2>1. Above(s.parent, d) = {d} \cup Above(s.parent, s.parent[d])
    BY <1>1, AboveUnfolds
  <2> QED BY <2>1 DEF Ancestors, Above
<1>3. /\ [s.next EXCEPT ![n] = s.child[d]] \in Links
      /\ [[s.child EXCEPT ![d] = n] EXCEPT ![n] = Null] \in Links
      /\ [s.parent EXCEPT ![n] = d] \in Links
      /\ [s.size EXCEPT ![n] = z] \in [Blocks -> Int]
  BY <1>1 DEF Links
<1>4. /\ m.next = [s.next EXCEPT ![n] = s.child[d]]
      /\ m.child = [[s.child EXCEPT ![d] = n] EXCEPT ![n] = Null]
      /\ m.parent = [s.parent EXCEPT ![n] = d]
      /\ m.size = [s.size EXCEPT ![n] = z]
      /\ m.deleted = s.deleted /\ m.offset = s.offset /\ m.room = s.room
      /\ m = [parent |-> m.parent, next |-> m.next, child |-> m.child, size |-> m.size,
              deleted |-> m.deleted, offset |-> m.offset, room |-> m.room]
  <2> DEFINE pf == [s.parent EXCEPT ![n] = d]
             nf == [s.next EXCEPT ![n] = s.child[d]]
             cf == [[s.child EXCEPT ![d] = n] EXCEPT ![n] = Null]
             zf == [s.size EXCEPT ![n] = z]
  <2>1. m = [s EXCEPT !.next = nf, !.child = cf, !.parent = pf, !.size = zf]
    OBVIOUS
  <2> HIDE DEF m, pf, nf, cf, zf
  <2>2. /\ m.next = nf /\ m.child = cf /\ m.parent = pf /\ m.size = zf
        /\ m.deleted = s.deleted /\ m.offset = s.offset /\ m.room = s.room
        /\ m = [parent |-> m.parent, next |-> m.next, child |-> m.child, size |-> m.size,
                deleted |-> m.deleted, offset |-> m.offset, room |-> m.room]
    BY <2>1 DEF Indexes
  <2> QED BY <2>2 DEF pf, nf, cf, zf
<1>5. t = AddSize(m, bs, z)
  BY DEF Linked
<1> HIDE DEF m, bs, t
<1>6. m \in Indexes
  <2>1. s.deleted \in Blocks /\ s.offset \in Nat /\ s.room \in Nat
    BY IndexParts
  <2>2. /\ m.parent \in Links /\ m.next \in Links /\ m.child \in Links
        /\ m.size \in [Blocks -> Int]
        /\ m.deleted \in Blocks /\ m.offset \in Nat /\ m.room \in Nat
    BY <1>3, <1>4, <2>1
  <2> QED BY <1>4, <2>2 DEF Indexes, Links
<1>7. /\ t \in Indexes /\ SameLinks(m, t)
      /\ \A x \in Blocks : t.size[x] = IF x \in bs THEN m.size[x] + z ELSE m.size[x]
  BY <1>5, <1>6, AddSizeFields
<1>8. IsLinked(s, d, n, t)
  BY <1>4, <1>7 DEF IsLinked, SameLinks
<1>9. m.size[n] = z /\ \A x \in Blocks : x # n => m.size[x] = s.size[x]
  BY <1>1, <1>4
<1> QED BY <1>2, <1>7, <1>8, <1>9 DEF t

\* The directory has a new first entry, and the block it is may have been a
\* removed one.
IsAdded(s, T, C, d, n, z, t) ==
  /\ t \in Indexes
  /\ t.parent = [s.parent EXCEPT ![n] = d]
  /\ n \in Blocks \ {Null} /\ n \notin T
  /\ \E D, q : /\ IsIndex(t, T \cup {n}, D, q)
               /\ Reuses(s) => n \in C /\ D = C \ {n}
               /\ ~Reuses(s) => D = {}
  /\ Reuses(s) => t.offset = s.offset /\ t.room = s.room
  /\ ~Reuses(s) => /\ n = s.offset /\ t.offset = s.offset + 1
                   /\ t.room = IF Item * s.offset + Item > s.room THEN 2 * s.room ELSE s.room
  /\ \A x \in T : t.size[x] = IF x \in Above(s.parent, d) THEN s.size[x] + z ELSE s.size[x]
  /\ t.size[n] = z

\* What AddChild() does when it gets the pointer to the block.
LEMMA AddChildAdds ==
  ASSUME NEW s, NEW T, NEW C, NEW r, IsIndex(s, T, C, r), NEW d \in T, NEW z \in Int,
         NewBlock(s) \in Blocks
  PROVE  IsAdded(s, T, C, d, NewBlock(s), z, Linked(Taken(s), d, NewBlock(s), z))
<1> DEFINE n == NewBlock(s)
           u == Taken(s)
           t == Linked(u, d, n, z)
           D == IF Reuses(s) THEN C \ {n} ELSE {}
<1>1. /\ s \in Indexes /\ r \in Ranks /\ IsTree(s.parent, T, r) /\ s.parent \in Links
      /\ T \subseteq Blocks \ {Null} /\ s.parent[Null] = Null /\ d \in Blocks \ {Null}
  BY IndexFacts
<1>2. /\ u.parent = s.parent /\ u.next = s.next
      /\ u.child = s.child /\ u.size = s.size
      /\ n \in 1 .. u.offset - 1 /\ n \notin T
      /\ Reuses(s) => /\ n \in C /\ u.offset = s.offset /\ u.room = s.room
                      /\ IsIndex(u, T, C \ {n}, r)
      /\ ~Reuses(s) => /\ n = s.offset /\ u.offset = s.offset + 1
                       /\ u.room = IF Item * s.offset + Item > s.room THEN 2 * s.room ELSE s.room
                       /\ IsIndex(u, T, {}, r)
  BY TakenIsIndex
<1> HIDE DEF u, n
<1>3. IsIndex(u, T, D, r) /\ n \notin D
  BY <1>2
<1>4. u \in Indexes /\ n \in Blocks /\ n # Null
  <2>1. u \in Indexes
    BY <1>3, IndexFacts
  <2> QED BY <1>2, <2>1 DEF n, Null
<1>5. Above(s.parent, d) \subseteq T
  BY <1>1, AboveInTree
<1>6. /\ IsLinked(u, d, n, t)
      /\ \A x \in Blocks : x # n =>
           t.size[x] = IF x \in Above(u.parent, d) THEN u.size[x] + z ELSE u.size[x]
      /\ n \notin Above(u.parent, d) => t.size[n] = z
  BY <1>1, <1>2, <1>4, LinkedFields
<1> HIDE DEF t, D
<1>7. \E q : IsIndex(t, T \cup {n}, D, q)
  BY <1>2, <1>3, <1>6, LinkedIsIndex
<1>8. /\ t \in Indexes /\ t.parent = [s.parent EXCEPT ![n] = d]
      /\ t.offset = u.offset /\ t.room = u.room
  BY <1>2, <1>6 DEF IsLinked
<1>9. \A x \in T : t.size[x] = IF x \in Above(s.parent, d) THEN s.size[x] + z ELSE s.size[x]
  BY <1>1, <1>2, <1>6
<1>10. t.size[n] = z
  BY <1>2, <1>5, <1>6
<1>11. /\ Reuses(s) => n \in C /\ D = C \ {n}
       /\ ~Reuses(s) => D = {}
  BY <1>2 DEF D
<1>12. /\ Reuses(s) => t.offset = s.offset /\ t.room = s.room
       /\ ~Reuses(s) => /\ n = s.offset /\ t.offset = s.offset + 1
                        /\ t.room = IF Item * s.offset + Item > s.room THEN 2 * s.room ELSE s.room
  BY <1>2, <1>8
<1> QED BY <1>2, <1>4, <1>7, <1>8, <1>9, <1>10, <1>11, <1>12 DEF IsAdded, n, t, u
-----------------------------------------------------------------------------
(* What is above and below after a step.                                   *)

\* Every block of the tree is at or below the root, and the operators that read
\* the links agree with those that follow the parents.
LEMMA TreeIsRead ==
  ASSUME NEW s, NEW T, NEW C, NEW r, IsIndex(s, T, C, r)
  PROVE  /\ Subtree(s, Root) = T
         /\ \A b \in T : Subtree(s, b) = Below(s.parent, T, b)
         /\ \A b \in T : /\ b \in Above(s.parent, b) /\ Above(s.parent, b) \subseteq T
                         /\ {a \in T : b \in Subtree(s, a)} = Above(s.parent, b)
         /\ \A d \in T : Children(s, d) = Kids(s.parent, T, d)
<1>1. s.parent \in Links /\ r \in Ranks /\ IsTree(s.parent, T, r) /\ Root \in T
  BY IndexFacts
<1>2. \A b \in T : /\ b \in Above(s.parent, b) /\ Above(s.parent, b) \subseteq T
                   /\ Root \in Above(s.parent, b)
  BY <1>1, AboveInTree
<1>3. \A b \in T : Subtree(s, b) = Below(s.parent, T, b)
  BY SubtreeIsBelow
<1>4. Subtree(s, Root) = T
  BY <1>1, <1>2, <1>3 DEF Below
<1>5. \A b \in T : {a \in T : b \in Subtree(s, a)} = Above(s.parent, b)
  BY <1>2, <1>3 DEF Below
<1> QED BY <1>2, <1>3, <1>4, <1>5, ChildrenAreKids

\* A new block is below d and what d is below, and nothing else moves.
HangsBelow(s, T, d, n, t) ==
  /\ \A x \in T : Above(t.parent, x) = Above(s.parent, x)
  /\ Above(t.parent, n) = Above(s.parent, d) \cup {n}
  /\ \A x \in T :
       /\ x \in Above(s.parent, d) =>
            Below(t.parent, T \cup {n}, x) = Below(s.parent, T, x) \cup {n}
       /\ x \notin Above(s.parent, d) =>
            Below(t.parent, T \cup {n}, x) = Below(s.parent, T, x)
  /\ Below(t.parent, T \cup {n}, n) = {n}

\* An added block hangs below its directory.
LEMMA AddedAbove ==
  ASSUME NEW s, NEW T, NEW C, NEW r, IsIndex(s, T, C, r), NEW d \in T,
         NEW n, NEW z, NEW t, IsAdded(s, T, C, d, n, z, t)
  PROVE  HangsBelow(s, T, d, n, t)
<1>1. /\ s.parent \in Links /\ r \in Ranks /\ IsTree(s.parent, T, r)
      /\ s.parent[Null] = Null /\ T \subseteq Blocks \ {Null}
  BY IndexFacts
<1>2. /\ t.parent = [s.parent EXCEPT ![n] = d] /\ t \in Indexes
      /\ n \in Blocks \ {Null} /\ n \notin T
  BY DEF IsAdded
<1>3. t.parent \in Links
  BY <1>2, IndexParts
<1>4. t.parent[n] = d /\ t.parent[Null] = Null /\ \A x \in T : t.parent[x] = s.parent[x]
  BY <1>1, <1>2 DEF Links
<1>5. \A x \in T : Above(t.parent, x) = Above(s.parent, x)
  BY <1>1, <1>3, <1>4, AboveSame
<1>6. Above(t.parent, n) = {n} \cup Above(t.parent, d)
  BY <1>2, <1>3, <1>4, AboveUnfolds
<1>7. \A x \in T : Above(s.parent, x) \subseteq T
  BY <1>1, AboveInTree
<1> QED BY <1>2, <1>5, <1>6, <1>7 DEF Below, HangsBelow

\* What is not at b or below, nor above b, has nothing in common with it.
LEMMA ApartOrAbove ==
  ASSUME NEW parent \in Links, NEW r \in Ranks, NEW T, IsTree(parent, T, r),
         NEW b \in T, NEW x \in T, x \notin Below(parent, T, b)
  PROVE  /\ x \in Above(parent, b) => Below(parent, T, b) \subseteq Below(parent, T, x)
         /\ x \notin Above(parent, b) => Below(parent, T, b) \cap Below(parent, T, x) = {}
<1>1. parent[Null] = Null /\ T \subseteq Blocks
  BY DEF IsTree
<1>2. ASSUME NEW c \in T, b \in Above(parent, c), x \in Above(parent, b)
      PROVE  x \in Above(parent, c)
  <2>1. c \in Blocks
    BY <1>1
  <2> QED BY <1>1, <1>2, <2>1, AboveUnfolds
<1>3. ASSUME NEW c \in T, b \in Above(parent, c), x \in Above(parent, c)
      PROVE  x \in Above(parent, b)
  <2>1. c \in Blocks
    BY <1>1
  <2>2. x \in Above(parent, b) \/ b \in Above(parent, x)
    BY <1>1, <1>3, <2>1, AboveIsAWay
  <2> QED BY <2>2 DEF Below
<1> QED BY <1>2, <1>3 DEF Below

-----------------------------------------------------------------------------
(* Sizes.                                                                  *)

\* What f says of the blocks below a block is what that weighs.
AreSums(s, T, f) == \A b \in T : s.size[b] = Weight(f, Below(s.parent, T, b))

\* A new block adds its size to all above it.
LEMMA AddedSums ==
  ASSUME NEW s, NEW T, NEW C, NEW r, IsIndex(s, T, C, r), NEW d \in T,
         NEW n, NEW z \in Int, NEW t, IsAdded(s, T, C, d, n, z, t),
         NEW f \in Weights, AreSums(s, T, f)
  PROVE  AreSums(t, T \cup {n}, [f EXCEPT ![n] = z])
<1> DEFINE g == [f EXCEPT ![n] = z]
<1>1. T \subseteq Blocks
  BY IndexFacts
<1>2. /\ n \in Blocks /\ n \notin T
      /\ \A x \in T : t.size[x] = IF x \in Above(s.parent, d) THEN s.size[x] + z ELSE s.size[x]
      /\ t.size[n] = z
  BY DEF IsAdded
<1>3. g \in Weights /\ g[n] = z /\ \A x \in Blocks \ {n} : g[x] = f[x]
  BY <1>2 DEF Weights
<1> HIDE DEF g
<1>4. /\ \A x \in T :
           /\ x \in Above(s.parent, d) =>
                Below(t.parent, T \cup {n}, x) = Below(s.parent, T, x) \cup {n}
           /\ x \notin Above(s.parent, d) =>
                Below(t.parent, T \cup {n}, x) = Below(s.parent, T, x)
      /\ Below(t.parent, T \cup {n}, n) = {n}
  <2>1. HangsBelow(s, T, d, n, t)
    BY AddedAbove
  <2> QED BY <2>1 DEF HangsBelow
<1>5. Weight(g, {n}) = z
  BY <1>2, <1>3, WeightOfOne
<1>6. ASSUME NEW x \in T
      PROVE  t.size[x] = Weight(g, Below(t.parent, T \cup {n}, x))
  <2> DEFINE B == Below(s.parent, T, x)
  <2>1. B \in SUBSET Blocks /\ {n} \in SUBSET Blocks /\ n \notin B
    BY <1>1, <1>2 DEF Below
  <2>2. s.size[x] = Weight(f, B)
    BY DEF AreSums
  <2>3. /\ x \in Above(s.parent, d) => Below(t.parent, T \cup {n}, x) = B \cup {n}
        /\ x \notin Above(s.parent, d) => Below(t.parent, T \cup {n}, x) = B
    BY <1>4
  <2> HIDE DEF B
  <2>4. Weight(g, B) = Weight(f, B)
    <3>1. \A b \in B : g[b] = f[b]
      BY <1>3, <2>1
    <3> QED BY <1>3, <2>1, <3>1, WeightFacts
  <2>5. Weight(g, B \cup {n}) = Weight(g, B) + Weight(g, {n})
    <3>1. B \cap {n} = {}
      BY <2>1
    <3> QED BY <1>3, <2>1, <3>1, WeightFacts
  <2>6. CASE x \in Above(s.parent, d)
    <3>1. Below(t.parent, T \cup {n}, x) = B \cup {n} /\ t.size[x] = s.size[x] + z
      BY <1>2, <2>3, <2>6
    <3> QED BY <1>5, <2>2, <2>4, <2>5, <3>1
  <2>7. CASE x \notin Above(s.parent, d)
    <3>1. Below(t.parent, T \cup {n}, x) = B /\ t.size[x] = s.size[x]
      BY <1>2, <2>3, <2>7
    <3> QED BY <2>2, <2>4, <3>1
  <2> QED BY <2>6, <2>7
<1> QED BY <1>2, <1>4, <1>5, <1>6 DEF AreSums, g

\* The blocks in X leave the tree, each with all below it, and what is above
\* them loses what they weigh.
LEMMA RemovedSums ==
  ASSUME NEW s, NEW T, NEW C, NEW r, IsIndex(s, T, C, r),
         NEW t, t.parent = s.parent, NEW X, X \subseteq T,
         NEW f \in Weights, AreSums(s, T, f),
         NEW g \in Weights, \A x \in T \ X : g[x] = f[x],
         \A x \in T \ X :
           \/ /\ X \subseteq Below(s.parent, T, x)
              /\ t.size[x] = s.size[x] - Weight(f, X)
           \/ /\ X \cap Below(s.parent, T, x) = {}
              /\ t.size[x] = s.size[x]
  PROVE  AreSums(t, T \ X, g)
<1>1. T \subseteq Blocks
  BY IndexFacts
<1> SUFFICES ASSUME NEW x \in T \ X
             PROVE  t.size[x] = Weight(g, Below(s.parent, T \ X, x))
  BY DEF AreSums
<1> DEFINE B == Below(s.parent, T, x)
<1>2. Below(s.parent, T \ X, x) = B \ X
  BY DEF Below
<1>3. s.size[x] = Weight(f, B)
  BY DEF AreSums
<1>4. B \in SUBSET Blocks /\ B \subseteq T /\ X \in SUBSET Blocks /\ B \ X \in SUBSET Blocks
  BY <1>1 DEF Below
<1>5. \/ /\ X \subseteq B
         /\ t.size[x] = s.size[x] - Weight(f, X)
      \/ /\ X \cap B = {}
         /\ t.size[x] = s.size[x]
  OBVIOUS
<1> HIDE DEF B
<1>6. Weight(g, B \ X) = Weight(f, B \ X)
  <2>1. \A b \in B \ X : g[b] = f[b]
    BY <1>4
  <2> QED BY <1>4, <2>1, WeightFacts
<1>7. Weight(f, B \ X) \in Int /\ Weight(f, X) \in Int
  BY <1>4, WeightFacts
<1>8. CASE X \subseteq B /\ t.size[x] = s.size[x] - Weight(f, X)
  <2>1. B = (B \ X) \cup X /\ (B \ X) \cap X = {}
    BY <1>8
  <2>2. Weight(f, (B \ X) \cup X) = Weight(f, B \ X) + Weight(f, X)
    BY <1>4, <2>1, WeightFacts
  <2>3. Weight(f, B) = Weight(f, B \ X) + Weight(f, X)
    BY <2>1, <2>2, Zenon
  <2>4. t.size[x] = Weight(f, B \ X)
    BY <1>3, <1>7, <1>8, <2>3
  <2> QED BY <1>2, <1>6, <2>4
<1>9. CASE X \cap B = {} /\ t.size[x] = s.size[x]
  <2>1. B \ X = B
    BY <1>9
  <2> QED BY <1>2, <1>3, <1>6, <1>9, <2>1
<1> QED BY <1>5, <1>8, <1>9
\* A removed branch takes its weight from all above it.
LEMMA RemoveBlockSums ==
  ASSUME NEW s, NEW T, NEW C, NEW r, IsIndex(s, T, C, r), NEW b \in T \ {Root},
         NEW f \in Weights, AreSums(s, T, f),
         NEW g \in Weights, \A x \in T \ Below(s.parent, T, b) : g[x] = f[x]
  PROVE  AreSums(RemoveBlock(s, b), T \ Below(s.parent, T, b), g)
<1> DEFINE t == RemoveBlock(s, b)
           X == Below(s.parent, T, b)
           A == Above(s.parent, s.parent[b])
<1>1. /\ s.parent \in Links /\ r \in Ranks /\ IsTree(s.parent, T, r)
  BY IndexFacts
<1>2. /\ Above(s.parent, b) = {b} \cup A /\ b \in X /\ X \subseteq T
  BY <1>1, ParentIsAbove DEF Below
<1>3. /\ t.parent = s.parent
      /\ \A a \in A : t.size[a] = s.size[a] - s.size[b]
      /\ \A x \in T \ (X \cup A) : t.size[x] = s.size[x]
  <2>1. BranchMoved(s, T, C, b, t)
    BY RemoveBlockRemoves
  <2> HIDE DEF t
  <2> QED BY <2>1 DEF BranchMoved
<1>4. s.size[b] = Weight(f, X)
  BY DEF AreSums
<1>5. ASSUME NEW x \in T \ X
      PROVE  \/ /\ X \subseteq Below(s.parent, T, x)
                /\ t.size[x] = s.size[x] - Weight(f, X)
             \/ /\ X \cap Below(s.parent, T, x) = {}
                /\ t.size[x] = s.size[x]
  <2>1. /\ x \in Above(s.parent, b) => X \subseteq Below(s.parent, T, x)
        /\ x \notin Above(s.parent, b) => X \cap Below(s.parent, T, x) = {}
    BY <1>1, ApartOrAbove
  <2> HIDE DEF t, X, A
  <2>2. x # b
    BY <1>2
  <2> QED BY <1>2, <1>3, <1>4, <2>1, <2>2
<1> HIDE DEF t, X
<1>6. AreSums(t, T \ X, g)
  <2>1. \A x \in T \ X : g[x] = f[x]
    BY DEF X
  <2> QED BY <1>2, <1>3, <1>5, <2>1, RemovedSums
<1> QED BY <1>6 DEF t, X

\* RemoveChildren() alone is right about the sizes when the entries it removes
\* have none of their own.
LEMMA RemoveChildrenSums ==
  ASSUME NEW s, NEW T, NEW C, NEW r, IsIndex(s, T, C, r), NEW d \in T,
         NEW t, BranchGone(s, T, C, d, t),
         \A l \in Kids(s.parent, T, d) : s.child[l] = Null,
         NEW f \in Weights, AreSums(s, T, f),
         NEW g \in Weights, \A x \in T \ Branch(s.parent, T, d) : g[x] = f[x]
  PROVE  AreSums(t, T \ Branch(s.parent, T, d), g)
<1> DEFINE X == Branch(s.parent, T, d)
           A == Above(s.parent, d)
           K == Kids(s.parent, T, d)
<1>1. /\ s.parent \in Links /\ r \in Ranks /\ IsTree(s.parent, T, r)
      /\ T \subseteq Blocks /\ s.size \in Weights
      /\ \A e \in T : s.child[e] = Null <=> Kids(s.parent, T, e) = {}
  BY IndexFacts DEF Weights
<1>2. d \in A /\ A \subseteq T
  BY <1>1, AboveInTree
<1>3. \A l \in T : Branch(s.parent, T, l) = Kids(s.parent, T, l) \cup Branches(s.parent, T, Kids(s.parent, T, l))
  BY <1>1, BranchFacts
<1>4. K \subseteq T
  BY DEF Kids
<1>5. ASSUME NEW l \in K
      PROVE  Branch(s.parent, T, l) = {}
  <2>1. l \in T /\ Kids(s.parent, T, l) = {}
    BY <1>1, <1>4
  <2> QED BY <1>3, <2>1 DEF Branches
<1>6. X = K
  <2>1. X = K \cup Branches(s.parent, T, K)
    BY <1>3
  <2>2. Branches(s.parent, T, K) = {}
    BY <1>5 DEF Branches
  <2> QED BY <2>1, <2>2
<1>7. Weight(s.size, K) = Weight(f, K)
  <2>1. ASSUME NEW l \in K
        PROVE  s.size[l] = f[l]
    <3>1. l \in T /\ l \in Blocks
      BY <1>1, <1>4
    <3>2. l \in Below(s.parent, T, l)
      BY <1>1, <3>1, AboveInTree DEF Below
    <3>3. Below(s.parent, T, l) = {l}
      BY <1>5, <3>2 DEF Branch
    <3>4. s.size[l] = Weight(f, {l})
      BY <3>1, <3>3 DEF AreSums
    <3> QED BY <3>1, <3>4, WeightOfOne
  <2>2. K \in SUBSET Blocks
    BY <1>1, <1>4
  <2> HIDE DEF K
  <2> QED BY <1>1, <2>1, <2>2, WeightFacts
<1>8. /\ t.parent = s.parent
      /\ \E k \in Int :
           /\ \A a \in A : t.size[a] = s.size[a] - k
           /\ (\A l \in K : s.child[l] = Null) => k = Weight(s.size, K)
      /\ \A x \in T \ (X \cup A) : t.size[x] = s.size[x]
  BY DEF BranchGone
<1>9. \A a \in A : t.size[a] = s.size[a] - Weight(f, X)
  <2> HIDE DEF A, K, X
  <2>1. \A l \in K : s.child[l] = Null
    BY DEF K
  <2> QED BY <1>6, <1>7, <1>8, <2>1
<1>10. ASSUME NEW x \in T \ X
       PROVE  \/ /\ X \subseteq Below(s.parent, T, x)
                 /\ t.size[x] = s.size[x] - Weight(f, X)
              \/ /\ X \cap Below(s.parent, T, x) = {}
                 /\ t.size[x] = s.size[x]
  <2>1. CASE x = d
    <3>1. X \subseteq Below(s.parent, T, x)
      BY <2>1 DEF Branch
    <3>2. x \in A
      BY <1>2, <2>1
    <3> QED BY <1>9, <3>1, <3>2
  <2>2. CASE x # d
    <3>1. x \notin Below(s.parent, T, d)
      BY <2>2 DEF Branch
    <3>2. /\ x \in A => Below(s.parent, T, d) \subseteq Below(s.parent, T, x)
          /\ x \notin A => Below(s.parent, T, d) \cap Below(s.parent, T, x) = {}
      BY <1>1, <3>1, ApartOrAbove
    <3>3. X \subseteq Below(s.parent, T, d)
      BY DEF Branch
    <3> HIDE DEF X, A
    <3>4. CASE x \in A
      BY <1>9, <3>2, <3>3, <3>4
    <3>5. CASE x \notin A
      BY <1>8, <3>2, <3>3, <3>5
    <3> QED BY <3>4, <3>5
  <2> QED BY <2>1, <2>2
<1>11. X \subseteq T
  BY DEF Branch, Below
<1> HIDE DEF X
<1>12. AreSums(t, T \ X, g)
  <2>1. \A x \in T \ X : g[x] = f[x]
    BY DEF X
  <2> QED BY <1>8, <1>10, <1>11, <2>1, RemovedSums
<1> QED BY <1>12 DEF X
-----------------------------------------------------------------------------
(* The steps.                                                              *)

\* AddChild() or AddSibling(), when it gets its pointer.
AddedOne(T, C) ==
  \E d \in T, n \in Blocks, z \in Sizes :
    /\ IsAdded(idx, T, C, d, n, z, idx')
    /\ own' = [own EXCEPT ![n] = z] /\ emptied' = emptied

\* The same, when it gets none.
AddedNone ==
  /\ NewBlock(idx) \in Blocks /\ ~IsItem(Taken(idx), NewBlock(idx))
  /\ idx' = Taken(idx) /\ own' = own /\ emptied' = emptied

\* RemoveBlock()
RemovedOne(T, C) ==
  \E b \in T \ {Root} :
    /\ idx' = RemoveBlock(idx, b) /\ BranchMoved(idx, T, C, b, idx')
    /\ own' = [c \in Blocks |-> IF c \in Below(idx.parent, T, b) THEN 0 ELSE own[c]]
    /\ emptied' = emptied

\* RemoveChildren()
RemovedAll(T, C) ==
  \E d \in T :
    /\ BranchGone(idx, T, C, d, idx')
    /\ emptied' = \E c \in Kids(idx.parent, T, d) : idx.child[c] # Null
    /\ own' = [c \in Blocks |-> IF c \in Branch(idx.parent, T, d) THEN 0 ELSE own[c]]
    /\ ~emptied

\* What a step of the specification is.
LEMMA StepCases ==
  ASSUME NEW T, NEW C, NEW r, IsIndex(idx, T, C, r), [BlocksNext]_blockVars
  PROVE  \/ AddedOne(T, C) \/ AddedNone \/ RemovedOne(T, C) \/ RemovedAll(T, C)
         \/ Clear \/ UNCHANGED blockVars
<1>1. /\ Live = T
      /\ \A b \in T : Subtree(idx, b) = Below(idx.parent, T, b)
      /\ \A d \in T : Children(idx, d) = Kids(idx.parent, T, d)
  BY TreeIsRead DEF Live
<1>2. /\ idx.parent \in Links /\ r \in Ranks /\ IsTree(idx.parent, T, r)
      /\ \A b \in T \ {Root} : idx.parent[b] \in T
  BY IndexFacts
<1>3. ASSUME NEW d \in T, NEW z \in Sizes, AddChild(d, z)
      PROVE  AddedOne(T, C) \/ AddedNone
  <2> DEFINE n == NewBlock(idx)
  <2>1. n \in Blocks /\ z \in Int
    BY <1>3, SizesAssumption DEF AddChild
  <2>2. CASE IsItem(Taken(idx), n)
    <3>1. idx' = Linked(Taken(idx), d, n, z) /\ own' = [own EXCEPT ![n] = z] /\ emptied' = emptied
      BY <1>3, <2>2 DEF AddChild
    <3>2. IsAdded(idx, T, C, d, n, z, idx')
      BY <2>1, <3>1, AddChildAdds
    <3> HIDE DEF n
    <3> QED BY <2>1, <3>1, <3>2 DEF AddedOne
  <2>3. CASE ~IsItem(Taken(idx), n)
    BY <1>3, <2>3 DEF AddChild, AddedNone
  <2> QED BY <2>2, <2>3
<1>4. ASSUME NEW b \in T, NEW z \in Sizes, AddSibling(b, z)
      PROVE  AddedOne(T, C) \/ AddedNone
  <2>1. idx.parent[b] \in T /\ AddChild(idx.parent[b], z)
    BY <1>2, <1>4 DEF AddSibling
  <2> QED BY <1>3, <2>1
<1>5. ASSUME NEW b \in T, RemoveOne(b)
      PROVE  RemovedOne(T, C)
  <2>1. b \in T \ {Root} /\ idx' = RemoveBlock(idx, b) /\ emptied' = emptied
    BY <1>5 DEF RemoveOne
  <2>2. BranchMoved(idx, T, C, b, idx')
    BY <2>1, RemoveBlockRemoves
  <2>3. own' = [c \in Blocks |-> IF c \in Below(idx.parent, T, b) THEN 0 ELSE own[c]]
    BY <1>1, <1>5 DEF RemoveOne
  <2> QED BY <2>1, <2>2, <2>3 DEF RemovedOne
<1>6. ASSUME NEW d \in T, RemoveBelow(d)
      PROVE  RemovedAll(T, C)
  <2>1. idx' = RemoveChildren(idx, d) /\ ~emptied
    BY <1>6 DEF RemoveBelow
  <2>2. BranchGone(idx, T, C, d, idx')
    BY <2>1, RemoveChildrenRemoves
  <2>3. own' = [c \in Blocks |-> IF c \in Branch(idx.parent, T, d) THEN 0 ELSE own[c]]
    BY <1>1, <1>6 DEF RemoveBelow, Branch
  <2>4. emptied' = \E c \in Kids(idx.parent, T, d) : idx.child[c] # Null
    BY <1>1, <1>6 DEF RemoveBelow
  <2> QED BY <2>1, <2>2, <2>3, <2>4 DEF RemovedAll
<1>7. CASE UNCHANGED blockVars
  BY <1>7
<1>8. CASE BlocksNext
  BY <1>1, <1>3, <1>4, <1>5, <1>6, <1>8 DEF BlocksNext
<1> QED BY <1>7, <1>8

-----------------------------------------------------------------------------
(* The sizes.                                                              *)

\* The links are those of an index, and the sizes the sums of what was added.
Sound(s, T, f, e) ==
  /\ \E C, r : IsIndex(s, T, C, r)
  /\ f \in [Blocks -> Sizes \cup {0}] /\ e \in BOOLEAN
  /\ ~e => AreSums(s, T, f)

BlocksInv == \E T : Sound(idx, T, own, emptied)

\* The invariant implies what the runs check.
LEMMA SoundBlocks ==
  ASSUME BlocksInv
  PROVE  BlocksTypeOK /\ SizesAreSums
<1>1. PICK T, C, r : /\ IsIndex(idx, T, C, r)
                     /\ own \in [Blocks -> Sizes \cup {0}] /\ emptied \in BOOLEAN
                     /\ ~emptied => AreSums(idx, T, own)
  BY DEF BlocksInv, Sound
<1>2. Live = T /\ \A b \in T : Subtree(idx, b) = Below(idx.parent, T, b)
  BY <1>1, TreeIsRead DEF Live
<1>3. idx \in Indexes /\ idx.offset \in 2 .. MaxBlocks
  BY <1>1 DEF IsIndex
<1>4. BlocksTypeOK
  BY <1>1, <1>3 DEF BlocksTypeOK
<1>5. ASSUME ~emptied, NEW b \in Live
      PROVE  idx.size[b] = Weight(own, Subtree(idx, b))
  BY <1>1, <1>2, <1>5 DEF AreSums
<1> QED BY <1>4, <1>5 DEF SizesAreSums

\* What was added weighs something.
LEMMA OwnWeighs ==
  [Blocks -> Sizes \cup {0}] \subseteq Weights
<1>1. Sizes \cup {0} \subseteq Int
  BY SizesAssumption
<1> DEFINE Z == Sizes \cup {0}
<1> HIDE DEF Z
<1>2. \A f \in [Blocks -> Z] : Z \subseteq Int => f \in [Blocks -> Int]
  OBVIOUS
<1> QED BY <1>1, <1>2 DEF Weights, Z

\* A new index has its root, and nothing else.
LEMMA NewIsIndex ==
  /\ \E r : IsIndex(NewIndex, {Root}, {}, r)
  /\ Above(NewIndex.parent, Root) = {Root}
  /\ Below(NewIndex.parent, {Root}, Root) = {Root}
  /\ AreSums(NewIndex, {Root}, Zero)
<1>1. /\ MaxBlocks \in Nat /\ MaxBlocks >= 2 /\ Null \in Blocks /\ Root \in Blocks /\ Null # Root
  BY BlocksFinite
<1>2. Zero \in Links /\ Zero \in [Blocks -> Int] /\ Zero \in Ranks /\ \A b \in Blocks : Zero[b] = Null
  BY <1>1 DEF Zero, Links, Ranks, Null
<1>3. /\ NewIndex.parent = Zero /\ NewIndex.next = Zero /\ NewIndex.child = Zero
      /\ NewIndex.size = Zero /\ NewIndex.deleted = Null /\ NewIndex.offset = 2
  BY DEF NewIndex
<1>4. NewIndex \in Indexes
  <2>1. Room0 \in Nat /\ 2 \in Nat
    BY RoomAssumption
  <2>2. Zero \in [Blocks -> Blocks] /\ Null \in Blocks
    BY <1>1, <1>2 DEF Links
  <2> HIDE DEF Zero
  <2> QED BY <1>2, <2>1, <2>2 DEF NewIndex, Indexes
<1> HIDE DEF Zero, NewIndex
<1>5. IsTree(Zero, {Root}, Zero)
  BY <1>1, <1>2 DEF IsTree
<1>6. Kids(Zero, {Root}, Root) = {}
  BY DEF Kids
<1>7. IsIndex(NewIndex, {Root}, {}, Zero)
  <2>1. IsList(Zero, Null, {}, Zero)
    BY DEF IsList
  <2>2. /\ 2 \in 2 .. MaxBlocks /\ {Root} \cup {} \subseteq 1 .. 2 - 1
    BY <1>1 DEF Root
  <2>3. Zero[Null] = Null /\ Zero[Root] = Null
    BY <1>1, <1>2
  <2> QED BY <1>2, <1>3, <1>4, <1>5, <1>6, <2>1, <2>2, <2>3 DEF IsIndex
<1>8. Above(Zero, Root) = {Root}
  BY <1>2, <1>5, AboveRoot
<1>9. Below(Zero, {Root}, Root) = {Root}
  BY <1>8 DEF Below
<1>10. AreSums(NewIndex, {Root}, Zero)
  <2>1. Weight(Zero, {Root}) = Zero[Root]
    BY <1>1, <1>2, WeightOfOne DEF Weights
  <2> QED BY <1>3, <1>9, <2>1 DEF AreSums
<1> QED BY <1>3, <1>7, <1>8, <1>9, <1>10
\* Every step leaves it so.
LEMMA StepIsSound ==
  ASSUME BlocksInv, [BlocksNext]_blockVars
  PROVE  BlocksInv'
<1>1. PICK T, C, r : /\ IsIndex(idx, T, C, r)
                     /\ own \in [Blocks -> Sizes \cup {0}] /\ emptied \in BOOLEAN
                     /\ ~emptied => AreSums(idx, T, own)
  BY DEF BlocksInv, Sound
<1>2. own \in Weights /\ T \subseteq Blocks /\ 0 \in Sizes \cup {0}
  BY <1>1, OwnWeighs, IndexFacts
<1> SUFFICES \E T1 : Sound(idx', T1, own', emptied')
  BY DEF BlocksInv
<1>3. CASE AddedOne(T, C)
  <2>1. PICK d \in T, n \in Blocks, z \in Sizes :
          /\ IsAdded(idx, T, C, d, n, z, idx')
          /\ own' = [own EXCEPT ![n] = z] /\ emptied' = emptied
    BY <1>3 DEF AddedOne
  <2>2. \E D, q : IsIndex(idx', T \cup {n}, D, q)
    BY <2>1 DEF IsAdded
  <2>3. own' \in [Blocks -> Sizes \cup {0}]
    BY <1>1, <2>1
  <2>4. ~emptied' => AreSums(idx', T \cup {n}, own')
    <3>1. z \in Int
      BY SizesAssumption
    <3> QED BY <1>1, <1>2, <2>1, <3>1, AddedSums
  <2>5. Sound(idx', T \cup {n}, own', emptied')
    BY <1>1, <2>1, <2>2, <2>3, <2>4 DEF Sound
  <2> QED BY <2>5
<1>4. CASE AddedNone
  <2>1. /\ NewBlock(idx) \in Blocks
        /\ idx' = Taken(idx) /\ own' = own /\ emptied' = emptied
    BY <1>4 DEF AddedNone
  <2>2. /\ idx'.parent = idx.parent /\ idx'.size = idx.size
        /\ \E D : IsIndex(idx', T, D, r)
    BY <1>1, <2>1, TakenIsIndex
  <2>3. ~emptied' => AreSums(idx', T, own')
    BY <1>1, <2>1, <2>2 DEF AreSums
  <2>4. Sound(idx', T, own', emptied')
    BY <1>1, <2>1, <2>2, <2>3 DEF Sound
  <2> QED BY <2>4
<1>5. CASE RemovedOne(T, C)
  <2>1. PICK b \in T \ {Root} :
          /\ idx' = RemoveBlock(idx, b) /\ BranchMoved(idx, T, C, b, idx')
          /\ own' = [c \in Blocks |-> IF c \in Below(idx.parent, T, b) THEN 0 ELSE own[c]]
          /\ emptied' = emptied
    BY <1>5 DEF RemovedOne
  <2> DEFINE X == Below(idx.parent, T, b)
  <2>2. \E D, q : IsIndex(idx', T \ X, D, q)
    BY <2>1 DEF BranchMoved
  <2>3. own' \in [Blocks -> Sizes \cup {0}]
    BY <1>1, <1>2, <2>1
  <2>4. own' \in Weights /\ \A x \in T \ X : own'[x] = own[x]
    BY <1>2, <2>1, <2>3, OwnWeighs
  <2>5. ASSUME ~emptied'
        PROVE  AreSums(idx', T \ X, own')
    <3>1. AreSums(idx, T, own)
      BY <1>1, <2>1, <2>5
    <3>2. AreSums(RemoveBlock(idx, b), T \ X, own')
      BY <1>1, <1>2, <2>4, <3>1, RemoveBlockSums
    <3> QED BY <2>1, <3>2
  <2> HIDE DEF X
  <2>6. Sound(idx', T \ X, own', emptied')
    BY <1>1, <2>1, <2>2, <2>3, <2>5 DEF Sound
  <2> QED BY <2>6
<1>6. CASE RemovedAll(T, C)
  <2>1. PICK d \in T :
          /\ BranchGone(idx, T, C, d, idx')
          /\ emptied' = \E c \in Kids(idx.parent, T, d) : idx.child[c] # Null
          /\ own' = [c \in Blocks |-> IF c \in Branch(idx.parent, T, d) THEN 0 ELSE own[c]]
          /\ ~emptied
    BY <1>6 DEF RemovedAll
  <2> DEFINE X == Branch(idx.parent, T, d)
  <2>2. \E D, q : IsIndex(idx', T \ X, D, q)
    BY <2>1 DEF BranchGone
  <2>3. own' \in [Blocks -> Sizes \cup {0}]
    BY <1>1, <1>2, <2>1
  <2>4. own' \in Weights /\ \A x \in T \ X : own'[x] = own[x]
    BY <1>2, <2>1, <2>3, OwnWeighs
  <2>5. ASSUME ~emptied'
        PROVE  AreSums(idx', T \ X, own')
    <3>1. AreSums(idx, T, own)
      BY <1>1, <2>1
    <3>2. \A l \in Kids(idx.parent, T, d) : idx.child[l] = Null
      BY <2>1, <2>5
    <3> QED BY <1>1, <1>2, <2>1, <2>4, <3>1, <3>2, RemoveChildrenSums
  <2>6. emptied' \in BOOLEAN
    BY <2>1
  <2> HIDE DEF X
  <2>7. Sound(idx', T \ X, own', emptied')
    BY <2>2, <2>3, <2>5, <2>6 DEF Sound
  <2> QED BY <2>7
<1>7. CASE Clear
  <2>1. idx' = NewIndex /\ own' = Zero /\ emptied' = FALSE
    BY <1>7 DEF Clear
  <2>2. Zero \in [Blocks -> Sizes \cup {0}]
    BY DEF Zero
  <2>3. Sound(NewIndex, {Root}, Zero, FALSE)
    BY <2>2, NewIsIndex DEF Sound
  <2> QED BY <2>1, <2>3
<1>8. CASE UNCHANGED blockVars
  <2>1. idx' = idx /\ own' = own /\ emptied' = emptied
    BY <1>8 DEF blockVars
  <2> QED BY <1>1, <2>1 DEF Sound
<1> QED BY <1>1, <1>3, <1>4, <1>5, <1>6, <1>7, <1>8, StepCases

\* The invariant of the sizes.
LEMMA BlocksAreSound ==
  BlocksSpec => []BlocksInv
<1>1. BlocksInit => BlocksInv
  <2> SUFFICES ASSUME BlocksInit
               PROVE  Sound(idx, {Root}, own, emptied)
    BY DEF BlocksInv
  <2>1. idx = NewIndex /\ own = Zero /\ emptied = FALSE
    BY DEF BlocksInit
  <2>2. Zero \in [Blocks -> Sizes \cup {0}]
    BY DEF Zero
  <2> QED BY <2>1, <2>2, NewIsIndex DEF Sound
<1>2. BlocksInv /\ [BlocksNext]_blockVars => BlocksInv'
  BY StepIsSound
<1> QED BY <1>1, <1>2, PTL DEF BlocksSpec

\* The links always make one tree and one chain, and the state has its type.
THEOREM BlocksTypeCorrect ==
  BlocksSpec => []BlocksTypeOK
<1>1. BlocksInv => BlocksTypeOK
  BY SoundBlocks
<1> QED BY <1>1, BlocksAreSound, PTL

\* A directory always weighs what was added below it and is there still, unless
\* RemoveChildren() was called by itself on several levels.
THEOREM SizesAreRight ==
  BlocksSpec => []SizesAreSums
<1>1. BlocksInv => SizesAreSums
  BY SoundBlocks
<1> QED BY <1>1, BlocksAreSound, PTL
-----------------------------------------------------------------------------
(* The tree that users see.                                                *)

\* The blocks of the tree, with the way up from each.
Upward(s, T) == [b \in T |-> Above(s.parent, b)]

\* The way up is what the refinement shows.
LEMMA WaysAreUpward ==
  ASSUME NEW s, NEW T, NEW C, NEW r, IsIndex(s, T, C, r)
  PROVE  LET L == Subtree(s, Root)
         IN  [b \in L |-> {a \in L : b \in Subtree(s, a)}] = Upward(s, T)
BY TreeIsRead DEF Upward

\* Every step is one of the tree.
LEMMA StepIsTreeStep ==
  ASSUME BlocksInv, BlocksInv', [BlocksNext]_blockVars
  PROVE  [Tree!Next]_Ways
<1>1. PICK T, C, r : IsIndex(idx, T, C, r)
  BY DEF BlocksInv, Sound
<1>2. Ways = Upward(idx, T)
  BY <1>1, WaysAreUpward DEF Ways, Live
<1>3. \A T1, C1, r1 : IsIndex(idx', T1, C1, r1) => Ways' = Upward(idx', T1)
  BY WaysAreUpward DEF Ways, Live
<1>4. /\ idx.parent \in Links /\ r \in Ranks /\ IsTree(idx.parent, T, r)
      /\ T \subseteq Blocks /\ Root \in T
  BY <1>1, IndexFacts
<1>5. DOMAIN Ways = T /\ \A b \in T : Ways[b] = Above(idx.parent, b)
  BY <1>2 DEF Upward
<1>6. \A b \in T : {h \in T : b \in Ways[h]} = Below(idx.parent, T, b)
  BY <1>5 DEF Below
<1>7. ASSUME NEW X, idx'.parent = idx.parent, \E D, q : IsIndex(idx', T \ X, D, q)
      PROVE  Ways' = [e \in T \ X |-> Ways[e]]
  <2>1. Ways' = Upward(idx', T \ X)
    BY <1>3, <1>7
  <2>2. Upward(idx', T \ X) = [e \in T \ X |-> Above(idx.parent, e)]
    BY <1>7 DEF Upward
  <2>3. \A e \in T \ X : Ways[e] = Above(idx.parent, e)
    BY <1>5
  <2> QED BY <2>1, <2>2, <2>3
<1>8. CASE AddedOne(T, C)
  <2>1. PICK d \in T, n \in Blocks, z \in Sizes : IsAdded(idx, T, C, d, n, z, idx')
    BY <1>8 DEF AddedOne
  <2>2. n \notin T /\ \E D, q : IsIndex(idx', T \cup {n}, D, q)
    BY <2>1 DEF IsAdded
  <2>3. Ways' = [e \in T \cup {n} |-> Above(idx'.parent, e)]
    BY <1>3, <2>2 DEF Upward
  <2>4. /\ \A x \in T : Above(idx'.parent, x) = Above(idx.parent, x)
        /\ Above(idx'.parent, n) = Above(idx.parent, d) \cup {n}
    <3>1. HangsBelow(idx, T, d, n, idx')
      BY <1>1, <2>1, AddedAbove
    <3> QED BY <3>1 DEF HangsBelow
  <2>5. Ways' = [e \in T \cup {n} |-> IF e = n THEN Ways[d] \cup {n} ELSE Ways[e]]
    <3>1. \A e \in T \cup {n} :
            Above(idx'.parent, e) = IF e = n THEN Ways[d] \cup {n} ELSE Ways[e]
      BY <1>5, <2>2, <2>4
    <3> QED BY <2>3, <3>1
  <2>6. Tree!Add(d, n)
    BY <1>5, <2>2, <2>5 DEF Tree!Add, Tree!Entries
  <2> QED BY <1>4, <2>6 DEF Tree!Next
<1>9. CASE AddedNone
  <2>1. NewBlock(idx) \in Blocks /\ idx' = Taken(idx)
    BY <1>9 DEF AddedNone
  <2>2. idx'.parent = idx.parent /\ \E D : IsIndex(idx', T, D, r)
    BY <1>1, <2>1, TakenIsIndex
  <2>3. Ways' = Upward(idx', T)
    BY <1>3, <2>2
  <2> QED BY <1>2, <2>2, <2>3 DEF Upward
<1>10. CASE RemovedOne(T, C)
  <2>1. PICK b \in T \ {Root} : BranchMoved(idx, T, C, b, idx')
    BY <1>10 DEF RemovedOne
  <2>2. /\ idx'.parent = idx.parent
        /\ \E q : IsIndex(idx', T \ Below(idx.parent, T, b), C \cup Below(idx.parent, T, b), q)
    BY <2>1 DEF BranchMoved
  <2>3. Ways' = [e \in T \ Below(idx.parent, T, b) |-> Ways[e]]
    BY <1>7, <2>2
  <2>4. Tree!RemoveEntry(b)
    BY <1>5, <1>6, <2>3 DEF Tree!RemoveEntry, Tree!Remove, Tree!Entries
  <2> QED BY <1>4, <2>4 DEF Tree!Next
<1>11. CASE RemovedAll(T, C)
  <2>1. PICK d \in T : BranchGone(idx, T, C, d, idx')
    BY <1>11 DEF RemovedAll
  <2>2. /\ idx'.parent = idx.parent
        /\ \E q : IsIndex(idx', T \ Branch(idx.parent, T, d), C \cup Branch(idx.parent, T, d), q)
    BY <2>1 DEF BranchGone
  <2>3. Ways' = [e \in T \ Branch(idx.parent, T, d) |-> Ways[e]]
    BY <1>7, <2>2
  <2>4. {h \in T \ {d} : d \in Ways[h]} = Branch(idx.parent, T, d)
    BY <1>6 DEF Branch
  <2>5. Tree!RemoveBelow(d)
    BY <1>5, <2>3, <2>4 DEF Tree!RemoveBelow, Tree!Remove, Tree!Entries
  <2> QED BY <1>4, <2>5 DEF Tree!Next
<1>12. CASE Clear
  <2>1. idx' = NewIndex
    BY <1>12 DEF Clear
  <2>2. Ways' = Upward(NewIndex, {Root})
    BY <1>3, <2>1, NewIsIndex
  <2>3. Ways' = [h \in {Root} |-> {Root}]
    BY <2>2, NewIsIndex DEF Upward
  <2>4. Tree!Clear
    BY <2>3 DEF Tree!Clear, Tree!Empty
  <2> QED BY <2>4 DEF Tree!Next
<1>13. CASE UNCHANGED blockVars
  BY <1>13 DEF blockVars, Ways, Live
<1> QED BY <1>1, <1>8, <1>9, <1>10, <1>11, <1>12, <1>13, StepCases

\* An index is a tree of entries to its users: the steps of the code on blocks,
\* links and chains are those of DirTree.
THEOREM IndexIsATree ==
  BlocksSpec => ImplementsTree
<1>1. BlocksInit => Tree!Init
  <2> SUFFICES ASSUME BlocksInit
               PROVE  Ways = [h \in {Root} |-> {Root}]
    BY DEF Tree!Init, Tree!Empty
  <2>1. idx = NewIndex
    BY DEF BlocksInit
  <2>2. Ways = Upward(NewIndex, {Root})
    BY <2>1, NewIsIndex, WaysAreUpward DEF Ways, Live
  <2> QED BY <2>2, NewIsIndex DEF Upward
<1>2. BlocksInv /\ BlocksInv' /\ [BlocksNext]_blockVars => [Tree!Next]_Ways
  BY StepIsTreeStep
<1> QED BY <1>1, <1>2, BlocksAreSound, PTL DEF BlocksSpec, ImplementsTree, Tree!Spec
-----------------------------------------------------------------------------
(* No block is lost.                                                       *)

\* There is room for one more block than were taken, at least.
Roomy(s) == Item * s.offset < s.room /\ 2 * Item < s.room /\ s.room % Item # 0

\* Every block that was taken is in the tree or in the chain.
AllKept(s) ==
  /\ Roomy(s)
  /\ \E T, C, r : IsIndex(s, T, C, r) /\ T \cup C = 1 .. s.offset - 1

\* The buffer grows in time: the pointer to a block that was just taken is
\* always there, and a removed block is always used first.
LEMMA RoomForOneMore ==
  ASSUME NEW s, NEW T, NEW C, NEW r, IsIndex(s, T, C, r), Roomy(s)
  PROVE  /\ ~Reuses(s) => C = {}
         /\ IsItem(Taken(s), NewBlock(s))
         /\ ~Reuses(s) =>
              LET m == IF Item * s.offset + Item > s.room THEN 2 * s.room ELSE s.room
              IN  Item * (s.offset + 1) < m /\ 2 * Item < m /\ m % Item # 0
<1>1. /\ s \in Indexes /\ s.offset \in Nat /\ s.room \in Nat /\ s.offset >= 2
      /\ C \subseteq 1 .. s.offset - 1 /\ s.deleted \in C \cup {Null}
      /\ s.next \in Links /\ r \in Ranks /\ IsList(s.next, s.deleted, C, r)
  <2>1. s \in Indexes /\ s.next \in Links /\ r \in Ranks /\ IsList(s.next, s.deleted, C, r)
    BY IndexFacts
  <2> QED BY <2>1, IndexParts DEF IsIndex, IsList
<1>2. /\ 3 * s.offset < s.room /\ 6 < s.room /\ s.room % 3 # 0
  BY DEF Roomy, Item
<1>3. ASSUME ~Reuses(s)
      PROVE  s.deleted = Null /\ C = {}
  <2>1. s.deleted = Null
    <3>1. ASSUME s.deleted \in C
          PROVE  IsItem(s, s.deleted)
      <4>1. s.deleted \in 1 .. s.offset - 1
        BY <1>1, <3>1
      <4>2. s.deleted \in Nat /\ s.deleted <= s.offset - 1
        BY <1>1, <4>1
      <4>3. 3 * s.deleted + 3 < s.room
        BY <1>1, <1>2, <4>2
      <4> QED BY <4>3 DEF IsItem, Item
    <3>2. s.deleted \in C \/ s.deleted = Null
      BY <1>1
    <3> QED BY <1>3, <3>1, <3>2 DEF Reuses
  <2> QED BY <1>1, <2>1, ListHeadAndEnd
<1>4. CASE Reuses(s)
  <2>1. NewBlock(s) = s.deleted /\ Taken(s).room = s.room /\ IsItem(s, s.deleted)
    BY <1>1, <1>4 DEF NewBlock, Taken, Reuses, Indexes
  <2> QED BY <1>4, <2>1 DEF IsItem
<1>5. CASE ~Reuses(s)
  <2> DEFINE m == IF 3 * s.offset + 3 > s.room THEN 2 * s.room ELSE s.room
  <2>1. NewBlock(s) = s.offset /\ Taken(s).room = m
    BY <1>1, <1>5 DEF NewBlock, Taken, Indexes, Item
  <2>2. 3 * (s.offset + 1) < m /\ 6 < m /\ m % 3 # 0
    <3>1. CASE 3 * s.offset + 3 > s.room
      <4>1. m = 2 * s.room
        BY <3>1
      <4>2. (2 * s.room) % 3 # 0
        BY <1>1, <1>2
      <4> QED BY <1>1, <1>2, <4>1, <4>2
    <3>2. CASE ~(3 * s.offset + 3 > s.room)
      <4>1. m = s.room
        BY <3>2
      <4>2. 3 * s.offset + 3 # s.room
        <5>1. (3 * s.offset + 3) % 3 = 0
          BY <1>1
        <5> QED BY <1>2, <5>1
      <4> QED BY <1>1, <1>2, <3>2, <4>1, <4>2
    <3> QED BY <3>1, <3>2
  <2>3. 3 * s.offset + 3 = 3 * (s.offset + 1)
    BY <1>1
  <2> HIDE DEF m
  <2>4. IsItem(Taken(s), NewBlock(s))
    BY <2>1, <2>2, <2>3 DEF IsItem, Item
  <2>5. Item * (s.offset + 1) < m /\ 2 * Item < m /\ m % Item # 0
    BY <2>2 DEF Item
  <2>6. m = IF Item * s.offset + Item > s.room THEN 2 * s.room ELSE s.room
    BY DEF m, Item
  <2> QED BY <1>3, <1>5, <2>4, <2>5, <2>6
<1> QED BY <1>4, <1>5

\* A new index has lost nothing.
LEMMA NewKeepsAll ==
  Room0 % Item # 0 => AllKept(NewIndex)
<1> SUFFICES ASSUME Room0 % Item # 0
             PROVE  AllKept(NewIndex)
  OBVIOUS
<1>1. PICK r : IsIndex(NewIndex, {Root}, {}, r)
  BY NewIsIndex
<1>2. NewIndex.offset = 2 /\ NewIndex.room = Room0
  BY DEF NewIndex
<1>3. Roomy(NewIndex)
  BY <1>2, RoomAssumption DEF Roomy, Item
<1>4. {Root} \cup {} = 1 .. 2 - 1
  BY DEF Root
<1> QED BY <1>1, <1>2, <1>3, <1>4 DEF AllKept

\* No step loses a block.
LEMMA StepKeepsAll ==
  ASSUME Room0 % Item # 0, AllKept(idx), [BlocksNext]_blockVars
  PROVE  AllKept(idx')
<1>1. PICK T, C, r : IsIndex(idx, T, C, r) /\ T \cup C = 1 .. idx.offset - 1
  BY DEF AllKept
<1>2. Roomy(idx)
  BY DEF AllKept
<1>3. /\ ~Reuses(idx) => C = {}
      /\ IsItem(Taken(idx), NewBlock(idx))
      /\ ~Reuses(idx) =>
           LET m == IF Item * idx.offset + Item > idx.room THEN 2 * idx.room ELSE idx.room
           IN  Item * (idx.offset + 1) < m /\ 2 * Item < m /\ m % Item # 0
  BY <1>1, <1>2, RoomForOneMore
<1>4. idx.offset \in Nat
  BY <1>1, IndexFacts, IndexParts
<1>5. CASE AddedOne(T, C)
  <2>1. PICK d \in T, n \in Blocks, z \in Sizes : IsAdded(idx, T, C, d, n, z, idx')
    BY <1>5 DEF AddedOne
  <2>2. PICK D, q : /\ IsIndex(idx', T \cup {n}, D, q)
                    /\ Reuses(idx) => n \in C /\ D = C \ {n}
                    /\ ~Reuses(idx) => D = {}
    BY <2>1 DEF IsAdded
  <2>3. /\ Reuses(idx) => idx'.offset = idx.offset /\ idx'.room = idx.room
        /\ ~Reuses(idx) =>
             /\ n = idx.offset /\ idx'.offset = idx.offset + 1
             /\ idx'.room = IF Item * idx.offset + Item > idx.room THEN 2 * idx.room ELSE idx.room
    BY <2>1 DEF IsAdded
  <2>4. CASE Reuses(idx)
    <3>1. (T \cup {n}) \cup D = 1 .. idx'.offset - 1
      BY <1>1, <2>2, <2>3, <2>4
    <3>2. Roomy(idx')
      BY <1>2, <2>3, <2>4 DEF Roomy
    <3> QED BY <2>2, <3>1, <3>2 DEF AllKept
  <2>5. CASE ~Reuses(idx)
    <3>1. T = 1 .. idx.offset - 1 /\ D = {} /\ n = idx.offset /\ idx'.offset = idx.offset + 1
      BY <1>1, <1>3, <2>2, <2>3, <2>5
    <3>2. idx.offset \in 2 .. MaxBlocks
      BY <1>1 DEF IsIndex
    <3>3. (1 .. idx.offset - 1) \cup {idx.offset} = 1 .. (idx.offset + 1) - 1
      BY <3>2, BlocksFinite
    <3>4. (T \cup {n}) \cup D = 1 .. idx'.offset - 1
      BY <3>1, <3>3
    <3>5. Roomy(idx')
      BY <1>3, <2>3, <2>5 DEF Roomy
    <3> QED BY <2>2, <3>4, <3>5 DEF AllKept
  <2> QED BY <2>4, <2>5
<1>6. CASE AddedNone
  BY <1>3, <1>6 DEF AddedNone
<1>7. CASE RemovedOne(T, C)
  <2>1. PICK b \in T \ {Root} : BranchMoved(idx, T, C, b, idx')
    BY <1>7 DEF RemovedOne
  <2> DEFINE X == Below(idx.parent, T, b)
  <2>2. X \subseteq T
    BY DEF Below
  <2>3. idx'.offset = idx.offset /\ idx'.room = idx.room /\ \E q : IsIndex(idx', T \ X, C \cup X, q)
    BY <2>1 DEF BranchMoved
  <2> HIDE DEF X
  <2>4. (T \ X) \cup (C \cup X) = 1 .. idx'.offset - 1
    BY <1>1, <2>2, <2>3
  <2> QED BY <1>2, <2>3, <2>4 DEF AllKept, Roomy
<1>8. CASE RemovedAll(T, C)
  <2>1. PICK d \in T : BranchGone(idx, T, C, d, idx')
    BY <1>8 DEF RemovedAll
  <2> DEFINE X == Branch(idx.parent, T, d)
  <2>2. X \subseteq T
    BY DEF Branch, Below
  <2>3. idx'.offset = idx.offset /\ idx'.room = idx.room /\ \E q : IsIndex(idx', T \ X, C \cup X, q)
    BY <2>1 DEF BranchGone
  <2> HIDE DEF X
  <2>4. (T \ X) \cup (C \cup X) = 1 .. idx'.offset - 1
    BY <1>1, <2>2, <2>3
  <2> QED BY <1>2, <2>3, <2>4 DEF AllKept, Roomy
<1>9. CASE Clear
  BY <1>9, NewKeepsAll DEF Clear
<1>10. CASE UNCHANGED blockVars
  <2>1. idx' = idx
    BY <1>10 DEF blockVars
  <2> QED BY <2>1
<1> QED BY <1>1, <1>5, <1>6, <1>7, <1>8, <1>9, <1>10, StepCases

\* Every block that was taken from the buffer is in the tree or in the chain of
\* removed blocks, once, if the size the buffer begins with is no multiple of
\* the size of a block: IndexThread begins with one of 1 MByte.
THEOREM BlocksAreAccounted ==
  Room0 % Item # 0 => (BlocksSpec => []BlocksAccounted)
<1> SUFFICES ASSUME Room0 % Item # 0
             PROVE  BlocksSpec => []BlocksAccounted
  OBVIOUS
<1>1. BlocksInit => AllKept(idx)
  BY NewKeepsAll DEF BlocksInit
<1>2. AllKept(idx) /\ [BlocksNext]_blockVars => AllKept(idx)'
  BY StepKeepsAll
<1>3. AllKept(idx) => BlocksAccounted
  <2> SUFFICES ASSUME AllKept(idx)
               PROVE  BlocksAccounted
    OBVIOUS
  <2>1. PICK T, C, r : IsIndex(idx, T, C, r) /\ T \cup C = 1 .. idx.offset - 1
    BY DEF AllKept
  <2>2. Live = T
    BY <2>1, TreeIsRead DEF Live
  <2>3. Reach(Along(idx.next), idx.deleted) = C \cup {Null}
    BY <2>1, ChildrenAreKids
  <2>4. Null \notin T /\ Null \notin C /\ T \cap C = {}
    BY <2>1, IndexFacts
  <2> QED BY <2>1, <2>2, <2>3, <2>4 DEF BlocksAccounted
<1> QED BY <1>1, <1>2, <1>3, PTL DEF BlocksSpec
=============================================================================
