-------------------------- MODULE ThreadPool_proofs --------------------------
(***************************************************************************)
(* Safety of ThreadPool for any set of names and any number of ids.        *)
(*                                                                         *)
(* TypeOK is inductive on its own, NoLostCommand needs it only.            *)
(* OneThreadPerName is not inductive: nothing in it says why the *)
(* thread a name stood for before is dead when the manager creates the     *)
(* next one.  NameInv adds that, in four parts.                            *)
(*                                                                         *)
(* The last section is about SyncEvent, the event that NoLostCommand       *)
(* speaks of: the pool counts on a signal to wake the manager up.          *)
(***************************************************************************)
EXTENDS ThreadPool, SyncEvent, TLAPS

\* The manager holds a command exactly while it carries one out, and only
\* commands of real ids get that far.
HandOK ==
  /\ mpc \notin {"exec", "nothread", "kill", "endkill"} => cur = Nothing
  /\ mpc \in {"exec", "nothread", "kill", "endkill"} => cur[1] \in Ids /\ cur[2] # "none"
  /\ cur[2] = "start" => mpc \in {"exec", "nothread"}
  /\ mpc = "nothread" => cur[2] = "start"

-----------------------------------------------------------------------------
USE NoNameAssumption, MaxIdAssumption
USE DEF NoId, Ids, CmdIds

\* Writing one command of an id that has been handed out keeps m_cmds typed.
LEMMA CmdUpdate ==
  ASSUME TypeOK, NEW id \in CmdIds, NEW c \in {"none", "start", "stop"},
         m_id' \in 0 .. MaxId, m_id <= m_id', id < m_id',
         m_cmds' = [m_cmds EXCEPT ![id] = c]
  PROVE  /\ m_cmds' \in [CmdIds -> {"none", "start", "stop"}]
         /\ \A i \in Ids : i >= m_id' => m_cmds'[i] = "none"
BY DEF TypeOK

\* Moving one worker of an id that has been handed out keeps phase typed.
LEMMA PhaseUpdate ==
  ASSUME TypeOK, NEW i \in Ids, NEW p \in Phases, i < m_id,
         phase' = [phase EXCEPT ![i] = p]
  PROVE  /\ phase' \in [Ids -> Phases]
         /\ \A j \in Ids : j >= m_id => phase'[j] = "unborn"
BY DEF TypeOK

\* What the manager holds while it executes a command has been handed out.
LEMMA HandIssued ==
  ASSUME TypeOK, cur[1] \in Ids
  PROVE  cur[1] < m_id
BY DEF TypeOK

\* The type invariant, with what the manager holds, is preserved by every
\* step of every actor.
LEMMA TypeStep == TypeOK /\ HandOK /\ [Next]_vars => TypeOK' /\ HandOK'
<1> SUFFICES ASSUME TypeOK, HandOK, [Next]_vars PROVE TypeOK' /\ HandOK'
  OBVIOUS
<1> USE DEF poolVars, SignalEvent, Issued, Nothing, HandOK
<1>1. ASSUME NEW s \in Names \cup {NoName}, Start(s) PROVE TypeOK' /\ HandOK'
  <2>1. /\ m_id \in Ids
        /\ m_id' \in 0 .. MaxId
        /\ m_id < m_id'
        /\ m_id' = m_id + 1
    BY <1>1 DEF Start, TypeOK
  <2>2. CASE s \in Names /\ m_names[s] # NoId
    BY <1>1, <2>1, <2>2 DEF Start, TypeOK
  <2>3. CASE ~(s \in Names /\ m_names[s] # NoId)
    <3>1. /\ m_cmds' = [m_cmds EXCEPT ![m_id] = "start"]
          /\ nameOf' = [nameOf EXCEPT ![m_id] = s]
          /\ m_names' = [n \in Names |-> IF n = s THEN m_id ELSE m_names[n]]
          /\ m_event' = TRUE
          /\ UNCHANGED <<m_enable, lost, phase, mpc, cur, stopFlag>>
      BY <1>1, <2>3 DEF Start
    <3>2. /\ m_cmds' \in [CmdIds -> {"none", "start", "stop"}]
          /\ \A i \in Ids : i >= m_id' => m_cmds'[i] = "none"
      <4>1. m_id \in CmdIds /\ m_id <= m_id'
        BY <2>1
      <4>2. QED
        BY <2>1, <3>1, <4>1, CmdUpdate
    <3>3. m_names' \in [Names -> CmdIds] /\ nameOf' \in [Ids -> Names \cup {NoName}]
      BY <2>1, <3>1 DEF TypeOK
    <3>4. QED
      BY <2>1, <3>1, <3>2, <3>3 DEF TypeOK
  <2>4. QED
    BY <2>2, <2>3
<1>2. ASSUME NEW s \in Names, StopName(s) PROVE TypeOK' /\ HandOK'
  <2>1. PICK id \in FreedNode :
           /\ lost' = IF id = m_names[s] THEN lost ELSE lost \cup {m_names[s]}
           /\ IF id < m_id
                THEN m_cmds' = [m_cmds EXCEPT ![id] = "stop"] /\ m_event' = TRUE
                ELSE UNCHANGED <<m_cmds, m_event>>
    BY <1>2 DEF StopName
  <2>2. m_id \in 0 .. MaxId /\ m_id' = m_id /\ id \in NoId .. MaxId
    BY <1>2, <2>1 DEF StopName, FreedNode, TypeOK
  <2>l. lost' \in SUBSET Ids
    <3>1. m_names[s] \in Ids
      BY <1>2 DEF StopName, TypeOK
    <3>2. QED
      BY <2>1, <3>1 DEF TypeOK
  <2>3. /\ m_cmds' \in [CmdIds -> {"none", "start", "stop"}]
        /\ \A i \in Ids : i >= m_id' => m_cmds'[i] = "none"
        /\ m_event' \in BOOLEAN
    <3>1. CASE id < m_id
      <4>1. id \in CmdIds /\ id < m_id' /\ m_id <= m_id'
        BY <2>2, <3>1
      <4>2. m_cmds' = [m_cmds EXCEPT ![id] = "stop"] /\ m_event' = TRUE
        BY <2>1, <3>1
      <4>3. QED
        BY <2>2, <4>1, <4>2, CmdUpdate
    <3>2. CASE ~(id < m_id)
      BY <2>1, <2>2, <3>2 DEF TypeOK
    <3>3. QED
      BY <3>1, <3>2
  <2>4. QED
    BY <1>2, <2>3, <2>l DEF StopName, TypeOK
<1>3. ASSUME NEW id \in CmdIds, StopId(id) PROVE TypeOK' /\ HandOK'
  <2>1. /\ m_cmds' \in [CmdIds -> {"none", "start", "stop"}]
        /\ \A i \in Ids : i >= m_id' => m_cmds'[i] = "none"
    BY <1>3, CmdUpdate DEF StopId, TypeOK
  <2>2. QED
    BY <1>3, <2>1 DEF StopId, TypeOK
<1>4. CASE StopPool \/ DeletePool \/ MgrWake \/ MgrDrained \/ MgrExit
  BY <1>4 DEF StopPool, DeletePool, MgrWake, MgrDrained, MgrExit, TypeOK
<1>5. ASSUME NEW id \in CmdIds, MgrPop(id) PROVE TypeOK' /\ HandOK'
  <2>1. m_cmds' \in [CmdIds -> {"none", "start", "stop"}]
    BY <1>5 DEF MgrPop, CmdsWithout, TypeOK
  <2>2. \A i \in Ids : i >= m_id => m_cmds'[i] = "none"
    BY <1>5 DEF MgrPop, CmdsWithout, TypeOK
  <2>3. m_cmds[id] \in {"start", "stop"} /\ (id \in Ids => id < m_id)
    BY <1>5 DEF MgrPop, IsFirstCmd, TypeOK
  <2>4. CASE 0 <= id
    <3>1. id \in Ids /\ mpc' = "exec" /\ cur' = <<id, m_cmds[id]>>
      BY <1>5, <2>4 DEF MgrPop
    <3>2. QED
      BY <1>5, <2>1, <2>2, <2>3, <3>1 DEF MgrPop, TypeOK
  <2>5. CASE ~(0 <= id)
    BY <1>5, <2>1, <2>2, <2>5 DEF MgrPop, TypeOK
  <2>6. QED
    BY <2>4, <2>5
<1>6. CASE MgrStartWorker
  <2>1. cur[1] \in Ids /\ cur[1] < m_id
    BY <1>6, HandIssued DEF MgrStartWorker
  <2>2. CASE mpc' = "reap" /\ cur' = Nothing
             /\ phase' = [phase EXCEPT ![cur[1]] = "starting"]
    <3>1. /\ phase' \in [Ids -> Phases]
          /\ \A j \in Ids : j >= m_id => phase'[j] = "unborn"
      BY <2>1, <2>2, PhaseUpdate DEF Phases
    <3>2. QED
      BY <1>6, <2>2, <3>1 DEF MgrStartWorker, TypeOK
  <2>3. CASE mpc' = "nothread" /\ UNCHANGED <<phase, cur>>
    BY <1>6, <2>3 DEF MgrStartWorker, TypeOK
  <2>4. QED
    BY <1>6, <2>2, <2>3 DEF MgrStartWorker
<1>n. CASE MgrNoThread
  <2>1. cur[1] \in Ids /\ cur[1] < m_id
    BY <1>n, HandIssued DEF MgrNoThread
  <2>2. /\ phase' \in [Ids -> Phases]
        /\ \A j \in Ids : j >= m_id => phase'[j] = "unborn"
    BY <1>n, <2>1, PhaseUpdate DEF MgrNoThread, Phases
  <2>3. QED
    BY <1>n, <2>2 DEF MgrNoThread, TypeOK
<1>7. CASE MgrStopWorker
  BY <1>7 DEF MgrStopWorker, TypeOK
<1>8. CASE MgrWorkerErased \/ MgrEndErased \/ MgrWorkerCanceled \/ MgrEndCanceled
  <2>1. /\ mpc \in {"kill", "endkill"}
        /\ mpc' \in {"reap", "end", "aborted"}
        /\ phase' = [phase EXCEPT ![cur[1]] = "gone"]
        /\ cur' = Nothing
        /\ UNCHANGED <<m_id, m_names, m_cmds, m_event, m_enable, nameOf, lost, stopFlag>>
    BY <1>8 DEF MgrWorkerErased, MgrEndErased, MgrWorkerCanceled,
                MgrEndCanceled, Erased, Canceled
  <2>2. cur[1] \in Ids /\ cur[1] < m_id
    BY <2>1, HandIssued
  <2>3. /\ phase' \in [Ids -> Phases]
        /\ \A j \in Ids : j >= m_id => phase'[j] = "unborn"
    BY <2>1, <2>2, PhaseUpdate DEF Phases
  <2>4. QED
    BY <2>1, <2>3 DEF TypeOK
<1>9. CASE MgrReap
  <2>1. phase' \in [Ids -> Phases]
    BY <1>9 DEF MgrReap, TypeOK, Phases
  <2>2. QED
    BY <1>9, <2>1 DEF MgrReap, TypeOK
<1>10. ASSUME NEW i \in Ids, MgrEndWorker(i) PROVE TypeOK' /\ HandOK'
  BY <1>10 DEF MgrEndWorker, InPool, TypeOK
<1>11. ASSUME NEW i \in Ids, WorkerInit(i) \/ WorkerExit(i)
       PROVE  TypeOK' /\ HandOK'
  <2>1. PICK p \in Phases : phase' = [phase EXCEPT ![i] = p]
    BY <1>11 DEF WorkerInit, WorkerExit, Phases
  <2>2. i < m_id
    BY <1>11 DEF WorkerInit, WorkerExit, TypeOK
  <2>3. /\ phase' \in [Ids -> Phases]
        /\ \A j \in Ids : j >= m_id => phase'[j] = "unborn"
    BY <2>1, <2>2, PhaseUpdate
  <2>4. UNCHANGED <<m_id, m_names, m_cmds, m_event, m_enable, nameOf, lost, mpc, cur, stopFlag>>
    BY <1>11 DEF WorkerInit, WorkerExit
  <2>5. QED
    BY <2>3, <2>4 DEF TypeOK
<1>12. CASE UNCHANGED vars
  BY <1>12 DEF vars, TypeOK
<1>13. QED
  BY <1>1, <1>2, <1>3, <1>4, <1>5, <1>6, <1>n, <1>7, <1>8, <1>9, <1>10, <1>11, <1>12
     DEF Next, Callers, Manager, Workers

\* TypeOK in every reachable state: the values the code keeps have their
\* types, and ids that start() has not returned yet have no trace anywhere.
THEOREM TypeCorrect == Spec => [](TypeOK /\ HandOK)
<1>1. Init => TypeOK /\ HandOK
  <2> SUFFICES ASSUME Init PROVE TypeOK /\ HandOK
    OBVIOUS
  <2>1. /\ m_id = 0 /\ mpc = "wait"
        /\ m_event = FALSE /\ m_enable = TRUE /\ stopFlag = FALSE /\ lost = {}
        /\ cur = <<NoId, "none">>
    BY DEF Init, Nothing
  <2>2. /\ m_names = [n \in Names |-> NoId]
        /\ m_cmds = [i \in CmdIds |-> "none"]
        /\ nameOf = [i \in Ids |-> NoName]
        /\ phase = [i \in Ids |-> "unborn"]
    BY DEF Init
  <2>3. phase \in [Ids -> Phases]
    BY <2>2 DEF Phases
  <2>4. HandOK
    BY <2>1 DEF HandOK, Nothing
  <2>5. \A i \in Ids : m_cmds[i] = "none" /\ phase[i] = "unborn" /\ cur[1] # i
    BY <2>1, <2>2
  <2>6. /\ m_names \in [Names -> CmdIds]
        /\ m_cmds \in [CmdIds -> {"none", "start", "stop"}]
        /\ nameOf \in [Ids -> Names \cup {NoName}]
    BY <2>2
  <2>7. m_id \in 0 .. MaxId /\ cur \in CmdIds \X {"none", "start", "stop"}
    BY <2>1
  <2>8. QED
    BY <2>1, <2>3, <2>4, <2>5, <2>6, <2>7 DEF TypeOK
<1>2. QED
  BY <1>1, TypeStep, PTL DEF Spec

-----------------------------------------------------------------------------
(* A property that needs the types only.                                   *)

\* No wakeup is lost between the callers and the manager: while a command is
\* waiting the event is signaled, whatever the order of the critical sections.
THEOREM NoLostCommandHolds == Spec => []NoLostCommand
<1>1. Init => NoLostCommand
  BY DEF Init, NoLostCommand
<1>2. TypeOK /\ NoLostCommand /\ [Next]_vars => NoLostCommand'
  <2> SUFFICES ASSUME TypeOK, NoLostCommand, [Next]_vars PROVE NoLostCommand'
    OBVIOUS
  <2> USE DEF NoLostCommand, SignalEvent, poolVars
  <2>1. CASE Callers
    BY <2>1 DEF Callers, Start, StopName, StopId, StopPool, DeletePool
  <2>2. CASE Manager
    <3>1. ASSUME NEW id \in CmdIds, MgrPop(id) PROVE NoLostCommand'
      BY <3>1 DEF MgrPop, CmdsWithout, TypeOK
    <3>2. CASE MgrDrained
      BY <3>2 DEF MgrDrained, NoCommand
    <3>3. QED
      BY <2>2, <3>1, <3>2 DEF Manager, MgrWake, MgrStartWorker, MgrNoThread, MgrStopWorker,
         MgrWorkerErased, MgrWorkerCanceled, MgrReap, MgrEndWorker,
         MgrEndErased, MgrEndCanceled, MgrExit, Erased, Canceled
  <2>3. CASE Workers
    BY <2>3 DEF Workers, WorkerInit, WorkerExit
  <2>4. CASE UNCHANGED vars
    BY <2>4 DEF vars
  <2>5. QED
    BY <2>1, <2>2, <2>3, <2>4 DEF Next
<1>3. QED
  BY <1>1, <1>2, TypeCorrect, PTL DEF Spec

-----------------------------------------------------------------------------
(* One life per id.                                                        *)

\* A start that has not been carried out is the first thing that happens to
\* its id, and is in one place only.
StartFresh ==
  \A i \in Ids :
    /\ m_cmds[i] = "start" => phase[i] = "unborn" /\ cur[1] # i
    /\ cur = <<i, "start">> => phase[i] = "unborn"

LEMMA FreshStep ==
  TypeOK /\ HandOK /\ StartFresh /\ [Next]_vars => StartFresh'
<1> SUFFICES ASSUME TypeOK, HandOK, StartFresh, [Next]_vars PROVE StartFresh'
  OBVIOUS
<1> USE DEF StartFresh, poolVars, Nothing
<1>1. CASE Callers
  <2>1. ASSUME NEW s \in Names \cup {NoName}, Start(s) PROVE StartFresh'
    <3>1. \A i \in Ids : m_cmds'[i] = "start" => m_cmds[i] = "start" \/ i = m_id
      BY <2>1 DEF Start, TypeOK
    <3>2. QED
      BY <2>1, <3>1 DEF Start, TypeOK
  <2>2. ASSUME NEW s \in Names, StopName(s) PROVE StartFresh'
    <3>1. \A i \in Ids : m_cmds'[i] = "start" => m_cmds[i] = "start"
      BY <2>2 DEF StopName, TypeOK
    <3>2. QED
      BY <2>2, <3>1 DEF StopName
  <2>3. ASSUME NEW id \in CmdIds, StopId(id) PROVE StartFresh'
    BY <2>3 DEF StopId, TypeOK
  <2>4. QED
    BY <1>1, <2>1, <2>2, <2>3 DEF Callers, StopPool, DeletePool
<1>2. CASE Manager
  <2>1. ASSUME NEW id \in CmdIds, MgrPop(id) PROVE StartFresh'
    <3>1. \A i \in Ids : m_cmds'[i] = "start" => m_cmds[i] = "start" /\ i # id
      BY <2>1 DEF MgrPop, CmdsWithout, TypeOK
    <3>2. QED
      BY <2>1, <3>1 DEF MgrPop
  <2>2. CASE MgrStartWorker
    <3>1. /\ cur[1] \in Ids /\ cur = <<cur[1], "start">>
          /\ cur' = <<NoId, "none">> \/ (cur' = cur /\ phase' = phase)
      BY <2>2 DEF MgrStartWorker, HandOK, TypeOK
    <3>2. \A i \in Ids : m_cmds[i] = "start" => phase'[i] = phase[i]
      BY <2>2, <3>1 DEF MgrStartWorker, TypeOK
    <3>3. QED
      BY <2>2, <3>1, <3>2 DEF MgrStartWorker
  <2>n. CASE MgrNoThread
    <3>1. \A i \in Ids : i # cur[1] => phase'[i] = phase[i]
      BY <2>n DEF MgrNoThread, TypeOK
    <3>2. QED
      BY <2>n, <3>1 DEF MgrNoThread
  <2>3. CASE MgrWorkerErased \/ MgrEndErased \/ MgrWorkerCanceled \/ MgrEndCanceled
    <3>1. /\ mpc \in {"kill", "endkill"}
          /\ phase' = [phase EXCEPT ![cur[1]] = "gone"]
          /\ phase[cur[1]] # "unborn"
          /\ cur' = <<NoId, "none">> /\ m_cmds' = m_cmds
      BY <2>3 DEF MgrWorkerErased, MgrEndErased, MgrWorkerCanceled,
                  MgrEndCanceled, Erased, Canceled, HasThread
    <3>2. \A i \in Ids : phase[i] = "unborn" => phase'[i] = phase[i]
      BY <3>1 DEF TypeOK
    <3>3. QED
      BY <3>1, <3>2
  <2>4. CASE MgrReap
    BY <2>4 DEF MgrReap, TypeOK
  <2>5. ASSUME NEW i \in Ids, MgrEndWorker(i) PROVE StartFresh'
    BY <2>5 DEF MgrEndWorker, InPool
  <2>6. CASE MgrWake \/ MgrDrained \/ MgrStopWorker \/ MgrExit
    BY <2>6 DEF MgrWake, MgrDrained, MgrStopWorker, MgrExit
  <2>7. QED
    BY <1>2, <2>1, <2>2, <2>n, <2>3, <2>4, <2>5, <2>6 DEF Manager
<1>3. CASE Workers
  BY <1>3 DEF Workers, WorkerInit, WorkerExit, TypeOK
<1>4. CASE UNCHANGED vars
  BY <1>4 DEF vars
<1>5. QED
  BY <1>1, <1>2, <1>3, <1>4 DEF Next

\* The object whose thread could not be created has never had one.
LEMMA NoThreadUnborn ==
  ASSUME TypeOK, HandOK, StartFresh, MgrNoThread
  PROVE  cur[1] \in Ids /\ phase[cur[1]] = "unborn"
BY DEF MgrNoThread, HandOK, StartFresh, TypeOK

\* Whatever commands the callers leave for an id, its thread is created at
\* most once and never again after it is gone.
THEOREM OneLifeHolds == Spec => OneLife
<1>1. Init => StartFresh
  BY DEF Init, StartFresh, Nothing
<1> DEFINE A == \A i \in Ids :
       /\ phase'[i] = "starting" => phase[i] \in {"unborn", "starting"}
       /\ phase[i] = "gone" => phase'[i] = "gone"
<1>2. TypeOK /\ HandOK /\ StartFresh /\ [Next]_vars => [A]_vars
  <2> SUFFICES ASSUME TypeOK, HandOK, StartFresh, Next PROVE A
    OBVIOUS
  <2> USE DEF poolVars
  <2>1. CASE Callers
    BY <2>1 DEF Callers, Start, StopName, StopId, StopPool, DeletePool
  <2>2. CASE Manager
    <3>1. CASE MgrStartWorker
      <4>1. cur[1] \in Ids /\ phase[cur[1]] = "unborn"
        BY <3>1 DEF MgrStartWorker, HandOK, StartFresh, TypeOK
      <4>2. QED
        BY <3>1, <4>1 DEF MgrStartWorker, TypeOK
    <3>n. CASE MgrNoThread
      <4>1. cur[1] \in Ids /\ phase[cur[1]] = "unborn"
        BY <3>n, NoThreadUnborn
      <4>2. QED
        BY <3>n, <4>1 DEF MgrNoThread, TypeOK
    <3>2. CASE MgrWorkerErased \/ MgrEndErased \/ MgrWorkerCanceled \/ MgrEndCanceled
      <4>1. phase' = [phase EXCEPT ![cur[1]] = "gone"]
        BY <3>2 DEF MgrWorkerErased, MgrEndErased, MgrWorkerCanceled,
                    MgrEndCanceled, Erased, Canceled
      <4>2. QED
        BY <4>1 DEF TypeOK
    <3>3. CASE MgrReap
      BY <3>3 DEF MgrReap
    <3>4. QED
      BY <2>2, <3>1, <3>n, <3>2, <3>3 DEF Manager, MgrWake, MgrPop, MgrDrained,
         MgrStopWorker, MgrEndWorker, MgrExit
  <2>3. CASE Workers
    BY <2>3 DEF Workers, WorkerInit, WorkerExit, TypeOK
  <2>4. QED
    BY <2>1, <2>2, <2>3 DEF Next
<1>3. QED
  BY <1>1, <1>2, TypeCorrect, FreshStep, PTL DEF Spec, OneLife

-----------------------------------------------------------------------------
(* The pool implements the contract of thread objects.                     *)

\* The moves of the contract that the pool makes.
LEMMA ContractMoves ==
  /\ \A p \in Phases : p \in Contract!MayBecome(p)
  /\ {"starting", "failed"} \subseteq Contract!MayBecome("unborn")
  /\ "running" \in Contract!MayBecome("starting")
  /\ "exited" \in Contract!MayBecome("running")
  /\ \A p \in Phases : "gone" \in Contract!MayBecome(p)
BY DEF Phases, Contract!MayBecome

\* What the pool does with its thread objects, at every step, is allowed by
\* the contract: start, stop, reap and EndThread never run an object twice.
THEOREM KeepsContractHolds == Spec => KeepsContract
<1>1. Init => StartFresh
  BY DEF Init, StartFresh, Nothing
<1>2. Init => Contract!Init
  BY DEF Init, Contract!Init
<1>3. TypeOK /\ HandOK /\ StartFresh /\ [Next]_vars => [Contract!Next]_phase
  <2> SUFFICES ASSUME TypeOK, HandOK, StartFresh, Next, phase' # phase
               PROVE  \A i \in Ids : phase'[i] \in Contract!MayBecome(phase[i])
    BY DEF Contract!Next, vars
  <2> USE ContractMoves DEF poolVars
  <2>1. CASE Callers
    BY <2>1 DEF Callers, Start, StopName, StopId, StopPool, DeletePool
  <2>2. CASE Manager
    <3>1. CASE MgrStartWorker
      <4>1. cur[1] \in Ids /\ phase[cur[1]] = "unborn"
        BY <3>1 DEF MgrStartWorker, HandOK, StartFresh, TypeOK
      <4>2. phase' = [phase EXCEPT ![cur[1]] = "starting"]
        BY <3>1 DEF MgrStartWorker
      <4>3. QED
        BY <4>1, <4>2 DEF TypeOK
    <3>n. CASE MgrNoThread
      <4>1. cur[1] \in Ids /\ phase[cur[1]] = "unborn"
        BY <3>n, NoThreadUnborn
      <4>2. phase' = [phase EXCEPT ![cur[1]] = "failed"]
        BY <3>n DEF MgrNoThread
      <4>3. QED
        BY <4>1, <4>2 DEF TypeOK
    <3>2. CASE MgrWorkerErased \/ MgrEndErased \/ MgrWorkerCanceled \/ MgrEndCanceled
      <4>1. phase' = [phase EXCEPT ![cur[1]] = "gone"]
        BY <3>2 DEF MgrWorkerErased, MgrEndErased, MgrWorkerCanceled,
                    MgrEndCanceled, Erased, Canceled
      <4>2. QED
        BY <4>1 DEF TypeOK
    <3>3. CASE MgrReap
      <4>1. \A i \in Ids : phase'[i] = phase[i] \/ phase'[i] = "gone"
        BY <3>3 DEF MgrReap
      <4>2. QED
        BY <4>1 DEF TypeOK
    <3>4. QED
      BY <2>2, <3>1, <3>n, <3>2, <3>3 DEF Manager, MgrWake, MgrPop, MgrDrained,
         MgrStopWorker, MgrEndWorker, MgrExit
  <2>3. CASE Workers
    <3>1. PICK i \in Ids : WorkerInit(i) \/ WorkerExit(i)
      BY <2>3 DEF Workers
    <3>2. \/ phase[i] = "starting" /\ phase' = [phase EXCEPT ![i] = "running"]
          \/ phase[i] = "running" /\ phase' = [phase EXCEPT ![i] = "exited"]
      BY <3>1 DEF WorkerInit, WorkerExit
    <3>3. QED
      BY <3>2 DEF TypeOK
  <2>4. QED
    BY <2>1, <2>2, <2>3 DEF Next
<1>4. QED
  BY <1>1, <1>2, <1>3, TypeCorrect, FreshStep, PTL
     DEF Spec, KeepsContract, Contract!Spec

-----------------------------------------------------------------------------
(* One thread per name, but for those whose id stop(name) did not read      *)
(* back.                                                                   *)

\* A name maps to a thread of that name, and to the latest one.
NamesOK ==
  /\ \A n \in Names : m_names[n] # NoId =>
       m_names[n] \in Ids /\ m_names[n] < m_id /\ nameOf[m_names[n]] = n
  /\ \A i \in Ids : nameOf[i] \in Names =>
       /\ i < m_id
       /\ m_names[nameOf[i]] # NoId => i <= m_names[nameOf[i]]

Owns(i) == m_names[nameOf[i]] = i

\* A start that has not been taken belongs to the owner of the name; one that
\* has been taken from an owner that gave up the name has a stop behind it;
\* unless the stop(name) that gave it up read another id.
StartsOK ==
  \A i \in Ids : nameOf[i] \in Names =>
    /\ m_cmds[i] = "start" => Owns(i) \/ i \in lost
    /\ cur = <<i, "start">> => Owns(i) \/ m_cmds[i] = "stop" \/ i \in lost

\* When the manager is about to create a thread, no other thread of the name
\* is alive: the earlier ones were destroyed, the later ones are not created.
HandAlone ==
  \A i, j \in Ids :
    /\ cur = <<i, "start">>
    /\ nameOf[i] \in Names
    /\ nameOf[j] = nameOf[i]
    /\ i # j
    /\ HasThread(j)
    => (j < i /\ j \in lost) \/ (i < j /\ i \in lost)

NameInv == NamesOK /\ StartsOK /\ StopNameReaches /\ HandAlone /\ OneThreadPerName

\* Steps that only let threads end, and leave names and commands alone.
LEMMA NameShrink ==
  ASSUME NameInv,
         UNCHANGED <<m_id, m_names, m_cmds, nameOf, lost>>,
         \A i \in Ids : HasThread(i)' => HasThread(i),
         \A i \in Ids : cur' = <<i, "start">> => cur = <<i, "start">>,
         \A i \in Ids : HasThread(i)' /\ cur = <<i, "stop">> => cur' = <<i, "stop">>,
         mpc \in {"end", "endkill", "aborted"} =>
           mpc' \in {"end", "endkill", "aborted"} \/ \A i \in Ids : ~HasThread(i)'
  PROVE  NameInv'
BY DEF NameInv, NamesOK, StartsOK, StopNameReaches, HandAlone, OneThreadPerName, Owns

\* The five parts of NameInv are preserved together by every step.
LEMMA NameStep ==
  ASSUME TypeOK, HandOK, StartFresh, NameInv, [Next]_vars
  PROVE  NameInv'
<1> USE DEF poolVars, Nothing
<1>1. ASSUME NEW s \in Names \cup {NoName}, Start(s) PROVE NameInv'
  <2>1. m_id \in Ids /\ m_id' = m_id + 1 /\ UNCHANGED <<phase, mpc, cur, lost>>
    BY <1>1 DEF Start, TypeOK
  <2>2. CASE s \in Names /\ m_names[s] # NoId
    BY <1>1, <2>1, <2>2 DEF Start, NameInv, NamesOK, StartsOK, StopNameReaches,
       HandAlone, OneThreadPerName, Owns, HasThread, TypeOK
  <2>3. CASE ~(s \in Names /\ m_names[s] # NoId)
    <3>1. /\ m_cmds' = [m_cmds EXCEPT ![m_id] = "start"]
          /\ nameOf' = [nameOf EXCEPT ![m_id] = s]
          /\ m_names' = [n \in Names |-> IF n = s THEN m_id ELSE m_names[n]]
      BY <1>1, <2>3 DEF Start
    <3>2. /\ \A i \in Ids : i # m_id => nameOf'[i] = nameOf[i] /\ m_cmds'[i] = m_cmds[i]
          /\ nameOf'[m_id] = s /\ m_cmds'[m_id] = "start"
          /\ phase[m_id] = "unborn" /\ cur[1] # m_id
      BY <2>1, <3>1 DEF TypeOK
    <3>3. \A n \in Names : n # s => m_names'[n] = m_names[n]
      BY <3>1
    <3>4. s \in Names => m_names[s] = NoId /\ m_names'[s] = m_id
      BY <2>3, <3>1
    <3>5. NamesOK'
      <4>1. ASSUME NEW n \in Names, m_names'[n] # NoId
            PROVE  m_names'[n] \in Ids /\ m_names'[n] < m_id' /\ nameOf'[m_names'[n]] = n
        <5>1. CASE n = s
          BY <2>1, <3>2, <3>4, <5>1
        <5>2. CASE n # s
          <6>1. m_names[n] \in Ids /\ m_names[n] < m_id /\ nameOf[m_names[n]] = n
            BY <3>3, <4>1, <5>2 DEF NameInv, NamesOK
          <6>2. QED
            BY <2>1, <3>2, <3>3, <5>2, <6>1
        <5>3. QED
          BY <5>1, <5>2
      <4>2. ASSUME NEW i \in Ids, nameOf'[i] \in Names
            PROVE  /\ i < m_id'
                   /\ m_names'[nameOf'[i]] # NoId => i <= m_names'[nameOf'[i]]
        <5>1. CASE i = m_id
          BY <2>1, <3>2, <3>4, <4>2, <5>1
        <5>2. CASE i # m_id
          <6>1. nameOf'[i] = nameOf[i] /\ i < m_id
            BY <3>2, <4>2, <5>2 DEF NameInv, NamesOK
          <6>2. QED
            BY <2>1, <3>3, <3>4, <4>2, <6>1 DEF NameInv, NamesOK
        <5>3. QED
          BY <5>1, <5>2
      <4>3. QED
        BY <4>1, <4>2 DEF NamesOK
    <3>6. \A i \in Ids : nameOf[i] \in Names /\ Owns(i) /\ i # m_id => Owns(i)'
      BY <2>1, <3>2, <3>3, <3>4 DEF Owns
    <3>7. StartsOK'
      BY <2>1, <3>2, <3>4, <3>6 DEF NameInv, StartsOK, Owns
    <3>8. StopNameReaches'
      BY <2>1, <3>2, <3>3, <3>4 DEF NameInv, StopNameReaches, HasThread
    <3>9. HandAlone' /\ OneThreadPerName'
      BY <2>1, <3>2 DEF NameInv, HandAlone, OneThreadPerName, HasThread
    <3>10. QED
      BY <3>5, <3>7, <3>8, <3>9 DEF NameInv
  <2>4. QED
    BY <2>2, <2>3
<1>2. ASSUME NEW s \in Names, StopName(s) PROVE NameInv'
  <2>1. m_names[s] \in Ids /\ m_names[s] < m_id /\ nameOf[m_names[s]] = s
    BY <1>2 DEF StopName, NameInv, NamesOK
  <2>2. PICK id \in FreedNode :
           /\ lost' = IF id = m_names[s] THEN lost ELSE lost \cup {m_names[s]}
           /\ IF id < m_id
                THEN m_cmds' = [m_cmds EXCEPT ![id] = "stop"]
                ELSE m_cmds' = m_cmds
    BY <1>2 DEF StopName, Issued
  <2>3. /\ m_names' = [m_names EXCEPT ![s] = NoId]
        /\ UNCHANGED <<m_id, nameOf, phase, mpc, cur>>
    BY <1>2 DEF StopName
  <2>4. /\ \A n \in Names : n # s => m_names'[n] = m_names[n]
        /\ m_names'[s] = NoId
    BY <2>3 DEF TypeOK
  <2>5. /\ \A i \in Ids : m_cmds'[i] = m_cmds[i] \/ m_cmds'[i] = "stop"
        /\ lost \subseteq lost'
        /\ m_cmds'[m_names[s]] = "stop" \/ m_names[s] \in lost'
    <3>1. CASE id = m_names[s]
      BY <2>1, <2>2, <3>1 DEF TypeOK
    <3>2. CASE id # m_names[s]
      BY <2>2, <3>2 DEF TypeOK
    <3>3. QED
      BY <3>1, <3>2
  <2>6. \A i \in Ids : nameOf[i] \in Names /\ Owns(i) =>
          Owns(i)' \/ m_cmds'[i] = "stop" \/ i \in lost'
    BY <2>3, <2>4, <2>5 DEF Owns
  <2>7. NamesOK'
    BY <2>3, <2>4 DEF NameInv, NamesOK
  <2>8. StartsOK'
    <3>1. ASSUME NEW i \in Ids, nameOf[i] \in Names
          PROVE  /\ m_cmds'[i] = "start" => Owns(i)' \/ i \in lost'
                 /\ cur = <<i, "start">> => Owns(i)' \/ m_cmds'[i] = "stop" \/ i \in lost'
      <4>1. /\ m_cmds[i] = "start" => Owns(i) \/ i \in lost
            /\ cur = <<i, "start">> => Owns(i) \/ m_cmds[i] = "stop" \/ i \in lost
        BY <3>1 DEF NameInv, StartsOK
      <4>2. QED
        BY <2>5, <2>6, <3>1, <4>1
    <3>2. QED
      BY <2>3, <3>1 DEF StartsOK
  <2>9. StopNameReaches'
    <3>1. ASSUME NEW i \in Ids, HasThread(i), nameOf[i] \in Names,
                 m_names'[nameOf[i]] # i
          PROVE  \/ m_cmds'[i] = "stop" \/ cur = <<i, "stop">>
                 \/ mpc \in {"end", "endkill", "aborted"} \/ i \in lost'
      <4>1. CASE Owns(i)
        BY <2>3, <2>6, <3>1, <4>1 DEF Owns
      <4>2. CASE ~Owns(i)
        BY <2>5, <3>1, <4>2 DEF NameInv, StopNameReaches, Owns
      <4>3. QED
        BY <4>1, <4>2
    <3>2. QED
      BY <2>3, <3>1 DEF StopNameReaches, HasThread
  <2>10. HandAlone' /\ OneThreadPerName'
    BY <2>3, <2>5 DEF NameInv, HandAlone, OneThreadPerName, HasThread
  <2>11. QED
    BY <2>7, <2>8, <2>9, <2>10 DEF NameInv
<1>3. ASSUME NEW id \in CmdIds, StopId(id) PROVE NameInv'
  <2>1. /\ UNCHANGED <<m_id, m_names, nameOf, lost, phase, mpc, cur>>
        /\ \A i \in Ids : m_cmds'[i] = m_cmds[i] \/ m_cmds'[i] = "stop"
    BY <1>3 DEF StopId, TypeOK
  <2>2. QED
    BY <2>1 DEF NameInv, NamesOK, StartsOK, StopNameReaches, HandAlone,
                OneThreadPerName, Owns, HasThread
<1>4. ASSUME NEW id \in CmdIds, MgrPop(id) PROVE NameInv'
  <2>1. /\ UNCHANGED <<m_id, m_names, nameOf, lost, phase>>
        /\ mpc = "pop" /\ cur = <<NoId, "none">>
        /\ m_cmds[id] # "none"
        /\ m_cmds'[id] = "none"
        /\ \A j \in CmdIds : j # id => m_cmds'[j] = m_cmds[j]
        /\ \A j \in CmdIds : j < id => m_cmds[j] = "none"
    BY <1>4 DEF MgrPop, IsFirstCmd, CmdsWithout, HandOK, TypeOK
  <2>2. CASE id \in Ids
    <3>1. cur' = <<id, m_cmds[id]>> /\ mpc' = "exec"
      BY <1>4, <2>2 DEF MgrPop
    <3>2. NamesOK'
      BY <2>1 DEF NameInv, NamesOK
    <3>3. StartsOK'
      BY <2>1, <3>1 DEF NameInv, StartsOK, Owns
    <3>4. StopNameReaches'
      BY <2>1, <3>1 DEF NameInv, StopNameReaches, HasThread
    <3>5. HandAlone'
      <4>1. SUFFICES ASSUME NEW j \in Ids, m_cmds[id] = "start", nameOf[id] \in Names,
                            nameOf[j] = nameOf[id], id # j, HasThread(j)
                     PROVE  (j < id /\ j \in lost) \/ (id < j /\ id \in lost)
        BY <2>1, <3>1 DEF HandAlone, HasThread
      <4>2. Owns(id) \/ id \in lost
        BY <2>2, <4>1 DEF NameInv, StartsOK
      <4>3. CASE j < id
        <5>1. m_names[nameOf[j]] # j
          BY <2>2, <4>1, <4>3 DEF NameInv, NamesOK
        <5>2. m_cmds[j] = "stop" \/ j \in lost
          BY <2>1, <4>1, <5>1 DEF NameInv, StopNameReaches
        <5>3. QED
          BY <2>1, <4>3, <5>2
      <4>4. CASE id < j
        BY <2>2, <4>1, <4>2, <4>4 DEF NameInv, NamesOK, Owns
      <4>5. QED
        BY <2>2, <4>1, <4>3, <4>4
    <3>6. OneThreadPerName'
      BY <2>1 DEF NameInv, OneThreadPerName, HasThread
    <3>7. QED
      BY <3>2, <3>3, <3>4, <3>5, <3>6 DEF NameInv
  <2>3. CASE id \notin Ids
    <3>1. cur' = cur /\ mpc' = "reap" /\ \A i \in Ids : m_cmds'[i] = m_cmds[i]
      BY <1>4, <2>1, <2>3 DEF MgrPop
    <3>2. QED
      BY <2>1, <3>1 DEF NameInv, NamesOK, StartsOK, StopNameReaches, HandAlone,
                        OneThreadPerName, Owns, HasThread
  <2>4. QED
    BY <2>2, <2>3
<1>5. CASE MgrStartWorker
  <2>1. /\ cur[1] \in Ids /\ cur = <<cur[1], "start">> /\ mpc = "exec"
        /\ UNCHANGED <<m_id, m_names, m_cmds, nameOf, lost>>
    BY <1>5 DEF MgrStartWorker, HandOK, TypeOK
  <2>2. CASE mpc' = "nothread" /\ UNCHANGED <<phase, cur>>
    BY <2>1, <2>2, NameShrink DEF HasThread
  <2>3. CASE /\ cur' = <<NoId, "none">> /\ mpc' = "reap"
             /\ phase' = [phase EXCEPT ![cur[1]] = "starting"]
    <3>1. \A j \in Ids : HasThread(j)' => HasThread(j) \/ j = cur[1]
      BY <2>1, <2>3 DEF HasThread, TypeOK
    <3>2. NamesOK' /\ StartsOK' /\ HandAlone'
      BY <2>1, <2>3 DEF NameInv, NamesOK, StartsOK, HandAlone, Owns
    <3>3. StopNameReaches'
      BY <2>1, <2>3, <3>1 DEF NameInv, StopNameReaches, StartsOK, Owns
    <3>4. OneThreadPerName'
      BY <2>1, <2>3, <3>1 DEF NameInv, OneThreadPerName, HandAlone
    <3>5. QED
      BY <3>2, <3>3, <3>4 DEF NameInv
  <2>4. QED
    BY <1>5, <2>2, <2>3 DEF MgrStartWorker
<1>n. CASE MgrNoThread
  <2>1. /\ mpc = "nothread" /\ cur' = <<NoId, "none">>
        /\ UNCHANGED <<m_id, m_names, m_cmds, nameOf, lost>>
        /\ phase' = [phase EXCEPT ![cur[1]] = "failed"]
        /\ cur[1] \in Ids /\ phase[cur[1]] = "unborn"
    BY <1>n, NoThreadUnborn DEF MgrNoThread
  <2>2. \A i \in Ids : HasThread(i)' => HasThread(i)
    BY <2>1 DEF HasThread, TypeOK
  <2>3. \A i \in Ids : cur = <<i, "stop">> => ~HasThread(i)'
    BY <2>1 DEF HasThread, TypeOK
  <2>4. QED
    BY <2>1, <2>2, <2>3, NameShrink
<1>6. CASE MgrStopWorker
  <2>1. /\ UNCHANGED <<m_id, m_names, m_cmds, nameOf, lost, phase>>
        /\ mpc = "exec" /\ cur[2] = "stop"
        /\ cur' = cur \/ (cur' = <<NoId, "none">> /\ ~InPool(cur[1]))
    BY <1>6 DEF MgrStopWorker
  <2>2. QED
    BY <2>1, NameShrink DEF HasThread, InPool
<1>7. CASE MgrWorkerErased \/ MgrEndErased \/ MgrWorkerCanceled \/ MgrEndCanceled
  <2>1. /\ mpc \in {"kill", "endkill"}
        /\ mpc = "endkill" => mpc' \in {"end", "aborted"}
        /\ phase' = [phase EXCEPT ![cur[1]] = "gone"]
        /\ cur' = <<NoId, "none">>
        /\ UNCHANGED <<m_id, m_names, m_cmds, nameOf, lost>>
    BY <1>7 DEF MgrWorkerErased, MgrEndErased, MgrWorkerCanceled,
                MgrEndCanceled, Erased, Canceled
  <2>2. cur[1] \in Ids
    BY <2>1 DEF HandOK
  <2>3. \A i \in Ids : HasThread(i)' => HasThread(i) /\ i # cur[1]
    BY <2>1, <2>2 DEF HasThread, TypeOK
  <2>4. \A i \in Ids : cur' # <<i, "start">>
    BY <2>1
  <2>5. \A i \in Ids : HasThread(i)' => cur # <<i, "stop">>
    BY <2>3
  <2>6. QED
    BY <2>1, <2>3, <2>4, <2>5, NameShrink
<1>8. CASE MgrReap
  <2>1. \A i \in Ids : HasThread(i)' => HasThread(i)
    BY <1>8 DEF MgrReap, HasThread, TypeOK
  <2>2. QED
    BY <1>8, <2>1, NameShrink DEF MgrReap
<1>9. ASSUME NEW i \in Ids, MgrEndWorker(i) PROVE NameInv'
  <2>1. /\ mpc = "end" /\ mpc' = "endkill" /\ cur = <<NoId, "none">>
        /\ cur' = <<i, "stop">>
        /\ UNCHANGED <<m_id, m_names, m_cmds, nameOf, lost, phase>>
    BY <1>9 DEF MgrEndWorker, HandOK
  <2>2. QED
    BY <2>1, NameShrink DEF HasThread
<1>10. CASE MgrExit
  <2>1. \A i \in Ids : ~HasThread(i)'
    BY <1>10 DEF MgrExit, PoolEmpty, InPool, HasThread
  <2>2. QED
    BY <1>10, <2>1, NameShrink DEF MgrExit
<1>11. ASSUME NEW i \in Ids, WorkerInit(i) \/ WorkerExit(i) PROVE NameInv'
  <2>1. \A j \in Ids : HasThread(j)' => HasThread(j)
    BY <1>11 DEF WorkerInit, WorkerExit, HasThread, TypeOK
  <2>2. QED
    BY <1>11, <2>1, NameShrink DEF WorkerInit, WorkerExit
<1>12. CASE StopPool \/ DeletePool \/ MgrWake \/ MgrDrained \/ UNCHANGED vars
  <2>1. /\ UNCHANGED <<m_id, m_names, m_cmds, nameOf, lost, phase, cur>>
        /\ mpc \in {"end", "endkill", "aborted"} => mpc' = mpc
    BY <1>12 DEF StopPool, DeletePool, MgrWake, MgrDrained, vars
  <2>2. QED
    BY <2>1, NameShrink DEF HasThread
<1>13. QED
  BY <1>1, <1>2, <1>3, <1>4, <1>5, <1>n, <1>6, <1>7, <1>8, <1>9, <1>10, <1>11, <1>12
     DEF Next, Callers, Manager, Workers

\* The names, the commands and the threads they stand for agree in every
\* reachable state.
LEMMA NamesHold == Spec => []NameInv
<1>1. Init => StartFresh /\ NameInv
  BY DEF Init, StartFresh, NameInv, NamesOK, StartsOK, StopNameReaches,
         HandAlone, OneThreadPerName, HasThread, Nothing
<1>2. TypeOK /\ HandOK /\ StartFresh /\ NameInv /\ [Next]_vars
        => StartFresh' /\ NameInv'
  BY FreshStep, NameStep
<1>3. QED
  BY <1>1, <1>2, TypeCorrect, PTL DEF Spec

\* However calls, commands and exits interleave, stop(name) followed by
\* start(name) never makes two threads of that name run at once, unless that
\* stop(name) read another id in the node it had erased.
THEOREM OneThreadPerNameHolds == Spec => []OneThreadPerName
<1>1. NameInv => OneThreadPerName
  BY DEF NameInv
<1>2. QED
  BY <1>1, NamesHold, PTL

\* The thread that stop(name) was called for is dead or bound to be destroyed,
\* whichever calls, takes and exits come between; only one whose id was not
\* read back goes on without its name.
THEOREM StopNameReachesHolds == Spec => []StopNameReaches
<1>1. NameInv => StopNameReaches
  BY DEF NameInv
<1>2. QED
  BY <1>1, NamesHold, PTL

-----------------------------------------------------------------------------
(* The event the pool is built on, and what makes a wake-up reach everybody *)
(* who waits for it, for any sets of threads.                               *)

(* A waiter on its way to sleep has the mutex, so nobody sets the flag     *)
(* between its last look at it and its sleep.                              *)
Drowsy   == \A w \in Waiters : pc[w] = "sleep" => ~signaled
Sleepers == \A w \in asleep : pc[w] = "asleep"

EventInv == EventTypeOK /\ Sleepers /\ Drowsy /\ NoLostWakeup

Labels == WaitLabels \cup SignalLabels

\* Initially nobody does anything.
LEMMA EventInitInv == EventInit => EventInv
<1> SUFFICES ASSUME EventInit PROVE EventInv
  OBVIOUS
<1>1. EventTypeOK
  BY ThreadsAssumption DEF EventInit, EventTypeOK, Threads, Inside, Results, WaitLabels, SignalLabels
<1>2. Sleepers /\ Drowsy /\ NoLostWakeup
  BY DEF EventInit, Sleepers, Drowsy, NoLostWakeup, Threads
<1> QED BY <1>1, <1>2 DEF EventInv

\* How the label of one thread changes when it goes elsewhere.
LEMMA GotoOne ==
  ASSUME EventInv, NEW t \in Threads, NEW l \in Labels, Goto(t, l)
  PROVE  /\ pc' \in [Threads -> Labels]
         /\ pc'[t] = l
         /\ \A u \in Threads : u # t => pc'[u] = pc[u]
BY DEF EventInv, EventTypeOK, Goto, Labels

\* Wait(): each step keeps the invariant.
LEMMA WaitStep ==
  ASSUME EventInv, NEW w \in Waiters, Wait(w)
  PROVE  EventInv'
<1> USE DEF Inside, Labels, WaitLabels, SignalLabels, Results
<1>0. w \in Threads /\ w \notin Signalers /\ w # NoThread
  BY ThreadsAssumption DEF Threads
<1>t. /\ EventTypeOK /\ Sleepers /\ Drowsy /\ NoLostWakeup
      /\ Waiters \subseteq Threads /\ Signalers \subseteq Threads
      /\ NoThread \notin Threads
  BY ThreadsAssumption DEF EventInv, Threads
<1>1. CASE WaitFree(w)
  <2>1. CASE Goto(w, "lock") /\ UNCHANGED result
    <3>1. pc' \in [Threads -> Labels] /\ pc'[w] = "lock" /\ \A u \in Threads : u # w => pc'[u] = pc[u]
      BY <2>1, <1>0, GotoOne
    <3> QED BY <1>1, <2>1, <3>1, <1>0, <1>t DEF WaitFree, EventInv, EventTypeOK, Sleepers, Drowsy, NoLostWakeup
  <2>2. CASE \E r \in {"success", "timeout"} : Returns(w, r)
    <3>0. Goto(w, "out") /\ result' \in [Waiters -> Results]
      BY <2>2, <1>t DEF Returns, EventTypeOK
    <3>1. pc' \in [Threads -> Labels] /\ pc'[w] = "out" /\ \A u \in Threads : u # w => pc'[u] = pc[u]
      BY <3>0, <1>0, GotoOne
    <3> QED BY <1>1, <3>0, <3>1, <1>0, <1>t DEF WaitFree, EventInv, EventTypeOK, Sleepers, Drowsy, NoLostWakeup
  <2> QED BY <1>1, <2>1, <2>2 DEF WaitFree
<1>2. CASE WaitLock(w)
  <2>1. CASE Lock(w) /\ Goto(w, "check") /\ UNCHANGED result
    <3>1. pc' \in [Threads -> Labels] /\ pc'[w] = "check" /\ \A u \in Threads : u # w => pc'[u] = pc[u]
      BY <2>1, <1>0, GotoOne
    <3> QED BY <1>2, <2>1, <3>1, <1>0, <1>t DEF WaitLock, Lock, EventInv, EventTypeOK, Sleepers, Drowsy, NoLostWakeup
  <2>2. CASE Returns(w, "failed") /\ UNCHANGED mutex
    <3>0. Goto(w, "out") /\ result' \in [Waiters -> Results]
      BY <2>2, <1>t DEF Returns, EventTypeOK
    <3>1. pc' \in [Threads -> Labels] /\ pc'[w] = "out" /\ \A u \in Threads : u # w => pc'[u] = pc[u]
      BY <3>0, <1>0, GotoOne
    <3> QED BY <1>2, <2>2, <3>0, <3>1, <1>0, <1>t DEF WaitLock, EventInv, EventTypeOK, Sleepers, Drowsy, NoLostWakeup
  <2> QED BY <1>2, <2>1, <2>2 DEF WaitLock
<1>3. CASE WaitCheck(w)
  <2>1. CASE signaled
    <3>0. Goto(w, "out") /\ mutex' = NoThread /\ result' \in [Waiters -> Results]
      BY <1>3, <2>1, <1>t DEF WaitCheck, SignaledMeanwhile, Unlocked, Returns, EventTypeOK
    <3>1. pc' \in [Threads -> Labels] /\ pc'[w] = "out" /\ \A u \in Threads : u # w => pc'[u] = pc[u]
      BY <3>0, <1>0, GotoOne
    <3> QED BY <1>3, <3>0, <3>1, <1>0, <1>t DEF WaitCheck, EventInv, EventTypeOK, Sleepers, Drowsy, NoLostWakeup
  <2>2. CASE ~signaled
    <3>0. Goto(w, "sleep") /\ UNCHANGED <<mutex, result>>
      BY <1>3, <2>2 DEF WaitCheck, SignaledMeanwhile
    <3>1. pc' \in [Threads -> Labels] /\ pc'[w] = "sleep" /\ \A u \in Threads : u # w => pc'[u] = pc[u]
      BY <3>0, <1>0, GotoOne
    <3> QED BY <1>3, <2>2, <3>0, <3>1, <1>0, <1>t DEF WaitCheck, EventInv, EventTypeOK, Sleepers, Drowsy, NoLostWakeup
  <2> QED BY <2>1, <2>2
<1>4. CASE WaitSleep(w)
  <2>1. pc' \in [Threads -> Labels] /\ pc'[w] = "asleep" /\ \A u \in Threads : u # w => pc'[u] = pc[u]
    BY <1>4, <1>0, GotoOne DEF WaitSleep
  <2>2. ~signaled /\ mutex = w
    BY <1>4, <1>0, <1>t DEF WaitSleep, Drowsy, EventTypeOK
  <2> QED BY <1>4, <2>1, <2>2, <1>0, <1>t DEF WaitSleep, Unlocked, EventInv, EventTypeOK, Sleepers, Drowsy, NoLostWakeup
<1>5. CASE WakeUp(w) \/ TimeOut(w)
  <2>1. PICK l \in {"awake", "late"} : Goto(w, l)
    BY <1>5 DEF WakeUp, TimeOut
  <2>2. pc' \in [Threads -> Labels] /\ pc'[w] = l /\ \A u \in Threads : u # w => pc'[u] = pc[u]
    BY <2>1, <1>0, GotoOne
  <2>3. pc[w] = "asleep" /\ asleep' = asleep \ {w} /\ UNCHANGED <<manual, signaled, mutex, result>>
    BY <1>5, <1>t DEF WakeUp, TimeOut, Sleepers
  <2> QED BY <2>2, <2>3, <1>0, <1>t DEF EventInv, EventTypeOK, Sleepers, Drowsy, NoLostWakeup
<1>6. CASE WaitReturns(w)
  <2>0. Goto(w, "out") /\ result' \in [Waiters -> Results]
    BY <1>6, <1>t DEF WaitReturns, Returns, EventTypeOK
  <2>1. pc' \in [Threads -> Labels] /\ pc'[w] = "out" /\ \A u \in Threads : u # w => pc'[u] = pc[u]
    BY <2>0, <1>0, GotoOne
  <2> QED BY <1>6, <2>0, <2>1, <1>0, <1>t DEF WaitReturns, EventInv, EventTypeOK, Sleepers, Drowsy, NoLostWakeup
<1> QED BY <1>1, <1>2, <1>3, <1>4, <1>5, <1>6 DEF Wait

\* Signal(): each step keeps the invariant.
LEMMA SignalStep ==
  ASSUME EventInv, NEW s \in Signalers, Signal(s)
  PROVE  EventInv'
<1> USE DEF Inside, Labels, WaitLabels, SignalLabels, Results
<1>0. s \in Threads /\ s \notin Waiters /\ s # NoThread
  BY ThreadsAssumption DEF Threads
<1>t. /\ EventTypeOK /\ Sleepers /\ Drowsy /\ NoLostWakeup
      /\ Waiters \subseteq Threads /\ Signalers \subseteq Threads
      /\ NoThread \notin Threads /\ asleep \subseteq Threads
  BY ThreadsAssumption DEF EventInv, Threads, EventTypeOK
<1>1. CASE SignalLock(s)
  <2>1. pc' \in [Threads -> Labels] /\ pc'[s] = "set" /\ \A u \in Threads : u # s => pc'[u] = pc[u]
    BY <1>1, <1>0, GotoOne DEF SignalLock
  <2> QED BY <1>1, <2>1, <1>0, <1>t DEF SignalLock, Lock, EventInv, EventTypeOK, Sleepers, Drowsy, NoLostWakeup
<1>2. CASE SignalSet(s)
  <2>1. pc' \in [Threads -> Labels] /\ pc'[s] = "wake" /\ \A u \in Threads : u # s => pc'[u] = pc[u]
    BY <1>2, <1>0, GotoOne DEF SignalSet
  <2>2. mutex = s /\ \A w \in Waiters : pc[w] # "sleep"
    BY <1>2, <1>0, <1>t DEF SignalSet, EventTypeOK
  <2> QED BY <1>2, <2>1, <2>2, <1>0, <1>t DEF SignalSet, EventInv, EventTypeOK, Sleepers, Drowsy, NoLostWakeup
<1>3. CASE SignalWake(s)
  <2>1. /\ pc' = [t \in Threads |-> IF t \in asleep THEN "released" ELSE IF t = s THEN "out" ELSE pc[t]]
        /\ asleep' = {} /\ mutex' = NoThread /\ UNCHANGED <<manual, signaled, result>>
    BY <1>3 DEF SignalWake, Woken, Unlocked
  <2>2. mutex = s /\ \A t \in Threads : t # s => ~Inside(t)
    BY <1>3, <1>0, <1>t DEF SignalWake, EventTypeOK
  <2>3. \A t \in Threads : ~(Inside(t))' /\ pc'[t] # "sleep"
    BY <2>1, <2>2
  <2> QED BY <2>1, <2>3, <1>0, <1>t DEF EventInv, EventTypeOK, Sleepers, Drowsy, NoLostWakeup
<1>4. CASE SignalAuto(s)
  <2>1. PICK S \in SUBSET asleep :
          /\ asleep' = asleep \ S /\ UNCHANGED <<manual, mutex, result>> /\ signaled' = FALSE
          /\ pc' = [t \in Threads |-> IF t \in S THEN "released" ELSE pc[t]]
    <3>1. CASE asleep = {}
      BY <1>4, <3>1, <1>t DEF SignalAuto, EventTypeOK
    <3>2. CASE asleep # {}
      <4>1. PICK w \in asleep : Release({w})
        BY <1>4, <3>2 DEF SignalAuto
      <4> QED BY <1>4, <4>1 DEF SignalAuto, Release
    <3> QED BY <3>1, <3>2
  <2>2. \A t \in Threads : (Inside(t))' <=> Inside(t)
    BY <2>1, <1>t DEF Sleepers
  <2> QED BY <2>1, <2>2, <1>0, <1>t DEF EventInv, EventTypeOK, Sleepers, Drowsy, NoLostWakeup
<1> QED BY <1>1, <1>2, <1>3, <1>4 DEF Signal

\* Every step keeps the invariant.
LEMMA EventNextInv == EventInv /\ [EventNext]_eventVars => EventInv'
<1> SUFFICES ASSUME EventInv, [EventNext]_eventVars PROVE EventInv'
  OBVIOUS
<1>1. CASE \E w \in Waiters : Wait(w)
  BY <1>1, WaitStep
<1>2. CASE \E s \in Signalers : Signal(s)
  BY <1>2, SignalStep
<1>3. CASE Reset
  BY <1>3 DEF Reset, EventInv, EventTypeOK, Inside, Sleepers, Drowsy, NoLostWakeup
<1>4. CASE UNCHANGED eventVars
  BY <1>4 DEF eventVars, EventInv, EventTypeOK, Inside, Sleepers, Drowsy, NoLostWakeup
<1> QED BY <1>1, <1>2, <1>3, <1>4 DEF EventNext

\* The strengthened invariant.
THEOREM EventInvHolds == EventSpec => []EventInv
BY EventInitInv, EventNextInv, PTL DEF EventSpec

\* The event's state is well typed, and its mutex is held by just the thread
\* that is inside Wait() or Signal().
THEOREM EventTypeCorrect == EventSpec => []EventTypeOK
<1>1. EventInv => EventTypeOK
  BY DEF EventInv
<1> QED BY <1>1, EventInvHolds, PTL

\* No wake-up is lost: whoever sets the flag has woken everybody who slept.
THEOREM NoLostWakeupHolds == EventSpec => []NoLostWakeup
<1>1. EventInv => NoLostWakeup
  BY DEF EventInv
<1> QED BY <1>1, EventInvHolds, PTL
=============================================================================
