--------------------------- MODULE SingleSession ---------------------------
(***************************************************************************)
(* THttpServer with one session thread for all connections                 *)
(* (m_bMultiThreaded = 0).                                                 *)
(*                                                                         *)
(* The server thread appends to m_lstSessionInfo under m_lockSessionInfo;  *)
(* the session thread walks the list under no lock and erases under        *)
(* m_lockSession.  So the two exclude each other nowhere, and each step on *)
(* the list is an action of its own.  An access through a null port or to  *)
(* an erased element is a fault, at which the model stops.                 *)
(***************************************************************************)
EXTENDS Integers, SequencesExt

CONSTANTS
  MaxConnections, \* m_uMaxConnections
  MaxClients,     \* BOUND: clients that connect
  MaxElements     \* BOUND: list elements created, one per call of accept()

ASSUME SingleLimitsAssumption ==
  MaxConnections \in Nat \ {0} /\ MaxClients \in Nat /\ MaxElements \in Nat

Elements == 1 .. MaxElements

VARIABLES
  waiting, \* clients in the socket's queue
  came,    \* clients that have connected
  ready,   \* eAcceptEvent is set in m_server
  spc,     \* where the server thread is
  stop,    \* it has been asked to stop
  made,    \* elements created so far; the last one is the server's `it`
  list,    \* m_lstSessionInfo
  port,    \* the port of an element: null, idle (no socket), live or dead
  init,    \* elements whose session is initialised
  served,  \* elements whose port has been read at least once
  wpc,     \* where the session thread is
  wstop,   \* the session thread has been asked to stop
  it,      \* its iterator, 0 for end()
  left,    \* uSize
  fault    \* none, null or freed

socketVars == <<waiting, came, ready>>
serverVars == <<spc, stop, made>>
elemVars   == <<list, port, init, served>>
workVars   == <<wpc, wstop, it, left>>
singleVars == <<waiting, came, ready, spc, stop, made, list, port, init, served,
                wpc, wstop, it, left, fault>>

InList(e) == Contains(list, e)

\* The place of an element that is in the list: it is there once.
At(e) == CHOOSE i \in 1 .. Len(list) : list[i] = e

\* it++
After(e) == IF At(e) < Len(list) THEN list[At(e) + 1] ELSE 0

SingleInit ==
  /\ waiting = 0 /\ came = 0 /\ ready = FALSE
  /\ spc = "loop" /\ stop = FALSE /\ made = 0
  /\ list = <<>>
  /\ port = [e \in Elements |-> "null"]
  /\ init = {} /\ served = {}
  /\ wpc = "off" /\ wstop = FALSE /\ it = 0 /\ left = 0
  /\ fault = "none"

Connect ==
  /\ came < MaxClients
  /\ spc \notin {"ended", "crashed"}
  /\ came' = came + 1
  /\ waiting' = waiting + 1
  /\ UNCHANGED <<ready, serverVars, elemVars, workVars, fault>>

Stop ==
  /\ ~stop /\ spc # "crashed"
  /\ stop' = TRUE
  /\ UNCHANGED <<socketVars, spc, made, elemVars, workVars, fault>>

\* Undefined behaviour, taken as the end of the process.
Crash(f) ==
  /\ fault' = f
  /\ spc' = "crashed" /\ wpc' = "crashed"
  /\ UNCHANGED <<socketVars, stop, made, elemVars, wstop, it, left>>

-----------------------------------------------------------------------------
(* SingleAccept.                                                           *)

BugStopUnseen == FALSE

StopSeen == stop

\* WaitEvent: a client waits, or accept() has not said yet that none does.
AcceptEvent == spc = "loop" /\ ~StopSeen /\ (waiting > 0 \/ ready)

\* There is no port to be had, or m_lockSessionInfo is not got.
NoElement ==
  /\ AcceptEvent
  /\ ready' = TRUE
  /\ UNCHANGED <<waiting, came, serverVars, elemVars, workVars, fault>>

\* resize(): the element of a port that is still null.
NewElement ==
  /\ AcceptEvent
  /\ made < MaxElements
  /\ ready' = TRUE
  /\ made' = made + 1
  /\ list' = Append(list, made')
  /\ spc' = "setport"
  /\ UNCHANGED <<waiting, came, stop, port, init, served, workVars, fault>>

SetPort ==
  /\ spc = "setport"
  /\ port' = [port EXCEPT ![made] = "idle"]
  /\ spc' = "accept"
  /\ UNCHANGED <<socketVars, stop, made, list, init, served, workVars, fault>>

Accept ==
  /\ spc = "accept" /\ waiting > 0
  /\ waiting' = waiting - 1
  /\ port' = [port EXCEPT ![made] = "live"]
  /\ spc' = "check"
  /\ UNCHANGED <<came, ready, stop, made, list, init, served, workVars, fault>>

\* MUTANT: the element at the head of the list is erased.
BugErase(e) == list' = IF list = <<>> THEN <<>> ELSE Tail(list)

Erase(e) == list' = RemoveAt(list, At(e))

\* The element is erased, and SingleAccept returns.  Only EAGAIN, for want of
\* clients, resets the event: a want of descriptors does not.
AcceptFails ==
  /\ spc = "accept"
  /\ ready' = TRUE \/ (waiting = 0 /\ ready' = FALSE)
  /\ Erase(made)
  /\ spc' = "loop"
  /\ UNCHANGED <<waiting, came, stop, made, port, init, served, workVars, fault>>

BugAtLimit(size) == size > MaxConnections

TooMany(size) == size >= MaxConnections

\* Over the limit, or OnAuthenticate says no.
Refuse ==
  /\ spc = "check" /\ InList(made)
  /\ Erase(made)
  /\ spc' = "start"
  /\ UNCHANGED <<socketVars, stop, made, port, init, served, workVars, fault>>

InformSession ==
  /\ spc = "check" /\ InList(made)
  /\ ~TooMany(Len(list))
  /\ init' = init \cup {made}
  /\ spc' = "start"
  /\ UNCHANGED <<socketVars, stop, made, list, port, served, workVars, fault>>

\* The session thread has erased the element that the server is at.
ServerFault ==
  /\ spc = "check" /\ ~InList(made)
  /\ Crash("freed")

StartWorker ==
  /\ spc = "start"
  /\ IF wpc = "off" THEN wpc' = "top" /\ wstop' = FALSE ELSE UNCHANGED <<wpc, wstop>>
  /\ spc' = "loop"
  /\ UNCHANGED <<socketVars, stop, made, elemVars, it, left, fault>>

-----------------------------------------------------------------------------
(* EndThread.                                                              *)

StopWorker ==
  /\ spc = "loop" /\ StopSeen
  /\ wstop' = TRUE
  /\ spc' = "join"
  /\ UNCHANGED <<socketVars, stop, made, elemVars, wpc, it, left, fault>>

\* Stop() has returned: the thread has ended, or is busy and the time is up.
\* The result is not looked at.
Joined == wpc \in {"off", "busy"}

EndThread ==
  /\ spc = "join"
  /\ Joined
  /\ list' = <<>>
  /\ waiting' = 0 /\ ready' = FALSE
  /\ spc' = "ended"
  /\ UNCHANGED <<came, stop, made, port, init, served, workVars, fault>>

-----------------------------------------------------------------------------
(* CSingleSessionThread::DoThread.                                         *)

WorkerStops ==
  /\ wpc = "top" /\ wstop
  /\ wpc' = "off"
  /\ UNCHANGED <<socketVars, serverVars, elemVars, wstop, it, left, fault>>

BeginPass ==
  /\ wpc = "top" /\ ~wstop
  /\ list # <<>>
  /\ left' = Len(list)
  /\ it' = Head(list)
  /\ wpc' = "test"
  /\ UNCHANGED <<socketVars, serverVars, elemVars, wstop, fault>>

\* uSize-- && m_pSessionInfo->end() != it
TestMore ==
  /\ wpc = "test"
  /\ IF left # 0 /\ it # 0
       THEN left' = left - 1 /\ wpc' = "use"
       ELSE left' = 0 /\ wpc' = "top"
  /\ UNCHANGED <<socketVars, serverVars, elemVars, wstop, it, fault>>

WorkerFault ==
  /\ wpc \in {"use", "busy"}
  /\ \/ ~InList(it) /\ Crash("freed")
     \/ InList(it) /\ port[it] = "null" /\ Crash("null")

\* GetConnectState() is 0: nothing is done, and `it` stays where it is.
SkipElement ==
  /\ wpc = "use" /\ InList(it)
  /\ port[it] \in {"idle", "dead"}
  /\ wpc' = "test"
  /\ UNCHANGED <<socketVars, serverVars, elemVars, wstop, it, left, fault>>

\* IsValid() is false for a session that is not initialised, since its
\* m_uKeepAlive is 0, and for one whose time is over.
EraseInvalid ==
  /\ wpc = "use" /\ InList(it) /\ port[it] = "live"
  /\ Erase(it)
  /\ it' = After(it)
  /\ wpc' = "test"
  /\ UNCHANGED <<socketVars, serverVars, port, init, served, wstop, left, fault>>

MayBeValid(e) == e \in init

\* The session lock is not got in time: DoThread returns, and is called again.
EraseNotLocked ==
  /\ wpc = "use" /\ InList(it) /\ port[it] = "live"
  /\ wpc' = "top" /\ left' = 0
  /\ UNCHANGED <<socketVars, serverVars, elemVars, wstop, it, fault>>

BeginUpdate ==
  /\ wpc = "use" /\ InList(it) /\ port[it] = "live" /\ MayBeValid(it)
  /\ wpc' = "busy"
  /\ UNCHANGED <<socketVars, serverVars, elemVars, wstop, it, left, fault>>

\* Update() has read what there was, or failed, and the port is destroyed.
EndUpdate ==
  /\ wpc = "busy" /\ InList(it)
  /\ served' = served \cup {it}
  /\ \E p \in {"live", "dead"} : port' = [port EXCEPT ![it] = p]
  /\ it' = After(it)
  /\ wpc' = "test"
  /\ UNCHANGED <<socketVars, serverVars, list, init, wstop, left, fault>>

-----------------------------------------------------------------------------
Server ==
  NoElement \/ NewElement \/ SetPort \/ Accept \/ AcceptFails \/ Refuse \/ InformSession
  \/ ServerFault \/ StartWorker \/ StopWorker \/ EndThread

Worker ==
  WorkerStops \/ BeginPass \/ TestMore \/ WorkerFault \/ SkipElement
  \/ EraseInvalid \/ EraseNotLocked \/ BeginUpdate \/ EndUpdate

SingleNext == Connect \/ Stop \/ Server \/ Worker

SingleSpec == SingleInit /\ [][SingleNext]_singleVars

\* Both threads run.  The session that the session thread is at need not
\* return.
SingleFairSpec == SingleSpec /\ WF_singleVars(Server) /\ WF_singleVars(wpc # "busy" /\ Worker)

-----------------------------------------------------------------------------
(* Properties                                                              *)

\* Types.  Only elements that were made are in the list, and only admitted
\* ones are read.
SingleTypeOK ==
  /\ waiting \in 0 .. MaxClients /\ came \in waiting .. MaxClients
  /\ ready \in BOOLEAN /\ stop \in BOOLEAN /\ wstop \in BOOLEAN
  /\ spc \in {"loop", "setport", "accept", "check", "start", "join", "ended",
              "crashed"}
  /\ made \in 0 .. MaxElements
  /\ list \in Seq(1 .. made)
  /\ port \in [Elements -> {"null", "idle", "live", "dead"}]
  /\ init \subseteq Elements /\ served \subseteq init
  /\ wpc \in {"off", "top", "test", "use", "busy", "crashed"}
  /\ it \in 0 .. made
  /\ left \in 0 .. Len(list) + MaxElements
  /\ fault \in {"none", "null", "freed"}

\* However the two threads interleave, fewer sessions than the limit are
\* admitted at a time.
LimitKept ==
  Cardinality({e \in init : InList(e)}) < MaxConnections

\* A stop request ends the server thread, even if the session thread is held
\* by a session that does not return.
StopEnds == stop ~> (spc = "ended" \/ fault # "none")

\* The two threads share the list without a common lock, "Must lock to make
\* changes" (http_server.h:545) notwithstanding; but the element that a thread
\* finds half-built or freed is always one that was not admitted yet.  The
\* session of an admitted client is never taken from under the session thread,
\* except by the end of the server.
AdmittedUntouched ==
  [][fault' # fault => \/ spc = "check" /\ ~InList(made)
                       \/ spc = "ended"
                       \/ it \notin init]_singleVars
=============================================================================
