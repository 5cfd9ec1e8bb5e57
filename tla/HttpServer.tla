----------------------------- MODULE HttpServer -----------------------------
(***************************************************************************)
(* THttpServer with one thread per connection (m_bMultiThreaded).          *)
(*                                                                         *)
(* The server thread waits for clients, accepts them into                  *)
(* m_lstSessionThread, where each has a session thread, and erases the     *)
(* elements whose thread has ended; it restarts the listening socket after *)
(* an error.  Only the server thread touches the list.  StartServer() and  *)
(* Stop() are called by the user.                                          *)
(*                                                                         *)
(* The listening socket keeps its eAcceptEvent set until an accept() says  *)
(* that there is no client left.                                           *)
(***************************************************************************)
EXTENDS Integers, SequencesExt

CONSTANTS
  Conns,          \* connections of clients
  MaxConnections, \* m_uMaxConnections
  MaxQueue,       \* m_uMaxQueue: clients the kernel queues for accept()
  MaxStarts       \* BOUND: calls of StartServer()

ASSUME ConnsAssumption  == IsFiniteSet(Conns)
ASSUME LimitsAssumption == MaxConnections \in Nat \ {0} /\ MaxQueue \in Nat
ASSUME StartsAssumption == MaxStarts \in Nat

VARIABLES
  spc,    \* where the server thread is
  sock,   \* m_server: none, unbound, bound or listening
  ready,  \* eAcceptEvent is set in m_server
  queue,  \* clients connected and not accepted, in order
  came,   \* clients that have connected
  list,   \* m_lstSessionThread: the connections accepted, oldest first
  thread, \* the session thread of each: none, running or exited
  it,     \* the position in the list CleanupConnections is at, 1 elsewhere
  event,  \* the last call of m_fnOnServerEvent: <<event, error>>
  stop,   \* the server thread has been asked to stop
  starts  \* calls of StartServer() so far

sockVars == <<sock, ready, queue, came>>
sessVars == <<list, thread, it>>
userVars == <<stop, starts>>
vars     == <<spc, sock, ready, queue, came, list, thread, it, event, stop, starts>>

InSeq(c, s) == \E i \in DOMAIN s : s[i] = c
Running     == {c \in Conns : thread[c] = "running"}

Init ==
  /\ spc = "off"
  /\ sock = "none"
  /\ ready = FALSE
  /\ queue = <<>>
  /\ came = {}
  /\ list = <<>>
  /\ thread = [c \in Conns |-> "none"]
  /\ it = 1
  /\ event = <<"none", 0>>
  /\ stop = FALSE
  /\ starts = 0

-----------------------------------------------------------------------------
(* The user and the clients.                                               *)

\* Destroy() and Start().  A thread that still runs has not been asked to
\* stop: Destroy() waits a minute and cancels it wherever it is, and what it
\* has built stays.  A cancel that finds it inside an operation on the list
\* unwinds a destructor, which ends the process: such a behaviour just stops.
StartServer ==
  /\ starts < MaxStarts
  /\ starts' = starts + 1
  /\ stop' = FALSE
  /\ spc' = "init"
  /\ it' = 1
  /\ UNCHANGED <<sockVars, list, thread, event>>

Stop ==
  /\ spc # "off" /\ ~stop
  /\ stop' = TRUE
  /\ UNCHANGED <<spc, sockVars, sessVars, event, starts>>

Connect(c) ==
  /\ c \notin came
  /\ sock = "listening"
  /\ Len(queue) < MaxQueue
  /\ queue' = Append(queue, c)
  /\ came' = came \cup {c}
  /\ UNCHANGED <<spc, sock, ready, sessVars, event, userVars>>

\* CSessionThread::DoThread is over: the client has left, has been idle for
\* too long, or has failed, or the thread has been asked to stop.
SessionEnds(c) ==
  /\ thread[c] = "running"
  /\ thread' = [thread EXCEPT ![c] = "exited"]
  /\ UNCHANGED <<spc, sockVars, list, it, event, userVars>>

-----------------------------------------------------------------------------
(* ThreadStartServer, from InitThread and after an error.                  *)

\* A socket that has been bound before cannot be bound again.
CanBind == sock \in {"none", "unbound"}

ThreadStartServer(from, to) ==
  /\ spc = from
  /\ CanBind
  /\ sock' = "listening"
  /\ event' = <<"connect", 0>>
  /\ spc' = to
  /\ UNCHANGED <<ready, queue, came, sessVars, userVars>>

\* Create(), Bind() or Listen() fails.
BindFails(from, to) ==
  /\ spc = from
  /\ \/ sock' = (IF CanBind THEN "unbound" ELSE sock) /\ event' = <<"connect", -1>>
     \/ sock = "none" /\ sock' = "none" /\ event' = <<"connect", -1>>
     \/ CanBind /\ sock' = "bound" /\ event' = <<"connect", -2>>
  /\ spc' = to
  /\ UNCHANGED <<ready, queue, came, sessVars, userVars>>

InitOk      == ThreadStartServer("init", "loop")
InitFails   == BindFails("init", "failed")
RestartOk   == ThreadStartServer("restart", "cleanup")
RestartFails == BindFails("restart", "cleanup")

-----------------------------------------------------------------------------
(* The loop of DoThread.                                                   *)

BugStopIgnored == FALSE

StopRequested == stop

StopSeen ==
  /\ spc = "loop" /\ StopRequested
  /\ spc' = "stopping"
  /\ UNCHANGED <<sockVars, sessVars, event, userVars>>

BugNoClients == ready \/ sock \in {"unbound", "bound"}

\* A socket that is neither connected nor listening reports itself writable,
\* which WaitEvent takes for eAcceptEvent.
AcceptEvent == ready \/ queue # <<>> \/ sock \in {"unbound", "bound"}

WaitEvent ==
  /\ spc = "loop" /\ ~StopRequested
  /\ IF AcceptEvent
       THEN ready' = TRUE /\ spc' = "accept"
       ELSE ready' = ready /\ spc' = "cleanup"
  /\ UNCHANGED <<sock, queue, came, sessVars, event, userVars>>

\* epoll_wait fails: the socket is destroyed, with the clients in its queue,
\* and started again after three seconds.
WaitEventFails ==
  /\ spc = "loop" /\ ~StopRequested
  /\ sock # "none" /\ ~ready
  /\ sock' = "none"
  /\ queue' = <<>>
  /\ spc' = "restart"
  /\ UNCHANGED <<ready, came, sessVars, event, userVars>>

\* The factory has no port to give.
NoPort ==
  /\ spc = "accept"
  /\ spc' = "cleanup"
  /\ UNCHANGED <<sockVars, sessVars, event, userVars>>

AcceptError == <<"accept", -1>>

\* Accept fails, for want of clients (EAGAIN) or of a descriptor (EMFILE), or
\* because the socket does not listen; the new element is erased.  Only EAGAIN
\* resets the event.
AcceptFails ==
  /\ spc = "accept"
  /\ \/ ready' = TRUE
     \/ queue = <<>> /\ sock = "listening" /\ ready' = FALSE
  /\ event' = AcceptError
  /\ spc' = "cleanup"
  /\ UNCHANGED <<sock, queue, came, sessVars, userVars>>

BugAtLimit(size) == size > MaxConnections + 1

\* The new element counts.
TooMany(size) == size >= MaxConnections

Accepted ==
  /\ spc = "accept"
  /\ queue # <<>>
  /\ queue' = Tail(queue)
  /\ spc' = "cleanup"
  /\ UNCHANGED <<sock, ready, came, userVars>>

\* "Drop session if too many connections": the newest.
AcceptDropped ==
  /\ Accepted
  /\ TooMany(Len(list) + 1)
  /\ UNCHANGED <<sessVars, event>>

\* OnAuthenticate says no.
AcceptDenied ==
  /\ Accepted
  /\ ~TooMany(Len(list) + 1)
  /\ event' = AcceptError
  /\ UNCHANGED sessVars

\* The session is set up and its thread started, which may fail unnoticed.
AcceptServed ==
  /\ Accepted
  /\ ~TooMany(Len(list) + 1)
  /\ list' = Append(list, Head(queue))
  /\ event' = <<"accept", 0>>
  /\ \E t \in {"running", "exited"} : thread' = [thread EXCEPT ![Head(queue)] = t]
  /\ UNCHANGED it

\* MUTANT: no element is seen to have ended.
BugNoneEnded(c) == FALSE

\* MUTANT: every element is erased.
BugAllEnded(c) == TRUE

\* isRunning() is false for the session thread of this element.
HasEnded(c) == thread[c] # "running"

\* CleanupConnections, element by element; meanwhile threads end.
Cleaning == spc = "cleanup" /\ it <= Len(list)

CleanupKeeps ==
  /\ Cleaning
  /\ ~HasEnded(list[it])
  /\ it' = it + 1
  /\ UNCHANGED <<spc, sockVars, list, thread, event, userVars>>

CleanupErases ==
  /\ Cleaning
  /\ HasEnded(list[it])
  /\ list' = RemoveAt(list, it)
  /\ UNCHANGED <<spc, sockVars, thread, it, event, userVars>>

CleanupOver ==
  /\ spc = "cleanup" /\ it > Len(list)
  /\ it' = 1
  /\ spc' = "loop"
  /\ UNCHANGED <<sockVars, list, thread, event, userVars>>

-----------------------------------------------------------------------------
(* EndThread.                                                              *)

EndThread ==
  /\ spc = "stopping"
  /\ sock' = "none"
  /\ ready' = FALSE
  /\ queue' = <<>>
  /\ spc' = "clear"
  /\ UNCHANGED <<came, sessVars, event, userVars>>

\* m_lstSessionThread.clear() destroys the elements in order.  Each destructor
\* asks its thread to stop and waits; past the time limits it cancels it.
ClearSession ==
  /\ spc = "clear"
  /\ list # <<>>
  /\ thread' = [thread EXCEPT ![Head(list)] = "exited"]
  /\ list' = Tail(list)
  /\ UNCHANGED <<spc, sockVars, it, event, userVars>>

Cleared == list = <<>>

Disconnected ==
  /\ spc = "clear"
  /\ Cleared
  /\ event' = <<"disconnect", 0>>
  /\ spc' = "done"
  /\ UNCHANGED <<sockVars, sessVars, userVars>>

-----------------------------------------------------------------------------
AcceptOne == AcceptDropped \/ AcceptDenied \/ AcceptServed

Server ==
  \/ InitOk \/ InitFails \/ RestartOk \/ RestartFails
  \/ StopSeen \/ WaitEvent \/ WaitEventFails
  \/ NoPort \/ AcceptFails \/ AcceptOne
  \/ CleanupKeeps \/ CleanupErases \/ CleanupOver
  \/ EndThread \/ ClearSession \/ Disconnected

Next ==
  \/ StartServer \/ Stop
  \/ \E c \in Conns : Connect(c) \/ SessionEnds(c)
  \/ Server

Spec == Init /\ [][Next]_vars

\* The server thread never waits without a time limit.  Neither the port
\* factory nor accept() fails for ever, and a bind that is tried again and
\* again succeeds.
FairSpec ==
  /\ Spec
  /\ WF_vars(Server)
  /\ SF_vars(AcceptOne)
  /\ SF_vars(RestartOk)

-----------------------------------------------------------------------------
(* Properties                                                              *)

\* Types.  The sequences hold clients that have come.
TypeOK ==
  /\ spc \in {"off", "init", "failed", "loop", "accept", "restart", "cleanup",
              "stopping", "clear", "done"}
  /\ sock \in {"none", "unbound", "bound", "listening"}
  /\ ready \in BOOLEAN
  /\ came \subseteq Conns
  /\ queue \in Seq(came) /\ list \in Seq(came)
  /\ thread \in [Conns -> {"none", "running", "exited"}]
  /\ it \in 1 .. Len(list) + 1
  /\ event \in {"none", "connect", "accept", "disconnect"} \X {-2, -1, 0}
  /\ stop \in BOOLEAN
  /\ starts \in 0 .. MaxStarts

\* No session thread runs without its list element, which owns its port and
\* its session: neither the cleanup nor a restart frees what a thread uses.
ThreadsHaveSessions == \A c \in Running : InSeq(c, list)

\* After the disconnect event nothing of the server is left: no session
\* thread, no session, no socket.
NothingLeft ==
  spc = "done" => Running = {} /\ list = <<>> /\ sock = "none" /\ queue = <<>>

\* Sessions live exactly as long as they are needed: no thread runs without
\* its session, and nothing is left when the server has ended.
NothingOutlives == ThreadsHaveSessions /\ NothingLeft

\* Every client that waits is accepted or turned away, as long as there is a
\* server thread, and whatever goes wrong with the socket.
ClientsAnswered ==
  \A c \in Conns : InSeq(c, queue) ~> (~InSeq(c, queue) \/ spc = "failed")

\* The session of a thread that has ended is freed, as long as there is a
\* server thread.
SessionsReclaimed ==
  \A c \in Conns :
    (InSeq(c, list) /\ thread[c] = "exited") ~> (~InSeq(c, list) \/ spc = "failed")

\* A stop request ends the server thread and its sessions, unless the server
\* is started again.
StopEnds == stop ~> (spc \in {"done", "failed"} \/ ~stop)

\* The server admits clients as promised.
stageOf == [c \in Conns |->
  IF c \notin came THEN "out"
  ELSE IF InSeq(c, queue) THEN "waiting"
  ELSE IF c \in Running THEN "served"
  ELSE "over"]

Promise == INSTANCE Admission
             WITH Clients <- Conns, Limit <- MaxConnections - 1, stage <- stageOf

KeepsPromise == Promise!Spec
=============================================================================
