-------------------------- MODULE HttpServer_proofs --------------------------
(***************************************************************************)
(* The sessions of HttpServer live as long as they are needed, for any     *)
(* connections, limits and number of starts.                               *)
(***************************************************************************)
EXTENDS HttpServer, SequenceTheorems, FiniteSetTheorems, TLAPS

Types ==
  /\ queue \in Seq(Conns) /\ list \in Seq(Conns)
  /\ thread \in [Conns -> {"none", "running", "exited"}]
  /\ it \in Nat \ {0}

(* Once EndThread has taken down the socket it stays down, and no client can *)
(* come.                                                                     *)
SocketDown == spc \in {"clear", "done"} => sock = "none" /\ queue = <<>>

ListEmpty  == spc = "done" => list = <<>>

IInv == Types /\ SocketDown /\ ListEmpty /\ ThreadsHaveSessions

\* Initially there is nothing.
LEMMA InitInv == Init => IInv
BY DEF Init, IInv, Types, SocketDown, ListEmpty, ThreadsHaveSessions, Running

\* What is in a sequence, stays in it when an element is appended.
LEMMA AppendHas ==
  ASSUME NEW S, NEW s \in Seq(S), NEW c \in S
  PROVE  /\ Append(s, c) \in Seq(S)
         /\ InSeq(c, Append(s, c))
         /\ \A d : InSeq(d, s) => InSeq(d, Append(s, c))
<1>1. /\ Append(s, c) \in Seq(S) /\ Len(Append(s, c)) = Len(s) + 1
      /\ Append(s, c)[Len(s) + 1] = c
      /\ \A i \in 1 .. Len(s) : Append(s, c)[i] = s[i]
  OBVIOUS
<1>2. DOMAIN Append(s, c) = 1 .. Len(s) + 1 /\ DOMAIN s = 1 .. Len(s) /\ Len(s) \in Nat
  BY <1>1
<1> QED BY <1>1, <1>2 DEF InSeq

\* What is not first in a sequence, is in its tail.
LEMMA TailHas ==
  ASSUME NEW S, NEW s \in Seq(S), s # <<>>
  PROVE  /\ Head(s) \in S /\ Tail(s) \in Seq(S)
         /\ \A d : InSeq(d, s) /\ d # Head(s) => InSeq(d, Tail(s))
<1>1. /\ Head(s) \in S /\ Head(s) = s[1] /\ Tail(s) \in Seq(S)
      /\ Len(s) \in Nat \ {0} /\ Len(Tail(s)) = Len(s) - 1
      /\ \A i \in 1 .. Len(s) - 1 : Tail(s)[i] = s[i + 1]
  OBVIOUS
<1>2. DOMAIN Tail(s) = 1 .. Len(s) - 1 /\ DOMAIN s = 1 .. Len(s)
  BY <1>1
<1>3. ASSUME NEW d, InSeq(d, s), d # Head(s) PROVE InSeq(d, Tail(s))
  <2>1. PICK i \in 1 .. Len(s) : s[i] = d
    BY <1>2, <1>3 DEF InSeq
  <2>2. i - 1 \in 1 .. Len(s) - 1 /\ Tail(s)[i - 1] = d
    BY <1>1, <1>3, <2>1
  <2> QED BY <1>2, <2>2 DEF InSeq
<1> QED BY <1>1, <1>3

\* What is not at a position, is in the sequence without that.
LEMMA RemoveHas ==
  ASSUME NEW S, NEW s \in Seq(S), NEW n \in 1 .. Len(s)
  PROVE  /\ RemoveAt(s, n) \in Seq(S)
         /\ \A d : InSeq(d, s) /\ d # s[n] => InSeq(d, RemoveAt(s, n))
<1> DEFINE a == SubSeq(s, 1, n - 1)
           b == SubSeq(s, n + 1, Len(s))
<1>1. /\ a \in Seq(S) /\ Len(a) = n - 1
      /\ \A i \in 1 .. n - 1 : a[i] = s[i]
  OBVIOUS
<1>2. /\ b \in Seq(S) /\ Len(b) = Len(s) - n
      /\ \A i \in 1 .. Len(s) - n : b[i] = s[n + i]
  OBVIOUS
<1>3. RemoveAt(s, n) = a \o b
  BY DEF RemoveAt
<1> HIDE DEF a, b
<1>n. Len(s) \in Nat /\ n \in Nat \ {0} /\ n <= Len(s)
  OBVIOUS
<1>c. /\ a \o b \in Seq(S) /\ Len(a \o b) = Len(a) + Len(b)
      /\ \A i \in 1 .. Len(a) + Len(b) :
           (a \o b)[i] = IF i <= Len(a) THEN a[i] ELSE b[i - Len(a)]
  BY <1>1, <1>2, ConcatProperties
<1>l. Len(a) + Len(b) = Len(s) - 1
  BY <1>1, <1>2, <1>n
<1>4. /\ a \o b \in Seq(S) /\ Len(a \o b) = Len(s) - 1
      /\ \A i \in 1 .. n - 1 : (a \o b)[i] = s[i]
      /\ \A i \in n .. Len(s) - 1 : (a \o b)[i] = s[i + 1]
  <2>1. ASSUME NEW i \in 1 .. n - 1 PROVE (a \o b)[i] = s[i]
    <3>1. i \in 1 .. Len(s) - 1 /\ i <= Len(a)
      BY <1>1, <1>n
    <3> QED BY <1>c, <1>l, <1>1, <3>1
  <2>2. ASSUME NEW i \in n .. Len(s) - 1 PROVE (a \o b)[i] = s[i + 1]
    <3>1. i \in 1 .. Len(s) - 1 /\ ~(i <= Len(a)) /\ i - Len(a) = i - (n - 1)
      BY <1>1, <1>n
    <3>2. i - (n - 1) \in 1 .. Len(s) - n /\ n + (i - (n - 1)) = i + 1
      BY <1>n
    <3>3. (a \o b)[i] = b[i - (n - 1)]
      BY <1>c, <1>l, <3>1
    <3>4. b[i - (n - 1)] = s[n + (i - (n - 1))]
      BY <1>2, <3>2
    <3> QED BY <3>2, <3>3, <3>4
  <2> QED BY <1>c, <1>l, <2>1, <2>2
<1>5. DOMAIN (a \o b) = 1 .. Len(s) - 1 /\ DOMAIN s = 1 .. Len(s)
  BY <1>4
<1>6. ASSUME NEW d, InSeq(d, s), d # s[n] PROVE InSeq(d, a \o b)
  <2>1. PICK i \in 1 .. Len(s) : s[i] = d
    BY <1>5, <1>6 DEF InSeq
  <2>2. CASE i < n
    <3>1. i \in 1 .. n - 1 /\ i \in 1 .. Len(s) - 1
      BY <1>n, <2>2
    <3> QED BY <1>4, <1>5, <2>1, <3>1 DEF InSeq
  <2>3. CASE i > n
    <3>0. i - 1 \in n .. Len(s) - 1 /\ (i - 1) + 1 = i
      BY <1>n, <2>3
    <3>1. i - 1 \in n .. Len(s) - 1 /\ (a \o b)[i - 1] = d
      BY <1>4, <2>1, <3>0
    <3>2. i - 1 \in 1 .. Len(s) - 1
      BY <1>n, <2>3
    <3>3. i - 1 \in DOMAIN (a \o b)
      BY <1>5, <3>2
    <3> QED BY <3>1, <3>3 DEF InSeq
  <2> QED BY <1>6, <2>1, <2>2, <2>3
<1> QED BY <1>3, <1>4, <1>6

-----------------------------------------------------------------------------
\* The steps of the user and the clients keep the invariant.
LEMMA UserInv ==
  ASSUME IInv, \/ StartServer \/ Stop
               \/ \E c \in Conns : Connect(c) \/ SessionEnds(c)
  PROVE  IInv'
<1> USE DEF IInv, Types, SocketDown, ListEmpty, ThreadsHaveSessions, Running, sockVars,
            sessVars, userVars
<1>1. CASE StartServer
  BY <1>1 DEF StartServer
<1>2. CASE Stop
  BY <1>2 DEF Stop
<1>3. ASSUME NEW c \in Conns, Connect(c) PROVE IInv'
  <2>1. queue' \in Seq(Conns)
    BY <1>3, AppendHas DEF Connect
  <2> QED BY <1>3, <2>1 DEF Connect
<1>4. ASSUME NEW c \in Conns, SessionEnds(c) PROVE IInv'
  BY <1>4 DEF SessionEnds
<1> QED BY <1>1, <1>2, <1>3, <1>4

\* The steps that leave the sessions alone keep the invariant.
LEMMA SocketInv ==
  ASSUME IInv,
         \/ InitOk \/ InitFails \/ RestartOk \/ RestartFails
         \/ StopSeen \/ WaitEvent \/ WaitEventFails
         \/ NoPort \/ AcceptFails \/ AcceptDropped \/ AcceptDenied
         \/ CleanupKeeps \/ CleanupOver \/ EndThread \/ Disconnected
  PROVE  IInv'
<1> USE DEF IInv, Types, SocketDown, ListEmpty, ThreadsHaveSessions, Running, sockVars,
            sessVars, userVars
<1>1. CASE InitOk \/ RestartOk
  BY <1>1 DEF InitOk, RestartOk, ThreadStartServer
<1>2. CASE InitFails \/ RestartFails
  BY <1>2 DEF InitFails, RestartFails, BindFails
<1>3. CASE StopSeen
  BY <1>3 DEF StopSeen
<1>4. CASE WaitEvent
  BY <1>4 DEF WaitEvent
<1>5. CASE WaitEventFails
  BY <1>5 DEF WaitEventFails
<1>6. CASE NoPort \/ AcceptFails
  BY <1>6 DEF NoPort, AcceptFails
<1>7. CASE AcceptDropped \/ AcceptDenied
  <2>1. queue' \in Seq(Conns) /\ spc' = "cleanup" /\ UNCHANGED <<list, thread, it>>
    BY <1>7, TailHas DEF AcceptDropped, AcceptDenied, Accepted
  <2> QED BY <2>1
<1>8. CASE CleanupKeeps
  BY <1>8 DEF CleanupKeeps, Cleaning
<1>9. CASE CleanupOver
  BY <1>9 DEF CleanupOver
<1>10. CASE EndThread
  BY <1>10 DEF EndThread
<1>11. CASE Disconnected
  BY <1>11 DEF Disconnected, Cleared
<1> QED BY <1>1, <1>2, <1>3, <1>4, <1>5, <1>6, <1>7, <1>8, <1>9, <1>10, <1>11

\* A new session thread comes with its element.
LEMMA ServedInv == ASSUME IInv, AcceptServed PROVE IInv'
<1>1. /\ queue \in Seq(Conns) /\ queue # <<>> /\ list \in Seq(Conns)
      /\ spc' = "cleanup" /\ queue' = Tail(queue)
      /\ list' = Append(list, Head(queue))
      /\ UNCHANGED it
  BY DEF AcceptServed, Accepted, IInv, Types
<1>2. Head(queue) \in Conns /\ queue' \in Seq(Conns)
  BY <1>1, TailHas
<1>3. /\ list' \in Seq(Conns) /\ InSeq(Head(queue), list')
      /\ \A d : InSeq(d, list) => InSeq(d, list')
  BY <1>1, <1>2, AppendHas
<1>4. PICK t \in {"running", "exited"} : thread' = [thread EXCEPT ![Head(queue)] = t]
  BY DEF AcceptServed
<1>5. Types'
  BY <1>1, <1>2, <1>3, <1>4 DEF IInv, Types
<1>6. ThreadsHaveSessions'
  BY <1>2, <1>3, <1>4 DEF IInv, Types, ThreadsHaveSessions, Running
<1> QED BY <1>1, <1>5, <1>6 DEF IInv, SocketDown, ListEmpty

\* The cleanup erases no element whose thread runs.
LEMMA ErasesInv == ASSUME IInv, CleanupErases PROVE IInv'
<1>1. /\ list \in Seq(Conns) /\ it \in 1 .. Len(list) /\ thread[list[it]] # "running"
      /\ list' = RemoveAt(list, it) /\ spc = "cleanup"
      /\ UNCHANGED <<spc, sock, queue, thread, it>>
  BY DEF CleanupErases, Cleaning, HasEnded, IInv, Types, sockVars
<1>2. /\ list' \in Seq(Conns)
      /\ \A d : InSeq(d, list) /\ d # list[it] => InSeq(d, list')
  BY <1>1, RemoveHas
<1>3. Types'
  BY <1>1, <1>2 DEF IInv, Types
<1>4. ThreadsHaveSessions'
  BY <1>1, <1>2 DEF IInv, ThreadsHaveSessions, Running
<1> QED BY <1>1, <1>3, <1>4 DEF IInv, SocketDown, ListEmpty

\* An element goes after its thread has ended.
LEMMA ClearInv == ASSUME IInv, ClearSession PROVE IInv'
<1>1. /\ list \in Seq(Conns) /\ list # <<>> /\ spc = "clear" /\ list' = Tail(list)
      /\ thread' = [thread EXCEPT ![Head(list)] = "exited"]
      /\ UNCHANGED <<spc, sock, queue, it>>
  BY DEF ClearSession, IInv, Types, sockVars
<1>2. /\ Head(list) \in Conns /\ list' \in Seq(Conns)
      /\ \A d : InSeq(d, list) /\ d # Head(list) => InSeq(d, list')
  BY <1>1, TailHas
<1>3. Types'
  BY <1>1, <1>2 DEF IInv, Types
<1>4. ThreadsHaveSessions'
  BY <1>1, <1>2 DEF IInv, Types, ThreadsHaveSessions, Running
<1> QED BY <1>1, <1>3, <1>4 DEF IInv, SocketDown, ListEmpty

-----------------------------------------------------------------------------
\* The invariant is inductive.
THEOREM Invariant == Spec => []IInv
<1>1. IInv /\ [Next]_vars => IInv'
  <2> SUFFICES ASSUME IInv, [Next]_vars PROVE IInv'
    OBVIOUS
  <2>1. CASE Server
    BY <2>1, SocketInv, ServedInv, ErasesInv, ClearInv DEF Server, AcceptOne
  <2>2. CASE UNCHANGED vars
    BY <2>2 DEF vars, IInv, Types, SocketDown, ListEmpty, ThreadsHaveSessions, Running
  <2> QED BY <2>1, <2>2, UserInv DEF Next
<1> QED BY InitInv, <1>1, PTL DEF Spec

\* No session thread runs without its list element, and after the disconnect
\* event nothing of the server is left, also if the server was started again
\* while it was running.
THEOREM NothingOutlivesHolds == Spec => []NothingOutlives
<1>1. IInv => NothingOutlives
  <2> SUFFICES ASSUME IInv PROVE NothingOutlives
    OBVIOUS
  <2>1. ThreadsHaveSessions
    BY DEF IInv
  <2>2. NothingLeft
    BY DEF IInv, SocketDown, ListEmpty, ThreadsHaveSessions, NothingLeft, Running, InSeq
  <2> QED BY <2>1, <2>2 DEF NothingOutlives
<1> QED BY Invariant, <1>1, PTL

-----------------------------------------------------------------------------
(* That the server keeps its promise rests on where a client can be: one    *)
(* that waits is in the queue once and has no thread yet, and one that has  *)
(* a thread or an element has come.                                         *)
Came     == came \subseteq Conns /\ queue \in Seq(came) /\ list \in Seq(came)
Waiting  == IsInjective(queue) /\ \A c \in Conns : InSeq(c, queue) => thread[c] = "none"
Threaded == \A c \in Conns : thread[c] # "none" => c \in came
Small    == Len(list) < MaxConnections

PInv == Came /\ Waiting /\ Threaded /\ Small

\* A new element is last in a sequence, and new elements keep it distinct.
LEMMA AppendIs ==
  ASSUME NEW S, NEW s \in Seq(S), NEW c \in S
  PROVE  /\ \A d : InSeq(d, Append(s, c)) => InSeq(d, s) \/ d = c
         /\ IsInjective(s) /\ ~InSeq(c, s) => IsInjective(Append(s, c))
<1>1. /\ Len(Append(s, c)) = Len(s) + 1 /\ Append(s, c) \in Seq(S)
      /\ Append(s, c)[Len(s) + 1] = c
      /\ \A i \in 1 .. Len(s) : Append(s, c)[i] = s[i]
  OBVIOUS
<1>2. /\ DOMAIN Append(s, c) = 1 .. Len(s) + 1 /\ DOMAIN s = 1 .. Len(s)
      /\ Len(s) \in Nat
      /\ \A i \in 1 .. Len(s) + 1 : i \in 1 .. Len(s) \/ i = Len(s) + 1
  BY <1>1
<1>3. \A d : InSeq(d, Append(s, c)) => InSeq(d, s) \/ d = c
  BY <1>1, <1>2 DEF InSeq
<1>4. ASSUME IsInjective(s), ~InSeq(c, s) PROVE IsInjective(Append(s, c))
  <2> SUFFICES ASSUME NEW i \in 1 .. Len(s) + 1, NEW j \in 1 .. Len(s) + 1,
                      Append(s, c)[i] = Append(s, c)[j]
               PROVE  i = j
    BY <1>2 DEF IsInjective
  <2>1. \A k \in 1 .. Len(s) : s[k] # c
    BY <1>2, <1>4 DEF InSeq
  <2>2. \A k, l \in 1 .. Len(s) : s[k] = s[l] => k = l
    BY <1>2, <1>4 DEF IsInjective
  <2>3. CASE i \in 1 .. Len(s) /\ j \in 1 .. Len(s)
    BY <1>1, <2>2, <2>3
  <2>4. CASE i = Len(s) + 1 /\ j \in 1 .. Len(s)
    BY <1>1, <2>1, <2>4
  <2>5. CASE i \in 1 .. Len(s) /\ j = Len(s) + 1
    BY <1>1, <2>1, <2>5
  <2>6. CASE i = Len(s) + 1 /\ j = Len(s) + 1
    BY <2>6
  <2> QED BY <1>2, <2>3, <2>4, <2>5, <2>6
<1> QED BY <1>3, <1>4

\* The tail of a sequence has no other elements, and not the head once more if
\* they are distinct.
LEMMA TailIs ==
  ASSUME NEW S, NEW s \in Seq(S), s # <<>>
  PROVE  /\ InSeq(Head(s), s) /\ Len(Tail(s)) = Len(s) - 1
         /\ \A d : InSeq(d, Tail(s)) => InSeq(d, s)
         /\ IsInjective(s) => IsInjective(Tail(s)) /\ ~InSeq(Head(s), Tail(s))
<1>1. /\ Head(s) = s[1] /\ Tail(s) \in Seq(S)
      /\ Len(s) \in Nat \ {0} /\ Len(Tail(s)) = Len(s) - 1
      /\ \A i \in 1 .. Len(s) - 1 : Tail(s)[i] = s[i + 1]
  OBVIOUS
<1>2. DOMAIN Tail(s) = 1 .. Len(s) - 1 /\ DOMAIN s = 1 .. Len(s)
  BY <1>1
<1>3. \A i \in 1 .. Len(s) - 1 : i + 1 \in 1 .. Len(s) /\ i + 1 # 1
  BY <1>1
<1>4. \A d : InSeq(d, Tail(s)) => InSeq(d, s)
  BY <1>1, <1>2, <1>3 DEF InSeq
<1>5. InSeq(Head(s), s)
  BY <1>1, <1>2 DEF InSeq
<1>6. ASSUME IsInjective(s) PROVE IsInjective(Tail(s)) /\ ~InSeq(Head(s), Tail(s))
  <2>1. \A k, l \in 1 .. Len(s) : s[k] = s[l] => k = l
    BY <1>2, <1>6 DEF IsInjective
  <2>2. ASSUME NEW i \in 1 .. Len(s) - 1, NEW j \in 1 .. Len(s) - 1, Tail(s)[i] = Tail(s)[j]
        PROVE  i = j
    <3>1. i + 1 = j + 1
      BY <1>1, <1>3, <2>1, <2>2
    <3> QED BY <3>1
  <2>3. \A i \in 1 .. Len(s) - 1 : Tail(s)[i] # s[1]
    BY <1>1, <1>3, <2>1
  <2> QED BY <1>1, <1>2, <2>2, <2>3 DEF IsInjective, InSeq
<1> QED BY <1>1, <1>4, <1>5, <1>6

\* One element less.
LEMMA RemoveIs ==
  ASSUME NEW S, NEW s \in Seq(S), NEW n \in 1 .. Len(s)
  PROVE  Len(RemoveAt(s, n)) = Len(s) - 1
<1> DEFINE a == SubSeq(s, 1, n - 1)
           b == SubSeq(s, n + 1, Len(s))
<1>1. a \in Seq(S) /\ Len(a) = n - 1
  OBVIOUS
<1>2. b \in Seq(S) /\ Len(b) = Len(s) - n
  OBVIOUS
<1>3. RemoveAt(s, n) = a \o b
  BY DEF RemoveAt
<1>4. Len(s) \in Nat /\ n \in Nat /\ (n - 1) + (Len(s) - n) = Len(s) - 1
  OBVIOUS
<1> HIDE DEF a, b
<1>5. Len(a \o b) = Len(a) + Len(b)
  BY <1>1, <1>2, ConcatProperties
<1> QED BY <1>1, <1>2, <1>3, <1>4, <1>5

\* Initially no client has come.
LEMMA InitPInv == Init => PInv
BY LimitsAssumption DEF Init, PInv, Came, Waiting, Threaded, Small, InSeq, IsInjective

\* A client that comes is new to the queue.
LEMMA ConnectPInv == ASSUME IInv, PInv, NEW c \in Conns, Connect(c) PROVE PInv'
<1>1. /\ queue \in Seq(came) /\ list \in Seq(came) /\ came \subseteq Conns
      /\ c \notin came /\ came' = came \cup {c} /\ queue' = Append(queue, c)
      /\ UNCHANGED <<list, thread>>
  BY DEF Connect, PInv, Came, sessVars
<1>2. queue \in Seq(came') /\ list' \in Seq(came') /\ c \in came' /\ came' \subseteq Conns
  BY <1>1, SeqMonotonic
<1>3. ~InSeq(c, queue)
  BY <1>1 DEF InSeq
<1>4. /\ queue' \in Seq(came') /\ IsInjective(queue')
      /\ \A d : InSeq(d, queue') => InSeq(d, queue) \/ d = c
  BY <1>1, <1>2, <1>3, AppendHas, AppendIs DEF PInv, Waiting
<1>5. thread[c] = "none"
  BY <1>1 DEF PInv, Threaded, IInv, Types
<1> QED BY <1>1, <1>2, <1>4, <1>5 DEF PInv, Came, Waiting, Threaded, Small

\* Steps that leave clients, sessions and threads alone, or drop the queue.
LEMMA SamePInv ==
  ASSUME PInv, UNCHANGED <<came, list, thread>>, queue' = queue \/ queue' = <<>>
  PROVE  PInv'
<1>1. /\ queue' \in Seq(came) /\ IsInjective(queue')
      /\ \A c : InSeq(c, queue') => InSeq(c, queue)
  <2>1. CASE queue' = queue
    BY <2>1 DEF PInv, Came, Waiting
  <2>2. CASE queue' = <<>>
    BY <2>2 DEF InSeq, IsInjective
  <2> QED BY <2>1, <2>2
<1> QED BY <1>1 DEF PInv, Came, Waiting, Threaded, Small

\* The first client of the queue is taken out of it.
LEMMA AcceptedPInv ==
  ASSUME IInv, PInv, Accepted
  PROVE  /\ Head(queue) \in Conns /\ Head(queue) \in came /\ thread[Head(queue)] = "none"
         /\ InSeq(Head(queue), queue) /\ ~InSeq(Head(queue), queue')
         /\ queue' \in Seq(came) /\ IsInjective(queue') /\ came' = came
         /\ \A d : InSeq(d, queue') => InSeq(d, queue)
         /\ \A d : InSeq(d, queue) /\ d # Head(queue) => InSeq(d, queue')
<1>1. queue \in Seq(came) /\ queue # <<>> /\ queue' = Tail(queue) /\ came' = came
  BY DEF Accepted, PInv, Came
<1> QED BY <1>1, TailHas, TailIs DEF PInv, Came, Waiting

LEMMA AcceptPInv == ASSUME IInv, PInv, AcceptOne PROVE PInv'
<1>1. CASE AcceptDropped \/ AcceptDenied
  <2>1. Accepted /\ UNCHANGED <<list, thread>>
    BY <1>1 DEF AcceptDropped, AcceptDenied, sessVars
  <2> QED BY <2>1, AcceptedPInv DEF PInv, Came, Waiting, Threaded, Small
<1>2. CASE AcceptServed
  <2>1. PICK t \in {"running", "exited"} : thread' = [thread EXCEPT ![Head(queue)] = t]
    BY <1>2 DEF AcceptServed
  <2>2. Accepted /\ list' = Append(list, Head(queue)) /\ ~(Len(list) + 1 >= MaxConnections)
    BY <1>2 DEF AcceptServed, TooMany
  <2>3. list \in Seq(came) /\ thread \in [Conns -> {"none", "running", "exited"}]
    BY DEF PInv, Came, IInv, Types
  <2>4. list' \in Seq(came) /\ Len(list') = Len(list) + 1 /\ Len(list) \in Nat
    BY <2>2, <2>3, AcceptedPInv, AppendProperties, LenProperties
  <2>5. Came'
    BY <2>2, <2>4, AcceptedPInv DEF PInv, Came
  <2>6. Waiting'
    BY <2>1, <2>2, <2>3, AcceptedPInv DEF PInv, Waiting
  <2>7. Threaded'
    BY <2>1, <2>2, <2>3, AcceptedPInv DEF PInv, Threaded
  <2>8. Small'
    BY <2>2, <2>4, LimitsAssumption DEF Small
  <2> QED BY <2>5, <2>6, <2>7, <2>8 DEF PInv
<1> QED BY <1>1, <1>2 DEF AcceptOne

\* A thread that ends, and an element that goes, wait for nothing.
LEMMA SessionPInv ==
  ASSUME IInv, PInv, (\E c \in Conns : SessionEnds(c)) \/ CleanupErases \/ ClearSession
  PROVE  PInv'
<1>1. CASE \E c \in Conns : SessionEnds(c)
  BY <1>1 DEF SessionEnds, PInv, Came, Waiting, Threaded, Small, IInv, Types, sockVars
<1>2. CASE CleanupErases
  <2>1. /\ list \in Seq(came) /\ it \in 1 .. Len(list) /\ list' = RemoveAt(list, it)
        /\ UNCHANGED <<came, queue, thread>>
    BY <1>2 DEF CleanupErases, Cleaning, IInv, Types, PInv, Came, sockVars
  <2>2. list' \in Seq(came) /\ Len(list') = Len(list) - 1 /\ Len(list) \in Nat
    BY <2>1, RemoveHas, RemoveIs, LenProperties
  <2>3. Small'
    BY <2>1, <2>2, LimitsAssumption DEF PInv, Small
  <2> QED BY <2>1, <2>2, <2>3 DEF PInv, Came, Waiting, Threaded
<1>3. CASE ClearSession
  <2>1. /\ list \in Seq(came) /\ list # <<>> /\ list' = Tail(list) /\ queue = <<>>
        /\ thread' = [thread EXCEPT ![Head(list)] = "exited"]
        /\ UNCHANGED <<came, queue>>
    BY <1>3 DEF ClearSession, IInv, SocketDown, PInv, Came, sockVars
  <2>2. /\ list' \in Seq(came) /\ Head(list) \in came
        /\ Len(list') = Len(list) - 1 /\ Len(list) \in Nat
    BY <2>1, TailHas, TailIs, LenProperties
  <2>3. Small'
    BY <2>1, <2>2, LimitsAssumption DEF PInv, Small
  <2>4. Waiting'
    BY <2>1 DEF Waiting, IsInjective, InSeq
  <2>5. Threaded'
    BY <2>1, <2>2 DEF PInv, Threaded, Came, IInv, Types
  <2> QED BY <2>1, <2>2, <2>3, <2>4, <2>5 DEF PInv, Came
<1> QED BY <1>1, <1>2, <1>3

\* Both invariants together are inductive.
THEOREM PromiseInvariant == Spec => [](IInv /\ PInv)
<1>1. IInv /\ PInv /\ [Next]_vars => PInv'
  <2> SUFFICES ASSUME IInv, PInv, [Next]_vars PROVE PInv'
    OBVIOUS
  <2>1. CASE StartServer \/ Stop
    BY <2>1, SamePInv DEF StartServer, Stop, sockVars, sessVars
  <2>2. CASE \E c \in Conns : Connect(c)
    BY <2>2, ConnectPInv
  <2>3. CASE (\E c \in Conns : SessionEnds(c)) \/ CleanupErases \/ ClearSession
    BY <2>3, SessionPInv
  <2>4. CASE InitOk \/ InitFails \/ RestartOk \/ RestartFails
    BY <2>4, SamePInv DEF InitOk, InitFails, RestartOk, RestartFails, ThreadStartServer,
                          BindFails, sessVars
  <2>5. CASE StopSeen \/ WaitEvent \/ WaitEventFails \/ NoPort \/ AcceptFails
    BY <2>5, SamePInv DEF StopSeen, WaitEvent, WaitEventFails, NoPort, AcceptFails,
                          sockVars, sessVars
  <2>6. CASE CleanupKeeps \/ CleanupOver \/ EndThread \/ Disconnected
    BY <2>6, SamePInv DEF CleanupKeeps, CleanupOver, EndThread, Disconnected, sockVars,
                          sessVars
  <2>7. CASE UNCHANGED vars
    BY <2>7, SamePInv DEF vars
  <2> QED BY <2>1, <2>2, <2>3, <2>4, <2>5, <2>6, <2>7, AcceptPInv DEF Next, Server
<1> QED BY Invariant, InitPInv, <1>1, PTL DEF Spec

-----------------------------------------------------------------------------
\* A session thread for each element at most, so the list bounds the threads.
LEMMA FewRun ==
  ASSUME IInv, PInv
  PROVE  IsFiniteSet(Running) /\ Cardinality(Running) <= MaxConnections - 1
<1> DEFINE n    == Len(list)
           at(c) == CHOOSE i \in 1 .. n : list[i] = c
           f    == [c \in Running |-> at(c)]
<1>1. n \in Nat /\ DOMAIN list = 1 .. n /\ n <= MaxConnections - 1
  BY LimitsAssumption DEF PInv, Came, Small
<1>2. \A c \in Running : at(c) \in 1 .. n /\ list[at(c)] = c
  BY <1>1 DEF IInv, ThreadsHaveSessions, InSeq
<1> HIDE DEF at, n
<1>3. f \in Injection(Running, 1 .. n)
  BY <1>2 DEF Injection, IsInjective
<1>4. IsFiniteSet(1 .. n) /\ Cardinality(1 .. n) = n
  <2>1. 1 \in Int /\ n \in Int /\ (IF 1 > n THEN 0 ELSE n - 1 + 1) = n
    BY <1>1
  <2>2. IsFiniteSet(1 .. n) /\ Cardinality(1 .. n) = IF 1 > n THEN 0 ELSE n - 1 + 1
    BY <2>1, FS_Interval
  <2> QED BY <2>1, <2>2
<1> HIDE DEF f
<1>5. IsFiniteSet(Running) /\ Cardinality(Running) <= n
  BY <1>3, <1>4, FS_Injection
<1>6. Cardinality(Running) \in Nat
  BY <1>5, FS_CardinalityType
<1> QED BY <1>1, <1>5, <1>6, LimitsAssumption

(* The clients that are served: their thread runs and they wait no longer.  *)
LetIn == {c \in Running : c \in came /\ ~InSeq(c, queue)}

\* With the threads, those are few.
LEMMA ServedFew ==
  IInv /\ PInv => IsFiniteSet(LetIn) /\ Cardinality(LetIn) <= MaxConnections - 1
<1> SUFFICES ASSUME IInv, PInv
             PROVE  IsFiniteSet(LetIn) /\ Cardinality(LetIn) <= MaxConnections - 1
  OBVIOUS
<1>1. LetIn \in SUBSET Running
  BY DEF LetIn
<1>2. IsFiniteSet(LetIn) /\ Cardinality(LetIn) <= Cardinality(Running)
  BY <1>1, FewRun, FS_Subset
<1>3. Cardinality(LetIn) \in Nat /\ Cardinality(Running) \in Nat
  BY <1>2, FewRun, FS_CardinalityType
<1> QED BY <1>2, <1>3, FewRun, LimitsAssumption

\* What a step has to show: how the connections move on, and that one at most
\* is let in by it.
LEMMA StageStep ==
  ASSUME IInv, PInv, IInv', PInv',
         \A c \in Conns : stageOf'[c] \in Promise!MayBecome(stageOf[c]),
         NEW x,
         \A c \in Conns : c # x => (c \in LetIn' => c \in LetIn)
  PROVE  Promise!Next
<1>1. Promise!Served(stageOf) = LetIn /\ Promise!Served(stageOf') = LetIn'
  BY DEF Promise!Served, stageOf, LetIn, Running
<1>2. (IInv /\ PInv => IsFiniteSet(LetIn) /\ Cardinality(LetIn) <= MaxConnections - 1)'
  BY ServedFew, PTL
<1>3. Cardinality(LetIn') <= MaxConnections - 1
  BY <1>2
<1>4. Cardinality(LetIn' \ LetIn) <= 1
  <2>1. LetIn' \ LetIn \in SUBSET {x}
    BY DEF LetIn, Running
  <2>2. IsFiniteSet({x}) /\ Cardinality({x}) = 1
    BY FS_Singleton
  <2> QED BY <2>1, <2>2, FS_Subset
<1>5. \A S : Promise!Cardinality(S) = Cardinality(S)
  BY DEF Promise!Cardinality, Cardinality
<1> QED BY <1>1, <1>3, <1>4, <1>5 DEF Promise!Next

\* The moves of a connection.
LEMMA Moves ==
  ASSUME NEW s, NEW t,
         \/ s = t /\ s \in {"out", "waiting", "served", "over"}
         \/ s = "out" /\ t = "waiting"
         \/ s = "waiting" /\ t \in {"served", "over"}
         \/ s = "served" /\ t = "over"
  PROVE  t \in Promise!MayBecome(s)
BY DEF Promise!MayBecome

(* Where a connection is, by its place in the server. *)
Placed ==
  \A c \in Conns :
    /\ InSeq(c, queue) => c \in came /\ c \notin Running
    /\ c \in Running => c \in came
    /\ c \notin came => stageOf[c] = "out"
    /\ InSeq(c, queue) => stageOf[c] = "waiting"
    /\ c \in Running => stageOf[c] = "served" /\ c \in LetIn
    /\ c \in came /\ ~InSeq(c, queue) /\ c \notin Running => stageOf[c] = "over"

LEMMA StageIs == PInv => Placed
<1> SUFFICES ASSUME PInv, NEW c \in Conns
             PROVE  /\ InSeq(c, queue) => c \in came /\ c \notin Running
                    /\ c \in Running => c \in came
                    /\ c \notin came => stageOf[c] = "out"
                    /\ InSeq(c, queue) => stageOf[c] = "waiting"
                    /\ c \in Running => stageOf[c] = "served" /\ c \in LetIn
                    /\ c \in came /\ ~InSeq(c, queue) /\ c \notin Running =>
                         stageOf[c] = "over"
  BY DEF Placed
<1>1. InSeq(c, queue) => c \in came /\ c \notin Running
  BY DEF PInv, Came, Waiting, InSeq, Running
<1>2. c \in Running => c \in came
  BY DEF PInv, Threaded, Running
<1> QED BY <1>1, <1>2 DEF stageOf, LetIn

\* No step moves a connection backward, and one at most is let in.
LEMMA StepPromise ==
  ASSUME IInv, PInv, IInv', PInv', [Next]_vars
  PROVE  Promise!Next \/ UNCHANGED stageOf
<1>p. Placed
  BY StageIs
<1>q. Placed'
  <2>1. (PInv => Placed)'
    BY StageIs, PTL
  <2> QED BY <2>1
<1>1. CASE UNCHANGED <<came, queue, thread>>
  BY <1>1 DEF stageOf, Running, InSeq
<1>2. CASE \E c \in Conns : Connect(c)
  <2>1. PICK c \in Conns : Connect(c)
    BY <1>2
  <2>2. /\ c \notin came /\ came' = came \cup {c} /\ UNCHANGED thread
        /\ queue \in Seq(came) /\ queue' = Append(queue, c) /\ queue \in Seq(Conns)
    BY <2>1 DEF Connect, sessVars, PInv, Came, IInv, Types
  <2>3. \A d : InSeq(d, queue') <=> InSeq(d, queue) \/ d = c
    BY <2>2, AppendHas, AppendIs
  <2>4. Running' = Running
    BY <2>2 DEF Running
  <2>5. \A d \in Conns : stageOf'[d] \in Promise!MayBecome(stageOf[d])
    <3> SUFFICES ASSUME NEW d \in Conns
                 PROVE  stageOf'[d] \in Promise!MayBecome(stageOf[d])
      OBVIOUS
    <3>1. CASE d = c
      BY <1>p, <1>q, <2>2, <2>3, <3>1, Moves DEF Placed
    <3>2. CASE d # c
      BY <1>p, <1>q, <2>2, <2>3, <2>4, <3>2, Moves DEF Placed
    <3> QED BY <3>1, <3>2
  <2>6. \A d \in Conns : d # c => (d \in LetIn' => d \in LetIn)
    BY <2>2, <2>3, <2>4 DEF LetIn
  <2> QED BY <2>5, <2>6, StageStep
<1>3. CASE WaitEventFails \/ EndThread
  <2>1. queue' = <<>> /\ UNCHANGED <<came, thread>>
    BY <1>3 DEF WaitEventFails, EndThread, sessVars
  <2>2. Running' = Running /\ \A d : ~InSeq(d, queue')
    BY <2>1 DEF Running, InSeq
  <2>3. \A d \in Conns : stageOf'[d] \in Promise!MayBecome(stageOf[d])
    BY <1>p, <1>q, <2>1, <2>2, Moves DEF Placed
  <2>4. \A d \in Conns : d # 0 => (d \in LetIn' => d \in LetIn)
    BY <1>p, <2>2 DEF LetIn, Placed, Running
  <2> QED BY <2>3, <2>4, StageStep
<1>4. CASE AcceptOne
  <2> DEFINE h == Head(queue)
  <2>1. Accepted
    BY <1>4 DEF AcceptOne, AcceptDropped, AcceptDenied, AcceptServed
  <2>2. /\ h \in Conns /\ h \in came /\ InSeq(h, queue) /\ ~InSeq(h, queue')
        /\ came' = came
        /\ \A d : InSeq(d, queue') => InSeq(d, queue)
        /\ \A d : InSeq(d, queue) /\ d # h => InSeq(d, queue')
    BY <2>1, AcceptedPInv
  <2>3. \A d \in Conns : d # h => (d \in Running' <=> d \in Running)
    BY <1>4 DEF AcceptOne, AcceptDropped, AcceptDenied, AcceptServed, Running, sessVars,
                IInv, Types
  <2> HIDE DEF h
  <2>4. \A d \in Conns : stageOf'[d] \in Promise!MayBecome(stageOf[d])
    <3> SUFFICES ASSUME NEW d \in Conns
                 PROVE  stageOf'[d] \in Promise!MayBecome(stageOf[d])
      OBVIOUS
    <3>1. CASE d = h
      BY <1>p, <1>q, <2>2, <3>1, Moves DEF Placed
    <3>2. CASE d # h
      BY <1>p, <1>q, <2>2, <2>3, <3>2, Moves DEF Placed
    <3> QED BY <3>1, <3>2
  <2>5. \A d \in Conns : d # h => (d \in LetIn' => d \in LetIn)
    BY <2>2, <2>3 DEF LetIn
  <2> QED BY <2>4, <2>5, StageStep
<1>5. CASE (\E c \in Conns : SessionEnds(c)) \/ ClearSession
  <2>1. UNCHANGED <<came, queue>> /\ Running' \subseteq Running
    BY <1>5 DEF SessionEnds, ClearSession, sockVars, Running, IInv, Types
  <2>2. \A d : InSeq(d, queue') <=> InSeq(d, queue)
    BY <2>1 DEF InSeq
  <2>3. \A d \in Conns : stageOf'[d] \in Promise!MayBecome(stageOf[d])
    BY <1>p, <1>q, <2>1, <2>2, Moves DEF Placed
  <2>4. \A d \in Conns : d # 0 => (d \in LetIn' => d \in LetIn)
    BY <2>1, <2>2 DEF LetIn
  <2> QED BY <2>3, <2>4, StageStep
<1>6. CASE StartServer \/ Stop \/ UNCHANGED vars
  BY <1>1, <1>6 DEF StartServer, Stop, vars, sockVars, sessVars
<1>7. CASE InitOk \/ InitFails \/ RestartOk \/ RestartFails
  BY <1>1, <1>7 DEF InitOk, InitFails, RestartOk, RestartFails, ThreadStartServer,
                    BindFails, sessVars
<1>8. CASE StopSeen \/ WaitEvent \/ NoPort \/ AcceptFails
  BY <1>1, <1>8 DEF StopSeen, WaitEvent, NoPort, AcceptFails, sockVars, sessVars
<1>9. CASE CleanupKeeps \/ CleanupErases \/ CleanupOver \/ Disconnected
  BY <1>1, <1>9 DEF CleanupKeeps, CleanupErases, CleanupOver, Disconnected, sockVars,
                    sessVars
<1> QED BY <1>2, <1>3, <1>4, <1>5, <1>6, <1>7, <1>8, <1>9 DEF Next, Server

\* The server admits its clients as promised: a connection moves only forward,
\* one at a time is let in, and fewer than the limit are served.
THEOREM KeepsPromiseHolds == Spec => KeepsPromise
<1>1. Init => Promise!Init
  BY DEF Init, Promise!Init, stageOf
<1>2. (IInv /\ PInv) /\ (IInv /\ PInv)' /\ [Next]_vars => [Promise!Next]_stageOf
  BY StepPromise
<1> QED BY PromiseInvariant, <1>1, <1>2, PTL DEF Spec, KeepsPromise, Promise!Spec
=============================================================================
