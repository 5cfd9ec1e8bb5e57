---------------------------- MODULE SessionStore ----------------------------
(***************************************************************************)
(* The session data of an HTTP server: one bag, m_pbSession, which every   *)
(* request copies its session out of and writes its copy back to.  The     *)
(* copy is made when the head of the request is read, and written back     *)
(* with the head of the reply; in between, other requests and the cleanup  *)
(* of the server thread use the bag.  Each use is in the lock m_lockSession.*)
(*                                                                         *)
(* What a page keeps in its session is a number, one more in each request  *)
(* that changes it.  Timestamps are ages: 0 is now.                        *)
(***************************************************************************)
EXTENDS Naturals, FiniteSets

CONSTANTS
  Clients,     \* the clients of the server
  Rewriters,   \* the ones that send their session id in the form of JSON
  Conns,       \* connections
  Owner,       \* the client of each connection
  Addrs,       \* network addresses
  Timeout,     \* m_uSessionTimeout, in ticks
  DropAge,     \* the age at which sessions go when there are too many
  MaxSessions, \* eMaxSessions
  MaxIds,      \* BOUND: session ids that are made
  MaxVal       \* BOUND: changes of one session

ASSUME ClientsAssumption == Rewriters \subseteq Clients
ASSUME OwnerAssumption   == Owner \in [Conns -> Clients]
ASSUME LimitsAssumption  ==
  /\ {Timeout, DropAge, MaxSessions, MaxIds, MaxVal} \subseteq Nat
  /\ DropAge <= Timeout

NoId == 0
Ids  == 1 .. MaxIds
Ages == 0 .. Timeout + 1

Record == [ip : Addrs, age : Ages, val : 0 .. MaxVal]

VARIABLES
  store,  \* m_pbSession
  issued, \* ids made so far
  cookie, \* the id in the last cookie a client was sent
  ip,     \* the client's address on each connection
  isNew,  \* m_bNewSession of each connection
  id,     \* the session of the request a connection is in, or NoId
  copy,   \* the request's copy of it
  (* what has happened, for the properties *)
  last,   \* what was last kept in a session, and for whom
  shared  \* sessions that were in two requests at once

vars == <<store, issued, cookie, ip, isNew, id, copy, last, shared>>

InStore == DOMAIN store

InRequest(k) == id[k] # NoId

Gone == [val |-> 0]

Init ==
  /\ store = [i \in {} |-> Gone] /\ issued = 0
  /\ cookie = [c \in Clients |-> NoId]
  /\ ip \in [Conns -> Addrs]
  /\ isNew = [k \in Conns |-> TRUE]
  /\ id = [k \in Conns |-> NoId]
  /\ copy = [k \in Conns |-> Gone]
  /\ last = [i \in Ids |-> Gone] /\ shared = {}

-----------------------------------------------------------------------------
\* A connection ends and the client makes another, maybe from elsewhere.
Reconnect(k) ==
  /\ ~InRequest(k)
  /\ \E a \in Addrs : ip' = [ip EXCEPT ![k] = a]
  /\ isNew' = [isNew EXCEPT ![k] = TRUE]
  /\ UNCHANGED <<store, issued, cookie, id, copy, last, shared>>

\* CreateCookie writes the id as in a URL, and that is what a browser sends
\* back; DecodeCookie looks for JSON, and finds nothing in a URL.
DecodeCookie(c) == IF c \in Rewriters THEN cookie[c] ELSE NoId

\* The session of a request can be restored: it is in the bag, for the same
\* address, and has not expired.
Valid(i, a) ==
  i \in InStore /\ store[i].ip = a /\ store[i].age <= Timeout

\* RestoreSession(): a session that is not valid begins anew under the id the
\* client has sent, or under a new id.
RestoreSession(k) ==
  LET sent == DecodeCookie(Owner[k])
      i    == IF sent # NoId THEN sent ELSE issued + 1
  IN  /\ ~InRequest(k)
      /\ i \in Ids
      /\ issued' = IF sent # NoId THEN issued ELSE issued + 1
      /\ id' = [id EXCEPT ![k] = i]
      /\ IF sent # NoId /\ Valid(i, ip[k])
           THEN /\ copy' = [copy EXCEPT ![k] = [store[i] EXCEPT !.age = 0]]
                /\ isNew' = [isNew EXCEPT ![k] = FALSE]
           ELSE /\ copy' = [copy EXCEPT
                              ![k] = [ip |-> ip[k], age |-> 0, val |-> 0]]
                /\ UNCHANGED isNew
      /\ shared' = IF \E l \in Conns : id[l] = i THEN shared \cup {i} ELSE shared
      /\ UNCHANGED <<store, cookie, ip, last>>

-----------------------------------------------------------------------------
\* SaveSession(), and the end of the request.
Put(i, r) == [j \in InStore \cup {i} |-> IF j = i THEN r ELSE store[j]]

\* MUTANT: a session is not erased when the page has marked it invalid.
BugNoErase(i) == store

Erased(i) == [j \in InStore \ {i} |-> store[j]]

EndRequest(k) ==
  /\ id' = [id EXCEPT ![k] = NoId]
  /\ copy' = [copy EXCEPT ![k] = Gone]
  /\ UNCHANGED <<issued, ip, isNew, shared>>

SetCookie(k) ==
  cookie' = IF isNew[k] THEN [cookie EXCEPT ![Owner[k]] = id[k]] ELSE cookie

\* The page has kept something, or has only looked.
SaveSession(k) ==
  /\ InRequest(k)
  /\ \E v \in {copy[k].val, copy[k].val + 1} :
       /\ v <= MaxVal
       /\ store' = Put(id[k], [copy[k] EXCEPT !.val = v])
       /\ last' = [last EXCEPT ![id[k]] = [ip |-> copy[k].ip, val |-> v]]
  /\ SetCookie(k)
  /\ EndRequest(k)

\* The page has set _ts to zero.
EraseSession(k) ==
  /\ InRequest(k)
  /\ store' = Erased(id[k])
  /\ last' = [last EXCEPT ![id[k]] = Gone]
  /\ SetCookie(k)
  /\ EndRequest(k)

\* The page has set a cookie of its own and the session is not saved, or the
\* request is never replied to.
KeepCookie(k) ==
  /\ InRequest(k)
  /\ EndRequest(k)
  /\ UNCHANGED <<store, cookie, last>>

-----------------------------------------------------------------------------
\* CleanupSessions() of the server thread.
Expired(i) ==
  \/ store[i].age > Timeout
  \/ Cardinality(InStore) > MaxSessions /\ store[i].age > DropAge

CleanupSessions ==
  /\ store' = [i \in {j \in InStore : ~Expired(j)} |-> store[i]]
  /\ UNCHANGED <<issued, cookie, ip, isNew, id, copy, last, shared>>

Older(r) == [r EXCEPT !.age = IF @ > Timeout THEN @ ELSE @ + 1]

\* Time passes, also for the timestamp of a copy.
Tick ==
  /\ store' = [i \in InStore |-> Older(store[i])]
  /\ copy' = [k \in Conns |-> IF InRequest(k) THEN Older(copy[k]) ELSE copy[k]]
  /\ UNCHANGED <<issued, cookie, ip, isNew, id, last, shared>>

Next ==
  \/ \E k \in Conns :
       \/ Reconnect(k) \/ RestoreSession(k)
       \/ SaveSession(k) \/ EraseSession(k) \/ KeepCookie(k)
  \/ CleanupSessions \/ Tick

Spec == Init /\ [][Next]_vars

-----------------------------------------------------------------------------
(* Every variable has its type. *)
TypeOK ==
  /\ InStore \subseteq Ids /\ \A i \in InStore : store[i] \in Record
  /\ issued \in 0 .. MaxIds
  /\ cookie \in [Clients -> Ids \cup {NoId}]
  /\ ip \in [Conns -> Addrs] /\ isNew \in [Conns -> BOOLEAN]
  /\ id \in [Conns -> Ids \cup {NoId}]
  /\ \A k \in Conns : InRequest(k) => copy[k] \in Record
  /\ shared \subseteq Ids

(* What a page finds in its session is what the request before it has left  *)
(* there, for a client of the same address, or nothing: nothing older comes *)
(* back after it was changed, marked invalid or cleaned up, and nothing of  *)
(* another address is seen.  Only when two requests of one session overlap  *)
(* can the one that ends last write its older copy over what the other has  *)
(* kept, or bring back what the other has erased (http_session.h:573, :627, *)
(* :631, http_server.h:668-701).                                            *)
FindsLastKept ==
  \A k \in Conns :
    InRequest(k) /\ copy[k].val # 0 /\ id[k] \notin shared =>
      last[id[k]] = [ip |-> copy[k].ip, val |-> copy[k].val]

(* A request that carries the id of a session that is in the bag, for its   *)
(* address and not expired, is given that session (http_session.h:569-573,  *)
(* "Attempt to recover our data").                                          *)
CookieRestores ==
  [][\A k \in Conns :
       RestoreSession(k) /\ Valid(cookie[Owner[k]], ip[k]) =>
         id'[k] = cookie[Owner[k]]]_vars
=============================================================================
