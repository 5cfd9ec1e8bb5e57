------------------------ MODULE SessionStore_proofs ------------------------
(***************************************************************************)
(* What a page finds in its session is what was kept there last, unless    *)
(* two requests of the session overlapped: for any clients, connections    *)
(* and addresses, and any bounds.                                          *)
(*                                                                         *)
(* Behind it, the one session thread for all connections: the limit of     *)
(* sessions is kept, and no admitted session is lost to the race of the    *)
(* two threads on the list, for any limit and any number of elements.      *)
(***************************************************************************)
EXTENDS SessionStore, SingleSession, SequenceTheorems, FiniteSetTheorems, TLAPS

StoreType == /\ InStore \subseteq Ids
             /\ store = [i \in InStore |-> store[i]]
             /\ \A i \in InStore : store[i] \in Record
IdType    == /\ id \in [Conns -> Ids \cup {NoId}]
             /\ issued \in 0 .. MaxIds
             /\ cookie \in [Clients -> Ids \cup {NoId}]
ConnType  == /\ ip \in [Conns -> Addrs] /\ isNew \in [Conns -> BOOLEAN]
             /\ DOMAIN copy = Conns
             /\ \A k \in Conns : InRequest(k) => copy[k] \in Record
             /\ shared \subseteq Ids
             /\ DOMAIN last = Ids

Types == StoreType /\ IdType /\ ConnType

(* The bag agrees with what was kept last, in every session that has not   *)
(* been in two requests at once; a session in two requests is in shared.   *)
StoreIsLast ==
  \A i \in InStore : i \notin shared =>
    last[i] = [ip |-> store[i].ip, val |-> store[i].val]

TwoAreShared ==
  \A k, l \in Conns : k # l /\ InRequest(k) /\ id[k] = id[l] => id[k] \in shared

KeptInv == StoreIsLast /\ TwoAreShared /\ FindsLastKept

IInv == Types /\ KeptInv

USE ClientsAssumption, OwnerAssumption, LimitsAssumption

\* The constants as numbers.
LEMMA Numbers ==
  /\ Timeout \in Nat /\ MaxIds \in Nat /\ MaxVal \in Nat
  /\ NoId = 0 /\ NoId \notin Ids
BY DEF NoId, Ids

\* Initially the bag is empty.
LEMMA InitInv == Init => IInv
<1> SUFFICES ASSUME Init PROVE IInv
  OBVIOUS
<1>1. InStore = {} /\ \A k \in Conns : ~InRequest(k)
  BY DEF Init, InStore, InRequest
<1>2. StoreType
  BY <1>1 DEF Init, StoreType, InStore
<1>3. IdType /\ ConnType
  BY <1>1, Numbers DEF Init, IdType, ConnType, InRequest
<1>4. KeptInv
  BY <1>1 DEF KeptInv, StoreIsLast, TwoAreShared, FindsLastKept
<1> QED BY <1>2, <1>3, <1>4 DEF IInv, Types

\* A record grows older without a change of its address and its value.
LEMMA OlderIsSame ==
  ASSUME NEW r \in Record
  PROVE  Older(r) \in Record /\ Older(r).ip = r.ip /\ Older(r).val = r.val
<1>1. r.age \in 0 .. Timeout + 1 /\ r = [ip |-> r.ip, age |-> r.age, val |-> r.val]
  BY DEF Record, Ages
<1>2. r.ip \in Addrs /\ r.val \in 0 .. MaxVal
  BY DEF Record
<1>3. Older(r) = [ip |-> r.ip, age |-> IF r.age > Timeout THEN r.age ELSE r.age + 1, val |-> r.val]
  BY <1>1 DEF Older
<1> QED BY <1>1, <1>2, <1>3, Numbers DEF Record, Ages

\* The end of a request leaves the others as they are.
LEMMA EndOne ==
  ASSUME Types, NEW k \in Conns, EndRequest(k)
  PROVE  /\ id' \in [Conns -> Ids \cup {NoId}] /\ id'[k] = NoId
         /\ DOMAIN copy' = Conns
         /\ \A l \in Conns : l # k => id'[l] = id[l] /\ copy'[l] = copy[l]
         /\ UNCHANGED <<issued, ip, isNew, shared>>
BY DEF Types, IdType, ConnType, EndRequest

\* RestoreSession(): the copy is the session, or empty.
LEMMA RestoreInv ==
  ASSUME IInv, NEW k \in Conns, RestoreSession(k) PROVE IInv'
<1> DEFINE sent == DecodeCookie(Owner[k])
           i    == IF sent # NoId THEN sent ELSE issued + 1
<1>t. Types /\ KeptInv
  BY DEF IInv
<1>1. /\ ~InRequest(k) /\ i \in Ids
      /\ issued' = IF sent # NoId THEN issued ELSE issued + 1
      /\ id' = [id EXCEPT ![k] = i]
      /\ shared' = IF \E l \in Conns : id[l] = i THEN shared \cup {i} ELSE shared
      /\ UNCHANGED <<store, cookie, ip, last>>
  BY DEF RestoreSession
<1>2. id' \in [Conns -> Ids \cup {NoId}] /\ id'[k] = i /\ \A l \in Conns : l # k => id'[l] = id[l]
  BY <1>1, <1>t DEF Types, IdType
<1>3. issued' \in 0 .. MaxIds
  BY <1>1, <1>t, Numbers DEF Types, IdType, Ids
<1>4. /\ copy'[k] \in Record /\ copy'[k].ip = ip[k]
      /\ \/ copy'[k].val = 0
         \/ i \in InStore /\ store[i].ip = ip[k] /\ copy'[k].val = store[i].val
      /\ DOMAIN copy' = Conns
      /\ \A l \in Conns : l # k => copy'[l] = copy[l]
      /\ isNew' \in [Conns -> BOOLEAN]
  <2>1. CASE sent # NoId /\ Valid(i, ip[k])
    <3>1. i \in InStore /\ store[i].ip = ip[k] /\ store[i] \in Record
      BY <2>1, <1>t DEF Valid, Types, StoreType
    <3>2. /\ copy' = [copy EXCEPT ![k] = [store[i] EXCEPT !.age = 0]]
          /\ isNew' = [isNew EXCEPT ![k] = FALSE]
      BY <2>1 DEF RestoreSession
    <3>3. /\ [store[i] EXCEPT !.age = 0] \in Record
          /\ [store[i] EXCEPT !.age = 0].ip = ip[k]
          /\ [store[i] EXCEPT !.age = 0].val = store[i].val
      BY <3>1, Numbers DEF Record, Ages
    <3>4. copy'[k] = [store[i] EXCEPT !.age = 0] /\ DOMAIN copy' = Conns
          /\ \A l \in Conns : l # k => copy'[l] = copy[l]
      BY <3>2, <1>t DEF Types, ConnType
    <3>5. isNew' \in [Conns -> BOOLEAN]
      BY <3>2, <1>t DEF Types, ConnType
    <3> QED BY <3>1, <3>3, <3>4, <3>5
  <2>2. CASE ~(sent # NoId /\ Valid(i, ip[k]))
    <3>1. /\ copy' = [copy EXCEPT ![k] = [ip |-> ip[k], age |-> 0, val |-> 0]]
          /\ UNCHANGED isNew
      BY <2>2 DEF RestoreSession
    <3>2. [ip |-> ip[k], age |-> 0, val |-> 0] \in Record
      BY <1>t, Numbers DEF Types, ConnType, Record, Ages
    <3>3. copy'[k] = [ip |-> ip[k], age |-> 0, val |-> 0] /\ DOMAIN copy' = Conns
          /\ \A l \in Conns : l # k => copy'[l] = copy[l]
      BY <3>1, <1>t DEF Types, ConnType
    <3>4. isNew' \in [Conns -> BOOLEAN]
      BY <3>1, <1>t DEF Types, ConnType
    <3> QED BY <3>2, <3>3, <3>4
  <2> QED BY <2>1, <2>2
<1>5. Types'
  <2>1. StoreType'
    BY <1>1, <1>t DEF Types, StoreType, InStore
  <2>2. IdType'
    BY <1>1, <1>2, <1>3, <1>t DEF Types, IdType
  <2>3. shared' \subseteq Ids
    BY <1>1, <1>t DEF Types, ConnType
  <2>4. \A l \in Conns : InRequest(l)' => copy'[l] \in Record
    BY <1>2, <1>4, <1>t DEF Types, ConnType, InRequest
  <2>5. ConnType'
    BY <1>1, <1>4, <2>3, <2>4, <1>t DEF Types, ConnType
  <2> QED BY <2>1, <2>2, <2>5 DEF Types
<1>6. shared \subseteq shared' /\ \A l \in Conns : l # k /\ id[l] = i => i \in shared'
  BY <1>1
<1>7. StoreIsLast'
  BY <1>1, <1>6, <1>t DEF KeptInv, StoreIsLast, InStore
<1>8. TwoAreShared'
  BY <1>2, <1>6, <1>t DEF KeptInv, TwoAreShared, InRequest
<1>9. FindsLastKept'
  <2> SUFFICES ASSUME NEW l \in Conns, id'[l] # NoId, copy'[l].val # 0, id'[l] \notin shared'
               PROVE  last[id'[l]] = [ip |-> copy'[l].ip, val |-> copy'[l].val]
    BY <1>1 DEF FindsLastKept, InRequest
  <2>1. CASE l = k
    BY <2>1, <1>2, <1>4, <1>6, <1>t DEF KeptInv, StoreIsLast
  <2>2. CASE l # k
    BY <2>2, <1>2, <1>4, <1>6, <1>t DEF KeptInv, FindsLastKept, InRequest
  <2> QED BY <2>1, <2>2
<1> QED BY <1>5, <1>7, <1>8, <1>9 DEF IInv, KeptInv

\* SaveSession(): the copy and what is kept are the same, and no other request
\* is in the session.
LEMMA SaveInv ==
  ASSUME IInv, NEW k \in Conns, SaveSession(k) PROVE IInv'
<1>t. Types /\ KeptInv
  BY DEF IInv
<1>1. InRequest(k) /\ EndRequest(k) /\ SetCookie(k) /\ id[k] \in Ids /\ copy[k] \in Record
  BY <1>t DEF SaveSession, Types, IdType, ConnType, InRequest
<1>2. PICK v \in {copy[k].val, copy[k].val + 1} :
        /\ v <= MaxVal
        /\ store' = Put(id[k], [copy[k] EXCEPT !.val = v])
        /\ last' = [last EXCEPT ![id[k]] = [ip |-> copy[k].ip, val |-> v]]
  BY DEF SaveSession
<1>3. v \in 0 .. MaxVal
  BY <1>1, <1>2, Numbers DEF Record
<1> DEFINE r == [copy[k] EXCEPT !.val = v]
<1>4. r \in Record /\ r.ip = copy[k].ip /\ r.val = v
  BY <1>1, <1>3 DEF Record
<1> HIDE DEF r
<1>5. /\ DOMAIN store' = InStore \cup {id[k]} /\ store'[id[k]] = r
      /\ \A j \in InStore : j # id[k] => store'[j] = store[j]
      /\ store' = [j \in DOMAIN store' |-> store'[j]]
  BY <1>2 DEF Put, r
<1>6. /\ DOMAIN last' = Ids /\ last'[id[k]] = [ip |-> copy[k].ip, val |-> v]
      /\ \A j \in Ids : j # id[k] => last'[j] = last[j]
  BY <1>1, <1>2, <1>t DEF Types, ConnType
<1>e. /\ id' \in [Conns -> Ids \cup {NoId}] /\ id'[k] = NoId
      /\ DOMAIN copy' = Conns
      /\ \A l \in Conns : l # k => id'[l] = id[l] /\ copy'[l] = copy[l]
      /\ UNCHANGED <<issued, ip, isNew, shared>>
  BY <1>1, <1>t, EndOne
<1>7. Types'
  <2>1. StoreType'
    BY <1>1, <1>4, <1>5, <1>t DEF Types, StoreType, InStore
  <2>2. cookie' \in [Clients -> Ids \cup {NoId}]
    BY <1>1, <1>t DEF SetCookie, Types, IdType
  <2>3. IdType'
    BY <2>2, <1>e, <1>t DEF Types, IdType
  <2>4. \A l \in Conns : InRequest(l)' => copy'[l] \in Record
    BY <1>e, <1>t DEF Types, ConnType, InRequest
  <2>5. ConnType'
    BY <1>6, <2>4, <1>e, <1>t DEF Types, ConnType
  <2> QED BY <2>1, <2>3, <2>5 DEF Types
<1>8. StoreIsLast'
  <2> SUFFICES ASSUME NEW i \in InStore \cup {id[k]}, i \notin shared
               PROVE  last'[i] = [ip |-> store'[i].ip, val |-> store'[i].val]
    BY <1>5, <1>e DEF StoreIsLast, InStore
  <2>1. CASE i = id[k]
    BY <2>1, <1>4, <1>5, <1>6
  <2>2. CASE i # id[k]
    BY <2>2, <1>5, <1>6, <1>t DEF KeptInv, StoreIsLast, Types, StoreType
  <2> QED BY <2>1, <2>2
<1>9. TwoAreShared'
  BY <1>e, <1>t DEF KeptInv, TwoAreShared, InRequest
<1>10. FindsLastKept'
  <2> SUFFICES ASSUME NEW l \in Conns, id'[l] # NoId, copy'[l].val # 0, id'[l] \notin shared'
               PROVE  last'[id'[l]] = [ip |-> copy'[l].ip, val |-> copy'[l].val]
    BY DEF FindsLastKept, InRequest
  <2>1. l # k /\ id[l] = id'[l] /\ copy'[l] = copy[l] /\ id[l] \in Ids
    BY <1>e
  <2>2. id[l] # id[k]
    BY <2>1, <1>1, <1>e, <1>t DEF KeptInv, TwoAreShared
  <2>3. last'[id[l]] = last[id[l]]
    BY <2>1, <2>2, <1>6
  <2>4. last[id[l]] = [ip |-> copy[l].ip, val |-> copy[l].val]
    BY <2>1, <1>e, <1>t DEF KeptInv, FindsLastKept, InRequest
  <2> QED BY <2>1, <2>3, <2>4
<1> QED BY <1>7, <1>8, <1>9, <1>10 DEF IInv, KeptInv

\* The session is erased: nothing of it is found again.
LEMMA EraseInv ==
  ASSUME IInv, NEW k \in Conns, EraseSession(k) PROVE IInv'
<1>t. Types /\ KeptInv
  BY DEF IInv
<1>1. InRequest(k) /\ EndRequest(k) /\ SetCookie(k) /\ id[k] \in Ids
  BY <1>t DEF EraseSession, Types, IdType, InRequest
<1>5. /\ DOMAIN store' = InStore \ {id[k]}
      /\ \A j \in DOMAIN store' : store'[j] = store[j]
      /\ store' = [j \in DOMAIN store' |-> store'[j]]
  BY DEF EraseSession, Erased
<1>6. DOMAIN last' = Ids /\ \A j \in Ids : j # id[k] => last'[j] = last[j]
  BY <1>1, <1>t DEF EraseSession, Types, ConnType
<1>e. /\ id' \in [Conns -> Ids \cup {NoId}] /\ id'[k] = NoId
      /\ DOMAIN copy' = Conns
      /\ \A l \in Conns : l # k => id'[l] = id[l] /\ copy'[l] = copy[l]
      /\ UNCHANGED <<issued, ip, isNew, shared>>
  BY <1>1, <1>t, EndOne
<1>7. Types'
  <2>1. StoreType'
    BY <1>5, <1>t DEF Types, StoreType, InStore
  <2>2. cookie' \in [Clients -> Ids \cup {NoId}]
    BY <1>1, <1>t DEF SetCookie, Types, IdType
  <2>3. IdType'
    BY <2>2, <1>e, <1>t DEF Types, IdType
  <2>4. \A l \in Conns : InRequest(l)' => copy'[l] \in Record
    BY <1>e, <1>t DEF Types, ConnType, InRequest
  <2>5. ConnType'
    BY <1>6, <2>4, <1>e, <1>t DEF Types, ConnType
  <2> QED BY <2>1, <2>3, <2>5 DEF Types
<1>8. StoreIsLast'
  BY <1>5, <1>6, <1>e, <1>t DEF KeptInv, StoreIsLast, Types, StoreType, InStore
<1>9. TwoAreShared'
  BY <1>e, <1>t DEF KeptInv, TwoAreShared, InRequest
<1>10. FindsLastKept'
  <2> SUFFICES ASSUME NEW l \in Conns, id'[l] # NoId, copy'[l].val # 0, id'[l] \notin shared'
               PROVE  last'[id'[l]] = [ip |-> copy'[l].ip, val |-> copy'[l].val]
    BY DEF FindsLastKept, InRequest
  <2>1. l # k /\ id[l] = id'[l] /\ copy'[l] = copy[l] /\ id[l] \in Ids
    BY <1>e
  <2>2. id[l] # id[k]
    BY <2>1, <1>1, <1>e, <1>t DEF KeptInv, TwoAreShared
  <2>3. last'[id[l]] = last[id[l]]
    BY <2>1, <2>2, <1>6
  <2>4. last[id[l]] = [ip |-> copy[l].ip, val |-> copy[l].val]
    BY <2>1, <1>e, <1>t DEF KeptInv, FindsLastKept, InRequest
  <2> QED BY <2>1, <2>3, <2>4
<1> QED BY <1>7, <1>8, <1>9, <1>10 DEF IInv, KeptInv

\* A request that saves nothing.
LEMMA KeepInv ==
  ASSUME IInv, NEW k \in Conns, KeepCookie(k) PROVE IInv'
<1>t. Types /\ KeptInv
  BY DEF IInv
<1>1. EndRequest(k) /\ UNCHANGED <<store, cookie, last>>
  BY DEF KeepCookie
<1>e. /\ id' \in [Conns -> Ids \cup {NoId}] /\ id'[k] = NoId
      /\ DOMAIN copy' = Conns
      /\ \A l \in Conns : l # k => id'[l] = id[l] /\ copy'[l] = copy[l]
      /\ UNCHANGED <<issued, ip, isNew, shared>>
  BY <1>1, <1>t, EndOne
<1>2. Types'
  <2>1. \A l \in Conns : InRequest(l)' => copy'[l] \in Record
    BY <1>e, <1>t DEF Types, ConnType, InRequest
  <2> QED BY <1>1, <1>e, <2>1, <1>t DEF Types, StoreType, IdType, ConnType, InStore
<1>3. KeptInv'
  BY <1>1, <1>e, <1>t DEF KeptInv, StoreIsLast, TwoAreShared, FindsLastKept, InRequest, InStore
<1> QED BY <1>2, <1>3 DEF IInv

\* The cleanup takes whole sessions out of the bag.
LEMMA CleanupInv == ASSUME IInv, CleanupSessions PROVE IInv'
<1>t. Types /\ KeptInv
  BY DEF IInv
<1>1. /\ DOMAIN store' \subseteq InStore
      /\ \A j \in DOMAIN store' : store'[j] = store[j]
      /\ store' = [j \in DOMAIN store' |-> store'[j]]
      /\ UNCHANGED <<issued, cookie, ip, isNew, id, copy, last, shared>>
  BY DEF CleanupSessions
<1>2. Types'
  BY <1>1, <1>t DEF Types, StoreType, IdType, ConnType, InStore, InRequest
<1>3. KeptInv'
  BY <1>1, <1>t DEF KeptInv, StoreIsLast, TwoAreShared, FindsLastKept, InRequest, InStore
<1> QED BY <1>2, <1>3 DEF IInv

\* Time changes ages only.
LEMMA TickInv == ASSUME IInv, Tick PROVE IInv'
<1>t. Types /\ KeptInv
  BY DEF IInv
<1>1. /\ DOMAIN store' = InStore
      /\ \A j \in InStore : store'[j] = Older(store[j])
      /\ store' = [j \in DOMAIN store' |-> store'[j]]
      /\ DOMAIN copy' = Conns
      /\ \A k \in Conns : InRequest(k) => copy'[k] = Older(copy[k])
      /\ UNCHANGED <<issued, cookie, ip, isNew, id, last, shared>>
  BY DEF Tick
<1>2. \A j \in InStore : store'[j] \in Record /\ store'[j].ip = store[j].ip /\ store'[j].val = store[j].val
  BY <1>1, <1>t, OlderIsSame DEF Types, StoreType
<1>3. \A k \in Conns : InRequest(k) =>
        copy'[k] \in Record /\ copy'[k].ip = copy[k].ip /\ copy'[k].val = copy[k].val
  BY <1>1, <1>t, OlderIsSame DEF Types, ConnType
<1>4. Types'
  BY <1>1, <1>2, <1>3, <1>t DEF Types, StoreType, IdType, ConnType, InStore, InRequest
<1>5. KeptInv'
  <2>1. StoreIsLast'
    BY <1>1, <1>2, <1>t DEF KeptInv, StoreIsLast, InStore
  <2>2. TwoAreShared'
    BY <1>1, <1>t DEF KeptInv, TwoAreShared, InRequest
  <2>3. FindsLastKept'
    BY <1>1, <1>3, <1>t DEF KeptInv, FindsLastKept, InRequest
  <2> QED BY <2>1, <2>2, <2>3 DEF KeptInv
<1> QED BY <1>4, <1>5 DEF IInv

-----------------------------------------------------------------------------
\* The invariant is inductive.
THEOREM Invariant == Spec => []IInv
<1>1. IInv /\ [Next]_vars => IInv'
  <2> SUFFICES ASSUME IInv, [Next]_vars PROVE IInv'
    OBVIOUS
  <2>1. ASSUME NEW k \in Conns, Reconnect(k) PROVE IInv'
    <3>1. ip' \in [Conns -> Addrs] /\ isNew' \in [Conns -> BOOLEAN]
      BY <2>1 DEF Reconnect, IInv, Types, ConnType
    <3>2. UNCHANGED <<store, issued, cookie, id, copy, last, shared>>
      BY <2>1 DEF Reconnect
    <3> QED BY <3>1, <3>2 DEF IInv, Types, StoreType, IdType, ConnType, KeptInv,
               StoreIsLast, TwoAreShared, FindsLastKept, InStore, InRequest
  <2>2. CASE UNCHANGED vars
    BY <2>2 DEF vars, IInv, Types, StoreType, IdType, ConnType, KeptInv,
           StoreIsLast, TwoAreShared, FindsLastKept, InStore, InRequest
  <2> QED BY <2>1, <2>2, RestoreInv, SaveInv, EraseInv, KeepInv, CleanupInv, TickInv DEF Next
<1> QED BY InitInv, <1>1, PTL DEF Spec

\* Every variable of the session store has its type.
THEOREM TypeCorrect == Spec => []TypeOK
<1>1. IInv => TypeOK
  BY DEF IInv, Types, StoreType, IdType, ConnType, TypeOK
<1> QED BY Invariant, <1>1, PTL

\* A page finds in its session what the request before it has left there for
\* the same address, or nothing, unless requests of the session overlapped.
THEOREM LastKeptIsFound == Spec => []FindsLastKept
<1>1. IInv => FindsLastKept
  BY DEF IInv, KeptInv
<1> QED BY Invariant, <1>1, PTL

-----------------------------------------------------------------------------
(***************************************************************************)
(* SingleSession: the accepting thread and the session thread on one list. *)
(***************************************************************************)

(* Types. Elements are made one after the other.                           *)
ListType ==
  /\ made \in 0 .. MaxElements
  /\ list \in Seq(Elements) /\ Len(list) <= made
  /\ \A e \in Elements : InList(e) => e <= made

RestType ==
  /\ waiting \in 0 .. MaxClients /\ came \in waiting .. MaxClients
  /\ ready \in BOOLEAN /\ stop \in BOOLEAN /\ wstop \in BOOLEAN
  /\ spc \in {"loop", "setport", "accept", "check", "start", "join", "ended",
              "crashed"}
  /\ port \in [Elements -> {"null", "idle", "live", "dead"}]
  /\ init \subseteq Elements /\ served \subseteq init
  /\ wpc \in {"off", "top", "test", "use", "busy", "crashed"}
  /\ it \in 0 .. made /\ left \in 0 .. MaxElements
  /\ fault \in {"none", "null", "freed"}

(* The element under construction: it is not admitted, and until it is     *)
(* accepted no one else erases it.                                         *)
Building == spc \in {"setport", "accept", "check"}

HalfBuilt ==
  /\ Building => made # 0 /\ made \notin init
  /\ spc \in {"setport", "accept"} =>
       InList(made) /\ port[made] = IF spc = "setport" THEN "null" ELSE "idle"
  /\ spc = "check" => port[made] # "null"
  /\ \A e \in Elements : e > made => port[e] = "null"

(* An admitted element has a port, and one that the session thread is at   *)
(* stays in the list until the server has ended.                           *)
Admitted ==
  /\ \A e \in init : e <= made /\ port[e] # "null"
  /\ wpc = "busy" => it \in init
  /\ wpc \in {"test", "use", "busy"} /\ it \in init => InList(it) \/ spc = "ended"

SharedInv == ListType /\ RestType /\ HalfBuilt /\ Admitted

USE SingleLimitsAssumption

\* What is left of a sequence after an element of it has been taken out.
LEMMA RemoveIs ==
  ASSUME NEW S, NEW s \in Seq(S), NEW n \in 1 .. Len(s)
  PROVE  /\ RemoveAt(s, n) \in Seq(S) /\ Len(RemoveAt(s, n)) = Len(s) - 1
         /\ \A i \in 1 .. n - 1 : RemoveAt(s, n)[i] = s[i]
         /\ \A i \in n .. Len(s) - 1 : RemoveAt(s, n)[i] = s[i + 1]
<1> DEFINE a == SubSeq(s, 1, n - 1)
           b == SubSeq(s, n + 1, Len(s))
<1>1. a \in Seq(S) /\ Len(a) = n - 1 /\ \A i \in 1 .. n - 1 : a[i] = s[i]
  OBVIOUS
<1>2. /\ b \in Seq(S) /\ Len(b) = Len(s) - n
      /\ \A i \in 1 .. Len(s) - n : b[i] = s[n + i]
  OBVIOUS
<1>3. RemoveAt(s, n) = a \o b
  BY DEF RemoveAt
<1>4. Len(s) \in Nat /\ n \in Nat \ {0} /\ n <= Len(s)
  OBVIOUS
<1> HIDE DEF a, b
<1>5. /\ a \o b \in Seq(S) /\ Len(a \o b) = Len(a) + Len(b)
      /\ \A i \in 1 .. Len(a) + Len(b) :
           (a \o b)[i] = IF i <= Len(a) THEN a[i] ELSE b[i - Len(a)]
  BY <1>1, <1>2, ConcatProperties
<1>6. Len(a) + Len(b) = Len(s) - 1
  BY <1>1, <1>2, <1>4
<1>7. ASSUME NEW i \in 1 .. n - 1 PROVE (a \o b)[i] = s[i]
  <2>1. i \in 1 .. Len(s) - 1 /\ i <= Len(a)
    BY <1>1, <1>4
  <2> QED BY <1>5, <1>6, <1>1, <2>1
<1>8. ASSUME NEW i \in n .. Len(s) - 1 PROVE (a \o b)[i] = s[i + 1]
  <2>1. i \in 1 .. Len(s) - 1 /\ ~(i <= Len(a)) /\ i - Len(a) = i - (n - 1)
    BY <1>1, <1>4
  <2>2. i - (n - 1) \in 1 .. Len(s) - n /\ n + (i - (n - 1)) = i + 1
    BY <1>4
  <2>3. (a \o b)[i] = b[i - (n - 1)]
    BY <1>5, <1>6, <2>1
  <2>4. b[i - (n - 1)] = s[n + (i - (n - 1))]
    BY <1>2, <2>2
  <2> QED BY <2>2, <2>3, <2>4
<1> QED BY <1>3, <1>5, <1>6, <1>7, <1>8

\* Erasing an element keeps the others, the next one among them.
LEMMA EraseKeeps ==
  ASSUME ListType, NEW e \in Elements, InList(e), Erase(e)
  PROVE  /\ list' \in Seq(Elements) /\ Len(list') <= Len(list)
         /\ \A d : InList(d)' => InList(d)
         /\ \A d : InList(d) /\ d # e => InList(d)'
         /\ After(e) = 0 \/ Contains(list', After(e))
<1> DEFINE n == At(e)
<1>1. n \in 1 .. Len(list) /\ list[n] = e
  BY DEF At, InList, Contains
<1> HIDE DEF n
<1>2. list \in Seq(Elements) /\ Len(list) \in Nat /\ n \in Nat \ {0} /\ n <= Len(list)
  BY <1>1 DEF ListType
<1>3. list' = RemoveAt(list, n)
  BY DEF Erase, n
<1>4. /\ list' \in Seq(Elements) /\ Len(list') = Len(list) - 1
      /\ \A i \in 1 .. n - 1 : list'[i] = list[i]
      /\ \A i \in n .. Len(list) - 1 : list'[i] = list[i + 1]
  BY <1>1, <1>2, <1>3, RemoveIs
<1>5. ASSUME NEW d, InList(d)' PROVE InList(d)
  <2>1. PICK i \in 1 .. Len(list) - 1 : list'[i] = d
    BY <1>4, <1>5 DEF InList, Contains
  <2>2. i \in 1 .. Len(list) /\ i + 1 \in 1 .. Len(list)
    BY <1>2
  <2>3. CASE i < n
    BY <1>2, <1>4, <2>1, <2>2, <2>3 DEF InList, Contains
  <2>4. CASE i >= n
    BY <1>2, <1>4, <2>1, <2>2, <2>4 DEF InList, Contains
  <2> QED BY <1>2, <2>3, <2>4
<1>6. ASSUME NEW d, InList(d), d # e PROVE InList(d)'
  <2>1. PICK i \in 1 .. Len(list) : list[i] = d
    BY <1>6 DEF InList, Contains
  <2>2. CASE i < n
    <3>1. i \in 1 .. n - 1 /\ i \in 1 .. Len(list')
      BY <1>2, <1>4, <2>2
    <3> QED BY <1>4, <2>1, <3>1 DEF InList, Contains
  <2>3. CASE i > n
    <3>1. i - 1 \in n .. Len(list) - 1 /\ i - 1 \in 1 .. Len(list') /\ (i - 1) + 1 = i
      BY <1>2, <1>4, <2>3
    <3>2. list'[i - 1] = d
      BY <1>4, <2>1, <3>1
    <3> QED BY <3>1, <3>2 DEF InList, Contains
  <2> QED BY <1>1, <1>2, <1>6, <2>1, <2>2, <2>3
<1>7. After(e) = 0 \/ Contains(list', After(e))
  <2>1. CASE n < Len(list)
    <3>1. n \in n .. Len(list) - 1 /\ n \in 1 .. Len(list')
      BY <1>2, <1>4, <2>1
    <3>2. list'[n] = After(e)
      BY <1>4, <2>1, <3>1 DEF After, n
    <3> QED BY <3>1, <3>2 DEF Contains
  <2>2. CASE ~(n < Len(list))
    BY <2>2 DEF After, n
  <2> QED BY <2>1, <2>2
<1> QED BY <1>2, <1>4, <1>5, <1>6, <1>7

\* What is in the list, next in it, or its head, is an element that was made.
LEMMA ListLemma ==
  ASSUME ListType
  PROVE  /\ \A e : InList(e) => e \in Elements /\ e <= made /\ e # 0
         /\ \A e : InList(e) => After(e) = 0 \/ InList(After(e))
         /\ list # <<>> => InList(Head(list))
<1>1. list \in Seq(Elements) /\ Len(list) \in Nat
  BY DEF ListType
<1>2. ASSUME NEW e, InList(e) PROVE e \in Elements /\ e <= made /\ e # 0
  <2>1. e \in Elements
    BY <1>1, <1>2 DEF InList, Contains
  <2> QED BY <1>2, <2>1 DEF ListType, Elements
<1>3. ASSUME NEW e, InList(e) PROVE After(e) = 0 \/ InList(After(e))
  <2>1. At(e) \in 1 .. Len(list)
    BY <1>3 DEF At, InList, Contains
  <2>2. CASE At(e) < Len(list)
    <3>1. At(e) + 1 \in 1 .. Len(list) /\ After(e) = list[At(e) + 1]
      BY <1>1, <2>1, <2>2 DEF After
    <3> QED BY <3>1 DEF InList, Contains
  <2>3. CASE ~(At(e) < Len(list))
    BY <2>3 DEF After
  <2> QED BY <2>2, <2>3
<1>4. list # <<>> => InList(Head(list))
  <2> SUFFICES ASSUME list # <<>> PROVE InList(Head(list))
    OBVIOUS
  <2>1. 1 \in 1 .. Len(list) /\ Head(list) = list[1]
    BY <1>1
  <2> QED BY <2>1 DEF InList, Contains
<1> QED BY <1>2, <1>3, <1>4

\* No element has been made.
LEMMA SharedInit == SingleInit => SharedInv
<1> SUFFICES ASSUME SingleInit PROVE SharedInv
  OBVIOUS
<1>1. list = <<>> /\ list \in Seq(Elements) /\ Len(list) = 0
  BY DEF SingleInit
<1>2. \A e : ~InList(e)
  BY <1>1 DEF InList, Contains
<1>3. ListType
  BY <1>1, <1>2 DEF SingleInit, ListType
<1>4. RestType
  <2>1. port \in [Elements -> {"null", "idle", "live", "dead"}]
    BY DEF SingleInit
  <2>2. /\ waiting \in 0 .. MaxClients /\ came \in waiting .. MaxClients
        /\ it \in 0 .. made /\ left \in 0 .. MaxElements
    BY DEF SingleInit
  <2>3. ready \in BOOLEAN /\ stop \in BOOLEAN /\ wstop \in BOOLEAN
    BY DEF SingleInit
  <2> QED BY <2>1, <2>2, <2>3 DEF SingleInit, RestType
<1>5. /\ spc = "loop" /\ wpc = "off" /\ init = {}
      /\ \A e \in Elements : port[e] = "null"
  BY DEF SingleInit
<1>6. HalfBuilt /\ Admitted
  BY <1>5 DEF HalfBuilt, Building, Admitted
<1> QED BY <1>3, <1>4, <1>6 DEF SharedInv

-----------------------------------------------------------------------------
\* An element is made: it is in the list, and no one knows it yet.
LEMMA NewElementInv == ASSUME SharedInv, NewElement PROVE SharedInv'
<1>1. /\ spc = "loop" /\ made < MaxElements /\ made' = made + 1 /\ spc' = "setport"
      /\ list' = Append(list, made') /\ ready' = TRUE
      /\ UNCHANGED <<waiting, came, stop, port, init, served, wpc, wstop, it, left, fault>>
  BY DEF NewElement, AcceptEvent, workVars
<1>2. /\ made \in Nat /\ made' \in Elements /\ made' \in 0 .. MaxElements
      /\ list \in Seq(Elements) /\ Len(list) \in Nat /\ Len(list) <= made
  BY <1>1 DEF SharedInv, ListType, Elements
<1>3. /\ list' \in Seq(Elements) /\ Len(list') = Len(list) + 1
      /\ \A i \in 1 .. Len(list) : list'[i] = list[i]
      /\ list'[Len(list) + 1] = made'
  BY <1>1, <1>2
<1>4. \A d : InList(d)' => InList(d) \/ d = made'
  <2> SUFFICES ASSUME NEW d, InList(d)' PROVE InList(d) \/ d = made'
    OBVIOUS
  <2>1. PICK i \in 1 .. Len(list) + 1 : list'[i] = d
    BY <1>3 DEF InList, Contains
  <2>2. i \in 1 .. Len(list) \/ i = Len(list) + 1
    BY <1>2
  <2> QED BY <1>3, <2>1, <2>2 DEF InList, Contains
<1>5. \A d : InList(d) => InList(d)'
  <2> SUFFICES ASSUME NEW d, InList(d) PROVE InList(d)'
    OBVIOUS
  <2>1. PICK i \in 1 .. Len(list) : list[i] = d
    BY DEF InList, Contains
  <2>2. i \in 1 .. Len(list') /\ list'[i] = d
    BY <1>2, <1>3, <2>1
  <2> QED BY <2>2 DEF InList, Contains
<1>6. InList(made)'
  <2>1. Len(list) + 1 \in 1 .. Len(list')
    BY <1>2, <1>3
  <2> QED BY <1>3, <2>1 DEF InList, Contains
<1>7. ListType'
  <2>1. ASSUME NEW e \in Elements, InList(e)' PROVE e <= made'
    <3>1. e \in Nat /\ (e <= made \/ e = made')
      BY <1>4, <2>1 DEF SharedInv, ListType, Elements
    <3> QED BY <1>1, <1>2, <3>1
  <2> QED BY <1>1, <1>2, <1>3, <2>1 DEF ListType
<1>8. RestType'
  <2>1. it \in 0 .. made'
    BY <1>1, <1>2 DEF SharedInv, RestType
  <2> QED BY <1>1, <2>1 DEF SharedInv, RestType
<1>9. \A e \in init : e \in Nat /\ e <= made /\ port[e] # "null"
  BY DEF SharedInv, Admitted, RestType, Elements
<1>10. HalfBuilt'
  <2>1. made' # 0 /\ made' \notin init /\ port[made'] = "null"
    BY <1>1, <1>2, <1>9 DEF SharedInv, HalfBuilt
  <2>2. \A e \in Elements : e > made' => port[e] = "null"
    BY <1>1, <1>2 DEF SharedInv, HalfBuilt, Elements
  <2> QED BY <1>1, <1>6, <2>1, <2>2 DEF HalfBuilt, Building
<1>11. Admitted'
  <2>1. \A e \in init : e <= made'
    BY <1>1, <1>2, <1>9
  <2> QED BY <1>1, <1>5, <1>9, <2>1 DEF SharedInv, Admitted
<1> QED BY <1>7, <1>8, <1>10, <1>11 DEF SharedInv

\* The element that is built gets its port, and its socket.
LEMMA BuildInv == ASSUME SharedInv, SetPort \/ Accept PROVE SharedInv'
<1>1. \E p \in {"idle", "live"} : port' = [port EXCEPT ![made] = p]
  BY DEF SetPort, Accept
<1>2. made \in Elements /\ made \notin init /\ Building
  BY DEF SharedInv, HalfBuilt, Building, ListType, SetPort, Accept, Elements
<1>3. /\ port' \in [Elements -> {"null", "idle", "live", "dead"}]
      /\ port'[made] = IF SetPort THEN "idle" ELSE port'[made]
      /\ port'[made] # "null"
      /\ \A e \in Elements : e # made => port'[e] = port[e]
  BY <1>1, <1>2 DEF SharedInv, RestType, SetPort
<1>4. UNCHANGED <<list, made, init, served, it, wpc, wstop, left, stop, fault, came>>
  BY DEF SetPort, Accept, workVars, socketVars
<1>5. ListType'
  BY <1>4 DEF SharedInv, ListType, InList
<1>6. RestType'
  BY <1>3, <1>4 DEF SharedInv, RestType, SetPort, Accept, socketVars
<1>7. HalfBuilt'
  <2>1. made \in Nat /\ \A e \in Elements : e > made => e # made
    BY DEF SharedInv, ListType, Elements
  <2>2. \A e \in Elements : e > made => port'[e] = "null"
    BY <1>3, <2>1 DEF SharedInv, HalfBuilt
  <2>3. CASE SetPort
    BY <1>2, <1>3, <1>4, <2>2, <2>3 DEF SharedInv, HalfBuilt, Building, InList, SetPort
  <2>4. CASE Accept
    BY <1>2, <1>3, <1>4, <2>2, <2>4 DEF SharedInv, HalfBuilt, Building, Accept
  <2> QED BY <2>3, <2>4
<1>8. Admitted'
  BY <1>2, <1>3, <1>4 DEF SharedInv, Admitted, RestType, InList, SetPort, Accept
<1> QED BY <1>5, <1>6, <1>7, <1>8 DEF SharedInv

\* The server takes back the element that it has not admitted.
LEMMA TakeBackInv == ASSUME SharedInv, AcceptFails \/ Refuse PROVE SharedInv'
<1>1. made \in Elements /\ made \notin init /\ Building /\ InList(made) /\ Erase(made)
  BY DEF SharedInv, HalfBuilt, Building, ListType, AcceptFails, Refuse, Elements
<1>2. /\ spc' \in {"loop", "start"}
      /\ UNCHANGED <<made, port, init, served, it, wpc, wstop, left, stop, fault, came, waiting>>
  BY DEF AcceptFails, Refuse, workVars, socketVars
<1>3. /\ list' \in Seq(Elements) /\ Len(list') <= Len(list)
      /\ \A d : InList(d)' => InList(d)
      /\ \A d : InList(d) /\ d # made => InList(d)'
  BY <1>1, EraseKeeps DEF SharedInv
<1>4. ListType'
  <2>1. Len(list') \in Nat /\ Len(list) \in Nat /\ made \in Nat
    BY <1>3 DEF SharedInv, ListType
  <2> QED BY <1>2, <1>3, <2>1 DEF SharedInv, ListType
<1>5. RestType'
  BY <1>2 DEF SharedInv, RestType, AcceptFails, Refuse, socketVars
<1>6. HalfBuilt'
  BY <1>2 DEF SharedInv, HalfBuilt, Building
<1>7. Admitted'
  BY <1>1, <1>2, <1>3 DEF SharedInv, Admitted, Building
<1> QED BY <1>4, <1>5, <1>6, <1>7 DEF SharedInv

\* Admission: the element is in the list and has a port.
LEMMA InformInv == ASSUME SharedInv, InformSession PROVE SharedInv'
<1>1. /\ made \in Elements /\ spc = "check" /\ InList(made) /\ port[made] # "null"
      /\ init' = init \cup {made} /\ spc' = "start"
      /\ UNCHANGED <<waiting, came, ready, stop, made, list, port, served, wpc, wstop, it,
                     left, fault>>
  BY DEF SharedInv, HalfBuilt, Building, ListType, InformSession, Elements, socketVars, workVars
<1>2. ListType'
  BY <1>1 DEF SharedInv, ListType, InList
<1>3. RestType'
  BY <1>1 DEF SharedInv, RestType
<1>4. HalfBuilt'
  BY <1>1 DEF SharedInv, HalfBuilt, Building
<1>5. Admitted'
  <2>1. made \in Nat
    BY DEF SharedInv, ListType
  <2> QED BY <1>1, <2>1 DEF SharedInv, Admitted, InList
<1> QED BY <1>2, <1>3, <1>4, <1>5 DEF SharedInv

\* The other steps of the server and of its users leave the elements alone,
\* until the server has ended.
LEMMA ServerRest ==
  ASSUME SharedInv, Connect \/ Stop \/ NoElement \/ StartWorker \/ StopWorker \/ EndThread
  PROVE  SharedInv'
<1>1. UNCHANGED <<made, port, init, served, it, left, fault>>
  BY DEF Connect, Stop, NoElement, StartWorker, StopWorker, EndThread, serverVars, elemVars, workVars
<1>2. \/ UNCHANGED list /\ UNCHANGED spc
      \/ UNCHANGED list /\ spc' \in {"loop", "join"} /\ spc # "ended"
      \/ list' = <<>> /\ spc' = "ended"
  BY DEF Connect, Stop, NoElement, StartWorker, StopWorker, EndThread, serverVars, elemVars
<1>3. wpc' = wpc \/ wpc' = "top"
  BY DEF Connect, Stop, NoElement, StartWorker, StopWorker, EndThread, workVars
<1>4. ListType'
  <2>1. CASE UNCHANGED list
    BY <1>1, <2>1 DEF SharedInv, ListType, InList
  <2>2. CASE list' = <<>>
    <3>1. list' \in Seq(Elements) /\ Len(list') = 0 /\ \A e : ~InList(e)'
      BY <2>2 DEF InList, Contains
    <3> QED BY <1>1, <3>1 DEF SharedInv, ListType
  <2> QED BY <1>2, <2>1, <2>2
<1>5. RestType'
  <2>1. CASE Connect
    BY <1>1, <2>1 DEF SharedInv, RestType, Connect, serverVars, workVars
  <2>2. CASE Stop \/ NoElement \/ StopWorker
    BY <1>1, <2>2 DEF SharedInv, RestType, Stop, NoElement, StopWorker, socketVars, serverVars,
       workVars
  <2>3. CASE StartWorker
    BY <1>1, <2>3 DEF SharedInv, RestType, StartWorker, socketVars
  <2>4. CASE EndThread
    <3>1. UNCHANGED <<wpc, wstop, came, stop>> /\ waiting' = 0 /\ ready' = FALSE /\ spc' = "ended"
      BY <2>4 DEF EndThread, workVars
    <3>2. came \in Nat /\ came <= MaxClients
      BY DEF SharedInv, RestType
    <3>3. waiting' \in 0 .. MaxClients /\ came' \in waiting' .. MaxClients
      BY <3>1, <3>2
    <3>4. ready' \in BOOLEAN /\ stop' \in BOOLEAN /\ wstop' \in BOOLEAN
      BY <3>1 DEF SharedInv, RestType
    <3> QED BY <1>1, <3>1, <3>3, <3>4 DEF SharedInv, RestType
  <2> QED BY <2>1, <2>2, <2>3, <2>4
<1>6. HalfBuilt'
  BY <1>1, <1>2 DEF SharedInv, HalfBuilt, Building, InList
<1>7. Admitted'
  BY <1>1, <1>2, <1>3 DEF SharedInv, Admitted, InList
<1> QED BY <1>4, <1>5, <1>6, <1>7 DEF SharedInv

\* A fault changes nothing else.
LEMMA CrashInv ==
  ASSUME SharedInv, NEW f \in {"null", "freed"}, Crash(f) PROVE SharedInv'
<1>1. ListType' /\ RestType'
  BY DEF SharedInv, ListType, InList, RestType, Crash, elemVars, socketVars
<1>2. HalfBuilt' /\ Admitted'
  BY DEF SharedInv, HalfBuilt, Building, Admitted, Crash, elemVars
<1> QED BY <1>1, <1>2 DEF SharedInv

-----------------------------------------------------------------------------
\* A step along the list stays at elements that are in it.
LEMMA WalkInv ==
  ASSUME SharedInv, WorkerStops \/ BeginPass \/ TestMore \/ SkipElement \/ EraseNotLocked \/ BeginUpdate
  PROVE  SharedInv'
<1>1. UNCHANGED <<waiting, came, ready, spc, stop, made, list, port, init, served, wstop, fault>>
  BY DEF WorkerStops, BeginPass, TestMore, SkipElement, EraseNotLocked, BeginUpdate, socketVars,
         serverVars, elemVars
<1>2. /\ it' \in 0 .. made /\ left' \in 0 .. MaxElements
      /\ wpc' \in {"off", "top", "test", "use", "busy"}
      /\ wpc' = "busy" => it' \in init
      /\ wpc' \in {"test", "use", "busy"} => \/ it' = it /\ wpc \in {"test", "use", "busy"}
                                             \/ InList(it')
  <2>1. CASE WorkerStops
    BY <2>1 DEF SharedInv, RestType, WorkerStops
  <2>2. CASE BeginPass
    <3>1. InList(Head(list))
      BY <2>2, ListLemma DEF SharedInv, BeginPass
    <3>2. Head(list) \in 0 .. made
      BY <3>1, ListLemma DEF SharedInv, ListType, Elements
    <3>3. Len(list) \in 0 .. MaxElements
      BY DEF SharedInv, ListType
    <3> QED BY <2>2, <3>1, <3>2, <3>3 DEF BeginPass
  <2>3. CASE TestMore
    BY <2>3 DEF SharedInv, RestType, TestMore
  <2>4. CASE SkipElement
    BY <2>4 DEF SharedInv, RestType, SkipElement
  <2>5. CASE BeginUpdate
    BY <2>5 DEF SharedInv, RestType, BeginUpdate, MayBeValid
  <2>6. CASE EraseNotLocked
    BY <2>6 DEF SharedInv, RestType, EraseNotLocked
  <2> QED BY <2>1, <2>2, <2>3, <2>4, <2>5, <2>6
<1>3. ListType' /\ HalfBuilt'
  BY <1>1 DEF SharedInv, ListType, HalfBuilt, Building, InList
<1>4. RestType'
  BY <1>1, <1>2 DEF SharedInv, RestType
<1>5. Admitted'
  BY <1>1, <1>2 DEF SharedInv, Admitted, InList
<1> QED BY <1>3, <1>4, <1>5 DEF SharedInv

\* The session thread erases an accepted element, and goes to the next one.
LEMMA EraseInvalidInv == ASSUME SharedInv, EraseInvalid PROVE SharedInv'
<1>1. /\ InList(it) /\ port[it] = "live" /\ Erase(it) /\ it' = After(it) /\ wpc' = "test"
      /\ UNCHANGED <<waiting, came, ready, spc, stop, made, port, init, served, wstop, left,
                     fault>>
  BY DEF EraseInvalid, socketVars, serverVars
<1>2. it \in Elements
  BY <1>1, ListLemma DEF SharedInv
<1>a. /\ list' \in Seq(Elements) /\ Len(list') <= Len(list)
      /\ \A d : InList(d)' => InList(d)
      /\ \A d : InList(d) /\ d # it => InList(d)'
      /\ After(it) = 0 \/ Contains(list', After(it))
  BY <1>1, <1>2, EraseKeeps DEF SharedInv
<1>b. it' = 0 \/ InList(it)'
  BY <1>1, <1>a DEF InList
<1>3. /\ list' \in Seq(Elements) /\ Len(list') <= Len(list)
      /\ \A d : InList(d)' => InList(d)
      /\ \A d : InList(d) /\ d # it => InList(d)'
      /\ it' = 0 \/ InList(it)'
  BY <1>a, <1>b
<1>4. ListType'
  <2>1. Len(list') \in Nat /\ Len(list) \in Nat /\ made \in Nat
    BY <1>3 DEF SharedInv, ListType
  <2> QED BY <1>1, <1>3, <2>1 DEF SharedInv, ListType
<1>5. RestType'
  <2>1. it' \in 0 .. made
    <3>1. it' = 0 \/ (it' \in Elements /\ it' <= made)
      <4>1. it' = 0 \/ InList(it')
        BY <1>1, ListLemma DEF SharedInv
      <4> QED BY <4>1, ListLemma DEF SharedInv
    <3> QED BY <3>1 DEF SharedInv, ListType, Elements
  <2> QED BY <1>1, <2>1 DEF SharedInv, RestType
<1>6. HalfBuilt'
  BY <1>1, <1>3 DEF SharedInv, HalfBuilt, Building
<1>7. Admitted'
  <2>1. 0 \notin init
    BY DEF SharedInv, RestType, Elements
  <2> QED BY <1>1, <1>3, <2>1 DEF SharedInv, Admitted
<1> QED BY <1>4, <1>5, <1>6, <1>7 DEF SharedInv

\* The session of an admitted element has been worked on.
LEMMA EndUpdateInv == ASSUME SharedInv, EndUpdate PROVE SharedInv'
<1>1. /\ wpc = "busy" /\ InList(it) /\ served' = served \cup {it} /\ it' = After(it)
      /\ wpc' = "test"
      /\ UNCHANGED <<waiting, came, ready, spc, stop, made, list, init, wstop, left, fault>>
  BY DEF EndUpdate, socketVars, serverVars
<1>2. it \in init /\ it \in Elements
  BY <1>1, ListLemma DEF SharedInv, Admitted
<1>3. /\ port' \in [Elements -> {"null", "idle", "live", "dead"}]
      /\ port'[it] # "null" /\ \A e \in Elements : e # it => port'[e] = port[e]
  BY <1>2 DEF EndUpdate, SharedInv, RestType
<1>4. it' = 0 \/ InList(it)'
  BY <1>1, ListLemma DEF SharedInv, InList
<1>5. ListType'
  BY <1>1 DEF SharedInv, ListType, InList
<1>6. RestType'
  <2>1. it' \in 0 .. made
    <3>1. it' = 0 \/ (it' \in Elements /\ it' <= made)
      <4>1. it' = 0 \/ InList(it')
        BY <1>1, <1>4 DEF InList
      <4> QED BY <4>1, ListLemma DEF SharedInv
    <3> QED BY <3>1 DEF SharedInv, ListType, Elements
  <2> QED BY <1>1, <1>2, <1>3, <2>1 DEF SharedInv, RestType
<1>7. HalfBuilt'
  <2>1. it <= made /\ made \in Nat /\ it \in Nat
    BY <1>2 DEF SharedInv, Admitted, ListType, Elements
  <2>2. \A e \in Elements : e > made => e # it
    BY <2>1 DEF Elements
  <2>3. Building => made \in Elements /\ made # it
    BY <1>2, <2>1 DEF SharedInv, HalfBuilt, ListType, Elements
  <2> QED BY <1>1, <1>3, <2>2, <2>3 DEF SharedInv, HalfBuilt, Building, InList
<1>8. Admitted'
  <2>1. 0 \notin init
    BY DEF SharedInv, RestType, Elements
  <2> QED BY <1>1, <1>2, <1>3, <1>4, <2>1 DEF SharedInv, Admitted, RestType
<1> QED BY <1>5, <1>6, <1>7, <1>8 DEF SharedInv

-----------------------------------------------------------------------------
\* The invariant is inductive.
THEOREM SharedInvariant == SingleSpec => []SharedInv
<1>1. SharedInv /\ [SingleNext]_singleVars => SharedInv'
  <2> SUFFICES ASSUME SharedInv, [SingleNext]_singleVars PROVE SharedInv'
    OBVIOUS
  <2>1. CASE Server
    BY <2>1, NewElementInv, BuildInv, TakeBackInv, InformInv, ServerRest, CrashInv
       DEF Server, ServerFault
  <2>2. CASE Worker
    BY <2>2, WalkInv, EraseInvalidInv, EndUpdateInv, CrashInv DEF Worker, WorkerFault
  <2>3. CASE UNCHANGED singleVars
    BY <2>3 DEF singleVars, SharedInv, ListType, RestType, HalfBuilt, Building, Admitted, InList
  <2> QED BY <2>1, <2>2, <2>3, ServerRest DEF SingleNext
<1> QED BY SharedInit, <1>1, PTL DEF SingleSpec

\* Every variable of the shared list and of its two threads has its type.
THEOREM SingleTypeCorrect == SingleSpec => []SingleTypeOK
<1>1. SharedInv => SingleTypeOK
  <2> SUFFICES ASSUME SharedInv PROVE SingleTypeOK
    OBVIOUS
  <2>1. Len(list) \in Nat /\ list \in Seq(Elements)
    BY DEF SharedInv, ListType
  <2>2. list \in Seq(1 .. made)
    <3>1. ASSUME NEW i \in 1 .. Len(list) PROVE list[i] \in 1 .. made
      <4>1. list[i] \in Elements /\ InList(list[i])
        BY <2>1, <3>1 DEF InList, Contains
      <4> QED BY <4>1 DEF SharedInv, ListType, Elements
    <3>2. list \in [1 .. Len(list) -> Elements]
      BY <2>1, LenProperties
    <3>3. list \in [1 .. Len(list) -> 1 .. made]
      BY <3>1, <3>2
    <3>4. Seq(1 .. made) = UNION {[1 .. n -> 1 .. made] : n \in Nat}
      BY SeqDef
    <3> QED BY <2>1, <3>3, <3>4, Zenon
  <2>3. left \in 0 .. Len(list) + MaxElements
    BY <2>1 DEF SharedInv, RestType
  <2> QED BY <2>2, <2>3 DEF SharedInv, ListType, RestType, SingleTypeOK
<1> QED BY SharedInvariant, <1>1, PTL

(* The admitted sessions that are in the list. *)
Sessions == {e \in init : InList(e)}

\* A set of elements of the list is no larger than the list.
LEMMA ListBounds ==
  ASSUME ListType, NEW S, \A e \in S : InList(e)
  PROVE  IsFiniteSet(S) /\ Cardinality(S) \in Nat /\ Cardinality(S) <= Len(list)
<1> DEFINE n    == Len(list)
           at(e) == CHOOSE i \in 1 .. n : list[i] = e
           f    == [e \in S |-> at(e)]
<1>1. n \in Nat
  BY DEF ListType
<1>2. \A e \in S : at(e) \in 1 .. n /\ list[at(e)] = e
  BY DEF InList, Contains
<1> HIDE DEF at, n
<1>3. f \in Injection(S, 1 .. n)
  BY <1>2 DEF Injection, IsInjective
<1>4. IsFiniteSet(1 .. n) /\ Cardinality(1 .. n) = n
  <2>1. 1 \in Int /\ n \in Int /\ (IF 1 > n THEN 0 ELSE n - 1 + 1) = n
    BY <1>1
  <2>2. IsFiniteSet(1 .. n) /\ Cardinality(1 .. n) = IF 1 > n THEN 0 ELSE n - 1 + 1
    BY <2>1, FS_Interval
  <2> QED BY <2>1, <2>2
<1> HIDE DEF f
<1>5. IsFiniteSet(S) /\ Cardinality(S) <= n
  BY <1>3, <1>4, FS_Injection
<1>6. Cardinality(S) \in Nat
  BY <1>5, FS_CardinalityType
<1> QED BY <1>5, <1>6 DEF n

\* Where no session is added, there are not more of them.
LEMMA NotMore ==
  ASSUME ListType, LimitKept, Sessions' \subseteq Sessions
  PROVE  LimitKept'
<1>1. IsFiniteSet(Sessions)
  BY ListBounds DEF Sessions
<1>2. /\ IsFiniteSet(Sessions') /\ Cardinality(Sessions') <= Cardinality(Sessions)
  BY <1>1, FS_Subset
<1>3. Cardinality(Sessions') \in Nat /\ Cardinality(Sessions) \in Nat
  BY <1>1, <1>2, FS_CardinalityType
<1>4. Cardinality(Sessions) < MaxConnections
  BY DEF LimitKept, Sessions
<1>5. Cardinality(Sessions') < MaxConnections
  BY <1>2, <1>3, <1>4
<1> QED BY <1>5 DEF LimitKept, Sessions

\* An admitted element that is in the list was in it before, unless it has just
\* been admitted.
LEMMA InListBefore ==
  ASSUME SharedInv, [SingleNext]_singleVars, ~InformSession,
         NEW d \in init, InList(d)'
  PROVE  InList(d)
<1>1. CASE NewElement
  <2>1. /\ list \in Seq(Elements) /\ Len(list) \in Nat /\ list' = Append(list, made + 1)
        /\ made \in Nat
    BY <1>1 DEF NewElement, SharedInv, ListType
  <2>2. PICK i \in 1 .. Len(list) + 1 : list'[i] = d
    BY <2>1 DEF InList, Contains
  <2>3. d <= made
    BY DEF SharedInv, Admitted
  <2>4. CASE i = Len(list) + 1
    BY <2>1, <2>2, <2>3, <2>4
  <2>5. CASE i \in 1 .. Len(list)
    <3>1. list[i] = d
      BY <2>1, <2>2, <2>5
    <3> QED BY <2>5, <3>1 DEF InList, Contains
  <2> QED BY <2>1, <2>4, <2>5
<1>2. CASE AcceptFails \/ Refuse
  <2>1. made \in Elements /\ InList(made) /\ Erase(made)
    BY <1>2 DEF SharedInv, HalfBuilt, Building, ListType, AcceptFails, Refuse, Elements
  <2> QED BY <2>1, EraseKeeps DEF SharedInv
<1>3. CASE EraseInvalid
  <2>1. it \in Elements /\ InList(it) /\ Erase(it)
    BY <1>3, ListLemma DEF SharedInv, EraseInvalid
  <2> QED BY <2>1, EraseKeeps DEF SharedInv
<1>4. CASE EndThread
  BY <1>4 DEF EndThread, InList, Contains
<1>5. CASE Connect \/ Stop \/ NoElement \/ SetPort \/ Accept \/ ServerFault \/ StartWorker
           \/ StopWorker
  BY <1>5 DEF Connect, Stop, NoElement, SetPort, Accept, ServerFault, StartWorker, StopWorker,
         Crash, elemVars, InList
<1>6. CASE WorkerStops \/ BeginPass \/ TestMore \/ WorkerFault \/ SkipElement
           \/ EraseNotLocked \/ BeginUpdate \/ EndUpdate
  BY <1>6 DEF WorkerStops, BeginPass, TestMore, WorkerFault, SkipElement,
         EraseNotLocked, BeginUpdate, EndUpdate, Crash, elemVars, InList
<1>7. CASE UNCHANGED singleVars
  BY <1>7 DEF singleVars, InList
<1> QED BY <1>1, <1>2, <1>3, <1>4, <1>5, <1>6, <1>7 DEF SingleNext, Server, Worker

\* However the two threads interleave, fewer sessions than the limit are
\* admitted at a time: the server counts the elements, its own one included,
\* and what the session thread does to the list meanwhile only shortens it.
THEOREM LimitKeptHolds == SingleSpec => []LimitKept
<1>1. SingleInit => LimitKept
  <2> SUFFICES ASSUME SingleInit PROVE LimitKept
    OBVIOUS
  <2>1. {e \in init : InList(e)} = {}
    BY DEF SingleInit
  <2>2. Cardinality({}) = 0
    BY FS_EmptySet
  <2> QED BY <2>1, <2>2 DEF LimitKept
<1>2. LimitKept /\ SharedInv /\ SharedInv' /\ [SingleNext]_singleVars => LimitKept'
  <2> SUFFICES ASSUME LimitKept, SharedInv, SharedInv', [SingleNext]_singleVars
               PROVE  LimitKept'
    OBVIOUS
  <2>1. CASE InformSession
    <3>1. UNCHANGED list /\ ~(Len(list) >= MaxConnections)
      BY <2>1 DEF InformSession, TooMany
    <3>2. \A S : ListType /\ (\A e \in S : InList(e)) =>
                   Cardinality(S) \in Nat /\ Cardinality(S) <= Len(list)
      BY ListBounds
    <3>3. \A e \in Sessions' : InList(e)
      BY <3>1 DEF Sessions, InList
    <3>4. Cardinality(Sessions') \in Nat /\ Cardinality(Sessions') <= Len(list)
      BY <3>2, <3>3 DEF SharedInv
    <3>5. Len(list) \in Nat
      BY DEF SharedInv, ListType
    <3>6. Cardinality(Sessions') < MaxConnections
      BY <3>1, <3>4, <3>5
    <3> QED BY <3>6 DEF LimitKept, Sessions
  <2>2. CASE ~InformSession
    <3>1. ASSUME NEW d, d \in Sessions' PROVE d \in Sessions
      <4>1. d \in init' /\ InList(d)'
        BY <3>1 DEF Sessions
      <4>2. UNCHANGED init
        BY <2>2 DEF SingleNext, Server, Worker, Connect, Stop, NoElement, NewElement, SetPort, Accept,
                    AcceptFails, Refuse, ServerFault, StartWorker, StopWorker, EndThread,
                    WorkerStops, BeginPass, TestMore, WorkerFault, SkipElement, EraseInvalid,
                    EraseNotLocked, BeginUpdate, EndUpdate, Crash, elemVars, singleVars
      <4>3. InList(d)
        BY <2>2, <4>1, <4>2, InListBefore
      <4> QED BY <4>1, <4>2, <4>3 DEF Sessions
    <3>2. ListType
      BY DEF SharedInv
    <3> QED BY <3>1, <3>2, NotMore
  <2> QED BY <2>1, <2>2
<1> QED BY SharedInvariant, <1>1, <1>2, PTL DEF SingleSpec

\* The race of the two threads on the list costs no admitted client its
\* session: where a thread meets an element that is half-built or freed, the
\* server is at its own new element or has ended, or the element that the
\* session thread is at was never admitted.
THEOREM AdmittedUntouchedHolds == SingleSpec => AdmittedUntouched
<1>1. SharedInv /\ [SingleNext]_singleVars =>
        [fault' # fault => \/ spc = "check" /\ ~InList(made)
                           \/ spc = "ended"
                           \/ it \notin init]_singleVars
  <2> SUFFICES ASSUME SharedInv, SingleNext, fault' # fault
               PROVE  (spc = "check" /\ ~InList(made)) \/ spc = "ended" \/ it \notin init
    OBVIOUS
  <2>1. ServerFault \/ WorkerFault
    BY DEF SingleNext, Server, Worker, Connect, Stop, NoElement, NewElement, SetPort, Accept,
           AcceptFails, Refuse, InformSession, StartWorker, StopWorker, EndThread,
           WorkerStops, BeginPass, TestMore, SkipElement, EraseInvalid, EraseNotLocked,
           BeginUpdate, EndUpdate
  <2>2. CASE ServerFault
    BY <2>2 DEF ServerFault
  <2>3. CASE WorkerFault
    <3>1. wpc \in {"use", "busy"} /\ (~InList(it) \/ port[it] = "null")
      BY <2>3 DEF WorkerFault
    <3> QED BY <3>1 DEF SharedInv, Admitted
  <2> QED BY <2>1, <2>2, <2>3
<1> QED BY SharedInvariant, <1>1, PTL DEF SingleSpec, AdmittedUntouched
=============================================================================
