------------------------- MODULE HttpSession_proofs -------------------------
(***************************************************************************)
(* One connection, for any clients, whatever they send and in whatever     *)
(* pieces it arrives, and for any limit: a reply carries the outcome of    *)
(* its own request unless a bad head came before it; the receive buffer    *)
(* stays below its limit; replies come in the order of the requests; a     *)
(* request is processed with its own body; and none is forgotten.          *)
(***************************************************************************)
EXTENDS HttpSession, SequenceTheorems, WellFoundedInduction, TLAPS

\* A reply to some request.
Reply(reqs) == [req : reqs, own : {200, 400, 404}, code : {200, 400, 404},
                mixed : BOOLEAN, whole : BOOLEAN]

Replies == \E reqs : replies \in Seq(Reply(reqs))

(* What is left in the session between two requests is nothing, or what the *)
(* reply to a bad head has left.                                            *)
Clean     == code = 200 /\ content = FALSE
BadBefore == \E j \in DOMAIN replies : replies[j].own = 400

IInv == /\ Replies /\ code \in {200, 400} /\ content \in BOOLEAN
        /\ Clean \/ BadBefore
        /\ OutcomeUnlessBad

\* Initially nothing is replied.
LEMMA InitInv == Init => IInv
<1> SUFFICES ASSUME Init PROVE IInv
  OBVIOUS
<1>1. replies \in Seq(Reply({})) /\ DOMAIN replies = {}
  BY DEF Init
<1>2. Replies
  BY <1>1 DEF Replies
<1> QED BY <1>1, <1>2 DEF Init, IInv, Clean, OutcomeUnlessBad

\* A reply comes after the others, which stay as they are.
LEMMA SendOne ==
  ASSUME IInv, NEW own \in {200, 400, 404}, NEW sent \in {200, 400, 404},
         SendReply(own, sent)
  PROVE  /\ Replies'
         /\ DOMAIN replies = 1 .. Len(replies) /\ Len(replies) \in Nat
         /\ DOMAIN replies' = 1 .. Len(replies) + 1
         /\ \A i \in 1 .. Len(replies) : replies'[i] = replies[i]
         /\ replies'[Len(replies) + 1].req = Current
         /\ replies'[Len(replies) + 1].own = own
         /\ replies'[Len(replies) + 1].code = sent
         /\ replies'[Len(replies) + 1].mixed = content
<1>1. PICK reqs : replies \in Seq(Reply(reqs))
  BY DEF IInv, Replies
<1>2. PICK w \in BOOLEAN :
        replies' = Append(replies, [req |-> Current, own |-> own, code |-> sent,
                                    mixed |-> content, whole |-> w])
  BY DEF SendReply
<1> DEFINE r == [req |-> Current, own |-> own, code |-> sent, mixed |-> content, whole |-> w]
           all == reqs \cup {Current}
<1>3. r \in Reply(all) /\ r.req = Current /\ r.own = own /\ r.code = sent /\ r.mixed = content
  BY DEF Reply, IInv
<1>4. replies \in Seq(Reply(all))
  <2>1. Reply(reqs) \subseteq Reply(all)
    BY DEF Reply
  <2> HIDE DEF all
  <2> QED BY <1>1, <2>1, SeqMonotonic
<1> HIDE DEF r, all
<1>5. /\ replies' = Append(replies, r)
      /\ replies' \in Seq(Reply(all))
  BY <1>2, <1>3, <1>4 DEF r
<1>6. Replies'
  BY <1>5 DEF Replies
<1> QED BY <1>3, <1>4, <1>5, <1>6

(* A reply with the outcome of its own request, or after a bad head. *)
RightReply(own, sent) ==
  /\ SendReply(own, sent)
  /\ (sent = own /\ content = FALSE) \/ BadBefore
  /\ code' \in {200, 400} /\ content' \in BOOLEAN
  /\ Clean' \/ own = 400

SendsRightly == \E own, sent \in {200, 400, 404} : RightReply(own, sent)

\* A reply with the outcome of its own request, or after a bad head, keeps the
\* replies in order.
LEMMA SendInv == ASSUME IInv, SendsRightly PROVE IInv'
<1>0. PICK own \in {200, 400, 404}, sent \in {200, 400, 404} : RightReply(own, sent)
  BY DEF SendsRightly
<1>1. /\ Replies'
      /\ DOMAIN replies = 1 .. Len(replies) /\ Len(replies) \in Nat
      /\ DOMAIN replies' = 1 .. Len(replies) + 1
      /\ \A i \in 1 .. Len(replies) : replies'[i] = replies[i]
      /\ replies'[Len(replies) + 1].own = own
      /\ replies'[Len(replies) + 1].code = sent
      /\ replies'[Len(replies) + 1].mixed = content
  BY <1>0, SendOne DEF RightReply
<1>2. Clean' \/ BadBefore'
  BY <1>0, <1>1 DEF RightReply, BadBefore
<1>3. OutcomeUnlessBad'
  <2> SUFFICES ASSUME NEW i \in 1 .. Len(replies) + 1
               PROVE  \/ replies'[i].code = replies'[i].own /\ ~replies'[i].mixed
                      \/ \E j \in 1 .. i - 1 : replies'[j].own = 400
    BY <1>1 DEF OutcomeUnlessBad
  <2>1. CASE i = Len(replies) + 1
    <3>1. CASE sent = own /\ content = FALSE
      BY <1>1, <2>1, <3>1
    <3>2. CASE BadBefore
      <4>1. PICK j \in 1 .. Len(replies) : replies[j].own = 400
        BY <1>1, <3>2 DEF BadBefore
      <4>2. j \in 1 .. i - 1 /\ replies'[j].own = 400
        BY <1>1, <2>1, <4>1
      <4> QED BY <4>2
    <3> QED BY <1>0, <3>1, <3>2 DEF RightReply
  <2>2. CASE i # Len(replies) + 1
    <3>1. i \in 1 .. Len(replies) /\ \A j \in 1 .. i - 1 : j \in 1 .. Len(replies)
      BY <1>1, <2>2
    <3>2. \/ replies[i].code = replies[i].own /\ ~replies[i].mixed
          \/ \E j \in 1 .. i - 1 : replies[j].own = 400
      BY <1>1, <3>1 DEF IInv, OutcomeUnlessBad
    <3> QED BY <1>1, <3>1, <3>2
  <2> QED BY <2>1, <2>2
<1> QED BY <1>0, <1>1, <1>2, <1>3 DEF IInv, RightReply

\* A step that replies to nothing keeps the invariant.
LEMMA SameInv ==
  ASSUME IInv, UNCHANGED <<replies, code, content>> PROVE IInv'
BY DEF IInv, Replies, Clean, BadBefore, OutcomeUnlessBad

\* What is known of the last reply's delivery changes nothing else of it.
LEMMA DrainedSame ==
  ASSUME Replies, Drained
  PROVE  /\ Replies'
         /\ DOMAIN replies' = DOMAIN replies /\ DOMAIN replies = 1 .. Len(replies)
         /\ Len(replies) \in Nat /\ Len(replies') = Len(replies)
         /\ \A i \in DOMAIN replies :
              /\ replies'[i].req = replies[i].req
              /\ replies'[i].own = replies[i].own /\ replies'[i].code = replies[i].code
              /\ replies'[i].mixed = replies[i].mixed
<1>1. PICK reqs : replies \in Seq(Reply(reqs))
  BY DEF Replies
<1>2. replies' = [replies EXCEPT ![Len(replies)].whole = TRUE]
  BY DEF Drained, LastWhole
<1>3. \A i \in DOMAIN replies : replies[i] \in Reply(reqs)
  BY <1>1
<1>4. /\ DOMAIN replies' = DOMAIN replies
      /\ \A i \in DOMAIN replies :
           replies'[i] = IF i = Len(replies) THEN [replies[i] EXCEPT !.whole = TRUE]
                         ELSE replies[i]
  BY <1>2
<1>5. ASSUME NEW r \in Reply(reqs)
      PROVE  /\ [r EXCEPT !.whole = TRUE] \in Reply(reqs)
             /\ [r EXCEPT !.whole = TRUE].req = r.req
             /\ [r EXCEPT !.whole = TRUE].own = r.own
             /\ [r EXCEPT !.whole = TRUE].code = r.code
             /\ [r EXCEPT !.whole = TRUE].mixed = r.mixed
  <2>1. [r EXCEPT !.whole = TRUE] \in Reply(reqs)
    BY ZenonT(60) DEF Reply
  <2>2. [r EXCEPT !.whole = TRUE].own = r.own
    BY Zenon DEF Reply
  <2>3. [r EXCEPT !.whole = TRUE].code = r.code
    BY Zenon DEF Reply
  <2>4. [r EXCEPT !.whole = TRUE].mixed = r.mixed
    BY Zenon DEF Reply
  <2>5. [r EXCEPT !.whole = TRUE].req = r.req
    BY Zenon DEF Reply
  <2> QED BY <2>1, <2>2, <2>3, <2>4, <2>5
<1>6. \A i \in DOMAIN replies :
        /\ replies'[i] \in Reply(reqs)
        /\ replies'[i].req = replies[i].req
        /\ replies'[i].own = replies[i].own /\ replies'[i].code = replies[i].code
        /\ replies'[i].mixed = replies[i].mixed
  BY <1>3, <1>4, <1>5
<1>7. DOMAIN replies = 1 .. Len(replies) /\ Len(replies) \in Nat
  BY <1>1
<1>8. replies' \in Seq(Reply(reqs)) /\ Len(replies') = Len(replies)
  <2>1. replies' = [i \in 1 .. Len(replies) |-> replies'[i]]
    BY <1>2, <1>7
  <2> QED BY <2>1, <1>4, <1>6, <1>7
<1>9. Replies'
  BY <1>8 DEF Replies
<1> QED BY <1>4, <1>6, <1>7, <1>8, <1>9

\* It says nothing of the outcome.
LEMMA DrainedInv == ASSUME IInv, Drained PROVE IInv'
<1>1. /\ Replies'
      /\ DOMAIN replies' = DOMAIN replies /\ DOMAIN replies = 1 .. Len(replies)
      /\ \A i \in DOMAIN replies :
           /\ replies'[i].own = replies[i].own /\ replies'[i].code = replies[i].code
           /\ replies'[i].mixed = replies[i].mixed
  BY DrainedSame DEF IInv
<1>2. UNCHANGED <<code, content>>
  BY DEF Drained, sessionVars
<1>3. (Clean \/ BadBefore)'
  BY <1>1, <1>2 DEF IInv, Clean, BadBefore
<1>4. OutcomeUnlessBad'
  <2> SUFFICES ASSUME NEW i \in DOMAIN replies
               PROVE  \/ replies'[i].code = replies'[i].own /\ ~replies'[i].mixed
                      \/ \E j \in 1 .. i - 1 : replies'[j].own = 400
    BY <1>1 DEF OutcomeUnlessBad
  <2>1. Len(replies) \in Nat
    BY DEF IInv, Replies
  <2>2. \A j \in 1 .. i - 1 : j \in DOMAIN replies
    BY <1>1, <2>1
  <2> QED BY <2>2, <1>1 DEF IInv, OutcomeUnlessBad
<1> QED BY <1>1, <1>2, <1>3, <1>4 DEF IInv

-----------------------------------------------------------------------------
\* The invariant is inductive.
LEMMA NextInv == IInv /\ [Next]_vars => IInv'
<1> SUFFICES ASSUME IInv, [Next]_vars PROVE IInv'
  OBVIOUS
<1> USE DEF clientVars, socketVars, sessionVars
<1>1. CASE ClientSends \/ ClientCloses
  BY <1>1, SameInv DEF ClientSends, ClientCloses
<1>2. CASE Expire \/ SessionEnds \/ SendTimesOut \/ SendFails
  BY <1>2, SameInv DEF Expire, SessionEnds, SendTimesOut, SendFails
<1>3. CASE OnReadTooMuch \/ OnReadWaits \/ OnReadClosed
  BY <1>3, SameInv DEF OnReadTooMuch, OnReadWaits, OnReadClosed
<1>4. CASE OnReadBad \/ OnReadRequest
  <2>1. (code = 200 /\ content = FALSE) \/ BadBefore
    BY DEF IInv, Clean
  <2>2. CASE OnReadBad
    <3>1. SendReply(400, 400) /\ code' = 400 /\ content' = TRUE
      BY <2>2 DEF OnReadBad
    <3>2. SendsRightly
      <4> SUFFICES \E own, sent \in {200, 400, 404} : RightReply(own, sent)
        BY DEF SendsRightly
      <4> WITNESS 400 \in {200, 400, 404}, 400 \in {200, 400, 404}
      <4> QED BY <2>1, <3>1 DEF RightReply
    <3> QED BY <3>2, SendInv
  <2>3. CASE OnReadRequest
    <3>1. /\ code' = 200 /\ content' = FALSE
          /\ SendReply(200, code) \/ SendReply(404, 404)
      BY <2>3 DEF OnReadRequest, CodeAfter
    <3>2. Clean' /\ code \in {200, 400, 404}
      BY <3>1 DEF Clean, IInv
    <3>3. CASE SendReply(200, code)
      <4>1. SendsRightly
        <5> SUFFICES \E own, sent \in {200, 400, 404} : RightReply(own, sent)
          BY DEF SendsRightly
        <5>1. code \in {200, 400, 404}
          BY <3>2
        <5> WITNESS 200 \in {200, 400, 404}, code \in {200, 400, 404}
        <5> QED BY <2>1, <3>1, <3>2, <3>3 DEF RightReply
      <4> QED BY <4>1, SendInv
    <3>4. CASE SendReply(404, 404)
      <4>1. SendsRightly
        <5> SUFFICES \E own, sent \in {200, 400, 404} : RightReply(own, sent)
          BY DEF SendsRightly
        <5> WITNESS 404 \in {200, 400, 404}, 404 \in {200, 400, 404}
        <5> QED BY <2>1, <3>1, <3>2, <3>4 DEF RightReply
      <4> QED BY <4>1, SendInv
    <3> QED BY <3>1, <3>3, <3>4
  <2> QED BY <1>4, <2>2, <2>3
<1>5. CASE UNCHANGED vars
  BY <1>5, SameInv DEF vars
<1> QED BY <1>1, <1>2, <1>3, <1>4, <1>5, DrainedInv DEF Next, Thread, OnRead

\* A reply that is not right comes after a bad head, and so does a session that
\* is not as Reset() leaves it.
THEOREM Invariant == Spec => []IInv
<1> QED BY InitInv, NextInv, PTL DEF Spec

\* A reply carries the outcome of its own request, unless one before it on the
\* connection was answered as a bad head, which leaves out Reset().
THEOREM OutcomeHolds == Spec => []OutcomeUnlessBad
<1>1. IInv => OutcomeUnlessBad
  BY DEF IInv
<1> QED BY Invariant, <1>1, PTL

-----------------------------------------------------------------------------
(* That the buffer stays below the limit rests on lengths alone: what is    *)
(* read fits, and cutting the head off makes it shorter.                    *)
Pieces(S) == rx \in Seq(S) /\ net \in Seq(S)

BInv == (\E S : Pieces(S)) /\ RxBounded

\* What Read() gets fits, and the rest of it stays in the socket.
LEMMA ReadFits ==
  ASSUME NEW S, Pieces(S), RxBounded
  PROVE  /\ Read \in Seq(S) /\ Unread \in Seq(S)
         /\ Len(Read) = Len(rx) + Got /\ Got \in Nat
<1>1. /\ Len(rx) \in Nat /\ Len(net) \in Nat /\ Room \in Nat \ {0}
      /\ Got \in 0 .. Len(net)
  BY LimitAssumption DEF Pieces, RxBounded, Room, Got
<1> DEFINE g == SubSeq(net, 1, Got)
<1>2. g \in Seq(S) /\ Len(g) = Got
  BY <1>1 DEF Pieces
<1>3. Unread \in Seq(S)
  BY <1>1 DEF Pieces, Unread
<1> HIDE DEF g
<1>4. rx \o g \in Seq(S) /\ Len(rx \o g) = Len(rx) + Len(g)
  BY <1>2, ConcatProperties DEF Pieces
<1> QED BY <1>1, <1>2, <1>3, <1>4 DEF Read, g

\* A non-empty set of naturals has a least element.
LEMMA LeastOf ==
  ASSUME NEW I, I \subseteq Nat, I # {}
  PROVE  \E i \in I : \A j \in I : i <= j
<1> DEFINE Less == OpToRel(<, Nat)
<1>1. IsWellFoundedOn(Less, Nat)
  BY NatLessThanWellFounded
<1>2. \A i, j \in Nat : i < j => <<i, j>> \in Less
  BY DEF OpToRel
<1> HIDE DEF Less
<1>3. \E i \in I : \A j \in I : <<j, i>> \notin Less
  BY <1>1, WFMin
<1>4. PICK i \in I : \A j \in I : <<j, i>> \notin Less
  BY <1>3
<1>5. \A j \in I : ~(j < i)
  BY <1>2, <1>4
<1>6. \A j \in I : i \in Nat /\ j \in Nat
  BY <1>4
<1>7. \A j \in I : i <= j
  BY <1>5, <1>6
<1> QED BY <1>4, <1>7

\* Where the first head ends is a position; it is 0 if no head ends.
LEMMA EndIsPosition ==
  ASSUME NEW S, Read \in Seq(S)
  PROVE  /\ EndOfHead \in 0 .. Len(Read)
         /\ EndOfHead # 0 => Read[EndOfHead].n = 2
         /\ EndOfHead = 0 => \A i \in 1 .. Len(Read) : Read[i].n # 2
<1> DEFINE I == {i \in 1 .. Len(Read) : Read[i].n = 2}
<1>1. Len(Read) \in Nat /\ I \subseteq 1 .. Len(Read)
  OBVIOUS
<1>2. EndOfHead = IF I # {} THEN Min(I) ELSE 0
  BY DEF EndOfHead, SelectInSeq
<1>3. /\ \A i \in I : Read[i].n = 2
      /\ I = {} => \A i \in 1 .. Len(Read) : Read[i].n # 2
  OBVIOUS
<1> HIDE DEF I
<1>4. CASE I # {}
  <2>1. I \subseteq Nat
    BY <1>1
  <2>2. \E i \in I : \A j \in I : i <= j
    BY <2>1, <1>4, LeastOf
  <2> DEFINE m == Min(I)
  <2>3. m \in I
    BY <2>2 DEF Min
  <2>4. EndOfHead = m
    BY <1>2, <1>4
  <2> HIDE DEF m
  <2>5. EndOfHead \in 1 .. Len(Read)
    BY <1>1, <2>3, <2>4
  <2> QED BY <1>1, <1>3, <2>3, <2>4, <2>5
<1>5. CASE I = {}
  BY <1>1, <1>2, <1>3, <1>5
<1> QED BY <1>4, <1>5

\* The rest is no longer than what was read.
LEMMA RestShorter ==
  ASSUME NEW S, Read \in Seq(S)
  PROVE  Rest \in Seq(S) /\ Len(Rest) <= Len(Read)
<1>1. Len(Read) \in Nat /\ EndOfHead \in 0 .. Len(Read)
  BY EndIsPosition
<1> DEFINE e == EndOfHead
           s == Read
<1> HIDE DEF e, s
<1>2. s \in Seq(S) /\ Len(s) \in Nat /\ e \in 0 .. Len(s)
  BY <1>1 DEF e, s
<1>3. SubSeq(s, e + 1, Len(s)) \in Seq(S) /\ Len(SubSeq(s, e + 1, Len(s))) <= Len(s)
  BY <1>2
<1> QED BY <1>1, <1>3 DEF Rest, AfterHead, e, s

\* Initially nothing is read and nothing sent.
LEMMA InitBounded == Init => BInv
<1> SUFFICES ASSUME Init PROVE BInv
  OBVIOUS
<1>1. Pieces({}) /\ Len(rx) = 0
  BY DEF Init, Pieces
<1> QED BY <1>1, LimitAssumption DEF BInv, RxBounded

\* A read that leaves room keeps the buffer below the limit, whether the rest
\* of it stays in the buffer, all of it does or nothing.
LEMMA ReadBounded ==
  ASSUME NEW S, Pieces(S), RxBounded, ~TooMuch, net' = Unread,
         rx' = Read \/ rx' = Rest \/ rx' = <<>>
  PROVE  BInv'
<1>1. /\ Read \in Seq(S) /\ Unread \in Seq(S)
      /\ Len(Read) = Len(rx) + Got /\ Got \in Nat
  BY ReadFits
<1>2. Len(rx) \in Nat
  BY DEF Pieces
<1>3. Len(Read) < MaxRequest
  BY <1>1, <1>2, LimitAssumption DEF TooMuch, Room
<1>4. Rest \in Seq(S) /\ Len(Rest) <= Len(Read)
  BY <1>1, RestShorter
<1>5. Pieces(S)' /\ RxBounded'
  <2>1. CASE rx' = Read
    BY <1>1, <1>3, <2>1 DEF Pieces, RxBounded
  <2>2. CASE rx' = Rest
    <3>1. rx' \in Seq(S) /\ Len(rx') \in Nat /\ Len(rx') <= Len(Read) /\ Len(Read) \in Nat
      BY <1>1, <1>4, <2>2
    <3> QED BY <1>1, <1>3, <3>1, LimitAssumption DEF Pieces, RxBounded
  <2>3. CASE rx' = <<>>
    BY <1>1, <2>3, LimitAssumption DEF Pieces, RxBounded
  <2> QED BY <2>1, <2>2, <2>3
<1> QED BY <1>5 DEF BInv

\* Only the client adds to the socket, and only OnRead to the buffer.
LEMMA NextBounded == BInv /\ [Next]_vars => BInv'
<1> SUFFICES ASSUME BInv, [Next]_vars PROVE BInv'
  OBVIOUS
<1>0. PICK S : Pieces(S)
  BY DEF BInv
<1> USE DEF BInv, sessionVars, socketVars, clientVars
<1>1. CASE ClientSends
  <2> DEFINE u == at
             all == S \cup {u}
  <2>1. u \in all /\ S \subseteq all /\ net' = Append(net, u) /\ rx' = rx
    BY <1>1 DEF ClientSends
  <2> HIDE DEF all, u
  <2>2. net \in Seq(all) /\ rx \in Seq(all)
    BY <1>0, <2>1, SeqMonotonic DEF Pieces
  <2>3. net' \in Seq(all) /\ rx' \in Seq(all)
    BY <2>1, <2>2
  <2> QED BY <2>1, <2>3 DEF Pieces, RxBounded
<1>2. CASE OnReadTooMuch
  <2>1. Unread \in Seq(S)
    BY <1>0, ReadFits
  <2> QED BY <1>0, <1>2, <2>1 DEF OnReadTooMuch, Pieces, RxBounded
<1>3. CASE OnReadWaits
  BY <1>0, <1>3, ReadBounded DEF OnReadWaits, OnReadStart
<1>4. CASE OnReadBad
  BY <1>0, <1>4, ReadBounded DEF OnReadBad, OnReadStart
<1>5. CASE OnReadRequest
  BY <1>0, <1>5, ReadBounded DEF OnReadRequest, OnReadStart
<1>6. CASE UNCHANGED <<rx, net>>
  BY <1>0, <1>6 DEF Pieces, RxBounded
<1>7. CASE ClientCloses \/ Expire \/ SessionEnds \/ OnReadClosed
  BY <1>6, <1>7 DEF ClientCloses, Expire, SessionEnds, OnReadClosed
<1>8. CASE Drained \/ SendTimesOut \/ SendFails
  BY <1>6, <1>8 DEF Drained, SendTimesOut, SendFails
<1>9. CASE UNCHANGED vars
  BY <1>6, <1>9 DEF vars
<1> QED BY <1>1, <1>2, <1>3, <1>4, <1>5, <1>7, <1>8, <1>9 DEF Next, Thread, OnRead

\* The receive buffer stays below the limit, whatever the clients send.
THEOREM BufferBounded == Spec => []RxBounded
<1>1. Init => BInv
  BY InitBounded
<1>2. BInv /\ [Next]_vars => BInv'
  BY NextBounded
<1>3. BInv => RxBounded
  BY DEF BInv
<1> QED BY <1>1, <1>2, <1>3, PTL DEF Spec

-----------------------------------------------------------------------------
(* What is in the buffer and what is in the socket make one run of the      *)
(* client's units, which ends where the client goes on.  All the operators  *)
(* of this section take the script as a parameter.                          *)
SizeIn(sc, k) == 2 + sc[k].body + (IF sc[k].junk THEN 1 ELSE 0)

FollowingIn(sc, u) ==
  IF u.n < SizeIn(sc, u.req) THEN [req |-> u.req, n |-> u.n + 1]
  ELSE [req |-> u.req + 1, n |-> 1]

AnyUnit   == [req : Nat, n : Nat]
Request   == [good : BOOLEAN, body : Nat, junk : BOOLEAN]
Scripts   == Seq(Request)
OneOf(sc, u) == u.req \in 1 .. Len(sc) /\ u.n \in 1 .. SizeIn(sc, u.req)
Before(u, v) == u.req < v.req \/ (u.req = v.req /\ u.n < v.n)

\* The units of s are one after the other, and u comes next.
Run(sc, s, u) ==
  /\ \A i \in 1 .. Len(s) : OneOf(sc, s[i]) /\ Before(s[i], u)
  /\ \A i, j \in 1 .. Len(s) : i < j => Before(s[i], s[j])
  /\ \A i \in 1 .. Len(s) : FollowingIn(sc, s[i]) = IF i < Len(s) THEN s[i + 1] ELSE u

First(s, u) == IF Len(s) = 0 THEN u ELSE s[1]

\* The end of a head, and a run that begins behind it.
End(k) == [req |-> k, n |-> 2]

Past(k, s, u) == Before(End(k), u) /\ \A i \in 1 .. Len(s) : Before(End(k), s[i])

\* A run without its first d units.
After(s, d) == SubSeq(s, d + 1, Len(s))

\* Where the client goes on: at a unit of the script, or at its end.
Place(sc, u) == (u.req = Len(sc) + 1 /\ u.n = 1) \/ OneOf(sc, u)

LEMMA UnitTypes ==
  ASSUME NEW sc \in Scripts, NEW u \in AnyUnit, OneOf(sc, u)
  PROVE  /\ u.req \in Nat /\ u.n \in Nat /\ SizeIn(sc, u.req) \in Nat
         /\ sc[u.req].body \in Nat /\ SizeIn(sc, u.req) >= 2 + sc[u.req].body
         /\ FollowingIn(sc, u) \in AnyUnit
         /\ Before(u, FollowingIn(sc, u))
         /\ Place(sc, FollowingIn(sc, u))
<1>0. u.req \in Nat /\ u.n \in Nat
  BY DEF AnyUnit
<1>1. u.req \in Nat /\ u.n \in Nat /\ u.req \in 1 .. Len(sc) /\ Len(sc) \in Nat
  <2>1. Len(sc) \in Nat
    BY DEF Scripts
  <2> QED BY <1>0, <2>1 DEF OneOf
<1>2. sc[u.req] \in Request
  BY <1>1 DEF Scripts
<1>3. sc[u.req].body \in Nat
  BY <1>2 DEF Request
<1>4. SizeIn(sc, u.req) \in Nat /\ SizeIn(sc, u.req) >= 2 + sc[u.req].body
  BY <1>3 DEF SizeIn
<1> DEFINE z == SizeIn(sc, u.req)
<1>5. z \in Nat /\ u.n \in 1 .. z
  BY <1>4 DEF OneOf
<1> HIDE DEF z
<1>6. CASE u.n < z
  <2>1. FollowingIn(sc, u) = [req |-> u.req, n |-> u.n + 1]
    BY <1>6 DEF FollowingIn, z
  <2>2. FollowingIn(sc, u).req = u.req /\ FollowingIn(sc, u).n = u.n + 1
        /\ FollowingIn(sc, u) \in AnyUnit
    BY <2>1, <1>1 DEF AnyUnit
  <2>3. u.n + 1 \in 1 .. z
    BY <1>5, <1>6
  <2>4. OneOf(sc, FollowingIn(sc, u))
    BY <2>2, <2>3, <1>1 DEF OneOf, z
  <2> QED BY <2>2, <2>4, <1>1, <1>3, <1>4 DEF Before, Place
<1>7. CASE ~(u.n < z)
  <2>1. FollowingIn(sc, u) = [req |-> u.req + 1, n |-> 1]
    BY <1>7 DEF FollowingIn, z
  <2>2. FollowingIn(sc, u).req = u.req + 1 /\ FollowingIn(sc, u).n = 1
        /\ FollowingIn(sc, u) \in AnyUnit
    BY <2>1, <1>1 DEF AnyUnit
  <2>3. Before(u, FollowingIn(sc, u))
    BY <2>2, <1>1 DEF Before
  <2>4. Place(sc, FollowingIn(sc, u))
    <3>1. CASE u.req = Len(sc)
      BY <3>1, <2>2 DEF Place
    <3>2. CASE u.req < Len(sc)
      <4> DEFINE k == u.req + 1
      <4>1. k \in 1 .. Len(sc)
        BY <3>2, <1>1
      <4>2. sc[k] \in Request
        BY <4>1 DEF Scripts
      <4>3. sc[k].body \in Nat
        BY <4>2 DEF Request
      <4>4. 1 \in 1 .. SizeIn(sc, k)
        BY <4>3 DEF SizeIn
      <4> QED BY <2>2, <4>1, <4>4 DEF Place, OneOf
    <3> QED BY <1>1, <3>1, <3>2
  <2> QED BY <2>2, <2>3, <2>4, <1>1, <1>3, <1>4
<1> QED BY <1>6, <1>7

LEMMA BeforeTransitive ==
  ASSUME NEW u \in AnyUnit, NEW v \in AnyUnit, NEW w \in AnyUnit,
         Before(u, v), Before(v, w)
  PROVE  Before(u, w)
BY DEF Before, AnyUnit

\* What is left of a sequence without its first elements.
LEMMA AfterIs ==
  ASSUME NEW s \in Seq(AnyUnit), NEW d \in 0 .. Len(s)
  PROVE  /\ After(s, d) \in Seq(AnyUnit) /\ Len(After(s, d)) = Len(s) - d
         /\ \A i \in 1 .. Len(s) - d : After(s, d)[i] = s[d + i]
<1>1. Len(s) \in Nat
  OBVIOUS
<1> QED BY <1>1 DEF After

\* A run stays one without its first units.
LEMMA RunDrops ==
  ASSUME NEW sc \in Scripts, NEW s \in Seq(AnyUnit), NEW u \in AnyUnit,
         Run(sc, s, u), NEW d \in 0 .. Len(s)
  PROVE  /\ Run(sc, After(s, d), u)
         /\ First(After(s, d), u) = IF d = 0 THEN First(s, u) ELSE FollowingIn(sc, s[d])
<1> DEFINE t == After(s, d)
<1>0. Len(s) \in Nat
  OBVIOUS
<1>1. /\ t \in Seq(AnyUnit) /\ Len(t) = Len(s) - d /\ Len(s) \in Nat
      /\ \A i \in 1 .. Len(s) - d : t[i] = s[d + i]
  BY <1>0, AfterIs, Zenon
<1> HIDE DEF t
<1>2. \A i \in 1 .. Len(t) : d + i \in 1 .. Len(s) /\ t[i] = s[d + i]
  BY <1>1
<1>3. \A i \in 1 .. Len(t) : OneOf(sc, t[i]) /\ Before(t[i], u)
  BY <1>2 DEF Run
<1>4. ASSUME NEW i \in 1 .. Len(t), NEW j \in 1 .. Len(t), i < j
      PROVE  Before(t[i], t[j])
  <2>1. d + i < d + j
    BY <1>1, <1>4
  <2> QED BY <1>2, <2>1 DEF Run
<1>5. ASSUME NEW i \in 1 .. Len(t)
      PROVE  FollowingIn(sc, t[i]) = IF i < Len(t) THEN t[i + 1] ELSE u
  <2>1. FollowingIn(sc, s[d + i]) = IF d + i < Len(s) THEN s[d + i + 1] ELSE u
    BY <1>2 DEF Run
  <2>2. CASE i < Len(t)
    <3>1. i + 1 \in 1 .. Len(t) /\ d + i < Len(s) /\ d + (i + 1) = d + i + 1
      BY <1>1, <2>2
    <3>2. t[i + 1] = s[d + i + 1]
      BY <1>2, <3>1
    <3> QED BY <1>2, <2>1, <2>2, <3>1, <3>2
  <2>3. CASE ~(i < Len(t))
    <3>1. ~(d + i < Len(s))
      BY <1>1, <2>3
    <3> QED BY <1>2, <2>1, <2>3, <3>1
  <2> QED BY <2>2, <2>3
<1>6. Run(sc, t, u)
  BY <1>3, <1>4, <1>5 DEF Run
<1>7. First(t, u) = IF d = 0 THEN First(s, u) ELSE FollowingIn(sc, s[d])
  <2>1. CASE d = 0
    <3>1. Len(t) = Len(s) /\ (Len(t) # 0 => t[1] = s[1])
      BY <1>1, <2>1
    <3> QED BY <2>1, <3>1 DEF First
  <2>2. CASE d # 0
    <3>1. d \in 1 .. Len(s)
      BY <1>1, <2>2
    <3>2. FollowingIn(sc, s[d]) = IF d < Len(s) THEN s[d + 1] ELSE u
      BY <3>1 DEF Run
    <3>3. CASE d < Len(s)
      BY <1>1, <2>2, <3>2, <3>3 DEF First
    <3>4. CASE ~(d < Len(s))
      BY <1>1, <2>2, <3>2, <3>4 DEF First
    <3> QED BY <3>3, <3>4
  <2> QED BY <2>1, <2>2
<1> QED BY <1>6, <1>7 DEF t

\* A run goes on with the unit that comes next.
LEMMA RunExtends ==
  ASSUME NEW sc \in Scripts, NEW s \in Seq(AnyUnit), NEW u \in AnyUnit,
         Run(sc, s, u), OneOf(sc, u)
  PROVE  /\ Append(s, u) \in Seq(AnyUnit) /\ Len(Append(s, u)) = Len(s) + 1
         /\ Run(sc, Append(s, u), FollowingIn(sc, u))
         /\ First(Append(s, u), FollowingIn(sc, u)) = First(s, u)
<1> DEFINE t == Append(s, u)
           w == FollowingIn(sc, u)
<1>1. /\ t \in Seq(AnyUnit) /\ Len(t) = Len(s) + 1 /\ Len(s) \in Nat
      /\ \A i \in 1 .. Len(s) : t[i] = s[i]
      /\ t[Len(s) + 1] = u
  OBVIOUS
<1>2. w \in AnyUnit /\ Before(u, w)
  BY UnitTypes
<1>3. \A i \in 1 .. Len(s) : s[i] \in AnyUnit
  OBVIOUS
<1> HIDE DEF t, w
<1>4. \A i \in 1 .. Len(t) : i = Len(s) + 1 \/ i \in 1 .. Len(s)
  BY <1>1
<1>5. \A i \in 1 .. Len(t) : OneOf(sc, t[i])
  BY <1>1, <1>4 DEF Run
<1>6. \A i \in 1 .. Len(s) : Before(t[i], u)
  BY <1>1 DEF Run
<1>7. ASSUME NEW i \in 1 .. Len(t) PROVE Before(t[i], w)
  BY <1>1, <1>2, <1>3, <1>4, <1>6, BeforeTransitive
<1>8. ASSUME NEW i \in 1 .. Len(t), NEW j \in 1 .. Len(t), i < j
      PROVE  Before(t[i], t[j])
  <2>1. i \in 1 .. Len(s)
    BY <1>1, <1>8
  <2>2. CASE j \in 1 .. Len(s)
    BY <1>1, <1>8, <2>1, <2>2 DEF Run
  <2>3. CASE j = Len(s) + 1
    BY <1>1, <1>6, <2>1, <2>3
  <2> QED BY <1>4, <2>2, <2>3
<1>9. ASSUME NEW i \in 1 .. Len(t)
      PROVE  FollowingIn(sc, t[i]) = IF i < Len(t) THEN t[i + 1] ELSE w
  <2>1. CASE i \in 1 .. Len(s)
    <3>1. FollowingIn(sc, s[i]) = IF i < Len(s) THEN s[i + 1] ELSE u
      BY <2>1 DEF Run
    <3>2. i < Len(t) /\ (i < Len(s) => i + 1 \in 1 .. Len(s)) /\ (~(i < Len(s)) => i = Len(s))
      BY <1>1, <2>1
    <3> QED BY <1>1, <2>1, <3>1, <3>2
  <2>2. CASE i = Len(s) + 1
    BY <1>1, <2>2 DEF w
  <2> QED BY <1>4, <2>1, <2>2
<1>10. Run(sc, t, w)
  BY <1>5, <1>7, <1>8, <1>9 DEF Run
<1>11. First(t, w) = First(s, u)
  <2>1. CASE Len(s) = 0
    BY <1>1, <2>1 DEF First
  <2>2. CASE Len(s) # 0
    BY <1>1, <2>2 DEF First
  <2> QED BY <2>1, <2>2
<1> QED BY <1>1, <1>10, <1>11 DEF t, w

\* A run that begins behind the head of request k begins with its whole body,
\* as far as it goes.
LEMMA RunBody ==
  ASSUME NEW sc \in Scripts, NEW s \in Seq(AnyUnit), NEW u \in AnyUnit,
         Run(sc, s, u), NEW k \in 1 .. Len(sc),
         First(s, u) = FollowingIn(sc, End(k)),
         NEW j \in 1 .. sc[k].body, j <= Len(s)
  PROVE  s[j] = [req |-> k, n |-> j + 2]
<1> DEFINE b == sc[k].body
           I == {i \in 1 .. b : i <= Len(s) /\ s[i] # [req |-> k, n |-> i + 2]}
<1>1. k \in Nat /\ sc[k] \in Request /\ Len(s) \in Nat
  <2>1. Len(sc) \in Nat
    BY DEF Scripts
  <2> QED BY <2>1 DEF Scripts
<1>2. b \in Nat /\ SizeIn(sc, k) \in Nat /\ SizeIn(sc, k) >= 2 + b
  BY <1>1 DEF Request, SizeIn
<1>3. \A i \in 1 .. b : FollowingIn(sc, [req |-> k, n |-> i + 1]) = [req |-> k, n |-> i + 2]
  <2> SUFFICES ASSUME NEW i \in 1 .. b
               PROVE  FollowingIn(sc, [req |-> k, n |-> i + 1]) = [req |-> k, n |-> i + 2]
    OBVIOUS
  <2>1. i + 1 < SizeIn(sc, k) /\ i + 1 + 1 = i + 2
    BY <1>2
  <2> QED BY <2>1 DEF FollowingIn
<1>4. CASE I = {}
  BY <1>4
<1>5. CASE I # {}
  <2>1. I \subseteq Nat
    BY <1>2
  <2>2. PICK i \in I : \A h \in I : i <= h
    BY <1>5, <2>1, LeastOf
  <2>3. i \in 1 .. b /\ i <= Len(s) /\ s[i] # [req |-> k, n |-> i + 2] /\ i \in Nat
    BY <2>1, <2>2
  <2>4. CASE i = 1
    <3>1. s[1] = FollowingIn(sc, End(k))
      BY <1>1, <2>3, <2>4 DEF First
    <3>2. s[1] = [req |-> k, n |-> 1 + 2]
      <4>1. 1 \in 1 .. b
        BY <2>3, <2>4
      <4>2. FollowingIn(sc, [req |-> k, n |-> 1 + 1]) = [req |-> k, n |-> 1 + 2]
        BY <1>3, <4>1
      <4>3. 1 + 1 = 2
        OBVIOUS
      <4> QED BY <3>1, <4>2, <4>3 DEF End
    <3> QED BY <2>3, <2>4, <3>2
  <2>5. CASE i # 1
    <3> DEFINE h == i - 1
    <3>1. h \in 1 .. b /\ h <= Len(s) /\ ~(i <= h) /\ h < Len(s) /\ h + 1 = i /\ h \in 1 .. Len(s) /\ h + 2 = i + 1
      BY <1>1, <1>2, <2>3, <2>5
    <3>2. h \notin I
      BY <2>2, <3>1
    <3>3. s[h] = [req |-> k, n |-> h + 2]
      BY <3>1, <3>2
    <3>4. FollowingIn(sc, s[h]) = s[h + 1]
      BY <3>1 DEF Run
    <3> HIDE DEF h
    <3> QED BY <1>3, <2>3, <3>1, <3>3, <3>4
  <2> QED BY <2>4, <2>5
<1> QED BY <1>4, <1>5

\* A head that ends at the d-th unit of a run is not behind what comes after.
LEMMA PastHere ==
  ASSUME NEW sc \in Scripts, NEW s \in Seq(AnyUnit), NEW u \in AnyUnit,
         Run(sc, s, u), NEW d \in 1 .. Len(s), s[d].n = 2
  PROVE  s[d] = End(s[d].req) /\ Past(s[d].req, After(s, d), u)
<1>1. Len(s) \in Nat /\ s[d] \in AnyUnit
  OBVIOUS
<1>2. s[d] = End(s[d].req)
  BY <1>1 DEF AnyUnit, End
<1>3. Before(s[d], u)
  BY DEF Run
<1>4. ASSUME NEW i \in 1 .. Len(After(s, d)) PROVE Before(s[d], After(s, d)[i])
  <2>0. d \in 0 .. Len(s)
    BY <1>1
  <2>1. i \in 1 .. Len(s) - d /\ After(s, d)[i] = s[d + i]
    BY <2>0, AfterIs
  <2>2. d + i \in 1 .. Len(s) /\ d < d + i
    BY <1>1, <2>1
  <2> QED BY <2>1, <2>2 DEF Run
<1> QED BY <1>2, <1>3, <1>4 DEF Past

\* What a run is behind of, it is also behind of without its first units, or
\* when it goes on.
LEMMA PastDrops ==
  ASSUME NEW s \in Seq(AnyUnit), NEW u, NEW k, Past(k, s, u), NEW d \in 0 .. Len(s)
  PROVE  Past(k, After(s, d), u)
<1>1. Len(s) \in Nat
  OBVIOUS
<1>2. \A i \in 1 .. Len(After(s, d)) : d + i \in 1 .. Len(s) /\ After(s, d)[i] = s[d + i]
  BY <1>1, AfterIs
<1> QED BY <1>2 DEF Past

LEMMA PastExtends ==
  ASSUME NEW sc \in Scripts, NEW s \in Seq(AnyUnit), NEW u \in AnyUnit, NEW k \in Nat,
         Past(k, s, u), OneOf(sc, u)
  PROVE  Past(k, Append(s, u), FollowingIn(sc, u))
<1> DEFINE t == Append(s, u)
<1>1. /\ Len(t) = Len(s) + 1 /\ Len(s) \in Nat
      /\ \A i \in 1 .. Len(s) : t[i] = s[i]
      /\ t[Len(s) + 1] = u
  OBVIOUS
<1>2. FollowingIn(sc, u) \in AnyUnit /\ Before(u, FollowingIn(sc, u))
  BY UnitTypes
<1>3. End(k) \in AnyUnit
  BY DEF End, AnyUnit
<1>4. Before(End(k), FollowingIn(sc, u))
  BY <1>2, <1>3, BeforeTransitive DEF Past
<1> HIDE DEF t
<1>5. \A i \in 1 .. Len(t) : i = Len(s) + 1 \/ i \in 1 .. Len(s)
  BY <1>1
<1>6. \A i \in 1 .. Len(t) : Before(End(k), t[i])
  BY <1>1, <1>5 DEF Past
<1> QED BY <1>4, <1>6 DEF Past, t

-----------------------------------------------------------------------------
(* The invariant behind the order of the replies and the bodies.            *)
Stream == rx \o net

Typed ==
  /\ client \in Clients
  /\ at \in AnyUnit /\ Place(Script, at)
  /\ rx \in Seq(AnyUnit) /\ net \in Seq(AnyUnit)
  /\ head \in Nat
  /\ Len(replies) \in Nat /\ DOMAIN replies = 1 .. Len(replies)
  /\ \A i \in 1 .. Len(replies) : replies[i].req \in Nat

\* A head that is received belongs to no reply yet, its body comes next, and
\* some of it is still to come.
HeadOK ==
  head # 0 =>
    /\ head \in 1 .. Len(Script)
    /\ First(Stream, at) = FollowingIn(Script, End(head))
    /\ Past(head, Stream, at)
    /\ \A i \in 1 .. Len(replies) : replies[i].req < head
    /\ Len(rx) < Script[head].body

\* Nothing of the head of a request that was replied to comes again.
Replied == \A i \in 1 .. Len(replies) : Past(replies[i].req, Stream, at)

\* A client that does not pipeline is never more than a request ahead, and no
\* whole head waits in the buffer.
InTurn ==
  ~client.pipelines =>
    /\ at.req <= Len(replies) + 1 \/ (at.req = Len(replies) + 2 /\ at.n = 1)
    /\ \A i \in 1 .. Len(replies) : replies[i].req = i
    /\ head # 0 => head = Len(replies) + 1
    /\ head = 0 => \A i \in 1 .. Len(rx) : rx[i].n # 2

Streams == Run(Script, Stream, at) /\ HeadOK /\ Replied /\ InTurn

SInv == Typed /\ RxBounded /\ RepliesInOrder /\ (spc # "ended" => Streams)

\* The script of the client, and what the module says of its units.
LEMMA ScriptIs ==
  ASSUME client \in Clients
  PROVE  /\ Script \in Scripts /\ Len(Script) \in Nat /\ Requests = 1 .. Len(Script)
         /\ client.pipelines \in BOOLEAN
         /\ \A u \in AnyUnit : Following(u) = FollowingIn(Script, u)
<1>1. Script \in Scripts /\ client.pipelines \in BOOLEAN
  BY ClientsAssumption DEF Script, Scripts, Request
<1>2. Len(Script) \in Nat
  BY <1>1 DEF Scripts
<1>3. \A k : Size(k) = SizeIn(Script, k)
  BY DEF Size, SizeIn
<1>4. \A u \in AnyUnit : [u EXCEPT !.n = @ + 1] = [req |-> u.req, n |-> u.n + 1]
  BY DEF AnyUnit
<1>5. \A u \in AnyUnit : Following(u) = FollowingIn(Script, u)
  BY <1>3, <1>4 DEF Following, FollowingIn
<1> QED BY <1>1, <1>2, <1>5 DEF Requests

\* Reading moves units from the socket to the buffer.
LEMMA SplitJoin ==
  ASSUME NEW s \in Seq(AnyUnit), NEW t \in Seq(AnyUnit), NEW g \in 0 .. Len(t)
  PROVE  /\ (s \o SubSeq(t, 1, g)) \o SubSeq(t, g + 1, Len(t)) = s \o t
         /\ SubSeq(t, 1, g) \in Seq(AnyUnit) /\ SubSeq(t, g + 1, Len(t)) \in Seq(AnyUnit)
<1> DEFINE a == SubSeq(t, 1, g)
           b == SubSeq(t, g + 1, Len(t))
<1>1. Len(t) \in Nat
  OBVIOUS
<1>2. a \in Seq(AnyUnit) /\ b \in Seq(AnyUnit) /\ Len(a) = g /\ Len(b) = Len(t) - g
      /\ (\A i \in 1 .. g : a[i] = t[i])
      /\ (\A i \in 1 .. Len(t) - g : b[i] = t[g + i])
  BY <1>1
<1> HIDE DEF a, b
<1>3. /\ a \o b \in Seq(AnyUnit) /\ Len(a \o b) = Len(a) + Len(b)
      /\ \A i \in 1 .. Len(a) + Len(b) : (a \o b)[i] = IF i <= Len(a) THEN a[i] ELSE b[i - Len(a)]
  BY <1>2, ConcatProperties
<1>4. Len(a \o b) = Len(t)
  BY <1>1, <1>2, <1>3
<1>5. \A i \in 1 .. Len(a \o b) : (a \o b)[i] = t[i]
  BY <1>1, <1>2, <1>3
<1>6. a \o b = t
  BY <1>3, <1>4, <1>5, SeqEqual
<1>7. (s \o a) \o b = s \o (a \o b)
  BY <1>2, ConcatAssociative
<1> QED BY <1>2, <1>6, <1>7 DEF a, b

\* Units that are dropped from the front are dropped from the stream.
LEMMA CutJoin ==
  ASSUME NEW s \in Seq(AnyUnit), NEW t \in Seq(AnyUnit), NEW d \in 0 .. Len(s)
  PROVE  After(s, d) \o t = After(s \o t, d)
<1>1. /\ s \o t \in Seq(AnyUnit) /\ Len(s \o t) = Len(s) + Len(t)
      /\ \A i \in 1 .. Len(s) + Len(t) : (s \o t)[i] = IF i <= Len(s) THEN s[i] ELSE t[i - Len(s)]
  BY ConcatProperties
<1>2. Len(s) \in Nat /\ Len(t) \in Nat
  OBVIOUS
<1> DEFINE a == After(s, d)
           c == After(s \o t, d)
<1>3. a \in Seq(AnyUnit) /\ Len(a) = Len(s) - d /\ \A i \in 1 .. Len(s) - d : a[i] = s[d + i]
  BY AfterIs
<1>4. d \in 0 .. Len(s \o t)
  BY <1>1, <1>2
<1>5. /\ c \in Seq(AnyUnit) /\ Len(c) = Len(s \o t) - d
      /\ \A i \in 1 .. Len(s \o t) - d : c[i] = (s \o t)[d + i]
  BY <1>1, <1>4, AfterIs
<1> HIDE DEF a, c
<1>6. /\ a \o t \in Seq(AnyUnit) /\ Len(a \o t) = Len(a) + Len(t)
      /\ \A i \in 1 .. Len(a) + Len(t) : (a \o t)[i] = IF i <= Len(a) THEN a[i] ELSE t[i - Len(a)]
  BY <1>3, ConcatProperties
<1>7. Len(a \o t) = Len(c)
  BY <1>1, <1>2, <1>3, <1>5, <1>6
<1>8. ASSUME NEW i \in 1 .. Len(a \o t) PROVE (a \o t)[i] = c[i]
  <2>1. i \in 1 .. Len(a) + Len(t) /\ i \in 1 .. Len(s \o t) - d /\ d + i \in 1 .. Len(s) + Len(t)
    BY <1>1, <1>2, <1>3, <1>6
  <2>2. CASE i <= Len(a)
    <3>1. i \in 1 .. Len(s) - d /\ d + i <= Len(s)
      BY <1>2, <1>3, <2>1, <2>2
    <3> QED BY <1>1, <1>3, <1>5, <1>6, <2>1, <2>2, <3>1
  <2>3. CASE ~(i <= Len(a))
    <3>1. ~(d + i <= Len(s)) /\ i - Len(a) = d + i - Len(s)
      BY <1>2, <1>3, <2>1, <2>3
    <3>2. (a \o t)[i] = t[i - Len(a)]
      BY <1>6, <2>1, <2>3
    <3>3. c[i] = (s \o t)[d + i]
      BY <1>5, <2>1
    <3>4. (s \o t)[d + i] = t[d + i - Len(s)]
      BY <1>1, <2>1, <3>1
    <3> QED BY <3>1, <3>2, <3>3, <3>4
  <2> QED BY <2>2, <2>3
<1> QED BY <1>5, <1>6, <1>7, <1>8, SeqEqual DEF a, c

\* Of two sequences in a row, the first comes first and the second is the rest.
LEMMA JoinIs ==
  ASSUME NEW r \in Seq(AnyUnit), NEW t \in Seq(AnyUnit)
  PROVE  /\ r \o t \in Seq(AnyUnit)
         /\ Len(r) \in 0 .. Len(r \o t) /\ \A i \in 1 .. Len(r) : r[i] = (r \o t)[i]
         /\ t = After(r \o t, Len(r))
<1>1. /\ r \o t \in Seq(AnyUnit) /\ Len(r \o t) = Len(r) + Len(t)
      /\ \A i \in 1 .. Len(r) + Len(t) : (r \o t)[i] = IF i <= Len(r) THEN r[i] ELSE t[i - Len(r)]
  BY ConcatProperties
<1>2. Len(r) \in Nat /\ Len(t) \in Nat
  OBVIOUS
<1>3. Len(r) \in 0 .. Len(r \o t) /\ \A i \in 1 .. Len(r) : r[i] = (r \o t)[i]
  BY <1>1, <1>2
<1>4. After(r, Len(r)) = <<>>
  BY <1>2, SubSeqEmpty DEF After
<1>5. After(r, Len(r)) \o t = After(r \o t, Len(r))
  <2>1. Len(r) \in 0 .. Len(r)
    BY <1>2
  <2> QED BY <2>1, CutJoin
<1>6. <<>> \o t = t
  BY ConcatEmptySeq
<1> QED BY <1>1, <1>3, <1>4, <1>5, <1>6

-----------------------------------------------------------------------------
(* What OnRead reads.                                                       *)
LEMMA ReadIs ==
  ASSUME SInv, spc = "idle"
  PROVE  /\ Script \in Scripts /\ Streams /\ Typed
         /\ Read \in Seq(AnyUnit) /\ Unread \in Seq(AnyUnit) /\ Stream \in Seq(AnyUnit)
         /\ Len(Read) \in 0 .. Len(Stream)
         /\ Read \o Unread = Stream
         /\ Unread = After(Stream, Len(Read))
         /\ \A i \in 1 .. Len(Read) : Read[i] = Stream[i]
<1>1. Script \in Scripts /\ Streams /\ Typed
  BY ScriptIs DEF SInv, Typed
<1>2. Pieces(AnyUnit) /\ RxBounded
  BY DEF SInv, Typed, Pieces
<1>3. rx \in Seq(AnyUnit) /\ net \in Seq(AnyUnit) /\ Len(net) \in Nat /\ Got \in 0 .. Len(net)
  <2>1. rx \in Seq(AnyUnit) /\ net \in Seq(AnyUnit) /\ Len(net) \in Nat /\ Len(rx) \in Nat
    BY <1>2 DEF Pieces
  <2> QED BY <1>2, <2>1, LimitAssumption DEF RxBounded, Room, Got
<1>4. Read \in Seq(AnyUnit) /\ Unread \in Seq(AnyUnit)
  BY <1>2, ReadFits
<1>5. Read \o Unread = Stream
  BY <1>3, SplitJoin DEF Read, Unread, Stream
<1>6. Len(Read) \in 0 .. Len(Read \o Unread)
  BY <1>4, JoinIs
<1>7. \A i \in 1 .. Len(Read) : Read[i] = (Read \o Unread)[i]
  BY <1>4, JoinIs
<1>8. Unread = After(Read \o Unread, Len(Read)) /\ Read \o Unread \in Seq(AnyUnit)
  BY <1>4, JoinIs
<1> QED BY <1>1, <1>4, <1>5, <1>6, <1>7, <1>8

\* What is left when the head of the current request is cut off.
Left == Rest \o Unread

Behind(k) ==
  /\ k \in 1 .. Len(Script) /\ k \in Nat
  /\ Rest \in Seq(AnyUnit) /\ Left \in Seq(AnyUnit)
  /\ Run(Script, Left, at) /\ First(Left, at) = FollowingIn(Script, End(k))
  /\ Past(k, Left, at)
  /\ \A i \in 1 .. Len(replies) : Past(replies[i].req, Left, at) /\ replies[i].req < k
  /\ Unread = After(Left, Len(Rest)) /\ Len(Rest) \in 0 .. Len(Left)
  /\ \A i \in 1 .. Len(Rest) : Rest[i] = Left[i]

\* Requests come in the order of their numbers.
LEMMA PastLess ==
  ASSUME NEW k \in Nat, NEW m \in Nat, Before(End(k), End(m)) PROVE k < m
BY DEF Before, End

LEMMA CutIs ==
  ASSUME SInv, spc = "idle", head # 0 \/ EndOfHead # 0
  PROVE  Behind(Current)
<1>1. /\ Script \in Scripts /\ Streams /\ Typed /\ at \in AnyUnit
      /\ Read \in Seq(AnyUnit) /\ Unread \in Seq(AnyUnit) /\ Stream \in Seq(AnyUnit)
      /\ Len(Read) \in 0 .. Len(Stream) /\ Len(Read) \in Nat
      /\ Read \o Unread = Stream
      /\ Unread = After(Stream, Len(Read))
      /\ \A i \in 1 .. Len(Read) : Read[i] = Stream[i]
  BY ReadIs DEF Typed
<1>2. /\ EndOfHead \in 0 .. Len(Read)
      /\ EndOfHead # 0 => Read[EndOfHead].n = 2
  BY <1>1, EndIsPosition
<1> DEFINE d == IF head # 0 THEN 0 ELSE EndOfHead
           k == Current
<1>3. d \in 0 .. Len(Read) /\ d \in 0 .. Len(Stream) /\ Len(Stream) \in Nat
  <2>1. Len(Stream) \in Nat
    BY <1>1
  <2> HIDE DEF Current
  <2> QED BY <1>1, <1>2, <2>1
<1>4. Rest = After(Read, d)
  <2>1. SubSeq(Read, 0 + 1, Len(Read)) = Read
    BY <1>1, SubSeqFull
  <2> QED BY <2>1 DEF Rest, After, AfterHead
<1> HIDE DEF d
<1>5. Rest \in Seq(AnyUnit) /\ Len(Rest) = Len(Read) - d
  BY <1>1, <1>3, <1>4, AfterIs
<1>6. Left = After(Stream, d)
  BY <1>1, <1>3, <1>4, CutJoin DEF Left
<1>7. Left \in Seq(AnyUnit) /\ Len(Left) = Len(Stream) - d
  BY <1>1, <1>3, <1>6, AfterIs
<1>8. /\ Run(Script, Left, at)
      /\ First(Left, at) = IF d = 0 THEN First(Stream, at) ELSE FollowingIn(Script, Stream[d])
  BY <1>1, <1>3, <1>6, RunDrops DEF Streams
<1>9. /\ k \in 1 .. Len(Script) /\ First(Left, at) = FollowingIn(Script, End(k))
      /\ Past(k, Left, at)
      /\ \A i \in 1 .. Len(replies) : replies[i].req < k
  <2>1. CASE head # 0
    <3>1. k = head /\ d = 0
      BY <2>1 DEF Current, d
    <3>2. HeadOK
      BY <1>1 DEF Streams
    <3>3. Past(k, Left, at)
      BY <1>1, <1>3, <1>6, <2>1, <3>1, <3>2, PastDrops DEF HeadOK
    <3> QED BY <1>8, <2>1, <3>1, <3>2, <3>3 DEF HeadOK
  <2>2. CASE head = 0
    <3>1. d = EndOfHead /\ d \in 1 .. Len(Read) /\ d \in 1 .. Len(Stream)
      BY <1>1, <1>2, <2>2 DEF d
    <3>2. k = Stream[d].req /\ Stream[d].n = 2
      BY <1>1, <1>2, <2>2, <3>1 DEF Current, NewHead
    <3>3. Stream[d] = End(k) /\ Past(k, Left, at)
      BY <1>1, <1>6, <3>1, <3>2, PastHere DEF Streams
    <3>4. OneOf(Script, Stream[d])
      BY <1>1, <3>1 DEF Streams, Run
    <3>5. k \in 1 .. Len(Script)
      BY <3>2, <3>4 DEF OneOf
    <3>6. First(Left, at) = FollowingIn(Script, End(k))
      BY <1>3, <1>8, <3>1, <3>3
    <3>7. ASSUME NEW i \in 1 .. Len(replies) PROVE replies[i].req < k
      <4>1. Before(End(replies[i].req), End(k))
        BY <1>1, <3>1, <3>3 DEF Streams, Replied, Past
      <4>2. replies[i].req \in Nat /\ k \in Nat
        BY <1>1, <3>5 DEF Typed
      <4> QED BY <4>1, <4>2, PastLess
    <3> QED BY <3>3, <3>5, <3>6, <3>7
  <2> QED BY <2>1, <2>2
<1>10. ASSUME NEW i \in 1 .. Len(replies) PROVE Past(replies[i].req, Left, at)
  BY <1>1, <1>3, <1>6, PastDrops DEF Streams, Replied
<1>11. Len(Rest) \in 0 .. Len(Left)
  BY <1>1, <1>5, JoinIs DEF Left
<1>12. \A i \in 1 .. Len(Rest) : Rest[i] = Left[i]
  BY <1>1, <1>5, JoinIs DEF Left
<1>13. Unread = After(Left, Len(Rest))
  BY <1>1, <1>5, JoinIs DEF Left
<1>14. k \in Nat
  BY <1>9
<1> QED BY <1>5, <1>7, <1>8, <1>9, <1>10, <1>11, <1>12, <1>13, <1>14 DEF Behind

\* The request whose head a client that does not pipeline has sent is the next
\* to be replied to, and there is no other head behind it.
LEMMA TurnIs ==
  ASSUME SInv, spc = "idle", Behind(Current), ~client.pipelines
  PROVE  /\ Current = Len(replies) + 1
         /\ \A i \in 1 .. Len(Left) : Left[i].n # 2
<1> DEFINE m == Len(replies)
           k == Current
<1>1. /\ at \in AnyUnit /\ m \in Nat /\ InTurn
      /\ \A i \in 1 .. m : replies[i].req \in Nat
  BY DEF SInv, Typed, Streams
<1>2. /\ at.req \in Nat /\ at.n \in Nat
      /\ at.req <= m + 1 \/ (at.req = m + 2 /\ at.n = 1)
      /\ \A i \in 1 .. m : replies[i].req = i
  BY <1>1 DEF AnyUnit, InTurn
<1>3. /\ k \in 1 .. Len(Script) /\ k \in Nat
      /\ Left \in Seq(AnyUnit)
      /\ Run(Script, Left, at) /\ Past(k, Left, at)
      /\ \A i \in 1 .. m : replies[i].req < k
  BY DEF Behind
<1> HIDE DEF k, m
<1>4. k >= 1
  BY <1>3
<1>5. k = m + 1
  <2>1. Before(End(k), at)
    BY <1>3 DEF Past
  <2>2. k <= m + 1
    BY <1>1, <1>2, <1>3, <2>1 DEF Before, End
  <2>3. m # 0 => m < k
    BY <1>1, <1>2, <1>3
  <2> QED BY <1>1, <1>3, <1>4, <2>2, <2>3
<1>6. ASSUME NEW i \in 1 .. Len(Left), Left[i].n = 2 PROVE FALSE
  <2> DEFINE v == Left[i]
  <2>1. v \in AnyUnit
    BY <1>3
  <2>2. Before(v, at) /\ Before(End(k), v)
    BY <1>3 DEF Run, Past
  <2>3. v.req \in Nat /\ v.n = 2
    BY <2>1, <1>6 DEF AnyUnit
  <2> HIDE DEF v
  <2>4. k < v.req
    BY <1>3, <2>2, <2>3 DEF Before, End
  <2>5. v.req <= m + 1
    BY <1>1, <1>2, <2>2, <2>3 DEF Before
  <2> QED BY <1>1, <1>5, <2>3, <2>4, <2>5
<1> QED BY <1>5, <1>6 DEF k, m

\* Steps that move no units and reply to nothing.
LEMMA StillS ==
  ASSUME SInv, UNCHANGED <<client, at, rx, net, head>>,
         Len(replies') = Len(replies), DOMAIN replies' = DOMAIN replies,
         \A i \in DOMAIN replies : replies'[i].req = replies[i].req,
         spc' # "ended" => spc # "ended"
  PROVE  SInv'
<1>1. Script' = Script /\ Stream' = Stream
  BY DEF Script, Stream
<1>2. DOMAIN replies = 1 .. Len(replies) /\ Typed
  BY DEF SInv, Typed
<1>3. Typed'
  BY <1>1, <1>2 DEF Typed
<1>4. RxBounded' /\ RepliesInOrder'
  BY <1>2 DEF SInv, RxBounded, RepliesInOrder
<1>5. ASSUME Streams PROVE Streams'
  <2>1. Run(Script, Stream, at)'
    BY <1>1, <1>5 DEF Streams
  <2>2. HeadOK'
    BY <1>1, <1>2, <1>5 DEF Streams, HeadOK
  <2>3. Replied'
    BY <1>1, <1>2, <1>5 DEF Streams, Replied
  <2>4. InTurn'
    BY <1>1, <1>2, <1>5 DEF Streams, InTurn
  <2> QED BY <2>1, <2>2, <2>3, <2>4 DEF Streams
<1> QED BY <1>3, <1>4, <1>5 DEF SInv

\* A client that goes on makes the stream longer.
LEMMA SendsS == ASSUME SInv, ClientSends PROVE SInv'
<1>1. /\ at.req \in Requests /\ MaySend(at) /\ net' = Append(net, at) /\ at' = Following(at)
      /\ UNCHANGED <<client, replies, spc, rx, head>>
  BY DEF ClientSends, sessionVars
<1>2. Typed /\ Script \in Scripts /\ at \in AnyUnit /\ Requests = 1 .. Len(Script)
      /\ Len(Script) \in Nat
      /\ rx \in Seq(AnyUnit) /\ net \in Seq(AnyUnit)
  BY ScriptIs DEF SInv, Typed
<1>3. OneOf(Script, at)
  BY <1>1, <1>2 DEF Typed, Place
<1>4. at' = FollowingIn(Script, at)
  BY <1>1, <1>2, ScriptIs DEF Typed
<1>5. at' \in AnyUnit /\ Place(Script, at') /\ at.req \in Nat /\ at.n \in Nat
  BY <1>2, <1>3, <1>4, UnitTypes
<1>6. Script' = Script
  BY <1>1 DEF Script
<1>7. net' \in Seq(AnyUnit)
  BY <1>1, <1>2
<1>8. Typed'
  BY <1>1, <1>2, <1>5, <1>6, <1>7 DEF Typed
<1>9. RxBounded' /\ RepliesInOrder'
  BY <1>1 DEF SInv, RxBounded, RepliesInOrder
<1>10. Stream \in Seq(AnyUnit) /\ Stream' = Append(Stream, at)
  <2>1. rx \o Append(net, at) = Append(rx \o net, at)
    <3>1. <<at>> \in Seq(AnyUnit) /\ net \o <<at>> = Append(net, at)
      BY <1>2
    <3>2. (rx \o net) \o <<at>> = rx \o (net \o <<at>>)
      BY <1>2, <3>1, ConcatAssociative
    <3>3. (rx \o net) \o <<at>> = Append(rx \o net, at)
      BY <1>2
    <3> QED BY <3>1, <3>2, <3>3
  <2>2. rx \o net \in Seq(AnyUnit)
    BY <1>2
  <2> QED BY <1>1, <2>1, <2>2 DEF Stream
<1>11. ASSUME Streams PROVE Streams'
  <2>1. /\ Run(Script, Append(Stream, at), FollowingIn(Script, at))
        /\ First(Append(Stream, at), FollowingIn(Script, at)) = First(Stream, at)
    BY <1>2, <1>3, <1>10, <1>11, RunExtends DEF Streams
  <2>2. Run(Script, Stream, at)'
    BY <1>4, <1>6, <1>10, <2>1
  <2>3. ASSUME NEW k \in Nat, Past(k, Stream, at)
        PROVE  Past(k, Append(Stream, at), FollowingIn(Script, at))
    BY <1>2, <1>3, <1>10, <2>3, PastExtends
  <2>4. HeadOK'
    <3> SUFFICES ASSUME head' # 0
                 PROVE  /\ head' \in 1 .. Len(Script')
                        /\ First(Stream', at') = FollowingIn(Script', End(head'))
                        /\ Past(head', Stream', at')
                        /\ \A i \in 1 .. Len(replies') : replies'[i].req < head'
                        /\ Len(rx') < Script'[head'].body
      BY DEF HeadOK
    <3>1. /\ head # 0 /\ head \in Nat /\ head \in 1 .. Len(Script)
          /\ First(Stream, at) = FollowingIn(Script, End(head))
          /\ Past(head, Stream, at)
          /\ \A i \in 1 .. Len(replies) : replies[i].req < head
          /\ Len(rx) < Script[head].body
      BY <1>1, <1>2, <1>11 DEF Streams, HeadOK, Typed
    <3>2. Past(head, Append(Stream, at), FollowingIn(Script, at))
      BY <2>3, <3>1
    <3> QED BY <1>1, <1>4, <1>6, <1>10, <2>1, <3>1, <3>2
  <2>5. Replied'
    <3> SUFFICES ASSUME NEW i \in 1 .. Len(replies)
                 PROVE  Past(replies[i].req, Stream', at')
      BY <1>1 DEF Replied
    <3>1. replies[i].req \in Nat /\ Past(replies[i].req, Stream, at)
      BY <1>2, <1>11 DEF Typed, Streams, Replied
    <3> QED BY <1>4, <1>10, <2>3, <3>1
  <2>6. InTurn'
    <3> SUFFICES ASSUME ~client.pipelines
                 PROVE  /\ at'.req <= Len(replies) + 1 \/ (at'.req = Len(replies) + 2 /\ at'.n = 1)
                        /\ \A i \in 1 .. Len(replies) : replies[i].req = i
                        /\ head # 0 => head = Len(replies) + 1
                        /\ head = 0 => \A i \in 1 .. Len(rx) : rx[i].n # 2
      BY <1>1 DEF InTurn
    <3>1. Len(replies) \in Nat
      BY <1>2 DEF Typed
    <3>2. at.n = 1 => Len(replies) >= at.req - 1
      BY <1>1 DEF MaySend
    <3>3. at.req <= Len(replies) + 1
      BY <1>5, <1>11, <3>1, <3>2 DEF Streams, InTurn
    <3>4. (at'.req = at.req) \/ (at'.req = at.req + 1 /\ at'.n = 1)
      BY <1>4 DEF FollowingIn
    <3>5. at'.req <= Len(replies) + 1 \/ (at'.req = Len(replies) + 2 /\ at'.n = 1)
      BY <1>5, <3>1, <3>3, <3>4
    <3> QED BY <1>11, <3>5 DEF Streams, InTurn
  <2> QED BY <2>2, <2>4, <2>5, <2>6 DEF Streams
<1> QED BY <1>1, <1>8, <1>9, <1>11 DEF SInv

\* Initially nothing was sent.
LEMMA InitS == Init => SInv
<1> SUFFICES ASSUME Init PROVE SInv
  OBVIOUS
<1>1. /\ client \in Clients /\ Script \in Scripts /\ Len(Script) \in Nat
      /\ at = [req |-> 1, n |-> 1] /\ rx = <<>> /\ net = <<>> /\ head = 0 /\ replies = <<>>
  BY ScriptIs DEF Init
<1>2. at \in AnyUnit /\ at.req = 1 /\ at.n = 1
  BY <1>1 DEF AnyUnit
<1>3. Place(Script, at)
  <2>1. CASE Len(Script) = 0
    BY <1>2, <2>1 DEF Place
  <2>2. CASE Len(Script) # 0
    <3>1. 1 \in 1 .. Len(Script)
      BY <1>1, <2>2
    <3>2. Script[1].body \in Nat
      <4>1. Script[1] \in Request
        BY <1>1, <3>1 DEF Scripts
      <4> QED BY <4>1 DEF Request
    <3>3. 1 \in 1 .. SizeIn(Script, 1)
      BY <3>2 DEF SizeIn
    <3> QED BY <1>2, <3>1, <3>3 DEF Place, OneOf
  <2> QED BY <2>1, <2>2
<1>4. Len(replies) = 0 /\ DOMAIN replies = {} /\ Len(rx) = 0
  BY <1>1
<1>5. Typed
  BY <1>1, <1>2, <1>3, <1>4 DEF Typed
<1>6. Len(Stream) = 0
  BY <1>1 DEF Stream
<1>7. Streams
  BY <1>1, <1>2, <1>4, <1>6 DEF Streams, Run, HeadOK, Replied, InTurn
<1>8. RxBounded /\ RepliesInOrder
  BY <1>4, LimitAssumption DEF RxBounded, RepliesInOrder
<1> QED BY <1>5, <1>7, <1>8 DEF SInv

\* The current request is replied to, and what is left of what was read stays
\* in the buffer or is thrown away.
LEMMA RepliesS ==
  ASSUME SInv, spc = "idle", Behind(Current),
         UNCHANGED <<client, at>>, net' = Unread, rx' = Rest \/ rx' = <<>>, head' = 0,
         RxBounded',
         Len(replies') = Len(replies) + 1, DOMAIN replies' = 1 .. Len(replies) + 1,
         \A i \in 1 .. Len(replies) : replies'[i] = replies[i],
         replies'[Len(replies) + 1].req = Current
  PROVE  SInv'
<1> DEFINE m == Len(replies)
           k == Current
<1>1. /\ Script \in Scripts /\ Streams /\ Typed /\ Unread \in Seq(AnyUnit) /\ m \in Nat
  BY ReadIs DEF Typed
<1>2. Script' = Script
  BY DEF Script
<1>3. /\ k \in 1 .. Len(Script) /\ k \in Nat
      /\ Rest \in Seq(AnyUnit) /\ Left \in Seq(AnyUnit)
      /\ Run(Script, Left, at) /\ Past(k, Left, at)
      /\ \A i \in 1 .. m : Past(replies[i].req, Left, at) /\ replies[i].req < k
      /\ Unread = After(Left, Len(Rest)) /\ Len(Rest) \in 0 .. Len(Left)
      /\ \A i \in 1 .. Len(Rest) : Rest[i] = Left[i]
  BY DEF Behind
<1>4. /\ ~client.pipelines => k = m + 1
      /\ ~client.pipelines => \A i \in 1 .. Len(Left) : Left[i].n # 2
  BY TurnIs
<1> HIDE DEF k, m
<1>5. \A i \in 1 .. m + 1 : i = m + 1 \/ i \in 1 .. m
  BY <1>1
<1>6. /\ m' = m + 1 /\ replies'[m + 1].req = k
      /\ \A i \in 1 .. m : replies'[i].req = replies[i].req
      /\ DOMAIN replies' = 1 .. m + 1
  BY DEF m, k
<1>7. PICK d \in 0 .. Len(Left) : Stream' = After(Left, d)
  <2>1. CASE rx' = Rest
    <3>1. Left = After(Left, 0)
      BY <1>3, SubSeqFull DEF After
    <3>2. Stream' = Left
      BY <2>1 DEF Stream, Left
    <3>3. 0 \in 0 .. Len(Left)
      BY <1>3
    <3> QED BY <3>1, <3>2, <3>3
  <2>2. CASE rx' = <<>>
    <3>1. Stream' = Unread
      BY <1>1, <2>2, ConcatEmptySeq DEF Stream
    <3> QED BY <1>3, <3>1
  <2> QED BY <2>1, <2>2
<1>8. Run(Script, Stream', at)
  BY <1>1, <1>3, <1>7, RunDrops DEF Typed
<1>9. Past(k, Stream', at) /\ \A i \in 1 .. m : Past(replies[i].req, Stream', at)
  BY <1>3, <1>7, PastDrops
<1>10. Typed'
  <2>1. rx' \in Seq(AnyUnit) /\ net' \in Seq(AnyUnit)
    <3>1. <<>> \in Seq(AnyUnit)
      OBVIOUS
    <3> QED BY <1>1, <1>3, <3>1
  <2>2. \A i \in 1 .. m + 1 : replies'[i].req \in Nat
    BY <1>1, <1>3, <1>5, <1>6 DEF Typed, m
  <2>3. Len(replies') \in Nat /\ DOMAIN replies' = 1 .. Len(replies')
    BY <1>1, <1>6 DEF m
  <2>4. \A i \in 1 .. Len(replies') : replies'[i].req \in Nat
    BY <2>2, <1>6 DEF m
  <2>5. client' \in Clients /\ at' \in AnyUnit /\ Place(Script', at') /\ head' \in Nat
    BY <1>1, <1>2 DEF Typed
  <2> QED BY <2>1, <2>3, <2>4, <2>5 DEF Typed
<1>11. RepliesInOrder'
  <2> SUFFICES ASSUME NEW i \in 1 .. m + 1, NEW j \in 1 .. m + 1, i < j
               PROVE  replies'[i].req < replies'[j].req
    BY <1>6 DEF RepliesInOrder
  <2>1. i \in 1 .. m
    BY <1>1
  <2>2. CASE j \in 1 .. m
    <3>1. DOMAIN replies = 1 .. m
      BY <1>1 DEF Typed, m
    <3> QED BY <1>6, <2>1, <2>2, <3>1 DEF SInv, RepliesInOrder
  <2>3. CASE j = m + 1
    BY <1>3, <1>6, <2>1, <2>3
  <2> QED BY <1>5, <2>2, <2>3
<1>12. Replied'
  <2> SUFFICES ASSUME NEW i \in 1 .. m + 1 PROVE Past(replies'[i].req, Stream', at)
    BY <1>6 DEF Replied, m
  <2> QED BY <1>5, <1>6, <1>9
<1>13. InTurn'
  <2> SUFFICES ASSUME ~client.pipelines
               PROVE  /\ at.req <= m + 2 \/ (at.req = m + 3 /\ at.n = 1)
                      /\ \A i \in 1 .. m + 1 : replies'[i].req = i
                      /\ \A i \in 1 .. Len(rx') : rx'[i].n # 2
    BY <1>1, <1>6 DEF InTurn, m
  <2>1. InTurn /\ at.req \in Nat
    BY <1>1 DEF Streams, Typed, AnyUnit
  <2>2. at.req <= m + 2
    BY <1>1, <2>1 DEF InTurn, m
  <2>3. \A i \in 1 .. m + 1 : replies'[i].req = i
    BY <1>4, <1>5, <1>6, <2>1 DEF InTurn, m
  <2>4. \A i \in 1 .. Len(rx') : rx'[i].n # 2
    <3>1. CASE rx' = Rest
      <4>1. Len(Rest) \in Nat /\ Len(Left) \in Nat
        BY <1>3
      <4>2. \A i \in 1 .. Len(Rest) : i \in 1 .. Len(Left) /\ Rest[i].n # 2
        BY <1>3, <1>4, <4>1
      <4> QED BY <3>1, <4>2
    <3>2. CASE rx' = <<>>
      BY <3>2
    <3> QED BY <3>1, <3>2
  <2> QED BY <2>2, <2>3, <2>4
<1>14. HeadOK'
  BY DEF HeadOK
<1>15. Streams'
  BY <1>2, <1>8, <1>12, <1>13, <1>14 DEF Streams
<1> QED BY <1>10, <1>11, <1>15 DEF SInv

\* Nothing is replied to: the head is not complete, or its body is not.
LEMMA WaitsS ==
  ASSUME SInv, OnReadWaits, RxBounded' PROVE SInv'
<1>1. /\ spc = "idle" /\ net' = Unread /\ UNCHANGED <<client, at, replies, spc>>
      /\ \/ NoHead /\ rx' = Read /\ UNCHANGED head
         \/ HeadRead /\ NeedsMore(Rest, Current) /\ rx' = Rest /\ head' = Current
  BY DEF OnReadWaits, OnReadStart, Reading, clientVars
<1>2. /\ Script \in Scripts /\ Streams /\ Typed
      /\ Read \in Seq(AnyUnit) /\ Unread \in Seq(AnyUnit) /\ Read \o Unread = Stream
  BY <1>1, ReadIs
<1>3. Script' = Script /\ Len(replies) \in Nat
  BY <1>1, <1>2 DEF Script, Typed
<1>4. RepliesInOrder'
  BY <1>1 DEF SInv, RepliesInOrder
<1>5. CASE NoHead /\ rx' = Read /\ UNCHANGED head
  <2>1. Typed'
    BY <1>1, <1>2, <1>3, <1>5 DEF Typed
  <2>2. Stream' = Stream
    BY <1>1, <1>2, <1>5 DEF Stream
  <2>3. \A i \in 1 .. Len(Read) : Read[i].n # 2
    BY <1>2, <1>5, EndIsPosition DEF NoHead
  <2>4. head = 0 /\ head' = 0
    BY <1>5 DEF NoHead
  <2>5. InTurn'
    BY <1>1, <1>2, <1>5, <2>3, <2>4 DEF Streams, InTurn
  <2>6. Replied' /\ HeadOK'
    BY <1>1, <1>2, <2>2, <2>4 DEF Streams, Replied, HeadOK
  <2>7. Streams'
    BY <1>1, <1>2, <1>3, <2>2, <2>5, <2>6 DEF Streams
  <2> QED BY <1>4, <2>1, <2>7 DEF SInv
<1>6. CASE HeadRead /\ NeedsMore(Rest, Current) /\ rx' = Rest /\ head' = Current
  <2>1. Behind(Current)
    BY <1>1, <1>6, CutIs DEF HeadRead
  <2>2. /\ Current \in 1 .. Len(Script) /\ Current \in Nat
        /\ Rest \in Seq(AnyUnit)
        /\ Run(Script, Left, at) /\ First(Left, at) = FollowingIn(Script, End(Current))
        /\ Past(Current, Left, at)
        /\ \A i \in 1 .. Len(replies) : Past(replies[i].req, Left, at) /\ replies[i].req < Current
    BY <2>1 DEF Behind
  <2>3. Stream' = Left
    BY <1>1, <1>6 DEF Stream, Left
  <2>4. Typed'
    BY <1>1, <1>2, <1>3, <1>6, <2>2 DEF Typed
  <2>5. Len(Rest) < Script[Current].body
    BY <1>6 DEF NeedsMore
  <2>6. HeadOK'
    BY <1>1, <1>3, <1>6, <2>2, <2>3, <2>5 DEF HeadOK
  <2>7. Replied'
    BY <1>1, <2>2, <2>3 DEF Replied
  <2>8. InTurn'
    <3> SUFFICES ASSUME ~client.pipelines
                 PROVE  /\ at.req <= Len(replies) + 1 \/ (at.req = Len(replies) + 2 /\ at.n = 1)
                        /\ \A i \in 1 .. Len(replies) : replies[i].req = i
                        /\ head' = Len(replies) + 1 /\ head' # 0
      BY <1>1 DEF InTurn
    <3>1. Current = Len(replies) + 1
      BY <1>1, <2>1, TurnIs
    <3> QED BY <1>2, <1>3, <1>6, <3>1 DEF Streams, InTurn
  <2>9. Streams'
    BY <1>1, <1>3, <2>2, <2>3, <2>6, <2>7, <2>8 DEF Streams
  <2> QED BY <1>4, <2>4, <2>9 DEF SInv
<1> QED BY <1>1, <1>5, <1>6

\* A reply is the last one, to the current request.
LEMMA AnswerS ==
  ASSUME IInv, SInv, spc = "idle", NEW own \in {200, 400, 404}, NEW sent \in {200, 400, 404},
         SendReply(own, sent), head # 0 \/ EndOfHead # 0,
         UNCHANGED <<client, at>>, net' = Unread, rx' = Rest \/ rx' = <<>>, head' = 0,
         RxBounded'
  PROVE  SInv'
<1>1. /\ Replies'
      /\ DOMAIN replies' = 1 .. Len(replies) + 1 /\ Len(replies) \in Nat
      /\ \A i \in 1 .. Len(replies) : replies'[i] = replies[i]
      /\ replies'[Len(replies) + 1].req = Current
  BY SendOne
<1>2. Len(replies') = Len(replies) + 1
  <2>1. PICK reqs : replies' \in Seq(Reply(reqs))
    BY <1>1 DEF Replies
  <2>2. Len(replies') \in Nat /\ DOMAIN replies' = 1 .. Len(replies')
    BY <2>1
  <2> QED BY <1>1, <2>2
<1>3. Behind(Current)
  BY CutIs
<1> QED BY <1>1, <1>2, <1>3, RepliesS

\* The invariant of the stream is inductive, given the other two.
LEMMA StepS == IInv /\ BInv /\ BInv' /\ SInv /\ [Next]_vars => SInv'
<1> SUFFICES ASSUME IInv, BInv, BInv', SInv, [Next]_vars PROVE SInv'
  OBVIOUS
<1>1. RxBounded' /\ Typed
  BY DEF BInv, SInv
<1> USE DEF clientVars, socketVars, sessionVars
<1>2. CASE ClientSends
  BY <1>2, SendsS
<1>3. CASE UNCHANGED <<client, at, rx, net, head, replies>> /\ (spc' # "ended" => spc # "ended")
  BY <1>3, StillS
<1>4. CASE ClientCloses \/ Expire \/ SessionEnds \/ OnReadClosed
  BY <1>3, <1>4 DEF ClientCloses, Expire, SessionEnds, OnReadClosed, Reading
<1>5. CASE SendTimesOut \/ SendFails
  BY <1>3, <1>5 DEF SendTimesOut, SendFails
<1>6. CASE UNCHANGED vars
  BY <1>3, <1>6 DEF vars
<1>7. CASE Drained
  <2>1. /\ DOMAIN replies' = DOMAIN replies /\ Len(replies') = Len(replies)
        /\ \A i \in DOMAIN replies : replies'[i].req = replies[i].req
    BY <1>7, DrainedSame DEF IInv
  <2>2. UNCHANGED <<client, at, rx, net, head>> /\ spc # "ended"
    BY <1>7 DEF Drained
  <2> QED BY <2>1, <2>2, StillS
<1>8. CASE OnReadTooMuch
  <2>1. /\ spc = "idle" /\ spc' = "ended" /\ net' = Unread
        /\ UNCHANGED <<client, at, rx, head, replies>>
    BY <1>8 DEF OnReadTooMuch, Reading
  <2>2. Unread \in Seq(AnyUnit)
    BY <2>1, ReadIs
  <2>3. Script' = Script
    BY <2>1 DEF Script
  <2>4. Typed' /\ RepliesInOrder'
    BY <1>1, <2>1, <2>2, <2>3 DEF SInv, Typed, RepliesInOrder
  <2> QED BY <1>1, <2>1, <2>4 DEF SInv
<1>9. CASE OnReadWaits
  BY <1>1, <1>9, WaitsS
<1>10. CASE OnReadBad
  <2>1. /\ spc = "idle" /\ SendReply(400, 400) /\ UNCHANGED <<client, at>> /\ net' = Unread
        /\ rx' = Rest /\ head' = 0 /\ EndOfHead # 0
    BY <1>10 DEF OnReadBad, OnReadStart, Reading, BadHead
  <2> QED BY <1>1, <2>1, AnswerS
<1>11. CASE OnReadRequest
  <2>1. /\ spc = "idle" /\ UNCHANGED <<client, at>> /\ net' = Unread
        /\ rx' = <<>> /\ head' = 0 /\ (head # 0 \/ EndOfHead # 0)
        /\ SendReply(200, code) \/ SendReply(404, 404)
    BY <1>11 DEF OnReadRequest, OnReadStart, Reading, HeadRead
  <2>2. code \in {200, 400, 404}
    BY DEF IInv
  <2> QED BY <1>1, <2>1, <2>2, AnswerS
<1> QED BY <1>2, <1>4, <1>5, <1>6, <1>7, <1>8, <1>9, <1>10, <1>11 DEF Next, Thread, OnRead

\* The buffer and the socket hold a run of the client's units, behind the heads
\* that were replied to.
THEOREM StreamInvariant == Spec => [](IInv /\ BInv /\ SInv)
<1>1. Init => IInv /\ BInv /\ SInv
  BY InitInv, InitBounded, InitS
<1>2. IInv /\ BInv /\ SInv /\ [Next]_vars => (IInv /\ BInv /\ SInv)'
  BY NextInv, NextBounded, StepS
<1> QED BY <1>1, <1>2, PTL DEF Spec

\* Replies come once for each request, and in order.
THEOREM RepliesInOrderHolds == Spec => []RepliesInOrder
<1>1. SInv => RepliesInOrder
  BY DEF SInv
<1> QED BY StreamInvariant, <1>1, PTL

\* A request is processed with its whole body, which is its own.
THEOREM OwnBytesHolds == Spec => OwnBytes
<1> DEFINE Own ==
      /\ RxBounded'
      /\ OnReadRequest =>
           \A i \in 1 .. Script[Current].body :
             i \in DOMAIN Rest /\ Rest[i] = [req |-> Current, n |-> i + 2]
<1>1. ASSUME IInv, BInv, SInv, [Next]_vars PROVE [Own]_vars
  <2>1. RxBounded'
    BY <1>1, NextBounded DEF BInv
  <2>2. ASSUME OnReadRequest, NEW i \in 1 .. Script[Current].body
        PROVE  i \in DOMAIN Rest /\ Rest[i] = [req |-> Current, n |-> i + 2]
    <3>1. spc = "idle" /\ (head # 0 \/ EndOfHead # 0) /\ ~NeedsMore(Rest, Current)
      BY <2>2 DEF OnReadRequest, OnReadStart, Reading, HeadRead
    <3>2. Behind(Current)
      BY <1>1, <3>1, CutIs
    <3>3. /\ Current \in 1 .. Len(Script)
          /\ Rest \in Seq(AnyUnit) /\ Left \in Seq(AnyUnit)
          /\ Run(Script, Left, at) /\ First(Left, at) = FollowingIn(Script, End(Current))
          /\ Len(Rest) \in 0 .. Len(Left)
          /\ \A j \in 1 .. Len(Rest) : Rest[j] = Left[j]
      BY <3>2 DEF Behind
    <3>4. Script \in Scripts /\ at \in AnyUnit
      BY <1>1, ScriptIs DEF SInv, Typed
    <3>5. Script[Current].body \in Nat
      <4>1. Script[Current] \in Request
        BY <3>3, <3>4 DEF Scripts
      <4> QED BY <4>1 DEF Request
    <3>6. Len(Rest) \in Nat /\ Len(Left) \in Nat /\ DOMAIN Rest = 1 .. Len(Rest)
      BY <3>3
    <3>7. Script[Current].body <= Len(Rest)
      BY <3>1, <3>5, <3>6 DEF NeedsMore
    <3>8. i \in 1 .. Len(Rest) /\ i <= Len(Left)
      BY <3>3, <3>5, <3>6, <3>7
    <3>9. Left[i] = [req |-> Current, n |-> i + 2]
      BY <3>3, <3>4, <3>8, RunBody
    <3> QED BY <3>3, <3>6, <3>8, <3>9
  <2> QED BY <2>1, <2>2
<1>2. IInv /\ BInv /\ SInv /\ [Next]_vars => [Own]_vars
  BY <1>1
<1> QED BY StreamInvariant, <1>2, PTL DEF Spec, OwnBytes

\* A request that was read as a whole is never left to the keep-alive.
THEOREM NoneForgottenHolds == Spec => NoneForgotten
<1> DEFINE Kept ==
      Expire /\ ~client.pipelines =>
        IF head = 0 THEN \A i \in DOMAIN rx : rx[i].n # 2
                    ELSE Len(rx) < Script[head].body
<1>1. ASSUME SInv PROVE Kept
  <2> SUFFICES ASSUME Expire, ~client.pipelines
               PROVE  IF head = 0 THEN \A i \in DOMAIN rx : rx[i].n # 2
                                  ELSE Len(rx) < Script[head].body
    OBVIOUS
  <2>1. HeadOK /\ InTurn /\ DOMAIN rx = 1 .. Len(rx)
    BY <1>1 DEF Expire, SInv, Streams, Typed
  <2> QED BY <2>1 DEF HeadOK, InTurn
<1>2. SInv => [Kept]_vars
  BY <1>1
<1> QED BY StreamInvariant, <1>2, PTL DEF Spec, NoneForgotten
=============================================================================
