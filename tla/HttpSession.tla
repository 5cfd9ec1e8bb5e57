---------------------------- MODULE HttpSession ----------------------------
(***************************************************************************)
(* One accepted connection of THttpServer: the client, the socket and the  *)
(* session thread with its THttpSession.                                   *)
(*                                                                         *)
(* The bytes of a request are cut into units, which are numbered: the      *)
(* start of its head (1), the rest of it up to the empty line (2), the     *)
(* bytes of its body that Content-Length counts, and the line break that   *)
(* some browsers add.                                                      *)
(***************************************************************************)
EXTENDS Integers, SequencesExt

CONSTANTS
  Clients,    \* the clients to consider, records of
              \*   script     the requests: a sequence of [good, body, junk]
              \*   pipelines  does it send a request before it has the
              \*              reply to the previous one?
  MaxRequest  \* m_uMaxRequestBytes, in units

ASSUME ClientsAssumption ==
  \A c \in Clients :
    /\ c.script \in Seq([good : BOOLEAN, body : Nat, junk : BOOLEAN])
    /\ c.pipelines \in BOOLEAN
ASSUME LimitAssumption == MaxRequest \in Nat \ {0}

VARIABLES
  client,  \* the client of this connection
  at,      \* the unit the client sends next
  net,     \* units sent and not read
  closed,  \* the client has closed its side
  replies, \* replies so far: [req, own, code, mixed, whole]
  spc,     \* where the session thread is: idle, sending or ended
  rx,      \* m_rx
  head,    \* the request whose head is in m_pb, 0 for none (m_bHeaderReceived)
  code,    \* m_nErrorCode
  content, \* m_sContent is not empty
  fresh,   \* m_uKeepAlive has not expired
  errno,   \* errno of the session thread: again (EAGAIN) or other
  err      \* eCsError is set in the socket

clientVars  == <<client, at, closed>>
socketVars  == <<net, errno, err>>
sessionVars == <<rx, head, code, content>>
vars == <<client, at, net, closed, replies, spc, rx, head, code, content, fresh, errno, err>>

Script   == client.script
Requests == 1 .. Len(Script)

\* How many units a request has, and the unit that comes after u.
Size(k) == 2 + Script[k].body + (IF Script[k].junk THEN 1 ELSE 0)

Following(u) ==
  IF u.n < Size(u.req) THEN [u EXCEPT !.n = @ + 1] ELSE [req |-> u.req + 1, n |-> 1]

Init ==
  /\ client \in Clients
  /\ at = [req |-> 1, n |-> 1]
  /\ net = <<>>
  /\ closed = FALSE
  /\ replies = <<>>
  /\ spc = "idle"
  /\ rx = <<>>
  /\ head = 0
  /\ code = 200
  /\ content = FALSE
  /\ fresh = TRUE
  /\ errno = "other"
  /\ err = FALSE

-----------------------------------------------------------------------------
(* The client.  One that does not pipeline waits for the whole reply.      *)

MaySend(u) ==
  (u.n = 1 /\ ~client.pipelines) =>
    Len(replies) >= u.req - 1 /\ \A i \in DOMAIN replies : replies[i].whole

ClientSends ==
  /\ ~closed
  /\ at.req \in Requests
  /\ MaySend(at)
  /\ net' = Append(net, at)
  /\ at' = Following(at)
  /\ UNCHANGED <<client, closed, replies, spc, sessionVars, fresh, errno, err>>

ClientCloses ==
  /\ ~closed
  /\ closed' = TRUE
  /\ UNCHANGED <<client, at, socketVars, replies, spc, sessionVars, fresh>>

-----------------------------------------------------------------------------
(* IsValid, before each wait for data.  IsRunning() is true until there is *)
(* an error: Accept sets eCsConnecting, and nothing clears it.             *)

Invalid == err \/ ~fresh

SessionEnds ==
  /\ spc = "idle"
  /\ Invalid
  /\ spc' = "ended"
  /\ UNCHANGED <<clientVars, socketVars, replies, sessionVars, fresh>>

\* The end of the stream can be read too.
Readable == net # <<>> \/ closed

\* A minute passes with nothing to read.
Expire ==
  /\ spc = "idle"
  /\ fresh /\ ~Readable
  /\ fresh' = FALSE
  /\ UNCHANGED <<clientVars, socketVars, replies, spc, sessionVars>>

Reading == spc = "idle" /\ ~Invalid

-----------------------------------------------------------------------------
(* OnRead.  Read() asks for as much as fits, and gets what has arrived.    *)

Room   == MaxRequest - Len(rx)
Got    == IF Len(net) < Room THEN Len(net) ELSE Room
Read   == rx \o SubSeq(net, 1, Got)
Unread == SubSeq(net, Got + 1, Len(net))

BugTooMuch == Got > Room

\* "Too much data": the buffer is full.
TooMuch == Got >= Room

OnReadTooMuch ==
  /\ Reading /\ net # <<>>
  /\ TooMuch
  /\ net' = Unread
  /\ spc' = "ended"
  /\ fresh' = TRUE
  /\ UNCHANGED <<clientVars, replies, sessionVars, errno, err>>

BugHeadStays(s, e) == s

\* m_rx without the head that ends at e.
AfterHead(s, e) == SubSeq(s, e + 1, Len(s))

\* What ReadHeaders finds: the empty line, whose head it ends, and what is
\* left in m_rx.  With the head received already, m_rx is the body.
EndOfHead == SelectInSeq(Read, LAMBDA u : u.n = 2)
NewHead   == Read[EndOfHead].req
GoodHead  == Read[1] = [req |-> NewHead, n |-> 1] /\ Script[NewHead].good
Rest      == IF head # 0 THEN Read ELSE AfterHead(Read, EndOfHead)
Current   == IF head # 0 THEN head ELSE NewHead

NoHead   == head = 0 /\ EndOfHead = 0
BadHead  == head = 0 /\ EndOfHead # 0 /\ ~GoodHead
HeadRead == head # 0 \/ (EndOfHead # 0 /\ GoodHead)

BugOneMore(s, k) == Len(s) <= Script[k].body

NeedsMore(s, k) == Len(s) < Script[k].body

OnReadStart == Reading /\ net # <<>> /\ ~TooMuch

OnReadWaits ==
  /\ OnReadStart
  /\ \/ NoHead /\ rx' = Read /\ UNCHANGED head
     \/ HeadRead /\ NeedsMore(Rest, Current) /\ rx' = Rest /\ head' = Current
  /\ net' = Unread
  /\ fresh' = TRUE
  /\ UNCHANGED <<clientVars, replies, spc, code, content, errno, err>>

\* SendReply, with the current error code and everything in m_sContent.  The
\* writes succeed, or the send buffer is full (EAGAIN), or the client is gone.
\* Other calls leave another errno.
SendReply(own, sent) ==
  LET Reply(w) == [req |-> Current, own |-> own, code |-> sent, mixed |-> content, whole |-> w]
  IN \/ /\ replies' = Append(replies, Reply(TRUE))
        /\ spc' = "idle"
        /\ errno' \in {errno, "other"}
        /\ UNCHANGED err
     \/ /\ replies' = Append(replies, Reply(FALSE))
        /\ spc' = "sending"
        /\ errno' = "again"
        /\ UNCHANGED err
     \/ /\ closed
        /\ replies' = Append(replies, Reply(FALSE))
        /\ spc' = "idle"
        /\ errno' = "other"
        /\ err' = TRUE

\* "Bad HTTP request headers.": SendErrorMsg, and no Reset.
OnReadBad ==
  /\ OnReadStart
  /\ BadHead
  /\ rx' = Rest
  /\ code' = 400
  /\ content' = TRUE
  /\ SendReply(400, 400)
  /\ net' = Unread
  /\ fresh' = TRUE
  /\ UNCHANGED <<clientVars, head>>

BugNoReset(sent) == sent

\* Reset() sets m_nErrorCode whatever was sent.
CodeAfter(sent) == 200

\* The request is processed: the page is found, or SendErrorMsg replies 404.
\* m_rx.clear(), and Reset.
OnReadRequest ==
  /\ OnReadStart
  /\ HeadRead /\ ~NeedsMore(Rest, Current)
  /\ \/ SendReply(200, code) /\ code' = CodeAfter(code)
     \/ SendReply(404, 404) /\ code' = CodeAfter(404)
  /\ rx' = <<>>
  /\ head' = 0
  /\ content' = FALSE
  /\ net' = Unread
  /\ fresh' = TRUE
  /\ UNCHANGED clientVars

\* recv() returns 0 and leaves errno alone.  A stale EAGAIN makes it "no
\* data"; otherwise -1 becomes the length of a string, which is too much data
\* or more than there is memory for, and then DoThread is called again.  If the
\* client has reset the connection, recv() fails, and the port notes an error.
OnReadClosed ==
  /\ Reading /\ net = <<>> /\ closed
  /\ fresh' = TRUE
  /\ \/ /\ spc' \in (IF errno = "again" THEN {"idle"} ELSE {"idle", "ended"})
        /\ UNCHANGED <<errno, err>>
     \/ /\ spc' \in {"idle", "ended"}
        /\ errno' = "other"
        /\ err' = TRUE
  /\ UNCHANGED <<clientVars, net, replies, sessionVars>>

-----------------------------------------------------------------------------
(* WritePort, while the send buffer is full.                               *)

LastWhole(w) == [replies EXCEPT ![Len(replies)].whole = w]

Drained ==
  /\ spc = "sending"
  /\ replies' = LastWhole(TRUE)
  /\ spc' = "idle"
  /\ UNCHANGED <<clientVars, socketVars, sessionVars, fresh>>

\* The first wait may time out, and the rest of the reply is not sent.
SendTimesOut ==
  /\ spc = "sending"
  /\ spc' = "idle"
  /\ UNCHANGED <<clientVars, socketVars, replies, sessionVars, fresh>>

SendFails ==
  /\ spc = "sending" /\ closed
  /\ spc' = "idle"
  /\ err' = TRUE
  /\ errno' = "other"
  /\ UNCHANGED <<clientVars, net, replies, sessionVars, fresh>>

-----------------------------------------------------------------------------
OnRead ==
  OnReadTooMuch \/ OnReadWaits \/ OnReadBad \/ OnReadRequest \/ OnReadClosed

Thread == SessionEnds \/ OnRead

Next ==
  \/ ClientSends \/ ClientCloses
  \/ Expire \/ Drained \/ SendTimesOut \/ SendFails
  \/ Thread

Spec == Init /\ [][Next]_vars

-----------------------------------------------------------------------------
(* Properties                                                              *)

Units == UNION {[req : {k}, n : 1 .. Size(k)] : k \in Requests}

\* Types.  The error code between two requests is 200 or that of a bad head.
TypeOK ==
  /\ client \in Clients
  /\ at \in Units \cup {[req |-> Len(Script) + 1, n |-> 1]}
  /\ net \in Seq(Units) /\ rx \in Seq(Units)
  /\ closed \in BOOLEAN /\ content \in BOOLEAN /\ fresh \in BOOLEAN /\ err \in BOOLEAN
  /\ replies \in Seq([req : Requests, own : {200, 400, 404}, code : {200, 400, 404},
                      mixed : BOOLEAN, whole : BOOLEAN])
  /\ spc \in {"idle", "sending", "ended"}
  /\ head \in Requests \cup {0}
  /\ code \in {200, 400}
  /\ errno \in {"again", "other"}

\* A request is replied to once, and in the order of the requests, even if the
\* client pipelines.
RepliesInOrder ==
  \A i, j \in DOMAIN replies : i < j => replies[i].req < replies[j].req

\* A request that a client which does not pipeline has sent, and the thread has
\* read, is never left waiting until the connection is dropped for being idle.
NoneForgotten ==
  [][Expire /\ ~client.pipelines =>
       IF head = 0 THEN \A i \in DOMAIN rx : rx[i].n # 2
                   ELSE Len(rx) < Script[head].body]_vars

\* The receive buffer stays below the limit: Read() is never called with room
\* for nothing, which it would take for no limit at all.
RxBounded == Len(rx) < MaxRequest

\* A request is processed from its own bytes: the buffer never runs over, and
\* the page has the whole body of its request, in order, and nothing else for
\* its body.
OwnBytes ==
  [][/\ RxBounded'
     /\ OnReadRequest =>
          \A i \in 1 .. Script[Current].body :
            i \in DOMAIN Rest /\ Rest[i] = [req |-> Current, n |-> i + 2]]_vars

\* A reply carries the outcome of its own request, unless one before it on the
\* connection was answered as a bad head: only that transaction ends without
\* Reset(), which "Readys for a new transaction" (http_session.h:242, :303-306).
OutcomeUnlessBad ==
  \A i \in DOMAIN replies :
    \/ replies[i].code = replies[i].own /\ ~replies[i].mixed
    \/ \E j \in 1 .. i - 1 : replies[j].own = 400
=============================================================================
