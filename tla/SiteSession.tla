---------------------------- MODULE SiteSession -----------------------------
(***************************************************************************)
(* One anon-site session (v2-site): the server's handleConnection with its *)
(* static file handler, and the client's fetchOnce, over a stream that     *)
(* keeps order, cuts bytes into chunks anywhere and may be lost.           *)
(*                                                                         *)
(* Bytes come in units.  A request is one unit, or two of which the second *)
(* ends in CR LF; a response is a head and one unit per byte of its body.  *)
(* The client is fetchOnce, which sends one request and ends the stream    *)
(* when it has an answer, or any client that pipelines requests on a       *)
(* persistent session (docs/SITES-v0.1.md, 4.3).                           *)
(***************************************************************************)
EXTENDS Integers, Sequences, SequencesExt

CONSTANTS MaxRequests,  \* bound: requests of a pipelining client
          MaxUnits,     \* MAX_REQUEST_BYTES
          Sizes,        \* sizes a file may have
          MaxBody,      \* maxBodyBytes of the static handler
          MaxChanges    \* bound: changes of the file

ASSUME SessionBounds ==
    /\ MaxRequests \in Nat \ {0} /\ MaxUnits \in Nat \ {0}
    /\ Sizes \subseteq Nat /\ MaxBody \in Nat /\ MaxChanges \in Nat

\* What a request may be: for a file, for a path outside the root, an URL that
\* parseRequest refuses, bytes that are not UTF-8, longer than the limit, or
\* broken off.
Kinds == {"file", "outside", "bad", "undecodable", "long", "partial"}
Absent == -1
FileStates == Sizes \cup {Absent}

VARIABLES
    kinds,      \* the requests, in order
    once,       \* the client is fetchOnce
    toServer,   \* units under way to the server
    finSent,    \* the client ended its side
    \* the server
    buffer, busy, closing, peerClosed,
    stage,      \* of the static handler: "none", "stat", "read"
    file,       \* the file the requests are for
    changes,
    answered,   \* responses written: request, status, length in META, body size
    \* the client
    toClient,   \* units under way to the client; "fin" ends them
    head, bodySoFar,
    result,     \* of fetchOnce: "pending", "ok", "failed"
    lost        \* the stream broke

transport == <<toServer, finSent, toClient>>
server == <<buffer, busy, closing, peerClosed, stage, answered>>
client == <<head, bodySoFar, result>>
vars == <<kinds, once, file, changes, lost, transport, server, client>>

NoHead == [status |-> 0, len |-> 0]

\* The units of the i-th request.
Units(i, kind) ==
    LET unit(last) == [req |-> i, kind |-> kind, last |-> last]
    IN  CASE kind = "long" -> [u \in 1..(MaxUnits + 1) |-> unit(u = MaxUnits + 1)]
          [] kind = "partial" -> <<unit(FALSE)>>
          [] OTHER -> <<unit(FALSE), unit(TRUE)>>

\* What buildRequest lets through, of what a client may send.
buildRequest == {"file", "outside"}

Init ==
    /\ once \in BOOLEAN
    /\ kinds \in UNION {[1..n -> Kinds] : n \in 1..MaxRequests}
    /\ once => Len(kinds) = 1 /\ kinds[1] \in buildRequest
    /\ \A i \in 1..(Len(kinds) - 1) : kinds[i] # "partial"
    /\ toServer = FlattenSeq([i \in DOMAIN kinds |-> Units(i, kinds[i])])
    /\ finSent = FALSE /\ toClient = <<>>
    /\ buffer = <<>> /\ busy = 0 /\ closing = FALSE /\ peerClosed = FALSE
    /\ stage = "none" /\ answered = <<>>
    /\ file \in FileStates /\ changes = 0
    /\ head = NoHead /\ bodySoFar = 0 /\ result = "pending" /\ lost = FALSE

-----------------------------------------------------------------------------
(* The server                                                              *)

\* parseRequest: nothing yet, a request, or an error.
parseRequest(b) ==
    LET end == SelectInSeq(b, LAMBDA u : u.last)
    IN  CASE end = 0 /\ Len(b) < MaxUnits -> "incomplete"
          [] end = 0 /\ Len(b) >= MaxUnits -> "error"
          [] end > MaxUnits -> "error"
          [] OTHER -> CASE b[end].kind = "bad" -> "error"
                        [] b[end].kind = "undecodable" -> "throws"
                        [] OTHER -> "request"

Response(req, status, len, size) == [req |-> req, status |-> status, len |-> len, size |-> size]
BadRequest(req) == Response(req, 59, 0, 0)

\* buildResponse: the head, then the body.
Written(r) ==
    <<[unit |-> "head", status |-> r.status, len |-> r.len]>>
    \o [i \in 1..r.size |-> [unit |-> "body", status |-> r.status, len |-> 0]]

Fin == [unit |-> "fin", status |-> 0, len |-> 0]

\* sendResponse, or a forced close, or both.
Write(rs, close) ==
    /\ answered' = answered \o rs
    /\ closing' = close
    /\ toClient' = toClient \o FlattenSeq([i \in DOMAIN rs |-> Written(rs[i])])
                            \o (IF close THEN <<Fin>> ELSE <<>>)

\* Mutant: maybeClose does not look at the buffer.
ProcessBufferHasty(b, rs, closed) ==
    LET parsed == parseRequest(b)
    IN  CASE b # <<>> /\ parsed = "error" ->
                 Write(Append(rs, BadRequest(b[1].req)), TRUE) /\ buffer' = b /\ busy' = 0
                 /\ stage' = "none"
          [] b # <<>> /\ parsed = "request" /\ ~closed ->
                 LET end == SelectInSeq(b, LAMBDA u : u.last)
                 IN  /\ Write(rs, FALSE) /\ busy' = b[1].req /\ stage' = "stat"
                     /\ buffer' = SubSeq(b, end + 1, Len(b))
          [] OTHER -> Write(rs, closed) /\ buffer' = b /\ busy' = 0 /\ stage' = "none"

\* processBuffer with the responses rs written before it: it refuses, starts
\* the handler on the next request, or waits for more; when there is nothing
\* to wait for, maybeClose ends the session.  A request that is not UTF-8
\* throws, and the exception is dropped.
processBuffer(b, rs, closed) ==
    LET parsed == parseRequest(b)
    IN  CASE b # <<>> /\ parsed = "error" ->
                 Write(Append(rs, BadRequest(b[1].req)), TRUE) /\ buffer' = b /\ busy' = 0
                 /\ stage' = "none"
          [] b # <<>> /\ parsed = "request" ->
                 LET end == SelectInSeq(b, LAMBDA u : u.last)
                 IN  /\ Write(rs, FALSE) /\ busy' = b[1].req /\ stage' = "stat"
                     /\ buffer' = SubSeq(b, end + 1, Len(b))
          [] b # <<>> /\ parsed \in {"incomplete", "throws"} ->
                 Write(rs, FALSE) /\ buffer' = b /\ busy' = 0 /\ stage' = "none"
          [] OTHER -> Write(rs, closed) /\ buffer' = b /\ busy' = 0 /\ stage' = "none"

\* socket.on('data'): a chunk; more than twice the limit is refused at once,
\* whatever it contains and whatever the handler is doing.
onData ==
    /\ toServer # <<>>
    /\ \E k \in 1..Len(toServer) :
         LET b == buffer \o SubSeq(toServer, 1, k)
         IN  /\ toServer' = SubSeq(toServer, k + 1, Len(toServer))
             /\ IF closing THEN UNCHANGED <<toClient, server>>
                ELSE IF Len(b) > 2 * MaxUnits
                THEN Write(<<BadRequest(b[1].req)>>, TRUE) /\ buffer' = b
                     /\ UNCHANGED <<busy, stage, peerClosed>>
                ELSE IF busy # 0
                THEN buffer' = b /\ UNCHANGED <<busy, closing, peerClosed, stage, answered, toClient>>
                ELSE processBuffer(b, <<>>, peerClosed) /\ UNCHANGED peerClosed
    /\ UNCHANGED <<kinds, once, lost, file, changes, finSent, client>>

\* Mutant: the end of the client's side is noted, and left to the next event.
onEndDeferred ==
    /\ finSent /\ toServer = <<>> /\ ~peerClosed
    /\ peerClosed' = TRUE
    /\ UNCHANGED <<buffer, busy, closing, stage, answered, toClient>>
    /\ UNCHANGED <<kinds, once, lost, file, changes, toServer, finSent, client>>

\* socket.on('end').
onEnd ==
    /\ finSent /\ toServer = <<>> /\ ~peerClosed
    /\ peerClosed' = TRUE
    /\ IF busy # 0 \/ closing
       THEN UNCHANGED <<buffer, busy, closing, stage, answered, toClient>>
       ELSE processBuffer(buffer, <<>>, TRUE)
    /\ UNCHANGED <<kinds, once, lost, file, changes, toServer, finSent, client>>

\* The handler is done: its response is written and the buffer looked at again.
Answer(status, len, size) ==
    /\ IF closing THEN busy' = 0 /\ stage' = "none" /\ UNCHANGED <<buffer, closing, answered, toClient>>
       ELSE processBuffer(buffer, <<Response(busy, status, len, size)>>, peerClosed)
    /\ UNCHANGED <<kinds, once, lost, file, changes, toServer, finSent, client, peerClosed>>

\* The path of a request stays inside the root.
resolveSafe(kind) == kind # "outside"

\* The static handler looks the file up.
statFile ==
    /\ stage = "stat"
    /\ IF ~resolveSafe(kinds[busy]) \/ file = Absent THEN Answer(51, 0, 0)
       ELSE IF file > MaxBody THEN Answer(50, 0, 0)
       ELSE /\ stage' = "read"
            /\ UNCHANGED <<kinds, once, lost, file, changes, transport, buffer, busy, closing,
                           peerClosed, answered, client>>

\* ... and readFile: the file may have changed or gone since.
readFile ==
    /\ stage = "read"
    /\ IF file = Absent THEN Answer(50, 0, 0) ELSE Answer(20, file, file)

\* Somebody changes the file.
changeFile ==
    /\ changes < MaxChanges /\ changes' = changes + 1
    /\ file' \in FileStates \ {file}
    /\ UNCHANGED <<kinds, once, lost, transport, server, client>>

-----------------------------------------------------------------------------
(* The client                                                              *)

\* Mutant: the end of the stream is the end of the body.
onStreamEndTrusting == IF head = NoHead THEN "failed" ELSE "ok"

\* onEnd of fetchOnce.
onStreamEnd ==
    IF head # NoHead /\ bodySoFar = head.len THEN "ok" ELSE "failed"

\* tryAdvance: the head of anything but a success is the whole answer; a body
\* is complete at its length.
Advanced(h, n) ==
    IF h = NoHead THEN "pending"
    ELSE IF h.status # 20 \/ n >= h.len THEN "ok" ELSE "pending"

\* The status and the length of a response, once its head is there.
parseResponseHead(u) ==
    IF u.unit = "head" /\ head = NoHead THEN [status |-> u.status, len |-> u.len] ELSE head

\* fetchOnce takes a unit; a pipelining client does what it likes with it.
onResponseData ==
    /\ toClient # <<>>
    /\ toClient' = Tail(toClient)
    /\ LET u == Head(toClient)
           h == parseResponseHead(u)
           n == IF u.unit = "body" THEN bodySoFar + 1 ELSE bodySoFar
       IN  IF ~once \/ result # "pending" THEN UNCHANGED client
           ELSE IF u.unit = "fin" THEN result' = onStreamEnd /\ UNCHANGED <<head, bodySoFar>>
           ELSE head' = h /\ bodySoFar' = n /\ result' = Advanced(h, n)
    /\ UNCHANGED <<kinds, once, lost, file, changes, toServer, finSent, server>>

\* The timer of fetchOnce.
fetchTimeout ==
    /\ once /\ result = "pending" /\ result' = "failed"
    /\ UNCHANGED <<kinds, once, lost, file, changes, transport, server, head, bodySoFar>>

\* socket.end(): fetchUrl when fetchOnce settled, another client at any time.
endStream ==
    /\ ~finSent /\ finSent' = TRUE
    /\ once => result # "pending"
    /\ UNCHANGED <<kinds, once, lost, file, changes, toServer, toClient, server, client>>

\* The stream is lost: the server is told by 'error' or 'close', the client by
\* the end of what still reaches it.
cut ==
    /\ ~closing /\ closing' = TRUE /\ lost' = TRUE
    /\ toServer' = <<>> /\ finSent' = TRUE
    /\ \E k \in 0..Len(toClient) : toClient' = SubSeq(toClient, 1, k) \o <<Fin>>
    /\ UNCHANGED <<kinds, once, file, changes, buffer, busy, peerClosed, stage, answered, client>>

-----------------------------------------------------------------------------
Next ==
    \/ onData \/ onEnd \/ statFile \/ readFile \/ changeFile
    \/ onResponseData \/ fetchTimeout \/ endStream \/ cut

Spec == Init /\ [][Next]_vars

\* What is under way arrives, the file system answers, timers fire.
Fairness ==
    /\ WF_vars(onData \/ onEnd) /\ WF_vars(statFile \/ readFile)
    /\ WF_vars(fetchTimeout)

FairSpec == Spec /\ Fairness

-----------------------------------------------------------------------------
TypeOK ==
    /\ file \in FileStates /\ changes \in 0..MaxChanges
    /\ busy \in 0..MaxRequests /\ stage \in {"none", "stat", "read"}
    /\ closing \in BOOLEAN /\ peerClosed \in BOOLEAN /\ finSent \in BOOLEAN
    /\ Len(buffer) <= 2 * MaxUnits \/ closing
    /\ result \in {"pending", "ok", "failed"}
    /\ busy = 0 <=> stage = "none"
    /\ lost \in BOOLEAN

\* The length in META is the length of the body that follows, even when the
\* file changes between stat and readFile: a wrong one would shift every later
\* response of the session.
LengthsTrue ==
    \A i \in DOMAIN answered : answered[i].len = answered[i].size

\* fetchOnce resolves with nothing but the whole answer of the server,
\* however it was cut into chunks and wherever the stream broke off.
FetchWhole ==
    once /\ result = "ok" =>
        /\ answered # <<>> /\ head = [status |-> answered[1].status, len |-> answered[1].len]
        /\ bodySoFar = answered[1].size

\* fetchOnce settles, whatever the server and the stream do.
FetchSettles == []<>(once => result # "pending")

\* A client that ended its side sees the server end its own, after all its
\* complete requests were answered; a request that broke off or is not UTF-8
\* keeps the session open for ever, in the code as here.
SessionCloses ==
    peerClosed ~> \/ closing
                  \/ buffer # <<>> /\ parseRequest(buffer) \in {"incomplete", "throws"}

\* What the session promises as a whole: the requests are answered in their
\* order, also those that came while a handler ran, and the server ends the
\* session with all of them answered, with a refusal, which is the last thing it
\* writes, or because it broke.
Refused == \E i \in DOMAIN answered : answered[i].status = 59
Replies == IF Refused THEN Front(answered) ELSE answered

Promise == INSTANCE Conversation WITH
    asked <- Len(kinds),
    replies <- [i \in DOMAIN Replies |-> Replies[i].req],
    over <- closing,
    refused <- Refused,
    broken <- lost

ImplementsConversation == Promise!Spec

\* What the client takes for the answer is the whole of it, and as long as its
\* head says, whatever happened to the file or the stream meanwhile (fetchOnce
\* and the static handler).
AnswersTrue == TypeOK /\ LengthsTrue /\ FetchWhole
=============================================================================
