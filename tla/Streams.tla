------------------------------ MODULE Streams ------------------------------
(***************************************************************************)
(* Streams over one circuit, modules/v2-runtime/streams.mjs: the client's  *)
(* createClientStreams and the exit's createExitStreamHandler, joined by   *)
(* the two directions of an established circuit (FIFO, see OnionCircuit).  *)
(*                                                                         *)
(* The c-th call of openStream is call c; the TCP socket the exit opens    *)
(* for its BEGIN is socket c.  Cells carry the call they belong to only    *)
(* for the properties: the code goes by the stream id.                     *)
(*                                                                         *)
(* The caller of openStream attaches its data and end handlers when its    *)
(* await resumes (anon_layer_tunnel.mjs wraps the stream in a Duplex);     *)
(* cells that come in one chunk with the CONNECTED are handled before.     *)
(***************************************************************************)
EXTENDS Naturals, Sequences, FiniteSets

CONSTANTS MaxCalls,   \* bound: openStream calls
          MaxId,      \* the largest stream id (0xFFFF in the code)
          MaxData     \* bound: data cells on the circuit in each direction

ASSUME StreamBounds == MaxCalls \in Nat /\ MaxId \in Nat \ {0} /\ MaxData \in Nat

Calls == 1..MaxCalls
Ids == 1..MaxId
None == 0

VARIABLES
    \* the client
    nextStreamId,
    streams,   \* id -> the call whose entry the Map holds, or None
    idOf,      \* stream.streamId of a call
    promise,   \* of openStream: "none", "pending", "resolved", "rejected"
    closed,    \* the closed flag of the stream
    timer,     \* the connect timer is armed
    attached,  \* the caller resumed and attached its handlers
    sent,      \* data cells the caller sent
    got,       \* data cells the caller's handler received
    ended,     \* the caller's end handler ran
    refused,   \* an END came before the CONNECTED
    \* the exit
    sockets,   \* id -> the socket the Map holds, or None
    sock,      \* "none", "connecting", "connected", "dead"
    half,      \* sock.end() was called
    back,      \* data cells sent for the socket
    put,       \* data written to the socket
    \* the circuit
    toExit, toClient,
    shut       \* one of the two closeAll functions ran

client == <<nextStreamId, streams, idOf, promise, closed, timer, attached, sent, got,
            ended, refused>>
exit == <<sockets, sock, half, back, put>>
vars == <<client, exit, toExit, toClient, shut>>

\* Data cells of all calls.
Total(count) == Cardinality({p \in Calls \X (1..MaxData) : p[2] <= count[p[1]]})
Cell(cmd, c, n) == [cmd |-> cmd, id |-> idOf[c], call |-> c, n |-> n]

Init ==
    /\ nextStreamId = 1
    /\ streams = [i \in Ids |-> None] /\ sockets = streams
    /\ idOf = [c \in Calls |-> None] /\ sent = idOf /\ back = idOf
    /\ promise = [c \in Calls |-> "none"] /\ sock = promise
    /\ closed = [c \in Calls |-> FALSE]
    /\ timer = closed /\ attached = closed /\ ended = closed /\ refused = closed
    /\ half = closed
    /\ got = [c \in Calls |-> <<>>] /\ put = got
    /\ toExit = <<>> /\ toClient = <<>> /\ shut = FALSE

-----------------------------------------------------------------------------
(* The client                                                              *)

\* allocStreamId: the next id, in 16 bits and without 0.
allocStreamId(id) == IF id = MaxId THEN 1 ELSE id + 1

\* openStream: a fresh id, the entry, BEGIN, the connect timer.
openStream(c) ==
    /\ promise[c] = "none" /\ \A d \in 1..(c - 1) : promise[d] # "none"
    /\ nextStreamId' = allocStreamId(nextStreamId)
    /\ idOf' = [idOf EXCEPT ![c] = nextStreamId]
    /\ streams' = [streams EXCEPT ![nextStreamId] = c]
    /\ promise' = [promise EXCEPT ![c] = "pending"]
    /\ timer' = [timer EXCEPT ![c] = TRUE]
    /\ toExit' = Append(toExit, [cmd |-> "BEGIN", id |-> nextStreamId, call |-> c, n |-> 0])
    /\ UNCHANGED <<closed, attached, sent, got, ended, refused, exit, toClient, shut>>

\* Mutant: the timer rejects but does not tell the exit.
connectTimeoutSilent(c) ==
    /\ timer[c]
    /\ timer' = [timer EXCEPT ![c] = FALSE]
    /\ IF streams[idOf[c]] # None
       THEN /\ streams' = [streams EXCEPT ![idOf[c]] = None]
            /\ closed' = [closed EXCEPT ![c] = TRUE]
            /\ promise' = [promise EXCEPT ![c] = "rejected"]
       ELSE UNCHANGED <<streams, closed, promise>>
    /\ UNCHANGED <<nextStreamId, idOf, attached, sent, got, ended, refused, exit,
                   toExit, toClient, shut>>

\* The connect timer: acts only when the Map still has an entry for the id.
connectTimeout(c) ==
    /\ timer[c]
    /\ timer' = [timer EXCEPT ![c] = FALSE]
    /\ IF streams[idOf[c]] # None
       THEN /\ streams' = [streams EXCEPT ![idOf[c]] = None]
            /\ closed' = [closed EXCEPT ![c] = TRUE]
            /\ promise' = [promise EXCEPT ![c] = "rejected"]
            /\ toExit' = IF closed[c] THEN toExit ELSE Append(toExit, Cell("END", c, 0))
       ELSE UNCHANGED <<streams, closed, promise, toExit>>
    /\ UNCHANGED <<nextStreamId, idOf, attached, sent, got, ended, refused, exit,
                   toClient, shut>>

\* handleInboundRelay takes the next cell; an id without an entry is dropped.
FromExit(cmd) ==
    /\ toClient # <<>> /\ Head(toClient).cmd = cmd
    /\ toClient' = Tail(toClient)

Entry == streams[Head(toClient).id]

onConnected ==
    /\ FromExit("CONNECTED")
    /\ IF Entry = None THEN UNCHANGED <<promise, timer>>
       ELSE /\ timer' = [timer EXCEPT ![Entry] = FALSE]
            /\ promise' = [promise EXCEPT ![Entry] = IF @ = "pending" THEN "resolved" ELSE @]
    /\ UNCHANGED <<nextStreamId, streams, idOf, closed, attached, sent, got, ended,
                   refused, exit, toExit, shut>>

\* RELAY_DATA: every handler of the stream is called, and there may be none.
onData ==
    /\ FromExit("DATA")
    /\ IF Entry = None \/ ~attached[Entry] THEN got' = got
       ELSE got' = [got EXCEPT ![Entry] = Append(@, <<Head(toClient).call, Head(toClient).n>>)]
    /\ UNCHANGED <<nextStreamId, streams, idOf, promise, closed, timer, attached, sent,
                   ended, refused, exit, toExit, shut>>

\* RELAY_END: the stream is closed, its entry deleted, its end handlers run.
\* Neither the promise nor the connect timer is touched.
onEnd ==
    /\ FromExit("END")
    /\ IF Entry = None THEN UNCHANGED <<streams, closed, ended, refused>>
       ELSE /\ closed' = [closed EXCEPT ![Entry] = TRUE]
            /\ streams' = [streams EXCEPT ![Head(toClient).id] = None]
            /\ ended' = [ended EXCEPT ![Entry] = attached[Entry]]
            /\ refused' = [refused EXCEPT ![Entry] = promise[Entry] = "pending"]
    /\ UNCHANGED <<nextStreamId, idOf, promise, timer, attached, sent, got, exit, toExit, shut>>

\* The await of openStream resumes: the Duplex attaches its handlers.
attach(c) ==
    /\ promise[c] = "resolved" /\ ~attached[c]
    /\ attached' = [attached EXCEPT ![c] = TRUE]
    /\ UNCHANGED <<nextStreamId, streams, idOf, promise, closed, timer, sent, got, ended,
                   refused, exit, toExit, toClient, shut>>

\* stream.send
send(c) ==
    /\ attached[c] /\ ~closed[c] /\ Total(sent) < MaxData
    /\ sent' = [sent EXCEPT ![c] = @ + 1]
    /\ toExit' = Append(toExit, Cell("DATA", c, sent[c] + 1))
    /\ UNCHANGED <<nextStreamId, streams, idOf, promise, closed, timer, attached, got,
                   ended, refused, exit, toClient, shut>>

\* stream.end
end(c) ==
    /\ attached[c] /\ ~closed[c]
    /\ closed' = [closed EXCEPT ![c] = TRUE]
    /\ toExit' = Append(toExit, Cell("END", c, 0))
    /\ streams' = [streams EXCEPT ![idOf[c]] = None]
    /\ UNCHANGED <<nextStreamId, idOf, promise, timer, attached, sent, got, ended, refused,
                   exit, toClient, shut>>

\* Mutant: the Map is not cleared.
closeAllStreamsKept ==
    /\ shut' = TRUE
    /\ LET open == {streams[i] : i \in Ids} \ {None}
       IN  /\ closed' = [c \in Calls |-> closed[c] \/ c \in open]
           /\ ended' = [c \in Calls |-> ended[c] \/ (c \in open /\ attached[c])]
    /\ UNCHANGED <<nextStreamId, streams, idOf, promise, timer, attached, sent, got, refused,
                   exit, toExit, toClient>>

\* closeAll of the client ends every stream locally and sends nothing.
closeAllStreams ==
    /\ shut' = TRUE
    /\ \E i \in Ids : streams[i] # None
    /\ LET open == {streams[i] : i \in Ids} \ {None}
       IN  /\ closed' = [c \in Calls |-> closed[c] \/ c \in open]
           /\ ended' = [c \in Calls |-> ended[c] \/ (c \in open /\ attached[c])]
    /\ streams' = [i \in Ids |-> None]
    /\ UNCHANGED <<nextStreamId, idOf, promise, timer, attached, sent, got, refused, exit,
                   toExit, toClient>>

-----------------------------------------------------------------------------
(* The exit                                                                *)

FromClient(cmd) ==
    /\ toExit # <<>> /\ Head(toExit).cmd = cmd
    /\ toExit' = Tail(toExit)

\* RELAY_BEGIN that is malformed, not IPv4, or against the exit policy.
beginRefused ==
    /\ FromClient("BEGIN")
    /\ toClient' = Append(toClient, Cell("END", Head(toExit).call, 0))
    /\ UNCHANGED <<client, exit, shut>>

\* Mutant: the socket is registered under one key for the circuit.
beginAcceptedOneKey ==
    /\ FromClient("BEGIN")
    /\ sockets' = [i \in Ids |-> Head(toExit).call]
    /\ sock' = [sock EXCEPT ![Head(toExit).call] = "connecting"]
    /\ UNCHANGED <<client, half, back, put, toClient, shut>>

\* RELAY_BEGIN: a socket is dialled and registered under the stream id.
beginAccepted ==
    /\ FromClient("BEGIN")
    /\ sockets' = [sockets EXCEPT ![Head(toExit).id] = Head(toExit).call]
    /\ sock' = [sock EXCEPT ![Head(toExit).call] = "connecting"]
    /\ UNCHANGED <<client, half, back, put, toClient, shut>>

handleStreamData ==
    /\ FromClient("DATA")
    /\ LET s == sockets[Head(toExit).id]
       IN  IF s = None \/ sock[s] = "dead" THEN put' = put
           ELSE put' = [put EXCEPT ![s] = Append(@, <<Head(toExit).call, Head(toExit).n>>)]
    /\ UNCHANGED <<client, sockets, sock, half, back, toClient, shut>>

handleStreamEnd ==
    /\ FromClient("END")
    /\ LET s == sockets[Head(toExit).id]
       IN  half' = IF s = None THEN half ELSE [half EXCEPT ![s] = TRUE]
    /\ sockets' = [sockets EXCEPT ![Head(toExit).id] = None]
    /\ UNCHANGED <<client, sock, back, put, toClient, shut>>

sockConnect(c) ==
    /\ sock[c] = "connecting"
    /\ sock' = [sock EXCEPT ![c] = "connected"]
    /\ toClient' = Append(toClient, Cell("CONNECTED", c, 0))
    /\ UNCHANGED <<client, sockets, half, back, put, toExit, shut>>

\* The connect timer destroys the socket; no handler runs, nothing is sent.
sockTimeout(c) ==
    /\ sock[c] = "connecting"
    /\ sock' = [sock EXCEPT ![c] = "dead"]
    /\ UNCHANGED <<client, sockets, half, back, put, toExit, toClient, shut>>

sockData(c) ==
    /\ sock[c] = "connected" /\ Total(back) < MaxData
    /\ back' = [back EXCEPT ![c] = @ + 1]
    /\ toClient' = Append(toClient, Cell("DATA", c, back[c] + 1))
    /\ UNCHANGED <<client, sockets, sock, half, put, toExit, shut>>

\* 'end' of a connected socket, or 'error': END goes back and the key is
\* deleted, whichever socket is under it.
sockEnd(c) ==
    /\ sock[c] \in {"connecting", "connected"}
    /\ sock' = [sock EXCEPT ![c] = "dead"]
    /\ toClient' = Append(toClient, Cell("END", c, 0))
    /\ sockets' = [sockets EXCEPT ![idOf[c]] = None]
    /\ UNCHANGED <<client, half, back, put, toExit, shut>>

\* closeAll of the exit, at shutdown.
closeAllSockets ==
    /\ shut' = TRUE
    /\ \E i \in Ids : sockets[i] # None
    /\ sock' = [c \in Calls |-> IF \E i \in Ids : sockets[i] = c THEN "dead" ELSE sock[c]]
    /\ sockets' = [i \in Ids |-> None]
    /\ UNCHANGED <<client, half, back, put, toExit, toClient>>

-----------------------------------------------------------------------------
ClientHandles == onConnected \/ onData \/ onEnd
ExitHandles ==
    \/ beginRefused \/ beginAccepted \/ handleStreamData \/ handleStreamEnd

Next ==
    \/ ClientHandles \/ ExitHandles \/ closeAllStreams \/ closeAllSockets
    \/ \E c \in Calls :
         \/ openStream(c) \/ connectTimeout(c) \/ attach(c) \/ send(c) \/ end(c)
         \/ sockConnect(c) \/ sockTimeout(c) \/ sockData(c) \/ sockEnd(c)

\* Cells are handled, continuations and timers run; the caller and the
\* remote server may do nothing.
Fairness ==
    /\ WF_vars(ClientHandles) /\ WF_vars(ExitHandles)
    /\ \A c \in Calls : WF_vars(connectTimeout(c)) /\ WF_vars(attach(c)) /\ WF_vars(sockTimeout(c))

Spec == Init /\ [][Next]_vars
FairSpec == Spec /\ Fairness

-----------------------------------------------------------------------------
(* Properties                                                              *)

TypeOK ==
    /\ nextStreamId \in Ids
    /\ {streams, sockets} \subseteq [Ids -> Calls \cup {None}]
    /\ idOf \in [Calls -> Ids \cup {None}]
    /\ promise \in [Calls -> {"none", "pending", "resolved", "rejected"}]
    /\ {closed, timer, attached, ended, refused, half} \subseteq [Calls -> BOOLEAN]
    /\ sock \in [Calls -> {"none", "connecting", "connected", "dead"}]
    /\ {sent, back} \subseteq [Calls -> 0..MaxData]
    /\ shut \in BOOLEAN

InOrder(s, c) == \A k \in DOMAIN s : s[k] = <<c, s[1][2] + k - 1>>

\* Streams do not mix: what a caller receives is what its own socket
\* delivered, in order and without a gap once its handlers are attached, and
\* what its socket is written is all that it sent, from the first byte.
StreamsIsolated ==
    \A c \in Calls :
        /\ InOrder(got[c], c)
        /\ InOrder(put[c], c) /\ (put[c] # <<>> => put[c][1][2] = 1)

\* Once a caller was told that its stream ended, it receives nothing more.
NothingAfterEnd == [][\A c \in Calls : ended[c] => got'[c] = got[c]]_vars

\* openStream settles.
OpenSettles ==
    \A c \in Calls : (promise[c] = "pending") ~> (promise[c] # "pending" \/ shut)

\* openStream settles, unless the exit ended the stream before connecting or
\* closeAll ran.
OpenSettlesUnlessRefused ==
    \A c \in Calls :
        (promise[c] = "pending") ~> (promise[c] # "pending" \/ refused[c] \/ shut)

\* The exit forgets the socket of a stream the client is done with, whoever
\* ended it and whatever was in flight, unless the client's closeAll ran,
\* which tells the exit nothing.
SocketReleased ==
    \A c \in Calls : closed[c] ~> (shut \/ [](\A i \in Ids : sockets[i] # c))

\* Streams of one circuit do not mix (the entries and sockets by stream id).
StreamsSound == TypeOK /\ StreamsIsolated

\* Neither end waits for ever: the open of the client settles unless it was
\* refused, and the exit lets its socket go (openStream, and END at both ends).
StreamsSettle == OpenSettlesUnlessRefused /\ SocketReleased
=============================================================================
