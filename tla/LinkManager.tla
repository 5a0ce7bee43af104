----------------------------- MODULE LinkManager -----------------------------
(***************************************************************************)
(* Links between relays: the WebSocket transport wrapper and the LINK      *)
(* handshake over it (modules/v2-runtime/link_transport_ws.mjs,            *)
(* modules/v2/link.mjs) and the LinkManager of every node that keeps one   *)
(* verified link per peer (modules/v2-runtime/link_manager.mjs).           *)
(*                                                                         *)
(* A connection has a dialer end "d" and an acceptor end "a", each with a  *)
(* FIFO queue of frames.  ws.close() puts a CLOSE frame behind the frames  *)
(* already sent; its arrival is the 'close' event of the other end.  Each  *)
(* end has ONE onCell/onClose handler pair: first the handshake's, then,   *)
(* once installed, the link manager's.                                     *)
(*                                                                         *)
(* A verified AUTH settles a promise, and installLink runs in its          *)
(* continuation.  Until then the node does nothing else, except that       *)
(* frames of the same TCP chunk are delivered first (ws emits them         *)
(* synchronously): `busy' holds the end whose continuation is pending.     *)
(***************************************************************************)
EXTENDS Naturals, Sequences

CONSTANTS Nodes,      \* relays, identified by their idPk
          Conns,      \* connections
          None,
          Stopping,   \* the nodes that may shut down
          Misrouted,  \* TRUE when an address may lead to another node
          MaxCells,   \* bound: circuit cells sent per end of a connection
          MaxBad,     \* bound: frames of a wrong size
          MaxFails    \* bound: connections lost in the network

ASSUME BoundsAssumption ==
    /\ MaxCells \in Nat /\ MaxBad \in Nat /\ MaxFails \in Nat
    /\ Misrouted \in BOOLEAN /\ Stopping \subseteq Nodes
    /\ None \notin Nodes /\ None \notin Conns
    /\ None \notin [dialer : Nodes, expect : Nodes, target : Nodes]

Ends == {"d", "a"}
Other(e) == IF e = "d" THEN "a" ELSE "d"

Hello(id) == [type |-> "HELLO", id |-> id, peer |-> None]
Auth(id, peer) == [type |-> "AUTH", id |-> id, peer |-> peer]
CellFrame == [type |-> "CELL", id |-> None, peer |-> None]
CloseFrame == [type |-> "CLOSE", id |-> None, peer |-> None]
BadFrame == [type |-> "BAD", id |-> None, peer |-> None]
Frames == {Hello(n) : n \in Nodes} \cup {Auth(n, p) : n, p \in Nodes}
          \cup {CellFrame, CloseFrame, BadFrame}

VARIABLES
    conn,     \* [dialer, expect, target] of a connection, None before dialLink
    open,     \* transport of an end: "none", "open", "closed" (the closed flag)
    hs,       \* handshake state of an end
    hello,    \* peerHello.idPk at an end
    handler,  \* whose onCell/onClose the transport has
    settled,  \* the handshake promise of an end is settled
    queue,    \* frames on their way to an end
    links,    \* LinkManager.links of a node: peer -> connection
    dialing,  \* LinkManager.dialing of a node: peer -> connection
    busy,     \* the end whose installLink continuation is pending at a node
    accepted, \* ends that handed a circuit cell to the manager's onCell
    cells, bads, fails

vars == <<conn, open, hs, hello, handler, settled, queue, links, dialing, busy,
          accepted, cells, bads, fails>>

\* The node at end e of connection x.
NodeAt(x, e) == IF e = "d" THEN conn[x].dialer ELSE conn[x].target

TypeOK ==
    /\ conn \in [Conns -> [dialer : Nodes, expect : Nodes, target : Nodes] \cup {None}]
    /\ open \in [Conns -> [Ends -> {"none", "open", "closed"}]]
    /\ hs \in [Conns -> [Ends -> {"awaiting-peer-hello", "awaiting-peer-auth",
                                  "established", "failed"}]]
    /\ hello \in [Conns -> [Ends -> Nodes \cup {None}]]
    /\ handler \in [Conns -> [Ends -> {"handshake", "link"}]]
    /\ settled \in [Conns -> [Ends -> BOOLEAN]]
    /\ queue \in [Conns -> [Ends -> Seq(Frames)]]
    /\ links \in [Nodes -> [Nodes -> Conns \cup {None}]]
    /\ dialing \in [Nodes -> [Nodes -> Conns \cup {None}]]
    /\ busy \in [Nodes -> (Conns \X Ends) \cup {<<>>}]
    /\ accepted \subseteq Conns \X Ends
    /\ cells \in [Conns -> [Ends -> 0..MaxCells]]
    /\ bads \in 0..MaxBad
    /\ fails \in 0..MaxFails

Init ==
    /\ conn = [x \in Conns |-> None]
    /\ open = [x \in Conns |-> [e \in Ends |-> "none"]]
    /\ hs = [x \in Conns |-> [e \in Ends |-> "awaiting-peer-hello"]]
    /\ hello = [x \in Conns |-> [e \in Ends |-> None]]
    /\ handler = [x \in Conns |-> [e \in Ends |-> "handshake"]]
    /\ settled = [x \in Conns |-> [e \in Ends |-> FALSE]]
    /\ queue = [x \in Conns |-> [e \in Ends |-> <<>>]]
    /\ links = [n \in Nodes |-> [p \in Nodes |-> None]]
    /\ dialing = [n \in Nodes |-> [p \in Nodes |-> None]]
    /\ busy = [n \in Nodes |-> <<>>]
    /\ accepted = {}
    /\ cells = [x \in Conns |-> [e \in Ends |-> 0]]
    /\ bads = 0
    /\ fails = 0

-----------------------------------------------------------------------------
(* Transport                                                               *)

\* The queues after end e takes its first frame and sends the frames out; a
\* closed transport sends nothing.
Take(x, e, out) ==
    [queue EXCEPT ![x][e] = Tail(@),
                  ![x][Other(e)] = IF open[x][e] = "open" THEN @ \o out ELSE @]

Send(x, e, out) ==
    [queue EXCEPT ![x][Other(e)] = IF open[x][e] = "open" THEN @ \o out ELSE @]

\* An event of end e may be handled: no continuation is pending at its node.
Idle(x, e) == conn[x] # None /\ busy[NodeAt(x, e)] = <<>>

\* The frame that end e handles now.  While a continuation is pending at the
\* node only frames of the same connection come through.
Frame(x, e, type) ==
    /\ conn[x] # None
    /\ open[x][e] = "open"
    /\ busy[NodeAt(x, e)] \in {<<>>, <<x, e>>}
    /\ queue[x][e] # <<>>
    /\ Head(queue[x][e]).type = type

\* settle(reject): the promise of ensureLink, if this end dialed, rejects and
\* its finally clause forgets the dial.
forgetDial(x, e) ==
    dialing' = IF e = "d" THEN [dialing EXCEPT ![conn[x].dialer][conn[x].expect] = None]
                          ELSE dialing

-----------------------------------------------------------------------------
(* ensureLink, up to the await                                             *)

\* No link and no dial in flight: dialLink opens a connection, and both ends
\* send their HELLO as soon as they are wrapped.  Without Misrouted the
\* address leads to the wanted peer.
ensureLink(n, p, t, x) ==
    /\ n # p /\ n # t
    /\ t = p \/ Misrouted
    /\ busy[n] = <<>>
    /\ links[n][p] = None
    /\ dialing[n][p] = None
    /\ conn[x] = None
    /\ conn' = [conn EXCEPT ![x] = [dialer |-> n, expect |-> p, target |-> t]]
    /\ open' = [open EXCEPT ![x] = [e \in Ends |-> "open"]]
    /\ queue' = [queue EXCEPT ![x] = [e \in Ends |-> IF e = "d" THEN <<Hello(t)>>
                                                               ELSE <<Hello(n)>>]]
    /\ dialing' = [dialing EXCEPT ![n][p] = x]
    /\ UNCHANGED <<hs, hello, handler, settled, links, busy, accepted, cells, bads, fails>>

-----------------------------------------------------------------------------
(* The handshake handler: ingestCell and what the transport does with it   *)

\* A HELLO that is not the first, or not from the peer the dialer expects,
\* fails the handshake; otherwise AUTH goes out.
helloAcceptable(x, e, m) ==
    /\ hello[x][e] = None
    /\ e = "d" => m.id = conn[x].expect

\* Mutant: the HELLO alone establishes the link.
onHelloTrusting(x, e) ==
    /\ Frame(x, e, "HELLO")
    /\ handler[x][e] = "handshake"
    /\ hs[x][e] = "awaiting-peer-hello"
    /\ helloAcceptable(x, e, Head(queue[x][e]))
    /\ hello' = [hello EXCEPT ![x][e] = Head(queue[x][e]).id]
    /\ hs' = [hs EXCEPT ![x][e] = "established"]
    /\ settled' = [settled EXCEPT ![x][e] = TRUE]
    /\ busy' = [busy EXCEPT ![NodeAt(x, e)] = <<x, e>>]
    /\ queue' = Take(x, e, <<>>)
    /\ UNCHANGED <<conn, open, handler, links, dialing, accepted, cells, bads, fails>>

onHello(x, e) ==
    /\ Frame(x, e, "HELLO")
    /\ handler[x][e] = "handshake"
    /\ hs[x][e] = "awaiting-peer-hello"
    /\ helloAcceptable(x, e, Head(queue[x][e]))
    /\ hello' = [hello EXCEPT ![x][e] = Head(queue[x][e]).id]
    /\ hs' = [hs EXCEPT ![x][e] = "awaiting-peer-auth"]
    /\ queue' = Take(x, e, <<Auth(NodeAt(x, e), Head(queue[x][e]).id)>>)
    /\ UNCHANGED <<conn, open, handler, settled, links, dialing, busy, accepted,
                   cells, bads, fails>>

\* AUTH is checked against the peer's HELLO and this side's own identity.
authVerifies(x, e, m) ==
    /\ hello[x][e] # None
    /\ m.id = hello[x][e]
    /\ m.peer = NodeAt(x, e)

onAuth(x, e) ==
    /\ Frame(x, e, "AUTH")
    /\ handler[x][e] = "handshake"
    /\ hs[x][e] = "awaiting-peer-auth"
    /\ authVerifies(x, e, Head(queue[x][e]))
    /\ hs' = [hs EXCEPT ![x][e] = "established"]
    /\ settled' = [settled EXCEPT ![x][e] = TRUE]
    /\ busy' = [busy EXCEPT ![NodeAt(x, e)] = <<x, e>>]
    /\ queue' = Take(x, e, <<>>)
    /\ UNCHANGED <<conn, open, hello, handler, links, dialing, accepted, cells,
                   bads, fails>>

\* Every other cell the handshake handler sees ends in transport.close(): a
\* HELLO or AUTH it does not accept, or a circuit cell -- also one that
\* follows the AUTH in the same chunk, when the promise is already resolved.
handshakeFails(x, e) ==
    /\ handler[x][e] = "handshake"
    /\ \/ /\ Frame(x, e, "HELLO")
          /\ ~helloAcceptable(x, e, Head(queue[x][e]))
       \/ /\ Frame(x, e, "AUTH")
          /\ ~authVerifies(x, e, Head(queue[x][e]))
       \/ Frame(x, e, "CELL")
    /\ hs' = [hs EXCEPT ![x][e] = "failed"]
    /\ open' = [open EXCEPT ![x][e] = "closed"]
    /\ queue' = Take(x, e, <<CloseFrame>>)
    /\ IF settled[x][e] THEN UNCHANGED <<settled, dialing>>
       ELSE settled' = [settled EXCEPT ![x][e] = TRUE] /\ forgetDial(x, e)
    /\ UNCHANGED <<conn, hello, handler, links, busy, accepted, cells, bads, fails>>

\* Mutant: the timer does nothing once the transport is closed.
handshakeTimeoutOpenOnly(x, e) ==
    /\ Idle(x, e)
    /\ ~settled[x][e]
    /\ open[x][e] = "open"
    /\ open' = [open EXCEPT ![x][e] = "closed"]
    /\ queue' = Send(x, e, <<CloseFrame>>)
    /\ settled' = [settled EXCEPT ![x][e] = TRUE]
    /\ forgetDial(x, e)
    /\ UNCHANGED <<conn, hs, hello, handler, links, busy, accepted, cells, bads, fails>>

\* The 15 s timer of the handshake.
handshakeTimeout(x, e) ==
    /\ Idle(x, e)
    /\ ~settled[x][e]
    /\ open' = [open EXCEPT ![x][e] = "closed"]
    /\ queue' = Send(x, e, <<CloseFrame>>)
    /\ settled' = [settled EXCEPT ![x][e] = TRUE]
    /\ forgetDial(x, e)
    /\ UNCHANGED <<conn, hs, hello, handler, links, busy, accepted, cells, bads, fails>>

-----------------------------------------------------------------------------
(* The continuation: installLink                                           *)

\* The first link to a peer is kept; the transport of a later one is closed.
installLink(x, e) ==
    LET n == NodeAt(x, e)
        p == hello[x][e]
    IN  /\ conn[x] # None
        /\ busy[n] = <<x, e>>
        /\ busy' = [busy EXCEPT ![n] = <<>>]
        /\ IF links[n][p] # None
           THEN /\ open' = [open EXCEPT ![x][e] = "closed"]
                /\ queue' = Send(x, e, <<CloseFrame>>)
                /\ UNCHANGED <<handler, links>>
           ELSE /\ handler' = [handler EXCEPT ![x][e] = "link"]
                /\ links' = [links EXCEPT ![n][p] = x]
                /\ UNCHANGED <<open, queue>>
        /\ forgetDial(x, e)
        /\ UNCHANGED <<conn, hs, hello, settled, accepted, cells, bads, fails>>

-----------------------------------------------------------------------------
(* An installed link                                                       *)

\* A circuit cell sent on the link a node holds (link.sendCell).
sendCell(x, e) ==
    /\ Idle(x, e)
    /\ handler[x][e] = "link"
    /\ cells[x][e] < MaxCells
    /\ cells' = [cells EXCEPT ![x][e] = @ + 1]
    /\ queue' = Send(x, e, <<CellFrame>>)
    /\ UNCHANGED <<conn, open, hs, hello, handler, settled, links, dialing, busy,
                   accepted, bads, fails>>

\* A circuit cell received on an installed link reaches the manager's onCell.
receiveCell(x, e) ==
    /\ Frame(x, e, "CELL")
    /\ handler[x][e] = "link"
    /\ accepted' = accepted \cup {<<x, e>>}
    /\ queue' = Take(x, e, <<>>)
    /\ UNCHANGED <<conn, open, hs, hello, handler, settled, links, dialing, busy,
                   cells, bads, fails>>

\* A frame of a wrong size: the closed flag is set before the 'close' event,
\* so that event calls no handler.
badFrame(x, e) ==
    /\ Frame(x, e, "BAD")
    /\ open' = [open EXCEPT ![x][e] = "closed"]
    /\ queue' = Take(x, e, <<CloseFrame>>)
    /\ UNCHANGED <<conn, hs, hello, handler, settled, links, dialing, busy,
                   accepted, cells, bads, fails>>

\* The 'close' event at an end whose closed flag is not set: the handshake's
\* handler rejects, the manager's deletes the peer from links.
closeEvent(x, e) ==
    /\ open' = [open EXCEPT ![x][e] = "closed"]
    /\ IF handler[x][e] = "link"
       THEN links' = [links EXCEPT ![NodeAt(x, e)][hello[x][e]] = None]
       ELSE links' = links
    /\ IF settled[x][e] THEN UNCHANGED <<settled, dialing>>
       ELSE settled' = [settled EXCEPT ![x][e] = TRUE] /\ forgetDial(x, e)

onClose(x, e) ==
    /\ Frame(x, e, "CLOSE")
    /\ busy[NodeAt(x, e)] = <<>>
    /\ closeEvent(x, e)
    /\ queue' = Take(x, e, <<>>)
    /\ UNCHANGED <<conn, hs, hello, handler, busy, accepted, cells, bads, fails>>

\* Frames that reach an end whose closed flag is set are ignored.
ignoreFrame(x, e) ==
    /\ conn[x] # None
    /\ open[x][e] = "closed"
    /\ queue[x][e] # <<>>
    /\ queue' = Take(x, e, <<>>)
    /\ UNCHANGED <<conn, open, hs, hello, handler, settled, links, dialing, busy,
                   accepted, cells, bads, fails>>

-----------------------------------------------------------------------------
(* The environment, and shutdown                                           *)

\* The network loses what is on its way to end e and its socket closes; the
\* other end notices after the frames it already has.
networkLoss(x, e) ==
    /\ Idle(x, e)
    /\ fails < MaxFails
    /\ open[x][e] = "open"
    /\ fails' = fails + 1
    /\ closeEvent(x, e)
    /\ queue' = [queue EXCEPT ![x][e] = <<>>, ![x][Other(e)] = Append(@, CloseFrame)]
    /\ UNCHANGED <<conn, hs, hello, handler, busy, accepted, cells, bads>>

\* closeAll, at shutdown: every link is closed and forgotten.  A dial that is
\* still in its handshake is not.
closeAll(n) ==
    LET mine == {xe \in Conns \X Ends :
                    /\ conn[xe[1]] # None
                    /\ NodeAt(xe[1], xe[2]) = n
                    /\ \E p \in Nodes : links[n][p] = xe[1]}
    IN  /\ n \in Stopping
        /\ busy[n] = <<>>
        /\ mine # {}
        /\ open' = [x \in Conns |-> [e \in Ends |->
                        IF <<x, e>> \in mine THEN "closed" ELSE open[x][e]]]
        /\ queue' = [x \in Conns |-> [e \in Ends |->
                        IF <<x, Other(e)>> \in mine /\ open[x][Other(e)] = "open"
                        THEN Append(queue[x][e], CloseFrame) ELSE queue[x][e]]]
        /\ links' = [links EXCEPT ![n] = [p \in Nodes |-> None]]
        /\ UNCHANGED <<conn, hs, hello, handler, settled, dialing, busy, accepted,
                       cells, bads, fails>>

malformedFrame(x, e) ==
    /\ conn[x] # None
    /\ bads < MaxBad
    /\ open[x][Other(e)] = "open"
    /\ bads' = bads + 1
    /\ queue' = [queue EXCEPT ![x][e] = Append(@, BadFrame)]
    /\ UNCHANGED <<conn, open, hs, hello, handler, settled, links, dialing, busy,
                   accepted, cells, fails>>

Next ==
    \/ \E n, p, t \in Nodes, x \in Conns : ensureLink(n, p, t, x)
    \/ \E n \in Nodes : closeAll(n)
    \/ \E x \in Conns, e \in Ends :
        \/ onHello(x, e)
        \/ onAuth(x, e)
        \/ handshakeFails(x, e)
        \/ handshakeTimeout(x, e)
        \/ installLink(x, e)
        \/ sendCell(x, e)
        \/ receiveCell(x, e)
        \/ badFrame(x, e)
        \/ onClose(x, e)
        \/ ignoreFrame(x, e)
        \/ networkLoss(x, e)
        \/ malformedFrame(x, e)

\* Frames arrive, continuations run and timers fire; a node need not dial,
\* and nothing has to fail.
Fairness ==
    \A x \in Conns, e \in Ends :
        /\ WF_vars(onHello(x, e)) /\ WF_vars(onAuth(x, e))
        /\ WF_vars(handshakeFails(x, e)) /\ WF_vars(handshakeTimeout(x, e))
        /\ WF_vars(installLink(x, e)) /\ WF_vars(receiveCell(x, e))
        /\ WF_vars(badFrame(x, e)) /\ WF_vars(onClose(x, e))
        /\ WF_vars(ignoreFrame(x, e))

Spec == Init /\ [][Next]_vars /\ Fairness

-----------------------------------------------------------------------------
(* Properties                                                              *)

\* A link is verified: when an end carries the manager's handlers, the node at
\* the other end has signed its AUTH on this connection, and the manager files
\* the link under the node that is really there.
LinkVerified ==
    \A x \in Conns, e \in Ends :
        handler[x][e] = "link" =>
            /\ hs[x][Other(e)] # "awaiting-peer-hello"
            /\ hello[x][e] = NodeAt(x, Other(e))

\* ensureLink resolves only with a link to the peer it was asked for, even
\* when the address leads elsewhere.
DialReachesPeer ==
    \A x \in Conns :
        handler[x]["d"] = "link" => conn[x].target = conn[x].expect

\* Simultaneous ensureLink calls for one peer share one dial.
DialsDeduplicated ==
    \A x, y \in Conns :
        (/\ x # y /\ conn[x] # None /\ conn[y] # None
         /\ conn[x].dialer = conn[y].dialer
         /\ conn[x].expect = conn[y].expect)
            => settled[x]["d"] \/ settled[y]["d"]

\* A dial always ends: ensureLink's promise settles, whatever the other end,
\* the network or a malformed frame do.
DialSettles ==
    \A n, p \in Nodes : dialing[n][p] # None ~> dialing[n][p] = None

\* The links a manager holds are active ones: getLink and ensureLink never
\* return a link whose transport is closed.
ActiveLinks ==
    \A n, p \in Nodes, x \in Conns, e \in Ends :
        (links[n][p] = x /\ NodeAt(x, e) = n) => open[x][e] = "open"

\* Deduplicating simultaneous opens leaves a link: once every frame is
\* handled, two nodes that completed a handshake with each other at both ends
\* share a connection that is open at both.
DedupKeepsALink ==
    LET quiet == /\ \A x \in Conns, e \in Ends : queue[x][e] = <<>>
                 /\ \A n \in Nodes : busy[n] = <<>>
        between(x) == {NodeAt(x, e) : e \in Ends}
    IN  quiet =>
          \A x \in {y \in Conns : conn[y] # None} :
            (\A e \in Ends : hs[x][e] = "established") =>
                \E y \in {z \in Conns : conn[z] # None} :
                    /\ between(y) = between(x)
                    /\ \A e \in Ends : open[y][e] = "open"

\* Every installed link is verified, filed under the peer that is there, and
\* the one its dial asked for; and calls for one peer share their dial (installLink
\* and ensureLink).
LinksSound == TypeOK /\ LinkVerified /\ DialReachesPeer /\ DialsDeduplicated
=============================================================================
