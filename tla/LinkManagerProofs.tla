-------------------------- MODULE LinkManagerProofs --------------------------
(***************************************************************************)
(* Proof that every link a manager installs is verified, whatever the      *)
(* nodes, the connections, the network and the order of the frames.        *)
(***************************************************************************)
EXTENDS LinkManager, TLAPS

\* The frames of a queue, whatever their order.
Queued(q) == {q[i] : i \in 1..Len(q)}

\* A frame on its way to end e of x says the truth: only the other end sends
\* on this connection, and its AUTH follows the HELLO it received.
TrueFrame(x, e, m) ==
    /\ m.type = "HELLO" => m.id = NodeAt(x, Other(e))
    /\ m.type = "AUTH" => hs[x][Other(e)] # "awaiting-peer-hello"

FramesTrue == \A x \in Conns, e \in Ends : \A m \in Queued(queue[x][e]) : TrueFrame(x, e, m)

\* A connection that was not dialed has no state.
Fresh(x) ==
    \A e \in Ends :
        /\ open[x][e] = "none" /\ hs[x][e] = "awaiting-peer-hello"
        /\ hello[x][e] = None /\ handler[x][e] = "handshake"
        /\ ~settled[x][e] /\ queue[x][e] = <<>>

FreshConns == \A x \in Conns : conn[x] = None => Fresh(x)

\* The HELLO an end keeps is from the node at the other end, and the dialer
\* keeps only that of the peer it expects.
HelloTrue ==
    \A x \in Conns, e \in Ends :
        hello[x][e] # None =>
            /\ hello[x][e] = NodeAt(x, Other(e))
            /\ e = "d" => hello[x][e] = conn[x].expect

\* What an AUTH that verifies shows.
Verified(x, e) ==
    /\ conn[x] # None
    /\ hs[x][Other(e)] # "awaiting-peer-hello"
    /\ hello[x][e] # None
    /\ settled[x][e]

\* The manager installs only verified links: those whose continuation is
\* pending, and so those with its handlers.
InstallsVerified ==
    /\ \A n \in Nodes, x \in Conns, e \in Ends :
          busy[n] = <<x, e>> => Verified(x, e) /\ NodeAt(x, e) = n
    /\ \A x \in Conns, e \in Ends : handler[x][e] = "link" => Verified(x, e)

\* A handshake in progress on an open transport has not settled its promise.
OpenUnsettled ==
    \A x \in Conns, e \in Ends :
        (open[x][e] = "open" /\ hs[x][e] \in {"awaiting-peer-hello", "awaiting-peer-auth"})
            => ~settled[x][e]

\* A dial in flight: its promise is pending, or the continuation is.
InFlight(x) ==
    /\ conn[x] # None
    /\ \/ ~settled[x]["d"]
       \/ busy[conn[x].dialer] = <<x, "d">>

\* ensureLink remembers every dial in flight.
DialRemembered ==
    \A x \in Conns : InFlight(x) => dialing[conn[x].dialer][conn[x].expect] = x

\* The inductive invariant.
IInv ==
    /\ TypeOK /\ FreshConns /\ FramesTrue /\ HelloTrue
    /\ InstallsVerified /\ OpenUnsettled /\ DialRemembered

-----------------------------------------------------------------------------
(* Queues                                                                  *)

\* What a sequence holds after its first element is taken.
LEMMA QueuedTail ==
    ASSUME NEW S, NEW q \in Seq(S), q # <<>>
    PROVE  /\ Head(q) \in S /\ Head(q) \in Queued(q)
           /\ Tail(q) \in Seq(S)
           /\ \A m \in Queued(Tail(q)) : m \in Queued(q)
  BY DEF Queued

\* What a sequence holds after one element is put behind it.
LEMMA QueuedAppend ==
    ASSUME NEW S, NEW q \in Seq(S), NEW s \in S
    PROVE  /\ Append(q, s) \in Seq(S) /\ q \o <<s>> = Append(q, s)
           /\ \A m \in Queued(Append(q, s)) : m \in Queued(q) \/ m = s
  BY DEF Queued

\* The queues q hold, besides frames they held, only the frame s, and that
\* only on its way from end e of x.
Carries(q, x, e, s) ==
    /\ q \in [Conns -> [Ends -> Seq(Frames)]]
    /\ \A y \in Conns, f \in Ends : \A m \in Queued(q[y][f]) :
          m \in Queued(queue[y][f]) \/ (y = x /\ f = Other(e) /\ m = s)
    /\ \A y \in Conns : y # x => q[y] = queue[y]

\* The frames of this model are frames.
LEMMA FramesAre ==
    /\ CellFrame \in Frames /\ CloseFrame \in Frames /\ BadFrame \in Frames
    /\ \A n, p \in Nodes : Hello(n) \in Frames /\ Auth(n, p) \in Frames
    /\ \A m \in Frames : m.type = "HELLO" => m.id \in Nodes
<1>1. CellFrame \in Frames /\ CloseFrame \in Frames /\ BadFrame \in Frames
  BY DEF Frames
<1>2. \A n, p \in Nodes : Hello(n) \in Frames /\ Auth(n, p) \in Frames
  BY DEF Frames
<1>3. ASSUME NEW m \in Frames, m.type = "HELLO"
      PROVE  m.id \in Nodes
  BY <1>3 DEF Frames, CellFrame, CloseFrame, BadFrame, Hello, Auth
<1> QED BY <1>1, <1>2, <1>3

\* The two ends of a connection.
LEMMA TwoEnds ==
    ASSUME NEW e \in Ends
    PROVE  Other(e) \in Ends /\ Other(e) # e /\ \A f \in Ends : f = e \/ f = Other(e)
  BY DEF Other, Ends

\* New queues u and v at the two ends of one connection.
Update(x, e, u, v) == [queue EXCEPT ![x][e] = u, ![x][Other(e)] = v]

\* An update carries what is in its new queues.
LEMMA UpdateCarries ==
    ASSUME TypeOK, NEW x \in Conns, NEW e \in Ends, NEW s,
           NEW u \in Seq(Frames), \A m \in Queued(u) : m \in Queued(queue[x][e]),
           NEW v \in Seq(Frames), \A m \in Queued(v) : m \in Queued(queue[x][Other(e)]) \/ m = s
    PROVE  Carries(Update(x, e, u, v), x, e, s)
<1> DEFINE q == Update(x, e, u, v)
<1>1. /\ q \in [Conns -> [Ends -> Seq(Frames)]]
      /\ q[x][e] = u /\ q[x][Other(e)] = v
      /\ \A y \in Conns : y # x => q[y] = queue[y]
  BY TwoEnds DEF TypeOK, Update
<1> HIDE DEF q
<1> QED BY <1>1, TwoEnds DEF Carries, q

\* What the other end gets: nothing more, or s.
LEMMA Sent ==
    ASSUME TypeOK, NEW x \in Conns, NEW e \in Ends, NEW s \in Frames
    PROVE  LET w == queue[x][Other(e)]
               v == IF open[x][e] = "open" THEN w \o <<s>> ELSE w
           IN  /\ v \in Seq(Frames) /\ Append(w, s) \in Seq(Frames)
               /\ \A m \in Queued(v) : m \in Queued(w) \/ m = s
               /\ \A m \in Queued(Append(w, s)) : m \in Queued(w) \/ m = s
<1> DEFINE w == queue[x][Other(e)]
<1>1. w \in Seq(Frames)
  BY TwoEnds DEF TypeOK
<1> HIDE DEF w
<1>2. /\ Append(w, s) \in Seq(Frames) /\ w \o <<s>> = Append(w, s)
      /\ \A m \in Queued(Append(w, s)) : m \in Queued(w) \/ m = s
  BY <1>1, QueuedAppend
<1> QED BY <1>1, <1>2 DEF w

\* An end takes a frame, or none, and sends s, or none.
LEMMA TakeCarries ==
    ASSUME TypeOK, NEW x \in Conns, NEW e \in Ends, queue[x][e] # <<>>, NEW s \in Frames
    PROVE  Carries(Take(x, e, <<s>>), x, e, s)
<1> DEFINE u == Tail(queue[x][e])
           v == IF open[x][e] = "open" THEN queue[x][Other(e)] \o <<s>> ELSE queue[x][Other(e)]
<1>1. u \in Seq(Frames) /\ \A m \in Queued(u) : m \in Queued(queue[x][e])
  BY QueuedTail DEF TypeOK
<1>2. v \in Seq(Frames) /\ \A m \in Queued(v) : m \in Queued(queue[x][Other(e)]) \/ m = s
  BY Sent
<1>3. Take(x, e, <<s>>) = Update(x, e, u, v)
  BY TwoEnds DEF Take, TypeOK, Update
<1> HIDE DEF u, v
<1> QED BY <1>1, <1>2, <1>3, UpdateCarries

LEMMA TakeNothingCarries ==
    ASSUME TypeOK, NEW x \in Conns, NEW e \in Ends, queue[x][e] # <<>>, NEW s
    PROVE  Carries(Take(x, e, <<>>), x, e, s)
<1> DEFINE u == Tail(queue[x][e])
           v == queue[x][Other(e)]
<1>1. u \in Seq(Frames) /\ \A m \in Queued(u) : m \in Queued(queue[x][e])
  BY QueuedTail DEF TypeOK
<1>2. v \in Seq(Frames) /\ v \o <<>> = v
  BY TwoEnds DEF TypeOK
<1>3. Take(x, e, <<>>) = Update(x, e, u, v)
  BY <1>2, TwoEnds DEF Take, TypeOK, Update
<1> HIDE DEF u, v
<1> QED BY <1>1, <1>2, <1>3, UpdateCarries DEF v

LEMMA SendCarries ==
    ASSUME TypeOK, NEW x \in Conns, NEW e \in Ends, NEW s \in Frames
    PROVE  /\ Carries(Send(x, e, <<s>>), x, e, s)
           /\ Carries([queue EXCEPT ![x][Other(e)] = Append(@, s)], x, e, s)
           /\ Carries([queue EXCEPT ![x][e] = <<>>, ![x][Other(e)] = Append(@, s)], x, e, s)
<1> DEFINE u == queue[x][e]
           v == IF open[x][e] = "open" THEN queue[x][Other(e)] \o <<s>> ELSE queue[x][Other(e)]
           w == Append(queue[x][Other(e)], s)
<1>1. u \in Seq(Frames) /\ \A m \in Queued(u) : m \in Queued(queue[x][e])
  BY DEF TypeOK
<1>2. v \in Seq(Frames) /\ \A m \in Queued(v) : m \in Queued(queue[x][Other(e)]) \/ m = s
  BY Sent
<1>3. w \in Seq(Frames) /\ \A m \in Queued(w) : m \in Queued(queue[x][Other(e)]) \/ m = s
  BY Sent
<1>4. <<>> \in Seq(Frames) /\ \A m \in Queued(<<>>) : m \in Queued(queue[x][e])
  BY DEF Queued
<1>5. /\ Send(x, e, <<s>>) = Update(x, e, u, v)
      /\ [queue EXCEPT ![x][Other(e)] = Append(@, s)]
            = Update(x, e, u, w)
      /\ [queue EXCEPT ![x][e] = <<>>, ![x][Other(e)] = Append(@, s)]
            = Update(x, e, <<>>, w)
  BY TwoEnds DEF Send, TypeOK, Update
<1> HIDE DEF u, v, w
<1>6. Carries(Update(x, e, u, v), x, e, s)
  BY <1>1, <1>2, UpdateCarries
<1>7. Carries(Update(x, e, u, w), x, e, s)
  BY <1>1, <1>3, UpdateCarries
<1>8. Carries(Update(x, e, <<>>, w), x, e, s)
  BY <1>3, <1>4, UpdateCarries
<1> QED BY <1>5, <1>6, <1>7, <1>8

-----------------------------------------------------------------------------
(* Steps                                                                   *)

\* No end goes back to waiting for a HELLO.
HsMoves ==
    \A y \in Conns, f \in Ends :
        hs[y][f] # "awaiting-peer-hello" => hs'[y][f] # "awaiting-peer-hello"

\* A step of a dialed connection x that sends a true frame keeps the frames
\* true and the other connections' queues.
LEMMA FramesKept ==
    ASSUME IInv, NEW x \in Conns, NEW e \in Ends, NEW s, conn' = conn, HsMoves,
           conn[x] # None, Carries(queue', x, e, s),
           s.type = "HELLO" => s.id = NodeAt(x, e),
           s.type = "AUTH" => hs'[x][e] # "awaiting-peer-hello"
    PROVE  /\ FramesTrue'
           /\ queue' \in [Conns -> [Ends -> Seq(Frames)]]
           /\ \A y \in Conns : conn[y] = None => queue'[y] = queue[y]
<1>1. Other(Other(e)) = e
  BY DEF Other, Ends
<1>2. ASSUME NEW y \in Conns, NEW f \in Ends, NEW m \in Queued(queue'[y][f])
      PROVE  TrueFrame(y, f, m)'
  <2>1. CASE m \in Queued(queue[y][f])
    BY <2>1, TwoEnds DEF IInv, FramesTrue, TrueFrame, HsMoves, NodeAt
  <2>2. CASE y = x /\ f = Other(e) /\ m = s
    BY <1>1, <2>2 DEF TrueFrame, NodeAt
  <2> QED BY <1>2, <2>1, <2>2 DEF Carries
<1> QED BY <1>2 DEF FramesTrue, Carries

\* The transports o are those of this state, but for ends of x that closed.
Closes(o, x) ==
    /\ o \in [Conns -> [Ends -> {"none", "open", "closed"}]]
    /\ \A y \in Conns : y # x => o[y] = open[y]
    /\ \A f \in Ends : o[x][f] = "open" => open[x][f] = "open"

\* An end closes, or none does.
LEMMA EndCloses ==
    ASSUME TypeOK, NEW x \in Conns, NEW e \in Ends
    PROVE  Closes(open, x) /\ Closes([open EXCEPT ![x][e] = "closed"], x)
<1>1. Closes(open, x)
  BY DEF TypeOK, Closes
<1> DEFINE o == [open EXCEPT ![x][e] = "closed"]
<1>2. o \in [Conns -> [Ends -> {"none", "open", "closed"}]]
  BY DEF TypeOK
<1>3. \A y \in Conns : y # x => o[y] = open[y]
  BY DEF TypeOK
<1>4. \A f \in Ends : o[x][f] = "open" => open[x][f] = "open"
  BY DEF TypeOK
<1> QED BY <1>1, <1>2, <1>3, <1>4 DEF Closes

\* A step of one dialed connection leaves those that were not dialed alone.
LEMMA FreshKept ==
    ASSUME FreshConns, NEW x \in Conns, conn[x] # None, conn' = conn,
           \A y \in Conns : y # x =>
               /\ open'[y] = open[y] /\ hs'[y] = hs[y] /\ hello'[y] = hello[y]
               /\ handler'[y] = handler[y] /\ settled'[y] = settled[y]
               /\ queue'[y] = queue[y]
    PROVE  FreshConns'
<1>1. ASSUME NEW y \in Conns, conn'[y] = None
      PROVE  Fresh(y)'
  <2>1. Fresh(y) /\ y # x
    BY <1>1 DEF FreshConns
  <2> QED BY <2>1 DEF Fresh
<1> QED BY <1>1 DEF FreshConns

\* The two nodes of a dialed connection.
LEMMA NodesOf ==
    ASSUME TypeOK, NEW x \in Conns, conn[x] # None
    PROVE  /\ conn[x] \in [dialer : Nodes, expect : Nodes, target : Nodes]
           /\ \A e \in Ends : NodeAt(x, e) \in Nodes
  BY DEF TypeOK, NodeAt

\* The frame that end e of x handles is a true one.
LEMMA FirstFrame ==
    ASSUME IInv, NEW x \in Conns, NEW e \in Ends, queue[x][e] # <<>>
    PROVE  Head(queue[x][e]) \in Frames /\ TrueFrame(x, e, Head(queue[x][e]))
<1>1. Head(queue[x][e]) \in Frames /\ Head(queue[x][e]) \in Queued(queue[x][e])
  BY QueuedTail DEF IInv, TypeOK
<1> QED BY <1>1 DEF IInv, FramesTrue

\* Steps that only move frames, or close an end.
LEMMA TransportKeeps ==
    ASSUME IInv, NEW x \in Conns, NEW e \in Ends,
           \/ sendCell(x, e) \/ receiveCell(x, e) \/ badFrame(x, e)
           \/ ignoreFrame(x, e) \/ malformedFrame(x, e)
    PROVE  IInv'
<1>0. TypeOK /\ FreshConns /\ HelloTrue /\ InstallsVerified /\ OpenUnsettled /\ DialRemembered
  BY DEF IInv
<1>1. \E s \in {CellFrame, CloseFrame, BadFrame}, f \in Ends :
          conn[x] # None /\ Carries(queue', x, f, s)
  <2>1. CASE sendCell(x, e)
    BY <1>0, <2>1, FramesAre, SendCarries DEF sendCell, Idle
  <2>2. CASE receiveCell(x, e) \/ ignoreFrame(x, e)
    BY <1>0, <2>2, TakeNothingCarries DEF receiveCell, ignoreFrame, Frame
  <2>3. CASE badFrame(x, e)
    BY <1>0, <2>3, FramesAre, TakeCarries DEF badFrame, Frame
  <2>4. CASE malformedFrame(x, e)
    <3>1. Other(e) \in Ends /\ Other(Other(e)) = e
      BY DEF Other, Ends
    <3>2. Carries([queue EXCEPT ![x][Other(Other(e))] = Append(@, BadFrame)], x, Other(e), BadFrame)
      BY <1>0, <3>1, FramesAre, SendCarries
    <3> QED BY <2>4, <3>1, <3>2 DEF malformedFrame
  <2> QED BY <2>1, <2>2, <2>3, <2>4
<1>2. /\ UNCHANGED <<conn, hs, hello, handler, settled, links, dialing, busy>>
      /\ Closes(open', x)
  BY <1>0, EndCloses DEF sendCell, receiveCell, badFrame, ignoreFrame, malformedFrame
<1>3. /\ accepted' \subseteq Conns \X Ends /\ cells' \in [Conns -> [Ends -> 0..MaxCells]]
      /\ bads' \in 0..MaxBad /\ fails' \in 0..MaxFails
  <2>1. CASE sendCell(x, e)
    BY <1>0, <2>1, BoundsAssumption DEF TypeOK, sendCell
  <2>2. CASE receiveCell(x, e)
    BY <1>0, <2>2 DEF TypeOK, receiveCell
  <2>3. CASE ignoreFrame(x, e) \/ badFrame(x, e)
    BY <1>0, <2>3 DEF TypeOK, ignoreFrame, badFrame
  <2>4. CASE malformedFrame(x, e)
    BY <1>0, <2>4, BoundsAssumption, SMTT(30) DEF TypeOK, malformedFrame
  <2> QED BY <2>1, <2>2, <2>3, <2>4
<1>4. /\ FramesTrue' /\ queue' \in [Conns -> [Ends -> Seq(Frames)]]
      /\ \A y \in Conns : conn[y] = None => queue'[y] = queue[y]
  BY <1>1, <1>2, FramesKept DEF HsMoves, CellFrame, CloseFrame, BadFrame
<1>6. TypeOK'
  BY <1>0, <1>2, <1>3, <1>4 DEF TypeOK, Closes
<1>7. FreshConns'
  BY <1>0, <1>1, <1>2, FreshKept DEF Closes, Carries
<1>8. HelloTrue' /\ InstallsVerified' /\ DialRemembered'
  BY <1>0, <1>2 DEF HelloTrue, NodeAt, InstallsVerified, Verified, DialRemembered, InFlight
<1>9. OpenUnsettled'
  BY <1>0, <1>2 DEF OpenUnsettled, Closes
<1> QED BY <1>4, <1>6, <1>7, <1>8, <1>9 DEF IInv

\* The HELLO an end accepts is from the other end.
LEMMA OnHelloKeeps ==
    ASSUME IInv, NEW x \in Conns, NEW e \in Ends, onHello(x, e)
    PROVE  IInv'
<1>0. TypeOK /\ FreshConns /\ HelloTrue /\ InstallsVerified /\ OpenUnsettled /\ DialRemembered
  BY DEF IInv
<1> DEFINE m == Head(queue[x][e])
<1>1. /\ conn[x] # None /\ queue[x][e] # <<>> /\ m.type = "HELLO"
      /\ open[x][e] = "open" /\ hs[x][e] = "awaiting-peer-hello"
      /\ hello[x][e] = None /\ (e = "d" => m.id = conn[x].expect)
      /\ hello' = [hello EXCEPT ![x][e] = m.id]
      /\ hs' = [hs EXCEPT ![x][e] = "awaiting-peer-auth"]
      /\ queue' = Take(x, e, <<Auth(NodeAt(x, e), m.id)>>)
      /\ UNCHANGED <<conn, open, handler, settled, links, dialing, busy, accepted,
                     cells, bads, fails>>
  BY DEF onHello, Frame, helloAcceptable
<1>2. m.id \in Nodes /\ m.id = NodeAt(x, Other(e))
  BY <1>1, FirstFrame, FramesAre DEF TrueFrame
<1> HIDE DEF m
<1>3. Auth(NodeAt(x, e), m.id) \in Frames
  BY <1>0, <1>1, <1>2, NodesOf, FramesAre
<1>4. Carries(queue', x, e, Auth(NodeAt(x, e), m.id))
  BY <1>0, <1>1, <1>3, TakeCarries
<1>5. /\ hs' \in [Conns -> [Ends -> {"awaiting-peer-hello", "awaiting-peer-auth",
                                     "established", "failed"}]]
      /\ HsMoves /\ hs'[x][e] = "awaiting-peer-auth"
      /\ \A y \in Conns, f \in Ends : y # x \/ f # e => hs'[y][f] = hs[y][f]
      /\ \A y \in Conns : y # x => hs'[y] = hs[y]
  BY <1>0, <1>1 DEF TypeOK, HsMoves
<1>6. /\ hello' \in [Conns -> [Ends -> Nodes \cup {None}]]
      /\ hello'[x][e] = m.id
      /\ \A y \in Conns, f \in Ends : y # x \/ f # e => hello'[y][f] = hello[y][f]
      /\ \A y \in Conns : y # x => hello'[y] = hello[y]
  BY <1>0, <1>1, <1>2 DEF TypeOK
<1>7. FramesTrue' /\ queue' \in [Conns -> [Ends -> Seq(Frames)]]
  BY <1>1, <1>4, <1>5, FramesKept DEF Auth
<1>8. TypeOK'
  BY <1>0, <1>1, <1>5, <1>6, <1>7 DEF TypeOK
<1>9. FreshConns'
  <2>1. \A y \in Conns : y # x =>
            /\ open'[y] = open[y] /\ hs'[y] = hs[y] /\ hello'[y] = hello[y]
            /\ handler'[y] = handler[y] /\ settled'[y] = settled[y]
            /\ queue'[y] = queue[y]
    BY <1>1, <1>4, <1>5, <1>6 DEF Carries
  <2> QED BY <1>0, <1>1, <2>1, FreshKept
<1>10. HelloTrue'
  BY <1>0, <1>1, <1>2, <1>6 DEF HelloTrue, NodeAt
<1>11. InstallsVerified'
  BY <1>0, <1>1, <1>2, <1>5, <1>6, TwoEnds, BoundsAssumption
     DEF InstallsVerified, Verified, NodeAt, HsMoves
<1>12. OpenUnsettled'
  BY <1>0, <1>1, <1>5 DEF OpenUnsettled
<1>13. DialRemembered'
  BY <1>0, <1>1 DEF DialRemembered, InFlight
<1> QED BY <1>7, <1>8, <1>9, <1>10, <1>11, <1>12, <1>13 DEF IInv

\* An AUTH that verifies pends the continuation of a verified end.
LEMMA OnAuthKeeps ==
    ASSUME IInv, NEW x \in Conns, NEW e \in Ends, onAuth(x, e)
    PROVE  IInv'
<1>0. TypeOK /\ FreshConns /\ HelloTrue /\ InstallsVerified /\ OpenUnsettled /\ DialRemembered
  BY DEF IInv
<1> DEFINE n == NodeAt(x, e)
<1>1. /\ conn[x] # None /\ queue[x][e] # <<>> /\ Head(queue[x][e]).type = "AUTH"
      /\ open[x][e] = "open" /\ hs[x][e] = "awaiting-peer-auth"
      /\ busy[n] \in {<<>>, <<x, e>>} /\ hello[x][e] # None
      /\ hs' = [hs EXCEPT ![x][e] = "established"]
      /\ settled' = [settled EXCEPT ![x][e] = TRUE]
      /\ busy' = [busy EXCEPT ![n] = <<x, e>>]
      /\ queue' = Take(x, e, <<>>)
      /\ UNCHANGED <<conn, open, hello, handler, links, dialing, accepted, cells,
                     bads, fails>>
  BY DEF onAuth, Frame, authVerifies
<1>2. n \in Nodes /\ hs[x][Other(e)] # "awaiting-peer-hello" /\ ~settled[x][e]
  BY <1>0, <1>1, NodesOf, FirstFrame DEF TrueFrame, OpenUnsettled
<1>3. Carries(queue', x, e, CloseFrame)
  BY <1>0, <1>1, TakeNothingCarries
<1>4. /\ hs' \in [Conns -> [Ends -> {"awaiting-peer-hello", "awaiting-peer-auth",
                                     "established", "failed"}]]
      /\ HsMoves /\ hs'[x][e] = "established"
      /\ \A y \in Conns, f \in Ends : y # x \/ f # e => hs'[y][f] = hs[y][f]
      /\ \A y \in Conns : y # x => hs'[y] = hs[y]
  BY <1>0, <1>1 DEF TypeOK, HsMoves
<1>5. /\ settled' \in [Conns -> [Ends -> BOOLEAN]]
      /\ settled'[x][e]
      /\ \A y \in Conns, f \in Ends : y # x \/ f # e => settled'[y][f] = settled[y][f]
      /\ \A y \in Conns : y # x => settled'[y] = settled[y]
  BY <1>0, <1>1 DEF TypeOK
<1>6. /\ busy' \in [Nodes -> (Conns \X Ends) \cup {<<>>}]
      /\ busy'[n] = <<x, e>>
      /\ \A k \in Nodes : k # n => busy'[k] = busy[k]
  BY <1>0, <1>1, <1>2 DEF TypeOK
<1>7. FramesTrue' /\ queue' \in [Conns -> [Ends -> Seq(Frames)]]
  BY <1>1, <1>3, <1>4, FramesKept DEF CloseFrame
<1>8. TypeOK'
  BY <1>0, <1>1, <1>4, <1>5, <1>6, <1>7 DEF TypeOK
<1>9. FreshConns'
  <2>1. \A y \in Conns : y # x =>
            /\ open'[y] = open[y] /\ hs'[y] = hs[y] /\ hello'[y] = hello[y]
            /\ handler'[y] = handler[y] /\ settled'[y] = settled[y]
            /\ queue'[y] = queue[y]
    BY <1>1, <1>3, <1>4, <1>5 DEF Carries
  <2> QED BY <1>0, <1>1, <2>1, FreshKept
<1>10. HelloTrue'
  BY <1>0, <1>1 DEF HelloTrue, NodeAt
<1>11. InstallsVerified'
  <2>1. \A y \in Conns, f \in Ends : Verified(y, f) => Verified(y, f)'
    BY <1>1, <1>4, <1>5, TwoEnds DEF Verified, HsMoves
  <2>2. Verified(x, e)'
    BY <1>1, <1>2, <1>4, <1>5, TwoEnds DEF Verified, HsMoves
  <2>3. \A y \in Conns, f \in Ends : NodeAt(y, f)' = NodeAt(y, f)
    BY <1>1 DEF NodeAt
  <2> QED BY <1>0, <1>1, <1>6, <2>1, <2>2, <2>3 DEF InstallsVerified
<1>12. OpenUnsettled'
  BY <1>0, <1>1, <1>4, <1>5 DEF OpenUnsettled
<1>13. DialRemembered'
  <2>1. ASSUME NEW y \in Conns, InFlight(y)'
        PROVE  InFlight(y)
    <3>1. conn[y].dialer \in Nodes
      BY <1>0, <1>1, <2>1, NodesOf DEF InFlight
    <3>2. "d" \in Ends
      BY DEF Ends
    <3>3. CASE y = x /\ e = "d"
      BY <1>1, <1>2, <3>3 DEF InFlight
    <3>4. CASE y # x \/ e # "d"
      BY <1>1, <1>5, <1>6, <2>1, <3>1, <3>2, <3>4 DEF InFlight
    <3> QED BY <3>3, <3>4
  <2> QED BY <1>0, <1>1, <2>1 DEF DialRemembered
<1> QED BY <1>7, <1>8, <1>9, <1>10, <1>11, <1>12, <1>13 DEF IInv

\* The promise of an end settles, unless it did before, and its dial is
\* forgotten.
settle(x, e) ==
    IF settled[x][e] THEN UNCHANGED <<settled, dialing>>
    ELSE settled' = [settled EXCEPT ![x][e] = TRUE] /\ forgetDial(x, e)

\* What the ways to end a connection at one end have in common.
Ending(x, e) ==
    /\ conn[x] # None
    /\ open' = [open EXCEPT ![x][e] = "closed"]
    /\ hs' \in {hs, [hs EXCEPT ![x][e] = "failed"]}
    /\ settle(x, e)
    /\ Carries(queue', x, e, CloseFrame)
    /\ links' \in [Nodes -> [Nodes -> Conns \cup {None}]]
    /\ fails' \in 0..MaxFails
    /\ UNCHANGED <<conn, hello, handler, busy, accepted, cells, bads>>

\* A dial that is forgotten is its own: no other has the same peer while it is
\* in flight.
LEMMA SettleKeeps ==
    ASSUME IInv, NEW x \in Conns, NEW e \in Ends, conn[x] # None,
           UNCHANGED <<conn, busy>>, settle(x, e)
    PROVE  /\ settled' \in [Conns -> [Ends -> BOOLEAN]]
           /\ dialing' \in [Nodes -> [Nodes -> Conns \cup {None}]]
           /\ settled'[x][e]
           /\ \A y \in Conns, f \in Ends : y # x \/ f # e => settled'[y][f] = settled[y][f]
           /\ \A y \in Conns : y # x => settled'[y] = settled[y]
           /\ DialRemembered'
<1>0. TypeOK /\ InstallsVerified /\ DialRemembered
  BY DEF IInv
<1>1. CASE settled[x][e]
  BY <1>0, <1>1 DEF settle, TypeOK, DialRemembered, InFlight
<1>2. CASE ~settled[x][e]
  <2>1. /\ settled' \in [Conns -> [Ends -> BOOLEAN]]
        /\ settled'[x][e]
        /\ \A y \in Conns, f \in Ends : y # x \/ f # e => settled'[y][f] = settled[y][f]
        /\ \A y \in Conns : y # x => settled'[y] = settled[y]
    <3>1. settled' = [settled EXCEPT ![x][e] = TRUE]
      BY <1>2 DEF settle
    <3>2. settled \in [Conns -> [Ends -> BOOLEAN]]
      BY <1>0 DEF TypeOK
    <3> QED BY <3>1, <3>2
  <2>2. dialing' \in [Nodes -> [Nodes -> Conns \cup {None}]]
    <3>1. dialing \in [Nodes -> [Nodes -> Conns \cup {None}]]
      BY <1>0 DEF TypeOK
    <3>2. conn[x].dialer \in Nodes /\ conn[x].expect \in Nodes
      BY <1>0, NodesOf
    <3>3. \/ dialing' = dialing
          \/ dialing' = [dialing EXCEPT ![conn[x].dialer][conn[x].expect] = None]
      BY <1>2 DEF settle, forgetDial
    <3> QED BY <3>1, <3>2, <3>3
  <2>3. ASSUME NEW y \in Conns, InFlight(y)'
        PROVE  dialing'[conn[y].dialer][conn[y].expect] = y
    <3>1. conn[y] # None
      BY <2>3 DEF InFlight
    <3>2. /\ conn[y].dialer \in Nodes /\ conn[y].expect \in Nodes
          /\ conn[x].dialer \in Nodes /\ conn[x].expect \in Nodes
      BY <1>0, <3>1, NodesOf
    <3>3. InFlight(y) /\ "d" \in Ends
      BY <1>2, <2>1, <2>3 DEF InFlight, Ends
    <3>4. dialing[conn[y].dialer][conn[y].expect] = y
      BY <1>0, <3>3 DEF DialRemembered
    <3>5. CASE e # "d"
      BY <1>2, <3>4, <3>5 DEF settle, forgetDial
    <3>6. CASE e = "d"
      <4>1. dialing[conn[x].dialer][conn[x].expect] = x
        BY <1>0, <1>2, <3>6 DEF DialRemembered, InFlight
      <4>2. y # x
        <5>1. busy[conn[x].dialer] # <<x, "d">>
          BY <1>0, <1>2, <3>2, <3>3, <3>6 DEF InstallsVerified, Verified
        <5> QED BY <2>1, <2>3, <3>6, <5>1 DEF InFlight
      <4>3. conn[y].dialer # conn[x].dialer \/ conn[y].expect # conn[x].expect
        BY <3>4, <4>1, <4>2
      <4>4. dialing' = [dialing EXCEPT ![conn[x].dialer][conn[x].expect] = None]
        BY <1>2, <3>6 DEF settle, forgetDial
      <4> QED BY <1>0, <3>2, <3>4, <4>3, <4>4 DEF TypeOK
    <3> QED BY <3>5, <3>6
  <2> QED BY <2>1, <2>2, <2>3 DEF DialRemembered, InFlight
<1> QED BY <1>1, <1>2

\* However a connection ends at one end, the invariant holds.
LEMMA EndingKeeps ==
    ASSUME IInv, NEW x \in Conns, NEW e \in Ends, Ending(x, e)
    PROVE  IInv'
<1>0. TypeOK /\ FreshConns /\ HelloTrue /\ InstallsVerified /\ OpenUnsettled
  BY DEF IInv
<1>1. /\ conn[x] # None /\ Carries(queue', x, e, CloseFrame)
      /\ UNCHANGED <<conn, hello, handler, busy, accepted, cells, bads>>
  BY DEF Ending
<1>2. /\ settled' \in [Conns -> [Ends -> BOOLEAN]]
      /\ dialing' \in [Nodes -> [Nodes -> Conns \cup {None}]]
      /\ settled'[x][e]
      /\ \A y \in Conns, f \in Ends : y # x \/ f # e => settled'[y][f] = settled[y][f]
      /\ \A y \in Conns : y # x => settled'[y] = settled[y]
      /\ DialRemembered'
  <2>1. settle(x, e)
    BY DEF Ending
  <2> QED BY <1>1, <2>1, SettleKeeps
<1>3. /\ hs' \in [Conns -> [Ends -> {"awaiting-peer-hello", "awaiting-peer-auth",
                                     "established", "failed"}]]
      /\ HsMoves
      /\ \A y \in Conns, f \in Ends : y # x \/ f # e => hs'[y][f] = hs[y][f]
      /\ \A y \in Conns : y # x => hs'[y] = hs[y]
  <2>1. CASE hs' = hs
    BY <1>0, <2>1 DEF TypeOK, HsMoves
  <2>2. CASE hs' = [hs EXCEPT ![x][e] = "failed"]
    BY <1>0, <2>2 DEF TypeOK, HsMoves
  <2> QED BY <2>1, <2>2 DEF Ending
<1>4. Closes(open', x) /\ open'[x][e] = "closed"
      /\ \A y \in Conns, f \in Ends : y # x \/ f # e => open'[y][f] = open[y][f]
  BY <1>0, EndCloses DEF Ending, TypeOK
<1>5. FramesTrue' /\ queue' \in [Conns -> [Ends -> Seq(Frames)]]
  BY <1>1, <1>3, FramesKept DEF CloseFrame
<1>6. TypeOK'
  BY <1>0, <1>1, <1>2, <1>3, <1>4, <1>5 DEF TypeOK, Closes, Ending
<1>7. FreshConns'
  <2>1. \A y \in Conns : y # x =>
            /\ open'[y] = open[y] /\ hs'[y] = hs[y] /\ hello'[y] = hello[y]
            /\ handler'[y] = handler[y] /\ settled'[y] = settled[y]
            /\ queue'[y] = queue[y]
    BY <1>1, <1>2, <1>3, <1>4 DEF Carries, Closes
  <2> QED BY <1>0, <1>1, <2>1, FreshKept
<1>8. HelloTrue'
  BY <1>0, <1>1 DEF HelloTrue, NodeAt
<1>9. InstallsVerified'
  <2>1. \A y \in Conns, f \in Ends : Verified(y, f) => Verified(y, f)'
    BY <1>1, <1>2, <1>3, TwoEnds DEF Verified, HsMoves
  <2>2. \A y \in Conns, f \in Ends : NodeAt(y, f)' = NodeAt(y, f)
    BY <1>1 DEF NodeAt
  <2> QED BY <1>0, <1>1, <2>1, <2>2 DEF InstallsVerified
<1>10. OpenUnsettled'
  BY <1>0, <1>2, <1>3, <1>4 DEF OpenUnsettled
<1> QED BY <1>2, <1>5, <1>6, <1>7, <1>8, <1>9, <1>10 DEF IInv

\* The handshake handler closes, the timer fires, the other end closes or the
\* network fails.
LEMMA EndsKeep ==
    ASSUME IInv, NEW x \in Conns, NEW e \in Ends,
           \/ handshakeFails(x, e) \/ handshakeTimeout(x, e)
           \/ onClose(x, e) \/ networkLoss(x, e)
    PROVE  IInv'
<1>0. TypeOK /\ InstallsVerified
  BY DEF IInv
<1>1. ASSUME closeEvent(x, e), conn[x] # None
      PROVE  links' \in [Nodes -> [Nodes -> Conns \cup {None}]]
  <2>1. CASE handler[x][e] = "link"
    <3>1. NodeAt(x, e) \in Nodes /\ hello[x][e] \in Nodes
      BY <1>0, <1>1, <2>1, NodesOf DEF InstallsVerified, Verified, TypeOK
    <3>2. links \in [Nodes -> [Nodes -> Conns \cup {None}]]
      BY <1>0 DEF TypeOK
    <3>3. links' = [links EXCEPT ![NodeAt(x, e)][hello[x][e]] = None]
      BY <1>1, <2>1 DEF closeEvent
    <3> QED BY <3>1, <3>2, <3>3
  <2>2. CASE handler[x][e] # "link"
    BY <1>0, <1>1, <2>2 DEF closeEvent, TypeOK
  <2> QED BY <2>1, <2>2
<1>2. CASE handshakeFails(x, e)
  <2>1. Carries(queue', x, e, CloseFrame)
    BY <1>0, <1>2, FramesAre, TakeCarries DEF handshakeFails, Frame
  <2> QED BY <1>0, <1>2, <2>1, EndingKeeps DEF handshakeFails, Frame, Ending, settle, TypeOK
<1>3. CASE handshakeTimeout(x, e)
  <2>1. Carries(queue', x, e, CloseFrame)
    BY <1>0, <1>3, FramesAre, SendCarries DEF handshakeTimeout
  <2> QED BY <1>0, <1>3, <2>1, EndingKeeps DEF handshakeTimeout, Idle, Ending, settle, TypeOK
<1>4. CASE onClose(x, e)
  <2>1. Carries(queue', x, e, CloseFrame)
    BY <1>0, <1>4, TakeNothingCarries DEF onClose, Frame
  <2> QED BY <1>0, <1>1, <1>4, <2>1, EndingKeeps
          DEF onClose, closeEvent, Frame, Ending, settle, TypeOK
<1>5. CASE networkLoss(x, e)
  <2>1. Carries(queue', x, e, CloseFrame)
    BY <1>0, <1>5, FramesAre, SendCarries DEF networkLoss
  <2>2. fails' \in 0..MaxFails
    BY <1>0, <1>5, BoundsAssumption DEF networkLoss, TypeOK
  <2> QED BY <1>1, <1>5, <2>1, <2>2, EndingKeeps
          DEF networkLoss, closeEvent, Idle, Ending, settle
<1> QED BY <1>2, <1>3, <1>4, <1>5

\* The continuation installs a verified link, or closes its transport.
LEMMA InstallLinkKeeps ==
    ASSUME IInv, NEW x \in Conns, NEW e \in Ends, installLink(x, e)
    PROVE  IInv'
<1>0. TypeOK /\ FreshConns /\ HelloTrue /\ InstallsVerified /\ OpenUnsettled /\ DialRemembered
  BY DEF IInv
<1> DEFINE n == NodeAt(x, e)
           p == hello[x][e]
<1>1. /\ conn[x] # None /\ busy[n] = <<x, e>> /\ busy' = [busy EXCEPT ![n] = <<>>]
      /\ forgetDial(x, e)
      /\ UNCHANGED <<conn, hs, hello, settled, accepted, cells, bads, fails>>
      /\ \/ /\ open' = [open EXCEPT ![x][e] = "closed"]
            /\ queue' = Send(x, e, <<CloseFrame>>)
            /\ UNCHANGED <<handler, links>>
         \/ /\ handler' = [handler EXCEPT ![x][e] = "link"]
            /\ links' = [links EXCEPT ![n][p] = x]
            /\ UNCHANGED <<open, queue>>
  BY DEF installLink
<1>2. n \in Nodes /\ Verified(x, e) /\ p \in Nodes
  <2>1. n \in Nodes
    BY <1>0, <1>1, NodesOf
  <2>2. Verified(x, e)
    BY <1>0, <1>1, <2>1 DEF InstallsVerified
  <2>3. p \in Nodes \cup {None}
    BY <1>0 DEF TypeOK
  <2> QED BY <2>1, <2>2, <2>3 DEF Verified
<1> HIDE DEF n, p
<1>3. Carries(queue', x, e, CloseFrame)
  <2>1. Carries(queue, x, e, CloseFrame)
    BY <1>0 DEF Carries, TypeOK
  <2> QED BY <1>0, <1>1, <2>1, SendCarries, FramesAre
<1>4. Closes(open', x)
  BY <1>0, <1>1, EndCloses
<1>5. /\ handler' \in [Conns -> [Ends -> {"handshake", "link"}]]
      /\ \A y \in Conns, f \in Ends : y # x \/ f # e => handler'[y][f] = handler[y][f]
      /\ \A y \in Conns : y # x => handler'[y] = handler[y]
  <2>1. handler \in [Conns -> [Ends -> {"handshake", "link"}]]
    BY <1>0 DEF TypeOK
  <2>2. handler' \in {handler, [handler EXCEPT ![x][e] = "link"]}
    BY <1>1
  <2>3. CASE handler' = handler
    BY <2>1, <2>3
  <2>4. CASE handler' = [handler EXCEPT ![x][e] = "link"]
    BY <2>1, <2>4
  <2> QED BY <2>2, <2>3, <2>4
<1>6. links' \in [Nodes -> [Nodes -> Conns \cup {None}]]
  <2>1. links \in [Nodes -> [Nodes -> Conns \cup {None}]]
    BY <1>0 DEF TypeOK
  <2> QED BY <1>1, <1>2, <2>1
<1>7. dialing' \in [Nodes -> [Nodes -> Conns \cup {None}]]
  <2>1. dialing \in [Nodes -> [Nodes -> Conns \cup {None}]]
    BY <1>0 DEF TypeOK
  <2>2. conn[x].dialer \in Nodes /\ conn[x].expect \in Nodes
    BY <1>0, <1>1, NodesOf
  <2>3. dialing' \in {dialing, [dialing EXCEPT ![conn[x].dialer][conn[x].expect] = None]}
    BY <1>1 DEF forgetDial
  <2> QED BY <2>1, <2>2, <2>3
<1>8. /\ busy' \in [Nodes -> (Conns \X Ends) \cup {<<>>}]
      /\ busy'[n] = <<>>
      /\ \A k \in Nodes : k # n => busy'[k] = busy[k]
  BY <1>0, <1>1, <1>2 DEF TypeOK
<1>9. FramesTrue' /\ queue' \in [Conns -> [Ends -> Seq(Frames)]]
  BY <1>1, <1>3, FramesKept DEF CloseFrame, HsMoves
<1>10. TypeOK'
  BY <1>0, <1>1, <1>4, <1>5, <1>6, <1>7, <1>8, <1>9 DEF TypeOK, Closes
<1>11. FreshConns'
  <2>1. \A y \in Conns : y # x =>
            /\ open'[y] = open[y] /\ hs'[y] = hs[y] /\ hello'[y] = hello[y]
            /\ handler'[y] = handler[y] /\ settled'[y] = settled[y]
            /\ queue'[y] = queue[y]
    BY <1>1, <1>3, <1>4, <1>5 DEF Carries, Closes
  <2> QED BY <1>0, <1>1, <2>1, FreshKept
<1>12. HelloTrue'
  BY <1>0, <1>1 DEF HelloTrue, NodeAt
<1>13. InstallsVerified'
  <2>1. \A y \in Conns, f \in Ends : Verified(y, f) => Verified(y, f)'
    BY <1>1 DEF Verified
  <2>2. \A y \in Conns, f \in Ends : NodeAt(y, f)' = NodeAt(y, f)
    BY <1>1 DEF NodeAt
  <2>3. ASSUME NEW k \in Nodes, NEW y \in Conns, NEW f \in Ends, busy'[k] = <<y, f>>
        PROVE  Verified(y, f)' /\ NodeAt(y, f)' = k
    <3>1. busy[k] = <<y, f>>
      BY <1>8, <2>3
    <3> QED BY <1>0, <2>1, <2>2, <3>1 DEF InstallsVerified
  <2>4. ASSUME NEW y \in Conns, NEW f \in Ends, handler'[y][f] = "link"
        PROVE  Verified(y, f)'
    <3>1. CASE y = x /\ f = e
      BY <1>2, <2>1, <3>1
    <3>2. CASE y # x \/ f # e
      BY <1>0, <1>5, <2>1, <2>4, <3>2 DEF InstallsVerified
    <3> QED BY <3>1, <3>2
  <2> QED BY <2>3, <2>4 DEF InstallsVerified
<1>14. OpenUnsettled'
  BY <1>0, <1>1, <1>4 DEF OpenUnsettled, Closes
<1>15. DialRemembered'
  <2>1. ASSUME NEW y \in Conns, InFlight(y)'
        PROVE  dialing'[conn[y].dialer][conn[y].expect] = y
    <3>1. conn[y] # None /\ "d" \in Ends
      BY <1>1, <2>1 DEF InFlight, Ends
    <3>2. /\ conn[y].dialer \in Nodes /\ conn[y].expect \in Nodes
          /\ conn[x].dialer \in Nodes /\ conn[x].expect \in Nodes
      BY <1>0, <1>1, <3>1, NodesOf
    <3>3. InFlight(y)
      BY <1>1, <1>8, <2>1, <3>2 DEF InFlight
    <3>4. dialing[conn[y].dialer][conn[y].expect] = y
      BY <1>0, <3>3 DEF DialRemembered
    <3>5. CASE e # "d"
      BY <1>1, <3>4, <3>5 DEF forgetDial
    <3>6. CASE e = "d"
      <4>1. n = conn[x].dialer
        BY <3>6 DEF n, NodeAt
      <4>2. InFlight(x)
        BY <1>1, <3>6, <4>1 DEF InFlight
      <4>3. dialing[conn[x].dialer][conn[x].expect] = x
        BY <1>0, <4>2 DEF DialRemembered
      <4>4. y # x
        BY <1>1, <1>2, <1>8, <2>1, <3>6, <4>1 DEF InFlight, Verified
      <4>5. conn[y].dialer # conn[x].dialer \/ conn[y].expect # conn[x].expect
        BY <3>4, <4>3, <4>4
      <4>6. dialing' = [dialing EXCEPT ![conn[x].dialer][conn[x].expect] = None]
        BY <1>1, <3>6 DEF forgetDial
      <4>7. dialing \in [Nodes -> [Nodes -> Conns \cup {None}]]
        BY <1>0 DEF TypeOK
      <4> QED BY <3>2, <3>4, <4>5, <4>6, <4>7
    <3> QED BY <3>5, <3>6
  <2>2. conn' = conn
    BY <1>1
  <2> QED BY <2>1, <2>2 DEF DialRemembered, InFlight
<1> QED BY <1>9, <1>10, <1>11, <1>12, <1>13, <1>14, <1>15 DEF IInv

\* Shutting down sends CLOSE frames and closes ends of dialed connections.
LEMMA CloseAllKeeps ==
    ASSUME IInv, NEW n \in Nodes, closeAll(n)
    PROVE  IInv'
<1>0. TypeOK /\ FreshConns /\ FramesTrue /\ HelloTrue /\ InstallsVerified
      /\ OpenUnsettled /\ DialRemembered
  BY DEF IInv
<1> DEFINE mine == {xe \in Conns \X Ends :
                        /\ conn[xe[1]] # None
                        /\ NodeAt(xe[1], xe[2]) = n
                        /\ \E p \in Nodes : links[n][p] = xe[1]}
<1>1. /\ open' = [x \in Conns |-> [e \in Ends |->
                     IF <<x, e>> \in mine THEN "closed" ELSE open[x][e]]]
      /\ queue' = [x \in Conns |-> [e \in Ends |->
                     IF <<x, Other(e)>> \in mine /\ open[x][Other(e)] = "open"
                     THEN Append(queue[x][e], CloseFrame) ELSE queue[x][e]]]
      /\ links' = [links EXCEPT ![n] = [p \in Nodes |-> None]]
      /\ UNCHANGED <<conn, hs, hello, handler, settled, dialing, busy, accepted,
                     cells, bads, fails>>
  BY DEF closeAll
<1>2. \A x \in Conns, e \in Ends : <<x, e>> \in mine => conn[x] # None
  OBVIOUS
<1> HIDE DEF mine
<1>3. \A x \in Conns, e \in Ends :
          /\ open'[x][e] \in {open[x][e], "closed"}
          /\ queue'[x][e] \in {queue[x][e], Append(queue[x][e], CloseFrame)}
          /\ conn[x] = None => open'[x][e] = open[x][e] /\ queue'[x][e] = queue[x][e]
  BY <1>1, <1>2, TwoEnds
<1>4. open' \in [Conns -> [Ends -> {"none", "open", "closed"}]]
  <2>1. \A x \in Conns, e \in Ends : open[x][e] \in {"none", "open", "closed"}
    BY <1>0 DEF TypeOK
  <2> QED BY <1>1, <2>1
<1>5. ASSUME NEW x \in Conns, NEW e \in Ends
      PROVE  /\ queue'[x][e] \in Seq(Frames)
             /\ \A m \in Queued(queue'[x][e]) : m \in Queued(queue[x][e]) \/ m = CloseFrame
  <2>1. queue[x][e] \in Seq(Frames)
    BY <1>0 DEF TypeOK
  <2> DEFINE w == queue[x][e]
  <2> HIDE DEF w
  <2>2. /\ Append(w, CloseFrame) \in Seq(Frames)
        /\ \A m \in Queued(Append(w, CloseFrame)) : m \in Queued(w) \/ m = CloseFrame
    BY <2>1, FramesAre, QueuedAppend DEF w
  <2>3. queue'[x][e] \in {w, Append(w, CloseFrame)}
    BY <1>3 DEF w
  <2> QED BY <2>1, <2>2, <2>3 DEF w
<1>6. queue' \in [Conns -> [Ends -> Seq(Frames)]]
  <2>1. queue' = [x \in Conns |-> [e \in Ends |-> queue'[x][e]]]
    BY <1>1
  <2> QED BY <1>5, <2>1
<1>7. links' \in [Nodes -> [Nodes -> Conns \cup {None}]]
  BY <1>0, <1>1 DEF TypeOK
<1>8. TypeOK'
  BY <1>0, <1>1, <1>4, <1>6, <1>7 DEF TypeOK
<1>9. FreshConns'
  <2>1. ASSUME NEW x \in Conns, conn'[x] = None
        PROVE  Fresh(x)'
    <3>1. Fresh(x) /\ conn[x] = None
      BY <1>0, <1>1, <2>1 DEF FreshConns
    <3> QED BY <1>1, <1>3, <3>1, ZenonT(30) DEF Fresh
  <2> QED BY <2>1 DEF FreshConns
<1>10. FramesTrue'
  BY <1>0, <1>1, <1>5 DEF FramesTrue, TrueFrame, CloseFrame, NodeAt
<1>11. HelloTrue' /\ InstallsVerified' /\ DialRemembered'
  BY <1>0, <1>1 DEF HelloTrue, InstallsVerified, Verified, DialRemembered, InFlight, NodeAt
<1>12. OpenUnsettled'
  BY <1>0, <1>1, <1>3 DEF OpenUnsettled
<1> QED BY <1>8, <1>9, <1>10, <1>11, <1>12 DEF IInv

\* A dial starts from a connection without state, and is remembered.
LEMMA EnsureLinkKeeps ==
    ASSUME IInv, NEW n \in Nodes, NEW p \in Nodes, NEW t \in Nodes, NEW x \in Conns,
           ensureLink(n, p, t, x)
    PROVE  IInv'
<1>0. TypeOK /\ FreshConns /\ FramesTrue /\ HelloTrue /\ InstallsVerified
      /\ OpenUnsettled /\ DialRemembered
  BY DEF IInv
<1> DEFINE c == [dialer |-> n, expect |-> p, target |-> t]
<1>1. /\ busy[n] = <<>> /\ dialing[n][p] = None /\ conn[x] = None
      /\ conn' = [conn EXCEPT ![x] = c]
      /\ open' = [open EXCEPT ![x] = [e \in Ends |-> "open"]]
      /\ queue' = [queue EXCEPT ![x] = [e \in Ends |-> IF e = "d" THEN <<Hello(t)>>
                                                                 ELSE <<Hello(n)>>]]
      /\ dialing' = [dialing EXCEPT ![n][p] = x]
      /\ UNCHANGED <<hs, hello, handler, settled, links, busy, accepted, cells, bads, fails>>
  BY DEF ensureLink
<1>2. c \in [dialer : Nodes, expect : Nodes, target : Nodes] /\ c # None
  BY BoundsAssumption
<1>3. Fresh(x)
  BY <1>0, <1>1 DEF FreshConns
<1>4. /\ conn' \in [Conns -> [dialer : Nodes, expect : Nodes, target : Nodes] \cup {None}]
      /\ conn'[x] = c
      /\ \A y \in Conns : y # x => conn'[y] = conn[y]
  <2> HIDE DEF c
  <2> QED BY <1>0, <1>1, <1>2 DEF TypeOK
<1>5. /\ open' \in [Conns -> [Ends -> {"none", "open", "closed"}]]
      /\ \A y \in Conns : y # x => open'[y] = open[y]
  BY <1>0, <1>1 DEF TypeOK
<1> DEFINE q == [e \in Ends |-> IF e = "d" THEN <<Hello(t)>> ELSE <<Hello(n)>>]
<1>6. q \in [Ends -> Seq(Frames)]
  BY FramesAre
<1>7. /\ queue' \in [Conns -> [Ends -> Seq(Frames)]]
      /\ queue'[x] = q
      /\ \A y \in Conns : y # x => queue'[y] = queue[y]
  <2> HIDE DEF q
  <2>1. queue' = [queue EXCEPT ![x] = q]
    BY <1>1 DEF q
  <2> QED BY <1>0, <1>6, <2>1 DEF TypeOK
<1>8. /\ dialing' \in [Nodes -> [Nodes -> Conns \cup {None}]]
      /\ dialing'[n][p] = x
      /\ \A k, r \in Nodes : k # n \/ r # p => dialing'[k][r] = dialing[k][r]
  <2>1. dialing \in [Nodes -> [Nodes -> Conns \cup {None}]]
    BY <1>0 DEF TypeOK
  <2>2. dialing' = [dialing EXCEPT ![n][p] = x]
    BY <1>1
  <2> QED BY <2>1, <2>2
<1>9. TypeOK'
  BY <1>0, <1>1, <1>4, <1>5, <1>7, <1>8 DEF TypeOK
<1>10. FreshConns'
  <2>1. ASSUME NEW y \in Conns, conn'[y] = None
        PROVE  Fresh(y)'
    <3>1. y # x
      BY <1>2, <1>4, <2>1
    <3>2. Fresh(y)
      BY <1>0, <1>4, <2>1, <3>1 DEF FreshConns
    <3> QED BY <1>1, <1>5, <1>7, <3>1, <3>2 DEF Fresh
  <2> QED BY <2>1 DEF FreshConns
<1>11. FramesTrue'
  <2>1. ASSUME NEW y \in Conns, NEW e \in Ends, NEW m \in Queued(queue'[y][e])
        PROVE  TrueFrame(y, e, m)'
    <3>1. CASE y # x
      BY <1>0, <1>1, <1>4, <1>7, <2>1, <3>1 DEF FramesTrue, TrueFrame, NodeAt
    <3>2. CASE y = x /\ e = "d"
      <4>1. m = Hello(t)
        BY <1>7, <2>1, <3>2 DEF Queued, Ends
      <4> QED BY <1>4, <3>2, <4>1 DEF TrueFrame, NodeAt, Hello, Other
    <3>3. CASE y = x /\ e = "a"
      <4>1. m = Hello(n)
        BY <1>7, <2>1, <3>3 DEF Queued, Ends
      <4> QED BY <1>4, <3>3, <4>1 DEF TrueFrame, NodeAt, Hello, Other
    <3> QED BY <3>1, <3>2, <3>3 DEF Ends
  <2> QED BY <2>1 DEF FramesTrue
<1>12. HelloTrue'
  BY <1>0, <1>1, <1>3, <1>4 DEF HelloTrue, Fresh, NodeAt
<1>13. InstallsVerified'
  <2>1. \A y \in Conns, e \in Ends : Verified(y, e) =>
            Verified(y, e)' /\ NodeAt(y, e)' = NodeAt(y, e)
    BY <1>1, <1>4 DEF Verified, NodeAt
  <2> QED BY <1>0, <1>1, <2>1 DEF InstallsVerified
<1>14. OpenUnsettled'
  BY <1>0, <1>1, <1>3, <1>5 DEF OpenUnsettled, Fresh
<1>15. DialRemembered'
  <2>1. ASSUME NEW y \in Conns, InFlight(y)'
        PROVE  (dialing[conn[y].dialer][conn[y].expect] = y)'
    <3>1. CASE y = x
      BY <1>4, <1>8, <3>1
    <3>2. CASE y # x
      <4>1. conn'[y] = conn[y] /\ conn[y] # None /\ InFlight(y)
        BY <1>1, <1>4, <2>1, <3>2 DEF InFlight
      <4>2. conn[y].dialer \in Nodes /\ conn[y].expect \in Nodes
        BY <1>0, <4>1, NodesOf
      <4>3. dialing[conn[y].dialer][conn[y].expect] = y
        BY <1>0, <4>1 DEF DialRemembered
      <4>4. conn[y].dialer # n \/ conn[y].expect # p
        BY <1>1, <4>3, BoundsAssumption
      <4> QED BY <1>8, <4>1, <4>2, <4>3, <4>4
    <3> QED BY <3>1, <3>2
  <2> QED BY <2>1 DEF DialRemembered
<1> QED BY <1>9, <1>10, <1>11, <1>12, <1>13, <1>14, <1>15 DEF IInv

-----------------------------------------------------------------------------
(* The theorem                                                             *)

\* The invariant holds initially: nothing was dialed.
LEMMA InitHolds == Init => IInv
<1> SUFFICES ASSUME Init
             PROVE  IInv
  OBVIOUS
<1>1. TypeOK
  BY BoundsAssumption DEF Init, TypeOK
<1>2. FreshConns
  BY DEF Init, FreshConns, Fresh
<1>3. FramesTrue
  BY DEF Init, FramesTrue, Queued
<1>4. HelloTrue /\ InstallsVerified /\ OpenUnsettled /\ DialRemembered
  BY DEF Init, HelloTrue, InstallsVerified, OpenUnsettled, DialRemembered, InFlight
<1> QED BY <1>1, <1>2, <1>3, <1>4 DEF IInv

\* Every step of the network keeps the invariant.
LEMMA NextKeeps == IInv /\ [Next]_vars => IInv'
<1> SUFFICES ASSUME IInv, [Next]_vars
             PROVE  IInv'
  OBVIOUS
<1>1. ASSUME NEW n \in Nodes, NEW p \in Nodes, NEW t \in Nodes, NEW x \in Conns,
             ensureLink(n, p, t, x)
      PROVE  IInv'
  BY <1>1, EnsureLinkKeeps
<1>2. ASSUME NEW n \in Nodes, closeAll(n)
      PROVE  IInv'
  BY <1>2, CloseAllKeeps
<1>3. ASSUME NEW x \in Conns, NEW e \in Ends,
             \/ onHello(x, e) \/ onAuth(x, e) \/ handshakeFails(x, e)
             \/ handshakeTimeout(x, e) \/ installLink(x, e) \/ sendCell(x, e)
             \/ receiveCell(x, e) \/ badFrame(x, e) \/ onClose(x, e)
             \/ ignoreFrame(x, e) \/ networkLoss(x, e) \/ malformedFrame(x, e)
      PROVE  IInv'
  BY <1>3, OnHelloKeeps, OnAuthKeeps, EndsKeep, InstallLinkKeeps, TransportKeeps
<1>4. CASE UNCHANGED vars
  BY <1>4 DEF vars, IInv, TypeOK, FreshConns, Fresh, FramesTrue, TrueFrame, HelloTrue,
              InstallsVerified, Verified, OpenUnsettled, DialRemembered, InFlight, NodeAt
<1> QED BY <1>1, <1>2, <1>3, <1>4 DEF Next

\* The invariant says what the manager promises.
LEMMA InvariantSays == IInv => LinksSound
<1> SUFFICES ASSUME IInv
             PROVE  LinksSound
  OBVIOUS
<1>0. TypeOK /\ HelloTrue /\ InstallsVerified /\ DialRemembered /\ "d" \in Ends
  BY DEF IInv, Ends
<1>1. LinkVerified
  BY <1>0 DEF LinkVerified, InstallsVerified, Verified, HelloTrue
<1>2. DialReachesPeer
  BY <1>0 DEF DialReachesPeer, InstallsVerified, Verified, HelloTrue, NodeAt, Other
<1>3. DialsDeduplicated
  BY <1>0 DEF DialsDeduplicated, DialRemembered, InFlight
<1> QED BY <1>0, <1>1, <1>2, <1>3 DEF LinksSound

\* For any nodes and connections: an installed link is one whose other end
\* signed the handshake, filed under the node that is really there and the one
\* its dial asked for, and simultaneous ensureLink calls for one peer share one
\* dial (installLink, ensureLink of link_manager.mjs, ingestCell of link.mjs).
THEOREM LinksAlwaysSound == Spec => []LinksSound
BY InitHolds, NextKeeps, InvariantSays, PTL DEF Spec
=============================================================================
