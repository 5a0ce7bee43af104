--------------------------- MODULE RendezvousProofs ---------------------------
(***************************************************************************)
(* Proofs about rendezvous and about the programs that keep them:          *)
(*   - rendezvous never mix, for any number of clients, and however        *)
(*     circuits die and cells are delayed (Rendezvous);                    *)
(*   - loads share the connections that a program keeps, but none that     *)
(*     failed, and what is on the screen and in the two stacks of pages is *)
(*     what a browser promises, for any number of fetches, connections and *)
(*     pages, whatever fails (ConnectionCache, Navigation).                *)
(***************************************************************************)
EXTENDS Rendezvous, Navigation, SequenceTheorems, FiniteSetTheorems, TLAPS

-----------------------------------------------------------------------------
(* Rendezvous                                                              *)

\* The elements of a queue, whatever their order.
Queued(q) == {q[i] : i \in 1..Len(q)}

Commands == {"ESTABLISH_RENDEZVOUS", "RENDEZVOUS_ESTABLISHED", "INTRODUCE1", "INTRODUCE_ACK",
             "RENDEZVOUS1", "RENDEZVOUS2", "BEGIN", "REPLY", "ESTABLISH_INTRO",
             "INTRO_ESTABLISHED", "INTRODUCE2"}
Cells == [cmd : Commands, hs : Clients \cup {0}, status : {0, 1}]
Nets == [Circuits -> [out : Seq(Cells), back : Seq(Cells)]]

\* The service has the rendezvous on record, or is gone.
Served(x) == x \in active \/ svc = "down"

\* The two circuits of a rendezvous are spliced, both ways.
Together(x) == splice[rp(x)] = sr(x) /\ splice[sr(x)] = rp(x) /\ Served(x)

\* What may travel on a circuit: cells of its own rendezvous; RENDEZVOUS1 of
\* one on record, RENDEZVOUS2 of one that is spliced.
CellOK(c, d, m) ==
    /\ \A x \in Clients :
          /\ c \in {rp(x), sr(x)} => m.hs = x
          /\ c = rp(x) /\ d = "back" /\ m.cmd = "RENDEZVOUS2" => Together(x)
          /\ c = sr(x) /\ d = "out" /\ m.cmd = "RENDEZVOUS1" => Served(x)
    /\ c = si /\ d = "back" /\ m.cmd = "INTRODUCE2" => m.hs \in Clients

NetSound ==
    /\ net \in Nets
    /\ \A c \in Circuits, d \in {"out", "back"} : \A m \in Queued(net[c][d]) : CellOK(c, d, m)

\* A cookie leads to the client who made it, and a splice joins the two
\* circuits of one rendezvous.
RelaysSound ==
    /\ \A x \in Clients : cookies[x] \in {rp(x), None}
    /\ \A x \in Clients : splice[rp(x)] \in {sr(x), None} /\ splice[sr(x)] \in {rp(x), None}
    /\ \A x \in Clients : splice[ip(x)] = None
    /\ splice[si] = None

\* A call that returned is spliced, and none saw a handshake of another.
CallsSound ==
    \A x \in Clients :
        /\ phase[x] = "open" => Together(x)
        /\ phase[x] # "unauthenticated"

\* The inductive invariant.
IInv == TypeOK /\ NetSound /\ RelaysSound /\ CallsSound

-----------------------------------------------------------------------------
(* Circuits and queues                                                     *)

\* The circuits of the clients and of the service are all different.
LEMMA CircuitsDiffer ==
    /\ \A x \in Clients : /\ rp(x) \in Circuits /\ ip(x) \in Circuits /\ sr(x) \in Circuits
                          /\ rp(x) # None /\ ip(x) # None /\ sr(x) # None
                          /\ rp(x) # si /\ ip(x) # si /\ sr(x) # si
    /\ \A x, y \in Clients : /\ rp(x) # ip(y) /\ rp(x) # sr(y) /\ ip(x) # sr(y)
                             /\ rp(x) = rp(y) => x = y
                             /\ ip(x) = ip(y) => x = y
                             /\ sr(x) = sr(y) => x = y
    /\ si \in Circuits /\ si # None
    /\ \A c \in Circuits : \/ c = si
                           \/ \E x \in Clients : c \in {rp(x), ip(x), sr(x)}
  BY DEF Circuits, rp, ip, sr, si, None

\* What a queue holds after its first element is taken.
LEMMA QueuedTail ==
    ASSUME NEW S, NEW q \in Seq(S), q # <<>>
    PROVE  /\ Head(q) \in S /\ Head(q) \in Queued(q)
           /\ Tail(q) \in Seq(S)
           /\ \A m \in Queued(Tail(q)) : m \in Queued(q)
  BY DEF Queued

\* What a queue holds after one element is put behind it.
LEMMA QueuedAppend ==
    ASSUME NEW S, NEW q \in Seq(S), NEW s \in S
    PROVE  /\ Append(q, s) \in Seq(S)
           /\ \A m \in Queued(Append(q, s)) : m \in Queued(q) \/ m = s
  BY DEF Queued

\* The cells under way n are among those of o, but for m on c.
Adds(n, o, c, d, m) ==
    /\ n \in Nets
    /\ \A e \in Circuits, f \in {"out", "back"} : \A q \in Queued(n[e][f]) :
          q \in Queued(o[e][f]) \/ (e = c /\ f = d /\ q = m)

\* A queue of one circuit changes.
Update(n, c, d, u) == [n EXCEPT ![c][d] = u]

\* An update adds what is in the new queue.
LEMMA NetUpdate ==
    ASSUME NEW n \in Nets, NEW c \in Circuits, NEW d \in {"out", "back"}, NEW u \in Seq(Cells),
           NEW m, \A q \in Queued(u) : q \in Queued(n[c][d]) \/ q = m
    PROVE  Adds(Update(n, c, d, u), n, c, d, m)
<1> DEFINE o == Update(n, c, d, u)
<1>1. o \in Nets
  <2>1. CASE d = "out"
    BY <2>1 DEF Nets, Update
  <2>2. CASE d = "back"
    BY <2>2 DEF Nets, Update
  <2> QED BY <2>1, <2>2
<1>2. \A e \in Circuits, f \in {"out", "back"} :
          o[e][f] = IF e = c /\ f = d THEN u ELSE n[e][f]
  BY DEF Nets, Update
<1> HIDE DEF o
<1> QED BY <1>1, <1>2 DEF Adds, o

\* Put adds its cell, or loses it.
LEMMA PutAdds ==
    ASSUME NEW n \in Nets, NEW c \in Circuits \cup {None}, NEW d \in {"out", "back"},
           NEW m \in Cells
    PROVE  Adds(Put(n, c, d, m), n, c, d, m)
<1>1. CASE c # None /\ circ[c] = "up"
  <2>1. c \in Circuits
    BY <1>1
  <2>2. n[c][d] \in Seq(Cells)
    BY <2>1 DEF Nets, Update
  <2>3. /\ Append(n[c][d], m) \in Seq(Cells)
        /\ \A q \in Queued(Append(n[c][d], m)) : q \in Queued(n[c][d]) \/ q = m
    BY <2>2, QueuedAppend
  <2>4. Put(n, c, d, m) = Update(n, c, d, Append(n[c][d], m))
    BY <1>1, <2>1 DEF Put, Nets, Update
  <2> QED BY <2>1, <2>3, <2>4, NetUpdate
<1>2. CASE ~(c # None /\ circ[c] = "up")
  BY <1>2 DEF Put, Adds
<1> QED BY <1>1, <1>2

\* A cell that arrives is one that travelled.
LEMMA TakenAdds ==
    ASSUME NetSound, NEW c \in Circuits, NEW d \in {"out", "back"}, NEW cmd, Arrives(c, d, cmd),
           NEW m
    PROVE  /\ Adds(Taken(c, d), net, c, d, m)
           /\ Head(net[c][d]) \in Cells /\ Head(net[c][d]).cmd = cmd
           /\ CellOK(c, d, Head(net[c][d]))
<1>1. net[c][d] \in Seq(Cells) /\ net[c][d] # <<>> /\ net \in Nets
  BY DEF NetSound, Nets, Arrives
<1>2. /\ Head(net[c][d]) \in Cells /\ Head(net[c][d]) \in Queued(net[c][d])
      /\ Tail(net[c][d]) \in Seq(Cells)
      /\ \A q \in Queued(Tail(net[c][d])) : q \in Queued(net[c][d])
  BY <1>1, QueuedTail
<1>3. Taken(c, d) = Update(net, c, d, Tail(net[c][d]))
  BY <1>1 DEF Taken, Nets, Update
<1>4. Adds(Taken(c, d), net, c, d, m)
  BY <1>1, <1>2, <1>3, NetUpdate
<1> QED BY <1>2, <1>4 DEF NetSound, Arrives

-----------------------------------------------------------------------------
(* What a step may put under way                                           *)

\* The cells under way after the step were under way before, or may travel.
Flows ==
    /\ net' \in Nets
    /\ \A e \in Circuits, f \in {"out", "back"} : \A q \in Queued(net'[e][f]) :
          q \in Queued(net[e][f]) \/ CellOK(e, f, q)'

\* Rendezvous stay spliced, and on record.
Lasts == \A x \in Clients : (Served(x) => Served(x)') /\ (Together(x) => Together(x)')

\* Then what travels is still what may.
LEMMA NetKept ==
    ASSUME NetSound, Flows, Lasts
    PROVE  NetSound'
<1>1. ASSUME NEW e \in Circuits, NEW f \in {"out", "back"}, NEW q \in Queued(net[e][f])
      PROVE  CellOK(e, f, q)'
  <2>1. CellOK(e, f, q)
    BY <1>1 DEF NetSound
  <2> QED BY <2>1 DEF CellOK, Lasts
<1> QED BY <1>1 DEF Flows, NetSound

\* A step that adds one cell.
LEMMA AddFlows ==
    ASSUME NEW c, NEW d, NEW m, Adds(net', net, c, d, m), c \in Circuits => CellOK(c, d, m)'
    PROVE  Flows
  BY DEF Adds, Flows

\* A cell is taken, and maybe answered with m.
LEMMA TakeFlows ==
    ASSUME NetSound, NEW c \in Circuits, NEW d \in {"out", "back"}, NEW cmd, Arrives(c, d, cmd),
           net' = Taken(c, d)
    PROVE  Flows
<1>1. Adds(net', net, None, d, 0)
  <2>1. Adds(Taken(c, d), net, c, d, 0)
    BY TakenAdds
  <2>2. Adds(Taken(c, d), net, c, d, 1)
    BY TakenAdds
  <2> QED BY <2>1, <2>2 DEF Adds
<1>2. None \notin Circuits
  BY CircuitsDiffer
<1> QED BY <1>1, <1>2, AddFlows

LEMMA AnswerFlows ==
    ASSUME NetSound, NEW c \in Circuits, NEW d \in {"out", "back"}, NEW cmd, Arrives(c, d, cmd),
           NEW e \in Circuits \cup {None}, NEW f \in {"out", "back"}, NEW m \in Cells,
           net' = Put(Taken(c, d), e, f, m), e \in Circuits => CellOK(e, f, m)'
    PROVE  Flows
<1>1. Adds(Taken(c, d), net, e, f, m)
  <2>1. Adds(Taken(c, d), net, c, d, 0)
    BY TakenAdds
  <2>2. Adds(Taken(c, d), net, c, d, 1)
    BY TakenAdds
  <2> QED BY <2>1, <2>2 DEF Adds
<1>2. Taken(c, d) \in Nets
  BY <1>1 DEF Adds
<1>3. Adds(net', Taken(c, d), e, f, m)
  BY <1>2, PutAdds
<1>4. Adds(net', net, e, f, m)
  BY <1>1, <1>3 DEF Adds
<1> QED BY <1>4, AddFlows

LEMMA PutFlows ==
    ASSUME NetSound, NEW e \in Circuits, NEW f \in {"out", "back"}, NEW m \in Cells,
           net' = Put(net, e, f, m), CellOK(e, f, m)'
    PROVE  Flows
<1>1. Adds(net', net, e, f, m)
  BY PutAdds DEF NetSound
<1> QED BY <1>1, AddFlows

\* A circuit is built with its first cell, or dies.
LEMMA BuiltFlows ==
    ASSUME TypeOK, NetSound, NEW c \in Circuits, NEW m \in Cells, Built(c, m), CellOK(c, "out", m)'
    PROVE  Flows /\ circ' \in [Circuits -> {"none", "up", "dead"}]
<1>1. net' = Update(net, c, "out", <<m>>)
  BY DEF Built, Update
<1>2. <<m>> \in Seq(Cells) /\ \A q \in Queued(<<m>>) : q = m
  BY DEF Queued
<1>3. Adds(net', net, c, "out", m)
  BY <1>1, <1>2, NetUpdate DEF NetSound
<1>4. circ' \in [Circuits -> {"none", "up", "dead"}]
  BY DEF TypeOK, Built
<1> QED BY <1>3, <1>4, AddFlows

LEMMA DiesKeeps ==
    ASSUME IInv, NEW c \in Circuits, circuitDies(c)
    PROVE  IInv'
<1>0. TypeOK /\ NetSound /\ RelaysSound /\ CallsSound
  BY DEF IInv
<1>1. /\ circ' = [circ EXCEPT ![c] = "dead"]
      /\ net' = [net EXCEPT ![c] = [out |-> <<>>, back |-> <<>>]]
      /\ UNCHANGED <<phase, tries, stream, svc, building, active, dialing, services, cookies, splice>>
  BY DEF circuitDies, client, service, relays
<1>2. Flows
  <2> DEFINE z == [out |-> <<>>, back |-> <<>>]
  <2>1. z \in [out : Seq(Cells), back : Seq(Cells)]
    OBVIOUS
  <2>2. \A f \in {"out", "back"} : z[f] = <<>>
    OBVIOUS
  <2>3. net' = [net EXCEPT ![c] = z] /\ net \in Nets
    BY <1>0, <1>1 DEF NetSound
  <2> HIDE DEF z
  <2>4. net' \in Nets /\ \A e \in Circuits : net'[e] = IF e = c THEN z ELSE net[e]
    BY <2>1, <2>3 DEF Nets
  <2> QED BY <2>2, <2>4 DEF Flows, Queued
<1>3. Lasts
  BY <1>1 DEF Lasts, Served, Together, rp, sr
<1>4. NetSound'
  BY <1>0, <1>2, <1>3, NetKept
<1>5. TypeOK'
  BY <1>0, <1>1 DEF TypeOK
<1>6. RelaysSound'
  BY <1>0, <1>1 DEF RelaysSound
<1>7. CallsSound'
  BY <1>0, <1>1 DEF CallsSound, Together, Served
<1> QED BY <1>4, <1>5, <1>6, <1>7 DEF IInv

-----------------------------------------------------------------------------
(* Steps of a client                                                       *)

Phases == {"idle", "rp-build", "ip-build"} \cup Waits \cup Settled

\* What a client's steps have in common.
Proceeds(x) ==
    /\ UNCHANGED <<svc, building, active, dialing, services, cookies, splice>>
    /\ tries' \in [Clients -> 0..(RetryLimit - 1)]
    /\ stream' \in [Clients -> {"none", "begun", "answered"}]
    /\ circ' \in [Circuits -> {"none", "up", "dead"}]
    /\ \E p \in Phases : /\ phase' = phase \/ phase' = [phase EXCEPT ![x] = p]
                         /\ p = "open" => Together(x)
                         /\ p # "unauthenticated"

\* The step of one client takes nothing from a rendezvous.
LEMMA ProceedsKeeps ==
    ASSUME IInv, NEW x \in Clients, Proceeds(x), Flows
    PROVE  IInv'
<1>0. TypeOK /\ NetSound /\ RelaysSound /\ CallsSound
  BY DEF IInv
<1>1. /\ UNCHANGED <<svc, building, active, dialing, services, cookies, splice>>
      /\ tries' \in [Clients -> 0..(RetryLimit - 1)]
      /\ stream' \in [Clients -> {"none", "begun", "answered"}]
      /\ circ' \in [Circuits -> {"none", "up", "dead"}]
  BY DEF Proceeds
<1>2. PICK p \in Phases : /\ phase' = phase \/ phase' = [phase EXCEPT ![x] = p]
                          /\ p = "open" => Together(x)
                          /\ p # "unauthenticated"
  BY DEF Proceeds
<1>3. phase \in [Clients -> Phases]
  BY <1>0 DEF TypeOK, Phases
<1>4. Lasts
  BY <1>1 DEF Lasts, Served, Together
<1>5. NetSound'
  BY <1>0, <1>4, NetKept
<1>6. TypeOK'
  <2>1. phase' \in [Clients -> Phases]
    BY <1>2, <1>3
  <2> QED BY <1>0, <1>1, <2>1 DEF TypeOK, Phases
<1>7. RelaysSound'
  BY <1>0, <1>1 DEF RelaysSound
<1>8. CallsSound'
  BY <1>0, <1>2, <1>3, <1>4 DEF CallsSound, Lasts
<1> QED BY <1>5, <1>6, <1>7, <1>8 DEF IInv

\* Nothing is sent or taken.
LEMMA QuietFlows ==
    ASSUME NetSound, net' = net
    PROVE  Flows
  BY DEF NetSound, Flows

\* A call begins, a build fails or resolves, a timer fires.
LEMMA CallKeeps ==
    ASSUME IInv, NEW x \in Clients,
           openHiddenService(x) \/ BuildSettles(x) \/ waitTimeout(x)
    PROVE  IInv'
<1>0. TypeOK /\ NetSound
  BY DEF IInv
<1>1. "failed" \in Phases /\ "rp-build" \in Phases /\ "rp-wait" \in Phases /\ "ack-wait" \in Phases
  BY DEF Phases, Waits, Settled
<1>2. CASE openHiddenService(x)
  <2>1. Proceeds(x)
    BY <1>0, <1>1, <1>2 DEF openHiddenService, Proceeds, TypeOK, service, relays
  <2> QED BY <1>0, <1>2, <2>1, QuietFlows, ProceedsKeeps DEF openHiddenService
<1>3. CASE waitTimeout(x)
  <2>1. Proceeds(x)
    BY <1>0, <1>1, <1>3 DEF waitTimeout, Proceeds, TypeOK, service, relays
  <2> QED BY <1>0, <1>3, <2>1, QuietFlows, ProceedsKeeps DEF waitTimeout
<1>4. ASSUME NEW t \in BOOLEAN, buildFails(x, t)
      PROVE  IInv'
  <2>1. tries' \in [Clients -> 0..(RetryLimit - 1)]
    <3>1. tries \in [Clients -> 0..(RetryLimit - 1)] /\ RetryLimit \in Nat \ {0}
      BY <1>0, RendezvousBounds DEF TypeOK
    <3>2. CASE t /\ tries[x] + 1 < RetryLimit
      BY <1>4, <3>1, <3>2 DEF buildFails
    <3>3. CASE ~(t /\ tries[x] + 1 < RetryLimit)
      BY <1>4, <3>1, <3>3 DEF buildFails
    <3> QED BY <3>2, <3>3
  <2>2. phase' \in {phase, [phase EXCEPT ![x] = "failed"]}
    BY <1>4 DEF buildFails
  <2>3. Proceeds(x)
    BY <1>0, <1>1, <1>4, <2>1, <2>2 DEF buildFails, Proceeds, TypeOK, service, relays
  <2> QED BY <1>0, <1>4, <2>3, QuietFlows, ProceedsKeeps DEF buildFails
<1>5. CASE rpBuilt(x)
  <2>1. Msg("ESTABLISH_RENDEZVOUS", x, 0) \in Cells
    BY DEF Msg, Cells, Commands
  <2>2. CellOK(rp(x), "out", Msg("ESTABLISH_RENDEZVOUS", x, 0))'
    BY CircuitsDiffer DEF CellOK, Msg
  <2>3. Flows /\ circ' \in [Circuits -> {"none", "up", "dead"}]
    BY <1>0, <1>5, <2>1, <2>2, CircuitsDiffer, BuiltFlows DEF rpBuilt
  <2>4. tries' \in [Clients -> 0..(RetryLimit - 1)]
    BY <1>0, <1>5, RendezvousBounds DEF rpBuilt, TypeOK
  <2>5. Proceeds(x)
    BY <1>0, <1>1, <1>5, <2>3, <2>4 DEF rpBuilt, Proceeds, TypeOK, service, relays
  <2> QED BY <2>3, <2>5, ProceedsKeeps
<1>6. CASE ipBuilt(x)
  <2>1. Msg("INTRODUCE1", x, 0) \in Cells
    BY DEF Msg, Cells, Commands
  <2>2. CellOK(ip(x), "out", Msg("INTRODUCE1", x, 0))'
    BY CircuitsDiffer DEF CellOK, Msg
  <2>3. Flows /\ circ' \in [Circuits -> {"none", "up", "dead"}]
    BY <1>0, <1>6, <2>1, <2>2, CircuitsDiffer, BuiltFlows DEF ipBuilt
  <2>4. Proceeds(x)
    BY <1>0, <1>1, <1>6, <2>3 DEF ipBuilt, Proceeds, TypeOK, service, relays
  <2> QED BY <2>3, <2>4, ProceedsKeeps
<1> QED BY <1>2, <1>3, <1>4, <1>5, <1>6 DEF BuildSettles

\* A cell arrives at a client: an open connection is one whose RENDEZVOUS2
\* came, and it came on spliced circuits.
LEMMA ClientStepKeeps ==
    ASSUME IInv, NEW x \in Clients, ClientStep(x) \/ openStream(x)
    PROVE  IInv'
<1>0. TypeOK /\ NetSound /\ rp(x) \in Circuits /\ ip(x) \in Circuits
  BY CircuitsDiffer DEF IInv
<1>1. {"failed", "ip-build", "r2-wait", "open"} \subseteq Phases
  BY DEF Phases, Waits, Settled
<1>2. CASE onRendezvousEstablished(x)
  <2>1. Flows
    BY <1>0, <1>2, TakeFlows DEF onRendezvousEstablished
  <2>2. \E p \in {"ip-build", "failed"} : phase' = phase \/ phase' = [phase EXCEPT ![x] = p]
    BY <1>2 DEF onRendezvousEstablished
  <2>3. Proceeds(x)
    BY <1>0, <1>1, <1>2, <2>2 DEF onRendezvousEstablished, Proceeds, TypeOK, service, relays
  <2> QED BY <2>1, <2>3, ProceedsKeeps
<1>3. CASE onIntroduceAck(x)
  <2>1. Flows
    BY <1>0, <1>3, TakeFlows DEF onIntroduceAck
  <2>2. \E p \in {"r2-wait", "failed"} : phase' = phase \/ phase' = [phase EXCEPT ![x] = p]
    BY <1>3 DEF onIntroduceAck
  <2>3. Proceeds(x)
    BY <1>0, <1>1, <1>3, <2>2 DEF onIntroduceAck, Proceeds, TypeOK, service, relays
  <2> QED BY <2>1, <2>3, ProceedsKeeps
<1>4. CASE onRendezvous2(x)
  <2>1. Flows
    BY <1>0, <1>4, TakeFlows DEF onRendezvous2
  <2>2. CellOK(rp(x), "back", Head(net[rp(x)].back)) /\ Head(net[rp(x)].back).cmd = "RENDEZVOUS2"
    <3>1. net[rp(x)]["back"] = net[rp(x)].back
      OBVIOUS
    <3>2. Arrives(rp(x), "back", "RENDEZVOUS2")
      BY <1>4 DEF onRendezvous2
    <3> QED BY <1>0, <3>1, <3>2, TakenAdds
  <2>3. Together(x) /\ Head(net[rp(x)].back).hs = x
    BY <2>2 DEF CellOK
  <2>4. phase' = phase \/ phase' = [phase EXCEPT ![x] = "open"]
    BY <1>4, <2>3 DEF onRendezvous2
  <2>5. Proceeds(x)
    BY <1>0, <1>1, <1>4, <2>3, <2>4 DEF onRendezvous2, Proceeds, TypeOK, service, relays
  <2> QED BY <2>1, <2>5, ProceedsKeeps
<1>5. CASE onStreamReply(x)
  <2>1. Flows
    BY <1>0, <1>5, TakeFlows DEF onStreamReply
  <2>2. stream' \in [Clients -> {"none", "begun", "answered"}]
    BY <1>0, <1>5 DEF onStreamReply, TypeOK
  <2>3. Proceeds(x)
    BY <1>0, <1>1, <1>5, <2>2 DEF onStreamReply, Proceeds, TypeOK, service, relays
  <2> QED BY <2>1, <2>3, ProceedsKeeps
<1>6. CASE openStream(x)
  <2>1. Msg("BEGIN", x, 0) \in Cells
    BY DEF Msg, Cells, Commands
  <2>2. CellOK(rp(x), "out", Msg("BEGIN", x, 0))'
    BY CircuitsDiffer DEF CellOK, Msg
  <2>3. Flows
    BY <1>0, <1>6, <2>1, <2>2, PutFlows DEF openStream
  <2>4. stream' \in [Clients -> {"none", "begun", "answered"}]
    BY <1>0, <1>6 DEF openStream, TypeOK
  <2>5. Proceeds(x)
    BY <1>0, <1>1, <1>6, <2>4 DEF openStream, Proceeds, TypeOK, service, relays
  <2> QED BY <2>3, <2>5, ProceedsKeeps
<1> QED BY <1>2, <1>3, <1>4, <1>5, <1>6 DEF ClientStep

-----------------------------------------------------------------------------
(* Steps of the introduction point and the rendezvous point                *)

\* What a relay's steps have in common: what is spliced stays spliced.
LEMMA RelayKeeps ==
    ASSUME IInv, Flows, UNCHANGED <<client, service, circ>>, RelaysSound',
           services' \in {None, si},
           cookies' \in [Clients -> {rp(x) : x \in Clients} \cup {None}],
           splice' \in [Circuits -> Circuits \cup {None}],
           \A x \in Clients : Together(x) => Together(x)'
    PROVE  IInv'
<1>0. TypeOK /\ NetSound /\ CallsSound
  BY DEF IInv
<1>1. UNCHANGED <<phase, tries, stream, svc, building, active, dialing, circ>>
  BY DEF client, service
<1>2. Lasts
  BY <1>1 DEF Lasts, Served
<1>3. NetSound'
  BY <1>0, <1>2, NetKept
<1>4. TypeOK'
  BY <1>0, <1>1 DEF TypeOK
<1>5. CallsSound'
  BY <1>0, <1>1 DEF CallsSound
<1> QED BY <1>3, <1>4, <1>5 DEF IInv

\* The same, when nothing but cells changes.
LEMMA ForwardKeeps ==
    ASSUME IInv, Flows, UNCHANGED <<client, service, relays, circ>>
    PROVE  IInv'
<1>1. TypeOK /\ RelaysSound
  BY DEF IInv
<1>2. UNCHANGED <<services, cookies, splice, svc, active>>
  BY DEF relays, service
<1>3. RelaysSound'
  BY <1>1, <1>2 DEF RelaysSound
<1>4. \A x \in Clients : Together(x) => Together(x)'
  BY <1>2 DEF Together, Served
<1> QED BY <1>1, <1>2, <1>3, <1>4, RelayKeeps DEF TypeOK

LEMMA IntroKeeps ==
    ASSUME IInv, NEW ok \in BOOLEAN, handleEstablishIntro(ok)
    PROVE  IInv'
<1>0. TypeOK /\ NetSound /\ RelaysSound
  BY DEF IInv
<1> DEFINE m == Msg("INTRO_ESTABLISHED", 0, IF ok THEN 0 ELSE 1)
<1>1. m \in Cells /\ m.cmd = "INTRO_ESTABLISHED"
  BY DEF Msg, Cells, Commands
<1>2. Arrives(si, "out", "ESTABLISH_INTRO") /\ net' = Put(Taken(si, "out"), si, "back", m)
  BY DEF handleEstablishIntro
<1>3. UNCHANGED <<client, service, circ, cookies, splice, svc, active>> /\ services' \in {None, si}
  BY <1>0 DEF handleEstablishIntro, TypeOK, service
<1> HIDE DEF m
<1>4. CellOK(si, "back", m)'
  BY <1>1, CircuitsDiffer DEF CellOK
<1>5. Flows
  BY <1>0, <1>1, <1>2, <1>4, AnswerFlows, CircuitsDiffer
<1>6. RelaysSound'
  BY <1>0, <1>3 DEF RelaysSound
<1>7. \A x \in Clients : Together(x) => Together(x)'
  BY <1>3 DEF Together, Served
<1> QED BY <1>0, <1>3, <1>5, <1>6, <1>7, RelayKeeps DEF TypeOK

LEMMA IntroduceKeeps ==
    ASSUME IInv, NEW x \in Clients, handleIntroduce1(x)
    PROVE  IInv'
<1>0. TypeOK /\ NetSound /\ ip(x) \in Circuits /\ si \in Circuits /\ services \in {None, si}
  BY CircuitsDiffer DEF IInv, TypeOK
<1>01. PICK a \in Cells : a = Msg("INTRODUCE_ACK", x, IF services # None THEN 0 ELSE 1)
  <2>1. Msg("INTRODUCE_ACK", x, IF services # None THEN 0 ELSE 1) \in Cells
    BY DEF Msg, Cells, Commands
  <2> QED BY <2>1
<1> DEFINE m == Msg("INTRODUCE2", x, 0)
           taken == Taken(ip(x), "out")
           fwd == Put(taken, services, "back", m)
<1>1. m \in Cells /\ m.hs = x /\ m.cmd = "INTRODUCE2" /\ a \in Cells /\ a.cmd = "INTRODUCE_ACK"
  BY <1>01 DEF Msg, Cells, Commands
<1>2. Arrives(ip(x), "out", "INTRODUCE1") /\ net' = Put(fwd, ip(x), "back", a)
  BY <1>01 DEF handleIntroduce1
<1>3. UNCHANGED <<client, service, relays, circ>>
  BY DEF handleIntroduce1
<1> HIDE DEF m
<1>4. Adds(taken, net, services, "back", m)
  <2>1. Adds(taken, net, ip(x), "out", 0) /\ Adds(taken, net, ip(x), "out", 1)
    BY <1>0, <1>2, TakenAdds
  <2> QED BY <2>1 DEF Adds
<1> HIDE DEF taken
<1>5. Adds(fwd, taken, services, "back", m)
  <2>1. taken \in Nets
    BY <1>4 DEF Adds
  <2> QED BY <1>0, <1>1, <2>1, PutAdds
<1> HIDE DEF fwd
<1>6. Adds(net', fwd, ip(x), "back", a)
  <2>1. fwd \in Nets
    BY <1>5 DEF Adds
  <2> QED BY <1>0, <1>1, <1>2, <2>1, PutAdds
<1>7. CellOK(ip(x), "back", a)'
  BY <1>1, CircuitsDiffer DEF CellOK
<1>8. PICK e \in {None, si} : e = services
  BY <1>0
<1>9. e \in Circuits => CellOK(e, "back", m)'
  BY <1>1, CircuitsDiffer DEF CellOK, m
<1>10. Flows
  BY <1>4, <1>5, <1>6, <1>7, <1>8, <1>9 DEF Adds, Flows
<1> QED BY <1>3, <1>10, ForwardKeeps

LEMMA EstablishKeeps ==
    ASSUME IInv, NEW x \in Clients, handleEstablishRendezvous(x)
    PROVE  IInv'
<1>0. TypeOK /\ NetSound /\ RelaysSound /\ rp(x) \in Circuits
  BY CircuitsDiffer DEF IInv
<1>01. PICK a \in Cells : a = Msg("RENDEZVOUS_ESTABLISHED", x, IF cookies[x] = None THEN 0 ELSE 1)
  <2>1. Msg("RENDEZVOUS_ESTABLISHED", x, IF cookies[x] = None THEN 0 ELSE 1) \in Cells
    BY DEF Msg, Cells, Commands
  <2> QED BY <2>1
<1>1. a.hs = x /\ a.cmd = "RENDEZVOUS_ESTABLISHED"
  BY <1>01 DEF Msg
<1>2. Arrives(rp(x), "out", "ESTABLISH_RENDEZVOUS")
  BY DEF handleEstablishRendezvous
<1>3. Head(net[rp(x)].out).hs = x
  <2>1. CellOK(rp(x), "out", Head(net[rp(x)]["out"]))
    BY <1>0, <1>2, TakenAdds
  <2> QED BY <2>1 DEF CellOK
<1>4. /\ cookies' = cookies \/ cookies' = [cookies EXCEPT ![x] = rp(x)]
      /\ net' = Put(Taken(rp(x), "out"), rp(x), "back", a)
      /\ UNCHANGED <<client, service, services, splice, circ, svc, active>>
  BY <1>01, <1>3 DEF handleEstablishRendezvous, service
<1>5. CellOK(rp(x), "back", a)'
  BY <1>1, CircuitsDiffer DEF CellOK
<1>6. Flows
  BY <1>0, <1>1, <1>2, <1>4, <1>5, AnswerFlows
<1>7. /\ cookies' \in [Clients -> {rp(y) : y \in Clients} \cup {None}]
      /\ \A y \in Clients : cookies'[y] \in {rp(y), None}
  BY <1>0, <1>4 DEF TypeOK, RelaysSound
<1>8. RelaysSound'
  BY <1>0, <1>4, <1>7 DEF RelaysSound
<1>9. \A y \in Clients : Together(y) => Together(y)'
  BY <1>4 DEF Together, Served
<1> QED BY <1>0, <1>4, <1>6, <1>7, <1>8, <1>9, RelayKeeps DEF TypeOK

\* The cookie of y leads to the circuit of client y, so the splice joins the
\* two circuits of one rendezvous.
LEMMA JoinKeeps ==
    ASSUME IInv, NEW y \in Clients, handleRendezvous1(y)
    PROVE  IInv'
<1>0. /\ TypeOK /\ NetSound /\ RelaysSound
      /\ rp(y) \in Circuits /\ sr(y) \in Circuits /\ rp(y) # sr(y) /\ rp(y) # None
  BY CircuitsDiffer DEF IInv
<1>1. Arrives(sr(y), "out", "RENDEZVOUS1")
  BY DEF handleRendezvous1
<1>2. Head(net[sr(y)].out).hs = y /\ Served(y)
  <2>1. CellOK(sr(y), "out", Head(net[sr(y)]["out"])) /\ Head(net[sr(y)]["out"]).cmd = "RENDEZVOUS1"
    BY <1>0, <1>1, TakenAdds
  <2> QED BY <2>1 DEF CellOK
<1>3. UNCHANGED <<client, service, services, circ, svc, active>>
  BY DEF handleRendezvous1, service
<1>4. CASE cookies[y] = None
  <2>1. net' = Taken(sr(y), "out") /\ UNCHANGED <<cookies, splice>>
    BY <1>2, <1>4 DEF handleRendezvous1, clientEntry
  <2>2. Flows
    BY <1>0, <1>1, <2>1, TakeFlows
  <2> QED BY <1>3, <2>1, <2>2, ForwardKeeps DEF relays
<1>5. CASE cookies[y] # None
  <2> DEFINE m == Msg("RENDEZVOUS2", y, 0)
  <2>1. m \in Cells /\ m.hs = y
    BY DEF Msg, Cells, Commands
  <2>2. cookies[y] = rp(y)
    BY <1>0, <1>5 DEF RelaysSound
  <2>3. /\ cookies' = [cookies EXCEPT ![y] = None]
        /\ splice' = [splice EXCEPT ![rp(y)] = sr(y), ![sr(y)] = rp(y)]
        /\ net' = Put(Taken(sr(y), "out"), rp(y), "back", m)
    BY <1>0, <1>2, <2>2 DEF handleRendezvous1, clientEntry, spliceCircuits
  <2> HIDE DEF m
  <2>4. /\ splice' \in [Circuits -> Circuits \cup {None}]
        /\ splice'[rp(y)] = sr(y) /\ splice'[sr(y)] = rp(y)
        /\ \A c \in Circuits \ {rp(y), sr(y)} : splice'[c] = splice[c]
    BY <1>0, <2>3 DEF TypeOK
  <2>5. /\ cookies' \in [Clients -> {rp(x) : x \in Clients} \cup {None}]
        /\ \A x \in Clients : cookies'[x] \in {rp(x), None}
    BY <1>0, <2>3 DEF TypeOK, RelaysSound
  <2>6. /\ \A x \in Clients : x # y => /\ splice'[rp(x)] = splice[rp(x)]
                                      /\ splice'[sr(x)] = splice[sr(x)]
        /\ \A x \in Clients : splice'[ip(x)] = splice[ip(x)]
        /\ splice'[si] = splice[si]
    BY <2>4, CircuitsDiffer
  <2>7. RelaysSound'
    BY <1>0, <2>4, <2>5, <2>6 DEF RelaysSound
  <2>8. Together(y)'
    BY <1>2, <1>3, <2>4 DEF Together, Served
  <2>9. \A x \in Clients : Together(x) => Together(x)'
    BY <1>3, <2>6, <2>8 DEF Together, Served
  <2>10. CellOK(rp(y), "back", m)'
    BY <2>1, <2>8, CircuitsDiffer DEF CellOK
  <2>11. Flows
    BY <1>0, <1>1, <2>1, <2>3, <2>10, AnswerFlows
  <2> QED BY <1>0, <1>3, <2>4, <2>5, <2>7, <2>9, <2>11, RelayKeeps DEF TypeOK
<1> QED BY <1>4, <1>5

\* What goes through a splice stays within its rendezvous.
LEMMA SpliceKeeps ==
    ASSUME IInv, NEW c \in Circuits, throughSplice(c)
    PROVE  IInv'
<1>0. TypeOK /\ NetSound /\ RelaysSound /\ splice[c] \in Circuits \cup {None}
  BY DEF IInv, TypeOK
<1>1. PICK cmd \in {"BEGIN", "REPLY"} : Arrives(c, "out", cmd)
  BY DEF throughSplice
<1>2. PICK m \in Cells : m = Head(net[c].out)
  <2>1. Head(net[c]["out"]) \in Cells
    BY <1>0, <1>1, TakenAdds
  <2> QED BY <2>1
<1>3. CellOK(c, "out", m) /\ m.cmd = cmd
  <2>1. CellOK(c, "out", Head(net[c]["out"])) /\ Head(net[c]["out"]).cmd = cmd
    BY <1>0, <1>1, TakenAdds
  <2> QED BY <1>2, <2>1
<1>4. net' = Put(Taken(c, "out"), splice[c], "back", m)
  BY <1>2 DEF throughSplice
<1>5. splice[c] \in Circuits => CellOK(splice[c], "back", m)'
  <2>1. SUFFICES ASSUME splice[c] \in Circuits
                 PROVE  CellOK(splice[c], "back", m)'
    OBVIOUS
  <2>2. splice[c] # None
    BY <2>1, CircuitsDiffer
  <2>3. PICK x \in Clients : \/ c = rp(x) /\ splice[c] = sr(x)
                             \/ c = sr(x) /\ splice[c] = rp(x)
    <3>1. c = si \/ \E x \in Clients : c \in {rp(x), ip(x), sr(x)}
      BY CircuitsDiffer
    <3>2. c # si
      BY <1>0, <2>2 DEF RelaysSound
    <3>3. PICK k \in Clients : c \in {rp(k), ip(k), sr(k)}
      BY <3>1, <3>2
    <3>4. c # ip(k)
      BY <1>0, <2>2 DEF RelaysSound
    <3>5. /\ c = rp(k) => splice[c] \in {sr(k), None}
          /\ c = sr(k) => splice[c] \in {rp(k), None}
      BY <1>0 DEF RelaysSound
    <3>6. \/ c = rp(k) /\ splice[c] = sr(k)
          \/ c = sr(k) /\ splice[c] = rp(k)
      BY <2>2, <3>3, <3>4, <3>5
    <3> QED BY <3>6
  <2>4. m.hs = x
    BY <1>3, <2>3 DEF CellOK
  <2>5. splice' = splice
    BY DEF throughSplice, relays
  <2>6. CASE splice[c] = sr(x)
    <3>1. CellOK(sr(x), "back", m)'
      BY <2>4, CircuitsDiffer DEF CellOK
    <3> QED BY <2>5, <2>6, <3>1
  <2>7. CASE splice[c] = rp(x)
    <3>1. CellOK(rp(x), "back", m)'
      BY <1>1, <1>3, <2>4, CircuitsDiffer DEF CellOK
    <3> QED BY <2>5, <2>7, <3>1
  <2> QED BY <2>3, <2>6, <2>7
<1>6. PICK e \in Circuits \cup {None} : e = splice[c]
  BY <1>0
<1>7. splice' = splice /\ UNCHANGED <<client, service, relays, circ>>
  BY DEF throughSplice, relays
<1>8. e \in Circuits => CellOK(e, "back", m)'
  BY <1>5, <1>6, <1>7
<1>9. Flows
  BY <1>0, <1>1, <1>4, <1>6, <1>8, AnswerFlows
<1> QED BY <1>7, <1>9, ForwardKeeps

-----------------------------------------------------------------------------
(* Steps of the service                                                    *)

\* What the service's steps have in common: it forgets no rendezvous while it
\* is there.
LEMMA ServiceKeeps ==
    ASSUME IInv, Flows, UNCHANGED <<client, relays>>,
           svc' \in {"starting", "wait", "running", "down"},
           building' \subseteq Clients, active' \subseteq Clients, dialing' \subseteq active',
           circ' \in [Circuits -> {"none", "up", "dead"}],
           svc' = "down" \/ (active \subseteq active' /\ svc # "down")
                         \/ (active \subseteq active' /\ svc' = svc)
    PROVE  IInv'
<1>0. TypeOK /\ NetSound /\ RelaysSound /\ CallsSound
  BY DEF IInv
<1>1. UNCHANGED <<phase, tries, stream, services, cookies, splice>>
  BY DEF client, relays
<1>2. Lasts
  BY <1>1 DEF Lasts, Served, Together
<1>3. NetSound'
  BY <1>0, <1>2, NetKept
<1>4. TypeOK'
  BY <1>0, <1>1 DEF TypeOK
<1>5. RelaysSound'
  BY <1>0, <1>1 DEF RelaysSound
<1>6. CallsSound'
  BY <1>0, <1>1, <1>2 DEF CallsSound, Lasts
<1> QED BY <1>3, <1>4, <1>5, <1>6 DEF IInv

\* The service starts, is registered, or ends.
LEMMA HostKeeps ==
    ASSUME IInv, startBuilt \/ onIntroEstablished \/ serviceStops
    PROVE  IInv'
<1>0. TypeOK /\ NetSound /\ si \in Circuits
  BY CircuitsDiffer DEF IInv
<1>1. CASE startBuilt
  <2>1. Msg("ESTABLISH_INTRO", 0, 0) \in Cells
    BY DEF Msg, Cells, Commands
  <2>2. CellOK(si, "out", Msg("ESTABLISH_INTRO", 0, 0))'
    BY CircuitsDiffer DEF CellOK, Msg
  <2>3. /\ svc = "starting" /\ svc' = "wait" /\ Built(si, Msg("ESTABLISH_INTRO", 0, 0))
        /\ UNCHANGED <<client, relays>> /\ UNCHANGED <<building, active, dialing>>
    BY <1>1 DEF startBuilt
  <2>4. Flows /\ circ' \in [Circuits -> {"none", "up", "dead"}]
    BY <1>0, <2>1, <2>2, <2>3, BuiltFlows
  <2> QED BY <1>0, <2>3, <2>4, ServiceKeeps DEF TypeOK
<1>2. CASE onIntroEstablished
  <2>1. /\ svc \in {"wait", "running"} /\ svc' \in {"running", "down"}
        /\ Arrives(si, "back", "INTRO_ESTABLISHED") /\ net' = Taken(si, "back")
        /\ UNCHANGED <<client, relays>> /\ UNCHANGED <<building, active, dialing, circ>>
    BY <1>2 DEF onIntroEstablished, Running
  <2>2. Flows
    BY <1>0, <2>1, TakeFlows
  <2> QED BY <1>0, <2>1, <2>2, ServiceKeeps DEF TypeOK
<1>3. CASE serviceStops
  <2>1. /\ svc' = "down" /\ building' = {} /\ active' = {} /\ dialing' = {}
        /\ UNCHANGED <<client, relays>> /\ UNCHANGED <<circ, net>>
    BY <1>3 DEF serviceStops
  <2>2. Flows
    BY <1>0, <2>1, QuietFlows
  <2> QED BY <1>0, <2>1, <2>2, ServiceKeeps DEF TypeOK
<1> QED BY <1>1, <1>2, <1>3

LEMMA IntroducedKeeps ==
    ASSUME IInv, handleIntroduce2
    PROVE  IInv'
<1>0. TypeOK /\ NetSound /\ si \in Circuits
  BY CircuitsDiffer DEF IInv
<1>1. /\ Arrives(si, "back", "INTRODUCE2") /\ net' = Taken(si, "back")
      /\ building' = building \cup {Head(net[si].back).hs}
      /\ UNCHANGED <<client, relays>> /\ UNCHANGED <<svc, active, dialing, circ>>
  BY DEF handleIntroduce2
<1>2. Head(net[si].back).hs \in Clients
  <2>1. /\ CellOK(si, "back", Head(net[si]["back"]))
        /\ Head(net[si]["back"]).cmd = "INTRODUCE2"
    BY <1>0, <1>1, TakenAdds
  <2> QED BY <2>1 DEF CellOK
<1>3. Flows
  BY <1>0, <1>1, TakeFlows
<1> QED BY <1>0, <1>1, <1>2, <1>3, ServiceKeeps DEF TypeOK

\* RENDEZVOUS1 leaves with the rendezvous on record; streams change neither.
LEMMA RendezvousKeeps ==
    ASSUME IInv, NEW x \in Clients,
           \/ beginRendezvous(x) \/ beginRendezvousFails(x)
           \/ handleRendezvousCircuitData(x) \/ localSocket(x)
    PROVE  IInv'
<1>0. TypeOK /\ NetSound /\ sr(x) \in Circuits
  BY CircuitsDiffer DEF IInv
<1>1. CASE beginRendezvous(x)
  <2>1. Msg("RENDEZVOUS1", x, 0) \in Cells /\ Msg("RENDEZVOUS1", x, 0).hs = x
    BY DEF Msg, Cells, Commands
  <2>2. /\ Built(sr(x), Msg("RENDEZVOUS1", x, 0))
        /\ building' = building \ {x} /\ active' = active \cup {x}
        /\ UNCHANGED <<client, relays>> /\ UNCHANGED <<svc, dialing>>
    BY <1>1 DEF beginRendezvous
  <2>3. CellOK(sr(x), "out", Msg("RENDEZVOUS1", x, 0))'
    BY <2>1, <2>2, CircuitsDiffer DEF CellOK, Served
  <2>4. Flows /\ circ' \in [Circuits -> {"none", "up", "dead"}]
    BY <1>0, <2>1, <2>2, <2>3, BuiltFlows
  <2> QED BY <1>0, <2>2, <2>4, ServiceKeeps DEF TypeOK
<1>2. CASE beginRendezvousFails(x)
  <2>1. /\ building' = building \ {x}
        /\ UNCHANGED <<client, relays>> /\ UNCHANGED <<svc, active, dialing, circ, net>>
    BY <1>2 DEF beginRendezvousFails
  <2>2. Flows
    BY <1>0, <2>1, QuietFlows
  <2> QED BY <1>0, <2>1, <2>2, ServiceKeeps DEF TypeOK
<1>3. CASE handleRendezvousCircuitData(x)
  <2>1. /\ Arrives(sr(x), "back", "BEGIN") /\ net' = Taken(sr(x), "back")
        /\ dialing' = dialing \/ (x \in active /\ dialing' = dialing \cup {x})
        /\ UNCHANGED <<client, relays>> /\ UNCHANGED <<svc, building, active, circ>>
    BY <1>3 DEF handleRendezvousCircuitData
  <2>2. Flows
    BY <1>0, <2>1, TakeFlows
  <2> QED BY <1>0, <2>1, <2>2, ServiceKeeps DEF TypeOK
<1>4. CASE localSocket(x)
  <2>1. Msg("REPLY", x, 0) \in Cells /\ Msg("REPLY", x, 0).hs = x /\ Msg("REPLY", x, 0).cmd = "REPLY"
    BY DEF Msg, Cells, Commands
  <2>2. /\ dialing' = dialing \ {x} /\ net' = Put(net, sr(x), "out", Msg("REPLY", x, 0))
        /\ UNCHANGED <<client, relays>> /\ UNCHANGED <<svc, building, active, circ>>
    BY <1>4 DEF localSocket
  <2>3. CellOK(sr(x), "out", Msg("REPLY", x, 0))'
    BY <2>1, CircuitsDiffer DEF CellOK
  <2>4. Flows
    BY <1>0, <2>1, <2>2, <2>3, PutFlows
  <2> QED BY <1>0, <2>2, <2>4, ServiceKeeps DEF TypeOK
<1> QED BY <1>1, <1>2, <1>3, <1>4

-----------------------------------------------------------------------------
(* The theorem                                                             *)

LEMMA InitKeeps == Init => IInv
<1> SUFFICES ASSUME Init PROVE IInv
  OBVIOUS
<1>1. TypeOK
  BY RendezvousBounds DEF Init, TypeOK
<1>2. NetSound
  BY DEF Init, NetSound, Nets, Queued
<1>3. RelaysSound
  BY CircuitsDiffer DEF Init, RelaysSound
<1>4. CallsSound
  BY DEF Init, CallsSound
<1> QED BY <1>1, <1>2, <1>3, <1>4 DEF IInv

LEMMA NextKeeps == IInv /\ [Next]_vars => IInv'
<1> SUFFICES ASSUME IInv, [Next]_vars PROVE IInv'
  OBVIOUS
<1>1. CASE RelayStep
  BY <1>1, IntroKeeps, IntroduceKeeps, EstablishKeeps, JoinKeeps, SpliceKeeps DEF RelayStep
<1>2. CASE ServiceStep
  BY <1>2, HostKeeps, IntroducedKeeps, RendezvousKeeps DEF ServiceStep
<1>3. CASE startBuilt \/ serviceStops
  BY <1>3, HostKeeps
<1>4. ASSUME NEW x \in Clients,
             openHiddenService(x) \/ openStream(x) \/ ClientStep(x) \/ BuildSettles(x) \/ waitTimeout(x)
      PROVE  IInv'
  BY <1>4, CallKeeps, ClientStepKeeps
<1>5. ASSUME NEW c \in Circuits, circuitDies(c) PROVE IInv'
  BY <1>5, DiesKeeps
<1>6. CASE UNCHANGED vars
  <2>1. net' = net /\ UNCHANGED <<client, service, relays, circ>>
    BY <1>6 DEF vars
  <2>2. Flows
    BY <2>1, QuietFlows DEF IInv
  <2> QED BY <2>1, <2>2, ForwardKeeps
<1> QED BY <1>1, <1>2, <1>3, <1>4, <1>5, <1>6 DEF Next

\* However circuits die and cells are delayed, and for any number of clients:
\* whoever is told that his connection is open is spliced with the circuit
\* the service built for him, and no cell of one rendezvous travels on the
\* circuits of another (the cookies and splices of rp_role.mjs).
THEOREM RendezvousAlwaysSound == Spec => []RendezvousSound
<1>1. IInv => RendezvousSound
  <2> SUFFICES ASSUME IInv PROVE RendezvousSound
    OBVIOUS
  <2>1. TypeOK /\ NetSound /\ CallsSound
    BY DEF IInv
  <2>2. OpenIsEndToEnd
    BY <2>1 DEF CallsSound, OpenIsEndToEnd, Together, Served
  <2>3. ASSUME NEW x \in Clients, NEW c \in {rp(x), sr(x)}, NEW d \in {"out", "back"},
               NEW k \in DOMAIN net[c][d]
        PROVE  net[c][d][k].hs = x
    <3>1. c \in Circuits
      BY CircuitsDiffer
    <3>2. net[c][d] \in Seq(Cells)
      BY <2>1, <3>1 DEF NetSound, Nets
    <3>3. net[c][d][k] \in Queued(net[c][d])
      BY <3>2 DEF Queued
    <3>4. CellOK(c, d, net[c][d][k])
      BY <2>1, <3>1, <3>3 DEF NetSound
    <3> QED BY <3>4 DEF CellOK
  <2>4. RendezvousIsolated
    BY <2>1, <2>3 DEF RendezvousIsolated, CallsSound
  <2> QED BY <2>1, <2>2, <2>4 DEF RendezvousSound
<1> QED BY <1>1, InitKeeps, NextKeeps, PTL DEF Spec

-----------------------------------------------------------------------------
(* The connections                                                         *)

Attempt == [state : {"opening", "open", "failed", "closed"}, alive : BOOLEAN]

CacheTypes ==
    /\ program \in {"gui", "tui", "proxy"}
    /\ indexed \in BOOLEAN /\ (program # "gui" => indexed)
    /\ issued \in 0..MaxFetches
    /\ conns \in Seq(Attempt) /\ Len(conns) <= MaxAttempts
    /\ NavigationTypeOK

Opening(a) == conns[a].state = "opening"

\* Where the attempt of a fetch is.
FetchPlaced(f) ==
    /\ f > issued => pc[f] = "idle"
    /\ pc[f] \in {"idle", "lookup"} => over[f] = NoAttempt
    /\ pc[f] = "lookup" => ~indexed
    /\ pc[f] = "waiting" => over[f] \in DOMAIN conns /\ Opening(over[f])
    /\ pc[f] \in {"stream", "fetch"} => over[f] \in DOMAIN conns /\ ~Opening(over[f])

\* What the bridge failed over can not be cached any more, ...
FailedBehind ==
    \A f \in Fetches : pc[f] = "failed" /\ over[f] # NoAttempt =>
        over[f] \in DOMAIN conns /\ ~Opening(over[f]) /\ over[f] # cached

\* ... an attempt under way has somebody waiting for it, ...
Awaited ==
    \A a \in DOMAIN conns : Opening(a) => \E f \in Fetches : pc[f] = "waiting" /\ over[f] = a

\* ... and as long as nothing failed there is one attempt.
Unfailed == \A f \in Fetches : pc[f] # "failed"
Kept(a) == a = cached \/ a = inFlight
OneAttempt == Len(conns) <= 1 /\ \A a \in DOMAIN conns : Kept(a)

\* The proxy forgets an attempt only when it failed.
ProxyKeeps ==
    /\ \A a \in DOMAIN conns : conns[a].state # "failed" => Kept(a)
    /\ cached = NoAttempt \/ inFlight = NoAttempt

CacheInv ==
    /\ CacheTypes
    /\ \A f \in Fetches : FetchPlaced(f)
    /\ program = "gui" => FailedBehind /\ Awaited
    /\ program = "gui" /\ indexed /\ Unfailed => OneAttempt
    /\ program = "proxy" => ProxyKeeps

-----------------------------------------------------------------------------
(* The page                                                                *)

PageTypes ==
    /\ {history, future, current} \subseteq Seq(Urls)
    /\ Len(current) <= 1
    /\ current = <<>> => history = <<>> /\ future = <<>>
    /\ wanted \in [Fetches -> Seq(Urls)]
    /\ overlapped \in BOOLEAN

\* Until moves overlap, one fetch at most is pending, for the current URL.
ScreenFollows ==
    Browser /\ ~overlapped =>
        /\ \A f, g \in Pending : f = g
        /\ \A f \in Pending : wanted[f] = current
        /\ Pending = {} => shown = current

NavigationInv == CacheInv /\ PageTypes /\ ScreenFollows

-----------------------------------------------------------------------------
(* Steps of the connections                                                *)

Stage == {"idle", "lookup", "waiting", "stream", "fetch", "stranded"} \cup Finished

LEMMA CacheFacts ==
    ASSUME CacheInv
    PROVE  /\ pc \in [Fetches -> Stage] /\ over \in [Fetches -> 0..MaxAttempts]
           /\ conns \in Seq(Attempt) /\ Len(conns) \in Nat /\ Len(conns) <= MaxAttempts
           /\ DOMAIN conns = 1..Len(conns)
           /\ \A a \in DOMAIN conns : conns[a] \in Attempt
           /\ MaxFetches \in Nat /\ MaxAttempts \in Nat /\ issued \in 0..MaxFetches
           /\ cached \in 0..Len(conns) /\ inFlight \in 0..Len(conns)
           /\ inFlight # NoAttempt => inFlight \in DOMAIN conns /\ Opening(inFlight)
           /\ cached # NoAttempt => cached \in DOMAIN conns /\ conns[cached].state = "open"
<1>1. CacheTypes /\ NavigationTypeOK
  BY DEF CacheInv, CacheTypes
<1>2. conns \in Seq(Attempt) /\ Len(conns) \in Nat /\ DOMAIN conns = 1..Len(conns)
  BY <1>1 DEF CacheTypes
<1>3. \A a \in DOMAIN conns : conns[a] \in Attempt
  BY <1>2
<1> QED BY <1>1, <1>2, <1>3, CacheBounds DEF CacheTypes, NavigationTypeOK, Stage, Opening, NoAttempt

\* Some fetches fail: at once, or with the attempt they wait for.
LEMMA FailKeeps ==
    ASSUME CacheInv, NEW Fs \in SUBSET Fetches, NEW cs \in Seq(Attempt), NEW flight \in {inFlight, NoAttempt},
           Len(cs) = Len(conns),
           \A a \in DOMAIN conns :
              \/ cs[a] = conns[a]
              \/ Opening(a) /\ cs[a].state = "failed" /\ a # flight
                 /\ \A f \in Fetches : pc[f] = "waiting" /\ over[f] = a => f \in Fs,
           \A f \in Fs : pc[f] \in {"lookup", "waiting", "stream", "fetch"},
           \A f \in Fs : pc[f] = "waiting" => cs[over[f]].state # "opening",
           program = "gui" => Fs # {},
           program = "proxy" => \A a \in DOMAIN conns : cs[a].state = "failed" \/ a = cached \/ a = flight,
           Fail(Fs, cs, flight), UNCHANGED <<program, indexed, issued, over>>
    PROVE  CacheInv'
<1>0. /\ pc \in [Fetches -> Stage] /\ over \in [Fetches -> 0..MaxAttempts]
      /\ conns \in Seq(Attempt) /\ Len(conns) \in Nat /\ Len(conns) <= MaxAttempts
      /\ DOMAIN conns = 1..Len(conns) /\ DOMAIN cs = DOMAIN conns
      /\ MaxFetches \in Nat /\ MaxAttempts \in Nat /\ issued \in 0..MaxFetches
      /\ cached \in 0..Len(conns) /\ inFlight \in 0..Len(conns)
      /\ inFlight # NoAttempt => inFlight \in DOMAIN conns /\ Opening(inFlight)
      /\ cached # NoAttempt => cached \in DOMAIN conns /\ conns[cached].state = "open"
  BY CacheFacts
<1>1. \A f \in Fetches : FetchPlaced(f)
  BY DEF CacheInv
<1>2. \A a \in DOMAIN conns : cs[a] \in Attempt
  BY <1>0
<1>3. \A f \in Fs : f <= issued
  <2> SUFFICES ASSUME NEW f \in Fs, ~(f <= issued) PROVE FALSE
    OBVIOUS
  <2>1. pc[f] # "idle"
    OBVIOUS
  <2>2. f > issued
    BY <1>0 DEF Fetches
  <2> QED BY <1>1, <2>1, <2>2 DEF FetchPlaced
\* Either way: what happens to the attempts and to the fetches.
<1>4. /\ conns' \in Seq(Attempt) /\ Len(conns') = Len(conns) /\ DOMAIN conns' = DOMAIN conns
      /\ \A a \in DOMAIN conns : conns'[a].state = "opening" => Opening(a)
      /\ \A a \in DOMAIN conns : conns'[a].state = "opening" <=> cs[a].state = "opening"
  <2>1. CASE program = "gui" /\ Fs # {} /\ cached # NoAttempt
    <3>1. conns' = [cs EXCEPT ![cached].state = "closed"]
      BY <2>1 DEF Fail, evict
    <3>2. cs[cached] = conns[cached] /\ cs[cached] \in Attempt
      BY <1>0, <1>2, <2>1 DEF Opening
    <3>3. [cs[cached] EXCEPT !.state = "closed"] \in Attempt
      BY <3>2 DEF Attempt
    <3>4. /\ conns' \in Seq(Attempt) /\ Len(conns') = Len(cs)
          /\ \A a \in DOMAIN conns : conns'[a] = IF a = cached THEN [cs[cached] EXCEPT !.state = "closed"] ELSE cs[a]
      BY <1>0, <2>1, <3>1, <3>3
    <3>5. [cs[cached] EXCEPT !.state = "closed"].state = "closed" /\ cs[cached].state = "open"
      BY <1>0, <2>1, <3>2 DEF Attempt
    <3>6. DOMAIN conns' = DOMAIN conns
      BY <1>0, <3>4
    <3> QED BY <1>0, <3>4, <3>5, <3>6 DEF Opening
  <2>2. CASE ~(program = "gui" /\ Fs # {} /\ cached # NoAttempt)
    <3>1. conns' = cs
      BY <2>2 DEF Fail, evict
    <3> QED BY <1>0, <3>1 DEF Opening
  <2> QED BY <2>1, <2>2
<1>5. /\ pc' \in [Fetches -> Stage]
      /\ \A f \in Fetches : f \in Fs => pc'[f] = "failed"
      /\ \A f \in Fetches : f \notin Fs =>
            \/ pc'[f] = pc[f]
            \/ pc[f] = "fetch" /\ pc'[f] = "failed" /\ program = "gui" /\ cached # NoAttempt
            \/ pc[f] = "stream" /\ pc'[f] = "stranded"
  BY <1>0 DEF Fail, evict, Stage, Finished
<1>6. /\ cached' = cached \/ cached' = NoAttempt
      /\ inFlight' = flight \/ inFlight' = NoAttempt
      /\ program = "gui" => cached' = NoAttempt /\ inFlight' = NoAttempt
      /\ program # "gui" => cached' = cached /\ inFlight' = flight /\ conns' = cs
  BY DEF Fail, evict
<1>7. /\ inFlight' \in 0..Len(conns) /\ cached' \in 0..Len(conns)
      /\ inFlight' # NoAttempt => conns'[inFlight'].state = "opening"
      /\ cached' # NoAttempt => conns'[cached'].state = "open"
  <2>1. inFlight' \in 0..Len(conns) /\ cached' \in 0..Len(conns)
    BY <1>0, <1>6 DEF NoAttempt
  <2>2. inFlight' # NoAttempt => conns'[inFlight'].state = "opening"
    BY <1>0, <1>6 DEF Opening
  <2>3. cached' # NoAttempt => conns'[cached'].state = "open"
    BY <1>0, <1>6 DEF Opening
  <2> QED BY <2>1, <2>2, <2>3
<1>8. CacheTypes'
  <2>1. \A a \in DOMAIN conns' : conns'[a].state \in {"opening", "open", "failed", "closed"}
    <3>1. \A a \in DOMAIN conns' : conns'[a] \in Attempt
      BY <1>0, <1>4
    <3> QED BY <3>1 DEF Attempt
  <2>2. CacheTypes
    BY DEF CacheInv
  <2> QED BY <1>0, <1>4, <1>5, <1>7, <2>1, <2>2 DEF CacheTypes, NavigationTypeOK, Stage
<1>9. ASSUME NEW f \in Fetches PROVE FetchPlaced(f)'
  <2>1. FetchPlaced(f)
    BY <1>1
  <2>2. f \notin Fs /\ pc[f] = "waiting" => cs[over[f]] = conns[over[f]]
    BY <1>0, <2>1 DEF FetchPlaced
  <2>3. pc'[f] = "waiting" => over[f] \in DOMAIN conns' /\ conns'[over[f]].state = "opening"
    BY <1>4, <1>5, <2>1, <2>2 DEF FetchPlaced, Opening
  <2>4. pc'[f] \in {"stream", "fetch"} => over[f] \in DOMAIN conns' /\ conns'[over[f]].state # "opening"
    BY <1>4, <1>5, <2>1 DEF FetchPlaced, Opening
  <2>5. f > issued => pc'[f] = "idle"
    <3>1. f > issued => f \notin Fs
      BY <1>0, <1>3 DEF Fetches
    <3> QED BY <1>5, <2>1, <3>1 DEF FetchPlaced
  <2>6. pc'[f] \in {"idle", "lookup"} => pc'[f] = pc[f]
    BY <1>5
  <2> QED BY <2>1, <2>3, <2>4, <2>5, <2>6 DEF FetchPlaced, Opening
<1>10. program = "gui" => FailedBehind' /\ Awaited'
  <2> SUFFICES ASSUME program = "gui" PROVE FailedBehind' /\ Awaited'
    OBVIOUS
  <2>1. FailedBehind /\ Awaited
    BY DEF CacheInv
  <2>2. ASSUME NEW f \in Fetches, pc'[f] = "failed", over[f] # NoAttempt
        PROVE  over[f] \in DOMAIN conns' /\ conns'[over[f]].state # "opening" /\ over[f] # cached'
    <3>1. FetchPlaced(f)
      BY <1>1
    <3>2. over[f] # cached'
      BY <1>6, <2>2
    <3>3. CASE f \in Fs
      BY <1>4, <2>2, <3>1, <3>2, <3>3 DEF FetchPlaced, Opening
    <3>4. CASE f \notin Fs
      BY <1>4, <1>5, <2>1, <2>2, <3>1, <3>2, <3>4 DEF FetchPlaced, FailedBehind, Opening
    <3> QED BY <3>3, <3>4
  <2>3. ASSUME NEW a \in DOMAIN conns', conns'[a].state = "opening"
        PROVE  \E f \in Fetches : pc'[f] = "waiting" /\ over[f] = a
    <3>1. a \in DOMAIN conns /\ Opening(a) /\ cs[a].state = "opening"
      BY <1>4, <2>3
    <3>2. PICK f \in Fetches : pc[f] = "waiting" /\ over[f] = a
      BY <2>1, <3>1 DEF Awaited
    <3>3. f \notin Fs
      BY <3>1, <3>2
    <3> QED BY <1>5, <3>2, <3>3
  <2> QED BY <2>2, <2>3 DEF FailedBehind, Awaited, Opening
<1>11. program = "gui" => ~Unfailed'
  BY <1>5 DEF Unfailed
<1>12. program = "proxy" => ProxyKeeps'
  <2>1. program = "proxy" => ProxyKeeps
    BY DEF CacheInv
  <2>2. program = "proxy" => cached = NoAttempt \/ flight = NoAttempt
    BY <2>1 DEF ProxyKeeps
  <2> QED BY <1>0, <1>4, <1>6, <2>2 DEF ProxyKeeps, Kept
<1> QED BY <1>8, <1>9, <1>10, <1>11, <1>12 DEF CacheInv

\* f waits for the attempt a that somebody else began, or for a new one.
LEMMA OpenKeeps ==
    ASSUME CacheInv, NEW f \in Fetches, pc[f] \in {"idle", "lookup"},
           (cached = NoAttempt /\ inFlight = NoAttempt) \/ (program = "gui" /\ ~indexed),
           issued' \in {issued, f}, issued' \in 0..MaxFetches, f <= issued', issued <= issued',
           \A g \in Fetches : g > issued' => g > issued,
           newAttempt(f), UNCHANGED <<program, indexed>>
    PROVE  CacheInv'
<1> DEFINE a == Len(conns) + 1
           new == [state |-> "opening", alive |-> TRUE]
<1>0. /\ pc \in [Fetches -> Stage] /\ over \in [Fetches -> 0..MaxAttempts]
      /\ conns \in Seq(Attempt) /\ Len(conns) \in Nat /\ Len(conns) <= MaxAttempts
      /\ DOMAIN conns = 1..Len(conns)
      /\ MaxFetches \in Nat /\ MaxAttempts \in Nat /\ issued \in 0..MaxFetches
      /\ cached \in 0..Len(conns) /\ inFlight \in 0..Len(conns)
      /\ inFlight # NoAttempt => inFlight \in DOMAIN conns /\ Opening(inFlight)
      /\ cached # NoAttempt => cached \in DOMAIN conns /\ conns[cached].state = "open"
  BY CacheFacts
<1>1. /\ a <= MaxAttempts /\ conns' = Append(conns, new)
      /\ pc' = [pc EXCEPT ![f] = "waiting"] /\ over' = [over EXCEPT ![f] = a]
      /\ inFlight' = IF program = "tui" THEN NoAttempt ELSE a
      /\ cached' = cached
  BY DEF newAttempt
<1>2. /\ a \in Nat \ {0} /\ a \notin DOMAIN conns
  BY <1>0
<1>3. new \in Attempt
  BY DEF Attempt
<1>4. /\ conns' \in Seq(Attempt) /\ Len(conns') = a /\ DOMAIN conns' = DOMAIN conns \cup {a}
      /\ \A b \in DOMAIN conns : conns'[b] = conns[b]
      /\ conns'[a].state = "opening"
  <2> HIDE DEF new
  <2>1. /\ conns' \in Seq(Attempt) /\ Len(conns') = a /\ DOMAIN conns' = DOMAIN conns \cup {a}
        /\ \A b \in DOMAIN conns : conns'[b] = conns[b]
        /\ conns'[a] = new
    BY <1>0, <1>1, <1>3
  <2> QED BY <2>1 DEF new
<1> HIDE DEF a
<1>5. /\ pc' \in [Fetches -> Stage] /\ over' \in [Fetches -> 0..MaxAttempts]
      /\ pc'[f] = "waiting" /\ over'[f] = a
      /\ \A g \in Fetches : g # f => pc'[g] = pc[g] /\ over'[g] = over[g]
  BY <1>0, <1>1, <1>2 DEF Stage
<1>6. CacheTypes'
  <2>1. CacheTypes
    BY DEF CacheInv
  <2>2. cached' \in 0..Len(conns') /\ inFlight' \in 0..Len(conns')
    BY <1>0, <1>1, <1>2, <1>4 DEF a, NoAttempt
  <2>3. inFlight' # NoAttempt => conns'[inFlight'].state = "opening"
    BY <1>1, <1>4
  <2>4. cached' # NoAttempt => conns'[cached'].state = "open"
    BY <1>0, <1>1, <1>4
  <2>5. \A b \in DOMAIN conns' : conns'[b].state \in {"opening", "open", "failed", "closed"}
    <3>1. \A b \in DOMAIN conns : conns[b] \in Attempt
      BY CacheFacts
    <3>2. \A b \in DOMAIN conns : conns'[b].state \in {"opening", "open", "failed", "closed"}
      BY <1>4, <3>1 DEF Attempt
    <3> QED BY <1>4, <3>2
  <2> QED BY <1>1, <1>4, <1>5, <2>1, <2>2, <2>3, <2>4, <2>5 DEF CacheTypes, NavigationTypeOK, Stage
<1>7. ASSUME NEW g \in Fetches PROVE FetchPlaced(g)'
  <2>1. FetchPlaced(g)
    BY DEF CacheInv
  <2>2. CASE g = f
    <3>1. ~(f > issued')
      BY <1>0 DEF Fetches
    <3> QED BY <1>4, <1>5, <2>2, <3>1 DEF FetchPlaced, Opening
  <2>3. CASE g # f
    <3>1. g > issued' => g > issued
      OBVIOUS
    <3> QED BY <1>4, <1>5, <2>1, <2>3, <3>1 DEF FetchPlaced, Opening
  <2> QED BY <2>2, <2>3
<1>8. program = "gui" => FailedBehind' /\ Awaited'
  <2> SUFFICES ASSUME program = "gui" PROVE FailedBehind' /\ Awaited'
    OBVIOUS
  <2>1. FailedBehind /\ Awaited
    BY DEF CacheInv
  <2>2. FailedBehind'
    BY <1>1, <1>4, <1>5, <2>1 DEF FailedBehind, Opening
  <2>3. ASSUME NEW b \in DOMAIN conns', conns'[b].state = "opening"
        PROVE  \E g \in Fetches : pc'[g] = "waiting" /\ over'[g] = b
    <3>1. CASE b = a
      BY <1>5, <3>1
    <3>2. CASE b \in DOMAIN conns
      <4>1. PICK g \in Fetches : pc[g] = "waiting" /\ over[g] = b
        BY <1>4, <2>1, <2>3, <3>2 DEF Awaited, Opening
      <4>2. g # f
        BY <4>1
      <4> QED BY <1>5, <4>1, <4>2
    <3> QED BY <1>4, <3>1, <3>2
  <2> QED BY <2>2, <2>3 DEF Awaited, Opening
<1>9. program = "gui" /\ indexed /\ Unfailed' => OneAttempt'
  <2> SUFFICES ASSUME program = "gui", indexed, Unfailed' PROVE OneAttempt'
    OBVIOUS
  <2>1. Unfailed
    BY <1>5 DEF Unfailed
  <2>2. OneAttempt /\ cached = NoAttempt /\ inFlight = NoAttempt
    BY <2>1 DEF CacheInv
  <2>3. Len(conns) = 0
    BY <1>0, <2>2 DEF OneAttempt, Kept, NoAttempt
  <2> QED BY <1>0, <1>1, <1>4, <2>3 DEF OneAttempt, Kept, a
<1>10. program = "proxy" => ProxyKeeps'
  <2>1. program = "proxy" => ProxyKeeps /\ cached = NoAttempt /\ inFlight = NoAttempt
    BY DEF CacheInv
  <2> QED BY <1>0, <1>1, <1>4, <2>1 DEF ProxyKeeps, Kept, NoAttempt
<1> QED BY <1>6, <1>7, <1>8, <1>9, <1>10 DEF CacheInv

\* A fetch starts over what there is.
LEMMA StartKeeps ==
    ASSUME CacheInv, NEW f \in Fetches, startFetch(f)
    PROVE  CacheInv'
<1>0. /\ pc \in [Fetches -> Stage] /\ over \in [Fetches -> 0..MaxAttempts]
      /\ conns \in Seq(Attempt) /\ Len(conns) \in Nat /\ Len(conns) <= MaxAttempts
      /\ DOMAIN conns = 1..Len(conns)
      /\ MaxFetches \in Nat /\ MaxAttempts \in Nat /\ issued \in 0..MaxFetches
      /\ cached \in 0..Len(conns) /\ inFlight \in 0..Len(conns)
      /\ inFlight # NoAttempt => inFlight \in DOMAIN conns /\ Opening(inFlight)
      /\ cached # NoAttempt => cached \in DOMAIN conns /\ conns[cached].state = "open"
  BY CacheFacts
<1>1. f = issued + 1 /\ issued' = f /\ ensureConn(f) /\ UNCHANGED <<program, indexed>>
  BY DEF startFetch
<1>2. /\ issued' \in 0..MaxFetches /\ f <= issued' /\ issued <= issued' /\ ~(f > issued')
      /\ \A g \in Fetches : g > issued' => g > issued
  BY <1>0, <1>1 DEF Fetches
<1>3. pc[f] = "idle" /\ over[f] = NoAttempt
  <2>1. f > issued /\ FetchPlaced(f)
    BY <1>0, <1>1 DEF CacheInv
  <2> QED BY <2>1 DEF FetchPlaced
\* Nothing but the fetch changes.
<1>4. ASSUME NEW stage \in {"stream", "waiting", "lookup"}, NEW a \in {cached, inFlight, NoAttempt},
             pc' = [pc EXCEPT ![f] = stage], over' = [over EXCEPT ![f] = a],
             UNCHANGED <<conns, cached, inFlight>>,
             stage = "stream" => a = cached /\ cached # NoAttempt,
             stage = "waiting" => a = inFlight /\ inFlight # NoAttempt,
             stage = "lookup" => a = NoAttempt /\ ~indexed
      PROVE  CacheInv'
  <2>1. /\ pc' \in [Fetches -> Stage] /\ over' \in [Fetches -> 0..MaxAttempts]
        /\ pc'[f] = stage /\ over'[f] = a
        /\ \A g \in Fetches : g # f => pc'[g] = pc[g] /\ over'[g] = over[g]
    BY <1>0, <1>4 DEF Stage, NoAttempt
  <2>2. CacheTypes'
    <3>1. CacheTypes
      BY DEF CacheInv
    <3> QED BY <1>1, <1>2, <1>4, <2>1, <3>1 DEF CacheTypes, NavigationTypeOK, Stage
  <2>3. ASSUME NEW g \in Fetches PROVE FetchPlaced(g)'
    <3>1. FetchPlaced(g)
      BY DEF CacheInv
    <3>2. CASE g = f
      BY <1>0, <1>1, <1>2, <1>4, <2>1, <3>2 DEF FetchPlaced, Opening
    <3>3. CASE g # f
      BY <1>1, <1>2, <1>4, <2>1, <3>1, <3>3 DEF FetchPlaced, Opening
    <3> QED BY <3>2, <3>3
  <2>4. program = "gui" => FailedBehind' /\ Awaited'
    <3> SUFFICES ASSUME program = "gui" PROVE FailedBehind' /\ Awaited'
      OBVIOUS
    <3>1. FailedBehind /\ Awaited
      BY DEF CacheInv
    <3>2. FailedBehind'
      BY <1>4, <2>1, <3>1 DEF FailedBehind, Opening
    <3>3. Awaited'
      BY <1>3, <1>4, <2>1, <3>1 DEF Awaited, Opening
    <3> QED BY <3>2, <3>3
  <2>5. Unfailed' => Unfailed
    BY <1>3, <2>1 DEF Unfailed
  <2>6. OneAttempt => OneAttempt'
    BY <1>4 DEF OneAttempt, Kept
  <2>7. ProxyKeeps => ProxyKeeps'
    BY <1>4 DEF ProxyKeeps, Kept
  <2> QED BY <1>1, <2>2, <2>3, <2>4, <2>5, <2>6, <2>7 DEF CacheInv
<1>5. CASE cached # NoAttempt
  <2>1. /\ pc' = [pc EXCEPT ![f] = "stream"] /\ over' = [over EXCEPT ![f] = cached]
        /\ UNCHANGED <<conns, cached, inFlight>>
    BY <1>1, <1>5 DEF ensureConn
  <2> QED BY <1>4, <1>5, <2>1
<1>6. CASE cached = NoAttempt /\ inFlight # NoAttempt
  <2>1. /\ pc' = [pc EXCEPT ![f] = "waiting"] /\ over' = [over EXCEPT ![f] = inFlight]
        /\ UNCHANGED <<conns, cached, inFlight>>
    BY <1>1, <1>6 DEF ensureConn
  <2> QED BY <1>4, <1>6, <2>1
<1>7. CASE cached = NoAttempt /\ inFlight = NoAttempt /\ ~indexed
  <2>1. /\ pc' = [pc EXCEPT ![f] = "lookup"] /\ UNCHANGED over
        /\ UNCHANGED <<conns, cached, inFlight>>
    BY <1>1, <1>7 DEF ensureConn
  <2>2. over' = [over EXCEPT ![f] = NoAttempt]
    BY <1>0, <1>3, <2>1
  <2> QED BY <1>4, <1>7, <2>1, <2>2
<1>8. CASE cached = NoAttempt /\ inFlight = NoAttempt /\ indexed
  <2>1. newAttempt(f)
    BY <1>1, <1>8 DEF ensureConn
  <2>2. /\ pc[f] \in {"idle", "lookup"} /\ issued' \in {issued, f}
        /\ UNCHANGED <<program, indexed>>
    BY <1>1, <1>3
  <2>3. issued' \in 0..MaxFetches /\ f <= issued' /\ issued <= issued'
    BY <1>2
  <2>4. \A g \in Fetches : g > issued' => g > issued
    BY <1>2
  <2> QED BY <1>8, <2>1, <2>2, <2>3, <2>4, OpenKeeps
<1> QED BY <1>5, <1>6, <1>7, <1>8

\* A fetch moves on over its connection, or the local side of it closes.
LEMMA MoveKeeps ==
    ASSUME CacheInv, NEW f \in Fetches, pc[f] \in {"waiting", "stream", "fetch"},
           NEW stage \in {"fetch", "stranded", "ok", "failed"}, NEW a \in {over[f], NoAttempt},
           stage = "fetch" => pc[f] = "stream" /\ a = over[f],
           program # "proxy" => pc[f] # "waiting" /\ stage # "failed",
           pc' = [pc EXCEPT ![f] = stage], over' = [over EXCEPT ![f] = a],
           UNCHANGED <<program, indexed, issued, conns, cached, inFlight>>
    PROVE  CacheInv'
<1>0. /\ pc \in [Fetches -> Stage] /\ over \in [Fetches -> 0..MaxAttempts]
      /\ MaxAttempts \in Nat
  BY CacheFacts
<1>1. /\ pc' \in [Fetches -> Stage] /\ over' \in [Fetches -> 0..MaxAttempts]
      /\ pc'[f] = stage /\ over'[f] = a
      /\ \A g \in Fetches : g # f => pc'[g] = pc[g] /\ over'[g] = over[g]
  BY <1>0 DEF Stage, Finished, NoAttempt
<1>2. CacheTypes'
  <2>1. CacheTypes
    BY DEF CacheInv
  <2> QED BY <1>1, <2>1 DEF CacheTypes, NavigationTypeOK, Stage
<1>3. ASSUME NEW g \in Fetches PROVE FetchPlaced(g)'
  <2>1. FetchPlaced(g)
    BY DEF CacheInv
  <2>2. CASE g = f
    BY <1>1, <2>1, <2>2 DEF FetchPlaced, Opening
  <2>3. CASE g # f
    BY <1>1, <2>1, <2>3 DEF FetchPlaced, Opening
  <2> QED BY <2>2, <2>3
<1>4. program = "gui" => FailedBehind' /\ Awaited'
  <2> SUFFICES ASSUME program = "gui" PROVE FailedBehind' /\ Awaited'
    OBVIOUS
  <2>1. FailedBehind /\ Awaited /\ pc[f] # "waiting" /\ stage # "failed"
    BY DEF CacheInv
  <2>2. FailedBehind'
    BY <1>1, <2>1 DEF FailedBehind, Opening
  <2>3. Awaited'
    BY <1>1, <2>1 DEF Awaited, Opening
  <2> QED BY <2>2, <2>3
<1>5. Unfailed' => Unfailed
  BY <1>1 DEF Unfailed
<1>6. OneAttempt => OneAttempt'
  BY DEF OneAttempt, Kept
<1>7. ProxyKeeps => ProxyKeeps'
  BY DEF ProxyKeeps, Kept
<1> QED BY <1>2, <1>3, <1>4, <1>5, <1>6, <1>7 DEF CacheInv

LEMMA OpenedKeeps ==
    ASSUME CacheInv, NEW a \in DOMAIN conns, opened(a)
    PROVE  CacheInv'
<1>0. /\ pc \in [Fetches -> Stage] /\ over \in [Fetches -> 0..MaxAttempts]
      /\ conns \in Seq(Attempt) /\ Len(conns) \in Nat /\ Len(conns) <= MaxAttempts
      /\ DOMAIN conns = 1..Len(conns)
      /\ cached \in 0..Len(conns) /\ inFlight \in 0..Len(conns)
      /\ cached # NoAttempt => cached \in DOMAIN conns /\ conns[cached].state = "open"
  BY CacheFacts
<1>1. /\ Opening(a)
      /\ conns' = [conns EXCEPT ![a].state = "open"]
      /\ cached' = a /\ inFlight' = NoAttempt
      /\ pc' = [f \in Fetches |-> IF f \in Waiting(a) THEN "stream" ELSE pc[f]]
      /\ UNCHANGED <<program, indexed, issued, over>>
  BY DEF opened, Opening
<1>2. conns[a] \in Attempt /\ [conns[a] EXCEPT !.state = "open"] \in Attempt
  <2>1. conns[a] \in Attempt
    BY CacheFacts
  <2> QED BY <2>1 DEF Attempt
<1>3. /\ conns' \in Seq(Attempt) /\ Len(conns') = Len(conns) /\ DOMAIN conns' = DOMAIN conns
      /\ \A b \in DOMAIN conns : b # a => conns'[b] = conns[b]
      /\ conns'[a].state = "open"
  <2>1. /\ conns' \in Seq(Attempt) /\ Len(conns') = Len(conns) /\ DOMAIN conns' = DOMAIN conns
        /\ \A b \in DOMAIN conns : b # a => conns'[b] = conns[b]
    BY <1>0, <1>1, <1>2
  <2>2. conns'[a] = [conns[a] EXCEPT !.state = "open"]
    BY <1>0, <1>1
  <2>3. [conns[a] EXCEPT !.state = "open"].state = "open"
    BY <1>2 DEF Attempt
  <2> QED BY <2>1, <2>2, <2>3
<1>4. /\ pc' \in [Fetches -> Stage]
      /\ \A f \in Fetches : \/ pc'[f] = pc[f] /\ ~(pc[f] = "waiting" /\ over[f] = a)
                            \/ pc[f] = "waiting" /\ over[f] = a /\ pc'[f] = "stream"
  BY <1>0, <1>1 DEF Stage, Waiting
<1>5. CacheTypes'
  <2>1. CacheTypes
    BY DEF CacheInv
  <2>2. \A b \in DOMAIN conns' : conns'[b].state \in {"opening", "open", "failed", "closed"}
    <3>1. \A b \in DOMAIN conns' : conns'[b] \in Attempt
      BY <1>0, <1>3
    <3> QED BY <3>1 DEF Attempt
  <2>3. cached' \in 0..Len(conns') /\ inFlight' \in 0..Len(conns')
    BY <1>0, <1>1, <1>3 DEF NoAttempt
  <2>4. (inFlight' # NoAttempt => conns'[inFlight'].state = "opening") /\ conns'[cached'].state = "open"
    BY <1>1, <1>3
  <2> QED BY <1>0, <1>1, <1>3, <1>4, <2>1, <2>2, <2>3, <2>4 DEF CacheTypes, NavigationTypeOK, Stage
<1>6. ASSUME NEW f \in Fetches PROVE FetchPlaced(f)'
  <2>1. FetchPlaced(f)
    BY DEF CacheInv
  <2>2. CASE pc'[f] = pc[f] /\ ~(pc[f] = "waiting" /\ over[f] = a)
    BY <1>1, <1>3, <2>1, <2>2 DEF FetchPlaced, Opening
  <2>3. CASE pc[f] = "waiting" /\ over[f] = a /\ pc'[f] = "stream"
    BY <1>1, <1>3, <2>1, <2>3 DEF FetchPlaced, Opening
  <2> QED BY <1>4, <2>2, <2>3
<1>7. program = "gui" => FailedBehind' /\ Awaited'
  <2> SUFFICES ASSUME program = "gui" PROVE FailedBehind' /\ Awaited'
    OBVIOUS
  <2>1. FailedBehind /\ Awaited
    BY DEF CacheInv
  <2>2. FailedBehind'
    <3> SUFFICES ASSUME NEW f \in Fetches, pc'[f] = "failed", over[f] # NoAttempt
                 PROVE  over[f] \in DOMAIN conns' /\ conns'[over[f]].state # "opening" /\ over[f] # a
      BY <1>1 DEF FailedBehind, Opening
    <3>1. pc[f] = "failed"
      BY <1>4
    <3>2. over[f] \in DOMAIN conns /\ ~Opening(over[f])
      BY <2>1, <3>1 DEF FailedBehind
    <3> QED BY <1>1, <1>3, <3>2 DEF Opening
  <2>3. ASSUME NEW b \in DOMAIN conns', conns'[b].state = "opening"
        PROVE  \E f \in Fetches : pc'[f] = "waiting" /\ over[f] = b
    <3>1. b # a /\ b \in DOMAIN conns /\ Opening(b)
      BY <1>3, <2>3 DEF Opening
    <3>2. PICK f \in Fetches : pc[f] = "waiting" /\ over[f] = b
      BY <2>1, <3>1 DEF Awaited
    <3> QED BY <1>4, <3>1, <3>2
  <2> QED BY <1>1, <2>2, <2>3 DEF Awaited, Opening
<1>8. program = "gui" /\ indexed /\ Unfailed' => OneAttempt'
  <2> SUFFICES ASSUME program = "gui", indexed, Unfailed' PROVE OneAttempt'
    OBVIOUS
  <2>1. Unfailed
    BY <1>4 DEF Unfailed
  <2>2. OneAttempt
    BY <2>1 DEF CacheInv
  <2>3. a = 1 /\ DOMAIN conns = {1}
    BY <1>0, <2>2 DEF OneAttempt
  <2> QED BY <1>1, <1>3, <2>2, <2>3 DEF OneAttempt, Kept
<1>9. program = "proxy" => ProxyKeeps'
  <2> SUFFICES ASSUME program = "proxy" PROVE ProxyKeeps'
    OBVIOUS
  <2>1. ProxyKeeps
    BY DEF CacheInv
  <2>2. a = inFlight /\ cached = NoAttempt
    BY <1>0, <1>1, <2>1 DEF ProxyKeeps, Kept, Opening, NoAttempt
  <2> QED BY <1>0, <1>1, <1>3, <2>1, <2>2 DEF ProxyKeeps, Kept, NoAttempt
<1> QED BY <1>1, <1>5, <1>6, <1>7, <1>8, <1>9 DEF CacheInv

LEMMA OpenFailsKeeps ==
    ASSUME CacheInv, NEW a \in DOMAIN conns, openFails(a)
    PROVE  CacheInv'
<1> DEFINE cs == [conns EXCEPT ![a].state = "failed"]
<1>0. /\ conns \in Seq(Attempt) /\ Len(conns) \in Nat /\ DOMAIN conns = 1..Len(conns)
      /\ cached # NoAttempt => cached \in DOMAIN conns /\ conns[cached].state = "open"
  BY CacheFacts
<1>1. Opening(a) /\ Fail(Waiting(a), cs, NoAttempt) /\ UNCHANGED <<program, indexed, issued, over>>
  BY DEF openFails, Opening
<1>2. conns[a] \in Attempt /\ [conns[a] EXCEPT !.state = "failed"] \in Attempt
  <2>1. conns[a] \in Attempt
    BY CacheFacts
  <2> QED BY <2>1 DEF Attempt
<1>3. /\ cs \in Seq(Attempt) /\ Len(cs) = Len(conns)
      /\ \A b \in DOMAIN conns : b # a => cs[b] = conns[b]
      /\ cs[a].state = "failed"
  <2>1. /\ cs \in Seq(Attempt) /\ Len(cs) = Len(conns)
        /\ \A b \in DOMAIN conns : b # a => cs[b] = conns[b]
    BY <1>0, <1>2
  <2>2. cs[a] = [conns[a] EXCEPT !.state = "failed"]
    BY <1>0
  <2>3. [conns[a] EXCEPT !.state = "failed"].state = "failed"
    BY <1>2 DEF Attempt
  <2> QED BY <2>1, <2>2, <2>3
<1> HIDE DEF cs
<1>4. /\ Waiting(a) \in SUBSET Fetches
      /\ \A f \in Waiting(a) : pc[f] = "waiting" /\ over[f] = a
      /\ \A f \in Fetches : pc[f] = "waiting" /\ over[f] = a => f \in Waiting(a)
  BY DEF Waiting
<1>5. program = "gui" => Waiting(a) # {}
  <2>1. program = "gui" => Awaited
    BY DEF CacheInv
  <2> QED BY <1>1, <1>4, <2>1 DEF Awaited
<1>6. \A b \in DOMAIN conns :
         \/ cs[b] = conns[b]
         \/ Opening(b) /\ cs[b].state = "failed" /\ b # NoAttempt
            /\ \A f \in Fetches : pc[f] = "waiting" /\ over[f] = b => f \in Waiting(a)
  BY <1>0, <1>1, <1>3, <1>4 DEF NoAttempt
<1>7. program = "proxy" => \A b \in DOMAIN conns : cs[b].state = "failed" \/ b = cached \/ b = NoAttempt
  <2> SUFFICES ASSUME program = "proxy", NEW b \in DOMAIN conns, b # a, conns[b].state # "failed"
               PROVE  b = cached
    BY <1>3
  <2>1. ProxyKeeps
    BY DEF CacheInv
  <2>2. Kept(a) /\ Kept(b) /\ (cached = NoAttempt \/ inFlight = NoAttempt) /\ a # cached
    BY <1>0, <1>1, <2>1 DEF ProxyKeeps, Opening, NoAttempt
  <2> QED BY <1>0, <2>2 DEF Kept, NoAttempt
<1>8. \A f \in Waiting(a) : /\ pc[f] \in {"lookup", "waiting", "stream", "fetch"}
                            /\ pc[f] = "waiting" => cs[over[f]].state # "opening"
  BY <1>3, <1>4
<1>9. NoAttempt \in {inFlight, NoAttempt}
  OBVIOUS
<1> DEFINE Fs == Waiting(a)
           flight == NoAttempt
<1> HIDE DEF Fs, flight
<1>10. /\ Fs \in SUBSET Fetches /\ flight \in {inFlight, NoAttempt} /\ Fail(Fs, cs, flight)
       /\ \A b \in DOMAIN conns :
             \/ cs[b] = conns[b]
             \/ Opening(b) /\ cs[b].state = "failed" /\ b # flight
                /\ \A f \in Fetches : pc[f] = "waiting" /\ over[f] = b => f \in Fs
       /\ \A f \in Fs : pc[f] \in {"lookup", "waiting", "stream", "fetch"}
       /\ \A f \in Fs : pc[f] = "waiting" => cs[over[f]].state # "opening"
       /\ program = "gui" => Fs # {}
       /\ program = "proxy" => \A b \in DOMAIN conns : cs[b].state = "failed" \/ b = cached \/ b = flight
  BY <1>1, <1>4, <1>5, <1>6, <1>7, <1>8, <1>9 DEF Fs, flight
<1> QED BY <1>1, <1>3, <1>10, FailKeeps

LEMMA FetchFailsKeeps ==
    ASSUME CacheInv, NEW f \in Fetches, pc[f] \in {"lookup", "stream", "fetch"},
           Fail({f}, conns, inFlight), UNCHANGED <<program, indexed, issued, over>>
    PROVE  CacheInv'
<1>1. conns \in Seq(Attempt)
  BY CacheFacts
<1>2. program = "proxy" => \A a \in DOMAIN conns : conns[a].state = "failed" \/ a = cached \/ a = inFlight
  BY DEF CacheInv, ProxyKeeps, Kept
<1> QED BY <1>1, <1>2, FailKeeps

LEMMA LookupKeeps ==
    ASSUME CacheInv, NEW f \in Fetches, lookupEnds(f)
    PROVE  CacheInv'
<1>1. pc[f] = "lookup" /\ UNCHANGED <<program, indexed, issued>>
  BY DEF lookupEnds
<1>2. FetchPlaced(f) /\ CacheTypes
  BY DEF CacheInv
<1>3. program = "gui" /\ ~indexed
  BY <1>1, <1>2 DEF FetchPlaced, CacheTypes
<1>4. f <= issued /\ issued \in 0..MaxFetches
  <2>1. issued \in 0..MaxFetches /\ MaxFetches \in Nat
    BY CacheFacts
  <2>2. ~(f > issued)
    BY <1>1, <1>2 DEF FetchPlaced
  <2> QED BY <2>1, <2>2 DEF Fetches
<1>5. CASE newAttempt(f)
  <2>1. issued' \in {issued, f} /\ issued' \in 0..MaxFetches /\ f <= issued' /\ issued <= issued'
    BY <1>1, <1>4
  <2>2. \A g \in Fetches : g > issued' => g > issued
    BY <1>1
  <2> QED BY <1>1, <1>3, <1>5, <2>1, <2>2, OpenKeeps
<1>6. CASE Fail({f}, conns, inFlight) /\ UNCHANGED over
  BY <1>1, <1>6, FetchFailsKeeps
<1> QED BY <1>5, <1>6 DEF lookupEnds

LEMMA ConnectionDiesKeeps ==
    ASSUME CacheInv, NEW a \in DOMAIN conns, connDies(a)
    PROVE  CacheInv'
<1>0. conns \in Seq(Attempt) /\ Len(conns) \in Nat /\ DOMAIN conns = 1..Len(conns)
  BY CacheFacts
<1>1. /\ conns' = [conns EXCEPT ![a].alive = FALSE]
      /\ UNCHANGED <<program, indexed, issued, pc, over, cached, inFlight>>
  BY DEF connDies, fetchVars
<1>2. /\ [conns[a] EXCEPT !.alive = FALSE] \in Attempt
      /\ [conns[a] EXCEPT !.alive = FALSE].state = conns[a].state
  <2>1. conns[a] \in Attempt
    BY CacheFacts
  <2> QED BY <2>1 DEF Attempt
<1>3. /\ conns' \in Seq(Attempt) /\ Len(conns') = Len(conns) /\ DOMAIN conns' = DOMAIN conns
      /\ \A b \in DOMAIN conns : conns'[b].state = conns[b].state
  <2>1. /\ conns' \in Seq(Attempt) /\ Len(conns') = Len(conns) /\ DOMAIN conns' = DOMAIN conns
        /\ \A b \in DOMAIN conns : b # a => conns'[b] = conns[b]
        /\ conns'[a] = [conns[a] EXCEPT !.alive = FALSE]
    BY <1>0, <1>1, <1>2
  <2> QED BY <1>2, <2>1
<1>4. CacheTypes'
  <2>1. CacheTypes
    BY DEF CacheInv
  <2>2. cached # NoAttempt => cached \in DOMAIN conns
    BY CacheFacts
  <2>3. inFlight # NoAttempt => inFlight \in DOMAIN conns
    BY CacheFacts
  <2> QED BY <1>1, <1>3, <2>1, <2>2, <2>3 DEF CacheTypes, NavigationTypeOK
<1>5. ASSUME NEW f \in Fetches PROVE FetchPlaced(f)'
  <2>1. FetchPlaced(f)
    BY DEF CacheInv
  <2> QED BY <1>1, <1>3, <2>1 DEF FetchPlaced, Opening
<1>6. FailedBehind => FailedBehind'
  BY <1>1, <1>3 DEF FailedBehind, Opening
<1>7. Awaited => Awaited'
  BY <1>1, <1>3 DEF Awaited, Opening
<1>8. (OneAttempt => OneAttempt') /\ (ProxyKeeps => ProxyKeeps') /\ (Unfailed' <=> Unfailed)
  BY <1>1, <1>3 DEF OneAttempt, ProxyKeeps, Kept, Unfailed
<1> QED BY <1>1, <1>4, <1>5, <1>6, <1>7, <1>8 DEF CacheInv

LEMMA CacheStepKeeps ==
    ASSUME CacheInv, CacheStep
    PROVE  CacheInv'
<1>0. /\ pc \in [Fetches -> Stage] /\ over \in [Fetches -> 0..MaxAttempts]
  BY CacheFacts
<1>1. ASSUME NEW f \in Fetches, streamOpens(f)
      PROVE  CacheInv'
  <2>1. PICK stage \in {"fetch", "stranded"} : pc' = [pc EXCEPT ![f] = stage]
    BY <1>1 DEF streamOpens
  <2>2. over' = [over EXCEPT ![f] = over[f]]
    BY <1>0, <1>1 DEF streamOpens
  <2>3. pc[f] = "stream" /\ UNCHANGED <<program, indexed, issued, conns, cached, inFlight>>
    BY <1>1 DEF streamOpens
  <2> QED BY <2>1, <2>2, <2>3, MoveKeeps
<1>2. ASSUME NEW f \in Fetches, fetchSucceeds(f)
      PROVE  CacheInv'
  <2>1. /\ pc[f] = "fetch" /\ pc' = [pc EXCEPT ![f] = "ok"] /\ over' = [over EXCEPT ![f] = NoAttempt]
        /\ UNCHANGED <<program, indexed, issued, conns, cached, inFlight>>
    BY <1>2 DEF fetchSucceeds
  <2> QED BY <2>1, MoveKeeps
<1>3. ASSUME NEW f \in Fetches, localCloses(f)
      PROVE  CacheInv'
  <2>1. over' = [over EXCEPT ![f] = over[f]]
    BY <1>0, <1>3 DEF localCloses
  <2>2. /\ program = "proxy" /\ pc[f] \in {"waiting", "stream", "fetch"}
        /\ pc' = [pc EXCEPT ![f] = "failed"]
        /\ UNCHANGED <<program, indexed, issued, conns, cached, inFlight>>
    BY <1>3 DEF localCloses
  <2> QED BY <2>1, <2>2, MoveKeeps
<1>4. ASSUME NEW f \in Fetches, lookupEnds(f) \/ fetchFails(f)
      PROVE  CacheInv'
  BY <1>4, LookupKeeps, FetchFailsKeeps DEF fetchFails
<1>5. ASSUME NEW a \in DOMAIN conns, opened(a) \/ openFails(a) \/ connDies(a)
      PROVE  CacheInv'
  BY <1>5, OpenedKeeps, OpenFailsKeeps, ConnectionDiesKeeps
<1> QED BY <1>1, <1>2, <1>3, <1>4, <1>5 DEF CacheStep

-----------------------------------------------------------------------------
(* Steps of the page                                                       *)

\* Who starts a fetch is pending, and nobody else changes.
LEMMA StartPending ==
    ASSUME CacheInv, NEW f \in Fetches, startFetch(f)
    PROVE  /\ f \notin Pending /\ Pending' = Pending \cup {f}
           /\ UNCHANGED program
<1>0. /\ pc \in [Fetches -> Stage] /\ issued \in 0..MaxFetches
      /\ MaxFetches \in Nat
  BY CacheFacts
<1>1. f = issued + 1 /\ ensureConn(f) /\ UNCHANGED program
  BY DEF startFetch
<1>2. pc[f] = "idle"
  <2>1. f > issued /\ FetchPlaced(f)
    BY <1>0, <1>1 DEF CacheInv
  <2> QED BY <2>1 DEF FetchPlaced
<1>3. \E stage \in {"stream", "waiting", "lookup"} : pc' = [pc EXCEPT ![f] = stage]
  BY <1>1 DEF ensureConn, newAttempt
<1>4. PICK stage \in {"stream", "waiting", "lookup"} : pc' = [pc EXCEPT ![f] = stage]
  BY <1>3
<1>5. \A g \in Fetches : pc'[g] = IF g = f THEN stage ELSE pc[g]
  BY <1>0, <1>4
<1> QED BY <1>1, <1>2, <1>5 DEF Pending, Finished

\* A step of the connections makes nobody pending, and who is not pending any
\* more has been answered.
LEMMA StepPending ==
    ASSUME CacheInv, CacheStep
    PROVE  /\ Pending' \subseteq Pending /\ Answered \subseteq Pending
           /\ Pending \ Pending' = Answered
           /\ UNCHANGED program
<1>0. pc \in [Fetches -> Stage] /\ pc' \in [Fetches -> Stage]
  <2>1. CacheInv'
    BY CacheStepKeeps
  <2> QED BY <2>1, CacheFacts DEF CacheInv, CacheTypes, NavigationTypeOK, Stage
<1>1. ASSUME NEW Fs \in SUBSET Fetches, NEW cs, NEW flight, Fail(Fs, cs, flight),
             \A f \in Fs : pc[f] # "idle"
      PROVE  \A f \in Fetches : \/ pc'[f] = pc[f]
                                \/ pc[f] # "idle" /\ pc'[f] = "failed"
                                \/ pc[f] = "stream" /\ pc'[f] = "stranded"
  BY <1>1 DEF Fail, evict
<1> DEFINE Moved(f) == \/ pc'[f] = pc[f]
                       \/ pc[f] # "idle" /\ pc'[f] = "failed"
                       \/ pc[f] \notin Finished \cup {"idle"} /\ pc'[f] # "idle"
           Moves == UNCHANGED program /\ \A f \in Fetches : Moved(f)
<1>2. Moves
  <2>1. ASSUME NEW f \in Fetches, lookupEnds(f)
        PROVE  Moves
    <3>1. pc[f] = "lookup" /\ UNCHANGED program
      BY <2>1 DEF lookupEnds
    <3>2. CASE newAttempt(f)
      <4>1. pc' = [pc EXCEPT ![f] = "waiting"]
        BY <3>2 DEF newAttempt
      <4> QED BY <1>0, <3>1, <4>1 DEF Finished
    <3>3. CASE Fail({f}, conns, inFlight)
      BY <1>1, <3>1, <3>3 DEF Finished
    <3> QED BY <2>1, <3>2, <3>3 DEF lookupEnds
  <2>2. ASSUME NEW f \in Fetches, fetchFails(f)
        PROVE  Moves
    <3>1. pc[f] # "idle" /\ Fail({f}, conns, inFlight) /\ UNCHANGED program
      BY <2>2 DEF fetchFails
    <3> QED BY <1>1, <3>1 DEF Finished
  <2>3. ASSUME NEW f \in Fetches, streamOpens(f) \/ fetchSucceeds(f) \/ localCloses(f)
        PROVE  Moves
    <3>1. /\ pc[f] \in {"waiting", "stream", "fetch"} /\ UNCHANGED program
          /\ \E stage \in {"fetch", "stranded", "ok", "failed"} : pc' = [pc EXCEPT ![f] = stage]
      BY <2>3 DEF streamOpens, fetchSucceeds, localCloses
    <3>2. PICK stage \in {"fetch", "stranded", "ok", "failed"} : pc' = [pc EXCEPT ![f] = stage]
      BY <3>1
    <3> QED BY <1>0, <3>1, <3>2 DEF Finished
  <2>4. ASSUME NEW a \in DOMAIN conns, opened(a)
        PROVE  Moves
    <3>1. /\ pc' = [f \in Fetches |-> IF f \in Waiting(a) THEN "stream" ELSE pc[f]]
          /\ UNCHANGED program
      BY <2>4 DEF opened
    <3> QED BY <3>1 DEF Waiting, Finished
  <2>5. ASSUME NEW a \in DOMAIN conns, openFails(a)
        PROVE  Moves
    <3>1. Fail(Waiting(a), [conns EXCEPT ![a].state = "failed"], NoAttempt) /\ UNCHANGED program
      BY <2>5 DEF openFails
    <3>2. Waiting(a) \in SUBSET Fetches /\ \A f \in Waiting(a) : pc[f] # "idle"
      BY DEF Waiting
    <3> QED BY <1>1, <3>1, <3>2 DEF Finished
  <2>6. ASSUME NEW a \in DOMAIN conns, connDies(a)
        PROVE  Moves
    BY <2>6 DEF connDies, fetchVars
  <2> QED BY <2>1, <2>2, <2>3, <2>4, <2>5, <2>6 DEF CacheStep
<1> QED BY <1>2 DEF Pending, Answered, Finished

\* A sequence is its front and its last element.
LEMMA FrontLast ==
    ASSUME NEW S, NEW s \in Seq(S), s # <<>>
    PROVE  /\ Front(s) \in Seq(S) /\ Last(s) \in S
           /\ Len(Front(s)) = Len(s) - 1 /\ Len(s) \in Nat \ {0}
           /\ Front(s) \o <<Last(s)>> = s
<1>1. Len(s) \in Nat \ {0} /\ \A i \in 1..Len(s) : s[i] \in S
  BY EmptySeq, ElementOfSeq
<1>2. Front(s) \in Seq(S) /\ Len(Front(s)) = Len(s) - 1
  <2>1. \A i \in 1..(Len(s) - 1) : s[i] \in S
    BY <1>1
  <2> DEFINE n == Len(s) - 1
  <2>2. 1 \in Int /\ n \in Int
    BY <1>1
  <2> HIDE DEF n
  <2>3. SubSeq(s, 1, n) \in Seq(S) /\ Len(SubSeq(s, 1, n)) = IF 1 <= n THEN n - 1 + 1 ELSE 0
    BY <2>1, <2>2, SubSeqProperties DEF n
  <2>4. Front(s) = SubSeq(s, 1, n)
    BY DEF Front, n
  <2>5. n = Len(s) - 1
    BY DEF n
  <2>6. (IF 1 <= n THEN n - 1 + 1 ELSE 0) = n
    BY <1>1, <2>5
  <2> QED BY <2>3, <2>4, <2>5, <2>6
<1>3. SubSeq(s, 1, Len(s)) = SubSeq(s, 1, Len(s) - 1) \o <<s[Len(s)]>>
  <2>1. 1 \in 1..Len(s) /\ Len(s) \in 1..Len(s)
    BY <1>1
  <2> QED BY <2>1, SubSeqRecursiveSecond
<1>4. SubSeq(s, 1, Len(s)) = s
  BY SubSeqFull
<1>5. Front(s) \o <<Last(s)>> = s
  BY <1>3, <1>4 DEF Front, Last
<1>6. Last(s) \in S
  BY <1>1 DEF Last
<1> QED BY <1>1, <1>2, <1>5, <1>6

\* The screen after a move that fetches u.
LEMMA FetchKeeps ==
    ASSUME NavigationInv, NEW f \in Fetches, NEW u \in Seq(Urls), fetchAndRender(f, u)
    PROVE  /\ CacheInv' /\ ScreenFollows' /\ current' = u
           /\ wanted' \in [Fetches -> Seq(Urls)] /\ overlapped' \in BOOLEAN
<1>1. /\ startFetch(f) /\ current' = u /\ wanted' = [wanted EXCEPT ![f] = u]
      /\ overlapped' = (overlapped \/ Pending # {})
  BY DEF fetchAndRender
<1>2. CacheInv /\ wanted \in [Fetches -> Seq(Urls)] /\ overlapped \in BOOLEAN
  BY DEF NavigationInv, PageTypes
<1>3. CacheInv'
  BY <1>1, <1>2, StartKeeps
<1>4. Pending' = Pending \cup {f}
  BY <1>1, <1>2, StartPending
<1>5. wanted' \in [Fetches -> Seq(Urls)] /\ wanted'[f] = u
  BY <1>1, <1>2
<1>6. (overlapped \/ Pending # {}) \in BOOLEAN
  OBVIOUS
<1>7. ~overlapped' => Pending' = {f}
  BY <1>1, <1>4
<1>8. ScreenFollows'
  BY <1>1, <1>5, <1>7 DEF ScreenFollows
<1> QED BY <1>1, <1>3, <1>5, <1>6, <1>8

LEMMA MovesKeep ==
    ASSUME NavigationInv, NEW f \in Fetches, navigate(f) \/ goBack(f) \/ goForward(f)
    PROVE  NavigationInv'
<1>0. /\ history \in Seq(Urls) /\ future \in Seq(Urls) /\ current \in Seq(Urls)
      /\ history \o current \in Seq(Urls) /\ future \o current \in Seq(Urls) /\ <<>> \in Seq(Urls)
  BY DEF NavigationInv, PageTypes
<1>1. ASSUME NEW u \in Urls PROVE <<u>> \in Seq(Urls) /\ Len(<<u>>) = 1 /\ <<u>> # <<>>
  OBVIOUS
<1>2. ASSUME NEW u \in Urls, fetchAndRender(f, <<u>>),
             history' \in Seq(Urls), future' \in Seq(Urls)
      PROVE  NavigationInv'
  <2>1. /\ CacheInv' /\ ScreenFollows' /\ current' = <<u>>
        /\ wanted' \in [Fetches -> Seq(Urls)] /\ overlapped' \in BOOLEAN
    BY <1>1, <1>2, FetchKeeps
  <2>2. PageTypes'
    BY <1>1, <1>2, <2>1 DEF PageTypes
  <2> QED BY <2>1, <2>2 DEF NavigationInv
<1>3. CASE navigate(f)
  BY <1>0, <1>2, <1>3 DEF navigate
<1>4. CASE goBack(f)
  <2>1. Last(history) \in Urls /\ Front(history) \in Seq(Urls)
    BY <1>0, <1>4, FrontLast DEF goBack
  <2> QED BY <1>0, <1>2, <1>4, <2>1 DEF goBack
<1>5. CASE goForward(f)
  <2>1. Last(future) \in Urls /\ Front(future) \in Seq(Urls)
    BY <1>0, <1>5, FrontLast DEF goForward
  <2> QED BY <1>0, <1>2, <1>5, <2>1 DEF goForward
<1> QED BY <1>3, <1>4, <1>5

\* With the connections as they were, so is what is known of them.
LEMMA CacheStays ==
    ASSUME CacheInv, UNCHANGED cacheVars
    PROVE  CacheInv' /\ Pending' = Pending /\ UNCHANGED program
<1>1. UNCHANGED <<program, indexed, issued, pc, over, conns, cached, inFlight>>
  BY DEF cacheVars, fetchVars
<1>2. (CacheTypes => CacheTypes') /\ \A f \in Fetches : FetchPlaced(f) => FetchPlaced(f)'
  BY <1>1 DEF CacheTypes, NavigationTypeOK, FetchPlaced, Opening
<1>3. (FailedBehind => FailedBehind') /\ (Awaited => Awaited')
  BY <1>1 DEF FailedBehind, Awaited, Opening
<1>4. (Unfailed' <=> Unfailed) /\ (OneAttempt => OneAttempt') /\ (ProxyKeeps => ProxyKeeps')
  BY <1>1 DEF Unfailed, OneAttempt, ProxyKeeps, Kept
<1> QED BY <1>1, <1>2, <1>3, <1>4 DEF CacheInv, Pending

LEMMA ReloadKeeps ==
    ASSUME NavigationInv, NEW f \in Fetches, reload(f)
    PROVE  NavigationInv'
<1>1. current \in Seq(Urls) /\ CacheInv
  BY DEF NavigationInv, PageTypes
<1>2. CASE program = "gui"
  <2>1. fetchAndRender(f, current) /\ UNCHANGED <<history, future>>
    BY <1>2 DEF reload
  <2>2. /\ CacheInv' /\ ScreenFollows' /\ current' = current
        /\ wanted' \in [Fetches -> Seq(Urls)] /\ overlapped' \in BOOLEAN
    BY <1>1, <2>1, FetchKeeps
  <2>3. PageTypes'
    BY <2>1, <2>2 DEF NavigationInv, PageTypes
  <2> QED BY <2>2, <2>3 DEF NavigationInv
<1>3. CASE program # "gui"
  <2>1. /\ shown' = current /\ UNCHANGED <<cacheVars, current, wanted, overlapped, history, future>>
    BY <1>3 DEF reload
  <2>2. CacheInv' /\ Pending' = Pending /\ UNCHANGED program
    BY <1>1, <2>1, CacheStays
  <2>3. PageTypes'
    BY <2>1 DEF NavigationInv, PageTypes
  <2>4. ScreenFollows'
    BY <2>1, <2>2 DEF NavigationInv, ScreenFollows, Browser
  <2> QED BY <2>2, <2>3, <2>4 DEF NavigationInv
<1> QED BY <1>2, <1>3

LEMMA AcceptKeeps ==
    ASSUME NavigationInv, NEW f \in Fetches, accept(f)
    PROVE  NavigationInv'
<1>1. program = "proxy" /\ startFetch(f)
      /\ UNCHANGED <<history, future, current, wanted, shown, overlapped>> /\ CacheInv
  BY DEF accept, pageVars, NavigationInv
<1>2. CacheInv' /\ UNCHANGED program
  BY <1>1, StartKeeps, StartPending
<1>3. PageTypes'
  BY <1>1 DEF NavigationInv, PageTypes
<1>4. ScreenFollows'
  BY <1>1, <1>2 DEF ScreenFollows, Browser
<1> QED BY <1>2, <1>3, <1>4 DEF NavigationInv

LEMMA RespondKeeps ==
    ASSUME NavigationInv, CacheStep, respond
    PROVE  NavigationInv'
<1>1. /\ CacheInv /\ PageTypes /\ ScreenFollows
      /\ wanted \in [Fetches -> Seq(Urls)] /\ current \in Seq(Urls)
  BY DEF NavigationInv, PageTypes
<1>2. /\ Pending' \subseteq Pending /\ Answered \subseteq Pending
      /\ Pending \ Pending' = Answered /\ UNCHANGED program
  BY <1>1, StepPending
<1>3. CacheInv'
  BY <1>1, CacheStepKeeps
<1>4. /\ render /\ UNCHANGED <<history, future, current, overlapped>>
      /\ wanted' = [f \in Fetches |-> IF pc'[f] \in Finished THEN <<>> ELSE wanted[f]]
  BY DEF respond
<1>5. /\ wanted' \in [Fetches -> Seq(Urls)]
      /\ \A f \in Pending' : f \in Fetches /\ wanted'[f] = wanted[f]
  <2>1. <<>> \in Seq(Urls)
    OBVIOUS
  <2>2. wanted' \in [Fetches -> Seq(Urls)]
    BY <1>1, <1>4, <2>1
  <2>3. \A f \in Pending' : f \in Fetches /\ pc'[f] \notin Finished
    BY DEF Pending
  <2> QED BY <1>4, <2>2, <2>3
<1>6. PageTypes'
  BY <1>1, <1>4, <1>5 DEF PageTypes
<1>7. ScreenFollows'
  <2> SUFFICES ASSUME Browser, ~overlapped
               PROVE  /\ \A f, g \in Pending' : f = g
                      /\ \A f \in Pending' : wanted'[f] = current
                      /\ Pending' = {} => shown' = current
    BY <1>2, <1>4 DEF ScreenFollows, Browser
  <2>1. /\ \A f, g \in Pending : f = g
        /\ \A f \in Pending : wanted[f] = current
        /\ Pending = {} => shown = current
    BY <1>1 DEF ScreenFollows
  <2>2. CASE Answered = {}
    <3>1. shown' = shown /\ Pending' = Pending
      BY <1>2, <1>4, <2>2 DEF render
    <3> QED BY <1>5, <2>1, <3>1
  <2>3. CASE Answered # {}
    <3>1. PICK f \in Answered : shown' = wanted[f]
      BY <1>4, <2>3 DEF render
    <3>2. shown' = current
      BY <1>2, <2>1, <3>1
    <3> QED BY <1>2, <1>5, <2>1, <3>2
  <2> QED BY <2>2, <2>3
<1> QED BY <1>3, <1>6, <1>7 DEF NavigationInv

-----------------------------------------------------------------------------
(* The theorems                                                            *)

LEMMA NavigationStarts == NavigationInit => NavigationInv
<1> SUFFICES ASSUME NavigationInit PROVE NavigationInv
  OBVIOUS
<1>1. /\ program \in {"gui", "tui", "proxy"} /\ indexed \in BOOLEAN /\ (program # "gui" => indexed)
      /\ issued = 0 /\ pc = [f \in Fetches |-> "idle"] /\ over = [f \in Fetches |-> NoAttempt]
      /\ conns = <<>> /\ cached = NoAttempt /\ inFlight = NoAttempt
  BY DEF NavigationInit, CacheInit
<1>2. MaxFetches \in Nat \ {0} /\ MaxAttempts \in Nat \ {0}
  BY CacheBounds
<1>3. conns \in Seq(Attempt) /\ Len(conns) = 0 /\ DOMAIN conns = {}
  BY <1>1
<1>4. CacheTypes
  BY <1>1, <1>2, <1>3 DEF CacheTypes, NavigationTypeOK, NoAttempt
<1>5. \A f \in Fetches : FetchPlaced(f)
  BY <1>1 DEF FetchPlaced
<1>6. FailedBehind /\ Awaited /\ OneAttempt /\ ProxyKeeps
  BY <1>1, <1>3 DEF FailedBehind, Awaited, OneAttempt, ProxyKeeps
<1>7. CacheInv
  BY <1>4, <1>5, <1>6 DEF CacheInv
<1>8. history \in Seq(Urls) /\ current \in Seq(Urls) /\ Len(current) <= 1 /\ (current = <<>> => history = <<>>)
  <2>1. CASE history = <<>> /\ current = <<>>
    BY <2>1
  <2>2. ASSUME NEW pages \in Sessions, history = Front(pages), current = <<Last(pages)>>
        PROVE  <1>8
    <3>1. pages \in Seq(Urls) /\ pages # <<>>
      BY SessionsAssumption
    <3>2. Front(pages) \in Seq(Urls) /\ Last(pages) \in Urls
      BY <3>1, FrontLast
    <3> QED BY <2>2, <3>2
  <2> QED BY <2>1, <2>2 DEF NavigationInit
<1>9. PageTypes
  <2>1. /\ future = <<>> /\ wanted = [f \in Fetches |-> <<>>] /\ overlapped = FALSE
    BY DEF NavigationInit
  <2>2. <<>> \in Seq(Urls)
    OBVIOUS
  <2>3. wanted \in [Fetches -> Seq(Urls)]
    BY <2>1, <2>2
  <2> QED BY <1>8, <2>1, <2>2, <2>3 DEF PageTypes
<1>10. ScreenFollows
  BY <1>1 DEF NavigationInit, ScreenFollows, Pending
<1> QED BY <1>7, <1>9, <1>10 DEF NavigationInv

LEMMA NavigationStep == NavigationInv /\ [NavigationNext]_navigationVars => NavigationInv'
<1> SUFFICES ASSUME NavigationInv, [NavigationNext]_navigationVars PROVE NavigationInv'
  OBVIOUS
<1>1. ASSUME NEW f \in Fetches, navigate(f) \/ goBack(f) \/ goForward(f) \/ reload(f) \/ accept(f)
      PROVE  NavigationInv'
  BY <1>1, MovesKeep, ReloadKeeps, AcceptKeeps
<1>2. CASE CacheStep /\ respond
  BY <1>2, RespondKeeps
<1>3. CASE UNCHANGED navigationVars
  <2>1. CacheInv' /\ Pending' = Pending /\ UNCHANGED program
    BY <1>3, CacheStays DEF NavigationInv, navigationVars
  <2>2. PageTypes' /\ ScreenFollows'
    BY <1>3, <2>1 DEF NavigationInv, PageTypes, ScreenFollows, Browser, navigationVars, pageVars
  <2> QED BY <2>1, <2>2 DEF NavigationInv
<1> QED BY <1>1, <1>2, <1>3 DEF NavigationNext

LEMMA AlwaysNavigationInv == NavigationSpec => []NavigationInv
BY NavigationStarts, NavigationStep, PTL DEF NavigationSpec

LEMMA NavigationInvSuffices == NavigationInv => ConnectionsSound
<1> SUFFICES ASSUME NavigationInv PROVE ConnectionsSound
  OBVIOUS
<1>1. CacheInv /\ CacheTypes /\ NavigationTypeOK /\ ScreenFollows
  BY DEF NavigationInv, CacheInv, CacheTypes
<1>2. FailedNotReused
  BY <1>1 DEF CacheInv, FailedBehind, FailedNotReused
<1>3. ShownIsCurrent
  BY <1>1 DEF ScreenFollows, ShownIsCurrent
<1>4. program = "proxy" => Cardinality({a \in DOMAIN conns : conns[a].state # "failed"}) <= 1
  <2> SUFFICES ASSUME program = "proxy"
               PROVE  Cardinality({a \in DOMAIN conns : conns[a].state # "failed"}) <= 1
    OBVIOUS
  <2> DEFINE there == {a \in DOMAIN conns : conns[a].state # "failed"}
  <2>1. ProxyKeeps /\ DOMAIN conns = 1..Len(conns)
    BY <1>1, CacheFacts DEF CacheInv
  <2>2. \A a, b \in there : a = b
    BY <2>1 DEF ProxyKeeps, Kept, NoAttempt
  <2>3. CASE there = {}
    BY <2>3, FS_EmptySet
  <2>4. CASE there # {}
    <3>1. PICK a \in there : TRUE
      BY <2>4
    <3>2. there = {a}
      BY <2>2, <3>1
    <3> QED BY <3>2, FS_Singleton
  <2> QED BY <2>3, <2>4
<1>5. program = "gui" /\ indexed /\ (\A f \in Fetches : pc[f] # "failed") => Len(conns) <= 1
  BY <1>1 DEF CacheInv, Unfailed, OneAttempt
<1> QED BY <1>1, <1>2, <1>3, <1>4, <1>5 DEF ConnectionsSound, LoadsCoalesced

\* Whatever fetches are made, in whatever order attempts end, connections are
\* lost and fetches fail: a connection that failed is not given to a later
\* fetch, loads that come together share an attempt, and without overlapping
\* moves the screen shows what the URL bar names.
THEOREM ConnectionsAlwaysSound == NavigationSpec => []ConnectionsSound
BY AlwaysNavigationInv, NavigationInvSuffices, PTL

-----------------------------------------------------------------------------
(* The stacks are a history                                                *)

LEMMA ReverseAppend ==
    ASSUME NEW S, NEW s \in Seq(S), NEW e \in S
    PROVE  Reverse(s) \in Seq(S) /\ Len(Reverse(s)) = Len(s) /\ Reverse(s \o <<e>>) = <<e>> \o Reverse(s)
<1>1. Len(s) \in Nat /\ \A i \in 1..Len(s) : s[i] \in S
  BY LenProperties, ElementOfSeq
<1>2. Reverse(s) = [i \in 1..Len(s) |-> s[Len(s) - i + 1]]
  BY DEF Reverse
<1>3. Reverse(s) \in Seq(S) /\ Len(Reverse(s)) = Len(s)
  <2>1. \A i \in 1..Len(s) : s[Len(s) - i + 1] \in S
    BY <1>1
  <2> QED BY <1>1, <1>2, <2>1
<1> DEFINE t == s \o <<e>>
<1>4. /\ t \in Seq(S) /\ Len(t) = Len(s) + 1 /\ t[Len(s) + 1] = e
      /\ \A i \in 1..Len(s) : t[i] = s[i]
  BY <1>1
<1> HIDE DEF t
<1>5. Reverse(t) = [i \in 1..Len(t) |-> t[Len(t) - i + 1]]
  BY DEF Reverse
<1>6. Reverse(t) \in Seq(S) /\ Len(Reverse(t)) = Len(t)
  <2>1. \A i \in 1..Len(t) : t[Len(t) - i + 1] \in S
    <3>1. \A i \in 1..Len(t) : t[i] \in S
      BY <1>4, ElementOfSeq
    <3> QED BY <1>1, <1>4, <3>1
  <2> QED BY <1>1, <1>4, <1>5, <2>1
<1> DEFINE r == <<e>> \o Reverse(s)
<1>7. /\ r \in Seq(S) /\ Len(r) = Len(s) + 1 /\ r[1] = e
      /\ \A i \in 2..(Len(s) + 1) : r[i] = Reverse(s)[i - 1]
  BY <1>1, <1>3
<1> HIDE DEF r
<1>8. ASSUME NEW i \in 1..(Len(s) + 1) PROVE Reverse(t)[i] = r[i]
  <2>1. Reverse(t)[i] = t[Len(s) + 2 - i]
    <3>1. Len(t) - i + 1 = Len(s) + 2 - i /\ i \in 1..Len(t)
      BY <1>1, <1>4
    <3> QED BY <1>5, <3>1
  <2>2. CASE i = 1
    BY <1>1, <1>4, <1>7, <2>1, <2>2
  <2>3. CASE i # 1
    <3>1. i - 1 \in 1..Len(s) /\ Len(s) + 2 - i \in 1..Len(s) /\ i \in 2..(Len(s) + 1)
      BY <1>1, <2>3
    <3>2. Reverse(s)[i - 1] = s[Len(s) - (i - 1) + 1]
      BY <1>2, <3>1
    <3>3. Len(s) - (i - 1) + 1 = Len(s) + 2 - i
      BY <1>1
    <3> QED BY <1>4, <1>7, <2>1, <3>1, <3>2, <3>3
  <2> QED BY <2>2, <2>3
<1>9. Reverse(t) = r
  BY <1>1, <1>4, <1>6, <1>7, <1>8, SeqEqual
<1> QED BY <1>3, <1>9 DEF t, r

LEMMA ReverseEmpty == Reverse(<<>>) = <<>>
BY DEF Reverse

\* What the stacks h and r with the page c between them list.
Listed(h, c, r) == h \o c \o Reverse(r)

\* What stands at the front of a concatenation.
LEMMA ConcatStarts ==
    ASSUME NEW S, NEW s \in Seq(S), NEW t \in Seq(S), NEW i \in 1..Len(s)
    PROVE  (s \o t)[i] = s[i]
<1>1. i \in 1..(Len(s) + Len(t))
  <2>1. Len(s) \in Nat /\ Len(t) \in Nat
    BY LenProperties
  <2> QED BY <2>1
<1> QED BY <1>1, ConcatProperties

LEMMA ListedGrows ==
    ASSUME NEW h \in Seq(Urls), NEW c \in Seq(Urls), NEW r \in Seq(Urls), NEW u \in Urls
    PROVE  /\ Listed(h \o c, <<u>>, <<>>) = Append(SubSeq(Listed(h, c, r), 1, Len(h) + Len(c)), u)
           /\ Len(h \o c) = Len(h) + Len(c)
<1> DEFINE hc == h \o c
<1>1. hc \in Seq(Urls) /\ Len(hc) = Len(h) + Len(c) /\ Reverse(r) \in Seq(Urls) /\ <<u>> \in Seq(Urls)
  <2>1. Reverse(r) \in Seq(Urls)
    BY ReverseAppend
  <2> QED BY <2>1
<1> HIDE DEF hc
<1>2. SubSeq(hc \o Reverse(r), 1, Len(hc)) = hc
  <2> DEFINE q == hc \o Reverse(r)
             t == SubSeq(q, 1, Len(hc))
  <2>0. Len(hc) \in Nat /\ Len(Reverse(r)) \in Nat
    BY <1>1
  <2>1. q \in Seq(Urls) /\ Len(q) = Len(hc) + Len(Reverse(r)) /\ \A i \in 1..Len(hc) : q[i] = hc[i]
    <3> DEFINE back == Reverse(r)
    <3>0. back \in Seq(Urls)
      BY <1>1
    <3> HIDE DEF back
    <3>1. hc \o back \in Seq(Urls) /\ Len(hc \o back) = Len(hc) + Len(back)
      BY <1>1, <3>0, ConcatProperties
    <3>3. \A i \in 1..Len(hc) : (hc \o back)[i] = hc[i]
      BY <1>1, <3>0, ConcatStarts
    <3>2. q = hc \o back /\ Len(back) = Len(Reverse(r))
      BY DEF back
    <3> HIDE DEF q
    <3> QED BY <2>0, <3>1, <3>2, <3>3
  <2> HIDE DEF q
  <2>2. t \in Seq(Urls) /\ Len(t) = Len(hc) /\ \A i \in 1..Len(hc) : t[i] = q[i]
    BY <2>0, <2>1
  <2> HIDE DEF t
  <2>3. t = hc
    BY <1>1, <2>1, <2>2, SeqEqual
  <2> QED BY <2>3 DEF t, q
<1>3. (hc \o <<u>>) \o <<>> = hc \o <<u>>
  <2>1. hc \o <<u>> \in Seq(Urls)
    BY <1>1
  <2> QED BY <2>1, ConcatEmptySeq
<1>4. hc \o <<u>> = Append(hc, u)
  BY <1>1, AppendIsConcat
<1> QED BY <1>1, <1>2, <1>3, <1>4, ReverseEmpty DEF Listed, hc

LEMMA ListedBack ==
    ASSUME NEW h \in Seq(Urls), h # <<>>, NEW u \in Urls, NEW r \in Seq(Urls)
    PROVE  Listed(Front(h), <<Last(h)>>, r \o <<u>>) = Listed(h, <<u>>, r)
<1>1. Front(h) \o <<Last(h)>> = h
  BY FrontLast
<1>2. Reverse(r \o <<u>>) = <<u>> \o Reverse(r) /\ Reverse(r) \in Seq(Urls) /\ <<u>> \in Seq(Urls)
  BY ReverseAppend
<1>3. (h \o <<u>>) \o Reverse(r) = h \o (<<u>> \o Reverse(r))
  BY <1>2, ConcatAssociative
<1> QED BY <1>1, <1>2, <1>3 DEF Listed

LEMMA ListedForward ==
    ASSUME NEW h \in Seq(Urls), NEW c \in Seq(Urls), NEW r \in Seq(Urls), r # <<>>
    PROVE  Listed(h \o c, <<Last(r)>>, Front(r)) = Listed(h, c, r)
<1> DEFINE hc == h \o c
           front == Front(r)
           last == Last(r)
<1>1. front \in Seq(Urls) /\ last \in Urls /\ front \o <<last>> = r
  BY FrontLast
<1>2. hc \in Seq(Urls) /\ <<last>> \in Seq(Urls)
  BY <1>1
<1> HIDE DEF hc, front, last
<1>3. Reverse(front \o <<last>>) = <<last>> \o Reverse(front) /\ Reverse(front) \in Seq(Urls)
  BY <1>1, ReverseAppend
<1>4. (hc \o <<last>>) \o Reverse(front) = hc \o (<<last>> \o Reverse(front))
  BY <1>2, <1>3, ConcatAssociative
<1>5. (hc \o <<last>>) \o Reverse(front) = hc \o Reverse(r)
  BY <1>1, <1>3, <1>4
<1> QED BY <1>5 DEF Listed, hc, front, last

LEMMA HistoryStarts == NavigationInit /\ NavigationInv => Visits!Init
<1> SUFFICES ASSUME NavigationInit, NavigationInv PROVE Visits!Init
  OBVIOUS
<1>1. history \in Seq(Urls) /\ current \in Seq(Urls) /\ future = <<>>
  BY DEF NavigationInit, NavigationInv, PageTypes
<1>2. (history \o current) \o <<>> = history \o current /\ history \o current \in Seq(Urls)
  BY <1>1, ConcatEmptySeq, ConcatProperties
<1>3. Len(history \o current) = Len(history) + Len(current)
  BY <1>1
<1> QED BY <1>1, <1>2, <1>3, ReverseEmpty DEF Visits!Init

LEMMA PageFacts ==
    ASSUME PageTypes
    PROVE  /\ history \in Seq(Urls) /\ future \in Seq(Urls) /\ current \in Seq(Urls)
           /\ Len(history) \in Nat /\ Len(current) \in {0, 1}
           /\ current = <<>> => history = <<>> /\ future = <<>>
<1>1. /\ history \in Seq(Urls) /\ future \in Seq(Urls) /\ current \in Seq(Urls)
      /\ current = <<>> => history = <<>> /\ future = <<>>
  BY DEF PageTypes
<1>2. Len(history) \in Nat
  BY <1>1
<1>3. Len(current) \in {0, 1}
  <2> DEFINE n == Len(current)
  <2>1. n \in Nat /\ n <= 1
    BY <1>1 DEF PageTypes
  <2> HIDE DEF n
  <2>2. n \in {0, 1}
    BY <2>1
  <2> QED BY <2>2 DEF n
<1> QED BY <1>1, <1>2, <1>3

LEMMA HistoryStep == NavigationInv /\ [NavigationNext]_navigationVars => [Visits!Next]_(Visits!vars)
<1> SUFFICES ASSUME NavigationInv, [NavigationNext]_navigationVars PROVE [Visits!Next]_(Visits!vars)
  OBVIOUS
<1> DEFINE list == Listed(history, current, future)
           at == Len(history) + Len(current)
<1>0. /\ history \in Seq(Urls) /\ future \in Seq(Urls) /\ current \in Seq(Urls)
      /\ Len(history) \in Nat /\ Len(current) \in {0, 1}
      /\ current = <<>> => history = <<>> /\ future = <<>>
  BY PageFacts DEF NavigationInv
<1>1. \/ \E u \in Urls : list' = Append(SubSeq(list, 1, at), u) /\ at' = at + 1
      \/ at > 1 /\ at' = at - 1 /\ list' = list
      \/ at < Len(list) /\ at' = at + 1 /\ list' = list
      \/ list' = list /\ at' = at
  <2>1. ASSUME NEW f \in Fetches, navigate(f)
        PROVE  \E u \in Urls : list' = Append(SubSeq(list, 1, at), u) /\ at' = at + 1
    <3>1. PICK u \in Urls : current' = <<u>>
      BY <2>1 DEF navigate, fetchAndRender
    <3>2. history' = history \o current /\ future' = <<>>
      BY <2>1 DEF navigate
    <3>3. /\ Listed(history \o current, <<u>>, <<>>) = Append(SubSeq(list, 1, at), u)
          /\ Len(history \o current) = at
      BY <1>0, ListedGrows
    <3>4. list' = Listed(history', current', future')
      BY DEF Listed
    <3>5. at' = at + 1
      BY <3>1, <3>2, <3>3
    <3> QED BY <3>1, <3>2, <3>3, <3>4, <3>5
  <2>2. ASSUME NEW f \in Fetches, goBack(f)
        PROVE  at > 1 /\ at' = at - 1 /\ list' = list
    <3>1. /\ history # <<>> /\ current' = <<Last(history)>>
          /\ history' = Front(history) /\ future' = future \o current
      BY <2>2 DEF goBack, fetchAndRender
    <3>2. PICK u \in Urls : current = <<u>>
      <4>1. Len(current) = 1 /\ current[1] \in Urls
        BY <1>0, <3>1, EmptySeq
      <4>2. current = <<current[1]>>
        BY <1>0, <4>1
      <4> QED BY <4>1, <4>2
    <3>3. list' = list
      <4>1. list' = Listed(history', current', future')
        BY DEF Listed
      <4>2. Listed(Front(history), <<Last(history)>>, future \o <<u>>) = Listed(history, <<u>>, future)
        BY <1>0, <3>1, ListedBack
      <4> QED BY <3>1, <3>2, <4>1, <4>2
    <3>4. Len(Front(history)) = Len(history) - 1 /\ Len(history) \in Nat \ {0}
      BY <1>0, <3>1, FrontLast
    <3>5. Len(current) = 1 /\ Len(current') = 1
      BY <3>1, <3>2
    <3> QED BY <3>1, <3>3, <3>4, <3>5
  <2>3. ASSUME NEW f \in Fetches, goForward(f)
        PROVE  at < Len(list) /\ at' = at + 1 /\ list' = list
    <3>1. /\ future # <<>> /\ current' = <<Last(future)>>
          /\ future' = Front(future) /\ history' = history \o current
      BY <2>3 DEF goForward, fetchAndRender
    <3>2. list' = list
      <4>1. list' = Listed(history', current', future')
        BY DEF Listed
      <4>2. Listed(history \o current, <<Last(future)>>, Front(future)) = Listed(history, current, future)
        BY <1>0, <3>1, ListedForward
      <4> QED BY <3>1, <4>1, <4>2
    <3>3. Len(history \o current) = at /\ Len(current') = 1
      BY <1>0, <3>1
    <3>4. Len(list) = at + Len(future) /\ Len(future) \in Nat \ {0}
      <4>1. Reverse(future) \in Seq(Urls) /\ Len(Reverse(future)) = Len(future)
        <5>1. future[1] \in Urls
          BY <1>0, <3>1, EmptySeq, ElementOfSeq
        <5> QED BY <1>0, <5>1, ReverseAppend
      <4>2. Len(future) \in Nat \ {0}
        BY <1>0, <3>1, EmptySeq
      <4>3. history \o current \in Seq(Urls)
        BY <1>0
      <4>4. Len((history \o current) \o Reverse(future)) = at + Len(future)
        BY <3>3, <4>1, <4>3, ConcatProperties
      <4> QED BY <4>2, <4>4 DEF Listed
    <3> QED BY <1>0, <3>1, <3>2, <3>3, <3>4
  <2>4. ASSUME UNCHANGED <<history, current, future>>
        PROVE  list' = list /\ at' = at
    BY <2>4 DEF Listed
  <2>5. ASSUME NEW f \in Fetches, reload(f) \/ accept(f)
        PROVE  UNCHANGED <<history, current, future>>
    BY <2>5 DEF reload, accept, fetchAndRender, pageVars
  <2>6. ASSUME CacheStep, respond
        PROVE  UNCHANGED <<history, current, future>>
    BY <2>6 DEF respond
  <2>7. ASSUME UNCHANGED navigationVars
        PROVE  UNCHANGED <<history, current, future>>
    BY <2>7 DEF navigationVars, pageVars
  <2> HIDE DEF list, at
  <2> QED BY <2>1, <2>2, <2>3, <2>4, <2>5, <2>6, <2>7 DEF NavigationNext
<1>2. list = history \o current \o Reverse(future)
  BY DEF Listed
<1>3. list' = (history \o current \o Reverse(future))'
  BY DEF Listed
<1> HIDE DEF list
<1> QED BY <1>1, <1>2, <1>3
    DEF Visits!Next, Visits!Visit, Visits!Back, Visits!Forward, Visits!vars

\* The back and forward buttons are the list of the pages visited with a place
\* in it: a new page cuts the list off after the place, and nothing else
\* changes it, whatever the fetches of the moves come to.
THEOREM StacksAreHistory == NavigationSpec => ImplementsHistory
<1>1. NavigationInit => Visits!Init
  BY NavigationStarts, HistoryStarts
<1> QED BY <1>1, AlwaysNavigationInv, HistoryStep, PTL DEF NavigationSpec, ImplementsHistory, Visits!Spec
=============================================================================
