---------------------------- MODULE OnionCircuit ----------------------------
(***************************************************************************)
(* One client circuit from end to end: buildCircuit and its per-circuit    *)
(* handler (modules/v2-runtime/circuit_builder.mjs) at the client, and at  *)
(* each of the N relays the part of the dispatcher that serves this        *)
(* circuit, over FIFO links.  The layered encryption and the running       *)
(* digests of modules/v2/circuit.mjs and modules/v2/relay.mjs are kept,    *)
(* because every hop has to stay in step with its peer for the life of the *)
(* circuit: one counter that runs ahead and no later cell is recognised.   *)
(*                                                                         *)
(* Node 0 is the client, node i in Hops the i-th relay.  A RELAY payload   *)
(* is its plaintext (the hop whose digest it carries, the position in that *)
(* digest, the command) under a set of layers <<hop, direction, counter>>: *)
(* applyLayer XORs a key stream, so applying a layer twice removes it.     *)
(*                                                                         *)
(* A promise that the handler settles resumes buildCircuit in a later      *)
(* microtask (`cont'); further frames of the same chunk are handled first. *)
(***************************************************************************)
EXTENDS Naturals, Sequences, FiniteSets

CONSTANTS N,          \* relays of the path
          Frags,      \* cells of a CREATE, CREATED, EXTEND or EXTENDED message
          MaxData,    \* bound: data cells each end sends
          MaxLoss     \* bound: links lost

ASSUME PathAssumption == N \in Nat \ {0} /\ Frags \in Nat \ {0}
ASSUME BoundsAssumption == MaxData \in Nat /\ MaxLoss \in Nat

Hops == 1..N
Live == {"pending-create", "established", "extending"}

VARIABLES
    \* the client
    handler,  \* state of the handler: "idle", "create", "extend", "closed"
    cont,     \* what buildCircuit resumes with: "none", "resolve", "reject"
    result,   \* the promise of buildCircuit: "building", "built", "failed"
    hops,     \* circuit.hops.length
    cf, cb,   \* hop.forwardCounter, hop.backwardCounter
    df, db,   \* positions of hop.forwardDigest, hop.backwardDigest
    frag,     \* fragments of the CREATED or EXTENDED being reassembled
    told,     \* onDestroy was called
    \* the relays
    role,     \* circuit.role ("none": no circuit yet)
    inFrag,   \* CREATE, then EXTEND fragments reassembled
    outFrag,  \* CREATED fragments reassembled
    dial,     \* beginExtend awaits ensureLink
    ext,      \* circuit.outbound # null
    rf, rb,   \* relayHop.forwardCounter, relayHop.backwardCounter
    gf, gb,   \* positions of relayHop.forwardDigest, relayHop.backwardDigest
    served,   \* data cells the relay took as exit
    replied,  \* data cells the relay sent as exit
    \* the network
    dn,       \* dn[i]: cells from node i-1 to node i
    up,       \* up[i]: cells from node i to node i-1
    broken,   \* links that were lost (i: between i-1 and i)
    stale,    \* relays whose key in the consensus is not their key
    dropped   \* a RELAY cell no hop recognised

client == <<handler, cont, result, hops, cf, cb, df, db, frag, told>>
relays == <<role, inFrag, outFrag, dial, ext, rf, rb, gf, gb, served, replied>>
vars == <<client, relays, dn, up, broken, stale, dropped>>

Cell(cmd) == [cmd |-> cmd]
Layers == Hops \X {"f", "b"} \X Nat
Plain(hop, kind, seq) == [hop |-> hop, kind |-> kind, seq |-> seq]
Relay(plain, layers) == [cmd |-> "RELAY", plain |-> plain, layers |-> layers]

\* link.sendCell on a lost link drops the cell.
SendDn(i, cells) == dn' = IF i \in broken THEN dn ELSE [dn EXCEPT ![i] = @ \o cells]
SendUp(i, cells) == up' = IF i \in broken THEN up ELSE [up EXCEPT ![i] = @ \o cells]

-----------------------------------------------------------------------------
(* Layers and digests                                                      *)

\* applyLayer: XOR with the key stream of <<hop, direction, counter>>.
applyLayers(layers, ls) == (layers \ ls) \cup (ls \ layers)

\* tryConsumeRelayPayload: the plaintext is bare and carries the next digest
\* of this hop in this direction.
Matches(plain, layers, hop, seq) == layers = {} /\ plain.hop = hop /\ plain.seq = seq

\* Mutant: only the hop a cell is for advances its counter.
AdvanceLast(c, h, n) == [i \in Hops |-> IF i = h THEN c[i] + n ELSE c[i]]

\* Every one of the h hops advances its counter, for each of n cells.
Advance(c, h, n) == [i \in Hops |-> IF i <= h THEN c[i] + n ELSE c[i]]

\* encryptOutbound and decryptInbound apply one layer of every hop.
encryptOutbound(h, c) == {<<i, "f", c[i]>> : i \in 1..h}
decryptInbound(h, c) == {<<i, "b", c[i]>> : i \in 1..h}

\* n cells of one kind for the last of the client's h hops.
Outbound(h, kind, n) ==
    [k \in 1..n |-> Relay(Plain(h, kind, df[h] + k - 1),
                          encryptOutbound(h, [i \in Hops |-> cf[i] + k - 1]))]

\* n cells of one kind originated by relay i for the client.
Backward(i, kind, n) ==
    [k \in 1..n |-> Relay(Plain(i, kind, gb[i] + k - 1), {<<i, "b", rb[i] + k - 1>>})]

\* reassembler.ingest of the next fragment after n: a complete message
\* leaves the reassembler empty.
ingest(n) == IF n + 1 = Frags THEN 0 ELSE n + 1
Complete(n) == n + 1 = Frags

-----------------------------------------------------------------------------
Init ==
    /\ handler = "create" /\ cont = "none" /\ result = "building"
    /\ hops = 0 /\ frag = 0 /\ told = FALSE
    /\ cf = [i \in Hops |-> 0] /\ cb = cf /\ df = cf /\ db = cf
    /\ role = [i \in Hops |-> "none"]
    /\ inFrag = cf /\ outFrag = cf /\ rf = cf /\ rb = cf /\ gf = cf /\ gb = cf
    /\ served = cf /\ replied = cf
    /\ dial = [i \in Hops |-> FALSE] /\ ext = dial
    /\ dn = [i \in Hops |-> IF i = 1 THEN [k \in 1..Frags |-> Cell("CREATE")] ELSE <<>>]
    /\ up = [i \in Hops |-> <<>>]
    /\ broken = {} /\ dropped = FALSE
    /\ stale \in {{}} \cup {{i} : i \in Hops}

-----------------------------------------------------------------------------
(* The client                                                              *)

\* handler.onCell takes the next cell of the entry link.
FromGuard(cmd) == up[1] # <<>> /\ Head(up[1]).cmd = cmd /\ up' = [up EXCEPT ![1] = Tail(@)]

\* clientFinish on the complete response of hop hops+1: the AUTH of a relay
\* that answered with another key does not verify.
finishHandshake ==
    IF hops + 1 \in stale THEN handler' = "closed" /\ cont' = "reject"
                          ELSE handler' = "idle" /\ cont' = "resolve"

onCreated ==
    /\ FromGuard("CREATED")
    /\ IF handler # "create" THEN UNCHANGED <<handler, cont, frag>>
       ELSE /\ frag' = ingest(frag)
            /\ IF Complete(frag) THEN finishHandshake ELSE UNCHANGED <<handler, cont>>
    /\ UNCHANGED <<result, hops, cf, cb, df, db, told, relays, dn,
                   broken, stale, dropped>>

\* CMD_RELAY at the client: every known backward layer is peeled, and the
\* hop whose digest matches is the sender.
onRelay ==
    /\ FromGuard("RELAY")
    /\ LET m == Head(up[1])
           layers == applyLayers(m.layers, decryptInbound(hops, cb))
           match == {i \in 1..hops : Matches(m.plain, layers, i, db[i])}
           i == CHOOSE j \in match : TRUE
       IN  IF handler = "closed" THEN UNCHANGED <<client, dropped>>
           ELSE /\ cb' = Advance(cb, hops, 1)
                /\ dropped' = (dropped \/ match = {})
                /\ db' = IF match = {} THEN db ELSE [db EXCEPT ![i] = @ + 1]
                /\ IF match = {} \/ m.plain.kind # "EXTENDED" \/ handler # "extend"
                   THEN UNCHANGED <<handler, cont, frag>>
                   ELSE /\ frag' = ingest(frag)
                        /\ IF Complete(frag) THEN finishHandshake
                                             ELSE UNCHANGED <<handler, cont>>
                /\ UNCHANGED <<result, hops, cf, df, told>>
    /\ UNCHANGED <<relays, dn, broken, stale>>

\* CMD_DESTROY at the client: what is pending fails, and onDestroy is called.
onDestroyAtClient ==
    /\ FromGuard("DESTROY")
    /\ IF handler = "closed" THEN UNCHANGED <<handler, cont, told>>
       ELSE /\ handler' = "closed"
            /\ cont' = IF handler \in {"create", "extend"} THEN "reject" ELSE cont
            /\ told' = TRUE
    /\ UNCHANGED <<result, hops, cf, cb, df, db, frag, relays, dn,
                   broken, stale, dropped>>

\* buildCircuit resumes with the keys of the next hop.  On the last hop it
\* returns; otherwise it builds the EXTEND cells, and handler.beginExtend
\* throws when the handler was closed meanwhile, which ends in cleanup.
resumeResolved ==
    /\ cont = "resolve"
    /\ cont' = "none"
    /\ hops' = hops + 1
    /\ frag' = 0
    /\ IF hops + 1 = N
       THEN result' = "built" /\ UNCHANGED <<handler, cf, df, dn>>
       ELSE /\ df' = [df EXCEPT ![hops'] = @ + Frags]
            /\ cf' = Advance(cf, hops', Frags)
            /\ IF handler = "idle"
               THEN /\ handler' = "extend"
                    /\ SendDn(1, Outbound(hops + 1, "EXTEND", Frags))
                    /\ UNCHANGED result
               ELSE /\ result' = "failed"
                    /\ SendDn(1, <<Cell("DESTROY")>>)
                    /\ UNCHANGED handler
    /\ UNCHANGED <<cb, db, told, relays, up, broken, stale, dropped>>

\* Mutant: the catch of buildCircuit rethrows without telling the guard.
cleanupSilent ==
    /\ result' = "failed" /\ handler' = "closed" /\ cont' = "none"
    /\ dn' = dn
    /\ UNCHANGED <<hops, cf, cb, df, db, frag, told, relays, up,
                   broken, stale, dropped>>

\* cleanup: the handler is unregistered and closed, and the guard told.
cleanup ==
    /\ result' = "failed" /\ handler' = "closed" /\ cont' = "none"
    /\ SendDn(1, <<Cell("DESTROY")>>)
    /\ UNCHANGED <<hops, cf, cb, df, db, frag, told, relays, up,
                   broken, stale, dropped>>

resumeRejected == cont = "reject" /\ cleanup

\* withTimeout: the hop's promise is still pending after handshakeTimeoutMs.
hopTimeout == cont = "none" /\ handler \in {"create", "extend"} /\ cleanup

\* sendForward of the streams, the descriptor fetch or the rendezvous client.
sendForward ==
    /\ result = "built"
    /\ df[N] < MaxData
    /\ SendDn(1, Outbound(hops, "DATA", 1))
    /\ df' = [df EXCEPT ![hops] = @ + 1]
    /\ cf' = Advance(cf, hops, 1)
    /\ UNCHANGED <<handler, cont, result, hops, cb, db, frag, told,
                   relays, up, broken, stale, dropped>>

-----------------------------------------------------------------------------
(* Relay i                                                                 *)

FromPrev(i, cmd) ==
    dn[i] # <<>> /\ Head(dn[i]).cmd = cmd

FromNext(i, cmd) ==
    i < N /\ up[i + 1] # <<>> /\ Head(up[i + 1]).cmd = cmd

\* Takes the head of dn[i] and appends to dn[i+1] at once.
PassDn(i, cells) ==
    dn' = [j \in Hops |-> IF j = i THEN Tail(dn[j])
                          ELSE IF j = i + 1 /\ j \notin broken THEN dn[j] \o cells
                          ELSE dn[j]]

PassUp(i, cells) ==
    up' = [j \in Hops |-> IF j = i + 1 THEN Tail(up[j])
                          ELSE IF j = i /\ j \notin broken THEN up[j] \o cells
                          ELSE up[j]]

\* destroyCircuit tells both sides.
destroyCircuit(i) ==
    /\ role' = [role EXCEPT ![i] = "destroyed"]
    /\ SendUp(i, <<Cell("DESTROY")>>)
    /\ IF ext[i] THEN SendDn(i + 1, <<Cell("DESTROY")>>) ELSE dn' = dn

onInboundCreate(i) ==
    /\ FromPrev(i, "CREATE")
    /\ PassDn(i, <<>>)
    /\ \/ /\ role[i] = "destroyed"
          /\ UNCHANGED <<role, inFrag, up>>
       \/ /\ role[i] \in {"none", "pending-create"}
          /\ inFrag' = [inFrag EXCEPT ![i] = ingest(@)]
          /\ IF Complete(inFrag[i])
             THEN /\ role' = [role EXCEPT ![i] = "established"]
                  /\ SendUp(i, [k \in 1..Frags |-> Cell("CREATED")])
             ELSE role' = [role EXCEPT ![i] = "pending-create"] /\ UNCHANGED up
    /\ UNCHANGED <<client, outFrag, dial, ext, rf, rb, gf, gb, served, replied,
                   broken, stale, dropped>>

\* relayPeelForward.
relayPeelForward(i, m) == applyLayers(m.layers, {<<i, "f", rf[i]>>})

\* A RELAY cell from the client's side: peeled; recognised by this hop's
\* digest, or passed on, or dropped by the last hop.
onInboundRelay(i) ==
    /\ FromPrev(i, "RELAY")
    /\ LET m == Head(dn[i])
           layers == relayPeelForward(i, m)
           match == Matches(m.plain, layers, i, gf[i])
           extend == match /\ m.plain.kind = "EXTEND"
       IN  IF role[i] \notin {"established", "extending"}
           THEN PassDn(i, <<>>) /\ UNCHANGED <<relays, dropped>>
           ELSE /\ rf' = [rf EXCEPT ![i] = @ + 1]
                /\ gf' = IF match THEN [gf EXCEPT ![i] = @ + 1] ELSE gf
                /\ inFrag' = IF extend THEN [inFrag EXCEPT ![i] = ingest(@)] ELSE inFrag
                /\ dial' = [dial EXCEPT ![i] = @ \/ (extend /\ Complete(inFrag[i]))]
                /\ served' = IF match /\ m.plain.kind = "DATA"
                             THEN [served EXCEPT ![i] = @ + 1] ELSE served
                /\ PassDn(i, IF match \/ ~ext[i] THEN <<>> ELSE <<Relay(m.plain, layers)>>)
                /\ dropped' = (dropped \/ (~match /\ ~ext[i]))
                /\ UNCHANGED <<role, outFrag, ext, rb, gb, replied>>
    /\ UNCHANGED <<client, up, broken, stale>>

\* ensureLink resolved: CREATE goes to the next hop unless the circuit died.
extendDialed(i) ==
    /\ dial[i]
    /\ i < N
    /\ dial' = [dial EXCEPT ![i] = FALSE]
    /\ IF role[i] = "destroyed" THEN UNCHANGED <<role, ext, dn>>
       ELSE /\ role' = [role EXCEPT ![i] = "extending"]
            /\ ext' = [ext EXCEPT ![i] = TRUE]
            /\ SendDn(i + 1, [k \in 1..Frags |-> Cell("CREATE")])
    /\ UNCHANGED <<client, inFrag, outFrag, rf, rb, gf, gb, served, replied, up,
                   broken, stale, dropped>>

\* ensureLink rejected.
extendDialFailed(i) ==
    /\ dial[i]
    /\ dial' = [dial EXCEPT ![i] = FALSE]
    /\ IF role[i] = "destroyed" THEN UNCHANGED <<role, dn, up>> ELSE destroyCircuit(i)
    /\ UNCHANGED <<client, inFrag, outFrag, ext, rf, rb, gf, gb, served, replied,
                   broken, stale, dropped>>

\* The last CREATED fragment of the next hop becomes EXTENDED cells.
onOutboundCreated(i) ==
    /\ FromNext(i, "CREATED")
    /\ IF role[i] # "extending"
       THEN PassUp(i, <<>>) /\ UNCHANGED <<role, outFrag, rb, gb>>
       ELSE /\ outFrag' = [outFrag EXCEPT ![i] = ingest(@)]
            /\ IF Complete(outFrag[i])
               THEN /\ PassUp(i, Backward(i, "EXTENDED", Frags))
                    /\ role' = [role EXCEPT ![i] = "established"]
                    /\ rb' = [rb EXCEPT ![i] = @ + Frags]
                    /\ gb' = [gb EXCEPT ![i] = @ + Frags]
               ELSE PassUp(i, <<>>) /\ UNCHANGED <<role, rb, gb>>
    /\ UNCHANGED <<client, inFrag, dial, ext, rf, gf, served, replied, dn, broken,
                   stale, dropped>>

\* A backward cell gets this hop's layer and goes on toward the client.
onOutboundRelay(i) ==
    /\ FromNext(i, "RELAY")
    /\ LET m == Head(up[i + 1])
       IN  IF role[i] = "destroyed" THEN PassUp(i, <<>>) /\ UNCHANGED rb
           ELSE /\ PassUp(i, <<Relay(m.plain, applyLayers(m.layers, {<<i, "b", rb[i]>>}))>>)
                /\ rb' = [rb EXCEPT ![i] = @ + 1]
    /\ UNCHANGED <<client, role, inFrag, outFrag, dial, ext, rf, gf, gb, served,
                   replied, dn, broken, stale, dropped>>

\* The exit answers what it was sent (sendBackward of its roles).
sendBackward(i) ==
    /\ role[i] \in {"established", "extending"}
    /\ replied[i] < served[i]
    /\ SendUp(i, Backward(i, "DATA", 1))
    /\ rb' = [rb EXCEPT ![i] = @ + 1]
    /\ gb' = [gb EXCEPT ![i] = @ + 1]
    /\ replied' = [replied EXCEPT ![i] = @ + 1]
    /\ UNCHANGED <<client, role, inFrag, outFrag, dial, ext, rf, gf, served, dn,
                   broken, stale, dropped>>

\* DESTROY from the client's side goes on to the next hop.
onDestroyFromPrev(i) ==
    /\ FromPrev(i, "DESTROY")
    /\ IF role[i] \in Live
       THEN /\ role' = [role EXCEPT ![i] = "destroyed"]
            /\ PassDn(i, IF ext[i] THEN <<Cell("DESTROY")>> ELSE <<>>)
       ELSE PassDn(i, <<>>) /\ UNCHANGED role
    /\ UNCHANGED <<client, inFrag, outFrag, dial, ext, rf, rb, gf, gb, served,
                   replied, up, broken, stale, dropped>>

\* Mutant: DESTROY from the next hop ends the circuit here and goes no further.
onDestroyFromNextKept(i) ==
    /\ FromNext(i, "DESTROY")
    /\ role' = [role EXCEPT ![i] = "destroyed"]
    /\ PassUp(i, <<>>)
    /\ UNCHANGED <<client, inFrag, outFrag, dial, ext, rf, rb, gf, gb, served,
                   replied, dn, broken, stale, dropped>>

\* DESTROY from the next hop goes on toward the client.
onDestroyFromNext(i) ==
    /\ FromNext(i, "DESTROY")
    /\ IF role[i] \in Live
       THEN /\ role' = [role EXCEPT ![i] = "destroyed"]
            /\ PassUp(i, <<Cell("DESTROY")>>)
       ELSE PassUp(i, <<>>) /\ UNCHANGED role
    /\ UNCHANGED <<client, inFrag, outFrag, dial, ext, rf, rb, gf, gb, served,
                   replied, dn, broken, stale, dropped>>

\* closeAll of the relay's dispatcher, at shutdown.
relayCloseAll(i) ==
    /\ role[i] \in Live
    /\ destroyCircuit(i)
    /\ UNCHANGED <<client, inFrag, outFrag, dial, ext, rf, rb, gf, gb, served,
                   replied, broken, stale, dropped>>

\* The connection between i-1 and i is lost with what is in flight; neither
\* end tears its circuits down.
linkLost(i) ==
    /\ i \notin broken /\ Cardinality(broken) < MaxLoss
    /\ broken' = broken \cup {i}
    /\ dn' = [dn EXCEPT ![i] = <<>>]
    /\ up' = [up EXCEPT ![i] = <<>>]
    /\ UNCHANGED <<client, relays, stale, dropped>>

-----------------------------------------------------------------------------
ClientStep ==
    \/ onCreated \/ onRelay \/ onDestroyAtClient
    \/ resumeResolved \/ resumeRejected \/ hopTimeout

RelayStep(i) ==
    \/ onInboundCreate(i) \/ onInboundRelay(i)
    \/ extendDialed(i)
    \/ onOutboundCreated(i) \/ onOutboundRelay(i)
    \/ onDestroyFromPrev(i) \/ onDestroyFromNext(i)

Next ==
    \/ ClientStep \/ sendForward
    \/ \E i \in Hops :
         \/ RelayStep(i) \/ extendDialFailed(i)
         \/ sendBackward(i)
         \/ relayCloseAll(i) \/ linkLost(i)

\* Frames arrive, microtasks and timers run, ensureLink settles.
Fairness ==
    /\ WF_vars(ClientStep)
    /\ \A i \in Hops : WF_vars(RelayStep(i))

Spec == Init /\ [][Next]_vars
FairSpec == Spec /\ Fairness

-----------------------------------------------------------------------------
(* Properties                                                              *)

TypeOK ==
    /\ handler \in {"idle", "create", "extend", "closed"}
    /\ cont \in {"none", "resolve", "reject"}
    /\ result \in {"building", "built", "failed"}
    /\ hops \in 0..N
    /\ {cf, cb, df, db, rf, rb, gf, gb, served, replied} \subseteq [Hops -> Nat]
    /\ frag \in 0..Frags - 1
    /\ {inFrag, outFrag} \subseteq [Hops -> 0..Frags - 1]
    /\ role \in [Hops -> Live \cup {"none", "destroyed"}]
    /\ {dial, ext} \subseteq [Hops -> BOOLEAN]
    /\ {told, dropped} \subseteq BOOLEAN
    /\ broken \subseteq Hops /\ stale \subseteq Hops

\* The client and every relay decode one another for the life of the
\* circuit: no RELAY cell is ever left unrecognised at the end of its way.
EveryCellRecognised == ~dropped

\* A cell that carries a forward layer of hop i, and the counter of it.
CarriesLayer(cell, i) == cell.cmd = "RELAY" /\ \E x \in cell.layers : x[1] = i /\ x[2] = "f"
CounterOn(cell, i) == (CHOOSE x \in cell.layers : x[1] = i /\ x[2] = "f")[3]

\* The cells under way to hop i, at <<link, position>>: nearer to the hop on a
\* later link, or further ahead on one.
UnderWay(i) == {p \in UNION {{j} \X DOMAIN dn[j] : j \in 1..i} :
                  CarriesLayer(dn[p[1]][p[2]], i)}
CounterAt(p, i) == CounterOn(dn[p[1]][p[2]], i)
Nearer(p, q) == p[1] > q[1] \/ (p[1] = q[1] /\ p[2] < q[2])

\* As long as nothing between them was torn down, the cells under way from
\* the client to hop i carry, in order, exactly the counters from the one
\* the relay will peel next to the one before the client's: encryption and
\* peeling cannot drift apart, whatever is in flight.
CountersInStep ==
    \A i \in 1..hops :
        (/\ 1..i \cap broken = {} /\ result # "failed" /\ handler # "closed"
         /\ \A j \in 1..i : role[j] # "destroyed")
        => /\ {CounterAt(p, i) : p \in UnderWay(i)} = rf[i]..(cf[i] - 1)
           /\ \A p, q \in UnderWay(i) : Nearer(p, q) => CounterAt(p, i) < CounterAt(q, i)

\* The client holds the keys of a hop only if that relay completed the
\* handshake of this circuit, and it never uses a relay whose key is not
\* the one the consensus names.
KeysAgree == \A i \in 1..hops : role[i] \notin {"none", "pending-create"} /\ i \notin stale

\* buildCircuit settles, whatever the relays do.
BuildSettles == <>(result # "building")

\* As long as the links hold, a failed build leaves nothing behind: every
\* relay that had a part of the circuit gives it up.
FailedBuildCleansUp ==
    [](broken = {}) =>
        ((result = "failed") ~> [](\A i \in Hops : role[i] \notin Live))

\* As long as the links hold, the client's handler closes when any relay
\* gives the circuit up.
ClientLearns ==
    [](broken = {}) =>
        ((\E i \in Hops : role[i] = "destroyed") ~> (handler = "closed"))

\* Client and relays agree on the layers of a circuit from its first cell to
\* its end: on their keys, on the counters of the cells under way, and so on
\* the meaning of every cell.
LayersAgree == TypeOK /\ KeysAgree /\ CountersInStep /\ EveryCellRecognised

\* A build settles whatever the relays do, and one that failed leaves nothing
\* behind as long as the links hold (hopTimeout and cleanup of buildCircuit).
BuildsEnd == BuildSettles /\ FailedBuildCleansUp
=============================================================================
