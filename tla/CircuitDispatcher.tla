------------------------- MODULE CircuitDispatcher -------------------------
(***************************************************************************)
(* The relay-side circuit dispatcher, modules/v2-runtime/                  *)
(* circuit_dispatcher.mjs: the one onCell callback that every              *)
(* authenticated link of a relay feeds, and the per-circuit state machine  *)
(* behind it.                                                              *)
(*                                                                         *)
(* A circuit object has an inbound side (the link and circuit id its       *)
(* CREATE came on) and, once extended, an outbound side.  The map          *)
(* `circuits' finds an object by <<peer fingerprint, circuit id>>, while   *)
(* the handlers compare LINK OBJECTS: after a reconnect two link objects   *)
(* have one fingerprint.  EXTEND is the only asynchronous handler: it      *)
(* awaits LinkManager.ensureLink, and every other handler may run for the  *)
(* same circuit before it resumes.                                         *)
(*                                                                         *)
(* The peers are an environment that may send any cell on any open link.   *)
(* Cell contents are reduced to what the handlers branch on: a handshake   *)
(* fragment is the next one or a bad one, and a RELAY cell is of one of    *)
(* the kinds that handleRelayAtHop returns.                                *)
(***************************************************************************)
EXTENDS Naturals

CONSTANTS Links,        \* link objects (one per completed link handshake)
          Peers,        \* peer fingerprints
          PeerOf,       \* link.peerFingerprintHex
          Cids,         \* circuit ids
          Objs,         \* identities of circuit objects
          NoSide,       \* the null of circuit.outbound
          NoObj,        \* no circuit object
          CreateFrags,  \* cells of a CREATE message
          CreatedFrags, \* cells of a CREATED message
          MaxDials      \* bound: EXTENDs of one circuit awaiting ensureLink

ASSUME LinksAssumption == PeerOf \in [Links -> Peers]
ASSUME FragsAssumption == CreateFrags \in Nat \ {0} /\ CreatedFrags \in Nat \ {0}
ASSUME DialsAssumption == MaxDials \in Nat \ {0}

Sides == [link : Links, cid : Cids]
Keys == Peers \X Cids

ASSUME NullsAssumption == NoSide \notin Sides /\ NoObj \notin Objs

Side(l, c) == [link |-> l, cid |-> c]
keyOf(s) == <<PeerOf[s.link], s.cid>>

Commands == {"CREATE", "CREATED", "RELAY", "DESTROY"}
Cells == [link : Links, cid : Cids, cmd : Commands]
Cell(s, cmd) == [link |-> s.link, cid |-> s.cid, cmd |-> cmd]

LiveRoles == {"pending-create", "established", "extending"}

VARIABLES
    circuits,  \* the Map: a function from some of Keys to Objs
    role,      \* circuit.role, "free" for an object not yet allocated
    inb, outb, \* circuit.inbound and circuit.outbound
    frags,     \* CREATE fragments in circuit.createReassembler
    created,   \* CREATED fragments in circuit.createdReassembler
    dials,     \* beginExtend calls of the circuit awaiting ensureLink
    splice,    \* the partner behind circuit.spliceHandler
    linkState, \* "new", "up" or "down"
    got,       \* the cell this step handled ({} when it handled none)
    sent       \* the cells this step handed to open links

vars == <<circuits, role, inb, outb, frags, created, dials, splice,
          linkState, got, sent>>

up(l) == linkState[l] = "up"
Live(o) == role[o] \in LiveRoles
SidesOf(o) == {inb[o], outb[o]} \ {NoSide}
KeysOf(o) == {keyOf(s) : s \in SidesOf(o)}

Put(m, k, o) == [x \in DOMAIN m \cup {k} |-> IF x = k THEN o ELSE m[x]]
Without(m, ks) == [x \in DOMAIN m \ ks |-> m[x]]

\* link.sendCell hands the cell to the transport, which drops it silently
\* once the link is closed.
Emit(cells) == sent' = {m \in cells : up(m.link)}

TypeOK ==
    /\ DOMAIN circuits \subseteq Keys
    /\ \A k \in DOMAIN circuits : circuits[k] \in Objs
    /\ role \in [Objs -> LiveRoles \cup {"free", "destroyed"}]
    /\ inb \in [Objs -> Sides \cup {NoSide}]
    /\ outb \in [Objs -> Sides \cup {NoSide}]
    /\ frags \in [Objs -> 0..CreateFrags]
    /\ created \in [Objs -> 0..CreatedFrags]
    /\ dials \in [Objs -> 0..MaxDials]
    /\ splice \in [Objs -> Objs \cup {NoObj}]
    /\ linkState \in [Links -> {"new", "up", "down"}]
    /\ got \subseteq Cells
    /\ sent \subseteq Cells

Init ==
    /\ circuits = [k \in {} |-> NoObj]
    /\ role = [o \in Objs |-> "free"]
    /\ inb = [o \in Objs |-> NoSide]
    /\ outb = [o \in Objs |-> NoSide]
    /\ frags = [o \in Objs |-> 0]
    /\ created = [o \in Objs |-> 0]
    /\ dials = [o \in Objs |-> 0]
    /\ splice = [o \in Objs |-> NoObj]
    /\ linkState = [l \in Links |-> "new"]
    /\ got = {}
    /\ sent = {}

-----------------------------------------------------------------------------
(* Lookup, and the two ways a circuit ends.                                *)

\* A cell of command cmd on circuit id c of the open link l.
Receive(l, c, cmd) == up(l) /\ got' = {Cell(Side(l, c), cmd)}

\* onCell's lookup: o is the circuit the map holds under the cell's key.
Found(l, c, o) ==
    /\ keyOf(Side(l, c)) \in DOMAIN circuits
    /\ circuits[keyOf(Side(l, c))] = o

NotFound(l, c) == keyOf(Side(l, c)) \notin DOMAIN circuits

isInboundSide(l, c, o) == inb[o] = Side(l, c)
isOutboundSide(l, c, o) == outb[o] = Side(l, c)

\* destroyCircuit: a no-op on a destroyed circuit; otherwise DESTROY goes to
\* both sides and both keys leave the map.
destroyCircuit(o) ==
    IF role[o] = "destroyed"
    THEN sent' = {} /\ UNCHANGED <<role, circuits>>
    ELSE /\ role' = [role EXCEPT ![o] = "destroyed"]
         /\ circuits' = Without(circuits, KeysOf(o))
         /\ Emit({Cell(s, "DESTROY") : s \in SidesOf(o)})

\* A destroyed object that nothing refers to any more is garbage: its
\* identity may be used for a new circuit.
Garbage(o) ==
    /\ role[o] = "destroyed"
    /\ dials[o] = 0
    /\ \A k \in DOMAIN circuits : circuits[k] # o
    /\ \A p \in Objs : Live(p) => splice[p] # o

Fresh(o) == role[o] = "free" \/ Garbage(o)

-----------------------------------------------------------------------------
(* CMD_CREATE                                                              *)

\* First fragment of a CREATE on an unknown key: the circuit is registered
\* and the fragment ingested.
onInboundCreateFirst(l, c, o) ==
    /\ NotFound(l, c)
    /\ Fresh(o)
    /\ Receive(l, c, "CREATE")
    /\ inb' = [inb EXCEPT ![o] = Side(l, c)]
    /\ outb' = [outb EXCEPT ![o] = NoSide]
    /\ created' = [created EXCEPT ![o] = 0]
    /\ frags' = [frags EXCEPT ![o] = 1]
    /\ splice' = [splice EXCEPT ![o] = NoObj]
    /\ circuits' = Put(circuits, keyOf(Side(l, c)), o)
    /\ role' = [role EXCEPT ![o] = IF CreateFrags = 1 THEN "established"
                                                      ELSE "pending-create"]
    /\ Emit(IF CreateFrags = 1 THEN {Cell(Side(l, c), "CREATED")} ELSE {})
    /\ UNCHANGED <<dials, linkState>>

\* First fragment of a CREATE, and it is malformed: the circuit that was
\* just registered is destroyed again.
onInboundCreateBadFirst(l, c, o) ==
    /\ NotFound(l, c)
    /\ Fresh(o)
    /\ Receive(l, c, "CREATE")
    /\ inb' = [inb EXCEPT ![o] = Side(l, c)]
    /\ outb' = [outb EXCEPT ![o] = NoSide]
    /\ created' = [created EXCEPT ![o] = 0]
    /\ frags' = [frags EXCEPT ![o] = 0]
    /\ splice' = [splice EXCEPT ![o] = NoObj]
    /\ role' = [role EXCEPT ![o] = "destroyed"]
    /\ Emit({Cell(Side(l, c), "DESTROY")})
    /\ UNCHANGED <<circuits, dials, linkState>>

\* A further fragment; the last one completes the ntor handshake, and the
\* CREATED cells go back on the same link.
onInboundCreateNext(l, c, o) ==
    /\ Found(l, c, o)
    /\ isInboundSide(l, c, o)
    /\ role[o] = "pending-create"
    /\ Receive(l, c, "CREATE")
    /\ frags' = [frags EXCEPT ![o] = @ + 1]
    /\ IF frags[o] + 1 = CreateFrags
       THEN /\ role' = [role EXCEPT ![o] = "established"]
            /\ Emit({Cell(Side(l, c), "CREATED")})
       ELSE role' = role /\ sent' = {}
    /\ UNCHANGED <<circuits, inb, outb, created, dials, splice, linkState>>

\* The CREATE cells that end in destroyCircuit: a bad fragment or a failed
\* handshake while pending ('create-failed'), a CREATE on a circuit past
\* that ('create-on-established'), and a CREATE whose key is known but whose
\* link is not the circuit's inbound link ('create-on-outbound': the
\* outbound side, or a reconnected link of the same peer).
onCreateRefused(l, c, o) ==
    /\ Found(l, c, o)
    /\ Receive(l, c, "CREATE")
    /\ destroyCircuit(o)
    /\ UNCHANGED <<inb, outb, frags, created, dials, splice, linkState>>

-----------------------------------------------------------------------------
(* CMD_RELAY on the inbound side (forward direction)                       *)

\* The circuit a forward RELAY cell is handled for.
ForwardRelay(l, c, o) ==
    /\ Found(l, c, o)
    /\ isInboundSide(l, c, o)
    /\ ~isOutboundSide(l, c, o)
    /\ Receive(l, c, "RELAY")

\* RELAY before the CREATE is complete ('relay-before-create'), or a cell
\* handleRelayAtHop finds structurally wrong ('relay-malformed').
onInboundRelayRefused(l, c, o) ==
    /\ ForwardRelay(l, c, o)
    /\ destroyCircuit(o)
    /\ UNCHANGED <<inb, outb, frags, created, dials, splice, linkState>>

\* A cell whose digest is not this hop's: to the outbound link, else to the
\* splice partner, else dropped.
onInboundRelayForward(l, c, o) ==
    /\ ForwardRelay(l, c, o)
    /\ role[o] # "pending-create"
    /\ Emit(IF outb[o] # NoSide THEN {Cell(outb[o], "RELAY")}
            ELSE IF splice[o] # NoObj THEN {Cell(inb[splice[o]], "RELAY")}
            ELSE {})
    /\ UNCHANGED <<circuits, role, inb, outb, frags, created, dials, splice,
                   linkState>>

\* A complete EXTEND that beginExtend refuses: the circuit already has an
\* outbound ('duplicate-extend') or the resolver does not know the next hop
\* ('extend-unknown-peer').
beginExtendRefused(l, c, o) ==
    /\ ForwardRelay(l, c, o)
    /\ role[o] # "pending-create"
    /\ destroyCircuit(o)
    /\ UNCHANGED <<inb, outb, frags, created, dials, splice, linkState>>

\* Mutant: no test for an outbound side that is already there.
beginExtendAgain(l, c, o) ==
    /\ ForwardRelay(l, c, o)
    /\ role[o] # "pending-create"
    /\ dials[o] < MaxDials
    /\ dials' = [dials EXCEPT ![o] = @ + 1]
    /\ sent' = {}
    /\ UNCHANGED <<circuits, role, inb, outb, frags, created, splice, linkState>>

\* A complete EXTEND up to its await of ensureLink.
beginExtend(l, c, o) ==
    /\ ForwardRelay(l, c, o)
    /\ role[o] # "pending-create"
    /\ outb[o] = NoSide
    /\ dials[o] < MaxDials
    /\ dials' = [dials EXCEPT ![o] = @ + 1]
    /\ sent' = {}
    /\ UNCHANGED <<circuits, role, inb, outb, frags, created, splice, linkState>>

\* A RENDEZVOUS1 for this hop, handed to rp_role through onExitData: p is the
\* circuit that registered the cookie.  spliceCircuits links the two and
\* RENDEZVOUS2 goes back on p.  Nothing removes p's cookie when p dies.
rendezvousSplice(l, c, o, p) ==
    /\ ForwardRelay(l, c, o)
    /\ role[o] # "pending-create"
    /\ role[p] \in {"established", "extending", "destroyed"}
    /\ inb[p] # NoSide
    /\ splice' = [splice EXCEPT ![o] = p, ![p] = o]
    /\ Emit({Cell(inb[p], "RELAY")})
    /\ UNCHANGED <<circuits, role, inb, outb, frags, created, dials, linkState>>

-----------------------------------------------------------------------------
(* beginExtend resumes                                                     *)

\* Mutant: the role is not looked at again after the await.
extendDialedUnchecked(o, n, c) ==
    /\ dials[o] > 0
    /\ up(n)
    /\ NotFound(n, c)
    /\ got' = {}
    /\ dials' = [dials EXCEPT ![o] = @ - 1]
    /\ outb' = [outb EXCEPT ![o] = Side(n, c)]
    /\ created' = [created EXCEPT ![o] = 0]
    /\ role' = [role EXCEPT ![o] = "extending"]
    /\ circuits' = Put(circuits, keyOf(Side(n, c)), o)
    /\ Emit({Cell(Side(n, c), "CREATE")})
    /\ UNCHANGED <<inb, frags, splice, linkState>>

\* ensureLink resolved with link n: unless the circuit died meanwhile, a
\* circuit id that is unused on that link is allocated, the outbound side
\* registered and CREATE sent on it.
extendDialed(o, n, c) ==
    /\ dials[o] > 0
    /\ up(n)
    /\ NotFound(n, c)
    /\ got' = {}
    /\ dials' = [dials EXCEPT ![o] = @ - 1]
    /\ IF role[o] = "destroyed"
       THEN sent' = {} /\ UNCHANGED <<circuits, role, outb, created>>
       ELSE /\ outb' = [outb EXCEPT ![o] = Side(n, c)]
            /\ created' = [created EXCEPT ![o] = 0]
            /\ role' = [role EXCEPT ![o] = "extending"]
            /\ circuits' = Put(circuits, keyOf(Side(n, c)), o)
            /\ Emit({Cell(Side(n, c), "CREATE")})
    /\ UNCHANGED <<inb, frags, splice, linkState>>

\* ensureLink rejected ('extend-dial-failed').
extendDialFailed(o) ==
    /\ dials[o] > 0
    /\ got' = {}
    /\ dials' = [dials EXCEPT ![o] = @ - 1]
    /\ destroyCircuit(o)
    /\ UNCHANGED <<inb, outb, frags, created, splice, linkState>>

-----------------------------------------------------------------------------
(* The outbound side                                                       *)

\* A CREATED fragment; the last one turns into EXTENDED cells on the inbound
\* link and the circuit spans both sides.
onOutboundCreated(l, c, o) ==
    /\ Found(l, c, o)
    /\ isOutboundSide(l, c, o)
    /\ role[o] = "extending"
    /\ Receive(l, c, "CREATED")
    /\ created' = [created EXCEPT ![o] = @ + 1]
    /\ IF created[o] + 1 = CreatedFrags
       THEN /\ role' = [role EXCEPT ![o] = "established"]
            /\ Emit({Cell(inb[o], "RELAY")})
       ELSE role' = role /\ sent' = {}
    /\ UNCHANGED <<circuits, inb, outb, frags, dials, splice, linkState>>

\* A bad CREATED fragment or a message of the wrong size.
onOutboundCreatedBad(l, c, o) ==
    /\ Found(l, c, o)
    /\ isOutboundSide(l, c, o)
    /\ role[o] = "extending"
    /\ Receive(l, c, "CREATED")
    /\ destroyCircuit(o)
    /\ UNCHANGED <<inb, outb, frags, created, dials, splice, linkState>>

\* A backward RELAY cell: wrapped and sent on the inbound link.
onOutboundRelay(l, c, o) ==
    /\ Found(l, c, o)
    /\ isOutboundSide(l, c, o)
    /\ role[o] # "destroyed"
    /\ Receive(l, c, "RELAY")
    /\ Emit({Cell(inb[o], "RELAY")})
    /\ UNCHANGED <<circuits, role, inb, outb, frags, created, dials, splice,
                   linkState>>

-----------------------------------------------------------------------------
(* DESTROY, dropped cells, links, shutdown                                 *)

\* Mutant: DESTROY is passed on toward the successor only.
onDestroyForwardOnly(l, c, o) ==
    /\ Found(l, c, o)
    /\ Receive(l, c, "DESTROY")
    /\ Emit({Cell(s, "DESTROY") : s \in {outb[o]} \ {NoSide, Side(l, c)}})
    /\ role' = [role EXCEPT ![o] = "destroyed"]
    /\ circuits' = Without(circuits, KeysOf(o))
    /\ UNCHANGED <<inb, outb, frags, created, dials, splice, linkState>>

\* DESTROY from a peer: propagated to the other side, which is the inbound
\* one whenever the cell did not come on the inbound link.
onDestroy(l, c, o) ==
    /\ Found(l, c, o)
    /\ Receive(l, c, "DESTROY")
    /\ LET other == IF isInboundSide(l, c, o) THEN outb[o] ELSE inb[o]
       IN  Emit({Cell(s, "DESTROY") : s \in {other} \ {NoSide}})
    /\ role' = [role EXCEPT ![o] = "destroyed"]
    /\ circuits' = Without(circuits, KeysOf(o))
    /\ UNCHANGED <<inb, outb, frags, created, dials, splice, linkState>>

\* The cells that change nothing: RELAY, CREATED or DESTROY on an unknown
\* key, RELAY or CREATED on a link that is neither side of the circuit,
\* CREATED when none is awaited.
dropCell(l, c, cmd) ==
    /\ Receive(l, c, cmd)
    /\ \/ NotFound(l, c) /\ cmd # "CREATE"
       \/ \E o \in Objs :
            /\ Found(l, c, o)
            /\ \/ /\ cmd = "RELAY"
                  /\ Side(l, c) \notin SidesOf(o)
               \/ /\ cmd = "CREATED"
                  /\ ~isOutboundSide(l, c, o) \/ role[o] # "extending"
    /\ sent' = {}
    /\ UNCHANGED <<circuits, role, inb, outb, frags, created, dials, splice,
                   linkState>>

\* The link manager keeps one open link per peer.
linkOpens(l) ==
    /\ linkState[l] = "new"
    /\ \A n \in Links : PeerOf[n] = PeerOf[l] => ~up(n)
    /\ linkState' = [linkState EXCEPT ![l] = "up"]
    /\ got' = {} /\ sent' = {}
    /\ UNCHANGED <<circuits, role, inb, outb, frags, created, dials, splice>>

\* onLinkClose of anon-node-v2.mjs logs; the circuits over the link stay.
linkCloses(l) ==
    /\ up(l)
    /\ linkState' = [linkState EXCEPT ![l] = "down"]
    /\ got' = {} /\ sent' = {}
    /\ UNCHANGED <<circuits, role, inb, outb, frags, created, dials, splice>>

\* closeAll, at shutdown: every circuit in the map is destroyed, the map
\* cleared.
closeAll ==
    /\ DOMAIN circuits # {}
    /\ got' = {}
    /\ LET open == {o \in Objs : /\ Live(o)
                                 /\ \E k \in DOMAIN circuits : circuits[k] = o}
       IN  /\ role' = [o \in Objs |-> IF o \in open THEN "destroyed" ELSE role[o]]
           /\ Emit({Cell(s, "DESTROY") : s \in UNION {SidesOf(o) : o \in open}})
    /\ circuits' = Without(circuits, DOMAIN circuits)
    /\ UNCHANGED <<inb, outb, frags, created, dials, splice, linkState>>

-----------------------------------------------------------------------------
CellStep(l, c, o) ==
    \/ onInboundCreateFirst(l, c, o)
    \/ onInboundCreateBadFirst(l, c, o)
    \/ onInboundCreateNext(l, c, o)
    \/ onCreateRefused(l, c, o)
    \/ onInboundRelayRefused(l, c, o)
    \/ onInboundRelayForward(l, c, o)
    \/ beginExtendRefused(l, c, o)
    \/ beginExtend(l, c, o)
    \/ \E p \in Objs : rendezvousSplice(l, c, o, p)
    \/ onOutboundCreated(l, c, o)
    \/ onOutboundCreatedBad(l, c, o)
    \/ onOutboundRelay(l, c, o)
    \/ onDestroy(l, c, o)

Next ==
    \/ \E l \in Links, c \in Cids, o \in Objs : CellStep(l, c, o)
    \/ \E l \in Links, c \in Cids, cmd \in Commands : dropCell(l, c, cmd)
    \/ \E o \in Objs, n \in Links, c \in Cids : extendDialed(o, n, c)
    \/ \E o \in Objs : extendDialFailed(o)
    \/ \E l \in Links : linkOpens(l) \/ linkCloses(l)
    \/ closeAll

Spec == Init /\ [][Next]_vars

-----------------------------------------------------------------------------
(* Properties                                                              *)

\* Every key of the map leads to a circuit that is not destroyed and that
\* really has a side with this key: no handler can reach a dead circuit, and
\* nothing stays in the map after its circuit is gone.
MapSound ==
    \A k \in DOMAIN circuits, o \in Objs :
        circuits[k] = o => Live(o) /\ k \in KeysOf(o)

\* Every circuit that is not destroyed is found under the key of each of its
\* sides, so no two circuits ever share a (peer, circuit id) and a DESTROY
\* from either neighbour finds the circuit.
MapComplete ==
    \A o \in Objs : Live(o) =>
        /\ inb[o] # NoSide
        /\ \A k \in KeysOf(o) : k \in DOMAIN circuits /\ circuits[k] = o

\* A step that destroys a circuit tells every neighbour: each side on an
\* open link is sent DESTROY in that step, unless the DESTROY came from it.
\* (A DESTROY over a link object that is no side of the circuit, which only a
\* reconnected peer could send, is left out: see the hazards.)
TeardownPropagates ==
    [][\A o \in Objs :
         (Live(o) /\ role'[o] = "destroyed") =>
            \A s \in SidesOf(o) :
                \/ ~up(s.link)
                \/ Cell(s, "DESTROY") \in sent' \cup got'
                \/ \E m \in got' : /\ m.cmd = "DESTROY"
                                   /\ Side(m.link, m.cid) \notin SidesOf(o)]_vars

\* A circuit is extended at most once: the outbound side of a circuit that is
\* not destroyed is never replaced, so the next hop that holds our CREATE is
\* always the one DESTROY and RELAY cells go to.
OutboundStable ==
    [][\A o \in Objs :
         (Live(o) /\ outb[o] # NoSide) => (outb'[o] = outb[o])]_vars

\* The circuit map and the circuit objects agree, in both directions, through
\* every creation, extension, splice and end: no handler can reach a circuit
\* that is gone, and every live one is found from either neighbour (circuits, keyOf
\* and destroyCircuit).
MapAgrees == TypeOK /\ MapSound /\ MapComplete
=============================================================================
