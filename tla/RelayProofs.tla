----------------------------- MODULE RelayProofs -----------------------------
(***************************************************************************)
(* Proofs about what passes cells and packets on:                          *)
(*   - CircuitDispatcher, for every set of links, peers, circuit ids and   *)
(*     circuit objects, when a client never has two EXTENDs of one circuit *)
(*     awaiting ensureLink (MaxDials = 1: buildCircuit sends an EXTEND     *)
(*     only after the previous one was answered);                          *)
(*   - ForwardRelay, the forwarders of the v0.1 overlay, for any nodes,    *)
(*     transports, messages, sizes and routes;                             *)
(*   - OverlayNode, the nodes of the v0.1 overlay, for finitely many of    *)
(*     them, any seed lists and any number of connections, packets and     *)
(*     faults.                                                             *)
(***************************************************************************)
EXTENDS CircuitDispatcher, ForwardRelay, OverlayNode, FiniteSetTheorems, TLAPS

-----------------------------------------------------------------------------
(* The dispatcher of a relay                                               *)


\* What the map invariants rest on: fragment counters stay below their totals
\* while fragments are awaited, and a live circuit that awaits ensureLink
\* has not been extended yet.
Shape ==
    \A o \in Objs :
        /\ role[o] = "pending-create" => frags[o] < CreateFrags
        /\ role[o] = "pending-create" => outb[o] = NoSide
        /\ role[o] = "extending" => created[o] < CreatedFrags
        /\ role[o] \in {"free", "pending-create"} => dials[o] = 0
        /\ (Live(o) /\ dials[o] > 0) => outb[o] = NoSide

\* A splice handler leads to a circuit object that exists.
SpliceShape ==
    \A o \in Objs : splice[o] # NoObj => inb[splice[o]] # NoSide

\* The inductive invariant.
IInv == TypeOK /\ Shape /\ SpliceShape /\ MapSound /\ MapComplete

-----------------------------------------------------------------------------
(* Facts about the helpers                                                 *)

\* A side built from a link and a circuit id is a Side, and its key a key.
LEMMA SideTyping ==
    ASSUME NEW l \in Links, NEW c \in Cids
    PROVE  /\ Side(l, c) \in Sides
           /\ Side(l, c) # NoSide
           /\ Side(l, c).link = l
           /\ keyOf(Side(l, c)) \in Keys
           /\ \A cmd \in Commands : Cell(Side(l, c), cmd) \in Cells
  BY LinksAssumption, NullsAssumption
  DEF Side, Sides, keyOf, Keys, Cell, Cells, Commands

\* The sides of a circuit object are Sides, and their keys keys.
LEMMA SidesTyping ==
    ASSUME TypeOK, NEW o \in Objs
    PROVE  /\ SidesOf(o) \subseteq Sides
           /\ KeysOf(o) \subseteq Keys
           /\ \A s \in SidesOf(o), cmd \in Commands : Cell(s, cmd) \in Cells
  BY LinksAssumption DEF TypeOK, SidesOf, Sides, KeysOf, keyOf, Keys, Cell, Cells

\* Destroying a live circuit, whichever handler does it, keeps the map sound
\* and complete: the keys of the circuit belong to no other circuit.
LEMMA DestroyKeepsMap ==
    ASSUME IInv, NEW o \in Objs, Live(o),
           role' = [role EXCEPT ![o] = "destroyed"],
           circuits' = Without(circuits, KeysOf(o)),
           UNCHANGED <<inb, outb>>
    PROVE  /\ DOMAIN circuits' \subseteq DOMAIN circuits
           /\ \A k \in DOMAIN circuits' : circuits'[k] = circuits[k]
           /\ MapSound' /\ MapComplete'
<1> USE DEF IInv
<1>1. /\ DOMAIN circuits' = DOMAIN circuits \ KeysOf(o)
      /\ \A k \in DOMAIN circuits' : circuits'[k] = circuits[k]
  BY DEF Without
<1>2. \A p \in Objs : KeysOf(p)' = KeysOf(p)
  BY DEF KeysOf, SidesOf, keyOf
<1>3. \A p \in Objs : Live(p)' <=> (Live(p) /\ p # o)
  BY DEF Live, LiveRoles, TypeOK
<1>4. MapSound'
  <2> SUFFICES ASSUME NEW k \in DOMAIN circuits', NEW p \in Objs, circuits'[k] = p
               PROVE  Live(p)' /\ k \in KeysOf(p)'
    BY DEF MapSound
  <2>1. k \in DOMAIN circuits /\ circuits[k] = p /\ k \notin KeysOf(o)
    BY <1>1
  <2>2. Live(p) /\ k \in KeysOf(p) /\ p # o
    BY <2>1 DEF MapSound
  <2> QED
    BY <1>2, <1>3, <2>2
<1>5. MapComplete'
  <2> SUFFICES ASSUME NEW p \in Objs, Live(p)'
               PROVE  /\ inb'[p] # NoSide
                      /\ \A k \in KeysOf(p)' : k \in DOMAIN circuits' /\ circuits'[k] = p
    BY DEF MapComplete
  <2>1. Live(p) /\ p # o
    BY <1>3
  <2>2. \A k \in KeysOf(p) : k \in DOMAIN circuits /\ circuits[k] = p
    BY <2>1 DEF MapComplete
  <2>3. \A k \in KeysOf(o) : circuits[k] = o
    BY DEF MapComplete
  <2> QED
    BY <1>1, <1>2, <2>1, <2>2, <2>3 DEF MapComplete
<1> QED
  BY <1>1, <1>4, <1>5

\* A step that leaves the map, the sides and the set of live circuits alone
\* keeps both map invariants.
LEMMA QuietKeepsMap ==
    ASSUME IInv, UNCHANGED <<circuits, inb, outb>>,
           \A o \in Objs : Live(o)' <=> Live(o)
    PROVE  MapSound' /\ MapComplete'
<1>1. \A p \in Objs : KeysOf(p)' = KeysOf(p)
  BY DEF KeysOf, SidesOf, keyOf
<1> QED
  BY <1>1 DEF IInv, MapSound, MapComplete, TypeOK

\* Registering a side under a key that the map does not have keeps it sound
\* and complete; o is a circuit that was not live, or is given its outbound
\* side.
LEMMA PutKeepsMap ==
    ASSUME IInv, NEW o \in Objs, NEW l \in Links, NEW c \in Cids, NotFound(l, c),
           circuits' = Put(circuits, keyOf(Side(l, c)), o),
           \A p \in Objs \ {o} : /\ inb'[p] = inb[p] /\ outb'[p] = outb[p]
                                 /\ Live(p)' <=> Live(p),
           Live(o)', inb'[o] # NoSide,
           \/ ~Live(o) /\ SidesOf(o)' = {Side(l, c)}
           \/ Live(o) /\ SidesOf(o)' = SidesOf(o) \cup {Side(l, c)}
    PROVE  MapSound' /\ MapComplete'
<1> DEFINE k0 == keyOf(Side(l, c))
<1> USE DEF IInv
<1>1. /\ DOMAIN circuits' = DOMAIN circuits \cup {k0}
      /\ k0 \notin DOMAIN circuits
      /\ circuits'[k0] = o
      /\ \A k \in DOMAIN circuits : circuits'[k] = circuits[k]
  BY DEF Put, NotFound
<1>2. \A p \in Objs \ {o} : KeysOf(p)' = KeysOf(p)
  BY DEF KeysOf, SidesOf, keyOf
<1>3. \/ ~Live(o) /\ KeysOf(o)' = {k0}
      \/ Live(o) /\ KeysOf(o)' = KeysOf(o) \cup {k0}
  BY DEF KeysOf, keyOf
<1>4. MapSound'
  <2> SUFFICES ASSUME NEW k \in DOMAIN circuits', NEW p \in Objs, circuits'[k] = p
               PROVE  Live(p)' /\ k \in KeysOf(p)'
    BY DEF MapSound
  <2>1. CASE k = k0
    BY <2>1, <1>1, <1>3
  <2>2. CASE k # k0
    <3>1. k \in DOMAIN circuits /\ circuits[k] = p /\ Live(p) /\ k \in KeysOf(p)
      BY <2>2, <1>1 DEF MapSound
    <3> QED
      BY <3>1, <1>2, <1>3
  <2> QED
    BY <2>1, <2>2
<1>5. MapComplete'
  <2> SUFFICES ASSUME NEW p \in Objs, Live(p)'
               PROVE  /\ inb'[p] # NoSide
                      /\ \A k \in KeysOf(p)' : k \in DOMAIN circuits' /\ circuits'[k] = p
    BY DEF MapComplete
  <2>1. CASE p = o
    BY <2>1, <1>1, <1>3 DEF MapComplete
  <2>2. CASE p # o
    BY <2>2, <1>1, <1>2 DEF MapComplete
  <2> QED
    BY <2>1, <2>2
<1> QED
  BY <1>4, <1>5

\* destroyCircuit preserves the whole invariant, in whichever handler.
LEMMA DestroyKeepsIInv ==
    ASSUME IInv, NEW o \in Objs, role[o] # "free", destroyCircuit(o),
           UNCHANGED <<inb, outb, frags, created, splice, linkState>>,
           got' \subseteq Cells,
           dials' \in [Objs -> 0..MaxDials],
           \A p \in Objs : dials'[p] <= dials[p]
    PROVE  IInv'
<1> USE DEF IInv
<1>1. CASE role[o] = "destroyed"
  <2>1. /\ sent' = {}
        /\ UNCHANGED <<role, circuits>>
    BY <1>1 DEF destroyCircuit
  <2>2. MapSound' /\ MapComplete'
    BY <2>1, QuietKeepsMap DEF Live
  <2>3. TypeOK'
    BY <2>1 DEF TypeOK
  <2>4. Shape' /\ SpliceShape'
    BY <2>1, DialsAssumption DEF Shape, SpliceShape, TypeOK, Live
  <2> QED
    BY <2>2, <2>3, <2>4
<1>2. CASE role[o] # "destroyed"
  <2>1. /\ role' = [role EXCEPT ![o] = "destroyed"]
        /\ circuits' = Without(circuits, KeysOf(o))
        /\ Emit({Cell(s, "DESTROY") : s \in SidesOf(o)})
    BY <1>2 DEF destroyCircuit
  <2>2. Live(o)
    BY <1>2 DEF Live, TypeOK, LiveRoles
  <2>3. /\ DOMAIN circuits' \subseteq DOMAIN circuits
        /\ \A k \in DOMAIN circuits' : circuits'[k] = circuits[k]
        /\ MapSound' /\ MapComplete'
    BY <2>1, <2>2, DestroyKeepsMap
  <2>4. sent' \subseteq Cells
    BY <2>1, SidesTyping DEF Emit, Commands
  <2>5. TypeOK'
    BY <2>1, <2>3, <2>4 DEF TypeOK
  <2>6. Shape' /\ SpliceShape'
    BY <2>1, DialsAssumption DEF Shape, SpliceShape, TypeOK, Live, LiveRoles
  <2> QED
    BY <2>3, <2>5, <2>6
<1> QED
  BY <1>1, <1>2

\* A cell that is looked up belongs to a live circuit.
LEMMA FoundIsLive ==
    ASSUME IInv, NEW l \in Links, NEW c \in Cids, NEW o \in Objs, Found(l, c, o)
    PROVE  Live(o) /\ role[o] # "free"
  BY DEF IInv, MapSound, Found, Live, LiveRoles

-----------------------------------------------------------------------------
(* The handlers                                                            *)

\* Handling a CREATE, RELAY, CREATED or DESTROY cell of a peer preserves the
\* invariant.
LEMMA CellStepKeepsIInv ==
    ASSUME IInv, NEW l \in Links, NEW c \in Cids, NEW o \in Objs, CellStep(l, c, o)
    PROVE  IInv'
<1> USE DEF IInv
<1>0. \A cmd \in Commands : Receive(l, c, cmd) => got' \subseteq Cells
  BY SideTyping DEF Receive
<1>d. \A p \in Objs : dials[p] <= dials[p]
  BY DialsAssumption DEF TypeOK
<1>1. CASE onInboundCreateFirst(l, c, o)
  <2> USE <1>1 DEF onInboundCreateFirst
  <2>1. Side(l, c) \in Sides /\ Side(l, c) # NoSide
    BY SideTyping
  <2>2. dials[o] = 0 /\ ~Live(o)
    BY DEF Fresh, Garbage, Shape, Live, LiveRoles
  <2>3. role'[o] \in {"established", "pending-create"} /\ Live(o)'
    BY DEF TypeOK, Live, LiveRoles
  <2>4. SidesOf(o)' = {Side(l, c)}
    BY <2>1 DEF SidesOf, TypeOK
  <2>5. \A p \in Objs \ {o} : /\ inb'[p] = inb[p] /\ outb'[p] = outb[p]
                              /\ Live(p)' <=> Live(p)
    BY DEF TypeOK, Live
  <2>6. inb'[o] # NoSide
    BY <2>1 DEF TypeOK
  <2>7. MapSound' /\ MapComplete'
    BY <2>2, <2>3, <2>4, <2>5, <2>6, PutKeepsMap
  <2>8. TypeOK'
    <3>1. DOMAIN circuits' \subseteq Keys /\ \A k \in DOMAIN circuits' : circuits'[k] \in Objs
      BY SideTyping DEF TypeOK, Put
    <3>2. sent' \subseteq Cells /\ got' \subseteq Cells
      BY SideTyping, <1>0 DEF Emit, Commands
    <3>3. role' \in [Objs -> LiveRoles \cup {"free", "destroyed"}]
      BY DEF TypeOK, LiveRoles
    <3>4. /\ inb' \in [Objs -> Sides \cup {NoSide}]
          /\ outb' \in [Objs -> Sides \cup {NoSide}]
          /\ splice' \in [Objs -> Objs \cup {NoObj}]
      BY <2>1 DEF TypeOK
    <3>5. /\ frags' \in [Objs -> 0..CreateFrags]
          /\ created' \in [Objs -> 0..CreatedFrags]
      BY FragsAssumption DEF TypeOK
    <3> QED
      BY <3>1, <3>2, <3>3, <3>4, <3>5 DEF TypeOK
  <2>9. Shape'
    <3> SUFFICES ASSUME NEW p \in Objs
                 PROVE  /\ role'[p] = "pending-create" => frags'[p] < CreateFrags
                        /\ role'[p] = "pending-create" => outb'[p] = NoSide
                        /\ role'[p] = "extending" => created'[p] < CreatedFrags
                        /\ role'[p] \in {"free", "pending-create"} => dials'[p] = 0
                        /\ (Live(p)' /\ dials'[p] > 0) => outb'[p] = NoSide
      BY DEF Shape
    <3>1. CASE p = o
      BY <3>1, <2>2, FragsAssumption DEF TypeOK
    <3>2. CASE p # o
      BY <3>2, <2>5 DEF Shape, TypeOK
    <3> QED
      BY <3>1, <3>2
  <2>10. SpliceShape'
    BY <2>1, <2>6 DEF SpliceShape, TypeOK
  <2> QED
    BY <2>7, <2>8, <2>9, <2>10
<1>2. CASE onInboundCreateBadFirst(l, c, o)
  <2> USE <1>2 DEF onInboundCreateBadFirst
  <2>1. Side(l, c) \in Sides /\ sent' \subseteq Cells /\ got' \subseteq Cells
    BY SideTyping, <1>0 DEF Emit, Commands
  <2>2. ~Live(o) /\ ~Live(o)'
    BY DEF Fresh, Garbage, Live, LiveRoles, TypeOK
  <2>3. \A p \in Objs \ {o} : /\ inb'[p] = inb[p] /\ outb'[p] = outb[p]
                              /\ role'[p] = role[p] /\ KeysOf(p)' = KeysOf(p)
                              /\ frags'[p] = frags[p] /\ created'[p] = created[p]
    BY DEF TypeOK, KeysOf, SidesOf, keyOf
  <2>4. TypeOK'
    BY <2>1, FragsAssumption DEF TypeOK, LiveRoles
  <2>5. Shape'
    BY <2>2, <2>3 DEF Shape, Live, LiveRoles, TypeOK
  <2>6. \A k \in DOMAIN circuits : circuits[k] # o
    BY <2>2 DEF MapSound
  <2>7. MapSound' /\ MapComplete'
    BY <2>2, <2>3, <2>6 DEF MapSound, MapComplete, Live
  <2>8. SpliceShape'
    BY <2>1, NullsAssumption DEF SpliceShape, TypeOK
  <2> QED
    BY <2>4, <2>5, <2>7, <2>8
<1>3. CASE onInboundCreateNext(l, c, o)
  <2> USE <1>3 DEF onInboundCreateNext
  <2>1. sent' \subseteq Cells /\ got' \subseteq Cells
    BY SideTyping, <1>0 DEF Emit, Commands
  <2>2. frags[o] < CreateFrags /\ dials[o] = 0 /\ outb[o] = NoSide
    BY DEF Shape
  <2>3. /\ role'[o] \in {"pending-create", "established"}
        /\ role'[o] = "pending-create" => frags'[o] < CreateFrags
        /\ frags' \in [Objs -> 0..CreateFrags]
        /\ role' \in [Objs -> LiveRoles \cup {"free", "destroyed"}]
        /\ \A p \in Objs \ {o} : role'[p] = role[p] /\ frags'[p] = frags[p]
    BY <2>2, FragsAssumption DEF TypeOK, LiveRoles
  <2>4. TypeOK'
    BY <2>1, <2>3 DEF TypeOK
  <2>5. Shape'
    BY <2>2, <2>3 DEF Shape, Live
  <2>6. MapSound' /\ MapComplete'
    BY <2>3, QuietKeepsMap DEF Live, LiveRoles
  <2> QED
    BY <2>4, <2>5, <2>6 DEF SpliceShape
<1>4. CASE onCreateRefused(l, c, o)
  BY <1>4, <1>0, <1>d, FoundIsLive, DestroyKeepsIInv DEF onCreateRefused, Commands, TypeOK
<1>5. CASE onInboundRelayRefused(l, c, o)
  BY <1>5, <1>0, <1>d, FoundIsLive, DestroyKeepsIInv
  DEF onInboundRelayRefused, ForwardRelay, Commands, TypeOK
<1>6. CASE onInboundRelayForward(l, c, o)
  <2> USE <1>6 DEF onInboundRelayForward, ForwardRelay
  <2>1. got' \subseteq Cells
    BY <1>0 DEF Commands
  <2>2. \A s \in Sides : Cell(s, "RELAY") \in Cells
    BY DEF Sides, Cells, Cell, Commands
  <2>3. sent' \subseteq Cells
    <3>1. CASE outb[o] # NoSide
      BY <3>1, <2>2 DEF Emit, TypeOK
    <3>2. CASE outb[o] = NoSide /\ splice[o] # NoObj
      <4>1. inb[splice[o]] \in Sides
        BY <3>2 DEF SpliceShape, TypeOK
      <4> QED
        BY <3>2, <4>1, <2>2 DEF Emit
    <3>3. CASE outb[o] = NoSide /\ splice[o] = NoObj
      BY <3>3 DEF Emit
    <3> QED
      BY <3>1, <3>2, <3>3
  <2>4. MapSound' /\ MapComplete'
    BY QuietKeepsMap DEF Live
  <2> QED
    BY <2>1, <2>3, <2>4 DEF TypeOK, Shape, SpliceShape, Live
<1>7. CASE beginExtendRefused(l, c, o)
  BY <1>7, <1>0, <1>d, FoundIsLive, DestroyKeepsIInv
  DEF beginExtendRefused, ForwardRelay, Commands, TypeOK
<1>8. CASE beginExtend(l, c, o)
  <2> USE <1>8 DEF beginExtend, ForwardRelay
  <2>1. got' \subseteq Cells /\ Live(o)
    BY <1>0, FoundIsLive DEF Commands
  <2>2. /\ dials' \in [Objs -> 0..MaxDials]
        /\ \A p \in Objs \ {o} : dials'[p] = dials[p]
    BY DialsAssumption DEF TypeOK
  <2>3. MapSound' /\ MapComplete'
    BY QuietKeepsMap DEF Live
  <2>4. TypeOK'
    BY <2>1, <2>2 DEF TypeOK
  <2>5. Shape'
    BY <2>1, <2>2 DEF Shape, Live, LiveRoles
  <2> QED
    BY <2>3, <2>4, <2>5 DEF SpliceShape
<1>9. CASE \E p \in Objs : rendezvousSplice(l, c, o, p)
  <2> PICK p \in Objs : rendezvousSplice(l, c, o, p)
    BY <1>9
  <2> USE DEF rendezvousSplice, ForwardRelay
  <2>1. got' \subseteq Cells
    BY <1>0 DEF Commands
  <2>2. inb[p] \in Sides
    BY DEF TypeOK
  <2>3. sent' \subseteq Cells
    BY <2>2 DEF Emit, Sides, Cells, Cell, Commands
  <2>4. /\ splice' \in [Objs -> Objs \cup {NoObj}]
        /\ splice'[o] \in {o, p} /\ splice'[p] = o
        /\ \A q \in Objs \ {o, p} : splice'[q] = splice[q]
    BY DEF TypeOK
  <2>5. inb[o] # NoSide
    BY SideTyping DEF isInboundSide
  <2>6. SpliceShape'
    BY <2>4, <2>5 DEF SpliceShape
  <2>7. MapSound' /\ MapComplete'
    BY QuietKeepsMap DEF Live
  <2> QED
    BY <2>1, <2>3, <2>4, <2>6, <2>7 DEF TypeOK, Shape, Live
<1>10. CASE onOutboundCreated(l, c, o)
  <2> USE <1>10 DEF onOutboundCreated
  <2>1. got' \subseteq Cells /\ inb[o] \in Sides
    BY <1>0, FoundIsLive DEF Commands, MapComplete, TypeOK
  <2>2. sent' \subseteq Cells
    BY <2>1 DEF Emit, Sides, Cells, Cell, Commands
  <2>3. created[o] < CreatedFrags
    BY DEF Shape
  <2>4. /\ role'[o] \in {"extending", "established"}
        /\ role'[o] = "extending" => created'[o] < CreatedFrags
        /\ created' \in [Objs -> 0..CreatedFrags]
        /\ role' \in [Objs -> LiveRoles \cup {"free", "destroyed"}]
        /\ \A p \in Objs \ {o} : role'[p] = role[p] /\ created'[p] = created[p]
    BY <2>3, FragsAssumption DEF TypeOK, LiveRoles
  <2>5. TypeOK'
    BY <2>1, <2>2, <2>4 DEF TypeOK
  <2>6. Shape'
    BY <2>4 DEF Shape, Live, LiveRoles
  <2>7. MapSound' /\ MapComplete'
    BY <2>4, QuietKeepsMap DEF Live, LiveRoles
  <2> QED
    BY <2>5, <2>6, <2>7 DEF SpliceShape
<1>11. CASE onOutboundCreatedBad(l, c, o)
  BY <1>11, <1>0, <1>d, FoundIsLive, DestroyKeepsIInv
  DEF onOutboundCreatedBad, Commands, TypeOK
<1>12. CASE onOutboundRelay(l, c, o)
  <2> USE <1>12 DEF onOutboundRelay
  <2>1. got' \subseteq Cells /\ inb[o] \in Sides
    BY <1>0, FoundIsLive DEF Commands, MapComplete, TypeOK
  <2>2. sent' \subseteq Cells
    BY <2>1 DEF Emit, Sides, Cells, Cell, Commands
  <2>3. MapSound' /\ MapComplete'
    BY QuietKeepsMap DEF Live
  <2> QED
    BY <2>1, <2>2, <2>3 DEF TypeOK, Shape, SpliceShape, Live
<1>13. CASE onDestroy(l, c, o)
  <2> USE <1>13 DEF onDestroy
  <2>1. got' \subseteq Cells /\ Live(o)
    BY <1>0, FoundIsLive DEF Commands
  <2>2. sent' \subseteq Cells
    BY DEF Emit, Sides, Cells, Cell, Commands, TypeOK
  <2>3. /\ DOMAIN circuits' \subseteq DOMAIN circuits
        /\ \A k \in DOMAIN circuits' : circuits'[k] = circuits[k]
        /\ MapSound' /\ MapComplete'
    BY <2>1, DestroyKeepsMap
  <2>4. TypeOK'
    BY <2>1, <2>2, <2>3 DEF TypeOK
  <2>5. Shape'
    BY DEF Shape, TypeOK, Live, LiveRoles
  <2> QED
    BY <2>3, <2>4, <2>5 DEF SpliceShape
<1> QED
  BY <1>1, <1>2, <1>3, <1>4, <1>5, <1>6, <1>7, <1>8, <1>9, <1>10, <1>11,
     <1>12, <1>13 DEF CellStep

\* Resuming beginExtend preserves the invariant when at most one EXTEND of a
\* circuit is under way.
LEMMA DialedKeepsIInv ==
    ASSUME IInv, MaxDials = 1,
           NEW o \in Objs, NEW n \in Links, NEW c \in Cids, extendDialed(o, n, c)
    PROVE  IInv'
<1> USE DEF IInv, extendDialed
<1>1. /\ got' \subseteq Cells
      /\ dials[o] = 1
      /\ dials' \in [Objs -> 0..MaxDials]
      /\ dials'[o] = 0
      /\ \A p \in Objs \ {o} : dials'[p] = dials[p]
  BY DEF TypeOK
<1>2. CASE role[o] = "destroyed"
  <2>1. MapSound' /\ MapComplete'
    BY <1>2, QuietKeepsMap DEF Live
  <2> QED
    BY <1>1, <1>2, <2>1 DEF TypeOK, Shape, SpliceShape, Live
<1>3. CASE role[o] # "destroyed"
  <2> USE <1>3
  <2>1. Side(n, c) \in Sides /\ Side(n, c) # NoSide
    BY SideTyping
  <2>2. role[o] \in {"established", "extending"} /\ Live(o) /\ outb[o] = NoSide
    BY <1>1 DEF Shape, TypeOK, Live, LiveRoles
  <2>3. /\ role'[o] = "extending" /\ Live(o)'
        /\ outb'[o] = Side(n, c) /\ inb'[o] = inb[o] /\ inb'[o] # NoSide
    BY <2>2 DEF TypeOK, Live, LiveRoles, MapComplete
  <2>4. SidesOf(o)' = SidesOf(o) \cup {Side(n, c)}
    BY <2>1, <2>2, <2>3 DEF SidesOf
  <2>5. \A p \in Objs \ {o} : /\ inb'[p] = inb[p] /\ outb'[p] = outb[p]
                              /\ role'[p] = role[p] /\ created'[p] = created[p]
                              /\ Live(p)' <=> Live(p)
    BY DEF TypeOK, Live
  <2>6. MapSound' /\ MapComplete'
    BY <2>2, <2>3, <2>4, <2>5, PutKeepsMap
  <2>7. DOMAIN circuits' \subseteq Keys /\ \A k \in DOMAIN circuits' : circuits'[k] \in Objs
    BY SideTyping DEF TypeOK, Put
  <2>8. sent' \subseteq Cells
    BY SideTyping DEF Emit, Commands
  <2>9. TypeOK'
    BY <1>1, <2>1, <2>7, <2>8, FragsAssumption DEF TypeOK, LiveRoles
  <2>10. created'[o] = 0
    BY DEF TypeOK
  <2>11. Shape'
    BY <1>1, <2>3, <2>5, <2>10, FragsAssumption DEF Shape
  <2> QED
    BY <2>6, <2>9, <2>11 DEF SpliceShape
<1> QED
  BY <1>2, <1>3

\* Every step preserves the invariant.
LEMMA NextKeepsIInv ==
    ASSUME IInv, MaxDials = 1, [Next]_vars
    PROVE  IInv'
<1>1. CASE \E l \in Links, c \in Cids, o \in Objs : CellStep(l, c, o)
  BY <1>1, CellStepKeepsIInv
<1>2. CASE \E l \in Links, c \in Cids, cmd \in Commands : dropCell(l, c, cmd)
  <2> PICK l \in Links, c \in Cids, cmd \in Commands : dropCell(l, c, cmd)
    BY <1>2
  <2>1. got' \subseteq Cells
    BY SideTyping DEF dropCell, Receive
  <2>2. MapSound' /\ MapComplete'
    BY QuietKeepsMap DEF dropCell, Live
  <2> QED
    BY <2>1, <2>2 DEF dropCell, IInv, TypeOK, Shape, SpliceShape, Live
<1>3. CASE \E o \in Objs, n \in Links, c \in Cids : extendDialed(o, n, c)
  BY <1>3, DialedKeepsIInv
<1>4. CASE \E o \in Objs : extendDialFailed(o)
  <2> PICK o \in Objs : extendDialFailed(o)
    BY <1>4
  <2>1. role[o] # "free"
    BY DEF extendDialFailed, IInv, Shape
  <2>2. /\ dials' \in [Objs -> 0..MaxDials]
        /\ \A p \in Objs : dials'[p] <= dials[p]
    BY DEF extendDialFailed, IInv, TypeOK
  <2> QED
    BY <2>1, <2>2, DestroyKeepsIInv DEF extendDialFailed
<1>5. CASE \E l \in Links : linkOpens(l) \/ linkCloses(l)
  <2>1. /\ UNCHANGED <<circuits, role, inb, outb, frags, created, dials, splice>>
        /\ got' = {} /\ sent' = {}
        /\ linkState' \in [Links -> {"new", "up", "down"}]
    BY <1>5 DEF linkOpens, linkCloses, IInv, TypeOK
  <2>2. MapSound' /\ MapComplete'
    BY <2>1, QuietKeepsMap DEF Live
  <2> QED
    BY <2>1, <2>2 DEF IInv, TypeOK, Shape, SpliceShape, Live
<1>6. CASE closeAll
  <2> DEFINE open == {o \in Objs : /\ Live(o)
                                   /\ \E k \in DOMAIN circuits : circuits[k] = o}
  <2>1. DOMAIN circuits' = {}
    BY <1>6 DEF closeAll, Without
  <2>2. \A o \in Objs : Live(o) => o \in open
    BY DEF IInv, MapComplete, KeysOf, SidesOf
  <2>3. /\ role' \in [Objs -> LiveRoles \cup {"free", "destroyed"}]
        /\ \A o \in Objs : ~Live(o)' /\ (role'[o] = "free" => role[o] = "free")
    BY <1>6, <2>2 DEF closeAll, IInv, TypeOK, Live, LiveRoles
  <2>4. sent' \subseteq Cells
    BY <1>6, SidesTyping DEF closeAll, Emit, Commands, IInv
  <2>5. TypeOK'
    BY <1>6, <2>1, <2>3, <2>4 DEF closeAll, IInv, TypeOK
  <2>6. Shape' /\ SpliceShape'
    BY <1>6, <2>3 DEF closeAll, IInv, Shape, SpliceShape, Live, LiveRoles
  <2>7. MapSound' /\ MapComplete'
    BY <2>1, <2>3 DEF MapSound, MapComplete
  <2> QED
    BY <2>5, <2>6, <2>7 DEF IInv
<1>7. CASE UNCHANGED vars
  <2>1. MapSound' /\ MapComplete'
    BY <1>7, QuietKeepsMap DEF vars, Live
  <2> QED
    BY <1>7, <2>1 DEF vars, IInv, TypeOK, Shape, SpliceShape, Live
<1> QED
  BY <1>1, <1>2, <1>3, <1>4, <1>5, <1>6, <1>7 DEF Next

\* The initial state satisfies the invariant.
LEMMA InitIInv == Init => IInv
  BY FragsAssumption, DialsAssumption
  DEF Init, IInv, TypeOK, Shape, SpliceShape, MapSound, MapComplete, Live, LiveRoles

\* The inductive invariant holds throughout.
THEOREM Invariance ==
    ASSUME MaxDials = 1
    PROVE  Spec => []IInv
<1>1. IInv /\ [Next]_vars => IInv'
  BY NextKeepsIInv
<1> QED
  BY InitIInv, <1>1, PTL DEF Spec

\* The dispatcher's map and its circuits always agree: every key leads to a
\* live circuit that has a side with this key, and every live circuit is found
\* under the keys of all its sides.
THEOREM RoutingConsistent ==
    ASSUME MaxDials = 1
    PROVE  Spec => []MapAgrees
<1>1. IInv => MapAgrees
  BY DEF IInv, MapAgrees
<1> QED
  BY <1>1, Invariance, PTL

-----------------------------------------------------------------------------
(* The action properties                                                   *)

\* Only the CREATE of a new circuit and the resumption of beginExtend assign
\* an outbound side, and neither meets a live circuit that has one.
LEMMA OutboundStableStep ==
    ASSUME IInv, [Next]_vars, NEW o \in Objs, Live(o), outb[o] # NoSide
    PROVE  outb'[o] = outb[o]
<1> USE DEF IInv
<1>1. CASE \E l \in Links, c \in Cids, p \in Objs : CellStep(l, c, p)
  <2> PICK l \in Links, c \in Cids, p \in Objs : CellStep(l, c, p)
    BY <1>1
  <2>1. CASE onInboundCreateFirst(l, c, p) \/ onInboundCreateBadFirst(l, c, p)
    <3>1. ~Live(p)
      BY <2>1 DEF onInboundCreateFirst, onInboundCreateBadFirst, Fresh, Garbage,
                  Live, LiveRoles
    <3>2. o # p
      BY <3>1
    <3> QED
      BY <2>1, <3>2 DEF onInboundCreateFirst, onInboundCreateBadFirst, TypeOK
  <2>2. CASE ~(onInboundCreateFirst(l, c, p) \/ onInboundCreateBadFirst(l, c, p))
    BY <2>2 DEF CellStep, onInboundCreateNext, onCreateRefused, onInboundRelayRefused,
                onInboundRelayForward, beginExtendRefused, beginExtend,
                rendezvousSplice, onOutboundCreated, onOutboundCreatedBad,
                onOutboundRelay, onDestroy
  <2> QED
    BY <2>1, <2>2
<1>2. CASE \E p \in Objs, n \in Links, c \in Cids : extendDialed(p, n, c)
  <2> PICK p \in Objs, n \in Links, c \in Cids : extendDialed(p, n, c)
    BY <1>2
  <2>1. CASE p = o
    BY <2>1 DEF extendDialed, Shape, Live, LiveRoles
  <2>2. CASE p # o
    BY <2>2 DEF extendDialed, TypeOK
  <2> QED
    BY <2>1, <2>2
<1>3. CASE ~(\/ \E l \in Links, c \in Cids, p \in Objs : CellStep(l, c, p)
             \/ \E p \in Objs, n \in Links, c \in Cids : extendDialed(p, n, c))
  BY <1>3 DEF Next, dropCell, extendDialFailed, linkOpens, linkCloses, closeAll, vars
<1> QED
  BY <1>1, <1>2, <1>3

\* A circuit is extended at most once: while it lives its outbound side is
\* never replaced, whatever the peers send and however the dials interleave.
THEOREM ExtendedOnce ==
    ASSUME MaxDials = 1
    PROVE  Spec => OutboundStable
<1>1. IInv /\ [Next]_vars =>
        [\A o \in Objs : (Live(o) /\ outb[o] # NoSide) => (outb'[o] = outb[o])]_vars
  BY OutboundStableStep
<1> QED
  BY <1>1, Invariance, PTL DEF Spec, OutboundStable

\* What a destroyed circuit p owes its neighbour on side s.
Told(p, s) ==
    \/ ~up(s.link)
    \/ Cell(s, "DESTROY") \in sent' \cup got'
    \/ \E m \in got' : m.cmd = "DESTROY" /\ Side(m.link, m.cid) \notin SidesOf(p)

\* destroyCircuit tells both neighbours, and destroys no other circuit.
LEMMA DestroyTells ==
    ASSUME IInv, NEW o \in Objs, destroyCircuit(o),
           NEW p \in Objs, Live(p), role'[p] = "destroyed",
           NEW s \in SidesOf(p)
    PROVE  Told(p, s)
<1>1. role[o] # "destroyed" /\ p = o
  BY DEF destroyCircuit, IInv, TypeOK, Live, LiveRoles
<1>2. CASE up(s.link)
  <2>1. Cell(s, "DESTROY").link = s.link
    BY DEF Cell
  <2> QED
    BY <1>1, <1>2, <2>1 DEF destroyCircuit, Emit, Told
<1> QED
  BY <1>2 DEF Told

\* Every step that destroys a circuit tells its neighbours.
LEMMA TeardownStep ==
    ASSUME IInv, [Next]_vars,
           NEW p \in Objs, Live(p), role'[p] = "destroyed",
           NEW s \in SidesOf(p)
    PROVE  Told(p, s)
<1> USE DEF IInv
<1>0. role[p] # "destroyed"
  BY DEF Live, LiveRoles
<1>1. CASE \E l \in Links, c \in Cids, o \in Objs : CellStep(l, c, o)
  <2> PICK l \in Links, c \in Cids, o \in Objs : CellStep(l, c, o)
    BY <1>1
  <2>1. CASE \/ onCreateRefused(l, c, o) \/ onInboundRelayRefused(l, c, o)
             \/ beginExtendRefused(l, c, o) \/ onOutboundCreatedBad(l, c, o)
    BY <2>1, DestroyTells DEF onCreateRefused, onInboundRelayRefused,
       beginExtendRefused, onOutboundCreatedBad
  <2>2. CASE onDestroy(l, c, o)
    <3> USE <2>2 DEF onDestroy
    <3>1. p = o /\ Found(l, c, o)
      BY <1>0 DEF TypeOK
    <3>2. got' = {Cell(Side(l, c), "DESTROY")}
      BY DEF Receive
    <3>3. CASE Side(l, c) \notin SidesOf(o)
      BY <3>1, <3>2, <3>3 DEF Told, Cell, Side
    <3>4. CASE Side(l, c) \in SidesOf(o) /\ s = Side(l, c)
      BY <3>2, <3>4 DEF Told
    <3>5. CASE Side(l, c) \in SidesOf(o) /\ s # Side(l, c) /\ up(s.link)
      <4> DEFINE other == IF isInboundSide(l, c, o) THEN outb[o] ELSE inb[o]
      <4>1. s = other /\ s # NoSide
        BY <3>1, <3>5 DEF SidesOf, isInboundSide
      <4>2. Cell(s, "DESTROY").link = s.link
        BY DEF Cell
      <4>3. Emit({Cell(x, "DESTROY") : x \in {other} \ {NoSide}})
        OBVIOUS
      <4> HIDE DEF other
      <4>4. Cell(s, "DESTROY") \in sent'
        BY <3>5, <4>1, <4>2, <4>3 DEF Emit
      <4> QED
        BY <4>4 DEF Told
    <3> QED
      BY <3>3, <3>4, <3>5 DEF Told
  <2>3. CASE onInboundCreateFirst(l, c, o) \/ onInboundCreateBadFirst(l, c, o)
    <3>1. ~Live(o)
      BY <2>3 DEF onInboundCreateFirst, onInboundCreateBadFirst, Fresh, Garbage,
                  Live, LiveRoles
    <3>2. role'[p] = role[p]
      BY <2>3, <3>1 DEF onInboundCreateFirst, onInboundCreateBadFirst, TypeOK
    <3> QED
      BY <1>0, <3>2
  <2>4. CASE \/ onInboundCreateNext(l, c, o) \/ onInboundRelayForward(l, c, o)
             \/ beginExtend(l, c, o) \/ (\E q \in Objs : rendezvousSplice(l, c, o, q))
             \/ onOutboundCreated(l, c, o) \/ onOutboundRelay(l, c, o)
    BY <1>0, <2>4 DEF onInboundCreateNext, onInboundRelayForward, beginExtend,
       rendezvousSplice, onOutboundCreated, onOutboundRelay, TypeOK
  <2> QED
    BY <2>1, <2>2, <2>3, <2>4 DEF CellStep
<1>2. CASE \E o \in Objs : extendDialFailed(o)
  BY <1>2, DestroyTells DEF extendDialFailed
<1>3. CASE closeAll
  <2>1. p \in {o \in Objs : /\ Live(o)
                            /\ \E k \in DOMAIN circuits : circuits[k] = o}
    BY <1>0, <1>3 DEF closeAll, TypeOK
  <2>2. Cell(s, "DESTROY").link = s.link
    BY DEF Cell
  <2>3. up(s.link) => Cell(s, "DESTROY") \in sent'
    BY <1>3, <2>1, <2>2 DEF closeAll, Emit
  <2> QED
    BY <2>3 DEF Told
<1>4. CASE \/ \E l \in Links, c \in Cids, cmd \in Commands : dropCell(l, c, cmd)
           \/ \E o \in Objs, n \in Links, c \in Cids : extendDialed(o, n, c)
           \/ \E l \in Links : linkOpens(l) \/ linkCloses(l)
           \/ UNCHANGED vars
  BY <1>0, <1>4, ZenonT(30) DEF dropCell, extendDialed, linkOpens, linkCloses, vars, TypeOK
<1> QED
  BY <1>1, <1>2, <1>3, <1>4 DEF Next

\* Whatever ends a circuit, both neighbours hear of it in the same step.
THEOREM TeardownIsTold ==
    ASSUME MaxDials = 1
    PROVE  Spec => TeardownPropagates
<1>1. IInv /\ [Next]_vars =>
        [\A o \in Objs :
           (Live(o) /\ role'[o] = "destroyed") =>
              \A s \in SidesOf(o) :
                \/ ~up(s.link)
                \/ Cell(s, "DESTROY") \in sent' \cup got'
                \/ \E m \in got' : /\ m.cmd = "DESTROY"
                                   /\ Side(m.link, m.cid) \notin SidesOf(o)]_vars
  BY TeardownStep DEF Told
<1> QED
  BY <1>1, Invariance, PTL DEF Spec, TeardownPropagates

-----------------------------------------------------------------------------
(* Forwarded packets                                                       *)


\* What applications make: packets for one node, numbered.
AppPackets ==
    [outer : [bucket : bucketSizes, to : Forwarding, id : Nat \X Nat \X Nat],
     inner : [type : {"DATA"}, from : Forwarding, realLength : Nat, body : AppSizes]]

ForwardTypes ==
    /\ messages \in Seq(AppPackets)
    /\ handed \in Seq(Nat) /\ Len(handed) = Len(messages)
    /\ log \in [Forwarding -> SUBSET (Nat \X Nat \X Nat)]
    /\ shown \in [Forwarding -> Seq(AppPackets)]
    /\ evicted = [n \in Forwarding |-> evicted[n]]

MessagesValid ==
    \A i \in DOMAIN messages : messages[i].outer.id = <<i, 0, 0>> /\ innerValid(messages[i])

\* A packet that a forwarder can unwrap, and the packet in it.
Inside(p) == p.inner.body.packet
Unwraps(p) == p.inner.type = "FORWARD" /\ innerValid(p) /\ parseForwardPayload(p)

\* The packet p carries message i as it was handed out the h-th time: it is the
\* message, or has it inside, or has a packet inside that has it.
Carries(p, i, h) ==
    \/ p = messages[i]
    \/ /\ p.outer.id = <<i, h, 1>> /\ Unwraps(p)
       /\ Inside(p) = messages[i]
    \/ /\ p.outer.id = <<i, h, 2>> /\ Unwraps(p)
       /\ Inside(p).outer.id = <<i, h, 1>> /\ Unwraps(Inside(p))
       /\ Inside(Inside(p)) = messages[i]

\* What flies carries a message to the node it is made for.
FlyingValid ==
    \A f \in flying :
        /\ f.at = f.packet.outer.to
        /\ \E i \in DOMAIN messages : \E h \in 1..handed[i] : Carries(f.packet, i, h)

\* Whatever was shown is in the replay log.
ShownLogged ==
    \A n \in Forwarding : \A k \in DOMAIN shown[n] : shown[n][k].outer.id \in log[n]

\* The message and the layer a packet belongs to.
About(f) == f.packet.outer.id[1]
Layer(f) == f.packet.outer.id[3]

\* As long as nobody hands a message out twice, one packet of it flies, and no
\* log has that one or one inside it.
Once == \A i \in DOMAIN handed : handed[i] <= 1
LogsBehind ==
    /\ \A n \in Forwarding : \A id \in log[n] :
          /\ id[1] \in DOMAIN handed /\ handed[id[1]] # 0
          /\ \A f \in flying : About(f) = id[1] => id[3] > Layer(f)
    /\ \A f, g \in flying : About(f) = About(g) => f = g

ForwardInv ==
    /\ ForwardTypes /\ MessagesValid /\ FlyingValid
    /\ ShownLogged /\ ShownOnce
    /\ Once => LogsBehind
    /\ HonestKept

-----------------------------------------------------------------------------
(* Sizes                                                                   *)

\* A packet gets a bucket it fits in, and a bucket is one for its own size.
LEMMA BucketFits ==
    ASSUME NEW size \in Nat, bucketForSize(size) # NoBucket
    PROVE  bucketForSize(size) \in bucketSizes /\ size <= bucketForSize(size)
<1> DEFINE fits(b) == b \in bucketSizes /\ size <= b /\ \A c \in bucketSizes : size <= c => b <= c
<1>1. \E b \in bucketSizes : size <= b
  BY DEF bucketForSize, bucketSizes, NoBucket
<1>2. \E b : fits(b)
  <2>1. CASE size <= 256
    <3>1. fits(256)
      BY <2>1 DEF bucketSizes
    <3> QED BY <3>1
  <2>2. CASE 256 < size /\ size <= 1024
    <3>1. fits(1024)
      BY <2>2 DEF bucketSizes
    <3> QED BY <3>1
  <2>3. CASE 1024 < size
    <3>1. fits(4096)
      BY <1>1, <2>3 DEF bucketSizes
    <3> QED BY <3>1
  <2> QED BY <2>1, <2>2, <2>3
<1>3. bucketForSize(size) = CHOOSE b \in bucketSizes : size <= b /\ \A c \in bucketSizes : size <= c => b <= c
  BY <1>1 DEF bucketForSize, bucketSizes
<1>4. \A b \in bucketSizes : (size <= b /\ \A c \in bucketSizes : size <= c => b <= c) <=> fits(b)
  OBVIOUS
<1>5. fits(bucketForSize(size))
  BY <1>2, <1>3
<1> QED BY <1>5

LEMMA BucketOfBucket ==
    ASSUME NEW b \in bucketSizes
    PROVE  bucketForSize(b) = b
<1>1. b \in Nat /\ b <= 4096
  BY DEF bucketSizes
<1>2. bucketForSize(b) # NoBucket
  <2>1. ~ \A c \in bucketSizes : b > c
    BY <1>1 DEF bucketSizes
  <2>2. bucketForSize(b) = CHOOSE d \in bucketSizes : b <= d /\ \A c \in bucketSizes : b <= c => d <= c
    BY <2>1 DEF bucketForSize
  <2>3. b <= b /\ \A c \in bucketSizes : b <= c => b <= c
    BY <1>1
  <2>4. bucketForSize(b) \in bucketSizes
    BY <2>2, <2>3
  <2> QED BY <2>4 DEF bucketSizes, NoBucket
<1>3. bucketForSize(b) = CHOOSE d \in bucketSizes : b <= d /\ \A c \in bucketSizes : b <= c => d <= c
  BY <1>1 DEF bucketForSize, bucketSizes
<1>4. b <= b /\ \A c \in bucketSizes : b <= c => b <= c
  BY <1>1
<1>5. \A d \in bucketSizes : (b <= d /\ \A c \in bucketSizes : b <= c => d <= c) => d = b
  BY DEF bucketSizes
<1> QED BY <1>3, <1>4, <1>5

\* What encodePacket makes is what it was given, and passes parseInnerPlaintext.
LEMMA EncodedValid ==
    ASSUME NEW to, NEW from, NEW type, NEW id, NEW body, NEW length \in Nat,
           NEW p, p = encodePacket(to, from, type, id, body, length), p # NoPacket
    PROVE  /\ p = [outer |-> [bucket |-> p.outer.bucket, to |-> to, id |-> id],
                   inner |-> [type |-> type, from |-> from, realLength |-> length, body |-> body]]
           /\ p.outer.bucket \in bucketSizes
           /\ innerValid(p)
<1> DEFINE size == Header + Prefix + length + Tag
           bucket == bucketForSize(size)
<1>1. size \in Nat /\ size = length + 105
  BY DEF Header, Prefix, Tag
<1>2. bucket # NoBucket
  BY DEF encodePacket
<1>3. p = [outer |-> [bucket |-> bucket, to |-> to, id |-> id],
           inner |-> [type |-> type, from |-> from, realLength |-> length, body |-> body]]
  BY <1>2 DEF encodePacket, buildOuterHeader, buildInnerPlaintext
<1>4. p.outer.bucket = bucket /\ p.inner.realLength = length
  BY <1>3
<1>5. bucket \in bucketSizes /\ size <= bucket
  BY <1>1, <1>2, BucketFits
<1>6. bucket \in Nat
  BY <1>5 DEF bucketSizes
<1>7. innerValid(p)
  <2> HIDE DEF size, bucket
  <2>1. maxPayloadForBucket(bucket) = bucket - 105
    BY <1>6 DEF maxPayloadForBucket, innerLengthForBucket, Header, Tag, Prefix
  <2> QED BY <1>1, <1>4, <1>5, <1>6, <2>1 DEF innerValid
<1> QED BY <1>3, <1>4, <1>5, <1>7

\* A forwarder can unwrap what wrap makes, and finds in it what was put in.
LEMMA WrappedUnwraps ==
    ASSUME NEW forwarder, NEW from, NEW id, NEW next, NEW addresses \in Nat, NEW q,
           q.outer.bucket \in bucketSizes, q.outer.to = next,
           NEW p, p = wrap(forwarder, from, id, next, addresses, q), p # NoPacket
    PROVE  /\ Unwraps(p) /\ Inside(p) = q
           /\ p.outer.to = forwarder /\ p.outer.id = id /\ p.outer.bucket \in bucketSizes
           /\ p.inner.body.next = next
<1> DEFINE length == 32 + transportsLength(addresses) + q.outer.bucket
           body == [next |-> next, addresses |-> addresses, packet |-> q]
<1>1. q.outer.bucket \in Nat /\ q.outer.bucket >= 256
  BY DEF bucketSizes
<1>2. length \in Nat /\ length = 33 + 8 * addresses + q.outer.bucket
  BY <1>1 DEF transportsLength
<1>3. p = encodePacket(forwarder, from, "FORWARD", id, body, length)
  BY DEF wrap
<1> HIDE DEF body, length
<1>4. /\ p = [outer |-> [bucket |-> p.outer.bucket, to |-> forwarder, id |-> id],
              inner |-> [type |-> "FORWARD", from |-> from, realLength |-> length, body |-> body]]
      /\ p.outer.bucket \in bucketSizes
      /\ innerValid(p)
  BY <1>2, <1>3, EncodedValid
<1>5. /\ p.outer.to = forwarder /\ p.outer.id = id /\ p.inner.type = "FORWARD"
      /\ p.inner.realLength = length /\ p.inner.body = body
  BY <1>4
<1>6. body.next = next /\ body.addresses = addresses /\ body.packet = q
  BY DEF body
<1>7. parseForwardPayload(p)
  <2>1. p.inner.realLength - 32 - transportsLength(p.inner.body.addresses) = q.outer.bucket
    BY <1>1, <1>2, <1>5, <1>6 DEF transportsLength
  <2>2. bucketForSize(q.outer.bucket) = q.outer.bucket
    BY BucketOfBucket
  <2>3. p.inner.realLength >= FORWARD_MIN_LENGTH
    BY <1>1, <1>2, <1>5 DEF FORWARD_MIN_LENGTH
  <2> QED BY <1>5, <1>6, <2>1, <2>2, <2>3 DEF parseForwardPayload
<1> QED BY <1>4, <1>5, <1>6, <1>7 DEF Unwraps, Inside

-----------------------------------------------------------------------------
(* What a packet carries                                                   *)

LEMMA CarriesWhat ==
    ASSUME MessagesValid, ForwardTypes, NEW i \in DOMAIN messages, NEW h, NEW p, Carries(p, i, h)
    PROVE  /\ p.outer.id[1] = i /\ p.outer.id[3] \in Nat /\ innerValid(p)
           /\ p.inner.type = "DATA" => p = messages[i] /\ p.outer.id = <<i, 0, 0>>
           /\ p.inner.type # "DATA" => Unwraps(p)
           /\ p.inner.type = "FORWARD" =>
                 /\ Unwraps(p) /\ Carries(Inside(p), i, h)
                 /\ Inside(p).outer.id[3] = p.outer.id[3] - 1
<1>1. messages[i] \in AppPackets
  BY DEF ForwardTypes
<1>2. messages[i].inner.type = "DATA" /\ messages[i].outer.id = <<i, 0, 0>> /\ innerValid(messages[i])
  BY <1>1 DEF AppPackets, MessagesValid
<1>3. CASE p = messages[i]
  BY <1>2, <1>3
<1>4. CASE p.outer.id = <<i, h, 1>> /\ Unwraps(p) /\ Inside(p) = messages[i]
  BY <1>2, <1>4 DEF Unwraps, Carries
<1>5. CASE /\ p.outer.id = <<i, h, 2>> /\ Unwraps(p)
           /\ Inside(p).outer.id = <<i, h, 1>> /\ Unwraps(Inside(p))
           /\ Inside(Inside(p)) = messages[i]
  BY <1>5 DEF Unwraps, Carries
<1> QED BY <1>3, <1>4, <1>5 DEF Carries

LEMMA CarriesId ==
    ASSUME MessagesValid, ForwardTypes, NEW i \in DOMAIN messages, NEW h, NEW p, Carries(p, i, h)
    PROVE  p.outer.id[1] = i /\ p.outer.id[3] \in Nat
BY CarriesWhat

LEMMA CarriesData ==
    ASSUME NEW i \in DOMAIN messages, NEW h, NEW p, Carries(p, i, h), p.inner.type = "DATA"
    PROVE  p = messages[i]
BY DEF Carries, Unwraps

\* What HandOut puts on a transport.
Handed(i, via, addresses) ==
    LET m == messages[i]
        k == Len(via)
        last == IF k = 0 THEN m ELSE wrap(via[k], m.inner.from, <<i, handed[i] + 1, 1>>, m.outer.to, addresses, m)
    IN  IF k < 2 THEN last
        ELSE wrap(via[1], m.inner.from, <<i, handed[i] + 1, 2>>, via[2], addresses, last)

LEMMA WrapOfNothing ==
    ASSUME NEW forwarder, NEW from, NEW id, NEW next, NEW addresses
    PROVE  wrap(forwarder, from, id, next, addresses, NoPacket) = NoPacket
BY DEF wrap

LEMMA HandedCarries ==
    ASSUME MessagesValid, ForwardTypes, NEW i \in DOMAIN messages,
           NEW via \in RouteLists, NEW addresses \in Addresses,
           NEW p, p = Handed(i, via, addresses), p # NoPacket
    PROVE  Carries(p, i, handed[i] + 1)
<1> DEFINE m == messages[i]
           h == handed[i] + 1
           inner(fwd) == wrap(fwd, m.inner.from, <<i, h, 1>>, m.outer.to, addresses, m)
<1>0. addresses \in Nat
  BY ForwardAssumption
<1>1. m \in AppPackets /\ m.outer.bucket \in bucketSizes
  <2>1. m \in AppPackets
    BY DEF ForwardTypes
  <2> QED BY <2>1 DEF AppPackets
<1>2. ASSUME NEW fwd, inner(fwd) # NoPacket
      PROVE  /\ inner(fwd).outer.id = <<i, h, 1>> /\ Unwraps(inner(fwd))
             /\ Inside(inner(fwd)) = m
             /\ inner(fwd).outer.to = fwd /\ inner(fwd).outer.bucket \in bucketSizes
  <2> DEFINE q == inner(fwd)
  <2>1. q = wrap(fwd, m.inner.from, <<i, h, 1>>, m.outer.to, addresses, m)
    OBVIOUS
  <2> HIDE DEF inner, h, m
  <2> QED BY <1>0, <1>1, <1>2, <2>1, WrappedUnwraps
<1>3. CASE via = <<>>
  BY <1>3 DEF Handed, Carries
<1>4. CASE \E a \in Forwarding : via = <<a>>
  <2>1. PICK a \in Forwarding : via = <<a>>
    BY <1>4
  <2>2. p = inner(a)
    BY <2>1 DEF Handed
  <2> HIDE DEF inner, h
  <2>3. inner(a) # NoPacket
    BY <2>2
  <2>4. inner(a).outer.id = <<i, h, 1>> /\ Unwraps(inner(a)) /\ Inside(inner(a)) = m
    BY <1>2, <2>3
  <2>5. p.outer.id = <<i, h, 1>> /\ Unwraps(p) /\ Inside(p) = messages[i]
    BY <2>2, <2>4
  <2> QED BY <2>5 DEF Carries, h
<1>5. CASE \E a, b \in Forwarding : via = <<a, b>>
  <2>1. PICK a \in Forwarding, b \in Forwarding : via = <<a, b>>
    BY <1>5
  <2>2. p = wrap(a, m.inner.from, <<i, h, 2>>, b, addresses, inner(b))
    BY <2>1 DEF Handed
  <2>3. inner(b) # NoPacket
    <3> HIDE DEF inner, m, h
    <3> QED BY <2>2, WrapOfNothing
  <2> DEFINE q == inner(b)
  <2>4. /\ q.outer.id = <<i, h, 1>> /\ Unwraps(q) /\ Inside(q) = m
        /\ q.outer.to = b /\ q.outer.bucket \in bucketSizes
    BY <1>2, <2>3
  <2>5. Unwraps(p) /\ Inside(p) = q /\ p.outer.id = <<i, h, 2>>
    <3> HIDE DEF q, m, h
    <3>1. p = wrap(a, m.inner.from, <<i, h, 2>>, b, addresses, q)
      BY <2>2 DEF q
    <3> QED BY <1>0, <2>4, <3>1, WrappedUnwraps
  <2> QED BY <2>4, <2>5 DEF Carries
<1> QED BY <1>3, <1>4, <1>5 DEF RouteLists

-----------------------------------------------------------------------------
(* The steps                                                               *)

\* A packet that carries a message goes on carrying it.
LEMMA CarriesStays ==
    ASSUME ForwardTypes, NEW i \in DOMAIN messages, NEW h, NEW p, Carries(p, i, h),
           NEW m, messages' = messages \/ messages' = Append(messages, m)
    PROVE  i \in DOMAIN messages' /\ Carries(p, i, h)'
<1>1. messages'[i] = messages[i] /\ i \in DOMAIN messages'
  BY DEF ForwardTypes
<1> QED BY <1>1 DEF Carries, Inside, Unwraps, innerValid, parseForwardPayload

LEMMA ComposeKeeps ==
    ASSUME ForwardInv, NEW from \in Forwarding, NEW to \in Forwarding, NEW app \in AppSizes,
           Compose(from, to, app)
    PROVE  ForwardInv'
<1> USE DEF ForwardInv
<1> DEFINE p == encodePacket(to, from, "DATA", <<Len(messages) + 1, 0, 0>>, app, dataLength(app))
<1>1. /\ p # NoPacket
      /\ messages' = Append(messages, p) /\ handed' = Append(handed, 0)
      /\ UNCHANGED <<flying, log, shown, evicted>>
  BY DEF Compose
<1>2. app \in Nat /\ dataLength(app) \in Nat
  BY ForwardAssumption DEF dataLength
<1>3. /\ p = [outer |-> [bucket |-> p.outer.bucket, to |-> to, id |-> <<Len(messages) + 1, 0, 0>>],
              inner |-> [type |-> "DATA", from |-> from, realLength |-> dataLength(app), body |-> app]]
      /\ p.outer.bucket \in bucketSizes /\ innerValid(p)
  <2> HIDE DEF p
  <2>1. p = encodePacket(to, from, "DATA", <<Len(messages) + 1, 0, 0>>, app, dataLength(app))
    BY DEF p
  <2> QED BY <1>1, <1>2, <2>1, EncodedValid, SMTT(30)
<1> HIDE DEF p
<1>4. Len(messages) \in Nat
  BY DEF ForwardTypes
<1>5. p \in AppPackets
  BY <1>2, <1>3, <1>4 DEF AppPackets
<1>6. ForwardTypes'
  BY <1>1, <1>5 DEF ForwardTypes
<1>7. /\ DOMAIN messages' = DOMAIN messages \cup {Len(messages) + 1}
      /\ \A i \in DOMAIN messages : messages'[i] = messages[i]
      /\ messages'[Len(messages) + 1] = p
      /\ DOMAIN handed' = DOMAIN messages'
      /\ \A i \in DOMAIN messages : handed'[i] = handed[i]
      /\ handed'[Len(messages) + 1] = 0
      /\ DOMAIN messages = DOMAIN handed
  BY <1>1, <1>5 DEF ForwardTypes
<1>8. MessagesValid'
  <2> SUFFICES ASSUME NEW i \in DOMAIN messages'
               PROVE  messages'[i].outer.id = <<i, 0, 0>> /\ innerValid(messages'[i])
    BY DEF MessagesValid, innerValid
  <2>1. CASE i \in DOMAIN messages
    BY <1>7, <2>1 DEF MessagesValid
  <2>2. CASE i = Len(messages) + 1
    BY <1>3, <1>7, <2>2
  <2> QED BY <1>7, <2>1, <2>2
<1>9. FlyingValid'
  <2> SUFFICES ASSUME NEW f \in flying
               PROVE  /\ f.at = f.packet.outer.to
                      /\ \E i \in DOMAIN messages' : \E h \in 1..handed'[i] : Carries(f.packet, i, h)'
    BY <1>1 DEF FlyingValid
  <2>0. PICK i \in DOMAIN messages : \E h \in 1..handed[i] : Carries(f.packet, i, h)
    BY DEF FlyingValid
  <2>1. PICK h \in 1..handed[i] : Carries(f.packet, i, h)
    BY <2>0
  <2>2. i \in DOMAIN messages' /\ Carries(f.packet, i, h)'
    BY <1>1, <2>1, CarriesStays
  <2>3. h \in 1..handed'[i]
    BY <1>7
  <2> QED BY <2>2, <2>3 DEF FlyingValid
<1>10. ShownLogged'
  BY <1>1 DEF ShownLogged
<1>11. ShownOnce'
  <2>1. \A n \in Forwarding : \A k \in DOMAIN shown[n] : \E m \in DOMAIN messages :
           shown[n][k] = messages[m] /\ messages[m].outer.to = n
    BY DEF ShownOnce
  <2>2. \A n \in Forwarding : \A k \in DOMAIN shown[n] : \E m \in DOMAIN messages' :
           shown[n][k] = messages'[m] /\ messages'[m].outer.to = n
    BY <1>7, <2>1
  <2>3. \A n \in Forwarding : \A i, j \in DOMAIN shown[n] : shown[n][i] = shown[n][j] => i = j
    BY DEF ShownOnce
  <2> QED BY <1>1, <2>2, <2>3 DEF ShownOnce
<1>12. Once' => Once
  BY <1>7 DEF Once
<1>13. Once' => LogsBehind'
  <2> SUFFICES ASSUME Once' PROVE LogsBehind'
    OBVIOUS
  <2>1. LogsBehind
    BY <1>12
  <2>2. \A n \in Forwarding : \A id \in log[n] : id[1] \in DOMAIN handed' /\ handed'[id[1]] # 0
    BY <1>7, <2>1 DEF LogsBehind
  <2> QED BY <1>1, <2>1, <2>2 DEF LogsBehind, About, Layer
<1>14. HonestKept'
  <2>1. Once' => \A n \in Forwarding : evicted[n] = {}
    BY <1>12 DEF Once, HonestKept
  <2> QED BY <1>1, <2>1 DEF Once, HonestKept
<1> QED BY <1>6, <1>8, <1>9, <1>10, <1>11, <1>13, <1>14

LEMMA HandOutKeeps ==
    ASSUME ForwardInv, NEW i \in DOMAIN messages, NEW via \in RouteLists,
           NEW addresses \in Addresses, HandOut(i, via, addresses)
    PROVE  ForwardInv'
<1> USE DEF ForwardInv
<1> DEFINE p == Handed(i, via, addresses)
           next == [at |-> p.outer.to, packet |-> p]
<1>1. /\ p # NoPacket
      /\ handed' = [handed EXCEPT ![i] = @ + 1]
      /\ flying' = flying \cup {next}
      /\ UNCHANGED <<messages, log, shown, evicted>>
  BY DEF HandOut, Handed
<1> HIDE DEF p
<1>2. Carries(p, i, handed[i] + 1)
  BY <1>1, HandedCarries DEF p
<1>3. /\ DOMAIN messages = DOMAIN handed /\ DOMAIN handed' = DOMAIN handed
      /\ handed'[i] = handed[i] + 1
      /\ \A j \in DOMAIN handed : handed[j] \in Nat
      /\ \A j \in DOMAIN handed : j # i => handed'[j] = handed[j]
  BY <1>1 DEF ForwardTypes
<1>4. ForwardTypes'
  <2>1. handed' \in Seq(Nat) /\ Len(handed') = Len(handed)
    BY <1>1, <1>3 DEF ForwardTypes
  <2> QED BY <1>1, <2>1 DEF ForwardTypes
<1>5. ASSUME NEW q, NEW j \in DOMAIN messages, NEW h
      PROVE  Carries(q, j, h) <=> Carries(q, j, h)'
  BY <1>1 DEF Carries, Inside, Unwraps, innerValid, parseForwardPayload
<1>6. FlyingValid'
  <2> SUFFICES ASSUME NEW f \in flying'
               PROVE  /\ f.at = f.packet.outer.to
                      /\ \E j \in DOMAIN messages : \E h \in 1..handed'[j] : Carries(f.packet, j, h)
    BY <1>1, <1>5 DEF FlyingValid
  <2>1. CASE f \in flying
    <3>0. PICK j \in DOMAIN messages : \E h \in 1..handed[j] : Carries(f.packet, j, h)
      BY <2>1 DEF FlyingValid
    <3>1. PICK h \in 1..handed[j] : Carries(f.packet, j, h)
      BY <3>0
    <3>2. h \in 1..handed'[j]
      BY <1>3
    <3> QED BY <2>1, <3>1, <3>2 DEF FlyingValid
  <2>2. CASE f = next
    <3>1. handed[i] + 1 \in 1..handed'[i]
      BY <1>3
    <3> QED BY <1>2, <2>2, <3>1
  <2> QED BY <1>1, <2>1, <2>2
<1>7. MessagesValid' /\ ShownLogged' /\ ShownOnce'
  BY <1>1 DEF MessagesValid, innerValid, ShownLogged, ShownOnce
<1>8. Once' => Once /\ handed[i] = 0
  BY <1>3 DEF Once
<1>9. Once' => LogsBehind'
  <2> SUFFICES ASSUME Once' PROVE LogsBehind'
    OBVIOUS
  <2>1. LogsBehind /\ handed[i] = 0
    BY <1>8
  <2>2. About(next) = i /\ i \in DOMAIN messages
    <3>0. PICK h : Carries(p, i, h)
      BY <1>2
    <3>1. p.outer.id[1] = i
      BY <3>0, CarriesId
    <3> QED BY <3>1 DEF About
  <2>3. \A f \in flying : About(f) # i
    <3> SUFFICES ASSUME NEW f \in flying PROVE About(f) # i
      OBVIOUS
    <3>0. PICK j \in DOMAIN messages : \E h \in 1..handed[j] : Carries(f.packet, j, h)
      BY DEF FlyingValid
    <3>1. PICK h \in 1..handed[j] : Carries(f.packet, j, h)
      BY <3>0
    <3>2. About(f) = j
      BY <3>1, CarriesId DEF About
    <3> QED BY <2>1, <3>2
  <2>4. \A n \in Forwarding : \A id \in log[n] : id[1] # i
    BY <2>1 DEF LogsBehind
  <2>5. \A n \in Forwarding : \A id \in log[n] : id[1] \in DOMAIN handed' /\ handed'[id[1]] # 0
    BY <1>3, <2>1, <2>4 DEF LogsBehind
  <2>6. \A n \in Forwarding : \A id \in log[n] : \A f \in flying' : About(f) = id[1] => id[3] > Layer(f)
    BY <1>1, <2>1, <2>2, <2>4 DEF LogsBehind
  <2>7. \A f, g \in flying' : About(f) = About(g) => f = g
    BY <1>1, <2>1, <2>2, <2>3 DEF LogsBehind
  <2> QED BY <1>1, <2>5, <2>6, <2>7 DEF LogsBehind, About, Layer
<1>10. HonestKept'
  <2>1. Once' => \A n \in Forwarding : evicted[n] = {}
    BY <1>8 DEF Once, HonestKept
  <2> QED BY <1>1, <2>1 DEF Once, HonestKept
<1> QED BY <1>4, <1>6, <1>7, <1>9, <1>10

\* Of an accepted packet the log has the id, and had it not before.
LEMMA AcceptedWhat ==
    ASSUME ForwardInv, NEW n \in Forwarding, NEW f \in flying, Accepted(n, f)
    PROVE  /\ f.at = n /\ f.packet.outer.to = n
           /\ f.packet.outer.id \notin log[n]
           /\ log' = [log EXCEPT ![n] = @ \cup {f.packet.outer.id}]
           /\ UNCHANGED <<messages, handed>>
           /\ \E i \in DOMAIN messages : \E h \in 1..handed[i] : Carries(f.packet, i, h)
BY DEF Accepted, AeadOpens, replayed, ForwardInv, FlyingValid

\* With messages and hand-outs as they were, what is known of packets stays known.
LEMMA PacketsStay ==
    ASSUME ForwardInv, UNCHANGED <<messages, handed>>
    PROVE  /\ MessagesValid'
           /\ Once' <=> Once
           /\ \A i, h, p : Carries(p, i, h)' <=> Carries(p, i, h)
BY DEF ForwardInv, MessagesValid, Once, Carries, Inside, Unwraps, innerValid, parseForwardPayload

\* An id joins a log when the packet it belongs to leaves, and perhaps the one
\* inside that packet flies on.
LEMMA LogsStayBehind ==
    ASSUME ForwardInv, Once, NEW n \in Forwarding, NEW f \in flying,
           UNCHANGED <<messages, handed>>, NEW next,
           flying' = flying \ {f}
           \/ (/\ flying' = (flying \ {f}) \cup {next}
               /\ About(next) = About(f) /\ Layer(next) = Layer(f) - 1),
           log' = [log EXCEPT ![n] = @ \cup {f.packet.outer.id}]
    PROVE  LogsBehind'
<1>1. LogsBehind /\ ForwardTypes /\ FlyingValid /\ MessagesValid
  BY DEF ForwardInv
<1>2. \E i \in DOMAIN messages : \E h \in 1..handed[i] : Carries(f.packet, i, h)
  BY <1>1 DEF FlyingValid
<1>3. PICK i \in DOMAIN messages : \E h \in 1..handed[i] : Carries(f.packet, i, h)
  BY <1>2
<1>4. PICK h \in 1..handed[i] : Carries(f.packet, i, h)
  BY <1>3
<1>5. About(f) = i /\ Layer(f) \in Nat
  <2> DEFINE p == f.packet
  <2> HIDE DEF p
  <2>1. Carries(p, i, h)
    BY <1>4 DEF p
  <2>2. p.outer.id[1] = i /\ p.outer.id[3] \in Nat
    BY <1>1, <2>1, CarriesId
  <2> QED BY <2>2 DEF About, Layer, p
<1>6. i \in DOMAIN handed /\ handed[i] # 0
  BY <1>1, <1>4 DEF ForwardTypes
<1>7. \A m \in Forwarding : \A id \in log'[m] : id \in log[m] \/ (m = n /\ id = f.packet.outer.id)
  BY <1>1 DEF ForwardTypes
<1>8. \A m \in Forwarding : \A id \in log'[m] : id[1] \in DOMAIN handed /\ handed[id[1]] # 0
  <2> SUFFICES ASSUME NEW m \in Forwarding, NEW id \in log'[m]
               PROVE  id[1] \in DOMAIN handed /\ handed[id[1]] # 0
    OBVIOUS
  <2>1. CASE id \in log[m]
    BY <1>1, <2>1 DEF LogsBehind
  <2>2. CASE id = f.packet.outer.id
    BY <1>5, <1>6, <2>2 DEF About
  <2> QED BY <1>7, <2>1, <2>2
<1>9. \A g \in flying' : \/ g \in flying /\ g # f /\ About(g) # About(f)
                         \/ g = next /\ About(g) = About(f) /\ Layer(g) = Layer(f) - 1
  BY <1>1 DEF LogsBehind
<1>10. \A m \in Forwarding : \A id \in log'[m] : \A g \in flying' : About(g) = id[1] => id[3] > Layer(g)
  <2> SUFFICES ASSUME NEW m \in Forwarding, NEW id \in log'[m], NEW g \in flying', About(g) = id[1]
               PROVE  id[3] > Layer(g)
    OBVIOUS
  <2>0. id \in log[m] => id[3] \in Nat
    BY <1>1 DEF ForwardTypes
  <2>1. CASE id \in log[m] /\ g \in flying
    BY <1>1, <2>1 DEF LogsBehind
  <2>2. CASE id \in log[m] /\ g = next /\ About(g) = About(f) /\ Layer(g) = Layer(f) - 1
    <3>1. id[3] > Layer(f)
      BY <1>1, <2>2 DEF LogsBehind
    <3> QED BY <1>5, <2>0, <2>2, <3>1
  <2>3. CASE id = f.packet.outer.id
    <3>1. id[1] = About(f) /\ id[3] = Layer(f)
      BY <2>3 DEF About, Layer
    <3>2. Layer(g) = Layer(f) - 1
      BY <1>9, <3>1
    <3> QED BY <1>5, <3>1, <3>2
  <2> QED BY <1>7, <1>9, <2>1, <2>2, <2>3
<1>11. \A g1, g2 \in flying' : About(g1) = About(g2) => g1 = g2
  <2>1. \A g1, g2 \in flying : About(g1) = About(g2) => g1 = g2
    BY <1>1 DEF LogsBehind
  <2> QED BY <1>9, <2>1
<1> QED BY <1>8, <1>10, <1>11 DEF LogsBehind, About, Layer

LEMMA InboundDataKeeps ==
    ASSUME ForwardInv, NEW n \in Forwarding, NEW f \in flying, onInboundData(n, f)
    PROVE  ForwardInv'
<1> DEFINE p == f.packet
<1>0. /\ ForwardTypes /\ MessagesValid /\ FlyingValid /\ ShownLogged /\ ShownOnce
      /\ (Once => LogsBehind) /\ HonestKept
  BY DEF ForwardInv
<1>1. /\ Accepted(n, f) /\ p.inner.type = "DATA"
      /\ shown' = [shown EXCEPT ![n] = Append(@, p)]
      /\ flying' = flying \ {f} /\ UNCHANGED evicted
  BY DEF onInboundData, Taken
<1>2. /\ p.outer.to = n /\ p.outer.id \notin log[n]
      /\ log' = [log EXCEPT ![n] = @ \cup {p.outer.id}]
      /\ UNCHANGED <<messages, handed>>
      /\ \E i \in DOMAIN messages : \E h \in 1..handed[i] : Carries(p, i, h)
  BY <1>1, AcceptedWhat
<1>3. PICK i \in DOMAIN messages : \E h \in 1..handed[i] : Carries(p, i, h)
  BY <1>2
<1>4. PICK h \in 1..handed[i] : Carries(p, i, h)
  BY <1>3
<1>5. p = messages[i] /\ p.outer.id = <<i, 0, 0>>
  BY <1>0, <1>1, <1>4, CarriesData DEF MessagesValid
<1>6. i \in Nat /\ p \in AppPackets
  BY <1>0, <1>5 DEF ForwardTypes
<1>7. p.outer.id \in Nat \X Nat \X Nat
  BY <1>5, <1>6
<1>8. /\ shown \in [Forwarding -> Seq(AppPackets)] /\ log \in [Forwarding -> SUBSET (Nat \X Nat \X Nat)]
  BY <1>0 DEF ForwardTypes
<1> HIDE DEF p
<1>9. ForwardTypes'
  <2>1. shown' \in [Forwarding -> Seq(AppPackets)]
    BY <1>1, <1>6, <1>8
  <2>2. log' \in [Forwarding -> SUBSET (Nat \X Nat \X Nat)]
    BY <1>2, <1>7, <1>8
  <2> QED BY <1>0, <1>1, <1>2, <2>1, <2>2 DEF ForwardTypes
<1>10. MessagesValid' /\ (Once' <=> Once) /\ \A q, j, k : Carries(q, j, k)' <=> Carries(q, j, k)
  BY <1>2, PacketsStay
<1>11. FlyingValid'
  BY <1>0, <1>1, <1>2, <1>10 DEF FlyingValid
<1>12. /\ \A m \in Forwarding : m # n => shown'[m] = shown[m] /\ log'[m] = log[m]
       /\ log'[n] = log[n] \cup {p.outer.id}
       /\ shown'[n] = Append(shown[n], p)
  BY <1>1, <1>2, <1>8
<1>13. /\ shown[n] \in Seq(AppPackets) /\ Len(shown[n]) \in Nat
       /\ DOMAIN shown'[n] = DOMAIN shown[n] \cup {Len(shown[n]) + 1}
       /\ \A k \in DOMAIN shown[n] : shown'[n][k] = shown[n][k]
       /\ shown'[n][Len(shown[n]) + 1] = p
  <2>1. shown[n] \in Seq(AppPackets)
    BY <1>8
  <2> QED BY <1>6, <1>12, <2>1
<1>14. ShownLogged'
  <2> SUFFICES ASSUME NEW m \in Forwarding, NEW k \in DOMAIN shown'[m]
               PROVE  shown'[m][k].outer.id \in log'[m]
    BY DEF ShownLogged
  <2>1. CASE m # n
    BY <1>0, <1>12, <2>1 DEF ShownLogged
  <2>2. CASE m = n /\ k \in DOMAIN shown[n]
    BY <1>0, <1>12, <1>13, <2>2 DEF ShownLogged
  <2>3. CASE m = n /\ k = Len(shown[n]) + 1
    BY <1>12, <1>13, <2>3
  <2> QED BY <1>13, <2>1, <2>2, <2>3
<1>15. \A k \in DOMAIN shown[n] : shown[n][k] # p
  BY <1>0, <1>2 DEF ShownLogged
<1>16. ShownOnce'
  <2> SUFFICES ASSUME NEW m \in Forwarding
               PROVE  /\ \A k \in DOMAIN shown'[m] : \E j \in DOMAIN messages :
                            shown'[m][k] = messages[j] /\ messages[j].outer.to = m
                      /\ \A k, l \in DOMAIN shown'[m] : shown'[m][k] = shown'[m][l] => k = l
    BY <1>2 DEF ShownOnce
  <2>1. CASE m # n
    BY <1>0, <1>12, <2>1 DEF ShownOnce
  <2>2. CASE m = n
    <3>1. \A k \in DOMAIN shown[n] : \E j \in DOMAIN messages :
             shown[n][k] = messages[j] /\ messages[j].outer.to = n
      BY <1>0 DEF ShownOnce
    <3>2. \A k, l \in DOMAIN shown[n] : shown[n][k] = shown[n][l] => k = l
      BY <1>0 DEF ShownOnce
    <3>3. \A k \in DOMAIN shown'[n] : \E j \in DOMAIN messages :
             shown'[n][k] = messages[j] /\ messages[j].outer.to = n
      BY <1>2, <1>5, <1>13, <3>1
    <3>4. \A k, l \in DOMAIN shown'[n] : shown'[n][k] = shown'[n][l] => k = l
      BY <1>13, <1>15, <3>2
    <3> QED BY <2>2, <3>3, <3>4
  <2> QED BY <2>1, <2>2
<1>17. Once => LogsBehind'
  <2>1. log' = [log EXCEPT ![n] = @ \cup {f.packet.outer.id}]
    BY <1>2 DEF p
  <2> QED BY <1>1, <1>2, <2>1, LogsStayBehind
<1>18. HonestKept'
  BY <1>0, <1>1, <1>2 DEF HonestKept
<1> QED BY <1>9, <1>10, <1>11, <1>14, <1>16, <1>17, <1>18 DEF ForwardInv

\* A log or the table changes, and a packet is taken or gives way to the next one:
\* what is common to onForward and Refused.
LEMMA LogsKept ==
    ASSUME ForwardInv, NEW n \in Forwarding, NEW id \in Nat \X Nat \X Nat,
           UNCHANGED <<messages, handed, shown>>,
           log' = log \/ log' = [log EXCEPT ![n] = @ \cup {id}],
           NEW name, evicted' = evicted \/ evicted' = [evicted EXCEPT ![n] = @ \cup {name}]
    PROVE  ForwardTypes' /\ ShownLogged' /\ ShownOnce'
<1>1. ForwardTypes /\ ShownLogged /\ ShownOnce
  BY DEF ForwardInv
<1>2. /\ log \in [Forwarding -> SUBSET (Nat \X Nat \X Nat)]
      /\ evicted = [m \in Forwarding |-> evicted[m]]
  BY <1>1 DEF ForwardTypes
<1>3. log' \in [Forwarding -> SUBSET (Nat \X Nat \X Nat)]
  BY <1>2
<1>4. \A m \in Forwarding : log[m] \subseteq log'[m]
  BY <1>2
<1>5. evicted' = [m \in Forwarding |-> evicted'[m]]
  BY <1>2
<1>6. ForwardTypes'
  BY <1>1, <1>3, <1>5 DEF ForwardTypes
<1>7. ShownLogged'
  BY <1>1, <1>4 DEF ShownLogged
<1>8. ShownOnce'
  BY <1>1 DEF ShownOnce
<1> QED BY <1>6, <1>7, <1>8

\* The id of what flies is one.
LEMMA IdOfFlying ==
    ASSUME ForwardInv, NEW f \in flying
    PROVE  f.packet.outer.id \in Nat \X Nat \X Nat
<1>1. ForwardTypes /\ MessagesValid /\ FlyingValid
  BY DEF ForwardInv
<1>2. PICK i \in DOMAIN messages : \E h \in 1..handed[i] : Carries(f.packet, i, h)
  BY <1>1 DEF FlyingValid
<1>3. PICK h \in 1..handed[i] : Carries(f.packet, i, h)
  BY <1>2
<1>4. i \in Nat /\ h \in Nat
  BY <1>1 DEF ForwardTypes
<1>5. f.packet.outer.id \in {<<i, 0, 0>>, <<i, h, 1>>, <<i, h, 2>>}
  BY <1>1, <1>3 DEF Carries, MessagesValid
<1> QED BY <1>4, <1>5

LEMMA ForwardKeeps ==
    ASSUME ForwardInv, NEW n \in Forwarding, NEW f \in flying, onForward(n, f)
    PROVE  ForwardInv'
<1> DEFINE p == f.packet
           next == [at |-> p.inner.body.next, packet |-> p.inner.body.packet]
<1>0. /\ ForwardTypes /\ MessagesValid /\ FlyingValid /\ ShownLogged /\ ShownOnce
      /\ (Once => LogsBehind) /\ HonestKept
  BY DEF ForwardInv
<1>1. /\ Accepted(n, f) /\ p.inner.type = "FORWARD" /\ parseForwardPayload(p)
      /\ flying' = (flying \ {f}) \cup {next} \/ flying' = flying \ {f}
      /\ UNCHANGED <<shown, evicted>>
  BY DEF onForward, Taken
<1>2. /\ log' = [log EXCEPT ![n] = @ \cup {p.outer.id}]
      /\ UNCHANGED <<messages, handed>>
      /\ \E i \in DOMAIN messages : \E h \in 1..handed[i] : Carries(p, i, h)
  BY <1>1, AcceptedWhat
<1>3. PICK i \in DOMAIN messages : \E h \in 1..handed[i] : Carries(p, i, h)
  BY <1>2
<1>4. PICK h \in 1..handed[i] : Carries(p, i, h)
  BY <1>3
<1>5. Carries(Inside(p), i, h) /\ Inside(p).outer.id[3] = p.outer.id[3] - 1 /\ p.outer.id[1] = i
  <2> HIDE DEF p
  <2> QED BY <1>0, <1>1, <1>4, CarriesWhat
<1>6. Inside(p).outer.id[1] = i
  <2> DEFINE q == Inside(p)
  <2> HIDE DEF q
  <2>1. Carries(q, i, h)
    BY <1>5 DEF q
  <2>2. q.outer.id[1] = i
    BY <1>0, <2>1, CarriesId
  <2> QED BY <2>2 DEF q
<1>7. next.at = next.packet.outer.to /\ next.packet = Inside(p)
  BY <1>1 DEF parseForwardPayload, Inside
<1>8. MessagesValid' /\ (Once' <=> Once) /\ \A q, j, k : Carries(q, j, k)' <=> Carries(q, j, k)
  BY <1>2, PacketsStay
<1>9. About(next) = About(f) /\ Layer(next) = Layer(f) - 1
  BY <1>5, <1>6, <1>7 DEF About, Layer
<1> HIDE DEF next
<1>10. FlyingValid'
  <2> SUFFICES ASSUME NEW g \in flying'
               PROVE  /\ g.at = g.packet.outer.to
                      /\ \E j \in DOMAIN messages : \E k \in 1..handed[j] : Carries(g.packet, j, k)
    BY <1>2, <1>8 DEF FlyingValid
  <2>1. CASE g \in flying
    BY <1>0, <2>1 DEF FlyingValid
  <2>2. CASE g = next
    BY <1>5, <1>7, <2>2
  <2> QED BY <1>1, <2>1, <2>2
<1>11. ForwardTypes' /\ ShownLogged' /\ ShownOnce'
  <2>1. p.outer.id \in Nat \X Nat \X Nat
    BY IdOfFlying
  <2> QED BY <1>1, <1>2, <2>1, LogsKept
<1>12. Once => LogsBehind'
  BY <1>1, <1>2, <1>9, LogsStayBehind
<1>13. HonestKept'
  BY <1>0, <1>1, <1>2 DEF HonestKept
<1> QED BY <1>8, <1>10, <1>11, <1>12, <1>13 DEF ForwardInv

\* While nobody hands a message out twice, nothing is refused.
LEMMA RefusedOnlyTwice ==
    ASSUME ForwardInv, NEW n \in Forwarding, NEW f \in flying, Refused(n, f)
    PROVE  ~Once
<1> DEFINE p == f.packet
<1>0. /\ ForwardTypes /\ MessagesValid /\ FlyingValid /\ (Once => LogsBehind)
  BY DEF ForwardInv
<1>1. f.at = p.outer.to
  BY <1>0 DEF FlyingValid
<1>2. PICK i \in DOMAIN messages : \E h \in 1..handed[i] : Carries(p, i, h)
  BY <1>0 DEF FlyingValid
<1>3. PICK h \in 1..handed[i] : Carries(p, i, h)
  BY <1>2
<1>4. innerValid(p) /\ (p.inner.type = "FORWARD" => Unwraps(p)) /\ p.outer.id[3] \in Nat
  <2> HIDE DEF p
  <2> QED BY <1>0, <1>3, CarriesWhat
<1>5. p.outer.id \in log[n]
  BY <1>1, <1>4 DEF Refused, AeadOpens, replayed, Unwraps
<1>6. About(f) = p.outer.id[1] /\ Layer(f) = p.outer.id[3]
  BY DEF About, Layer
<1>7. LogsBehind => p.outer.id[3] > Layer(f)
  BY <1>5, <1>6 DEF LogsBehind
<1> QED BY <1>0, <1>4, <1>6, <1>7

LEMMA RefusedKeeps ==
    ASSUME ForwardInv, NEW n \in Forwarding, NEW f \in flying, Refused(n, f)
    PROVE  ForwardInv'
<1>0. FlyingValid /\ HonestKept
  BY DEF ForwardInv
<1>1. flying' = flying \ {f} /\ UNCHANGED <<messages, handed, shown>>
  BY DEF Refused, Taken
<1>2. MessagesValid' /\ (Once' <=> Once) /\ \A q, j, k : Carries(q, j, k)' <=> Carries(q, j, k)
  BY <1>1, PacketsStay
<1>3. ~Once
  BY RefusedOnlyTwice
<1>4. FlyingValid'
  BY <1>0, <1>1, <1>2 DEF FlyingValid
<1>5. ForwardTypes' /\ ShownLogged' /\ ShownOnce'
  <2> DEFINE id == f.packet.outer.id
             name == f.packet.inner.from
  <2>1. id \in Nat \X Nat \X Nat
    BY IdOfFlying
  <2>2. \/ log' = log
        \/ log' = [log EXCEPT ![n] = @ \cup {id}]
    BY DEF Refused
  <2>3. \/ evicted' = evicted
        \/ evicted' = [evicted EXCEPT ![n] = @ \cup {name}]
    BY DEF Refused
  <2> HIDE DEF id, name
  <2> QED BY <1>1, <2>1, <2>2, <2>3, LogsKept
<1>6. HonestKept'
  BY <1>1, <1>3 DEF HonestKept, Once
<1> QED BY <1>2, <1>3, <1>4, <1>5, <1>6 DEF ForwardInv

-----------------------------------------------------------------------------
(* The theorem                                                             *)

LEMMA ForwardStart == ForwardInit => ForwardInv
BY DEF ForwardInit, ForwardInv, ForwardTypes, MessagesValid, FlyingValid, ShownLogged, ShownOnce,
       LogsBehind, HonestKept

LEMMA ForwardStep == ForwardInv /\ [ForwardNext]_forwardVars => ForwardInv'
<1> SUFFICES ASSUME ForwardInv, [ForwardNext]_forwardVars
             PROVE  ForwardInv'
  OBVIOUS
<1>1. CASE \E from, to \in Forwarding, app \in AppSizes : from # to /\ Compose(from, to, app)
  BY <1>1, ComposeKeeps
<1>2. CASE \E i \in DOMAIN messages, via \in RouteLists, addresses \in Addresses : HandOut(i, via, addresses)
  BY <1>2, HandOutKeeps
<1>3. ASSUME NEW n \in Forwarding, NEW f \in flying, onInboundData(n, f) \/ onForward(n, f) \/ Refused(n, f)
      PROVE  ForwardInv'
  BY <1>3, InboundDataKeeps, ForwardKeeps, RefusedKeeps
<1>4. CASE UNCHANGED forwardVars
  <2>1. MessagesValid' /\ (Once' <=> Once) /\ \A p, i, h : Carries(p, i, h)' <=> Carries(p, i, h)
    BY <1>4, PacketsStay DEF forwardVars
  <2>2. FlyingValid'
    BY <1>4, <2>1 DEF forwardVars, ForwardInv, FlyingValid
  <2>3. ForwardTypes' /\ ShownLogged'
    BY <1>4 DEF forwardVars, ForwardInv, ForwardTypes, ShownLogged
  <2>4. ShownOnce'
    BY <1>4 DEF forwardVars, ForwardInv, ShownOnce
  <2>5. Once => LogsBehind'
    BY <1>4 DEF forwardVars, ForwardInv, LogsBehind, About, Layer
  <2>6. HonestKept'
    BY <1>4 DEF forwardVars, ForwardInv, HonestKept
  <2> QED BY <2>1, <2>2, <2>3, <2>4, <2>5, <2>6 DEF ForwardInv
<1> QED BY <1>1, <1>2, <1>3, <1>4 DEF ForwardNext

\* Whatever forwarders there are, however many messages go through them and
\* however often each is handed out: an application is called once at most for
\* a message, with what was written, and nobody who hands his messages out
\* once loses his place in a table.
THEOREM ForwardsAlwaysSound == ForwardSpec => []ForwardSound
<1>1. ForwardInv => ForwardSound
  BY DEF ForwardInv, ForwardSound
<1> QED BY <1>1, ForwardStart, ForwardStep, PTL DEF ForwardSpec

-----------------------------------------------------------------------------
(* The overlay node                                                        *)

\* The peer that a key of `transports' stands for, and connections with it.
NameOf(n, key) == IF key = Wiped THEN Target(n) ELSE key
Between(n, p, c) == c \in Used /\ (ends[c] = <<n, p>> \/ ends[c] = <<p, n>>)

NodeTypes ==
    /\ NodeTypeOK
    /\ wire \in [Conns -> [Nodes -> Seq(Packets)]]
    /\ \A n \in Nodes : issued[n] <= faults

\* Nothing is known of a connection before it is made, nobody dials himself, ...
ConnsPlaced ==
    /\ \A c \in Used : ends[c][1] # ends[c][2] /\ link[c] # "none"
    /\ \A c \in Conns \ Used : \A n \in Nodes :
          link[c] = "none" /\ wire[c][n] = <<>> /\ handler[n][c] = "none" /\ c \notin closed[n]

\* ... a packet comes from the node at the other end, ...
PacketsFromPeer ==
    \A c \in Used, n \in Nodes : \A i \in 1..Len(wire[c][n]) : Between(n, wire[c][n][i].from, c)

\* ... and a close handler is where its function put it: the retry handler of an
\* open transport is that of the dialer's entry, and a transport with the
\* handler of acceptInbound has not been verified.
HandlersPlaced ==
    /\ \A n \in Nodes : entry[n].timer => Target(n) # None
    /\ \A n \in Nodes, c \in Used :
        /\ handler[n][c] = "retry" =>
              ends[c] = <<n, Target(n)>> /\ (c \notin closed[n] => entry[n].conn = c /\ ~entry[n].timer)
        /\ handler[n][c] = "accept" => ends[c][2] = n /\ c \notin verified[n]
        /\ handler[n][c] = "promote" => ends[c][1] = n \/ ends[c][2] = n

\* A route leads to the node it is named for, over a transport that was verified
\* or that n dialed itself.
RoutesPlaced ==
    \A n \in Nodes, key \in RouteKeys : route[n][key] # 0 =>
        /\ Between(n, NameOf(n, key), route[n][key])
        /\ route[n][key] \in verified[n] \/ handler[n][route[n][key]] = "retry"

VerifiedUp == \A n \in Nodes : \A c \in verified[n] : c \in Used /\ link[c] # "dialing"

\* Nothing can come any more over a transport that closed before it was verified.
ClosedSilent ==
    \A n \in Nodes : \A c \in closed[n] :
        /\ n = ends[c][1] \/ n = ends[c][2]
        /\ c \in verified[n] \/ link[c] = "down" \/ (c \in closed[Other(n, c)] /\ wire[c][n] = <<>>)

\* A node that does not run has no transport.
Resting ==
    \A n \in Nodes : n \notin running =>
        /\ entry[n] = NoEntry /\ verified[n] = {}
        /\ \A c \in Conns : handler[n][c] = "none"
        /\ \A key \in RouteKeys : route[n][key] = 0

Believed ==
    \A n, p \in Nodes : p \in advertised[n] \/ table[n][p] = "connected" => route[n][p] # 0

NodeInv ==
    /\ NodeTypes /\ ConnsPlaced /\ PacketsFromPeer /\ HandlersPlaced /\ RoutesPlaced
    /\ VerifiedUp /\ ClosedSilent /\ Resting
    /\ RouteLive /\ DialerWatches /\ Believed

-----------------------------------------------------------------------------
LEMMA NodeStarts == NodeInit => NodeInv
<1> SUFFICES ASSUME NodeInit PROVE NodeInv
  OBVIOUS
<1>1. Used = {}
  BY DEF NodeInit, Used
<1>2. NodeTypes
  <2>1. network \in Networks /\ \A n \in Nodes : Seeds(n) \subseteq Nodes
    BY OverlayAssumption DEF NodeInit, Seeds
  <2>2. MaxFaults \in Nat /\ MaxConns \in Nat /\ MaxGossip \in Nat /\ MaxData \in Nat
    BY OverlayAssumption
  <2>3. table \in [Nodes -> [Nodes -> {"absent", "known", "connected"}]]
    BY DEF NodeInit, SeedTable
  <2>4. entry \in [Nodes -> [conn : 0..MaxConns, timer : BOOLEAN, wiped : BOOLEAN]]
    BY <2>2 DEF NodeInit, NoEntry
  <2>5. wire \in [Conns -> [Nodes -> Seq(Packets)]]
    BY DEF NodeInit
  <2>6. cache \in [Nodes -> SUBSET Nodes]
    BY <2>1 DEF NodeInit
  <2>7. ends \in Seq(Nodes \X Nodes) /\ Len(ends) <= MaxConns
    BY <2>2 DEF NodeInit
  <2>8. heard \in [Nodes -> [Nodes -> 0..MaxData]] /\ said \in [Nodes -> 0..MaxData] /\ gossiped \in 0..MaxGossip
    BY <2>2 DEF NodeInit
  <2>9. /\ cert \in [Nodes -> [Nodes -> Certs]] /\ issued \in [Nodes -> Certs] /\ faults \in 0..MaxFaults
        /\ expired \subseteq Nodes \X Certs /\ \A n \in Nodes : issued[n] <= faults
    BY <2>2 DEF NodeInit, Certs
  <2>10. route \in [Nodes -> [RouteKeys -> 0..MaxConns]] /\ handler \in [Nodes -> [Conns -> Handlers]]
    BY <2>2 DEF NodeInit, Handlers
  <2>11. /\ verified \in [Nodes -> SUBSET Conns] /\ closed \in [Nodes -> SUBSET Conns]
         /\ advertised \in [Nodes -> SUBSET Nodes] /\ certSent \in [Nodes -> SUBSET Nodes]
         /\ running \subseteq Online /\ link \in [Conns -> {"none", "dialing", "up", "down"}]
    BY DEF NodeInit
  <2> QED BY <2>1, <2>3, <2>4, <2>5, <2>6, <2>7, <2>8, <2>9, <2>10, <2>11 DEF NodeTypes, NodeTypeOK
<1>3. ConnsPlaced /\ PacketsFromPeer /\ HandlersPlaced
  BY <1>1 DEF NodeInit, NoEntry, ConnsPlaced, PacketsFromPeer, HandlersPlaced
<1>4. RoutesPlaced /\ VerifiedUp /\ ClosedSilent
  BY DEF NodeInit, RoutesPlaced, VerifiedUp, ClosedSilent
<1>5. Resting
  BY DEF NodeInit, Resting
<1>6. RouteLive /\ DialerWatches
  BY DEF NodeInit, RouteLive, DialerWatches
<1>7. Believed
  BY DEF NodeInit, Believed, SeedTable
<1> QED BY <1>2, <1>3, <1>4, <1>5, <1>6, <1>7 DEF NodeInv

\* What the proofs of the steps need of the types.
LEMMA NodeFacts ==
    ASSUME NodeInv
    PROVE  /\ running \subseteq Online /\ Online \subseteq Nodes
           /\ table \in [Nodes -> [Nodes -> {"absent", "known", "connected"}]]
           /\ route \in [Nodes -> [RouteKeys -> 0..MaxConns]]
           /\ verified \in [Nodes -> SUBSET Conns] /\ advertised \in [Nodes -> SUBSET Nodes]
           /\ entry \in [Nodes -> [conn : 0..MaxConns, timer : BOOLEAN, wiped : BOOLEAN]]
           /\ handler \in [Nodes -> [Conns -> Handlers]] /\ closed \in [Nodes -> SUBSET Conns]
           /\ ends \in Seq(Nodes \X Nodes) /\ Len(ends) <= MaxConns /\ MaxConns \in Nat
           /\ link \in [Conns -> {"none", "dialing", "up", "down"}]
           /\ wire \in [Conns -> [Nodes -> Seq(Packets)]]
           /\ None \notin Nodes /\ Wiped \notin Nodes /\ Wiped # None
BY OverlayAssumption DEF NodeInv, NodeTypes, NodeTypeOK

LEMMA BetweenOnce ==
    ASSUME NEW n, NEW p, NEW q, NEW c, Between(n, p, c), Between(n, q, c), n # p
    PROVE  p = q
BY DEF Between

LEMMA UsedFacts ==
    ASSUME NodeInv
    PROVE  /\ Used \subseteq Conns /\ Len(ends) \in Nat
           /\ \A c \in Used : ends[c] \in Nodes \X Nodes /\ ends[c][1] \in Nodes /\ ends[c][2] \in Nodes
           /\ \A n \in Nodes, c \in Used : Other(n, c) \in Nodes
           /\ \A n \in Nodes : closed[n] \subseteq Used /\ verified[n] \subseteq Used
<1>1. Used \subseteq Conns /\ Len(ends) \in Nat
  BY NodeFacts DEF Used, Conns
<1>2. \A c \in Used : ends[c] \in Nodes \X Nodes /\ ends[c][1] \in Nodes /\ ends[c][2] \in Nodes
  BY NodeFacts DEF Used
<1>3. \A n \in Nodes : closed[n] \subseteq Used /\ verified[n] \subseteq Used
  BY NodeFacts DEF NodeInv, ConnsPlaced, VerifiedUp
<1> QED BY <1>1, <1>2, <1>3 DEF Other

LEMMA TargetFacts ==
    ASSUME NodeInv, NEW n \in Nodes
    PROVE  /\ network \in Networks /\ Seeds(n) \subseteq Nodes /\ n \notin Seeds(n)
           /\ Target(n) \in Nodes \cup {None} /\ Target(n) # n
BY OverlayAssumption DEF NodeInv, NodeTypes, NodeTypeOK, Seeds, Target

\* Routes that stay over connections that stay.
LEMMA RoutesStand ==
    ASSUME network' = network, ends' = ends,
           \A n \in Nodes, key \in RouteKeys : route'[n][key] # 0 =>
               /\ Between(n, NameOf(n, key), route'[n][key])
               /\ route'[n][key] \in verified'[n] \/ handler'[n][route'[n][key]] = "retry"
    PROVE  RoutesPlaced'
BY DEF RoutesPlaced, Between, NameOf, Target, Used

-----------------------------------------------------------------------------
(* Packets are sent                                                        *)

\* n gives its transports packets, and nothing else of the network changes.
LEMMA TransmitKeeps ==
    ASSUME NodeInv, NEW n \in Nodes, NEW packets, DOMAIN packets \subseteq Nodes,
           \A p \in DOMAIN packets : packets[p] \in Seq(Packets),
           \A p \in DOMAIN packets : \A i \in 1..Len(packets[p]) : packets[p][i].from = n,
           Transmit(n, packets),
           UNCHANGED <<network, running, table, route, verified, advertised, entry, handler, closed, ends, link>>
    PROVE  /\ wire' \in [Conns -> [Nodes -> Seq(Packets)]]
           /\ ConnsPlaced' /\ PacketsFromPeer' /\ ClosedSilent'
<1>1. wire' \in [Conns -> [Nodes -> Seq(Packets)]]
  BY NodeFacts DEF Transmit
<1>2. ASSUME NEW c \in Conns, NEW p \in Nodes
      PROVE  \/ wire'[c][p] = wire[c][p]
             \/ /\ p \in DOMAIN packets /\ route[n][p] = c /\ c \notin closed[n] /\ link[c] # "down"
                /\ wire'[c][p] = wire[c][p] \o packets[p]
  BY DEF Transmit
<1>3. \A c \in Conns, p \in Nodes : route[n][p] = c => Between(n, p, c)
  <2> SUFFICES ASSUME NEW c \in Conns, NEW p \in Nodes, route[n][p] = c PROVE Between(n, p, c)
    OBVIOUS
  <2>1. c # 0 /\ p \in RouteKeys /\ p # Wiped
    BY OverlayAssumption DEF Conns, RouteKeys
  <2>2. Between(n, NameOf(n, p), route[n][p])
    BY <2>1 DEF NodeInv, RoutesPlaced
  <2> QED BY <2>1, <2>2 DEF NameOf
<1>4. Used \subseteq Conns /\ Used' = Used
  BY UsedFacts DEF Used
<1>5. ConnsPlaced'
  <2>1. ASSUME NEW c \in Conns \ Used, NEW p \in Nodes PROVE wire'[c][p] = <<>>
    <3>1. route[n][p] # c
      BY <1>3 DEF Between
    <3>2. wire[c][p] = <<>>
      BY DEF NodeInv, ConnsPlaced
    <3>3. wire'[c][p] = wire[c][p]
      BY <1>2, <3>1
    <3> QED BY <3>2, <3>3
  <2> QED BY <1>4, <2>1 DEF NodeInv, ConnsPlaced
<1>6. PacketsFromPeer'
  <2> SUFFICES ASSUME NEW c \in Used, NEW p \in Nodes, NEW i \in 1..Len(wire'[c][p])
               PROVE  Between(p, wire'[c][p][i].from, c)
    BY <1>4 DEF PacketsFromPeer, Between
  <2>1. CASE wire'[c][p] = wire[c][p]
    BY <2>1 DEF NodeInv, PacketsFromPeer
  <2>2. CASE p \in DOMAIN packets /\ route[n][p] = c /\ wire'[c][p] = wire[c][p] \o packets[p]
    <3>1. wire[c][p] \in Seq(Packets) /\ packets[p] \in Seq(Packets)
      BY <1>4, <2>2, NodeFacts
    <3>2. CASE i \in 1..Len(wire[c][p])
      <4>1. wire'[c][p][i] = wire[c][p][i]
        BY <2>2, <3>1, <3>2
      <4> QED BY <3>2, <4>1 DEF NodeInv, PacketsFromPeer
    <3>3. CASE i \notin 1..Len(wire[c][p])
      <4>1. PICK k \in 1..Len(packets[p]) : wire'[c][p][i] = packets[p][k]
        <5> DEFINE s == wire[c][p]
                   t == packets[p]
        <5>0. s \in Seq(Packets) /\ t \in Seq(Packets) /\ wire'[c][p] = s \o t
          BY <2>2, <3>1
        <5>4. i \in 1..Len(s \o t) /\ i \notin 1..Len(s)
          BY <3>3, <5>0
        <5> HIDE DEF s, t
        <5>1. i \in 1..(Len(s) + Len(t)) /\ Len(s) \in Nat /\ Len(t) \in Nat /\ i \notin 1..Len(s)
          BY <5>0, <5>4
        <5>2. (s \o t)[i] = t[i - Len(s)]
          BY <5>0, <5>1
        <5>3. i - Len(s) \in 1..Len(t)
          BY <5>1
        <5>5. \E k \in 1..Len(t) : wire'[c][p][i] = t[k]
          BY <5>0, <5>2, <5>3
        <5> QED BY <5>5 DEF t
      <4> QED BY <1>3, <1>4, <2>2, <4>1 DEF Between
    <3> QED BY <3>2, <3>3
  <2> QED BY <1>2, <1>4, <2>1, <2>2
<1>7. ClosedSilent'
  <2> SUFFICES ASSUME NEW p \in Nodes, NEW c \in closed[p], c \in closed[Other(p, c)], wire[c][p] = <<>>
               PROVE  wire'[c][p] = <<>>
    BY <1>4 DEF NodeInv, ClosedSilent, Other
  <2>1. c \in Used
    BY UsedFacts
  <2>2. route[n][p] = c => Other(p, c) = n
    BY <1>3, <1>4, <2>1 DEF Between, Other, NodeInv, ConnsPlaced
  <2> QED BY <1>2, <1>4, <2>1, <2>2
<1> QED BY <1>1, <1>5, <1>6, <1>7
-----------------------------------------------------------------------------
(* A node dials                                                            *)

LEMMA EntryUpdated ==
    ASSUME NEW numbers, NEW e \in [conn : numbers, timer : BOOLEAN, wiped : BOOLEAN], NEW c \in numbers, NEW t \in BOOLEAN
    PROVE  [e EXCEPT !.conn = c, !.timer = t] \in [conn : numbers, timer : BOOLEAN, wiped : BOOLEAN]
OBVIOUS

LEMMA DialChanges ==
    ASSUME NodeInv, NEW n \in Nodes, tryDial(n), Target(n) \in Nodes
    PROVE  LET p == Target(n)
               c == Len(ends) + 1
               key == IF entry[n].wiped THEN Wiped ELSE p
           IN  /\ c \in Conns /\ c \notin Used /\ Used' = Used \cup {c}
               /\ key \in RouteKeys /\ NameOf(n, key) = p /\ (key = p \/ key = Wiped)
               /\ ends' \in Seq(Nodes \X Nodes) /\ Len(ends') <= MaxConns
               /\ ends'[c] = <<n, p>> /\ \A d \in Used : ends'[d] = ends[d]
               /\ link' = [link EXCEPT ![c] = "dialing"]
               /\ entry' = [entry EXCEPT ![n].conn = c, ![n].timer = FALSE]
               /\ route' = [route EXCEPT ![n][key] = c]
               /\ handler' = [handler EXCEPT ![n][c] = "retry"]
               /\ table' = Marked(n, key, "connected")
<1> DEFINE p == Target(n)
           c == Len(ends) + 1
           key == IF entry[n].wiped THEN Wiped ELSE p
<1>1. /\ c \in Conns /\ ends' = Append(ends, <<n, p>>) /\ link' = [link EXCEPT ![c] = "dialing"]
      /\ entry' = [entry EXCEPT ![n].conn = c, ![n].timer = FALSE] /\ route' = [route EXCEPT ![n][key] = c]
      /\ handler' = [handler EXCEPT ![n][c] = "retry"] /\ table' = Marked(n, key, "connected")
  BY DEF tryDial, attach
<1>2. ends \in Seq(Nodes \X Nodes) /\ MaxConns \in Nat /\ <<n, p>> \in Nodes \X Nodes
  BY NodeFacts
<1>3. /\ c \notin Used /\ Used' = Used \cup {c}
      /\ ends' \in Seq(Nodes \X Nodes) /\ Len(ends') <= MaxConns
  BY <1>1, <1>2 DEF Conns, Used
<1>4. ends'[c] = <<n, p>> /\ \A d \in Used : ends'[d] = ends[d]
  BY <1>1, <1>2 DEF Used
<1>5. key \in RouteKeys /\ NameOf(n, key) = p /\ (key = p \/ key = Wiped)
  BY OverlayAssumption DEF RouteKeys, NameOf
<1> QED BY <1>1, <1>3, <1>4, <1>5

LEMMA DialKeeps ==
    ASSUME NodeInv, NEW n \in Nodes, tryDial(n), Target(n) # None,
           n \notin running \/ entry[n].timer, running' = running \cup {n}, running' \subseteq Online,
           UNCHANGED <<network, cache, cert, verified, advertised, certSent, closed, wire, time, chat, gossiped,
                       faults>>
    PROVE  NodeInv'
<1> DEFINE p == Target(n)
           c == Len(ends) + 1
           key == IF entry[n].wiped THEN Wiped ELSE p
<1>1. p \in Nodes /\ p # n
  BY TargetFacts
<1>2. /\ c \in Conns /\ c \notin Used /\ Used' = Used \cup {c}
      /\ key \in RouteKeys /\ NameOf(n, key) = p /\ (key = p \/ key = Wiped)
      /\ ends' \in Seq(Nodes \X Nodes) /\ Len(ends') <= MaxConns
      /\ ends'[c] = <<n, p>> /\ \A d \in Used : ends'[d] = ends[d]
      /\ link' = [link EXCEPT ![c] = "dialing"]
      /\ entry' = [entry EXCEPT ![n].conn = c, ![n].timer = FALSE]
      /\ route' = [route EXCEPT ![n][key] = c]
      /\ handler' = [handler EXCEPT ![n][c] = "retry"]
      /\ table' = Marked(n, key, "connected")
  BY <1>1, DialChanges
<1>3. \A m \in Nodes : Target(m)' = Target(m) /\ \A k : NameOf(m, k)' = NameOf(m, k)
  BY DEF Target, NameOf
<1> HIDE DEF p, c, key
<1>4. NodeTypes'
  <2>0. c \in 0..MaxConns
    BY <1>2, OverlayAssumption DEF Conns
  <2>1. route' \in [Nodes -> [RouteKeys -> 0..MaxConns]]
    BY <1>2, <2>0, NodeFacts
  <2>2. entry' \in [Nodes -> [conn : 0..MaxConns, timer : BOOLEAN, wiped : BOOLEAN]]
    <3>1. [entry[n] EXCEPT !.conn = c, !.timer = FALSE] \in [conn : 0..MaxConns, timer : BOOLEAN, wiped : BOOLEAN]
      <4>1. entry[n] \in [conn : 0..MaxConns, timer : BOOLEAN, wiped : BOOLEAN]
        BY NodeFacts
      <4> QED BY <2>0, <4>1, EntryUpdated
    <3>2. entry' = [entry EXCEPT ![n] = [entry[n] EXCEPT !.conn = c, !.timer = FALSE]]
      BY <1>2, NodeFacts
    <3> QED BY <3>1, <3>2, NodeFacts
  <2>3. handler' \in [Nodes -> [Conns -> Handlers]] /\ link' \in [Conns -> {"none", "dialing", "up", "down"}]
    BY <1>2, NodeFacts DEF Handlers
  <2>4. table' \in [Nodes -> [Nodes -> {"absent", "known", "connected"}]]
    BY <1>2, NodeFacts DEF Marked
  <2> QED BY <1>2, <2>1, <2>2, <2>3, <2>4 DEF NodeInv, NodeTypes, NodeTypeOK, time, chat
<1>5. /\ \A m \in Nodes : m # n => entry'[m] = entry[m]
      /\ entry'[n].conn = c /\ entry'[n].timer = FALSE /\ entry'[n].wiped = entry[n].wiped
  BY <1>2, NodeFacts
<1>6. /\ \A m \in Nodes, d \in Conns : m # n \/ d # c => handler'[m][d] = handler[m][d]
      /\ handler'[n][c] = "retry"
  BY <1>2, NodeFacts
<1>7. /\ \A m \in Nodes, k \in RouteKeys : m # n \/ k # key => route'[m][k] = route[m][k]
      /\ route'[n][key] = c
  BY <1>2, NodeFacts
<1>8. link'[c] = "dialing" /\ \A d \in Conns : d # c => link'[d] = link[d]
  BY <1>2, NodeFacts
<1>9. c # 0 /\ Used \subseteq Conns /\ c \notin closed[n] /\ closed' = closed /\ verified' = verified
  BY <1>2, UsedFacts DEF Conns
<1>10. \A m, q \in Nodes : \A d : Between(m, q, d) => Between(m, q, d)'
  BY <1>2 DEF Between
<1>11. ConnsPlaced'
  <2>1. \A d \in Used' : ends'[d][1] # ends'[d][2] /\ link'[d] # "none"
    BY <1>1, <1>2, <1>8, <1>9 DEF NodeInv, ConnsPlaced, p
  <2>2. \A d \in Conns \ Used' : \A m \in Nodes :
           link'[d] = "none" /\ wire'[d][m] = <<>> /\ handler'[m][d] = "none" /\ d \notin closed'[m]
    BY <1>2, <1>6, <1>8 DEF NodeInv, ConnsPlaced
  <2> QED BY <2>1, <2>2 DEF ConnsPlaced
<1>12. PacketsFromPeer'
  <2>0. \A m \in Nodes : wire[c][m] = <<>>
    BY <1>2 DEF NodeInv, ConnsPlaced
  <2>1. SUFFICES ASSUME NEW d \in Used', NEW m \in Nodes, NEW i \in 1..Len(wire[d][m])
                 PROVE  Between(m, wire[d][m][i].from, d)'
    BY DEF PacketsFromPeer
  <2>2. d \in Used
    BY <1>2, <2>0
  <2>3. Between(m, wire[d][m][i].from, d)
    BY <2>2 DEF NodeInv, PacketsFromPeer
  <2> QED BY <1>2, <2>2, <2>3 DEF Between
<1>13. HandlersPlaced'
  <2>1. \A m \in Nodes : entry'[m].timer => Target(m) # None
    BY <1>5 DEF NodeInv, HandlersPlaced
  <2>2. ASSUME NEW m \in Nodes, NEW d \in Used', handler'[m][d] = "retry"
        PROVE  ends'[d] = <<m, Target(m)>> /\ (d \notin closed[m] => entry'[m].conn = d /\ ~entry'[m].timer)
    <3>1. CASE d = c
      <4>1. m = n
        BY <1>2, <1>6, <2>2, <3>1 DEF NodeInv, ConnsPlaced
      <4> QED BY <1>2, <1>5, <3>1, <4>1 DEF p
    <3>2. CASE d \in Used
      <4>1. /\ handler[m][d] = "retry"
            /\ ends[d] = <<m, Target(m)>> /\ (d \notin closed[m] => entry[m].conn = d /\ ~entry[m].timer)
        BY <1>2, <1>6, <1>9, <2>2, <3>2 DEF NodeInv, HandlersPlaced
      <4>2. m = n => d \in closed[m]
        BY <1>9, <3>2, <4>1 DEF NodeInv, Resting
      <4> QED BY <1>2, <1>5, <3>2, <4>1, <4>2
    <3> QED BY <1>2, <3>1, <3>2
  <2>3. ASSUME NEW m \in Nodes, NEW d \in Used', handler'[m][d] = "accept"
        PROVE  ends'[d][2] = m /\ d \notin verified[m]
    <3>1. d \in Used
      BY <1>2, <1>6, <2>3 DEF NodeInv, ConnsPlaced
    <3> QED BY <1>2, <1>6, <1>9, <2>3, <3>1 DEF NodeInv, HandlersPlaced
  <2>4. ASSUME NEW m \in Nodes, NEW d \in Used', handler'[m][d] = "promote"
        PROVE  ends'[d][1] = m \/ ends'[d][2] = m
    <3>1. d \in Used
      BY <1>2, <1>6, <2>4 DEF NodeInv, ConnsPlaced
    <3> QED BY <1>2, <1>6, <1>9, <2>4, <3>1, SMTT(60) DEF NodeInv, HandlersPlaced
  <2> QED BY <1>3, <1>9, <2>1, <2>2, <2>3, <2>4 DEF HandlersPlaced
<1>14. RoutesPlaced'
  <2>1. SUFFICES ASSUME NEW m \in Nodes, NEW k \in RouteKeys, route'[m][k] # 0
                 PROVE  /\ Between(m, NameOf(m, k), route[m][k])'
                        /\ route'[m][k] \in verified[m] \/ handler'[m][route'[m][k]] = "retry"
    BY <1>9 DEF RoutesPlaced
  <2>2. CASE m = n /\ k = key
    BY <1>2, <1>3, <1>6, <1>7, <2>2 DEF Between
  <2>3. CASE m # n \/ k # key
    <3>1. /\ route'[m][k] = route[m][k]
          /\ Between(m, NameOf(m, k), route[m][k])
          /\ route[m][k] \in verified[m] \/ handler[m][route[m][k]] = "retry"
      BY <1>7, <2>1, <2>3 DEF NodeInv, RoutesPlaced
    <3>2. route[m][k] \in Used /\ handler'[m][route[m][k]] = handler[m][route[m][k]]
      BY <1>2, <1>6, <1>9, <3>1 DEF Between
    <3> QED BY <1>2, <1>3, <3>1, <3>2, SMTT(30) DEF Between
  <2> QED BY <2>2, <2>3
<1>15. VerifiedUp'
  BY <1>2, <1>8, <1>9 DEF NodeInv, VerifiedUp
<1>16. ClosedSilent'
  <2> SUFFICES ASSUME NEW m \in Nodes, NEW d \in closed[m]
               PROVE  /\ m = ends'[d][1] \/ m = ends'[d][2]
                      /\ d \in verified[m] \/ link'[d] = "down" \/ (d \in closed[Other(m, d)'] /\ wire[d][m] = <<>>)
    BY <1>9 DEF ClosedSilent
  <2>1. d \in Used /\ ends'[d] = ends[d] /\ link'[d] = link[d] /\ Other(m, d)' = Other(m, d)
    BY <1>2, <1>8, <1>9, UsedFacts DEF Other
  <2> QED BY <2>1 DEF NodeInv, ClosedSilent
<1>17. Resting'
  BY <1>5, <1>6, <1>7, <1>9 DEF NodeInv, Resting
<1>18. \A m \in Nodes : m \in running' => m \in running \/ m = n
  OBVIOUS
<1>19. RouteLive'
  <2> SUFFICES ASSUME NEW m \in running', NEW q \in Nodes, ~FingerprintLost(m, q)'
               PROVE  route'[m][q] \notin closed[m]
    BY <1>9 DEF RouteLive
  <2>0. m \in Nodes /\ q \in RouteKeys /\ 0 \notin closed[m] /\ c \notin closed[m]
    BY <1>2, OverlayAssumption, UsedFacts DEF RouteKeys, Conns
  <2>1. ~FingerprintLost(m, q)
    BY <1>5, <2>0 DEF FingerprintLost, Target
  <2>2. CASE m \in running
    BY <1>7, <2>0, <2>1, <2>2 DEF NodeInv, RouteLive
  <2>3. CASE m \notin running
    <3>1. route[m][q] = 0
      BY <2>0, <2>3 DEF NodeInv, Resting
    <3> QED BY <1>7, <2>0, <3>1
  <2> QED BY <2>2, <2>3
<1>20. DialerWatches'
  <2> SUFFICES ASSUME NEW m \in running', Target(m) # None
               PROVE  \/ entry'[m].timer
                      \/ /\ entry'[m].conn # 0
                         /\ handler'[m][entry'[m].conn] = "retry" => entry'[m].conn \notin closed[m]
    BY <1>9, <1>18, OverlayAssumption DEF DialerWatches, Target
  <2>1. CASE m = n
    BY <1>5, <1>9, <2>1
  <2>2. CASE m # n
    <3>1. m \in running /\ m \in Nodes
      BY <2>2, OverlayAssumption
    <3>2. entry'[m] = entry[m] /\ \A d \in Conns : handler'[m][d] = handler[m][d]
      BY <1>5, <1>6, <2>2, <3>1
    <3>3. entry[m].conn \in 0..MaxConns
      BY <3>1, NodeFacts
    <3>4. entry[m].conn # 0 => entry[m].conn \in Conns
      BY <3>3, NodeFacts DEF Conns
    <3> QED BY <3>1, <3>2, <3>4 DEF NodeInv, DialerWatches
  <2> QED BY <2>1, <2>2
<1>21. Believed'
  <2> SUFFICES ASSUME NEW m \in Nodes, NEW q \in Nodes, q \in advertised[m] \/ table'[m][q] = "connected"
               PROVE  route'[m][q] # 0
    BY DEF Believed
  <2>0. q \in RouteKeys /\ key \in RouteKeys
    BY <1>2 DEF RouteKeys
  <2>1. CASE m = n /\ q = key
    BY <1>7, <1>9, <2>1
  <2>2. CASE ~(m = n /\ q = key)
    <3>1. table'[m][q] = table[m][q]
      BY <1>2, <2>2, NodeFacts DEF Marked
    <3> QED BY <1>7, <2>0, <2>2, <3>1 DEF NodeInv, Believed
  <2> QED BY <2>1, <2>2
<1> QED BY <1>4, <1>11, <1>12, <1>13, <1>14, <1>15, <1>16, <1>17, <1>19, <1>20, <1>21 DEF NodeInv

-----------------------------------------------------------------------------
(* Processes stop, connections open and break                              *)

LEMMA StopTypes ==
    ASSUME NodeInv, NEW n \in Nodes, Stop(n)
    PROVE  NodeTypes'
<1> DEFINE mine == {c \in Used : n \in {ends[c][1], ends[c][2]}}
<1>0. NodeTypeOK /\ wire \in [Conns -> [Nodes -> Seq(Packets)]] /\ \A m \in Nodes : issued[m] <= faults
  BY DEF NodeInv, NodeTypes
<1>1. mine \subseteq Conns
  BY UsedFacts
<1>2. table' \in [Nodes -> [Nodes -> {"absent", "known", "connected"}]]
  <2>1. SeedTable(n) \in [Nodes -> {"absent", "known", "connected"}]
    BY DEF SeedTable
  <2>2. table' = [table EXCEPT ![n] = SeedTable(n)]
    BY DEF Stop
  <2> QED BY <1>0, <2>1, <2>2 DEF NodeTypeOK
<1>3. route' \in [Nodes -> [RouteKeys -> 0..MaxConns]]
  BY <1>0, OverlayAssumption DEF NodeTypeOK, Stop
<1>4. /\ verified' \in [Nodes -> SUBSET Conns] /\ advertised' \in [Nodes -> SUBSET Nodes]
      /\ certSent' \in [Nodes -> SUBSET Nodes]
  BY <1>0 DEF NodeTypeOK, Stop
<1>5. entry' \in [Nodes -> [conn : 0..MaxConns, timer : BOOLEAN, wiped : BOOLEAN]]
  BY <1>0, OverlayAssumption DEF NodeTypeOK, Stop, NoEntry
<1>6. handler' \in [Nodes -> [Conns -> Handlers]]
  BY <1>0 DEF NodeTypeOK, Stop, Handlers
<1>7. closed' \in [Nodes -> SUBSET Conns]
  <2>1. closed' = [closed EXCEPT ![n] = mine]
    BY DEF Stop
  <2> QED BY <1>0, <1>1, <2>1 DEF NodeTypeOK
<1>8. link' \in [Conns -> {"none", "dialing", "up", "down"}]
  BY <1>0 DEF NodeTypeOK, Stop
<1>9. wire' \in [Conns -> [Nodes -> Seq(Packets)]]
  <2>1. wire' = [c \in Conns |-> IF c \in mine THEN [p \in Nodes |-> <<>>] ELSE wire[c]]
    BY DEF Stop
  <2>2. [p \in Nodes |-> <<>>] \in [Nodes -> Seq(Packets)]
    OBVIOUS
  <2> QED BY <1>0, <2>1, <2>2
<1>10. cache' \in [Nodes -> SUBSET Nodes] /\ running' \subseteq Online
  BY <1>0, TargetFacts DEF NodeTypeOK, Stop
<1>11. cert' \in [Nodes -> [Nodes -> Certs]]
  BY <1>0, OverlayAssumption DEF NodeTypeOK, Stop, Certs
<1>12. /\ issued' \in [Nodes -> Certs] /\ faults' \in 0..MaxFaults
       /\ \A m \in Nodes : issued'[m] <= faults'
  <2>1. /\ faults < MaxFaults /\ faults' = faults + 1 /\ issued' = [issued EXCEPT ![n] = @ + 1]
        /\ faults \in 0..MaxFaults /\ MaxFaults \in Nat /\ issued \in [Nodes -> 0..MaxFaults]
    BY <1>0, OverlayAssumption DEF NodeTypeOK, Stop, Certs
  <2>2. faults' \in 0..MaxFaults
    BY <2>1
  <2>3. ASSUME NEW m \in Nodes PROVE issued'[m] \in 0..MaxFaults /\ issued'[m] <= faults'
    BY <1>0, <2>1
  <2>4. issued' \in [Nodes -> 0..MaxFaults]
    BY <2>1, <2>3
  <2> QED BY <2>2, <2>3, <2>4 DEF Certs
<1>13. said' \in [Nodes -> 0..MaxData]
  BY <1>0, OverlayAssumption DEF NodeTypeOK, Stop
<1>14. heard' \in [Nodes -> [Nodes -> 0..MaxData]]
  BY <1>0, OverlayAssumption DEF NodeTypeOK, Stop
<1>15. /\ network' \in Networks /\ ends' \in Seq(Nodes \X Nodes) /\ Len(ends') <= MaxConns
       /\ expired' \subseteq Nodes \X Certs /\ gossiped' \in 0..MaxGossip
  BY <1>0 DEF NodeTypeOK, Stop
<1>16. NodeTypeOK'
  <2>1. \A c \in Conns, m \in Nodes : wire'[c][m] \in Seq(Packets)
    BY <1>9
  <2> QED BY <1>2, <1>3, <1>4, <1>5, <1>6, <1>7, <1>8, <1>10, <1>11, <1>12, <1>13, <1>14, <1>15, <2>1 DEF NodeTypeOK
<1> QED BY <1>9, <1>12, <1>16 DEF NodeTypes

LEMMA StopKeeps ==
    ASSUME NodeInv, NEW n \in Nodes, Stop(n)
    PROVE  NodeInv'
<1> DEFINE mine == {c \in Used : n \in {ends[c][1], ends[c][2]}}
<1>1. /\ UNCHANGED <<network, ends>> /\ running' = running \ {n} /\ Used' = Used
      /\ \A m, p \in Nodes : \A c : Between(m, p, c)' <=> Between(m, p, c)
  BY DEF Stop, Used, Between
<1>2. /\ \A m \in Nodes : Target(m)' = Target(m) /\ \A k : NameOf(m, k)' = NameOf(m, k)
      /\ \A m, c : Other(m, c)' = Other(m, c)
  BY <1>1 DEF Target, NameOf, Other
<1>3. /\ entry'[n] = NoEntry /\ verified'[n] = {} /\ advertised'[n] = {} /\ closed'[n] = mine
      /\ \A c \in Conns : handler'[n][c] = "none"
      /\ \A k \in RouteKeys : route'[n][k] = 0
      /\ \A p \in Nodes : table'[n][p] # "connected"
  BY NodeFacts DEF Stop, SeedTable
<1>4. \A m \in Nodes : m # n =>
         /\ entry'[m] = entry[m] /\ verified'[m] = verified[m] /\ advertised'[m] = advertised[m]
         /\ closed'[m] = closed[m] /\ handler'[m] = handler[m] /\ route'[m] = route[m] /\ table'[m] = table[m]
  BY NodeFacts DEF Stop
<1>5. \A c \in Conns : IF c \in mine THEN link'[c] = "down" /\ \A p \in Nodes : wire'[c][p] = <<>>
                       ELSE link'[c] = link[c] /\ wire'[c] = wire[c]
  BY DEF Stop
<1>6. mine \subseteq Used /\ Used \subseteq Conns
  BY UsedFacts
<1>7. NodeTypes'
  BY StopTypes
<1>8. ConnsPlaced'
  <2>1. \A c \in Used : ends[c][1] # ends[c][2] /\ link'[c] # "none"
    BY <1>5, <1>6 DEF NodeInv, ConnsPlaced
  <2>2. \A c \in Conns \ Used : \A m \in Nodes :
           link'[c] = "none" /\ wire'[c][m] = <<>> /\ handler'[m][c] = "none" /\ c \notin closed'[m]
    BY <1>3, <1>4, <1>5, <1>6 DEF NodeInv, ConnsPlaced
  <2> QED BY <1>1, <2>1, <2>2 DEF ConnsPlaced
<1>9. PacketsFromPeer'
  <2> SUFFICES ASSUME NEW c \in Used, NEW m \in Nodes, NEW i \in 1..Len(wire'[c][m])
               PROVE  Between(m, wire'[c][m][i].from, c)
    BY <1>1 DEF PacketsFromPeer, Between
  <2>1. wire'[c][m] = wire[c][m]
    BY <1>5, <1>6
  <2> QED BY <2>1 DEF NodeInv, PacketsFromPeer
<1>10. HandlersPlaced'
  <2>1. \A m \in Nodes : entry'[m].timer => Target(m) # None
    BY <1>3, <1>4 DEF NodeInv, HandlersPlaced, NoEntry
  <2>2. ASSUME NEW m \in Nodes, NEW c \in Used
        PROVE  /\ handler'[m][c] = "retry" =>
                     ends[c] = <<m, Target(m)>> /\ (c \notin closed'[m] => entry'[m].conn = c /\ ~entry'[m].timer)
               /\ handler'[m][c] = "accept" => ends[c][2] = m /\ c \notin verified'[m]
               /\ handler'[m][c] = "promote" => ends[c][1] = m \/ ends[c][2] = m
    BY <1>3, <1>4, <1>6 DEF NodeInv, HandlersPlaced
  <2> QED BY <1>1, <1>2, <2>1, <2>2 DEF HandlersPlaced
<1>11. RoutesPlaced'
  <2>1. ASSUME NEW m \in Nodes, NEW k \in RouteKeys, route'[m][k] # 0
        PROVE  /\ Between(m, NameOf(m, k), route'[m][k])
               /\ route'[m][k] \in verified'[m] \/ handler'[m][route'[m][k]] = "retry"
    <3>1. m # n
      BY <1>3, <2>1
    <3> QED BY <1>4, <2>1, <3>1 DEF NodeInv, RoutesPlaced
  <2> QED BY <1>1, <2>1, RoutesStand
<1>12. VerifiedUp'
  BY <1>1, <1>3, <1>4, <1>5, <1>6 DEF NodeInv, VerifiedUp
<1>13. ClosedSilent'
  <2> SUFFICES ASSUME NEW m \in Nodes, NEW c \in closed'[m]
               PROVE  /\ m = ends[c][1] \/ m = ends[c][2]
                      /\ c \in verified'[m] \/ link'[c] = "down" \/ (c \in closed'[Other(m, c)] /\ wire'[c][m] = <<>>)
    BY <1>1, <1>2 DEF ClosedSilent
  <2>1. CASE c \in mine
    <3>1. link'[c] = "down"
      BY <1>5, <1>6, <2>1
    <3>2. m = n \/ c \in closed[m]
      BY <1>4
    <3> QED BY <2>1, <3>1, <3>2 DEF NodeInv, ClosedSilent
  <2>2. CASE c \notin mine
    <3>1. m # n /\ c \in closed[m]
      BY <1>3, <1>4, <2>2
    <3>2. c \in Used /\ Other(m, c) \in Nodes /\ Other(m, c) # n
      BY <2>2, <3>1, UsedFacts DEF Other
    <3>3. link'[c] = link[c] /\ wire'[c] = wire[c]
      BY <1>5, <1>6, <2>2, <3>2
    <3> QED BY <1>4, <3>1, <3>2, <3>3 DEF NodeInv, ClosedSilent
  <2> QED BY <2>1, <2>2
<1>14. Resting'
  BY <1>1, <1>3, <1>4 DEF NodeInv, Resting
<1>15. \A m \in running' : m \in running /\ m \in Nodes /\ m # n
  BY <1>1, NodeFacts
<1>16. RouteLive'
  BY <1>4, <1>15, <1>1 DEF NodeInv, RouteLive, FingerprintLost, Target
<1>17. DialerWatches'
  BY <1>4, <1>15, <1>1 DEF NodeInv, DialerWatches, Target
<1>18. Believed'
  BY <1>3, <1>4 DEF NodeInv, Believed
<1> QED BY <1>7, <1>8, <1>9, <1>10, <1>11, <1>12, <1>13, <1>14, <1>16, <1>17, <1>18 DEF NodeInv

LEMMA OpensKeeps ==
    ASSUME NodeInv, NEW c \in Used, Opens(c)
    PROVE  NodeInv'
<1> DEFINE q == ends[c][2]
<1>1. /\ link[c] = "dialing" /\ q \in running /\ q \in Nodes /\ c \in Conns
      /\ UNCHANGED <<network, running, table, cache, cert, route, verified, advertised, certSent, entry, closed,
                     ends, wire, time, chat, gossiped, faults>>
      /\ link' = [link EXCEPT ![c] = "up"] /\ handler' = [handler EXCEPT ![q][c] = "accept"]
  BY UsedFacts DEF Opens
<1>2. /\ Used' = Used /\ Used \subseteq Conns
      /\ \A m, p \in Nodes : \A d : Between(m, p, d)' <=> Between(m, p, d)
      /\ \A m \in Nodes : Target(m)' = Target(m) /\ \A k : NameOf(m, k)' = NameOf(m, k)
      /\ \A m, d : Other(m, d)' = Other(m, d)
  BY <1>1, UsedFacts DEF Used, Between, Target, NameOf, Other
<1>3. /\ handler'[q][c] = "accept"
      /\ \A m \in Nodes, d \in Conns : m # q \/ d # c => handler'[m][d] = handler[m][d]
      /\ link'[c] = "up" /\ \A d \in Conns : d # c => link'[d] = link[d]
  BY <1>1, NodeFacts
<1>4. c \notin verified[q] /\ \A m \in Nodes : c \notin verified[m]
  BY <1>1 DEF NodeInv, VerifiedUp
<1>5. handler[q][c] # "retry"
  BY <1>1 DEF NodeInv, HandlersPlaced, ConnsPlaced
<1>6. NodeTypes'
  <2>1. handler' \in [Nodes -> [Conns -> Handlers]]
    BY <1>1, NodeFacts DEF Handlers
  <2>2. link' \in [Conns -> {"none", "dialing", "up", "down"}]
    BY <1>1, NodeFacts
  <2> QED BY <1>1, <2>1, <2>2 DEF NodeInv, NodeTypes, NodeTypeOK, time, chat
<1> HIDE DEF q
<1>7. ConnsPlaced'
  BY <1>1, <1>2, <1>3 DEF NodeInv, ConnsPlaced
<1>8. PacketsFromPeer'
  BY <1>1, <1>2 DEF NodeInv, PacketsFromPeer, Between
<1>9. HandlersPlaced'
  <2>1. ASSUME NEW m \in Nodes, NEW d \in Used
        PROVE  /\ handler'[m][d] = "retry" =>
                     ends[d] = <<m, Target(m)>> /\ (d \notin closed[m] => entry[m].conn = d /\ ~entry[m].timer)
               /\ handler'[m][d] = "accept" => ends[d][2] = m /\ d \notin verified[m]
               /\ handler'[m][d] = "promote" => ends[d][1] = m \/ ends[d][2] = m
    BY <1>2, <1>3, <1>4 DEF NodeInv, HandlersPlaced, q
  <2> QED BY <1>1, <1>2, <2>1 DEF NodeInv, HandlersPlaced
<1>10. RoutesPlaced'
  <2>0. route' = route /\ verified' = verified /\ network' = network /\ ends' = ends
    BY <1>1
  <2>1. ASSUME NEW m \in Nodes, NEW k \in RouteKeys, route[m][k] # 0
        PROVE  /\ Between(m, NameOf(m, k), route[m][k])
               /\ route[m][k] \in verified[m] \/ handler'[m][route[m][k]] = "retry"
    <3>1. /\ Between(m, NameOf(m, k), route[m][k])
          /\ route[m][k] \in verified[m] \/ handler[m][route[m][k]] = "retry"
      BY <2>1 DEF NodeInv, RoutesPlaced
    <3> QED BY <1>2, <1>3, <1>5, <3>1 DEF Between
  <2> QED BY <2>0, <2>1, RoutesStand
<1>11. VerifiedUp'
  BY <1>1, <1>2, <1>3 DEF NodeInv, VerifiedUp
<1>12. ClosedSilent'
  <2> SUFFICES ASSUME NEW m \in Nodes, NEW d \in closed[m]
               PROVE  /\ m = ends[d][1] \/ m = ends[d][2]
                      /\ d \in verified[m] \/ link'[d] = "down" \/ (d \in closed[Other(m, d)] /\ wire[d][m] = <<>>)
    BY <1>1, <1>2 DEF ClosedSilent
  <2>1. d \in Conns
    BY UsedFacts
  <2> QED BY <1>1, <1>3, <2>1 DEF NodeInv, ClosedSilent
<1>13. Resting'
  BY <1>1, <1>3 DEF NodeInv, Resting
<1>14. RouteLive'
  BY <1>1 DEF NodeInv, RouteLive, FingerprintLost, Target
<1>15. DialerWatches'
  <2> SUFFICES ASSUME NEW m \in running, Target(m) # None
               PROVE  \/ entry[m].timer
                      \/ /\ entry[m].conn # 0
                         /\ handler'[m][entry[m].conn] = "retry" => entry[m].conn \notin closed[m]
    BY <1>1 DEF DialerWatches, Target
  <2>1. m \in Nodes /\ (entry[m].conn # 0 => entry[m].conn \in Conns)
    BY NodeFacts DEF Conns
  <2> QED BY <1>3, <2>1 DEF NodeInv, DialerWatches
<1>16. Believed'
  BY <1>1 DEF NodeInv, Believed
<1> QED BY <1>6, <1>7, <1>8, <1>9, <1>10, <1>11, <1>12, <1>13, <1>14, <1>15, <1>16 DEF NodeInv

LEMMA BreaksKeeps ==
    ASSUME NodeInv, NEW c \in Used, Breaks(c)
    PROVE  NodeInv'
<1>1. /\ faults < MaxFaults /\ faults' = faults + 1 /\ c \in Conns
      /\ link' = [link EXCEPT ![c] = "down"] /\ wire' = [wire EXCEPT ![c] = [p \in Nodes |-> <<>>]]
      /\ UNCHANGED <<network, running, table, cache, cert, route, verified, advertised, certSent, entry, handler,
                     closed, ends, expired, issued, said, heard, gossiped>>
  BY UsedFacts DEF Breaks, node, time, chat
<1>2. /\ Used' = Used /\ Used \subseteq Conns
      /\ \A m, p \in Nodes : \A d : Between(m, p, d)' <=> Between(m, p, d)
      /\ \A m \in Nodes : Target(m)' = Target(m) /\ \A k : NameOf(m, k)' = NameOf(m, k)
      /\ \A m, d : Other(m, d)' = Other(m, d)
  BY <1>1, UsedFacts DEF Used, Between, Target, NameOf, Other
<1>3. /\ link'[c] = "down" /\ \A d \in Conns : d # c => link'[d] = link[d]
      /\ \A p \in Nodes : wire'[c][p] = <<>>
      /\ \A d \in Conns : d # c => wire'[d] = wire[d]
  BY <1>1, NodeFacts
<1>4. NodeTypes'
  <2>1. link' \in [Conns -> {"none", "dialing", "up", "down"}]
    BY <1>1, NodeFacts
  <2>2. wire' \in [Conns -> [Nodes -> Seq(Packets)]]
    <3>1. [p \in Nodes |-> <<>>] \in [Nodes -> Seq(Packets)]
      OBVIOUS
    <3> QED BY <1>1, <3>1, NodeFacts
  <2>3. faults' \in 0..MaxFaults /\ \A m \in Nodes : issued'[m] <= faults'
    BY <1>1, OverlayAssumption DEF NodeInv, NodeTypes, NodeTypeOK, Certs
  <2> QED BY <1>1, <2>1, <2>2, <2>3 DEF NodeInv, NodeTypes, NodeTypeOK
<1>5. ConnsPlaced'
  BY <1>1, <1>2, <1>3 DEF NodeInv, ConnsPlaced
<1>6. PacketsFromPeer'
  <2> SUFFICES ASSUME NEW d \in Used, NEW m \in Nodes, NEW i \in 1..Len(wire'[d][m])
               PROVE  Between(m, wire'[d][m][i].from, d)
    BY <1>1, <1>2 DEF PacketsFromPeer, Between
  <2>1. wire'[d][m] = wire[d][m]
    BY <1>2, <1>3
  <2> QED BY <2>1 DEF NodeInv, PacketsFromPeer
<1>7. HandlersPlaced'
  BY <1>1, <1>2 DEF NodeInv, HandlersPlaced
<1>8. RoutesPlaced'
  <2>1. route' = route /\ verified' = verified /\ handler' = handler /\ network' = network /\ ends' = ends
    BY <1>1
  <2>2. \A m \in Nodes, k \in RouteKeys : route[m][k] # 0 =>
           /\ Between(m, NameOf(m, k), route[m][k])
           /\ route[m][k] \in verified[m] \/ handler[m][route[m][k]] = "retry"
    BY DEF NodeInv, RoutesPlaced
  <2> QED BY <2>1, <2>2, RoutesStand
<1>9. VerifiedUp'
  BY <1>1, <1>2, <1>3 DEF NodeInv, VerifiedUp
<1>10. ClosedSilent'
  <2> SUFFICES ASSUME NEW m \in Nodes, NEW d \in closed[m]
               PROVE  /\ m = ends[d][1] \/ m = ends[d][2]
                      /\ d \in verified[m] \/ link'[d] = "down" \/ (d \in closed[Other(m, d)] /\ wire'[d][m] = <<>>)
    BY <1>1, <1>2 DEF ClosedSilent
  <2>1. d \in Conns
    BY UsedFacts
  <2> QED BY <1>3, <2>1 DEF NodeInv, ClosedSilent
<1>11. Resting' /\ Believed'
  BY <1>1 DEF NodeInv, Resting, Believed
<1>12. RouteLive'
  BY <1>1 DEF NodeInv, RouteLive, FingerprintLost, Target
<1>13. DialerWatches'
  BY <1>1 DEF NodeInv, DialerWatches, Target
<1> QED BY <1>4, <1>5, <1>6, <1>7, <1>8, <1>9, <1>10, <1>11, <1>12, <1>13 DEF NodeInv

-----------------------------------------------------------------------------
(* A transport closes                                                      *)

\* What no step of this kind changes.
LEMMA CloseFrame ==
    ASSUME NodeInv, UNCHANGED <<network, running, cache, cert, verified, certSent, handler, net, time, chat,
                                gossiped, faults>>
    PROVE  /\ Used' = Used /\ Used \subseteq Conns
           /\ \A m, p \in Nodes : \A d : Between(m, p, d)' <=> Between(m, p, d)
           /\ \A m \in Nodes : Target(m)' = Target(m) /\ \A k : NameOf(m, k)' = NameOf(m, k)
           /\ \A m, d : Other(m, d)' = Other(m, d)
           /\ PacketsFromPeer' /\ VerifiedUp'
<1>1. UNCHANGED <<network, ends, link, wire, verified, handler, running>>
  BY DEF net
<1>2. /\ Used' = Used /\ Used \subseteq Conns
      /\ \A m, p \in Nodes : \A d : Between(m, p, d)' <=> Between(m, p, d)
      /\ \A m \in Nodes : Target(m)' = Target(m) /\ \A k : NameOf(m, k)' = NameOf(m, k)
      /\ \A m, d : Other(m, d)' = Other(m, d)
  BY <1>1, UsedFacts DEF Used, Between, Target, NameOf, Other
<1>3. PacketsFromPeer'
  BY <1>1, <1>2 DEF NodeInv, PacketsFromPeer, Between
<1>4. VerifiedUp'
  BY <1>1, <1>2 DEF NodeInv, VerifiedUp
<1> QED BY <1>2, <1>3, <1>4

\* More transports are closed at n: those it has verified, or whose other end
\* sends nothing more.
LEMMA ClosedMore ==
    ASSUME NodeInv, NEW n \in Nodes, NEW more \in SUBSET Used,
           \A d \in more : /\ ends[d][1] = n \/ ends[d][2] = n
                           /\ d \in verified[n] \/ link[d] = "down" \/ (d \in closed[Other(n, d)] /\ wire[d][n] = <<>>),
           closed' \in [Nodes -> SUBSET Conns], closed'[n] = closed[n] \cup more,
           \A m \in Nodes : m # n => closed'[m] = closed[m],
           UNCHANGED <<network, running, cache, cert, verified, certSent, handler, net, time, chat, gossiped, faults>>
    PROVE  ConnsPlaced' /\ ClosedSilent'
<1>0. UNCHANGED <<ends, link, wire, verified, handler>>
  BY DEF net
<1>3. ConnsPlaced'
  BY <1>0, CloseFrame DEF NodeInv, ConnsPlaced
<1>4. ClosedSilent'
  <2> SUFFICES ASSUME NEW m \in Nodes, NEW d \in closed'[m]
               PROVE  /\ m = ends[d][1] \/ m = ends[d][2]
                      /\ d \in verified[m] \/ link[d] = "down" \/ (d \in closed'[Other(m, d)] /\ wire[d][m] = <<>>)
    BY <1>0, CloseFrame DEF ClosedSilent
  <2>1. d \in Used /\ Other(m, d) \in Nodes
    BY UsedFacts
  <2>2. d \in closed[Other(m, d)] => d \in closed'[Other(m, d)]
    BY <2>1
  <2>3. CASE d \in closed[m]
    BY <2>2, <2>3 DEF NodeInv, ClosedSilent
  <2>4. CASE m = n /\ d \in more
    BY <2>2, <2>4
  <2> QED BY <2>3, <2>4
<1> QED BY <1>3, <1>4

LEMMA MarkedTypes ==
    ASSUME NodeInv, NEW n \in Nodes, NEW key, NEW state \in {"known", "connected"}
    PROVE  /\ Marked(n, key, state) \in [Nodes -> [Nodes -> {"absent", "known", "connected"}]]
           /\ \A m, q \in Nodes : Marked(n, key, state)[m][q] = table[m][q]
                               \/ (m = n /\ q = key /\ Marked(n, key, state)[m][q] = state)
           /\ state = "known" => \A q \in Nodes : q = key => Marked(n, key, state)[n][q] # "connected"
BY NodeFacts DEF Marked

\* The dialer's onClose.
LEMMA DialerClosesKeeps ==
    ASSUME NodeInv, NEW n \in running, NEW c \in Used, handler[n][c] = "retry", c \notin closed[n],
           link[c] = "down" \/ (c \in closed[Other(n, c)] /\ wire[c][n] = <<>>),
           dialerOnClose(n, c),
           UNCHANGED <<network, running, cache, cert, verified, certSent, handler, net, time, chat, gossiped, faults>>
    PROVE  NodeInv'
<1> DEFINE key == IF entry[n].wiped THEN Wiped ELSE Target(n)
           t == route[n][key]
           more == {c} \cup ({t} \ {0})
<1>1. /\ closed' = [closed EXCEPT ![n] = @ \cup {c} \cup ({t} \ {0})] /\ route' = [route EXCEPT ![n][key] = 0]
      /\ table' = Marked(n, key, "known") /\ advertised' = [advertised EXCEPT ![n] = @ \ {key}]
      /\ entry' = [entry EXCEPT ![n].conn = 0, ![n].timer = TRUE]
      /\ UNCHANGED <<network, running, verified, handler, ends, link, wire>>
  BY DEF dialerOnClose, detach, net
<1>0. network' = network /\ running' = running /\ verified' = verified /\ handler' = handler /\ ends' = ends
  BY <1>1
<1>2. /\ n \in Nodes /\ ends[c] = <<n, Target(n)>> /\ entry[n].conn = c
      /\ Target(n) \in Nodes /\ Target(n) # n /\ Target(n) # None
  <2>1. n \in Nodes
    BY NodeFacts
  <2>2. ends[c] = <<n, Target(n)>> /\ entry[n].conn = c
    BY <2>1 DEF NodeInv, HandlersPlaced
  <2> QED BY <2>1, <2>2, UsedFacts, TargetFacts, OverlayAssumption
<1>3. key \in RouteKeys /\ NameOf(n, key) = Target(n) /\ (key = Target(n) \/ key = Wiped)
  BY <1>2, OverlayAssumption DEF RouteKeys, NameOf
<1>4. t # 0 => Between(n, Target(n), t) /\ (t \in verified[n] \/ handler[n][t] = "retry")
  BY <1>2, <1>3 DEF NodeInv, RoutesPlaced
<1>5. t # 0 => t \in Used /\ (t \in verified[n] \/ t = c \/ t \in closed[n])
  BY <1>2, <1>4 DEF NodeInv, HandlersPlaced, Between
<1>6. more \in SUBSET Used
  BY <1>5
<1>7. \A d \in more : /\ ends[d][1] = n \/ ends[d][2] = n
                      /\ d \in verified[n] \/ link[d] = "down" \/ (d \in closed[Other(n, d)] /\ wire[d][n] = <<>>)
  BY <1>2, <1>4, <1>5 DEF NodeInv, ClosedSilent, Between
<1> HIDE DEF key, t
<1>8. /\ closed' = [closed EXCEPT ![n] = @ \cup more]
      /\ closed'[n] = closed[n] \cup more
      /\ \A m \in Nodes : m # n => closed'[m] = closed[m]
  BY <1>1, <1>2, NodeFacts
<1> HIDE DEF more
<1>9. closed' \in [Nodes -> SUBSET Conns] /\ ConnsPlaced' /\ ClosedSilent'
  <2>1. closed' \in [Nodes -> SUBSET Conns]
    BY <1>2, <1>6, <1>8, NodeFacts, UsedFacts
  <2>2. ConnsPlaced' /\ ClosedSilent'
    BY <1>2, <1>6, <1>7, <1>8, <2>1, ClosedMore
  <2> QED BY <2>1, <2>2
<1>10. /\ route'[n][key] = 0
       /\ \A m \in Nodes, k \in RouteKeys : m # n \/ k # key => route'[m][k] = route[m][k]
       /\ route' \in [Nodes -> [RouteKeys -> 0..MaxConns]]
  <2>1. route \in [Nodes -> [RouteKeys -> 0..MaxConns]] /\ 0 \in 0..MaxConns
    BY NodeFacts
  <2> QED BY <1>1, <1>2, <1>3, <2>1
<1>11. /\ entry'[n].conn = 0 /\ entry'[n].timer = TRUE /\ entry'[n].wiped = entry[n].wiped
       /\ \A m \in Nodes : m # n => entry'[m] = entry[m]
  BY <1>1, <1>2, NodeFacts
<1>12. entry' \in [Nodes -> [conn : 0..MaxConns, timer : BOOLEAN, wiped : BOOLEAN]]
  <2>1. [entry[n] EXCEPT !.conn = 0, !.timer = TRUE] \in [conn : 0..MaxConns, timer : BOOLEAN, wiped : BOOLEAN]
    <3>1. entry[n] \in [conn : 0..MaxConns, timer : BOOLEAN, wiped : BOOLEAN] /\ 0 \in 0..MaxConns
      BY <1>2, NodeFacts
    <3> QED BY <3>1, EntryUpdated
  <2>2. entry' = [entry EXCEPT ![n] = [entry[n] EXCEPT !.conn = 0, !.timer = TRUE]]
    BY <1>1, <1>2, NodeFacts
  <2> QED BY <2>1, <2>2, NodeFacts
<1>13. NodeTypes'
  <2>1. table' \in [Nodes -> [Nodes -> {"absent", "known", "connected"}]]
    BY <1>1, <1>2, MarkedTypes
  <2>2. advertised' \in [Nodes -> SUBSET Nodes]
    BY <1>1, <1>2, NodeFacts
  <2> QED BY <1>1, <1>9, <1>10, <1>12, <2>1, <2>2 DEF NodeInv, NodeTypes, NodeTypeOK, net, time, chat
<1>14. HandlersPlaced'
  <2>1. \A m \in Nodes : entry'[m].timer => Target(m) # None
    BY <1>2, <1>11 DEF NodeInv, HandlersPlaced
  <2>2. ASSUME NEW m \in Nodes, NEW d \in Used, handler[m][d] = "retry"
        PROVE  ends[d] = <<m, Target(m)>> /\ (d \notin closed'[m] => entry'[m].conn = d /\ ~entry'[m].timer)
    <3>1. ends[d] = <<m, Target(m)>> /\ (d \notin closed[m] => entry[m].conn = d /\ ~entry[m].timer)
      BY <2>2 DEF NodeInv, HandlersPlaced
    <3>2. m = n => d \in closed'[m]
      BY <1>2, <1>8, <3>1 DEF more
    <3> QED BY <1>8, <1>11, <3>1, <3>2
  <2>3. ASSUME NEW m \in Nodes, NEW d \in Used
        PROVE  /\ handler[m][d] = "accept" => ends[d][2] = m /\ d \notin verified[m]
               /\ handler[m][d] = "promote" => ends[d][1] = m \/ ends[d][2] = m
    BY DEF NodeInv, HandlersPlaced
  <2>4. Used' = Used /\ \A m \in Nodes : Target(m)' = Target(m)
    BY CloseFrame
  <2> QED BY <1>0, <2>1, <2>2, <2>3, <2>4 DEF HandlersPlaced
<1>15. RoutesPlaced'
  <2>1. ASSUME NEW m \in Nodes, NEW k \in RouteKeys, route'[m][k] # 0
        PROVE  /\ Between(m, NameOf(m, k), route'[m][k])
               /\ route'[m][k] \in verified[m] \/ handler[m][route'[m][k]] = "retry"
    BY <1>10, <2>1 DEF NodeInv, RoutesPlaced
  <2> QED BY <1>0, <2>1, RoutesStand
<1>16. Resting'
  <2> SUFFICES ASSUME NEW m \in Nodes, m \notin running
               PROVE  /\ entry'[m] = NoEntry /\ verified[m] = {}
                      /\ \A d \in Conns : handler[m][d] = "none"
                      /\ \A k \in RouteKeys : route'[m][k] = 0
    BY <1>0 DEF Resting
  <2> QED BY <1>10, <1>11 DEF NodeInv, Resting
<1>17. RouteLive'
  <2> SUFFICES ASSUME NEW m \in running, NEW q \in Nodes, ~FingerprintLost(m, q)'
               PROVE  route'[m][q] \notin closed'[m]
    BY <1>1 DEF RouteLive
  <2>0. m \in Nodes /\ q \in RouteKeys
    BY NodeFacts DEF RouteKeys
  <2>1. ~FingerprintLost(m, q)
    BY <1>11, <2>0, CloseFrame DEF FingerprintLost
  <2>2. route[m][q] \notin closed[m]
    BY <2>1 DEF NodeInv, RouteLive
  <2>3. CASE m # n
    BY <1>8, <1>10, <2>0, <2>2, <2>3
  <2>4. CASE m = n /\ q = Target(n)
    <3>1. ~entry[n].wiped /\ q = key
      BY <2>1, <2>4 DEF FingerprintLost, key
    <3>2. route'[n][q] = 0 /\ 0 \notin Conns
      BY <1>10, <3>1 DEF Conns
    <3> QED BY <1>2, <1>9, <2>4, <3>2
  <2>5. CASE m = n /\ q # Target(n)
    <3>1. q # key
      BY <1>3, <2>5, OverlayAssumption
    <3>2. route[n][q] # 0 => Between(n, q, route[n][q])
      <4>1. NameOf(n, q) = q
        BY OverlayAssumption DEF NameOf
      <4> QED BY <1>2, <2>0, <4>1 DEF NodeInv, RoutesPlaced
    <3>3. route[n][q] # c
      <4>1. Between(n, Target(n), c)
        BY <1>2 DEF Between
      <4>2. c # 0
        BY UsedFacts DEF Conns
      <4> QED BY <1>2, <2>5, <3>2, <4>1, <4>2, BetweenOnce
    <3>4. route[n][q] # t \/ t = 0
      BY <1>2, <1>4, <2>5, <3>2, BetweenOnce
    <3> QED BY <1>2, <1>8, <1>10, <2>0, <2>2, <2>5, <3>1, <3>3, <3>4 DEF more
  <2> QED BY <2>3, <2>4, <2>5
<1>18. DialerWatches'
  <2> SUFFICES ASSUME NEW m \in running, Target(m) # None
               PROVE  \/ entry'[m].timer
                      \/ /\ entry'[m].conn # 0
                         /\ handler[m][entry'[m].conn] = "retry" => entry'[m].conn \notin closed'[m]
    BY <1>1, CloseFrame, NodeFacts DEF DialerWatches
  <2> QED BY <1>8, <1>11, NodeFacts, ZenonT(40) DEF NodeInv, DialerWatches
<1>19. Believed'
  <2> SUFFICES ASSUME NEW m \in Nodes, NEW q \in Nodes, q \in advertised'[m] \/ table'[m][q] = "connected"
               PROVE  route'[m][q] # 0
    BY DEF Believed
  <2>1. q \in RouteKeys
    BY DEF RouteKeys
  <2>2. ~(m = n /\ q = key)
    BY <1>1, <1>2, NodeFacts, MarkedTypes
  <2>3. q \in advertised[m] \/ table[m][q] = "connected"
    <3>1. table'[m][q] = "connected" => table[m][q] = "connected"
      BY <1>1, <1>2, <2>2, MarkedTypes
    <3>2. q \in advertised'[m] => q \in advertised[m]
      BY <1>1, <1>2, NodeFacts
    <3> QED BY <3>1, <3>2
  <2> QED BY <1>10, <2>1, <2>2, <2>3 DEF NodeInv, Believed
<1> QED BY <1>9, <1>13, <1>14, <1>15, <1>16, <1>17, <1>18, <1>19, CloseFrame DEF NodeInv

\* The handlers of acceptInbound and promotePending.
LEMMA OtherClosesKeeps ==
    ASSUME NodeInv, NEW n \in running, NEW c \in Used, handler[n][c] \in {"accept", "promote"}, c \notin closed[n],
           link[c] = "down" \/ (c \in closed[Other(n, c)] /\ wire[c][n] = <<>>),
           closed' = [closed EXCEPT ![n] = @ \cup {c}], entry' = entry,
           \/ /\ route[n][Other(n, c)] = c /\ route' = [route EXCEPT ![n][Other(n, c)] = 0]
              /\ table' = Marked(n, Other(n, c), "known")
              /\ advertised' = [advertised EXCEPT ![n] = @ \ {Other(n, c)}]
           \/ /\ handler[n][c] = "accept" \/ route[n][Other(n, c)] # c
              /\ route' = route /\ table' = table /\ advertised' = advertised,
           UNCHANGED <<network, running, cache, cert, verified, certSent, handler, net, time, chat, gossiped, faults>>
    PROVE  NodeInv'
<1> DEFINE p == Other(n, c)
<1>0. /\ network' = network /\ running' = running /\ verified' = verified /\ handler' = handler /\ ends' = ends
      /\ link' = link /\ wire' = wire
  BY DEF net
<1>1. n \in Nodes /\ p \in Nodes /\ p \in RouteKeys /\ c # 0
  BY UsedFacts, NodeFacts DEF Conns, RouteKeys
<1>2. \/ /\ route[n][p] = c /\ route' = [route EXCEPT ![n][p] = 0]
         /\ table' = Marked(n, p, "known") /\ advertised' = [advertised EXCEPT ![n] = @ \ {p}]
      \/ /\ handler[n][c] = "accept" \/ route[n][p] # c
         /\ route' = route /\ table' = table /\ advertised' = advertised
  OBVIOUS
<1>3. \A q \in Nodes : Between(n, q, c) => q = p
  BY <1>1 DEF Between, Other, NodeInv, ConnsPlaced
<1> HIDE DEF p
<1>4. /\ closed' \in [Nodes -> SUBSET Conns] /\ closed'[n] = closed[n] \cup {c}
      /\ \A m \in Nodes : m # n => closed'[m] = closed[m]
  BY <1>1, NodeFacts, UsedFacts
<1>5. ConnsPlaced' /\ ClosedSilent'
  <2>1. {c} \in SUBSET Used
    OBVIOUS
  <2>2. \A d \in {c} : /\ ends[d][1] = n \/ ends[d][2] = n
                       /\ d \in verified[n] \/ link[d] = "down" \/ (d \in closed[Other(n, d)] /\ wire[d][n] = <<>>)
    BY <1>1 DEF NodeInv, HandlersPlaced
  <2> QED BY <1>1, <1>4, <2>1, <2>2, ClosedMore
<1>6. /\ route' \in [Nodes -> [RouteKeys -> 0..MaxConns]]
      /\ \A m \in Nodes, k \in RouteKeys :
            route'[m][k] = route[m][k] \/ (m = n /\ k = p /\ route[n][p] = c /\ route'[m][k] = 0)
  <2>1. CASE route' = route
    BY <2>1, NodeFacts
  <2>2. CASE route[n][p] = c /\ route' = [route EXCEPT ![n][p] = 0]
    <3>1. route \in [Nodes -> [RouteKeys -> 0..MaxConns]] /\ 0 \in 0..MaxConns
      BY NodeFacts
    <3> QED BY <1>1, <2>2, <3>1
  <2> QED BY <1>2, <2>1, <2>2
<1>7. /\ table' \in [Nodes -> [Nodes -> {"absent", "known", "connected"}]]
      /\ advertised' \in [Nodes -> SUBSET Nodes]
  <2>1. table' \in [Nodes -> [Nodes -> {"absent", "known", "connected"}]]
    <3>1. Marked(n, p, "known") \in [Nodes -> [Nodes -> {"absent", "known", "connected"}]]
      BY <1>1, MarkedTypes
    <3> QED BY <1>2, <3>1, NodeFacts
  <2>2. advertised' \in [Nodes -> SUBSET Nodes]
    <3>1. advertised \in [Nodes -> SUBSET Nodes]
      BY NodeFacts
    <3> QED BY <1>1, <1>2, <3>1
  <2> QED BY <2>1, <2>2
<1>8. NodeTypes'
  BY <1>0, <1>4, <1>6, <1>7, ZenonT(40) DEF NodeInv, NodeTypes, NodeTypeOK, net, time, chat
<1>9. HandlersPlaced'
  <2>1. ASSUME NEW m \in Nodes, NEW d \in Used
        PROVE  /\ handler[m][d] = "retry" =>
                     ends[d] = <<m, Target(m)>> /\ (d \notin closed'[m] => entry[m].conn = d /\ ~entry[m].timer)
               /\ handler[m][d] = "accept" => ends[d][2] = m /\ d \notin verified[m]
               /\ handler[m][d] = "promote" => ends[d][1] = m \/ ends[d][2] = m
    BY <1>4 DEF NodeInv, HandlersPlaced
  <2>2. Used' = Used /\ \A m \in Nodes : Target(m)' = Target(m)
    BY CloseFrame
  <2>3. \A m \in Nodes : entry[m].timer => Target(m) # None
    BY DEF NodeInv, HandlersPlaced
  <2> QED BY <1>0, <2>1, <2>2, <2>3 DEF HandlersPlaced
<1>10. RoutesPlaced'
  <2>1. ASSUME NEW m \in Nodes, NEW k \in RouteKeys, route'[m][k] # 0
        PROVE  /\ Between(m, NameOf(m, k), route'[m][k])
               /\ route'[m][k] \in verified[m] \/ handler[m][route'[m][k]] = "retry"
    BY <1>6, <2>1 DEF NodeInv, RoutesPlaced
  <2> QED BY <1>0, <2>1, RoutesStand
<1>11. Resting'
  <2> SUFFICES ASSUME NEW m \in Nodes, m \notin running
               PROVE  /\ entry[m] = NoEntry /\ verified[m] = {}
                      /\ \A d \in Conns : handler[m][d] = "none"
                      /\ \A k \in RouteKeys : route'[m][k] = 0
    BY <1>0 DEF Resting
  <2> QED BY <1>6 DEF NodeInv, Resting
<1>12. RouteLive'
  <2> SUFFICES ASSUME NEW m \in running, NEW q \in Nodes, ~FingerprintLost(m, q)'
               PROVE  route'[m][q] \notin closed'[m]
    BY <1>0 DEF RouteLive
  <2>0. m \in Nodes /\ q \in RouteKeys
    BY NodeFacts DEF RouteKeys
  <2>1. ~FingerprintLost(m, q)
    BY <2>0, CloseFrame DEF FingerprintLost
  <2>2. route[m][q] \notin closed[m]
    BY <2>1 DEF NodeInv, RouteLive
  <2>3. CASE m # n \/ route'[m][q] # c
    <3>1. 0 \notin closed'[m]
      BY <1>4, <2>0 DEF Conns
    <3> QED BY <1>4, <1>6, <2>0, <2>2, <2>3, <3>1
  <2>4. CASE m = n /\ route'[m][q] = c
    <3>1. route[n][q] = c
      BY <1>1, <1>6, <2>0, <2>4
    <3>2. /\ Between(n, NameOf(n, q), c) /\ NameOf(n, q) = q
          /\ c \in verified[n] \/ handler[n][c] = "retry"
      BY <1>1, <2>0, <3>1, OverlayAssumption DEF NodeInv, RoutesPlaced, NameOf
    <3>3. q = p
      BY <1>3, <3>2
    <3>4. handler[n][c] # "accept"
      BY <1>1, <3>2 DEF NodeInv, HandlersPlaced
    <3>5. route' = [route EXCEPT ![n][p] = 0]
      BY <1>2, <3>1, <3>3, <3>4
    <3>6. route'[n][p] = 0
      BY <1>1, <3>5, NodeFacts
    <3> QED BY <1>1, <2>4, <3>3, <3>6
  <2> QED BY <2>3, <2>4
<1>13. DialerWatches'
  <2> SUFFICES ASSUME NEW m \in running, Target(m) # None
               PROVE  \/ entry[m].timer
                      \/ /\ entry[m].conn # 0
                         /\ handler[m][entry[m].conn] = "retry" => entry[m].conn \notin closed'[m]
    BY <1>0, CloseFrame, NodeFacts DEF DialerWatches
  <2>1. m \in Nodes
    BY NodeFacts
  <2> QED BY <1>4, <2>1 DEF NodeInv, DialerWatches
<1>14. Believed'
  <2> SUFFICES ASSUME NEW m \in Nodes, NEW q \in Nodes, q \in advertised'[m] \/ table'[m][q] = "connected"
               PROVE  route'[m][q] # 0
    BY DEF Believed
  <2>0. q \in RouteKeys
    BY DEF RouteKeys
  <2>1. CASE route' = route /\ table' = table /\ advertised' = advertised
    BY <2>1 DEF NodeInv, Believed
  <2>2. CASE /\ route' = [route EXCEPT ![n][p] = 0]
             /\ table' = Marked(n, p, "known") /\ advertised' = [advertised EXCEPT ![n] = @ \ {p}]
    <3>1. q \in advertised[m] \/ table[m][q] = "connected"
      <4>1. table'[m][q] = "connected" => table[m][q] = "connected"
        <5>1. table'[m][q] = table[m][q] \/ table'[m][q] = "known"
          BY <1>1, <2>2, MarkedTypes
        <5> QED BY <5>1
      <4>2. q \in advertised'[m] => q \in advertised[m]
        BY <1>1, <2>2, NodeFacts
      <4> QED BY <4>1, <4>2
    <3>2. ~(m = n /\ q = p)
      <4>1. p \notin advertised'[n]
        BY <1>1, <2>2, NodeFacts
      <4>2. table'[n][p] # "connected"
        <5>1. "known" = "known" => \A r \in Nodes : r = p => Marked(n, p, "known")[n][r] # "connected"
          BY <1>1, MarkedTypes
        <5> QED BY <1>1, <2>2, <5>1
      <4> QED BY <4>1, <4>2
    <3> QED BY <1>6, <2>0, <3>1, <3>2 DEF NodeInv, Believed
  <2> QED BY <1>2, <2>1, <2>2
<1> QED BY <1>5, <1>8, <1>9, <1>10, <1>11, <1>12, <1>13, <1>14, CloseFrame DEF NodeInv

LEMMA CloseEventKeeps ==
    ASSUME NodeInv, NEW n \in Nodes, NEW c \in Used, CloseEvent(n, c)
    PROVE  NodeInv'
<1>1. /\ n \in running /\ c \notin closed[n]
      /\ link[c] = "down" \/ (c \in closed[Other(n, c)] /\ wire[c][n] = <<>>)
      /\ UNCHANGED <<network, running, cache, cert, verified, certSent, handler, net, time, chat, gossiped, faults>>
  BY DEF CloseEvent
<1>2. CASE handler[n][c] = "retry" /\ dialerOnClose(n, c)
  BY <1>1, <1>2, DialerClosesKeeps
<1>3. CASE /\ handler[n][c] \in {"accept", "promote"}
           /\ closed' = [closed EXCEPT ![n] = @ \cup {c}] /\ entry' = entry
           /\ \/ /\ route[n][Other(n, c)] = c /\ route' = [route EXCEPT ![n][Other(n, c)] = 0]
                 /\ table' = Marked(n, Other(n, c), "known")
                 /\ advertised' = [advertised EXCEPT ![n] = @ \ {Other(n, c)}]
              \/ /\ handler[n][c] = "accept" \/ route[n][Other(n, c)] # c
                 /\ route' = route /\ table' = table /\ advertised' = advertised
  BY <1>1, <1>3, OtherClosesKeeps
<1> QED BY <1>2, <1>3 DEF CloseEvent

-----------------------------------------------------------------------------
(* Packets go out and come in                                              *)

LEMMA CertificatesExpire ==
    ASSUME NodeInv, NEW n \in Nodes, CertificateExpires(n)
    PROVE  NodeInv'
<1>1. /\ UNCHANGED <<network, running, table, cache, cert, route, verified, advertised, certSent, entry, handler,
                     closed, ends, link, wire, issued, said, heard, gossiped, faults>>
      /\ expired' = expired \cup {<<n, k>> : k \in 0..issued[n]}
  BY DEF CertificateExpires, node, net, chat
<1>2. expired' \subseteq Nodes \X Certs
  <2>1. issued[n] \in Certs /\ expired \subseteq Nodes \X Certs /\ MaxFaults \in Nat
    BY OverlayAssumption DEF NodeInv, NodeTypes, NodeTypeOK
  <2>2. \A k \in 0..issued[n] : k \in Certs
    BY <2>1 DEF Certs
  <2> QED BY <1>1, <2>1, <2>2
<1>3. NodeTypes'
  BY <1>1, <1>2 DEF NodeInv, NodeTypes, NodeTypeOK
<1>4. ConnsPlaced' /\ PacketsFromPeer' /\ HandlersPlaced'
  BY <1>1 DEF NodeInv, ConnsPlaced, PacketsFromPeer, HandlersPlaced, Used, Between, Target
<1>5. RoutesPlaced' /\ VerifiedUp' /\ ClosedSilent'
  BY <1>1 DEF NodeInv, RoutesPlaced, VerifiedUp, ClosedSilent, Used, Between, NameOf, Target, Other
<1>6. Resting' /\ RouteLive' /\ DialerWatches' /\ Believed'
  BY <1>1 DEF NodeInv, Resting, RouteLive, DialerWatches, Believed, FingerprintLost, Target
<1> QED BY <1>3, <1>4, <1>5, <1>6 DEF NodeInv

\* What a step of a kind that sends, and no more, keeps.
LEMMA SentKeeps ==
    ASSUME NodeInv, NEW n \in Nodes, NEW packets, DOMAIN packets \subseteq Nodes,
           \A p \in DOMAIN packets : packets[p] \in Seq(Packets),
           \A p \in DOMAIN packets : \A i \in 1..Len(packets[p]) : packets[p][i].from = n,
           Transmit(n, packets),
           certSent' \in [Nodes -> SUBSET Nodes], gossiped' \in 0..MaxGossip, said' \in [Nodes -> 0..MaxData],
           UNCHANGED <<network, running, table, cache, cert, route, verified, advertised, entry, handler, closed,
                       ends, link, time, heard, faults>>
    PROVE  NodeInv'
<1>1. /\ wire' \in [Conns -> [Nodes -> Seq(Packets)]]
      /\ ConnsPlaced' /\ PacketsFromPeer' /\ ClosedSilent'
  BY TransmitKeeps
<1>2. /\ network' = network /\ running' = running /\ table' = table /\ route' = route /\ verified' = verified
      /\ advertised' = advertised /\ entry' = entry /\ handler' = handler /\ closed' = closed /\ ends' = ends
      /\ link' = link
  OBVIOUS
<1>3. NodeTypes'
  BY <1>1 DEF NodeInv, NodeTypes, NodeTypeOK, time
<1>4. HandlersPlaced' /\ RoutesPlaced' /\ VerifiedUp'
  BY <1>2 DEF NodeInv, HandlersPlaced, RoutesPlaced, VerifiedUp, Used, Between, NameOf, Target
<1>5. Resting' /\ RouteLive' /\ DialerWatches' /\ Believed'
  BY <1>2 DEF NodeInv, Resting, RouteLive, DialerWatches, Believed, FingerprintLost, Target
<1> QED BY <1>1, <1>3, <1>4, <1>5 DEF NodeInv

LEMMA SayKeeps ==
    ASSUME NodeInv, NEW n \in Nodes, NEW p \in Nodes, Say(n, p)
    PROVE  NodeInv'
<1> DEFINE line == [type |-> "DATA", from |-> n, seq |-> said[n] + 1]
           packets == [q \in {p} |-> <<line>>]
<1>1. /\ said[n] < MaxData /\ said' = [said EXCEPT ![n] = @ + 1] /\ Transmit(n, packets)
      /\ UNCHANGED <<network, running, table, cache, cert, route, verified, advertised, certSent, entry, handler,
                     closed, ends, link, time, heard, gossiped, faults>>
  BY DEF Say, node
<1>2. said \in [Nodes -> 0..MaxData] /\ MaxData \in Nat
  BY OverlayAssumption DEF NodeInv, NodeTypes, NodeTypeOK
<1>3. said' \in [Nodes -> 0..MaxData]
  BY <1>1, <1>2
<1>4. line \in Packets /\ line.from = n
  BY <1>1, <1>2 DEF Packets, DataPackets
<1> HIDE DEF line
<1>5. /\ DOMAIN packets \subseteq Nodes /\ \A q \in DOMAIN packets : packets[q] \in Seq(Packets)
      /\ \A q \in DOMAIN packets : \A i \in 1..Len(packets[q]) : packets[q][i].from = n
  BY <1>4
<1> HIDE DEF packets
<1>6. certSent' \in [Nodes -> SUBSET Nodes] /\ gossiped' \in 0..MaxGossip
  BY <1>1 DEF NodeInv, NodeTypes, NodeTypeOK
<1> QED BY <1>1, <1>3, <1>5, <1>6, SentKeeps

LEMMA TickKeeps ==
    ASSUME NodeInv, NEW n \in Nodes, tick(n)
    PROVE  NodeInv'
<1> DEFINE connected == {p \in Nodes : table[n][p] = "connected" /\ CanSend(n, p)}
           fresh == connected \ certSent[n]
           mine == [type |-> "KEY_CERTIFICATE", from |-> n, cert |-> issued[n]]
           certs(p) == IF p \in fresh THEN <<mine>> ELSE <<>>
<1>1. PICK due \in SUBSET {p \in connected : Subjects(n, p) # {}} :
        \E subject \in [due -> {s \in Nodes : table[n][s] = "known"}] :
            /\ gossiped + Cardinality(due) <= MaxGossip
            /\ Transmit(n, [p \in fresh \cup due |-> certs(p) \o
                   IF p \in due
                   THEN <<[type |-> "ANNOUNCE_PEER", from |-> n, subject |-> subject[p],
                           cert |-> cert[n][subject[p]]]>>
                   ELSE <<>>])
            /\ certSent' = [certSent EXCEPT ![n] = @ \cup fresh]
            /\ gossiped' = gossiped + Cardinality(due)
            /\ UNCHANGED <<network, running, table, cache, cert, route, verified, advertised, entry, handler,
                           closed, ends, link, time, chat, faults>>
  BY DEF tick
<1>2. PICK subject \in [due -> {s \in Nodes : table[n][s] = "known"}] :
            /\ gossiped + Cardinality(due) <= MaxGossip
            /\ Transmit(n, [p \in fresh \cup due |-> certs(p) \o
                   IF p \in due
                   THEN <<[type |-> "ANNOUNCE_PEER", from |-> n, subject |-> subject[p],
                           cert |-> cert[n][subject[p]]]>>
                   ELSE <<>>])
            /\ certSent' = [certSent EXCEPT ![n] = @ \cup fresh]
            /\ gossiped' = gossiped + Cardinality(due)
            /\ UNCHANGED <<network, running, table, cache, cert, route, verified, advertised, entry, handler,
                           closed, ends, link, time, chat, faults>>
  BY <1>1
<1> DEFINE about(p) == [type |-> "ANNOUNCE_PEER", from |-> n, subject |-> subject[p], cert |-> cert[n][subject[p]]]
           news(p) == IF p \in due THEN <<about(p)>> ELSE <<>>
           packets == [p \in fresh \cup due |-> certs(p) \o news(p)]
<1>3. fresh \subseteq Nodes /\ due \subseteq Nodes
  BY <1>1
<1>4. certSent \in [Nodes -> SUBSET Nodes] /\ gossiped \in 0..MaxGossip /\ said \in [Nodes -> 0..MaxData]
      /\ cert \in [Nodes -> [Nodes -> Certs]] /\ issued \in [Nodes -> Certs]
  BY DEF NodeInv, NodeTypes, NodeTypeOK
<1>5. certSent' \in [Nodes -> SUBSET Nodes]
  BY <1>2, <1>3, <1>4
<1>6. gossiped' \in 0..MaxGossip
  <2>1. Cardinality(due) \in Nat
    BY <1>3, OverlayAssumption, FS_Subset, FS_CardinalityType
  <2>2. MaxGossip \in Nat
    BY OverlayAssumption
  <2> QED BY <1>2, <1>4, <2>1, <2>2
<1>7. mine \in Packets /\ mine.from = n
  BY <1>4 DEF Packets, KeyCertificates
<1>8. ASSUME NEW p \in due PROVE about(p) \in Packets /\ about(p).from = n
  <2>1. subject[p] \in Nodes
    BY <1>2
  <2>2. cert[n][subject[p]] \in Certs
    BY <1>4, <2>1
  <2> QED BY <2>1, <2>2 DEF Packets, Announcements
<1> HIDE DEF mine, about
<1>9. ASSUME NEW p \in fresh \cup due
      PROVE  /\ certs(p) \o news(p) \in Seq(Packets)
             /\ \A i \in 1..Len(certs(p) \o news(p)) : (certs(p) \o news(p))[i].from = n
  BY <1>7, <1>8
<1>10. Transmit(n, packets)
  BY <1>2 DEF about
<1>11. /\ DOMAIN packets \subseteq Nodes /\ \A q \in DOMAIN packets : packets[q] \in Seq(Packets)
       /\ \A q \in DOMAIN packets : \A i \in 1..Len(packets[q]) : packets[q][i].from = n
  BY <1>3, <1>9
<1> HIDE DEF packets
<1>12. /\ UNCHANGED <<network, running, table, cache, cert, route, verified, advertised, entry, handler,
                      closed, ends, link, time, heard, faults>>
       /\ said' \in [Nodes -> 0..MaxData]
  BY <1>2, <1>4 DEF chat
<1> QED BY <1>5, <1>6, <1>10, <1>11, <1>12, SentKeeps

\* Node n takes the first packet of connection c: it is the peer's at the other end.
LEMMA ReceiveChanges ==
    ASSUME NodeInv, NEW n \in Nodes, NEW c \in Used, NEW type, ReceivePacket(n, c, type)
    PROVE  LET m == Head(wire[c][n]) IN
           /\ n \in running /\ link[c] = "up" /\ c \in Conns /\ wire[c][n] # <<>>
           /\ m \in Packets /\ m.type = type /\ m.from \in Nodes /\ m.from # n /\ Between(n, m.from, c)
           /\ wire' \in [Conns -> [Nodes -> Seq(Packets)]]
           /\ \A d \in Conns, q \in Nodes : wire[d][q] = <<>> => wire'[d][q] = <<>>
           /\ network' = network /\ running' = running /\ certSent' = certSent /\ closed' = closed
           /\ ends' = ends /\ link' = link /\ expired' = expired /\ issued' = issued /\ said' = said
           /\ gossiped' = gossiped /\ faults' = faults
<1> DEFINE s == wire[c][n]
           m == Head(s)
<1>1. /\ link[c] = "up" /\ n \in running /\ s # <<>> /\ m.type = type
      /\ wire' = [wire EXCEPT ![c][n] = Tail(@)]
      /\ network' = network /\ running' = running /\ certSent' = certSent /\ closed' = closed
      /\ ends' = ends /\ link' = link /\ expired' = expired /\ issued' = issued /\ said' = said
      /\ gossiped' = gossiped /\ faults' = faults
  BY DEF ReceivePacket, time
<1>2. c \in Conns /\ s \in Seq(Packets) /\ wire \in [Conns -> [Nodes -> Seq(Packets)]]
  BY NodeFacts, UsedFacts
<1>3. m \in Packets /\ 1 \in 1..Len(s) /\ m = s[1] /\ Tail(s) \in Seq(Packets)
  BY <1>1, <1>2
<1>4. Between(n, m.from, c)
  <2>1. Between(n, s[1].from, c)
    BY <1>3 DEF NodeInv, PacketsFromPeer
  <2> QED BY <1>3, <2>1
<1>5. m.from \in Nodes /\ m.from # n
  BY <1>4, UsedFacts DEF Between, NodeInv, ConnsPlaced
<1>6. wire' \in [Conns -> [Nodes -> Seq(Packets)]]
  BY <1>1, <1>2, <1>3
<1>7. ASSUME NEW d \in Conns, NEW q \in Nodes, wire[d][q] = <<>>
      PROVE  wire'[d][q] = <<>>
  BY <1>1, <1>2, <1>7
<1> QED BY <1>1, <1>2, <1>3, <1>4, <1>5, <1>6, <1>7

LEMMA ReceivedFrame ==
    ASSUME NodeInv, NEW n \in Nodes, NEW c \in Used, NEW type, ReceivePacket(n, c, type)
    PROVE  /\ Used' = Used /\ Used \subseteq Conns
           /\ \A m, p \in Nodes : \A d : Between(m, p, d)' <=> Between(m, p, d)
           /\ \A m \in Nodes : Target(m)' = Target(m) /\ \A k : NameOf(m, k)' = NameOf(m, k)
           /\ \A m, d : Other(m, d)' = Other(m, d)
           /\ PacketsFromPeer'
<1>1. /\ network' = network /\ ends' = ends
      /\ wire' = [wire EXCEPT ![c][n] = Tail(@)] /\ wire[c][n] # <<>> /\ c \in Conns
  BY UsedFacts DEF ReceivePacket
<1>2. /\ Used' = Used /\ Used \subseteq Conns
      /\ \A m, p \in Nodes : \A d : Between(m, p, d)' <=> Between(m, p, d)
      /\ \A m \in Nodes : Target(m)' = Target(m) /\ \A k : NameOf(m, k)' = NameOf(m, k)
      /\ \A m, d : Other(m, d)' = Other(m, d)
  BY <1>1, UsedFacts DEF Used, Between, Target, NameOf, Other
<1>3. PacketsFromPeer'
  <2> SUFFICES ASSUME NEW d \in Used, NEW m \in Nodes, NEW i \in 1..Len(wire'[d][m])
               PROVE  Between(m, wire'[d][m][i].from, d)
    BY <1>1, <1>2 DEF PacketsFromPeer, Between
  <2>1. CASE wire'[d][m] = wire[d][m]
    BY <2>1 DEF NodeInv, PacketsFromPeer
  <2>2. CASE wire'[d][m] = Tail(wire[d][m]) /\ wire[d][m] # <<>>
    <3> DEFINE s == wire[d][m]
    <3>1. s \in Seq(Packets)
      BY <1>2, NodeFacts
    <3>2. i \in 1..Len(Tail(s)) /\ s # <<>> /\ wire'[d][m] = Tail(s)
      BY <2>2
    <3> HIDE DEF s
    <3>3. i + 1 \in 1..Len(s) /\ Tail(s)[i] = s[i + 1]
      BY <3>1, <3>2
    <3>4. Between(m, s[i + 1].from, d)
      BY <3>3 DEF s, NodeInv, PacketsFromPeer
    <3> QED BY <3>2, <3>3, <3>4
  <2>3. wire'[d][m] = wire[d][m] \/ (wire'[d][m] = Tail(wire[d][m]) /\ wire[d][m] # <<>>)
    BY <1>1, <1>2, NodeFacts
  <2> QED BY <2>1, <2>2, <2>3
<1> QED BY <1>2, <1>3

\* A packet that leaves the transports alone: what it may do to the table and to
\* the dialer's entry.
LEMMA LearnedKeeps ==
    ASSUME NodeInv, NEW n \in Nodes, NEW c \in Used, NEW type, ReceivePacket(n, c, type),
           route' = route, verified' = verified, advertised' = advertised, handler' = handler,
           table' \in [Nodes -> [Nodes -> {"absent", "known", "connected"}]],
           \A m, q \in Nodes : table'[m][q] = "connected" => table[m][q] = "connected",
           entry' \in [Nodes -> [conn : 0..MaxConns, timer : BOOLEAN, wiped : BOOLEAN]],
           \A m \in Nodes : /\ entry'[m].conn = entry[m].conn /\ entry'[m].timer = entry[m].timer
                            /\ entry[m].wiped => entry'[m].wiped
                            /\ m # n => entry'[m] = entry[m],
           cache' \in [Nodes -> SUBSET Nodes], cert' \in [Nodes -> [Nodes -> Certs]],
           heard' \in [Nodes -> [Nodes -> 0..MaxData]]
    PROVE  NodeInv'
<1>1. /\ n \in running /\ c \in Conns
      /\ wire' \in [Conns -> [Nodes -> Seq(Packets)]]
      /\ \A d \in Conns, q \in Nodes : wire[d][q] = <<>> => wire'[d][q] = <<>>
      /\ network' = network /\ running' = running /\ certSent' = certSent /\ closed' = closed
      /\ ends' = ends /\ link' = link /\ expired' = expired /\ issued' = issued /\ said' = said
      /\ gossiped' = gossiped /\ faults' = faults
  BY ReceiveChanges
<1>2. /\ Used' = Used /\ Used \subseteq Conns
      /\ \A m, p \in Nodes : \A d : Between(m, p, d)' <=> Between(m, p, d)
      /\ \A m \in Nodes : Target(m)' = Target(m) /\ \A k : NameOf(m, k)' = NameOf(m, k)
      /\ \A m, d : Other(m, d)' = Other(m, d)
      /\ PacketsFromPeer'
  BY ReceivedFrame
<1>3. NodeTypes'
  <2>1. NodeTypeOK /\ \A m \in Nodes : issued[m] <= faults
    BY DEF NodeInv, NodeTypes
  <2>2. \A d \in Conns, q \in Nodes : wire'[d][q] \in Seq(Packets)
    BY <1>1
  <2>3. NodeTypeOK'
    BY <1>1, <2>1, <2>2 DEF NodeTypeOK
  <2> QED BY <1>1, <2>1, <2>3 DEF NodeTypes
<1>4. ConnsPlaced'
  BY <1>1, <1>2 DEF NodeInv, ConnsPlaced
<1>5. HandlersPlaced'
  <2>1. \A m \in Nodes : entry'[m].timer => Target(m) # None
    BY DEF NodeInv, HandlersPlaced
  <2>2. ASSUME NEW m \in Nodes, NEW d \in Used
        PROVE  /\ handler[m][d] = "retry" =>
                     ends[d] = <<m, Target(m)>> /\ (d \notin closed[m] => entry'[m].conn = d /\ ~entry'[m].timer)
               /\ handler[m][d] = "accept" => ends[d][2] = m /\ d \notin verified[m]
               /\ handler[m][d] = "promote" => ends[d][1] = m \/ ends[d][2] = m
    <3>1. /\ handler[m][d] = "retry" =>
                ends[d] = <<m, Target(m)>> /\ (d \notin closed[m] => entry[m].conn = d /\ ~entry[m].timer)
          /\ handler[m][d] = "accept" => ends[d][2] = m /\ d \notin verified[m]
          /\ handler[m][d] = "promote" => ends[d][1] = m \/ ends[d][2] = m
      BY DEF NodeInv, HandlersPlaced
    <3>2. entry'[m].conn = entry[m].conn /\ entry'[m].timer = entry[m].timer
      OBVIOUS
    <3> QED BY <3>1, <3>2
  <2> QED BY <1>1, <1>2, <2>1, <2>2 DEF HandlersPlaced
<1>6. RoutesPlaced'
  <2>1. ASSUME NEW m \in Nodes, NEW k \in RouteKeys, route[m][k] # 0
        PROVE  /\ Between(m, NameOf(m, k), route[m][k])
               /\ route[m][k] \in verified[m] \/ handler[m][route[m][k]] = "retry"
    BY <2>1 DEF NodeInv, RoutesPlaced
  <2> QED BY <1>1, <2>1, RoutesStand
<1>7. VerifiedUp'
  BY <1>1, <1>2 DEF NodeInv, VerifiedUp
<1>8. ClosedSilent'
  <2> SUFFICES ASSUME NEW m \in Nodes, NEW d \in closed[m]
               PROVE  /\ m = ends[d][1] \/ m = ends[d][2]
                      /\ d \in verified[m] \/ link[d] = "down" \/ (d \in closed[Other(m, d)] /\ wire'[d][m] = <<>>)
    BY <1>1, <1>2 DEF ClosedSilent
  <2>1. d \in Conns
    BY UsedFacts
  <2> QED BY <1>1, <2>1 DEF NodeInv, ClosedSilent
<1>9. Resting'
  BY <1>1 DEF NodeInv, Resting
<1>10. RouteLive'
  <2> SUFFICES ASSUME NEW m \in running, NEW q \in Nodes, ~FingerprintLost(m, q)'
               PROVE  route[m][q] \notin closed[m]
    BY <1>1 DEF RouteLive
  <2>1. m \in Nodes
    BY NodeFacts
  <2>2. ~FingerprintLost(m, q)
    BY <1>2, <2>1 DEF FingerprintLost
  <2> QED BY <2>2 DEF NodeInv, RouteLive
<1>11. DialerWatches'
  <2> SUFFICES ASSUME NEW m \in running, Target(m) # None
               PROVE  \/ entry'[m].timer
                      \/ /\ entry'[m].conn # 0
                         /\ handler[m][entry'[m].conn] = "retry" => entry'[m].conn \notin closed[m]
    BY <1>1, <1>2, NodeFacts DEF DialerWatches
  <2>1. m \in Nodes
    BY NodeFacts
  <2> QED BY <2>1 DEF NodeInv, DialerWatches
<1>12. Believed'
  BY DEF NodeInv, Believed
<1> QED BY <1>2, <1>3, <1>4, <1>5, <1>6, <1>7, <1>8, <1>9, <1>10, <1>11, <1>12 DEF NodeInv

\* A certificate verifies a transport that was not verified yet: a packet still
\* comes over it, so it has not closed, and it becomes the route.
LEMMA PromotedKeeps ==
    ASSUME NodeInv, NEW n \in Nodes, NEW c \in Used, NEW type, ReceivePacket(n, c, type),
           promotePending(n, Head(wire[c][n]).from, c), entry' = entry, heard' = heard,
           cache' \in [Nodes -> SUBSET Nodes], cert' \in [Nodes -> [Nodes -> Certs]]
    PROVE  NodeInv'
<1> DEFINE p == Head(wire[c][n]).from
<1>1. /\ n \in running /\ link[c] = "up" /\ c \in Conns /\ wire[c][n] # <<>>
      /\ p \in Nodes /\ p # n /\ Between(n, p, c)
      /\ wire' \in [Conns -> [Nodes -> Seq(Packets)]]
      /\ \A d \in Conns, q \in Nodes : wire[d][q] = <<>> => wire'[d][q] = <<>>
      /\ network' = network /\ running' = running /\ certSent' = certSent /\ closed' = closed
      /\ ends' = ends /\ link' = link /\ expired' = expired /\ issued' = issued /\ said' = said
      /\ gossiped' = gossiped /\ faults' = faults
  BY ReceiveChanges
<1>2. /\ Used' = Used /\ Used \subseteq Conns
      /\ \A m, q \in Nodes : \A d : Between(m, q, d)' <=> Between(m, q, d)
      /\ \A m \in Nodes : Target(m)' = Target(m) /\ \A k : NameOf(m, k)' = NameOf(m, k)
      /\ \A m, d : Other(m, d)' = Other(m, d)
      /\ PacketsFromPeer'
  BY ReceivedFrame
<1>3. /\ c \notin verified[n] /\ verified' = [verified EXCEPT ![n] = @ \cup {c}]
      /\ route' = [route EXCEPT ![n][p] = c]
      /\ handler' = IF route[n][p] = c THEN handler ELSE [handler EXCEPT ![n][c] = "promote"]
      /\ table' = [table EXCEPT ![n][p] = "connected"]
      /\ advertised' = [advertised EXCEPT ![n] = @ \cup {p}]
  BY DEF promotePending
<1> HIDE DEF p
<1>4. p \in RouteKeys /\ c # 0 /\ NameOf(n, p) = p
  BY <1>1, OverlayAssumption DEF RouteKeys, Conns, NameOf
<1>5. c \notin closed[n]
  BY <1>1, <1>3 DEF NodeInv, ClosedSilent
<1>6. /\ route' \in [Nodes -> [RouteKeys -> 0..MaxConns]] /\ route'[n][p] = c
      /\ \A m \in Nodes, k \in RouteKeys : m # n \/ k # p => route'[m][k] = route[m][k]
  <2>1. route \in [Nodes -> [RouteKeys -> 0..MaxConns]] /\ c \in 0..MaxConns
    BY <1>1, NodeFacts DEF Conns
  <2> QED BY <1>3, <1>4, <2>1
<1>7. /\ handler' \in [Nodes -> [Conns -> Handlers]]
      /\ \A m \in Nodes, d \in Conns : m # n \/ d # c => handler'[m][d] = handler[m][d]
      /\ IF route[n][p] = c THEN handler'[n][c] = handler[n][c] ELSE handler'[n][c] = "promote"
  <2>1. handler \in [Nodes -> [Conns -> Handlers]] /\ "promote" \in Handlers
    BY NodeFacts DEF Handlers
  <2>2. CASE route[n][p] = c
    BY <1>3, <2>1, <2>2
  <2>3. CASE route[n][p] # c
    <3>1. handler' = [handler EXCEPT ![n][c] = "promote"]
      BY <1>3, <2>3
    <3> QED BY <1>1, <2>1, <2>3, <3>1
  <2> QED BY <2>2, <2>3
<1>8. /\ verified' \in [Nodes -> SUBSET Conns] /\ verified'[n] = verified[n] \cup {c}
      /\ \A m \in Nodes : m # n => verified'[m] = verified[m]
  <2>1. verified \in [Nodes -> SUBSET Conns]
    BY NodeFacts
  <2> QED BY <1>1, <1>3, <2>1
<1>9. /\ table' \in [Nodes -> [Nodes -> {"absent", "known", "connected"}]]
      /\ \A m, q \in Nodes : m # n \/ q # p => table'[m][q] = table[m][q]
  <2>1. table \in [Nodes -> [Nodes -> {"absent", "known", "connected"}]]
    BY NodeFacts
  <2> QED BY <1>1, <1>3, <2>1
<1>10. /\ advertised' \in [Nodes -> SUBSET Nodes]
       /\ \A m, q \in Nodes : m # n \/ q # p => (q \in advertised'[m] <=> q \in advertised[m])
  <2>1. advertised \in [Nodes -> SUBSET Nodes]
    BY NodeFacts
  <2> QED BY <1>1, <1>3, <2>1
<1>11. route[n][p] = c => handler[n][c] = "retry"
  BY <1>3, <1>4 DEF NodeInv, RoutesPlaced
<1>12. NodeTypes'
  <2>1. NodeTypeOK /\ \A m \in Nodes : issued[m] <= faults
    BY DEF NodeInv, NodeTypes
  <2>2. \A d \in Conns, q \in Nodes : wire'[d][q] \in Seq(Packets)
    BY <1>1
  <2>3. NodeTypeOK'
    BY <1>1, <1>6, <1>7, <1>8, <1>9, <1>10, <2>1, <2>2 DEF NodeTypeOK
  <2> QED BY <1>1, <2>1, <2>3 DEF NodeTypes
<1>13. ConnsPlaced'
  <2>1. \A d \in Used : ends[d][1] # ends[d][2] /\ link[d] # "none"
    BY DEF NodeInv, ConnsPlaced
  <2>2. ASSUME NEW d \in Conns \ Used, NEW m \in Nodes
        PROVE  link[d] = "none" /\ wire'[d][m] = <<>> /\ handler'[m][d] = "none" /\ d \notin closed[m]
    <3>1. link[d] = "none" /\ wire[d][m] = <<>> /\ handler[m][d] = "none" /\ d \notin closed[m]
      BY DEF NodeInv, ConnsPlaced
    <3>2. d # c
      OBVIOUS
    <3> QED BY <1>1, <1>7, <3>1, <3>2
  <2> QED BY <1>1, <1>2, <2>1, <2>2 DEF ConnsPlaced
<1>14. HandlersPlaced'
  <2>1. \A m \in Nodes : entry[m].timer => Target(m) # None
    BY DEF NodeInv, HandlersPlaced
  <2>2. ASSUME NEW m \in Nodes, NEW d \in Used
        PROVE  /\ handler'[m][d] = "retry" =>
                     ends[d] = <<m, Target(m)>> /\ (d \notin closed[m] => entry[m].conn = d /\ ~entry[m].timer)
               /\ handler'[m][d] = "accept" => ends[d][2] = m /\ d \notin verified'[m]
               /\ handler'[m][d] = "promote" => ends[d][1] = m \/ ends[d][2] = m
    <3>1. /\ handler[m][d] = "retry" =>
                ends[d] = <<m, Target(m)>> /\ (d \notin closed[m] => entry[m].conn = d /\ ~entry[m].timer)
          /\ handler[m][d] = "accept" => ends[d][2] = m /\ d \notin verified[m]
          /\ handler[m][d] = "promote" => ends[d][1] = m \/ ends[d][2] = m
      BY DEF NodeInv, HandlersPlaced
    <3>2. CASE m # n \/ d # c
      <4>1. handler'[m][d] = handler[m][d] /\ (d \in verified'[m] <=> d \in verified[m])
        BY <1>2, <1>7, <1>8, <3>2
      <4> QED BY <3>1, <4>1
    <3>3. CASE m = n /\ d = c
      <4>1. ends[c][1] = n \/ ends[c][2] = n
        BY <1>1 DEF Between
      <4> QED BY <1>7, <1>11, <3>1, <3>3, <4>1
    <3> QED BY <3>2, <3>3
  <2> QED BY <1>1, <1>2, <2>1, <2>2 DEF HandlersPlaced
<1>15. RoutesPlaced'
  <2>1. ASSUME NEW m \in Nodes, NEW k \in RouteKeys, route'[m][k] # 0
        PROVE  /\ Between(m, NameOf(m, k), route'[m][k])
               /\ route'[m][k] \in verified'[m] \/ handler'[m][route'[m][k]] = "retry"
    <3>1. CASE m = n /\ k = p
      BY <1>1, <1>4, <1>6, <1>8, <3>1
    <3>2. CASE m # n \/ k # p
      <4>1. /\ route'[m][k] = route[m][k] /\ Between(m, NameOf(m, k), route[m][k])
            /\ route[m][k] \in verified[m] \/ handler[m][route[m][k]] = "retry"
        BY <1>6, <2>1, <3>2 DEF NodeInv, RoutesPlaced
      <4>2. route[m][k] \in Conns
        BY <1>2, <4>1 DEF Between
      <4> QED BY <1>7, <1>8, <4>1, <4>2
    <3> QED BY <3>1, <3>2
  <2> QED BY <1>1, <2>1, RoutesStand
<1>16. VerifiedUp'
  BY <1>1, <1>2, <1>8 DEF NodeInv, VerifiedUp
<1>17. ClosedSilent'
  <2> SUFFICES ASSUME NEW m \in Nodes, NEW d \in closed[m]
               PROVE  /\ m = ends[d][1] \/ m = ends[d][2]
                      /\ d \in verified'[m] \/ link[d] = "down" \/ (d \in closed[Other(m, d)] /\ wire'[d][m] = <<>>)
    BY <1>1, <1>2 DEF ClosedSilent
  <2>1. d \in Conns /\ (d \in verified[m] => d \in verified'[m])
    BY <1>8, UsedFacts
  <2> QED BY <1>1, <2>1 DEF NodeInv, ClosedSilent
<1>18. Resting'
  <2> SUFFICES ASSUME NEW m \in Nodes, m \notin running
               PROVE  /\ entry[m] = NoEntry /\ verified'[m] = {}
                      /\ \A d \in Conns : handler'[m][d] = "none"
                      /\ \A k \in RouteKeys : route'[m][k] = 0
    BY <1>1 DEF Resting
  <2>1. m # n
    BY <1>1
  <2>2. /\ entry[m] = NoEntry /\ verified[m] = {} /\ \A d \in Conns : handler[m][d] = "none"
        /\ \A k \in RouteKeys : route[m][k] = 0
    BY DEF NodeInv, Resting
  <2>3. verified'[m] = {}
    BY <1>8, <2>1, <2>2
  <2> QED BY <1>6, <1>7, <2>1, <2>2, <2>3
<1>19. RouteLive'
  <2> SUFFICES ASSUME NEW m \in running, NEW q \in Nodes, ~FingerprintLost(m, q)'
               PROVE  route'[m][q] \notin closed[m]
    BY <1>1 DEF RouteLive
  <2>1. m \in Nodes /\ q \in RouteKeys
    BY NodeFacts DEF RouteKeys
  <2>2. ~FingerprintLost(m, q)
    BY <1>2, <2>1 DEF FingerprintLost
  <2> QED BY <1>5, <1>6, <2>1, <2>2 DEF NodeInv, RouteLive
<1>20. DialerWatches'
  <2> SUFFICES ASSUME NEW m \in running, Target(m) # None
               PROVE  \/ entry[m].timer
                      \/ /\ entry[m].conn # 0
                         /\ handler'[m][entry[m].conn] = "retry" => entry[m].conn \notin closed[m]
    BY <1>1, <1>2, NodeFacts DEF DialerWatches
  <2>1. m \in Nodes /\ (entry[m].conn # 0 => entry[m].conn \in Conns)
    BY NodeFacts DEF Conns
  <2>2. entry[m].conn # 0 /\ handler'[m][entry[m].conn] = "retry" => handler[m][entry[m].conn] = "retry"
    BY <1>7, <2>1
  <2> QED BY <2>2 DEF NodeInv, DialerWatches
<1>21. Believed'
  <2> SUFFICES ASSUME NEW m \in Nodes, NEW q \in Nodes, q \in advertised'[m] \/ table'[m][q] = "connected"
               PROVE  route'[m][q] # 0
    BY DEF Believed
  <2>1. q \in RouteKeys
    BY DEF RouteKeys
  <2>2. CASE m = n /\ q = p
    BY <1>4, <1>6, <2>2
  <2>3. CASE m # n \/ q # p
    <3>1. route'[m][q] = route[m][q] /\ table'[m][q] = table[m][q] /\ (q \in advertised'[m] => q \in advertised[m])
      BY <1>6, <1>9, <1>10, <2>1, <2>3
    <3>2. route[m][q] # 0
      BY <3>1 DEF NodeInv, Believed
    <3> QED BY <3>1, <3>2
  <2> QED BY <2>2, <2>3
<1> QED BY <1>2, <1>12, <1>13, <1>14, <1>15, <1>16, <1>17, <1>18, <1>19, <1>20, <1>21 DEF NodeInv

\* markInnerValidationFailed.
LEMMA EvictFacts ==
    ASSUME NodeInv, NEW n \in Nodes, NEW p \in Nodes, evict(n, p)
    PROVE  /\ table' \in [Nodes -> [Nodes -> {"absent", "known", "connected"}]]
           /\ \A m, q \in Nodes : table'[m][q] = "connected" => table[m][q] = "connected"
           /\ entry' \in [Nodes -> [conn : 0..MaxConns, timer : BOOLEAN, wiped : BOOLEAN]]
           /\ \A m \in Nodes : /\ entry'[m].conn = entry[m].conn /\ entry'[m].timer = entry[m].timer
                               /\ entry[m].wiped => entry'[m].wiped
                               /\ m # n => entry'[m] = entry[m]
<1>1. /\ table' = [table EXCEPT ![n][p] = "absent"]
      /\ entry' = entry \/ entry' = [entry EXCEPT ![n].wiped = TRUE]
  BY DEF evict
<1>2. /\ table \in [Nodes -> [Nodes -> {"absent", "known", "connected"}]]
      /\ entry \in [Nodes -> [conn : 0..MaxConns, timer : BOOLEAN, wiped : BOOLEAN]]
  BY NodeFacts
<1>3. /\ table' \in [Nodes -> [Nodes -> {"absent", "known", "connected"}]]
      /\ \A m, q \in Nodes : table'[m][q] = "connected" => table[m][q] = "connected"
  BY <1>1, <1>2
<1>4. CASE entry' = entry
  BY <1>2, <1>3, <1>4
<1>5. CASE entry' = [entry EXCEPT ![n].wiped = TRUE]
  <2>1. entry' \in [Nodes -> [conn : 0..MaxConns, timer : BOOLEAN, wiped : BOOLEAN]]
    BY <1>2, <1>5
  <2>2. \A m \in Nodes : m # n => entry'[m] = entry[m]
    BY <1>2, <1>5
  <2>3. entry'[n].conn = entry[n].conn /\ entry'[n].timer = entry[n].timer /\ entry'[n].wiped = TRUE
    BY <1>2, <1>5
  <2> QED BY <1>3, <2>1, <2>2, <2>3
<1> QED BY <1>1, <1>4, <1>5

LEMMA KeyCertificateKeeps ==
    ASSUME NodeInv, NEW n \in Nodes, NEW c \in Used, onKeyCertificate(n, c)
    PROVE  NodeInv'
<1> DEFINE m == Head(wire[c][n])
<1>1. ReceivePacket(n, c, "KEY_CERTIFICATE") /\ heard' = heard
  BY DEF onKeyCertificate
<1>2. m \in Packets /\ m.type = "KEY_CERTIFICATE" /\ m.from \in Nodes
  BY <1>1, ReceiveChanges
<1>3. m.cert \in Certs
  BY <1>2 DEF Packets, KeyCertificates, Announcements, DataPackets
<1>4. /\ cache \in [Nodes -> SUBSET Nodes] /\ cert \in [Nodes -> [Nodes -> Certs]]
      /\ heard \in [Nodes -> [Nodes -> 0..MaxData]]
  BY DEF NodeInv, NodeTypes, NodeTypeOK
<1>5. CASE evict(n, m.from) /\ UNCHANGED <<cache, cert, route, verified, advertised, handler>>
  <2>1. evict(n, m.from)
    BY <1>5
  <2>2. /\ table' \in [Nodes -> [Nodes -> {"absent", "known", "connected"}]]
        /\ \A q, r \in Nodes : table'[q][r] = "connected" => table[q][r] = "connected"
        /\ entry' \in [Nodes -> [conn : 0..MaxConns, timer : BOOLEAN, wiped : BOOLEAN]]
        /\ \A q \in Nodes : /\ entry'[q].conn = entry[q].conn /\ entry'[q].timer = entry[q].timer
                            /\ entry[q].wiped => entry'[q].wiped
                            /\ q # n => entry'[q] = entry[q]
    BY <1>2, <2>1, EvictFacts
  <2> HIDE DEF m
  <2> QED BY <1>1, <1>4, <1>5, <2>2, LearnedKeeps
<1>6. cache' = [cache EXCEPT ![n] = @ \cup {m.from}] => cache' \in [Nodes -> SUBSET Nodes]
  BY <1>2, <1>4
<1>7. cert' = [cert EXCEPT ![n][m.from] = m.cert] => cert' \in [Nodes -> [Nodes -> Certs]]
  BY <1>2, <1>3, <1>4
<1>8. CASE /\ cache' = [cache EXCEPT ![n] = @ \cup {m.from}] /\ cert' = [cert EXCEPT ![n][m.from] = m.cert]
           /\ entry' = entry /\ promotePending(n, m.from, c)
  BY <1>1, <1>6, <1>7, <1>8, PromotedKeeps
<1>9. CASE /\ cache' = [cache EXCEPT ![n] = @ \cup {m.from}] /\ cert' = [cert EXCEPT ![n][m.from] = m.cert]
           /\ entry' = entry /\ addOrUpdate(n, m.from, m.cert)
           /\ UNCHANGED <<route, verified, advertised, handler>>
  <2>1. /\ table' \in [Nodes -> [Nodes -> {"absent", "known", "connected"}]]
        /\ \A q, r \in Nodes : table'[q][r] = "connected" => table[q][r] = "connected"
    BY <1>2, <1>9, NodeFacts DEF addOrUpdate
  <2>2. /\ entry' \in [Nodes -> [conn : 0..MaxConns, timer : BOOLEAN, wiped : BOOLEAN]]
        /\ \A q \in Nodes : /\ entry'[q].conn = entry[q].conn /\ entry'[q].timer = entry[q].timer
                            /\ entry[q].wiped => entry'[q].wiped
                            /\ q # n => entry'[q] = entry[q]
    BY <1>9, NodeFacts
  <2> HIDE DEF m
  <2> QED BY <1>1, <1>4, <1>6, <1>7, <1>9, <2>1, <2>2, LearnedKeeps
<1> QED BY <1>5, <1>8, <1>9 DEF onKeyCertificate

LEMMA AnnouncePeerKeeps ==
    ASSUME NodeInv, NEW n \in Nodes, NEW c \in Used, onAnnouncePeer(n, c)
    PROVE  NodeInv'
<1> DEFINE m == Head(wire[c][n])
<1>1. /\ ReceivePacket(n, c, "ANNOUNCE_PEER") /\ heard' = heard /\ cache' = cache /\ route' = route
      /\ verified' = verified /\ advertised' = advertised /\ handler' = handler
  BY DEF onAnnouncePeer
<1>2. m \in Packets /\ m.type = "ANNOUNCE_PEER" /\ m.from \in Nodes
  BY <1>1, ReceiveChanges
<1>3. m.subject \in Nodes /\ m.cert \in Certs
  BY <1>2 DEF Packets, KeyCertificates, Announcements, DataPackets
<1>4. /\ cache \in [Nodes -> SUBSET Nodes] /\ cert \in [Nodes -> [Nodes -> Certs]]
      /\ heard \in [Nodes -> [Nodes -> 0..MaxData]]
  BY DEF NodeInv, NodeTypes, NodeTypeOK
<1>5. \/ table' = table /\ cert' = cert /\ entry' = entry
      \/ evict(n, m.from) /\ cert' = cert
      \/ addOrUpdate(n, m.subject, m.cert) /\ entry' = entry
  BY DEF onAnnouncePeer
<1>6. cert' \in [Nodes -> [Nodes -> Certs]]
  <2>1. cert' = cert \/ cert' = [cert EXCEPT ![n][m.subject] = m.cert]
    BY <1>5 DEF addOrUpdate
  <2>2. [cert EXCEPT ![n][m.subject] = m.cert] \in [Nodes -> [Nodes -> Certs]]
    BY <1>3, <1>4
  <2> HIDE DEF m
  <2> QED BY <1>4, <2>1, <2>2
<1>7. /\ table' \in [Nodes -> [Nodes -> {"absent", "known", "connected"}]]
      /\ \A q, r \in Nodes : table'[q][r] = "connected" => table[q][r] = "connected"
      /\ entry' \in [Nodes -> [conn : 0..MaxConns, timer : BOOLEAN, wiped : BOOLEAN]]
      /\ \A q \in Nodes : /\ entry'[q].conn = entry[q].conn /\ entry'[q].timer = entry[q].timer
                          /\ entry[q].wiped => entry'[q].wiped
                          /\ q # n => entry'[q] = entry[q]
  <2>1. CASE table' = table /\ entry' = entry
    BY <2>1, NodeFacts
  <2>2. CASE evict(n, m.from)
    BY <1>2, <2>2, EvictFacts
  <2>3. CASE addOrUpdate(n, m.subject, m.cert) /\ entry' = entry
    <3>1. table' = table \/ table' = [table EXCEPT ![n][m.subject] = "known"]
      BY <2>3 DEF addOrUpdate
    <3>2. table \in [Nodes -> [Nodes -> {"absent", "known", "connected"}]]
      BY NodeFacts
    <3>3. /\ table' \in [Nodes -> [Nodes -> {"absent", "known", "connected"}]]
          /\ \A q, r \in Nodes : table'[q][r] = "connected" => table[q][r] = "connected"
      <4>1. CASE table' = table
        BY <3>2, <4>1
      <4>2. CASE table' = [table EXCEPT ![n][m.subject] = "known"]
        <5> DEFINE s == m.subject
        <5>1. s \in Nodes /\ table' = [table EXCEPT ![n][s] = "known"]
          BY <1>3, <4>2
        <5> HIDE DEF s, m
        <5> QED BY <3>2, <5>1
      <4> QED BY <3>1, <4>1, <4>2
    <3>4. entry' \in [Nodes -> [conn : 0..MaxConns, timer : BOOLEAN, wiped : BOOLEAN]]
      BY <2>3, NodeFacts
    <3> QED BY <2>3, <3>3, <3>4
  <2> QED BY <1>5, <2>1, <2>2, <2>3
<1> HIDE DEF m
<1>8. cache' \in [Nodes -> SUBSET Nodes] /\ heard' \in [Nodes -> [Nodes -> 0..MaxData]]
  BY <1>1, <1>4
<1> QED BY <1>1, <1>6, <1>7, <1>8, LearnedKeeps

LEMMA DataKeeps ==
    ASSUME NodeInv, NEW n \in Nodes, NEW c \in Used, onData(n, c)
    PROVE  NodeInv'
<1> DEFINE m == Head(wire[c][n])
<1>1. /\ ReceivePacket(n, c, "DATA") /\ heard' = [heard EXCEPT ![n][m.from] = m.seq]
      /\ table' = table /\ cache' = cache /\ cert' = cert /\ route' = route /\ verified' = verified
      /\ advertised' = advertised /\ entry' = entry /\ handler' = handler
  BY DEF onData
<1>2. m \in Packets /\ m.type = "DATA" /\ m.from \in Nodes
  BY <1>1, ReceiveChanges
<1>3. m.seq \in 0..MaxData
  BY <1>2, OverlayAssumption DEF Packets, KeyCertificates, Announcements, DataPackets
<1>4. /\ cache \in [Nodes -> SUBSET Nodes] /\ cert \in [Nodes -> [Nodes -> Certs]]
      /\ heard \in [Nodes -> [Nodes -> 0..MaxData]]
  BY DEF NodeInv, NodeTypes, NodeTypeOK
<1>5. heard' \in [Nodes -> [Nodes -> 0..MaxData]]
  BY <1>1, <1>2, <1>3, <1>4
<1> HIDE DEF m
<1>6. /\ table' \in [Nodes -> [Nodes -> {"absent", "known", "connected"}]]
      /\ \A q, r \in Nodes : table'[q][r] = "connected" => table[q][r] = "connected"
      /\ entry' \in [Nodes -> [conn : 0..MaxConns, timer : BOOLEAN, wiped : BOOLEAN]]
      /\ \A q \in Nodes : /\ entry'[q].conn = entry[q].conn /\ entry'[q].timer = entry[q].timer
                          /\ entry[q].wiped => entry'[q].wiped
                          /\ q # n => entry'[q] = entry[q]
  BY <1>1, NodeFacts
<1>7. cache' \in [Nodes -> SUBSET Nodes] /\ cert' \in [Nodes -> [Nodes -> Certs]]
  BY <1>1, <1>4
<1> QED BY <1>1, <1>5, <1>6, <1>7, LearnedKeeps

\* A process that dials nobody starts.
LEMMA RestingStartKeeps ==
    ASSUME NodeInv, NEW n \in Online, n \notin running, running' = running \cup {n}, Target(n) = None,
           UNCHANGED <<network, node, net, time, chat, gossiped, faults>>
    PROVE  NodeInv'
<1>1. /\ UNCHANGED <<network, table, cache, cert, route, verified, advertised, certSent, entry, handler, closed,
                     ends, link, wire, expired, issued, said, heard, gossiped, faults>>
      /\ n \in Nodes
  BY NodeFacts DEF node, net, time, chat
<1>2. NodeTypes'
  <2>1. NodeTypes /\ running' \subseteq Online
    BY NodeFacts DEF NodeInv
  <2> QED BY <1>1, <2>1 DEF NodeTypes, NodeTypeOK
<1>3. ConnsPlaced' /\ PacketsFromPeer' /\ HandlersPlaced'
  BY <1>1 DEF NodeInv, ConnsPlaced, PacketsFromPeer, HandlersPlaced, Used, Between, Target
<1>4. RoutesPlaced' /\ VerifiedUp' /\ ClosedSilent'
  BY <1>1 DEF NodeInv, RoutesPlaced, VerifiedUp, ClosedSilent, Used, Between, NameOf, Target, Other
<1>5. Resting' /\ Believed'
  BY <1>1 DEF NodeInv, Resting, Believed
<1>6. RouteLive'
  <2> SUFFICES ASSUME NEW m \in running', NEW q \in Nodes, ~FingerprintLost(m, q)
               PROVE  route[m][q] \notin closed[m]
    BY <1>1 DEF RouteLive, FingerprintLost, Target
  <2>1. CASE m \in running
    BY <2>1 DEF NodeInv, RouteLive
  <2>2. CASE m = n
    <3>1. route[n][q] = 0
      BY <1>1 DEF NodeInv, Resting, RouteKeys
    <3>2. 0 \notin closed[n]
      BY <1>1, NodeFacts DEF Conns
    <3> QED BY <2>2, <3>1, <3>2
  <2> QED BY <2>1, <2>2
<1>7. DialerWatches'
  BY <1>1 DEF NodeInv, DialerWatches, Target
<1> QED BY <1>2, <1>3, <1>4, <1>5, <1>6, <1>7 DEF NodeInv

LEMMA NodeStep == NodeInv /\ [NodeNext]_nodeVars => NodeInv'
<1> SUFFICES ASSUME NodeInv, [NodeNext]_nodeVars PROVE NodeInv'
  OBVIOUS
<1>0. Online \subseteq Nodes /\ running \subseteq Online
  BY NodeFacts
<1>1. ASSUME NEW n \in Nodes, CertificateExpires(n) PROVE NodeInv'
  BY <1>1, CertificatesExpire
<1>2. ASSUME NEW n \in Online, NEW p \in Nodes, Say(n, p) PROVE NodeInv'
  BY <1>0, <1>2, SayKeeps
<1>3. ASSUME NEW n \in Online, Stop(n) PROVE NodeInv'
  BY <1>0, <1>3, StopKeeps
<1>4. ASSUME NEW c \in Used, Breaks(c) PROVE NodeInv'
  BY <1>4, BreaksKeeps
<1>5. ASSUME NEW n \in Online, Start(n) PROVE NodeInv'
  <2>1. /\ n \in Nodes /\ n \notin running /\ running' = running \cup {n}
        /\ UNCHANGED <<network, cache, cert, verified, advertised, certSent, closed, wire, time, chat, gossiped,
                       faults>>
    BY <1>0, <1>5 DEF Start
  <2>2. CASE Target(n) = None
    <3>1. UNCHANGED <<table, route, entry, handler, ends, link>>
      BY <1>5, <2>2 DEF Start
    <3>2. UNCHANGED <<network, node, net, time, chat, gossiped, faults>>
      BY <2>1, <3>1 DEF node, net
    <3> QED BY <2>1, <2>2, <3>2, RestingStartKeeps
  <2>3. CASE Target(n) # None
    <3>1. tryDial(n)
      BY <1>5, <2>3 DEF Start
    <3>2. running' \subseteq Online
      BY <1>0, <2>1
    <3> QED BY <2>1, <2>3, <3>1, <3>2, DialKeeps
  <2> QED BY <2>2, <2>3
<1>6. ASSUME NEW n \in Online, Redial(n) PROVE NodeInv'
  <2>1. /\ n \in Nodes /\ n \in running /\ entry[n].timer /\ tryDial(n) /\ running' = running
        /\ UNCHANGED <<network, cache, cert, verified, advertised, certSent, closed, wire, time, chat, gossiped,
                       faults>>
    BY <1>0, <1>6 DEF Redial
  <2>2. Target(n) # None
    BY <2>1 DEF NodeInv, HandlersPlaced
  <2>3. running' = running \cup {n} /\ running' \subseteq Online
    BY <1>0, <2>1
  <2> QED BY <2>1, <2>2, <2>3, DialKeeps
<1>7. ASSUME NEW n \in Online, tick(n) PROVE NodeInv'
  BY <1>0, <1>7, TickKeeps
<1>8. ASSUME NEW c \in Used, Opens(c) PROVE NodeInv'
  BY <1>8, OpensKeeps
<1>9. ASSUME NEW n \in Online, NEW c \in Used, CloseEvent(n, c) PROVE NodeInv'
  BY <1>0, <1>9, CloseEventKeeps
<1>10. ASSUME NEW n \in Online, NEW c \in Used, onKeyCertificate(n, c) PROVE NodeInv'
  BY <1>0, <1>10, KeyCertificateKeeps
<1>11. ASSUME NEW n \in Online, NEW c \in Used, onAnnouncePeer(n, c) PROVE NodeInv'
  BY <1>0, <1>11, AnnouncePeerKeeps
<1>12. ASSUME NEW n \in Online, NEW c \in Used, onData(n, c) PROVE NodeInv'
  BY <1>0, <1>12, DataKeeps
<1>13. CASE UNCHANGED nodeVars
  <2>1. UNCHANGED <<network, running, table, cache, cert, route, verified, advertised, certSent, entry, handler,
                    closed, ends, link, wire, expired, issued, said, heard, gossiped, faults>>
    BY <1>13 DEF nodeVars, node, net, time, chat
  <2>2. NodeTypes' /\ ConnsPlaced' /\ PacketsFromPeer' /\ HandlersPlaced'
    <3>1. NodeTypes'
      BY <2>1 DEF NodeInv, NodeTypes, NodeTypeOK
    <3>2. ConnsPlaced' /\ PacketsFromPeer' /\ HandlersPlaced'
      BY <2>1 DEF NodeInv, ConnsPlaced, PacketsFromPeer, HandlersPlaced, Used, Between, Target
    <3> QED BY <3>1, <3>2
  <2>3. RoutesPlaced' /\ VerifiedUp' /\ ClosedSilent'
    BY <2>1 DEF NodeInv, RoutesPlaced, VerifiedUp, ClosedSilent, Used, Between, NameOf, Target, Other
  <2>4. Resting' /\ RouteLive' /\ DialerWatches' /\ Believed'
    BY <2>1 DEF NodeInv, Resting, RouteLive, DialerWatches, Believed, FingerprintLost, Target
  <2> QED BY <2>2, <2>3, <2>4 DEF NodeInv
<1> QED BY <1>1, <1>2, <1>3, <1>4, <1>5, <1>6, <1>7, <1>8, <1>9, <1>10, <1>11, <1>12, <1>13
        DEF NodeNext, Timer, Event

\* The map of transports, the table, the application and the dialer agree about
\* who is connected, however the four close handlers, the dials, the
\* certificates, the evictions and the restarts of any number of nodes follow
\* each other.
THEOREM RoutesAlwaysSound == NodeSpec => []RoutesSound
<1>1. NodeInv => RoutesSound
  BY NodeFacts DEF NodeInv, NodeTypes, Believed, BelievedHasRoute, RoutesSound
<1>2. NodeSpec => []NodeInv
  BY NodeStarts, NodeStep, PTL DEF NodeSpec
<1> QED BY <1>1, <1>2, PTL

-----------------------------------------------------------------------------
(* Chat lines                                                              *)

\* Without a fault nothing closes, ...
Quiet ==
    /\ \A n \in Nodes : closed[n] = {} /\ ~entry[n].timer
    /\ \A c \in Conns : link[c] # "down"

\* ... all lines for a peer are on the transport to it, in order, after those
\* that were shown, ...
LinesPlaced ==
    \A c \in Conns, p \in Nodes : \A i \in 1..Len(wire[c][p]) :
        LET m == wire[c][p][i] IN m.type = "DATA" =>
            /\ p \in advertised[m.from] /\ route[m.from][p] = c
            /\ heard[p][m.from] < m.seq /\ m.seq <= said[m.from]
            /\ \A j \in 1..Len(wire[c][p]) :
                  j < i /\ wire[c][p][j].type = "DATA" => wire[c][p][j].seq < m.seq
HeardSaid == \A n, p \in Nodes : heard[p][n] <= said[n]

\* ... and that transport stays, since a certificate goes to a peer once, and
\* the peer is advertised after it came.
CertsOnce ==
    \A c \in Conns, p \in Nodes : \A i \in 1..Len(wire[c][p]) :
        LET m == wire[c][p][i] IN m.type = "KEY_CERTIFICATE" =>
            /\ p \in certSent[m.from] /\ m.from \notin advertised[p]
            /\ \A d \in Conns : \A j \in 1..Len(wire[d][p]) :
                  wire[d][p][j].type = "KEY_CERTIFICATE" /\ wire[d][p][j].from = m.from => d = c /\ j = i
CertsSent == \A n, p \in Nodes : p \in advertised[n] => n \in certSent[p]

NotLost ==
    \A n \in Online : \A k \in 1..said[n] :
        \/ \E p \in Online : heard[p][n] >= k
        \/ \E c \in Used : \E i \in 1..Len(wire[c][Other(n, c)]) :
              wire[c][Other(n, c)][i] = [type |-> "DATA", from |-> n, seq |-> k]

LinesSafe == LinesPlaced /\ HeardSaid /\ CertsOnce /\ CertsSent /\ NotLost
ChatInv == faults = 0 => Quiet /\ LinesSafe

-----------------------------------------------------------------------------
LEMMA ChatFacts ==
    ASSUME NodeInv
    PROVE  /\ wire \in [Conns -> [Nodes -> Seq(Packets)]]
           /\ \A c \in Conns, p \in Nodes : Len(wire[c][p]) \in Nat
           /\ \A c \in Conns, p \in Nodes : \A i \in 1..Len(wire[c][p]) : wire[c][p][i] \in Packets
           /\ certSent \in [Nodes -> SUBSET Nodes] /\ advertised \in [Nodes -> SUBSET Nodes]
           /\ said \in [Nodes -> 0..MaxData] /\ heard \in [Nodes -> [Nodes -> 0..MaxData]] /\ MaxData \in Nat
           /\ \A n, p \in Nodes : heard[p][n] \in Nat /\ said[n] \in Nat
           /\ faults \in Nat
<1>1. /\ wire \in [Conns -> [Nodes -> Seq(Packets)]]
      /\ certSent \in [Nodes -> SUBSET Nodes] /\ advertised \in [Nodes -> SUBSET Nodes]
      /\ said \in [Nodes -> 0..MaxData] /\ heard \in [Nodes -> [Nodes -> 0..MaxData]] /\ MaxData \in Nat
      /\ faults \in Nat
  BY OverlayAssumption DEF NodeInv, NodeTypes, NodeTypeOK
<1>2. \A c \in Conns, p \in Nodes : wire[c][p] \in Seq(Packets)
  BY <1>1
<1>3. \A c \in Conns, p \in Nodes : Len(wire[c][p]) \in Nat
  BY <1>2
<1>4. \A c \in Conns, p \in Nodes : \A i \in 1..Len(wire[c][p]) : wire[c][p][i] \in Packets
  BY <1>2
<1>5. \A n, p \in Nodes : heard[p][n] \in Nat /\ said[n] \in Nat
  BY <1>1
<1> QED BY <1>1, <1>3, <1>4, <1>5

LEMMA PacketKinds ==
    ASSUME NEW m \in Packets
    PROVE  /\ m.from \in Nodes /\ m.type \in {"DATA", "KEY_CERTIFICATE", "ANNOUNCE_PEER"}
           /\ m.type = "DATA" => m.seq \in 1..MaxData /\ m = [type |-> "DATA", from |-> m.from, seq |-> m.seq]
BY DEF Packets, KeyCertificates, Announcements, DataPackets

LEMMA WirePackets ==
    ASSUME NodeInv, NEW c \in Conns, NEW p \in Nodes, NEW i \in 1..Len(wire[c][p])
    PROVE  /\ wire[c][p][i] \in Packets /\ wire[c][p][i].from \in Nodes
           /\ wire[c][p][i].type = "DATA" => wire[c][p][i].seq \in 1..MaxData /\ wire[c][p][i].seq \in Nat
<1>1. wire[c][p][i] \in Packets
  BY ChatFacts
<1>2. MaxData \in Nat
  BY OverlayAssumption
<1> QED BY <1>1, <1>2, PacketKinds

LEMMA ChatStarts == NodeInit => ChatInv
<1> SUFFICES ASSUME NodeInit PROVE Quiet /\ LinesSafe
  BY DEF ChatInv
<1>1. Quiet
  BY DEF NodeInit, Quiet, NoEntry
<1>2. LinesPlaced /\ CertsOnce /\ CertsSent
  BY DEF NodeInit, LinesPlaced, CertsOnce, CertsSent
<1>3. HeardSaid /\ NotLost
  BY OverlayAssumption DEF NodeInit, HeardSaid, NotLost
<1> QED BY <1>1, <1>2, <1>3 DEF LinesSafe

\* Steps that neither send nor receive.
LEMMA LinesRest ==
    ASSUME NodeInv, LinesSafe, wire' = wire, advertised' = advertised, certSent' = certSent,
           said' = said, heard' = heard, Used \subseteq Used', \A n \in Nodes, c \in Used : Other(n, c)' = Other(n, c),
           \A n, p \in Nodes : p \in advertised[n] => route'[n][p] = route[n][p]
    PROVE  LinesSafe'
<1>1. LinesPlaced'
  <2> SUFFICES ASSUME NEW c \in Conns, NEW p \in Nodes, NEW i \in 1..Len(wire[c][p]),
                      wire[c][p][i].type = "DATA"
               PROVE  LET m == wire[c][p][i] IN
                      /\ p \in advertised[m.from] /\ route'[m.from][p] = c
                      /\ heard[p][m.from] < m.seq /\ m.seq <= said[m.from]
                      /\ \A j \in 1..Len(wire[c][p]) :
                            j < i /\ wire[c][p][j].type = "DATA" => wire[c][p][j].seq < m.seq
    BY DEF LinesPlaced, Conns
  <2>1. wire[c][p][i].from \in Nodes
    BY WirePackets
  <2> QED BY <2>1 DEF LinesSafe, LinesPlaced
<1>2. HeardSaid' /\ CertsSent'
  BY DEF LinesSafe, HeardSaid, CertsSent
<1>3. CertsOnce'
  BY DEF LinesSafe, CertsOnce, Conns
<1>4. NotLost'
  <2> SUFFICES ASSUME NEW n \in Online, NEW k \in 1..said[n], ~ \E p \in Online : heard[p][n] >= k
               PROVE  \E c \in Used' : \E i \in 1..Len(wire[c][Other(n, c)']) :
                         wire[c][Other(n, c)'][i] = [type |-> "DATA", from |-> n, seq |-> k]
    BY DEF NotLost
  <2>1. PICK c \in Used : \E i \in 1..Len(wire[c][Other(n, c)]) :
            wire[c][Other(n, c)][i] = [type |-> "DATA", from |-> n, seq |-> k]
    BY DEF LinesSafe, NotLost
  <2>2. n \in Nodes
    BY NodeFacts
  <2>3. Other(n, c)' = Other(n, c) /\ c \in Used'
    BY <2>2
  <2> QED BY <2>1, <2>3
<1> QED BY <1>1, <1>2, <1>3, <1>4 DEF LinesSafe

\* Where packets are after some were sent: behind those that were there.
Sends(n, packets) ==
    /\ DOMAIN packets \subseteq Nodes /\ \A p \in DOMAIN packets : packets[p] \in Seq(Packets)
    /\ Transmit(n, packets)

LEMMA SentBehind ==
    ASSUME NodeInv, Quiet, NEW n \in Nodes, NEW packets, Sends(n, packets),
           NEW c \in Conns, NEW p \in Nodes
    PROVE  LET s == wire[c][p]
               t == wire'[c][p]
           IN  /\ Len(s) \in Nat /\ Len(s) <= Len(t) /\ Len(t) \in Nat
               /\ \A i \in 1..Len(s) : t[i] = s[i]
               /\ \A i \in 1..Len(t) : i \notin 1..Len(s) =>
                     /\ p \in DOMAIN packets /\ route[n][p] = c
                     /\ i - Len(s) \in 1..Len(packets[p]) /\ t[i] = packets[p][i - Len(s)]
               /\ p \in DOMAIN packets /\ route[n][p] = c =>
                     \A j \in 1..Len(packets[p]) : Len(s) + j \in 1..Len(t) /\ t[Len(s) + j] = packets[p][j]
<1> DEFINE s == wire[c][p]
           t == wire'[c][p]
           b == p \in DOMAIN packets /\ route[n][p] = c
<1>1. s \in Seq(Packets)
  BY ChatFacts
<1>2. c \notin closed[n] /\ link[c] # "down"
  BY DEF Quiet
<1>3. t = IF b THEN s \o packets[p] ELSE s
  BY <1>2 DEF Sends, Transmit
<1> HIDE DEF s, t
<1> DEFINE placed ==
             /\ Len(s) \in Nat /\ Len(s) <= Len(t) /\ Len(t) \in Nat
             /\ \A i \in 1..Len(s) : t[i] = s[i]
             /\ \A i \in 1..Len(t) : i \notin 1..Len(s) =>
                   /\ p \in DOMAIN packets /\ route[n][p] = c
                   /\ i - Len(s) \in 1..Len(packets[p]) /\ t[i] = packets[p][i - Len(s)]
             /\ p \in DOMAIN packets /\ route[n][p] = c =>
                   \A j \in 1..Len(packets[p]) : Len(s) + j \in 1..Len(t) /\ t[Len(s) + j] = packets[p][j]
<1>4. ASSUME ~b PROVE placed
  BY <1>1, <1>3, <1>4
<1>5. ASSUME b PROVE placed
  <2> DEFINE q == packets[p]
  <2>1. q \in Seq(Packets) /\ t = s \o q
    BY <1>3, <1>5 DEF Sends
  <2> HIDE DEF q
  <2>2. /\ Len(s) \in Nat /\ Len(q) \in Nat /\ Len(t) = Len(s) + Len(q)
        /\ \A i \in 1..Len(s) : t[i] = s[i]
        /\ \A i \in 1..Len(t) : i \notin 1..Len(s) => i - Len(s) \in 1..Len(q) /\ t[i] = q[i - Len(s)]
        /\ \A j \in 1..Len(q) : Len(s) + j \in 1..Len(t) /\ t[Len(s) + j] = q[j]
    BY <1>1, <2>1
  <2> QED BY <1>5, <2>2 DEF q
<1> QED BY <1>4, <1>5 DEF s, t

\* A step that sends: what was on the wire stays where it is, and lines that were
\* said stay under way.
LEMMA WireGrows ==
    ASSUME NodeInv, Quiet, NEW n \in Nodes, NEW packets, Sends(n, packets)
    PROVE  \A c \in Conns, p \in Nodes :
              /\ Len(wire[c][p]) \in Nat /\ Len(wire'[c][p]) \in Nat
              /\ \A i \in 1..Len(wire[c][p]) : i \in 1..Len(wire'[c][p]) /\ wire'[c][p][i] = wire[c][p][i]
<1> SUFFICES ASSUME NEW c \in Conns, NEW p \in Nodes
             PROVE  /\ Len(wire[c][p]) \in Nat /\ Len(wire'[c][p]) \in Nat
                    /\ \A i \in 1..Len(wire[c][p]) : i \in 1..Len(wire'[c][p]) /\ wire'[c][p][i] = wire[c][p][i]
  OBVIOUS
<1>1. /\ Len(wire[c][p]) \in Nat /\ Len(wire[c][p]) <= Len(wire'[c][p]) /\ Len(wire'[c][p]) \in Nat
      /\ \A i \in 1..Len(wire[c][p]) : wire'[c][p][i] = wire[c][p][i]
  BY SentBehind
<1> QED BY <1>1

LEMMA SentMore ==
    ASSUME NodeInv, Quiet, NEW n \in Nodes, NEW packets, Sends(n, packets),
           NEW c \in Conns, NEW p \in Nodes, NEW i \in 1..Len(wire'[c][p]), i \notin 1..Len(wire[c][p])
    PROVE  /\ p \in DOMAIN packets /\ route[n][p] = c
           /\ i - Len(wire[c][p]) \in 1..Len(packets[p])
           /\ wire'[c][p][i] = packets[p][i - Len(wire[c][p])]
BY SentBehind

LEMMA SentArrives ==
    ASSUME NodeInv, Quiet, NEW n \in Nodes, NEW packets, Sends(n, packets),
           NEW c \in Conns, NEW p \in DOMAIN packets, route[n][p] = c, NEW j \in 1..Len(packets[p])
    PROVE  /\ Len(wire[c][p]) + j \in 1..Len(wire'[c][p])
           /\ wire'[c][p][Len(wire[c][p]) + j] = packets[p][j]
<1>1. p \in Nodes
  BY DEF Sends
<1> QED BY <1>1, SentBehind

LEMMA LinesStay ==
    ASSUME NodeInv, NotLost, ends' = ends, heard' = heard,
           \A c \in Conns, p \in Nodes : \A i \in 1..Len(wire[c][p]) :
              i \in 1..Len(wire'[c][p]) /\ wire'[c][p][i] = wire[c][p][i],
           NEW n \in Online, NEW k \in 1..said[n]
    PROVE  \/ \E p \in Online : heard'[p][n] >= k
           \/ \E c \in Used' : \E i \in 1..Len(wire'[c][Other(n, c)']) :
                 wire'[c][Other(n, c)'][i] = [type |-> "DATA", from |-> n, seq |-> k]
<1>1. Used' = Used /\ Used \subseteq Conns /\ n \in Nodes /\ \A c \in Used : Other(n, c)' = Other(n, c) /\ Other(n, c) \in Nodes
  BY UsedFacts, NodeFacts DEF Used, Other
<1>2. CASE \E p \in Online : heard[p][n] >= k
  BY <1>2
<1>3. CASE \E c \in Used : \E i \in 1..Len(wire[c][Other(n, c)]) :
              wire[c][Other(n, c)][i] = [type |-> "DATA", from |-> n, seq |-> k]
  <2>1. PICK c \in Used : \E i \in 1..Len(wire[c][Other(n, c)]) :
              wire[c][Other(n, c)][i] = [type |-> "DATA", from |-> n, seq |-> k]
    BY <1>3
  <2>2. PICK i \in 1..Len(wire[c][Other(n, c)]) :
              wire[c][Other(n, c)][i] = [type |-> "DATA", from |-> n, seq |-> k]
    BY <2>1
  <2>3. c \in Conns /\ Other(n, c) \in Nodes /\ Other(n, c)' = Other(n, c) /\ c \in Used'
    BY <1>1
  <2>4. i \in 1..Len(wire'[c][Other(n, c)]) /\ wire'[c][Other(n, c)][i] = wire[c][Other(n, c)][i]
    BY <2>2, <2>3
  <2> QED BY <2>2, <2>3, <2>4
<1> QED BY <1>2, <1>3 DEF NotLost

LEMMA SaySafe ==
    ASSUME NodeInv, Quiet, LinesSafe, NEW n \in Online, NEW p \in Nodes, Say(n, p)
    PROVE  Quiet' /\ LinesSafe'
<1> DEFINE c == route[n][p]
           line == [type |-> "DATA", from |-> n, seq |-> said[n] + 1]
           packets == [q \in {p} |-> <<line>>]
<1>1. /\ p \in advertised[n] /\ said[n] < MaxData /\ said' = [said EXCEPT ![n] = @ + 1] /\ Transmit(n, packets)
      /\ c # 0 /\ network' = network /\ route' = route /\ advertised' = advertised /\ certSent' = certSent
      /\ entry' = entry /\ closed' = closed /\ ends' = ends /\ link' = link /\ heard' = heard
  BY DEF Say, node, CanSend
<1>2. /\ n \in Nodes /\ Used \subseteq Conns
      /\ said \in [Nodes -> 0..MaxData] /\ MaxData \in Nat
      /\ \A m, q \in Nodes : heard[q][m] \in Nat /\ said[m] \in Nat
  BY NodeFacts, UsedFacts, ChatFacts
<1>3. line \in Packets /\ line.type = "DATA" /\ line.from = n /\ line.seq = said[n] + 1
  BY <1>1, <1>2 DEF Packets, DataPackets
<1>4. /\ c \in Used /\ c \in Conns /\ Between(n, p, c) /\ Between(p, n, c) /\ n # p /\ Other(n, c) = p
  <2>1. p \in RouteKeys /\ NameOf(n, p) = p
    BY NodeFacts DEF RouteKeys, NameOf
  <2>2. Between(n, p, c)
    BY <1>1, <1>2, <2>1 DEF NodeInv, RoutesPlaced
  <2> QED BY <1>2, <2>2 DEF Between, Other, NodeInv, ConnsPlaced
<1>5. DOMAIN packets = {p} /\ packets[p] = <<line>>
  OBVIOUS
<1> HIDE DEF line, packets
<1>6. Sends(n, packets) /\ Len(packets[p]) = 1 /\ packets[p][1] = line
  <2>1. <<line>> \in Seq(Packets) /\ Len(<<line>>) = 1 /\ <<line>>[1] = line
    BY <1>3
  <2>2. DOMAIN packets \subseteq Nodes /\ \A q \in DOMAIN packets : packets[q] \in Seq(Packets)
    BY <1>5, <2>1
  <2>3. Len(packets[p]) = 1 /\ packets[p][1] = line
    BY <1>5, <2>1
  <2> QED BY <1>1, <2>2, <2>3 DEF Sends
<1>7. \A d \in Conns, q \in Nodes :
              /\ Len(wire[d][q]) \in Nat /\ Len(wire'[d][q]) \in Nat
              /\ \A i \in 1..Len(wire[d][q]) : i \in 1..Len(wire'[d][q]) /\ wire'[d][q][i] = wire[d][q][i]
  BY <1>2, <1>6, WireGrows
<1>8. ASSUME NEW d \in Conns, NEW q \in Nodes, NEW i \in 1..Len(wire'[d][q]), i \notin 1..Len(wire[d][q])
      PROVE  d = c /\ q = p /\ i = Len(wire[c][p]) + 1 /\ wire'[d][q][i] = line
  <2>1. q \in DOMAIN packets /\ route[n][q] = d /\ i - Len(wire[d][q]) \in 1..Len(packets[q])
        /\ wire'[d][q][i] = packets[q][i - Len(wire[d][q])]
    BY <1>2, <1>6, <1>8, SentMore
  <2>2. q = p /\ d = c
    BY <1>5, <2>1
  <2>3. i - Len(wire[c][p]) \in 1..1 /\ Len(wire[c][p]) \in Nat /\ Len(wire'[c][p]) \in Nat
    BY <1>6, <1>7, <2>1, <2>2
  <2>4. i = Len(wire[c][p]) + 1
    BY <2>2, <2>3
  <2> QED BY <1>6, <2>1, <2>2, <2>3, <2>4
<1>9. LET k == Len(wire[c][p]) + 1 IN k \in 1..Len(wire'[c][p]) /\ wire'[c][p][k] = line
  <2>1. p \in DOMAIN packets
    BY <1>5
  <2>2. \A j \in 1..Len(packets[p]) :
            Len(wire[c][p]) + j \in 1..Len(wire'[c][p]) /\ wire'[c][p][Len(wire[c][p]) + j] = packets[p][j]
    <3> SUFFICES ASSUME NEW j \in 1..Len(packets[p])
                 PROVE  /\ Len(wire[c][p]) + j \in 1..Len(wire'[c][p])
                        /\ wire'[c][p][Len(wire[c][p]) + j] = packets[p][j]
      OBVIOUS
    <3>1. PICK d \in Conns : d = c
      BY <1>4
    <3>2. Len(wire[d][p]) + j \in 1..Len(wire'[d][p]) /\ wire'[d][p][Len(wire[d][p]) + j] = packets[p][j]
      <4>1. route[n][p] = d /\ n \in Nodes /\ Sends(n, packets)
        BY <1>2, <1>6, <3>1
      <4> HIDE DEF c
      <4> QED BY <2>1, <4>1, SentArrives
    <3> QED BY <3>1, <3>2
  <2> QED BY <1>6, <2>2
<1>10. LinesPlaced'
  <2> SUFFICES ASSUME NEW d \in Conns, NEW q \in Nodes, NEW i \in 1..Len(wire'[d][q]), wire'[d][q][i].type = "DATA"
               PROVE  LET m == wire'[d][q][i] IN
                      /\ q \in advertised[m.from] /\ route[m.from][q] = d
                      /\ heard[q][m.from] < m.seq /\ m.seq <= said'[m.from]
                      /\ \A j \in 1..Len(wire'[d][q]) :
                            j < i /\ wire'[d][q][j].type = "DATA" => wire'[d][q][j].seq < m.seq
    BY <1>1 DEF LinesPlaced, Conns
  <2>1. CASE i \in 1..Len(wire[d][q])
    <3> DEFINE m == wire[d][q][i]
    <3>1. wire'[d][q][i] = m /\ m \in Packets /\ m.type = "DATA" /\ m.from \in Nodes /\ m.seq \in 1..MaxData
      BY <1>7, <2>1, WirePackets
    <3>2. /\ q \in advertised[m.from] /\ route[m.from][q] = d
          /\ heard[q][m.from] < m.seq /\ m.seq <= said[m.from]
          /\ \A j \in 1..Len(wire[d][q]) : j < i /\ wire[d][q][j].type = "DATA" => wire[d][q][j].seq < m.seq
      BY <2>1, <3>1 DEF LinesSafe, LinesPlaced
    <3> HIDE DEF m
    <3>3. m.seq <= said'[m.from]
      BY <1>1, <1>2, <3>1, <3>2
    <3>4. ASSUME NEW j \in 1..Len(wire'[d][q]), j < i, wire'[d][q][j].type = "DATA"
          PROVE  wire'[d][q][j].seq < m.seq
      <4>1. j \in 1..Len(wire[d][q])
        BY <1>7, <2>1, <3>4
      <4>2. wire'[d][q][j] = wire[d][q][j]
        BY <1>7, <4>1
      <4> QED BY <3>2, <3>4, <4>1, <4>2
    <3> QED BY <3>1, <3>2, <3>3, <3>4
  <2>2. CASE i \notin 1..Len(wire[d][q])
    <3>1. d = c /\ q = p /\ i = Len(wire[c][p]) + 1 /\ wire'[d][q][i] = line
      BY <1>8, <2>2
    <3>2. heard[p][n] < said[n] + 1 /\ said[n] + 1 <= said'[n]
      BY <1>1, <1>2 DEF LinesSafe, HeardSaid
    <3>3. ASSUME NEW j \in 1..Len(wire'[c][p]), j < i, wire'[c][p][j].type = "DATA"
          PROVE  wire'[c][p][j].seq < said[n] + 1
      <4>1. j \in 1..Len(wire[c][p])
        BY <1>4, <1>7, <3>1, <3>3
      <4>2. wire'[c][p][j] = wire[c][p][j]
        BY <1>4, <1>7, <4>1
      <4>3. Between(p, wire[c][p][j].from, c)
        BY <1>4, <4>1 DEF NodeInv, PacketsFromPeer
      <4>4. wire[c][p][j].from = n
        BY <1>4, <4>3, BetweenOnce
      <4>5. wire[c][p][j].seq <= said[n] /\ wire[c][p][j].seq \in 1..MaxData
        <5>1. wire[c][p][j].seq \in 1..MaxData
          BY <1>4, <3>3, <4>1, <4>2, WirePackets
        <5>2. wire[c][p][j].seq <= said[wire[c][p][j].from]
          <6>1. LinesPlaced /\ wire[c][p][j].type = "DATA"
            BY <3>3, <4>2 DEF LinesSafe
          <6> QED BY <1>4, <4>1, <6>1, SMTT(60) DEF LinesPlaced
        <5> QED BY <4>4, <5>1, <5>2
      <4> QED BY <1>2, <4>2, <4>5
    <3> QED BY <1>1, <1>3, <3>1, <3>2, <3>3
  <2> QED BY <2>1, <2>2
<1>11. HeardSaid'
  BY <1>1, <1>2 DEF LinesSafe, HeardSaid
<1>12. CertsOnce'
  <2>1. ASSUME NEW d \in Conns, NEW q \in Nodes, NEW i \in 1..Len(wire'[d][q]), wire'[d][q][i].type = "KEY_CERTIFICATE"
        PROVE  i \in 1..Len(wire[d][q]) /\ wire'[d][q][i] = wire[d][q][i]
    BY <1>3, <1>7, <1>8, <2>1
  <2>2. ASSUME NEW d \in Conns, NEW q \in Nodes, NEW i \in 1..Len(wire'[d][q]), wire'[d][q][i].type = "KEY_CERTIFICATE"
        PROVE  LET m == wire'[d][q][i] IN
               /\ q \in certSent[m.from] /\ m.from \notin advertised[q]
               /\ \A e \in Conns : \A j \in 1..Len(wire'[e][q]) :
                     wire'[e][q][j].type = "KEY_CERTIFICATE" /\ wire'[e][q][j].from = m.from => e = d /\ j = i
    <3> DEFINE m == wire[d][q][i]
    <3>1. i \in 1..Len(wire[d][q]) /\ wire'[d][q][i] = m /\ m.type = "KEY_CERTIFICATE"
      BY <2>1, <2>2
    <3>2. /\ q \in certSent[m.from] /\ m.from \notin advertised[q]
          /\ \A e \in Conns : \A j \in 1..Len(wire[e][q]) :
                wire[e][q][j].type = "KEY_CERTIFICATE" /\ wire[e][q][j].from = m.from => e = d /\ j = i
      BY <3>1 DEF LinesSafe, CertsOnce
    <3> HIDE DEF m
    <3>3. ASSUME NEW e \in Conns, NEW j \in 1..Len(wire'[e][q]),
                 wire'[e][q][j].type = "KEY_CERTIFICATE" /\ wire'[e][q][j].from = m.from
          PROVE  e = d /\ j = i
      <4>1. j \in 1..Len(wire[e][q]) /\ wire'[e][q][j] = wire[e][q][j]
        BY <2>1, <3>3
      <4> QED BY <3>2, <3>3, <4>1
    <3> QED BY <3>1, <3>2, <3>3
  <2> QED BY <1>1, <2>2 DEF CertsOnce, Conns
<1>13. NotLost'
  <2> SUFFICES ASSUME NEW m \in Online, NEW k \in 1..said'[m]
               PROVE  \/ \E q \in Online : heard'[q][m] >= k
                      \/ \E d \in Used' : \E i \in 1..Len(wire'[d][Other(m, d)']) :
                            wire'[d][Other(m, d)'][i] = [type |-> "DATA", from |-> m, seq |-> k]
    BY DEF NotLost
  <2>1. CASE k \in 1..said[m]
    BY <1>1, <1>7, <2>1, LinesStay DEF LinesSafe
  <2>2. CASE k \notin 1..said[m]
    <3>1. m \in Nodes
      BY NodeFacts
    <3>2. m = n /\ k = said[n] + 1
      BY <1>1, <1>2, <2>2, <3>1
    <3>3. PICK d \in Used : d = c
      BY <1>4
    <3>4. Other(m, d)' = p /\ d \in Used'
      BY <1>1, <1>4, <3>2, <3>3 DEF Other, Used
    <3>5. line = [type |-> "DATA", from |-> m, seq |-> k]
      BY <3>2 DEF line
    <3>6. \E i \in 1..Len(wire'[d][p]) : wire'[d][p][i] = [type |-> "DATA", from |-> m, seq |-> k]
      BY <1>9, <3>3, <3>5
    <3> QED BY <3>4, <3>6
  <2> QED BY <2>1, <2>2
<1>14. Quiet' /\ CertsSent'
  BY <1>1 DEF Quiet, LinesSafe, CertsSent, Conns
<1> QED BY <1>10, <1>11, <1>12, <1>13, <1>14 DEF LinesSafe

\* A certificate goes to a peer that got none, and what else is sent is no line.
LEMMA TickSafe ==
    ASSUME NodeInv, Quiet, LinesSafe, NEW n \in Nodes, tick(n)
    PROVE  Quiet' /\ LinesSafe'
<1> DEFINE connected == {p \in Nodes : table[n][p] = "connected" /\ CanSend(n, p)}
           fresh == connected \ certSent[n]
           mine == [type |-> "KEY_CERTIFICATE", from |-> n, cert |-> issued[n]]
           certs(p) == IF p \in fresh THEN <<mine>> ELSE <<>>
<1>1. PICK due \in SUBSET {p \in connected : Subjects(n, p) # {}} :
        \E subject \in [due -> {s \in Nodes : table[n][s] = "known"}] :
            /\ Transmit(n, [p \in fresh \cup due |-> certs(p) \o
                   IF p \in due
                   THEN <<[type |-> "ANNOUNCE_PEER", from |-> n, subject |-> subject[p],
                           cert |-> cert[n][subject[p]]]>>
                   ELSE <<>>])
            /\ certSent' = [certSent EXCEPT ![n] = @ \cup fresh]
            /\ UNCHANGED <<network, running, table, cache, cert, route, verified, advertised, entry, handler,
                           closed, ends, link, time, chat, faults>>
  BY DEF tick
<1>2. PICK subject \in [due -> {s \in Nodes : table[n][s] = "known"}] :
            /\ Transmit(n, [p \in fresh \cup due |-> certs(p) \o
                   IF p \in due
                   THEN <<[type |-> "ANNOUNCE_PEER", from |-> n, subject |-> subject[p],
                           cert |-> cert[n][subject[p]]]>>
                   ELSE <<>>])
            /\ certSent' = [certSent EXCEPT ![n] = @ \cup fresh]
            /\ UNCHANGED <<network, running, table, cache, cert, route, verified, advertised, entry, handler,
                           closed, ends, link, time, chat, faults>>
  BY <1>1
<1> DEFINE about(p) == [type |-> "ANNOUNCE_PEER", from |-> n, subject |-> subject[p], cert |-> cert[n][subject[p]]]
           news(p) == IF p \in due THEN <<about(p)>> ELSE <<>>
           packets == [p \in fresh \cup due |-> certs(p) \o news(p)]
<1>3. fresh \subseteq Nodes /\ due \subseteq Nodes
  BY <1>1
<1>4. certSent \in [Nodes -> SUBSET Nodes] /\ cert \in [Nodes -> [Nodes -> Certs]] /\ issued \in [Nodes -> Certs]
  BY DEF NodeInv, NodeTypes, NodeTypeOK
<1>5. mine \in Packets /\ mine.from = n /\ mine.type = "KEY_CERTIFICATE"
  BY <1>4 DEF Packets, KeyCertificates
<1>6. ASSUME NEW p \in due PROVE about(p) \in Packets /\ about(p).from = n /\ about(p).type = "ANNOUNCE_PEER"
  <2>1. subject[p] \in Nodes
    BY <1>2
  <2>2. cert[n][subject[p]] \in Certs
    BY <1>4, <2>1
  <2> QED BY <2>1, <2>2 DEF Packets, Announcements
<1>7. Transmit(n, packets)
  BY <1>2
<1> HIDE DEF mine, about
<1>8. ASSUME NEW p \in fresh \cup due
      PROVE  /\ certs(p) \o news(p) \in Seq(Packets)
             /\ \A j \in 1..Len(certs(p) \o news(p)) :
                   /\ (certs(p) \o news(p))[j].from = n /\ (certs(p) \o news(p))[j].type # "DATA"
                   /\ (certs(p) \o news(p))[j].type = "KEY_CERTIFICATE" => p \in fresh /\ j = 1
  <2>1. CASE p \in fresh /\ p \in due
    BY <1>5, <1>6, <2>1
  <2>2. CASE p \in fresh /\ p \notin due
    BY <1>5, <2>2
  <2>3. CASE p \notin fresh /\ p \in due
    BY <1>6, <2>3
  <2> QED BY <2>1, <2>2, <2>3
<1>9. /\ Sends(n, packets)
      /\ \A q \in DOMAIN packets : \A j \in 1..Len(packets[q]) :
            /\ packets[q][j].from = n /\ packets[q][j].type # "DATA"
            /\ packets[q][j].type = "KEY_CERTIFICATE" => q \in fresh /\ j = 1
  <2>1. DOMAIN packets = fresh \cup due /\ \A q \in fresh \cup due : packets[q] = certs(q) \o news(q)
    OBVIOUS
  <2> HIDE DEF packets, certs, news, fresh
  <2>2. DOMAIN packets \subseteq Nodes /\ \A q \in DOMAIN packets : packets[q] \in Seq(Packets)
    BY <1>3, <1>8, <2>1
  <2>3. ASSUME NEW q \in DOMAIN packets, NEW j \in 1..Len(packets[q])
        PROVE  /\ packets[q][j].from = n /\ packets[q][j].type # "DATA"
               /\ packets[q][j].type = "KEY_CERTIFICATE" => q \in fresh /\ j = 1
    <3>1. q \in fresh \cup due /\ packets[q] = certs(q) \o news(q)
      BY <2>1
    <3> QED BY <1>8, <3>1
  <2> QED BY <1>7, <2>2, <2>3 DEF Sends
<1>10. \A q \in fresh : q \in Nodes /\ q \notin certSent[n]
  BY <1>3
<1> HIDE DEF packets, fresh
<1>11. /\ route' = route /\ advertised' = advertised /\ said' = said /\ heard' = heard /\ ends' = ends
       /\ link' = link /\ closed' = closed /\ entry' = entry
       /\ \A m \in Nodes : certSent[m] \subseteq certSent'[m]
       /\ fresh \subseteq certSent'[n]
  BY <1>2, <1>4 DEF chat
<1>12. \A d \in Conns, q \in Nodes :
              /\ Len(wire[d][q]) \in Nat /\ Len(wire'[d][q]) \in Nat
              /\ \A i \in 1..Len(wire[d][q]) : i \in 1..Len(wire'[d][q]) /\ wire'[d][q][i] = wire[d][q][i]
  BY <1>9, WireGrows
<1>13. ASSUME NEW d \in Conns, NEW q \in Nodes, NEW i \in 1..Len(wire'[d][q]), i \notin 1..Len(wire[d][q])
       PROVE  /\ route[n][q] = d /\ wire'[d][q][i].from = n /\ wire'[d][q][i].type # "DATA"
              /\ wire'[d][q][i].type = "KEY_CERTIFICATE" =>
                    /\ i = Len(wire[d][q]) + 1 /\ q \notin certSent[n] /\ q \in certSent'[n]
  <2>1. /\ q \in DOMAIN packets /\ route[n][q] = d /\ i - Len(wire[d][q]) \in 1..Len(packets[q])
        /\ wire'[d][q][i] = packets[q][i - Len(wire[d][q])]
    BY <1>9, <1>13, SentMore
  <2>2. Len(wire[d][q]) \in Nat /\ Len(wire'[d][q]) \in Nat
    BY <1>12
  <2>3. /\ wire'[d][q][i].from = n /\ wire'[d][q][i].type # "DATA"
        /\ wire'[d][q][i].type = "KEY_CERTIFICATE" => q \in fresh /\ i - Len(wire[d][q]) = 1
    BY <1>9, <2>1
  <2> QED BY <1>10, <1>11, <2>1, <2>2, <2>3
<1>14. LinesPlaced'
  <2>1. ASSUME NEW d \in Conns, NEW q \in Nodes, NEW i \in 1..Len(wire'[d][q]), wire'[d][q][i].type = "DATA"
        PROVE  i \in 1..Len(wire[d][q]) /\ wire'[d][q][i] = wire[d][q][i]
    BY <1>12, <1>13, <2>1
  <2> SUFFICES ASSUME NEW d \in Conns, NEW q \in Nodes, NEW i \in 1..Len(wire'[d][q]), wire'[d][q][i].type = "DATA"
               PROVE  LET m == wire'[d][q][i] IN
                      /\ q \in advertised[m.from] /\ route[m.from][q] = d
                      /\ heard[q][m.from] < m.seq /\ m.seq <= said[m.from]
                      /\ \A j \in 1..Len(wire'[d][q]) :
                            j < i /\ wire'[d][q][j].type = "DATA" => wire'[d][q][j].seq < m.seq
    BY <1>11 DEF LinesPlaced, Conns
  <2> DEFINE m == wire[d][q][i]
  <2>2. i \in 1..Len(wire[d][q]) /\ wire'[d][q][i] = m /\ m.type = "DATA"
    BY <2>1
  <2>3. /\ q \in advertised[m.from] /\ route[m.from][q] = d
        /\ heard[q][m.from] < m.seq /\ m.seq <= said[m.from]
        /\ \A j \in 1..Len(wire[d][q]) : j < i /\ wire[d][q][j].type = "DATA" => wire[d][q][j].seq < m.seq
    BY <2>2 DEF LinesSafe, LinesPlaced
  <2> HIDE DEF m
  <2>4. ASSUME NEW j \in 1..Len(wire'[d][q]), j < i, wire'[d][q][j].type = "DATA"
        PROVE  wire'[d][q][j].seq < m.seq
    <3>1. j \in 1..Len(wire[d][q]) /\ wire'[d][q][j] = wire[d][q][j]
      BY <2>1, <2>4
    <3> QED BY <2>3, <2>4, <3>1
  <2> QED BY <2>2, <2>3, <2>4
<1>15. CertsOnce'
  <2> SUFFICES ASSUME NEW d \in Conns, NEW q \in Nodes, NEW i \in 1..Len(wire'[d][q]),
                      wire'[d][q][i].type = "KEY_CERTIFICATE"
               PROVE  LET m == wire'[d][q][i] IN
                      /\ q \in certSent'[m.from] /\ m.from \notin advertised[q]
                      /\ \A e \in Conns : \A j \in 1..Len(wire'[e][q]) :
                            wire'[e][q][j].type = "KEY_CERTIFICATE" /\ wire'[e][q][j].from = m.from
                            => e = d /\ j = i
    <3>1. advertised' = advertised
      BY <1>11
    <3> QED BY <3>1 DEF CertsOnce, Conns
  <2>1. CASE i \in 1..Len(wire[d][q])
    <3> DEFINE m == wire[d][q][i]
    <3>1. wire'[d][q][i] = m /\ m.type = "KEY_CERTIFICATE" /\ m.from \in Nodes
      BY <1>12, <2>1, WirePackets
    <3>2. /\ q \in certSent[m.from] /\ m.from \notin advertised[q]
          /\ \A e \in Conns : \A j \in 1..Len(wire[e][q]) :
                wire[e][q][j].type = "KEY_CERTIFICATE" /\ wire[e][q][j].from = m.from => e = d /\ j = i
      BY <2>1, <3>1 DEF LinesSafe, CertsOnce
    <3> HIDE DEF m
    <3>3. ASSUME NEW e \in Conns, NEW j \in 1..Len(wire'[e][q]),
                 wire'[e][q][j].type = "KEY_CERTIFICATE", wire'[e][q][j].from = m.from
          PROVE  e = d /\ j = i
      <4>1. j \in 1..Len(wire[e][q])
        BY <1>13, <3>2, <3>3
      <4>2. wire'[e][q][j] = wire[e][q][j]
        BY <1>12, <4>1
      <4> QED BY <3>2, <3>3, <4>1, <4>2
    <3> QED BY <1>11, <3>1, <3>2, <3>3
  <2>2. CASE i \notin 1..Len(wire[d][q])
    <3>1. /\ route[n][q] = d /\ wire'[d][q][i].from = n
          /\ i = Len(wire[d][q]) + 1 /\ q \notin certSent[n] /\ q \in certSent'[n]
      BY <1>13, <2>2
    <3>2. n \notin advertised[q]
      BY <3>1 DEF LinesSafe, CertsSent
    <3>3. ASSUME NEW e \in Conns, NEW j \in 1..Len(wire'[e][q]),
                 wire'[e][q][j].type = "KEY_CERTIFICATE", wire'[e][q][j].from = n
          PROVE  e = d /\ j = i
      <4>1. j \notin 1..Len(wire[e][q])
        <5> SUFFICES ASSUME j \in 1..Len(wire[e][q]) PROVE FALSE
          OBVIOUS
        <5>1. wire'[e][q][j] = wire[e][q][j]
          BY <1>12
        <5>2. q \in certSent[n]
          BY <3>3, <5>1 DEF LinesSafe, CertsOnce
        <5> QED BY <3>1, <5>2
      <4>2. route[n][q] = e /\ j = Len(wire[e][q]) + 1
        BY <1>13, <3>3, <4>1
      <4> QED BY <3>1, <4>2
    <3> QED BY <3>1, <3>2, <3>3
  <2> QED BY <2>1, <2>2
<1>16. NotLost'
  <2> SUFFICES ASSUME NEW m \in Online, NEW k \in 1..said[m]
               PROVE  \/ \E q \in Online : heard'[q][m] >= k
                      \/ \E d \in Used' : \E i \in 1..Len(wire'[d][Other(m, d)']) :
                            wire'[d][Other(m, d)'][i] = [type |-> "DATA", from |-> m, seq |-> k]
    BY <1>11 DEF NotLost
  <2> QED BY <1>11, <1>12, LinesStay DEF LinesSafe
<1>17. Quiet' /\ HeardSaid' /\ CertsSent'
  BY <1>11 DEF Quiet, LinesSafe, HeardSaid, CertsSent, Conns
<1> QED BY <1>14, <1>15, <1>16, <1>17 DEF LinesSafe

\* Where packets are after node n took the first one of connection c.
Shift(n, c, d, q) == IF d = c /\ q = n THEN 1 ELSE 0

LEMMA TakenFirst ==
    ASSUME NodeInv, NEW n \in Nodes, NEW c \in Used, NEW type, ReceivePacket(n, c, type),
           NEW h, h = Head(wire[c][n])
    PROVE  /\ c \in Conns /\ Used' = Used /\ h \in Packets /\ h.type = type /\ h.from \in Nodes
           /\ 1 \in 1..Len(wire[c][n]) /\ h = wire[c][n][1]
           /\ \A d \in Conns, q \in Nodes :
                 /\ Shift(n, c, d, q) \in Nat /\ Len(wire[d][q]) \in Nat /\ Len(wire'[d][q]) \in Nat
                 /\ \A i \in 1..Len(wire'[d][q]) :
                       /\ i + Shift(n, c, d, q) \in 1..Len(wire[d][q])
                       /\ wire'[d][q][i] = wire[d][q][i + Shift(n, c, d, q)]
                 /\ \A k \in 1..Len(wire[d][q]) : (k = 1 /\ d = c /\ q = n) \/
                       /\ k - Shift(n, c, d, q) \in 1..Len(wire'[d][q])
                       /\ wire'[d][q][k - Shift(n, c, d, q)] = wire[d][q][k]
<1>1. /\ c \in Conns /\ Used' = Used /\ h \in Packets /\ h.type = type /\ h.from \in Nodes /\ wire[c][n] # <<>>
  BY ReceiveChanges, ReceivedFrame
<1>2. wire' = [wire EXCEPT ![c][n] = Tail(@)] /\ wire \in [Conns -> [Nodes -> Seq(Packets)]]
  BY ChatFacts DEF ReceivePacket
<1>3. wire[c][n] \in Seq(Packets) /\ wire'[c][n] = Tail(wire[c][n])
  BY <1>1, <1>2
<1>4. 1 \in 1..Len(wire[c][n]) /\ h = wire[c][n][1]
  BY <1>1, <1>3
<1>5. ASSUME NEW d \in Conns, NEW q \in Nodes
      PROVE  /\ Shift(n, c, d, q) \in Nat /\ Len(wire[d][q]) \in Nat /\ Len(wire'[d][q]) \in Nat
             /\ \A i \in 1..Len(wire'[d][q]) :
                   /\ i + Shift(n, c, d, q) \in 1..Len(wire[d][q])
                   /\ wire'[d][q][i] = wire[d][q][i + Shift(n, c, d, q)]
             /\ \A k \in 1..Len(wire[d][q]) : (k = 1 /\ d = c /\ q = n) \/
                   /\ k - Shift(n, c, d, q) \in 1..Len(wire'[d][q])
                   /\ wire'[d][q][k - Shift(n, c, d, q)] = wire[d][q][k]
  <2>1. CASE d = c /\ q = n
    <3> DEFINE s == wire[c][n]
               t == wire'[c][n]
    <3>1. s \in Seq(Packets) /\ s # <<>> /\ t = Tail(s)
      BY <1>1, <1>3
    <3> HIDE DEF s, t
    <3>2. /\ Len(s) \in Nat /\ Len(t) \in Nat
          /\ \A i \in 1..Len(t) : i + 1 \in 1..Len(s) /\ t[i] = s[i + 1]
          /\ \A k \in 1..Len(s) : k = 1 \/ (k - 1 \in 1..Len(t) /\ t[k - 1] = s[k])
      BY <3>1
    <3>3. Shift(n, c, d, q) = 1
      BY <2>1 DEF Shift
    <3> QED BY <2>1, <3>2, <3>3 DEF s, t
  <2>2. CASE ~(d = c /\ q = n)
    <3>1. wire'[d][q] = wire[d][q] /\ Shift(n, c, d, q) = 0 /\ Len(wire[d][q]) \in Nat
      BY <1>1, <1>2, <2>2, ChatFacts DEF Shift
    <3> DEFINE s == wire[d][q]
               t == wire'[d][q]
    <3> HIDE DEF s, t
    <3>2. t = s /\ Len(s) \in Nat
      BY <3>1 DEF s, t
    <3>3. /\ \A i \in 1..Len(t) : i + 0 \in 1..Len(s) /\ t[i] = s[i + 0]
          /\ \A k \in 1..Len(s) : k - 0 \in 1..Len(t) /\ t[k - 0] = s[k]
      BY <3>2
    <3> QED BY <3>1, <3>2, <3>3 DEF s, t
  <2> QED BY <2>1, <2>2
<1> QED BY <1>1, <1>4, <1>5

\* What taking a packet does to the lines: a line that is shown comes after those
\* that were shown, and a peer is advertised when its only certificate comes.
LEMMA TakenSafe ==
    ASSUME NodeInv, Quiet, LinesSafe, NEW n \in Nodes, NEW c \in Used, NEW type, ReceivePacket(n, c, type),
           NEW h, h = Head(wire[c][n]),
           \A m, q \in Nodes : q \in advertised[m] => q \in advertised'[m] /\ route'[m][q] = route[m][q],
           \A m, q \in Nodes : q \in advertised'[m] =>
              q \in advertised[m] \/ (m = n /\ q = h.from /\ type = "KEY_CERTIFICATE"),
           \A m, q \in Nodes :
              heard'[q][m] = heard[q][m] \/ (q = n /\ m = h.from /\ type = "DATA" /\ heard'[q][m] = h.seq),
           type = "DATA" => heard'[n][h.from] = h.seq,
           \A m \in Nodes : entry'[m].timer = entry[m].timer
    PROVE  Quiet' /\ LinesSafe' /\ \A m, q \in Nodes : heard'[q][m] >= heard[q][m]
<1>1. /\ n \in running /\ certSent' = certSent /\ closed' = closed /\ ends' = ends /\ link' = link /\ said' = said
      /\ running \subseteq Online /\ Online \subseteq Nodes
  BY ReceiveChanges, NodeFacts
<1>2. /\ c \in Conns /\ Used' = Used /\ h \in Packets /\ h.type = type /\ h.from \in Nodes
      /\ 1 \in 1..Len(wire[c][n]) /\ h = wire[c][n][1]
  BY TakenFirst
<1>3. \A d \in Conns, q \in Nodes :
         /\ Shift(n, c, d, q) \in Nat /\ Len(wire[d][q]) \in Nat /\ Len(wire'[d][q]) \in Nat
         /\ \A i \in 1..Len(wire'[d][q]) :
               /\ i + Shift(n, c, d, q) \in 1..Len(wire[d][q])
               /\ wire'[d][q][i] = wire[d][q][i + Shift(n, c, d, q)]
         /\ \A k \in 1..Len(wire[d][q]) : (k = 1 /\ d = c /\ q = n) \/
               /\ k - Shift(n, c, d, q) \in 1..Len(wire'[d][q])
               /\ wire'[d][q][k - Shift(n, c, d, q)] = wire[d][q][k]
  BY TakenFirst
<1>4. \A m, q \in Nodes : heard[q][m] \in Nat /\ said[m] \in Nat
  BY ChatFacts
<1>5. type = "DATA" => /\ route[h.from][n] = c /\ heard[n][h.from] < h.seq /\ h.seq <= said[h.from]
                       /\ h.seq \in Nat /\ h = [type |-> "DATA", from |-> h.from, seq |-> h.seq]
  <2> SUFFICES ASSUME type = "DATA"
               PROVE  /\ route[h.from][n] = c /\ heard[n][h.from] < h.seq /\ h.seq <= said[h.from]
                      /\ h.seq \in Nat /\ h = [type |-> "DATA", from |-> h.from, seq |-> h.seq]
    OBVIOUS
  <2>1. h.seq \in 1..MaxData /\ h = [type |-> "DATA", from |-> h.from, seq |-> h.seq] /\ MaxData \in Nat
    BY <1>2, PacketKinds, OverlayAssumption
  <2>2. route[h.from][n] = c /\ heard[n][h.from] < h.seq /\ h.seq <= said[h.from]
    <3>1. wire[c][n][1].type = "DATA"
      BY <1>2
    <3>2. LET m == wire[c][n][1] IN
             route[m.from][n] = c /\ heard[n][m.from] < m.seq /\ m.seq <= said[m.from]
      BY <1>2, <3>1, SMTT(30) DEF LinesSafe, LinesPlaced
    <3> QED BY <1>2, <3>2
  <2> QED BY <2>1, <2>2, SMTT(30)
<1>6. type = "KEY_CERTIFICATE" =>
         /\ n \in certSent[h.from]
         /\ \A d \in Conns : \A j \in 1..Len(wire[d][n]) :
               wire[d][n][j].type = "KEY_CERTIFICATE" /\ wire[d][n][j].from = h.from => d = c /\ j = 1
  BY <1>2 DEF LinesSafe, CertsOnce
<1>7. \A m, q \in Nodes : heard'[q][m] >= heard[q][m] /\ heard'[q][m] <= said[m] /\ heard'[q][m] \in Nat
  BY <1>4, <1>5 DEF LinesSafe, HeardSaid
<1>8. LinesPlaced'
  <2> SUFFICES ASSUME NEW d \in Conns, NEW q \in Nodes, NEW i \in 1..Len(wire'[d][q]), wire'[d][q][i].type = "DATA"
               PROVE  LET m == wire'[d][q][i] IN
                      /\ q \in advertised'[m.from] /\ route'[m.from][q] = d
                      /\ heard'[q][m.from] < m.seq /\ m.seq <= said[m.from]
                      /\ \A j \in 1..Len(wire'[d][q]) :
                            j < i /\ wire'[d][q][j].type = "DATA" => wire'[d][q][j].seq < m.seq
    BY <1>1 DEF LinesPlaced, Conns
  <2> DEFINE k == i + Shift(n, c, d, q)
             m == wire[d][q][k]
  <2>1. k \in 1..Len(wire[d][q]) /\ wire'[d][q][i] = m /\ m.type = "DATA"
    BY <1>3
  <2>2. m \in Packets /\ m.from \in Nodes /\ m.seq \in 1..MaxData /\ m.seq \in Nat
    BY <2>1, WirePackets
  <2>3. /\ q \in advertised[m.from] /\ route[m.from][q] = d
        /\ heard[q][m.from] < m.seq /\ m.seq <= said[m.from]
        /\ \A j \in 1..Len(wire[d][q]) : j < k /\ wire[d][q][j].type = "DATA" => wire[d][q][j].seq < m.seq
    BY <2>1 DEF LinesSafe, LinesPlaced
  <2> HIDE DEF m
  <2>4. ASSUME NEW j \in 1..Len(wire'[d][q]), j < i, wire'[d][q][j].type = "DATA"
        PROVE  wire'[d][q][j].seq < m.seq
    <3>1. /\ j + Shift(n, c, d, q) \in 1..Len(wire[d][q])
          /\ wire'[d][q][j] = wire[d][q][j + Shift(n, c, d, q)] /\ j + Shift(n, c, d, q) < k
      BY <1>3, <2>4
    <3> HIDE DEF k
    <3> QED BY <2>3, <2>4, <3>1
  <2>5. heard'[q][m.from] < m.seq
    <3>1. CASE heard'[q][m.from] = heard[q][m.from]
      BY <2>3, <3>1
    <3>2. CASE q = n /\ m.from = h.from /\ type = "DATA" /\ heard'[q][m.from] = h.seq
      <4>1. d = c
        BY <1>5, <2>3, <3>2
      <4>2. 1 < k
        <5>1. Shift(n, c, d, q) = 1
          BY <3>2, <4>1 DEF Shift
        <5> QED BY <1>3, <5>1
      <4> HIDE DEF k
      <4>3. 1 \in 1..Len(wire[d][q]) /\ wire[d][q][1] = h /\ h.type = "DATA"
        BY <1>2, <3>2, <4>1
      <4> QED BY <2>3, <3>2, <4>2, <4>3
    <3> QED BY <2>2, <3>1, <3>2
  <2>6. q \in advertised'[m.from] /\ route'[m.from][q] = d
    BY <2>2, <2>3
  <2> QED BY <2>1, <2>3, <2>4, <2>5, <2>6
<1>9. CertsOnce'
  <2> SUFFICES ASSUME NEW d \in Conns, NEW q \in Nodes, NEW i \in 1..Len(wire'[d][q]),
                      wire'[d][q][i].type = "KEY_CERTIFICATE"
               PROVE  LET m == wire'[d][q][i] IN
                      /\ q \in certSent[m.from] /\ m.from \notin advertised'[q]
                      /\ \A e \in Conns : \A j \in 1..Len(wire'[e][q]) :
                            wire'[e][q][j].type = "KEY_CERTIFICATE" /\ wire'[e][q][j].from = m.from
                            => e = d /\ j = i
    BY <1>1 DEF CertsOnce, Conns
  <2> DEFINE k == i + Shift(n, c, d, q)
             m == wire[d][q][k]
  <2>1. k \in 1..Len(wire[d][q]) /\ wire'[d][q][i] = m /\ m.type = "KEY_CERTIFICATE"
    BY <1>3
  <2>2. m.from \in Nodes
    BY <2>1, WirePackets
  <2>3. /\ q \in certSent[m.from] /\ m.from \notin advertised[q]
        /\ \A e \in Conns : \A j \in 1..Len(wire[e][q]) :
              wire[e][q][j].type = "KEY_CERTIFICATE" /\ wire[e][q][j].from = m.from => e = d /\ j = k
    BY <2>1 DEF LinesSafe, CertsOnce
  <2>4. m.from \notin advertised'[q]
    <3> SUFFICES ASSUME m.from \in advertised'[q] PROVE FALSE
      OBVIOUS
    <3>1. q = n /\ m.from = h.from /\ type = "KEY_CERTIFICATE"
      BY <2>2, <2>3
    <3>2. d = c /\ k = 1
      BY <1>6, <2>1, <3>1
    <3>3. Shift(n, c, d, q) = 1
      BY <3>1, <3>2 DEF Shift
    <3> QED BY <1>3, <3>2, <3>3
  <2> HIDE DEF m
  <2>5. ASSUME NEW e \in Conns, NEW j \in 1..Len(wire'[e][q]),
               wire'[e][q][j].type = "KEY_CERTIFICATE", wire'[e][q][j].from = m.from
        PROVE  e = d /\ j = i
    <3>1. /\ j + Shift(n, c, e, q) \in 1..Len(wire[e][q])
          /\ wire'[e][q][j] = wire[e][q][j + Shift(n, c, e, q)]
      BY <1>3
    <3>2. e = d /\ j + Shift(n, c, e, q) = k
      BY <2>3, <2>5, <3>1
    <3>3. Shift(n, c, d, q) \in Nat
      BY <1>3
    <3> QED BY <3>2, <3>3
  <2> QED BY <2>1, <2>3, <2>4, <2>5
<1>10. CertsSent'
  BY <1>1, <1>2, <1>6 DEF LinesSafe, CertsSent
<1>11. NotLost'
  <2> SUFFICES ASSUME NEW m \in Online, NEW k \in 1..said[m], ~ \E q \in Online : heard'[q][m] >= k
               PROVE  \E d \in Used : \E i \in 1..Len(wire'[d][Other(m, d)']) :
                         wire'[d][Other(m, d)'][i] = [type |-> "DATA", from |-> m, seq |-> k]
    BY <1>1, <1>2 DEF NotLost
  <2>1. m \in Nodes /\ \A q \in Online : ~(heard[q][m] >= k)
    BY <1>1, <1>4, <1>7
  <2>2. PICK d \in Used : \E i \in 1..Len(wire[d][Other(m, d)]) :
            wire[d][Other(m, d)][i] = [type |-> "DATA", from |-> m, seq |-> k]
    BY <2>1 DEF LinesSafe, NotLost
  <2>3. PICK q \in Nodes : q = Other(m, d)
    BY <2>1, UsedFacts
  <2>4. PICK i \in 1..Len(wire[d][q]) : wire[d][q][i] = [type |-> "DATA", from |-> m, seq |-> k]
    BY <2>2, <2>3
  <2>5. d \in Conns /\ Other(m, d)' = q
    BY <1>1, <2>3, UsedFacts DEF Other
  <2>6. ~(i = 1 /\ d = c /\ q = n)
    <3> SUFFICES ASSUME i = 1, d = c, q = n PROVE FALSE
      OBVIOUS
    <3>1. h = [type |-> "DATA", from |-> m, seq |-> k]
      BY <1>2, <2>4
    <3>2. type = "DATA" /\ h.from = m /\ h.seq = k
      BY <1>2, <3>1
    <3>3. heard'[n][m] = k /\ n \in Online
      BY <1>1, <3>2
    <3> QED BY <3>3
  <2>7. /\ i - Shift(n, c, d, q) \in 1..Len(wire'[d][q])
        /\ wire'[d][q][i - Shift(n, c, d, q)] = wire[d][q][i]
    BY <1>3, <2>5, <2>6
  <2>8. \E j \in 1..Len(wire'[d][q]) : wire'[d][q][j] = [type |-> "DATA", from |-> m, seq |-> k]
    BY <2>4, <2>7
  <2> QED BY <2>5, <2>8
<1>12. Quiet' /\ HeardSaid'
  BY <1>1, <1>7 DEF Quiet, HeardSaid, Conns
<1> QED BY <1>7, <1>8, <1>9, <1>10, <1>11, <1>12 DEF LinesSafe

LEMMA RouteElsewhere ==
    ASSUME NEW S, NEW T, NEW V, NEW f \in [S -> [T -> V]], NEW a, NEW b, NEW v, NEW m \in S, NEW q \in T,
           ~(m = a /\ q = b)
    PROVE  [f EXCEPT ![a][b] = v][m][q] = f[m][q]
<1>1. CASE m = a
  BY <1>1
<1>2. CASE m # a
  BY <1>2
<1> QED BY <1>1, <1>2

LEMMA KeyCertificateSafe ==
    ASSUME NodeInv, Quiet, LinesSafe, NEW n \in Nodes, NEW c \in Used, onKeyCertificate(n, c)
    PROVE  Quiet' /\ LinesSafe' /\ \A m, q \in Nodes : heard'[q][m] >= heard[q][m]
<1>1. ReceivePacket(n, c, "KEY_CERTIFICATE") /\ heard' = heard
  BY DEF onKeyCertificate
<1>2. PICK h : h = Head(wire[c][n])
  OBVIOUS
<1>3. /\ h \in Packets /\ h.type = "KEY_CERTIFICATE" /\ h.from \in Nodes /\ c \in Conns
      /\ 1 \in 1..Len(wire[c][n]) /\ h = wire[c][n][1]
  BY <1>1, <1>2, TakenFirst
<1>4. h.from \notin advertised[n]
  BY <1>3 DEF LinesSafe, CertsOnce
<1>5. \/ evict(n, h.from) /\ route' = route /\ advertised' = advertised
      \/ entry' = entry /\ promotePending(n, h.from, c)
      \/ entry' = entry /\ route' = route /\ advertised' = advertised
  BY <1>2 DEF onKeyCertificate
<1>6. \A m \in Nodes : entry'[m].timer = entry[m].timer
  BY <1>3, <1>5, EvictFacts
<1>7. /\ route \in [Nodes -> [RouteKeys -> 0..MaxConns]] /\ advertised \in [Nodes -> SUBSET Nodes]
      /\ Nodes \subseteq RouteKeys
  BY NodeFacts DEF RouteKeys
<1>8. \/ route' = route /\ advertised' = advertised
      \/ route' = [route EXCEPT ![n][h.from] = c] /\ advertised' = [advertised EXCEPT ![n] = @ \cup {h.from}]
  BY <1>5 DEF promotePending
<1>9. \A m, q \in Nodes : q \in advertised[m] => q \in advertised'[m] /\ route'[m][q] = route[m][q]
  <2> SUFFICES ASSUME NEW m \in Nodes, NEW q \in Nodes, q \in advertised[m]
               PROVE  q \in advertised'[m] /\ route'[m][q] = route[m][q]
    OBVIOUS
  <2>1. ~(m = n /\ q = h.from)
    BY <1>4
  <2>2. q \in advertised'[m]
    BY <1>7, <1>8
  <2>3. ASSUME route' = [route EXCEPT ![n][h.from] = c] PROVE route'[m][q] = route[m][q]
    <3>1. m \in Nodes /\ q \in RouteKeys
      BY <1>7
    <3> QED BY <1>7, <2>1, <2>3, <3>1, RouteElsewhere
  <2> QED BY <1>8, <2>2, <2>3
<1>10. \A m, q \in Nodes : q \in advertised'[m] => q \in advertised[m] \/ (m = n /\ q = h.from)
  <2>1. CASE advertised' = advertised
    BY <2>1
  <2>2. CASE advertised' = [advertised EXCEPT ![n] = @ \cup {h.from}]
    BY <1>7, <2>2
  <2> QED BY <1>8, <2>1, <2>2
<1>11. /\ \A m, q \in Nodes : q \in advertised'[m] =>
              q \in advertised[m] \/ (m = n /\ q = h.from /\ "KEY_CERTIFICATE" = "KEY_CERTIFICATE")
       /\ \A m, q \in Nodes :
              heard'[q][m] = heard[q][m]
              \/ (q = n /\ m = h.from /\ "KEY_CERTIFICATE" = "DATA" /\ heard'[q][m] = h.seq)
       /\ "KEY_CERTIFICATE" = "DATA" => heard'[n][h.from] = h.seq
  BY <1>1, <1>10
<1> QED BY <1>1, <1>2, <1>6, <1>9, <1>11, TakenSafe

LEMMA AnnouncePeerSafe ==
    ASSUME NodeInv, Quiet, LinesSafe, NEW n \in Nodes, NEW c \in Used, onAnnouncePeer(n, c)
    PROVE  Quiet' /\ LinesSafe' /\ \A m, q \in Nodes : heard'[q][m] >= heard[q][m]
<1>1. /\ ReceivePacket(n, c, "ANNOUNCE_PEER") /\ heard' = heard /\ route' = route /\ advertised' = advertised
      /\ evict(n, Head(wire[c][n]).from) \/ entry' = entry
  BY DEF onAnnouncePeer
<1>2. PICK h : h = Head(wire[c][n])
  OBVIOUS
<1>3. h.from \in Nodes
  BY <1>1, <1>2, TakenFirst
<1>4. \A m \in Nodes : entry'[m].timer = entry[m].timer
  BY <1>1, <1>2, <1>3, EvictFacts
<1> QED BY <1>1, <1>2, <1>4, TakenSafe

LEMMA DataSafe ==
    ASSUME NodeInv, Quiet, LinesSafe, NEW n \in Nodes, NEW c \in Used, onData(n, c)
    PROVE  Quiet' /\ LinesSafe' /\ \A m, q \in Nodes : heard'[q][m] >= heard[q][m]
<1>1. PICK h : h = Head(wire[c][n])
  OBVIOUS
<1>2. /\ ReceivePacket(n, c, "DATA") /\ heard' = [heard EXCEPT ![n][h.from] = h.seq]
      /\ route' = route /\ advertised' = advertised /\ entry' = entry
  BY <1>1 DEF onData
<1>3. h.from \in Nodes
  BY <1>1, <1>2, TakenFirst
<1>4. heard \in [Nodes -> [Nodes -> 0..MaxData]]
  BY ChatFacts
<1>5. /\ heard'[n][h.from] = h.seq
      /\ \A m, q \in Nodes : heard'[q][m] = heard[q][m] \/ (q = n /\ m = h.from /\ heard'[q][m] = h.seq)
  BY <1>2, <1>3, <1>4
<1>6. /\ \A m, q \in Nodes : q \in advertised[m] => q \in advertised'[m] /\ route'[m][q] = route[m][q]
      /\ \A m, q \in Nodes : q \in advertised'[m] =>
            q \in advertised[m] \/ (m = n /\ q = h.from /\ "DATA" = "KEY_CERTIFICATE")
      /\ \A m, q \in Nodes :
            heard'[q][m] = heard[q][m] \/ (q = n /\ m = h.from /\ "DATA" = "DATA" /\ heard'[q][m] = h.seq)
      /\ \A m \in Nodes : entry'[m].timer = entry[m].timer
  BY <1>2, <1>5
<1>7. ReceivePacket(n, c, "DATA") /\ ("DATA" = "DATA" => heard'[n][h.from] = h.seq)
  BY <1>2, <1>5
<1> QED BY <1>1, <1>6, <1>7, TakenSafe, SMTT(30)

\* A process that starts has nobody advertised, so its first dial moves no line.
LEMMA StartSafe ==
    ASSUME NodeInv, Quiet, LinesSafe, NEW n \in Online, Start(n)
    PROVE  Quiet' /\ LinesSafe'
<1>1. /\ n \in Nodes /\ n \notin running /\ network' = network /\ wire' = wire /\ advertised' = advertised
      /\ certSent' = certSent /\ said' = said /\ heard' = heard /\ closed' = closed
  BY NodeFacts DEF Start, chat
<1>2. CASE Target(n) = None
  <2>1. route' = route /\ entry' = entry /\ ends' = ends /\ link' = link
    BY <1>2 DEF Start
  <2>2. Used \subseteq Used' /\ \A m \in Nodes, c \in Used : Other(m, c)' = Other(m, c)
    BY <2>1 DEF Used, Other
  <2>3. LinesSafe'
    BY <1>1, <2>1, <2>2, LinesRest
  <2> QED BY <1>1, <2>1, <2>3 DEF Quiet, Conns
<1>3. CASE Target(n) # None
  <2>1. tryDial(n) /\ Target(n) \in Nodes
    BY <1>1, <1>3, TargetFacts DEF Start
  <2>2. PICK c, key :
           /\ c \in Conns /\ Used' = Used \cup {c} /\ key \in RouteKeys
           /\ \A d \in Used : ends'[d] = ends[d]
           /\ link' = [link EXCEPT ![c] = "dialing"]
           /\ entry' = [entry EXCEPT ![n].conn = c, ![n].timer = FALSE]
           /\ route' = [route EXCEPT ![n][key] = c]
    BY <1>1, <2>1, DialChanges
  <2>3. /\ entry \in [Nodes -> [conn : 0..MaxConns, timer : BOOLEAN, wiped : BOOLEAN]]
        /\ route \in [Nodes -> [RouteKeys -> 0..MaxConns]] /\ Nodes \subseteq RouteKeys
        /\ link \in [Conns -> {"none", "dialing", "up", "down"}]
    BY NodeFacts DEF RouteKeys
  <2>4. advertised[n] = {}
    <3>1. \A q \in Nodes : route[n][q] = 0
      BY <1>1, <2>3 DEF NodeInv, Resting
    <3>2. \A q \in Nodes : q \notin advertised[n]
      BY <1>1, <3>1 DEF NodeInv, Believed
    <3> QED BY <1>1, <3>2, NodeFacts
  <2>5. Used \subseteq Used' /\ \A m \in Nodes, d \in Used : Other(m, d)' = Other(m, d)
    BY <2>2 DEF Other
  <2>6. \A m, q \in Nodes : q \in advertised[m] => route'[m][q] = route[m][q]
    BY <2>2, <2>3, <2>4
  <2>7. LinesSafe'
    BY <1>1, <2>5, <2>6, LinesRest
  <2>8. \A m \in Nodes : entry'[m].timer = FALSE
    BY <1>1, <2>2, <2>3 DEF Quiet
  <2>9. \A d \in Conns : link'[d] # "down"
    BY <2>2, <2>3 DEF Quiet
  <2> QED BY <1>1, <2>7, <2>8, <2>9 DEF Quiet, Conns
<1> QED BY <1>2, <1>3

LEMMA RestSafe ==
    ASSUME NodeInv, Quiet, LinesSafe, network' = network, ends' = ends, wire' = wire, advertised' = advertised,
           certSent' = certSent, said' = said, heard' = heard, closed' = closed, entry' = entry, route' = route,
           \A c \in Conns : link'[c] = "down" => link[c] = "down"
    PROVE  Quiet' /\ LinesSafe'
<1>1. Used \subseteq Used' /\ \A m \in Nodes, c \in Used : Other(m, c)' = Other(m, c)
  BY DEF Used, Other
<1>2. LinesSafe'
  BY <1>1, LinesRest
<1> QED BY <1>2 DEF Quiet, Conns

\* Without a fault so far every step keeps the lines safe, or it is a fault.
LEMMA ChatStep ==
    ASSUME NodeInv, ChatInv, [NodeNext]_nodeVars, faults' = 0
    PROVE  Quiet' /\ LinesSafe' /\ \A n, p \in Nodes : heard'[n][p] >= heard[n][p]
<1>0. Online \subseteq Nodes /\ \A m, q \in Nodes : heard[q][m] \in Nat
  BY NodeFacts, ChatFacts
<1> DEFINE Safe == Quiet' /\ LinesSafe' /\ \A n, p \in Nodes : heard'[n][p] >= heard[n][p]
<1>1. CASE UNCHANGED nodeVars
  <2>1. /\ faults' = faults /\ network' = network /\ ends' = ends /\ wire' = wire /\ advertised' = advertised
        /\ certSent' = certSent /\ said' = said /\ heard' = heard /\ closed' = closed /\ entry' = entry
        /\ route' = route /\ link' = link
    BY <1>1 DEF nodeVars, node, net, chat
  <2>2. Quiet' /\ LinesSafe'
    BY <2>1, RestSafe DEF ChatInv
  <2> QED BY <1>0, <2>1, <2>2
<1>2. ASSUME NEW n \in Online, Stop(n) PROVE FALSE
  BY <1>2, ChatFacts DEF Stop
<1>3. ASSUME NEW c \in Used, Breaks(c) PROVE FALSE
  BY <1>3, ChatFacts DEF Breaks
<1>4. CASE NodeNext /\ ~(\E n \in Online : Stop(n)) /\ ~(\E c \in Used : Breaks(c))
  <2>1. faults' = faults
    <3>1. ASSUME NEW n \in Nodes, CertificateExpires(n) PROVE faults' = faults
      BY <3>1 DEF CertificateExpires
    <3>2. ASSUME NEW n \in Online, NEW p \in Nodes, Say(n, p) PROVE faults' = faults
      BY <3>2 DEF Say
    <3>3. ASSUME NEW n \in Online, Start(n) \/ Redial(n) PROVE faults' = faults
      BY <3>3 DEF Start, Redial
    <3>4. ASSUME NEW n \in Online, tick(n) PROVE faults' = faults
      BY <3>4 DEF tick
    <3>5. ASSUME NEW c \in Used, Opens(c) PROVE faults' = faults
      BY <3>5 DEF Opens
    <3>6. ASSUME NEW n \in Online, NEW c \in Used, CloseEvent(n, c) PROVE faults' = faults
      BY <3>6 DEF CloseEvent
    <3>7. ASSUME NEW n \in Online, NEW c \in Used, onKeyCertificate(n, c) \/ onAnnouncePeer(n, c) \/ onData(n, c)
          PROVE  faults' = faults
      <4>1. PICK type : ReceivePacket(n, c, type)
        BY <3>7 DEF onKeyCertificate, onAnnouncePeer, onData
      <4> QED BY <4>1 DEF ReceivePacket
    <3> QED BY <1>4, <3>1, <3>2, <3>3, <3>4, <3>5, <3>6, <3>7 DEF NodeNext, Timer, Event
  <2>2. Quiet /\ LinesSafe
    BY <2>1 DEF ChatInv
  <2>3. ASSUME NEW n \in Nodes, CertificateExpires(n) PROVE Safe
    <3>1. /\ network' = network /\ ends' = ends /\ wire' = wire /\ advertised' = advertised
          /\ certSent' = certSent /\ said' = said /\ heard' = heard /\ closed' = closed /\ entry' = entry
          /\ route' = route /\ link' = link
      BY <2>3 DEF CertificateExpires, node, net, chat
    <3>2. Quiet' /\ LinesSafe'
      BY <2>2, <3>1, RestSafe
    <3> QED BY <1>0, <3>1, <3>2
  <2>4. ASSUME NEW n \in Online, NEW p \in Nodes, Say(n, p) PROVE Safe
    <3>1. heard' = heard
      BY <2>4 DEF Say
    <3> QED BY <1>0, <2>2, <2>4, <3>1, SaySafe
  <2>5. ASSUME NEW n \in Online, Start(n) PROVE Safe
    <3>1. heard' = heard
      BY <2>5 DEF Start, chat
    <3> QED BY <1>0, <2>2, <2>5, <3>1, StartSafe
  <2>6. ASSUME NEW n \in Online, Redial(n) PROVE FALSE
    BY <1>0, <2>2, <2>6 DEF Redial, Quiet
  <2>7. ASSUME NEW n \in Online, tick(n) PROVE Safe
    <3>1. heard' = heard
      BY <2>7 DEF tick, chat
    <3> QED BY <1>0, <2>2, <2>7, <3>1, TickSafe
  <2>8. ASSUME NEW c \in Used, Opens(c) PROVE Safe
    <3>1. /\ network' = network /\ ends' = ends /\ wire' = wire /\ advertised' = advertised
          /\ certSent' = certSent /\ said' = said /\ heard' = heard /\ closed' = closed /\ entry' = entry
          /\ route' = route /\ link' = [link EXCEPT ![c] = "up"]
      BY <2>8 DEF Opens, chat
    <3>2. \A d \in Conns : link'[d] = "down" => link[d] = "down"
      BY <3>1, NodeFacts
    <3>3. Quiet' /\ LinesSafe'
      BY <2>2, <3>1, <3>2, RestSafe
    <3> QED BY <1>0, <3>1, <3>3
  <2>9. ASSUME NEW n \in Online, NEW c \in Used, CloseEvent(n, c) PROVE FALSE
    BY <1>0, <2>2, <2>9, UsedFacts DEF CloseEvent, Quiet
  <2>10. ASSUME NEW n \in Online, NEW c \in Used, onKeyCertificate(n, c) PROVE Safe
    BY <1>0, <2>2, <2>10, KeyCertificateSafe
  <2>11. ASSUME NEW n \in Online, NEW c \in Used, onAnnouncePeer(n, c) PROVE Safe
    BY <1>0, <2>2, <2>11, AnnouncePeerSafe
  <2>12. ASSUME NEW n \in Online, NEW c \in Used, onData(n, c) PROVE Safe
    BY <1>0, <2>2, <2>12, DataSafe
  <2> HIDE DEF Safe
  <2>13. Safe
    BY <1>4, <2>3, <2>4, <2>5, <2>6, <2>7, <2>8, <2>9, <2>10, <2>11, <2>12 DEF NodeNext, Timer, Event
  <2> QED BY <2>13 DEF Safe
<1> QED BY <1>1, <1>2, <1>3, <1>4

\* Without a fault no line of a chat is lost and none overtakes another one, for
\* any number of nodes, transports and lines: both nodes may dial, and the route
\* that is replaced is one that carried no line yet.
THEOREM ChatAlwaysDelivered == NodeSpec => ChatDelivered
<1>1. NodeInv /\ ChatInv /\ [NodeNext]_nodeVars => ChatInv'
  BY ChatStep DEF ChatInv
<1>2. NodeInv /\ ChatInv /\ [NodeNext]_nodeVars
      => [\A n, p \in Nodes : faults' = 0 => heard'[n][p] >= heard[n][p]]_nodeVars
  BY ChatStep
<1>3. NodeInv /\ ChatInv => ChatNotLost
  <2> SUFFICES ASSUME NodeInv, ChatInv, faults = 0, NEW n \in Online, NEW k \in 1..said[n],
                      ~ \E p \in Online : heard[p][n] >= k
               PROVE  \E c \in Used : LET p == Other(n, c) IN
                         \E i \in DOMAIN wire[c][p] : wire[c][p][i] = [type |-> "DATA", from |-> n, seq |-> k]
    BY DEF ChatNotLost
  <2>1. PICK c \in Used : \E i \in 1..Len(wire[c][Other(n, c)]) :
            wire[c][Other(n, c)][i] = [type |-> "DATA", from |-> n, seq |-> k]
    BY DEF ChatInv, LinesSafe, NotLost
  <2>2. wire[c][Other(n, c)] \in Seq(Packets)
    BY UsedFacts, NodeFacts
  <2> QED BY <2>1, <2>2
<1> QED BY <1>1, <1>2, <1>3, NodeStarts, NodeStep, ChatStarts, PTL DEF NodeSpec, ChatDelivered, ChatInOrder
=============================================================================
