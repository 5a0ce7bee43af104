----------------------------- MODULE OverlayNode -----------------------------
(***************************************************************************)
(* The v0.1 overlay node (modules/node, modules/peer, bin/anon-node.mjs    *)
(* and bin/anon-chat.mjs): peers that dial each other, exchange            *)
(* KEY_CERTIFICATE packets, gossip with ANNOUNCE_PEER and then chat, over  *)
(* WebSocket connections that fail and processes that restart.             *)
(*                                                                         *)
(* A node keeps a peer table, the map `transports' from fingerprints to    *)
(* the transport it sends on (route), the transports whose certificate has *)
(* been verified, the peers reported to the application as connected       *)
(* (advertised), the peers its own certificate was sent to (certSent), and *)
(* a dialer entry for the seed it dials.  A transport has ONE close        *)
(* handler, and four functions install it; which of them came last is      *)
(* handler[n][c], and much of what can go wrong here comes from it.        *)
(***************************************************************************)
EXTENDS Naturals, Sequences, FiniteSets

CONSTANTS
    Nodes,      \* node identities (fingerprints)
    None,       \* not a node
    Wiped,      \* the zeroed fingerprint of an evicted table entry
    Online,     \* the nodes that run; the others are only known by name
    Networks,   \* the seed lists to consider: [seeds, target]
    MaxConns,   \* connections made in one behaviour
    MaxFaults,  \* dials that fail, connections that break, processes that stop
    MaxExpired, \* certificates that grow too old (30 days of uptime), faults before included
    MaxGossip,  \* announcements sent
    MaxData     \* chat lines of one process

ASSUME OverlayAssumption ==
    /\ IsFiniteSet(Nodes) /\ Online \subseteq Nodes
    /\ Networks \subseteq [seeds : [Nodes -> SUBSET Nodes], target : [Nodes -> Nodes \cup {None}]]
    /\ \A w \in Networks, n \in Nodes :
          n \notin w.seeds[n] /\ w.target[n] \in w.seeds[n] \cup {None}
    /\ None \notin Nodes /\ Wiped \notin Nodes \cup {None}
    /\ {MaxConns, MaxFaults, MaxExpired, MaxGossip, MaxData} \subseteq Nat

VARIABLES
    network,    \* which seed lists the nodes have, one of Networks
    running,    \* the nodes whose process runs
    table,      \* table[n][p]: p is absent, known or connected
    route,      \* route[n][key]: the transport n sends to key on, or 0
    verified,   \* verified[n]: the transports whose certificate n verified
    advertised, \* advertised[n]: the peers the application believes connected
    certSent,   \* certSent[n]: the peers n has sent its certificate to
    entry,      \* entry[n]: the dialer's entry for Target(n)
    handler,    \* handler[n][c]: n's close handler on connection c
    closed,     \* closed[n]: the transports whose `closed' flag is set at n
    ends,       \* ends[c]: the dialer and the acceptor of connection c
    link,       \* link[c]: the state of the connection itself
    wire,       \* wire[c][n]: packets under way to n (or queued for the open)
    cache,      \* cache[n]: the peers whose identity key n knows
    cert,       \* cert[n][p]: which of p's certificates is in n's table
    expired,    \* the certificates that are too old
    issued,     \* issued[n]: the certificate of n's current process
    gossiped,   \* announcements sent
    said,       \* said[n]: chat lines n's process has sent
    heard,      \* heard[n][p]: the last chat line of p shown at n
    faults

node == <<table, cache, cert, route, verified, advertised, certSent, entry, handler, closed>>
net  == <<ends, link, wire>>
time == <<expired, issued>>
chat == <<said, heard>>
nodeVars == <<network, running, node, net, time, chat, gossiped, faults>>

Conns == 1..MaxConns
RouteKeys == Nodes \cup {Wiped}
Used  == 1..Len(ends)

Seeds(n)  == network.seeds[n]     \* the peers of n's seed list
Target(n) == network.target[n]    \* the one of them that n dials, or None

Handlers == {"none", "accept", "promote", "retry"}

\* A certificate is the number of the process that issued it: a process makes
\* one, for 30 days, and never renews it.
Certs == 0..MaxFaults
Valid(p, k) == <<p, k>> \notin expired

KeyCertificates == [type : {"KEY_CERTIFICATE"}, from : Nodes, cert : Certs]
Announcements   == [type : {"ANNOUNCE_PEER"}, from : Nodes, subject : Nodes, cert : Certs]
DataPackets     == [type : {"DATA"}, from : Nodes, seq : 1..MaxData]
Packets == KeyCertificates \cup Announcements \cup DataPackets

NoEntry == [conn |-> 0, timer |-> FALSE, wiped |-> FALSE]

\* The other end of connection c.
Other(n, c) == IF ends[c][1] = n THEN ends[c][2] ELSE ends[c][1]

NodeTypeOK ==
    /\ network \in Networks
    /\ running \subseteq Online
    /\ table \in [Nodes -> [Nodes -> {"absent", "known", "connected"}]]
    /\ route \in [Nodes -> [RouteKeys -> 0..MaxConns]]
    /\ verified \in [Nodes -> SUBSET Conns]
    /\ advertised \in [Nodes -> SUBSET Nodes]
    /\ certSent \in [Nodes -> SUBSET Nodes]
    /\ entry \in [Nodes -> [conn : 0..MaxConns, timer : BOOLEAN, wiped : BOOLEAN]]
    /\ handler \in [Nodes -> [Conns -> Handlers]]
    /\ closed \in [Nodes -> SUBSET Conns]
    /\ ends \in Seq(Nodes \X Nodes) /\ Len(ends) <= MaxConns
    /\ link \in [Conns -> {"none", "dialing", "up", "down"}]
    /\ \A c \in Conns, n \in Nodes : wire[c][n] \in Seq(Packets)
    /\ cache \in [Nodes -> SUBSET Nodes]
    /\ cert \in [Nodes -> [Nodes -> Certs]]
    /\ expired \subseteq Nodes \X Certs
    /\ issued \in [Nodes -> Certs]
    /\ gossiped \in 0..MaxGossip
    /\ said \in [Nodes -> 0..MaxData]
    /\ heard \in [Nodes -> [Nodes -> 0..MaxData]]
    /\ faults \in 0..MaxFaults

\* A process that starts loads its seed list into the peer table.
SeedTable(n) == [p \in Nodes |-> IF p \in Seeds(n) THEN "known" ELSE "absent"]

NodeInit ==
    /\ network \in Networks
    /\ running = {}
    /\ table = [n \in Nodes |-> SeedTable(n)]
    /\ route = [n \in Nodes |-> [k \in RouteKeys |-> 0]]
    /\ verified = [n \in Nodes |-> {}]
    /\ advertised = [n \in Nodes |-> {}]
    /\ certSent = [n \in Nodes |-> {}]
    /\ entry = [n \in Nodes |-> NoEntry]
    /\ handler = [n \in Nodes |-> [c \in Conns |-> "none"]]
    /\ closed = [n \in Nodes |-> {}]
    /\ ends = <<>>
    /\ link = [c \in Conns |-> "none"]
    /\ wire = [c \in Conns |-> [n \in Nodes |-> <<>>]]
    /\ cache = [n \in Nodes |-> Seeds(n) \cup {n}]
    /\ cert = [n \in Nodes |-> [p \in Nodes |-> 0]]
    /\ expired = {}
    /\ issued = [n \in Nodes |-> 0]
    /\ gossiped = 0
    /\ said = [n \in Nodes |-> 0]
    /\ heard = [n \in Nodes |-> [p \in Nodes |-> 0]]
    /\ faults = 0

-----------------------------------------------------------------------------
(* Pieces of the handlers. *)

\* Mutant: a packet goes out on every transport there is to its recipient.
TransmitEverywhere(n, packets) ==
    wire' = [c \in Conns |-> [p \in Nodes |->
                IF c \in Used /\ n \in {ends[c][1], ends[c][2]} /\ p = Other(n, c)
                   /\ p \in DOMAIN packets /\ c \notin closed[n] /\ link[c] # "down"
                THEN wire[c][p] \o packets[p] ELSE wire[c][p]]]

\* transport.send for the packets of each recipient: dropped once the
\* transport is closed, lost when the connection is down, and queued until the
\* open event otherwise.
Transmit(n, packets) ==
    wire' = [c \in Conns |-> [p \in Nodes |->
                IF p \in DOMAIN packets /\ route[n][p] = c /\ c \notin closed[n] /\ link[c] # "down"
                THEN wire[c][p] \o packets[p] ELSE wire[c][p]]]

\* sendTyped: the peer must be in the table and have a transport; the result
\* says nothing of what the transport does with the packet.
CanSend(n, p) == table[n][p] # "absent" /\ route[n][p] # 0

\* markConnected and markDisconnected, for a key that may be in the table.
Marked(n, key, state) ==
    IF key \in Nodes /\ table[n][key] # "absent" THEN [table EXCEPT ![n][key] = state] ELSE table

\* attach: the transport of a dial counts as the peer's before it is open.
attach(n, key, c) ==
    /\ route' = [route EXCEPT ![n][key] = c]
    /\ table' = Marked(n, key, "connected")

\* tryDial: the transport is made and attached at once, under the fingerprint
\* the dialer's entry refers to, and the retry handler replaces attach's.
tryDial(n) ==
    LET p == Target(n)
        c == Len(ends) + 1
        key == IF entry[n].wiped THEN Wiped ELSE p
    IN  /\ c \in Conns
        /\ ends' = Append(ends, <<n, p>>)
        /\ link' = [link EXCEPT ![c] = "dialing"]
        /\ entry' = [entry EXCEPT ![n].conn = c, ![n].timer = FALSE]
        /\ attach(n, key, c)
        /\ handler' = [handler EXCEPT ![n][c] = "retry"]

-----------------------------------------------------------------------------
(* Processes. *)

\* cmdRun: listen, then dial the seed.  With a seed record that is too old the
\* process does not get so far: the table refused it and find() returns nothing.
Start(n) ==
    /\ n \in Online \ running
    /\ \A p \in Seeds(n) : Valid(p, 0)
    /\ running' = running \cup {n}
    /\ IF Target(n) = None
       THEN UNCHANGED <<table, route, entry, handler, ends, link>>
       ELSE tryDial(n)
    /\ UNCHANGED <<network, cache, cert, verified, advertised, certSent, closed, wire, time, chat, gossiped,
                   faults>>

\* The process ends, in a shutdown (dialer.stop, listener.close) or in a
\* crash: its connections go down and its memory is lost.  The next process
\* makes a new certificate and a new conversation tag.
Stop(n) ==
    LET mine == {c \in Used : n \in {ends[c][1], ends[c][2]}} IN
    /\ n \in running /\ faults < MaxFaults
    /\ faults' = faults + 1
    /\ running' = running \ {n}
    /\ table' = [table EXCEPT ![n] = SeedTable(n)]
    /\ route' = [route EXCEPT ![n] = [k \in RouteKeys |-> 0]]
    /\ verified' = [verified EXCEPT ![n] = {}]
    /\ advertised' = [advertised EXCEPT ![n] = {}]
    /\ certSent' = [certSent EXCEPT ![n] = {}]
    /\ entry' = [entry EXCEPT ![n] = NoEntry]
    /\ handler' = [handler EXCEPT ![n] = [c \in Conns |-> "none"]]
    /\ closed' = [closed EXCEPT ![n] = mine]
    /\ link' = [c \in Conns |-> IF c \in mine THEN "down" ELSE link[c]]
    /\ wire' = [c \in Conns |-> IF c \in mine THEN [p \in Nodes |-> <<>>] ELSE wire[c]]
    /\ cache' = [cache EXCEPT ![n] = Seeds(n) \cup {n}]
    /\ cert' = [cert EXCEPT ![n] = [p \in Nodes |-> 0]]
    /\ issued' = [issued EXCEPT ![n] = @ + 1]
    /\ said' = [said EXCEPT ![n] = 0]
    /\ heard' = [p \in Nodes |-> IF p = n THEN [q \in Nodes |-> 0] ELSE [heard[p] EXCEPT ![n] = 0]]
    /\ UNCHANGED <<network, ends, expired, gossiped>>

\* The certificate of n's process, and those of the processes before it, grow too old.
CertificateExpires(n) ==
    /\ Valid(n, issued[n])
    /\ faults + Cardinality(expired) < MaxExpired
    /\ expired' = expired \cup {<<n, k>> : k \in 0..issued[n]}
    /\ UNCHANGED <<network, running, node, net, issued, chat, gossiped, faults>>

\* The retry timer of the dialer fires.
Redial(n) ==
    /\ n \in running /\ entry[n].timer
    /\ tryDial(n)
    /\ UNCHANGED <<network, running, cache, cert, verified, advertised, certSent, closed, wire, time, chat,
                   gossiped, faults>>

-----------------------------------------------------------------------------
(* Connections. *)

\* The connection opens: the acceptor's listener calls acceptInbound, which
\* keeps the transport until a certificate says whose it is.
Opens(c) ==
    LET q == ends[c][2] IN
    /\ link[c] = "dialing" /\ q \in running
    /\ link' = [link EXCEPT ![c] = "up"]
    /\ handler' = [handler EXCEPT ![q][c] = "accept"]
    /\ UNCHANGED <<network, running, table, cache, cert, route, verified, advertised, certSent, entry, closed,
                   ends, wire, time, chat, gossiped, faults>>

\* A dial fails or a connection breaks; what was under way is lost.
Breaks(c) ==
    /\ link[c] \in {"dialing", "up"} /\ faults < MaxFaults
    /\ faults' = faults + 1
    /\ link' = [link EXCEPT ![c] = "down"]
    /\ wire' = [wire EXCEPT ![c] = [p \in Nodes |-> <<>>]]
    /\ UNCHANGED <<network, running, node, ends, time, chat, gossiped>>

\* Mutant: the application is not told.
detachSilently(n, key, c) ==
    /\ closed' = [closed EXCEPT ![n] = @ \cup {c} \cup ({route[n][key]} \ {0})]
    /\ route' = [route EXCEPT ![n][key] = 0]
    /\ table' = Marked(n, key, "known")
    /\ UNCHANGED advertised

\* detach(fp): closes whatever transport is in the map under that fingerprint.
detach(n, key, c) ==
    LET t == route[n][key] IN
    /\ closed' = [closed EXCEPT ![n] = @ \cup {c} \cup ({t} \ {0})]
    /\ route' = [route EXCEPT ![n][key] = 0]
    /\ table' = Marked(n, key, "known")
    /\ advertised' = [advertised EXCEPT ![n] = @ \ {key}]

\* The dialer's onClose: detach, and dial again after the backoff.
dialerOnClose(n, c) ==
    /\ detach(n, IF entry[n].wiped THEN Wiped ELSE Target(n), c)
    /\ entry' = [entry EXCEPT ![n].conn = 0, ![n].timer = TRUE]

\* The close event of n's end: the peer closed and everything it sent has been
\* delivered, or the connection is down.  A transport that n closed itself
\* runs no handler.
CloseEvent(n, c) ==
    LET p == Other(n, c) IN
    /\ n \in running /\ handler[n][c] # "none" /\ c \notin closed[n]
    /\ \/ link[c] = "down"
       \/ c \in closed[p] /\ wire[c][n] = <<>>
    /\ \/ handler[n][c] = "retry" /\ dialerOnClose(n, c)
       \/ /\ handler[n][c] = "promote" /\ route[n][p] = c
          /\ closed' = [closed EXCEPT ![n] = @ \cup {c}]
          /\ route' = [route EXCEPT ![n][p] = 0]
          /\ table' = Marked(n, p, "known")
          /\ advertised' = [advertised EXCEPT ![n] = @ \ {p}]
          /\ UNCHANGED entry
       \/ /\ \/ handler[n][c] = "accept"
             \/ handler[n][c] = "promote" /\ route[n][p] # c
          /\ closed' = [closed EXCEPT ![n] = @ \cup {c}]
          /\ UNCHANGED <<route, table, advertised, entry>>
    /\ UNCHANGED <<network, running, cache, cert, verified, certSent, handler, net, time, chat, gossiped,
                   faults>>

-----------------------------------------------------------------------------
(* Packets. *)

\* pickAnnouncementSubject: a peer that is not connected; which of them is the
\* subject of module GossipRotation.
Subjects(n, r) == {s \in Nodes \ {r} : table[n][s] = "known"}

\* tick: the certificate goes to every connected peer it was not sent to and
\* is marked as sent whatever became of the packet; then each recipient whose
\* last announcement is 30 seconds old (`due') hears of one peer.
tick(n) ==
    LET connected == {p \in Nodes : table[n][p] = "connected" /\ CanSend(n, p)}
        fresh == connected \ certSent[n]
        certs(p) == IF p \in fresh
                    THEN <<[type |-> "KEY_CERTIFICATE", from |-> n, cert |-> issued[n]]>> ELSE <<>>
    IN  \E due \in SUBSET {p \in connected : Subjects(n, p) # {}} :
        \E subject \in [due -> {s \in Nodes : table[n][s] = "known"}] :
            /\ n \in running /\ fresh \cup due # {}
            /\ \A p \in due : subject[p] \in Subjects(n, p)
            /\ gossiped + Cardinality(due) <= MaxGossip
            /\ Transmit(n, [p \in fresh \cup due |-> certs(p) \o
                   IF p \in due
                   THEN <<[type |-> "ANNOUNCE_PEER", from |-> n, subject |-> subject[p],
                           cert |-> cert[n][subject[p]]]>>
                   ELSE <<>>])
            /\ certSent' = [certSent EXCEPT ![n] = @ \cup fresh]
            /\ gossiped' = gossiped + Cardinality(due)
            /\ UNCHANGED <<network, running, table, cache, cert, route, verified, advertised, entry, handler,
                           closed, ends, link, time, chat, faults>>

\* A chat line: the program wants its peer advertised, the node wants some
\* connected peer, and the line counts as sent when sendTyped says so.
Say(n, p) ==
    /\ n \in running /\ p \in advertised[n] /\ said[n] < MaxData
    /\ \E q \in Nodes : table[n][q] = "connected"
    /\ CanSend(n, p)
    /\ said' = [said EXCEPT ![n] = @ + 1]
    /\ Transmit(n, [q \in {p} |-> <<[type |-> "DATA", from |-> n, seq |-> said[n] + 1]>>])
    /\ UNCHANGED <<network, running, node, ends, link, time, heard, gossiped, faults>>

\* markInnerValidationFailed: the entry goes and its byte arrays are zeroed,
\* the fingerprint that the dialer's entry shares with it included.
evict(n, p) ==
    /\ table' = [table EXCEPT ![n][p] = "absent"]
    /\ entry' = IF p = Target(n) /\ table[n][p] # "absent"
                THEN [entry EXCEPT ![n].wiped = TRUE] ELSE entry

\* addOrUpdate: a peer that is in the table keeps its liveness.
addOrUpdate(n, p, k) ==
    /\ table' = IF table[n][p] = "absent" THEN [table EXCEPT ![n][p] = "known"] ELSE table
    /\ cert' = [cert EXCEPT ![n][p] = k]

\* Mutant: only a transport that was accepted is promoted.
promotePendingInbound(n, p, c) ==
    /\ c \notin verified[n] /\ ends[c][2] = n
    /\ verified' = [verified EXCEPT ![n] = @ \cup {c}]
    /\ route' = [route EXCEPT ![n][p] = c]
    /\ handler' = [handler EXCEPT ![n][c] = "promote"]
    /\ table' = [table EXCEPT ![n][p] = "connected"]
    /\ advertised' = [advertised EXCEPT ![n] = @ \cup {p}]

\* promotePending: once per transport; the newly verified transport becomes the
\* route, and if it was not the route already its close handler is replaced.
promotePending(n, p, c) ==
    /\ c \notin verified[n]
    /\ verified' = [verified EXCEPT ![n] = @ \cup {c}]
    /\ route' = [route EXCEPT ![n][p] = c]
    /\ handler' = IF route[n][p] = c THEN handler ELSE [handler EXCEPT ![n][c] = "promote"]
    /\ table' = [table EXCEPT ![n][p] = "connected"]
    /\ advertised' = [advertised EXCEPT ![n] = @ \cup {p}]

\* decodePacket took the next packet of connection c (n need not have its own
\* end open: the message handler does not look at the `closed' flag).
ReceivePacket(n, c, type) ==
    /\ link[c] = "up" /\ n \in running /\ wire[c][n] # <<>>
    /\ Head(wire[c][n]).type = type
    /\ wire' = [wire EXCEPT ![c][n] = Tail(@)]
    /\ UNCHANGED <<network, running, certSent, closed, ends, link, time, said, gossiped, faults>>

\* onInbound, TYPE_KEY_CERTIFICATE.
onKeyCertificate(n, c) ==
    /\ ReceivePacket(n, c, "KEY_CERTIFICATE")
    /\ LET m == Head(wire[c][n])
           p == m.from
       IN  \/ /\ ~Valid(p, m.cert)
              /\ evict(n, p)
              /\ UNCHANGED <<cache, cert, route, verified, advertised, handler>>
           \/ /\ Valid(p, m.cert)
              /\ cache' = [cache EXCEPT ![n] = @ \cup {p}]
              /\ cert' = [cert EXCEPT ![n][p] = m.cert]
              /\ UNCHANGED entry
              /\ \/ promotePending(n, p, c)
                 \/ /\ c \in verified[n]
                    /\ addOrUpdate(n, p, m.cert)
                    /\ UNCHANGED <<route, verified, advertised, handler>>
    /\ UNCHANGED heard

\* onInbound, TYPE_ANNOUNCE_PEER: nothing can be said of a peer whose key is
\* not in the cache; a certificate that fails costs the ANNOUNCER its entry.
onAnnouncePeer(n, c) ==
    /\ ReceivePacket(n, c, "ANNOUNCE_PEER")
    /\ LET m == Head(wire[c][n]) IN
       \/ /\ m.subject \notin cache[n]
          /\ UNCHANGED <<table, cert, entry>>
       \/ /\ m.subject \in cache[n] /\ ~Valid(m.subject, m.cert)
          /\ evict(n, m.from)
          /\ UNCHANGED cert
       \/ /\ m.subject \in cache[n] /\ Valid(m.subject, m.cert)
          /\ addOrUpdate(n, m.subject, m.cert)
          /\ UNCHANGED entry
    /\ UNCHANGED <<cache, route, verified, advertised, handler, heard>>

\* onInbound, TYPE_DATA, with the handler of anon-chat: the line is shown.
onData(n, c) ==
    /\ ReceivePacket(n, c, "DATA")
    /\ LET m == Head(wire[c][n]) IN heard' = [heard EXCEPT ![n][m.from] = m.seq]
    /\ UNCHANGED <<table, cache, cert, route, verified, advertised, entry, handler>>

-----------------------------------------------------------------------------
\* Processes started, and the retry timer and the tick interval of each.
Timer == \E n \in Online : Start(n) \/ Redial(n) \/ tick(n)

\* What the event loops do of themselves once something has come.
Event ==
    \/ \E c \in Used : Opens(c)
    \/ \E n \in Online, c \in Used :
          CloseEvent(n, c) \/ onKeyCertificate(n, c) \/ onAnnouncePeer(n, c) \/ onData(n, c)

NodeNext ==
    \/ \E n \in Nodes : CertificateExpires(n)
    \/ \E n \in Online, p \in Nodes : Say(n, p)
    \/ \E n \in Online : Stop(n)
    \/ \E c \in Used : Breaks(c)
    \/ Timer
    \/ Event

\* Processes are started and timers fire, and as long as there is an open, a
\* packet or a close to handle one of them is: no more is asked of one node or
\* of one connection, since a behaviour has finitely many of them.
NodeFairness == WF_nodeVars(Timer) /\ WF_nodeVars(Event)

NodeSpec == NodeInit /\ [][NodeNext]_nodeVars /\ NodeFairness
-----------------------------------------------------------------------------
(* Properties. *)

\* The dialer of n lost the fingerprint it dials under: an eviction zeroed it.
FingerprintLost(n, p) == p = Target(n) /\ entry[n].wiped

\* A node never goes on sending into a transport that has closed: whichever of
\* the close handlers was installed last, it removes its own transport from
\* `transports' (attach, promotePending and the dialer's onClose, and detach),
\* as long as the fingerprint it does so under has not been zeroed.
RouteLive ==
    \A n \in running, p \in Nodes :
        ~FingerprintLost(n, p) => route[n][p] \notin closed[n]

\* What the application and the table believe has something to stand on: a
\* peer reported by onPeerConnected, and not since by onPeerDisconnected, has
\* a transport, and so has a peer marked connected, through every order of
\* attach, detach, promotePending and eviction.
BelievedHasRoute ==
    \A n \in running, p \in Nodes :
        p \in advertised[n] \/ table[n][p] = "connected" => route[n][p] # 0

\* The dialer never forgets its seed: it has a timer running or a transport
\* whose end it will hear of, unless promotePending took the close handler of
\* that transport (dialer.mjs tryDial and its onClose).
DialerWatches ==
    \A n \in running : Target(n) # None =>
        \/ entry[n].timer
        \/ /\ entry[n].conn # 0
           /\ handler[n][entry[n].conn] = "retry" => entry[n].conn \notin closed[n]

\* Lines of one conversation are shown in the order they were typed although
\* two nodes that dial each other have two transports: no line overtakes one
\* that went over the other transport, unless a dial failed and the next one
\* displaced a transport in use (anon-chat does not look at sequenceNumber).
ChatInOrder == [][\A n, p \in Nodes : faults' = 0 => heard'[n][p] >= heard[n][p]]_nodeVars

NoFaults == faults = 0 /\ expired = {}

\* Two nodes of which one dials the other, or both do, come to know each other
\* for good if no dial fails, nothing breaks and no certificate is too old.
HandshakeCompletes ==
    []NoFaults => \A n \in Online : Target(n) # None =>
        <>[](Target(n) \in advertised[n] /\ n \in advertised[Target(n)])

\* `send' tells the program that a line was sent when there was a transport to
\* give it to; if no dial failed, nothing broke and no process stopped, the
\* line has been shown or is on its way over a connection that is not down.
ChatNotLost ==
    faults = 0 => \A n \in Online : \A k \in 1..said[n] :
        \/ \E p \in Online : heard[p][n] >= k
        \/ \E c \in Used : LET p == Other(n, c) IN
              \E i \in DOMAIN wire[c][p] :
                  wire[c][p][i] = [type |-> "DATA", from |-> n, seq |-> k]

\* A certificate that is marked as sent to a node that has been running ever
\* since has arrived or is on its way: modules/peer/gossip.mjs says the mark
\* comes "after the send completes (not before, so we retry on transient
\* transport failure)".
CertificateArrives ==
    \A n, p \in running : p \in certSent[n] =>
        \/ n \in cache[p]
        \/ \E c \in Used : \E i \in DOMAIN wire[c][p] : wire[c][p][i].type = "KEY_CERTIFICATE"

\* The map of transports, the table, the application and the dialer agree about
\* who is connected, although a transport has one close handler, which four
\* functions replace.
RoutesSound == NodeTypeOK /\ RouteLive /\ BelievedHasRoute /\ DialerWatches

\* Without a fault no line of a chat is lost, and none overtakes another one (send
\* of node.mjs, over whichever transport).
ChatDelivered == []ChatNotLost /\ ChatInOrder
=============================================================================
