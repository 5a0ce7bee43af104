---------------------------- MODULE ForwardRelay ----------------------------
(***************************************************************************)
(* FORWARD packets of the v0.1 overlay: a node wraps a packet for another  *)
(* node in a packet for a forwarder, which unwraps it and passes it on     *)
(* over a transport it has (modules/wire/forward.mjs, node.forward and     *)
(* forwardSend of modules/node/node.mjs, the FORWARD case of               *)
(* modules/node/dispatcher.mjs).  Packets come in three sizes, and a       *)
(* packet inside a packet needs a larger one.                              *)
(*                                                                         *)
(* Encryption is modelled by who can open a packet: the node in `to'.      *)
(***************************************************************************)
EXTENDS Naturals, Sequences, FiniteSets

CONSTANTS
    Forwarding,  \* the nodes
    Linked,      \* the pairs of nodes with a live transport
    AppSizes,    \* bytes of application data
    Addresses,   \* numbers of IPv4 transports in a FORWARD payload
    MaxMessages, \* messages
    MaxHandOuts  \* times that one message is handed out, by whatever routes

ASSUME ForwardAssumption ==
    /\ Linked \subseteq Forwarding \X Forwarding
    /\ AppSizes \cup Addresses \cup {MaxMessages, MaxHandOuts} \subseteq Nat

VARIABLES
    messages,    \* the packets that applications made
    handed,      \* handed[i]: how often message i was handed out
    flying,      \* packets on transports: [at, packet]
    log,         \* log[n]: the ids in the replay log of n
    shown,       \* shown[n]: what onData of n was called with, in order
    evicted      \* evicted[n]: the peers n marked for a failed validation

forwardVars == <<messages, handed, flying, log, shown, evicted>>

-----------------------------------------------------------------------------
(* Sizes                                                                   *)

Header == 54     \* LEN_OUTER_HEADER
Tag == 16        \* LEN_AEAD_TAG
Prefix == 35     \* LEN_INNER_PREFIX
NoBucket == 0

bucketSizes == {256, 1024, 4096}
bucketForSize(size) ==
    IF \A b \in bucketSizes : size > b THEN NoBucket
    ELSE CHOOSE b \in bucketSizes : size <= b /\ \A c \in bucketSizes : size <= c => b <= c

innerLengthForBucket(bucket) == bucket - (Header + Tag)
maxPayloadForBucket(bucket) == innerLengthForBucket(bucket) - Prefix

\* buildDataPayload, and serializeTransports for IPv4 addresses.
dataLength(app) == 24 + app
transportsLength(addresses) == 1 + 8 * addresses
FORWARD_MIN_LENGTH == 32 + 1 + 256

-----------------------------------------------------------------------------
(* Packets                                                                 *)

NoPacket == [none |-> TRUE]

\* buildOuterHeader: what everybody reads; `id' is the ephemeral key with the nonce.
buildOuterHeader(bucket, to, id) == [bucket |-> bucket, to |-> to, id |-> id]

\* buildInnerPlaintext, for a payload that fits.
buildInnerPlaintext(type, from, length, body) ==
    [type |-> type, from |-> from, realLength |-> length, body |-> body]

\* encodePacket: none when the payload exceeds the largest bucket.
encodePacket(to, from, type, id, body, length) ==
    LET bucket == bucketForSize(Header + Prefix + length + Tag) IN
    IF bucket = NoBucket THEN NoPacket
    ELSE [outer |-> buildOuterHeader(bucket, to, id), inner |-> buildInnerPlaintext(type, from, length, body)]

\* buildForwardPayload and node.forward: `packet' for `next' in a packet for
\* `forwarder'.
wrap(forwarder, from, id, next, addresses, packet) ==
    IF packet = NoPacket THEN NoPacket
    ELSE encodePacket(forwarder, from, "FORWARD", id,
                      [next |-> next, addresses |-> addresses, packet |-> packet],
                      32 + transportsLength(addresses) + packet.outer.bucket)

\* parseForwardPayload accepts the payload of a packet: what is left after the
\* transports is one bucket, with the prefix of the next hop.
parseForwardPayload(packet) ==
    LET innerLength == packet.inner.realLength - 32 - transportsLength(packet.inner.body.addresses) IN
    /\ packet.inner.realLength >= FORWARD_MIN_LENGTH
    /\ bucketForSize(innerLength) = innerLength
    /\ packet.inner.body.packet.outer.to = packet.inner.body.next

\* aeadDecrypt, with the key of sharedSecret and deriveAeadKey: only the node a
\* packet was made for gets anything out of it.
AeadOpens(n, packet) == packet.outer.to = n

\* parseInnerPlaintext.
innerValid(packet) == packet.inner.realLength <= maxPayloadForBucket(packet.outer.bucket)

-----------------------------------------------------------------------------
ForwardInit ==
    /\ messages = <<>> /\ handed = <<>>
    /\ flying = {} /\ log = [n \in Forwarding |-> {}]
    /\ shown = [n \in Forwarding |-> <<>>] /\ evicted = [n \in Forwarding |-> {}]

\* An application encodes a DATA packet for a node.
Compose(from, to, app) ==
    /\ Len(messages) < MaxMessages
    /\ LET packet == encodePacket(to, from, "DATA", <<Len(messages) + 1, 0, 0>>, app, dataLength(app)) IN
       /\ packet # NoPacket
       /\ messages' = Append(messages, packet) /\ handed' = Append(handed, 0)
    /\ UNCHANGED <<flying, log, shown, evicted>>

\* It is handed out: by itself, through one forwarder, or through two.
HandOut(i, route, addresses) ==
    LET m == messages[i]
        k == Len(route)
        last == IF k = 0 THEN m ELSE wrap(route[k], m.inner.from, <<i, handed[i] + 1, 1>>, m.outer.to, addresses, m)
        whole == IF k < 2 THEN last
                 ELSE wrap(route[1], m.inner.from, <<i, handed[i] + 1, 2>>, route[2], addresses, last)
    IN  /\ handed[i] < MaxHandOuts
        /\ whole # NoPacket /\ <<m.inner.from, whole.outer.to>> \in Linked
        /\ handed' = [handed EXCEPT ![i] = @ + 1]
        /\ flying' = flying \cup {[at |-> whole.outer.to, packet |-> whole]}
        /\ UNCHANGED <<messages, log, shown, evicted>>

Taken(f) == flying' = flying \ {f}

\* Mutant: whatever opens is handled.
replayedNever(n, packet) == FALSE

\* The replay log has the packet already.
replayed(n, packet) == packet.outer.id \in log[n]

\* onInbound, a packet that decodePacket lets through.
Accepted(n, f) ==
    /\ f.at = n /\ AeadOpens(n, f.packet)
    /\ innerValid(f.packet) /\ ~replayed(n, f.packet)
    /\ log' = [log EXCEPT ![n] = @ \cup {f.packet.outer.id}]
    /\ UNCHANGED <<messages, handed>>

onInboundData(n, f) ==
    /\ Accepted(n, f) /\ f.packet.inner.type = "DATA"
    /\ shown' = [shown EXCEPT ![n] = Append(@, f.packet)]
    /\ Taken(f) /\ UNCHANGED evicted

\* Within the limits, over a transport that is there, the inner packet goes on
\* as it is; otherwise it is dropped.
onForward(n, f) ==
    LET next == [at |-> f.packet.inner.body.next, packet |-> f.packet.inner.body.packet] IN
    /\ Accepted(n, f) /\ f.packet.inner.type = "FORWARD" /\ parseForwardPayload(f.packet)
    /\ \/ /\ <<n, next.at>> \in Linked
          /\ flying' = (flying \ {f}) \cup {next}
       \/ Taken(f)
    /\ UNCHANGED <<shown, evicted>>

\* A packet for another node is dropped; one that fails after it was opened
\* costs the sender it names its place in the table.
Refused(n, f) ==
    /\ f.at = n
    /\ \/ ~AeadOpens(n, f.packet) /\ UNCHANGED <<log, evicted>>
       \/ /\ AeadOpens(n, f.packet) /\ (~innerValid(f.packet) \/ replayed(n, f.packet))
          /\ evicted' = [evicted EXCEPT ![n] = @ \cup {f.packet.inner.from}]
          /\ UNCHANGED log
       \/ /\ AeadOpens(n, f.packet) /\ innerValid(f.packet) /\ ~replayed(n, f.packet)
          /\ f.packet.inner.type = "FORWARD" /\ ~parseForwardPayload(f.packet)
          /\ evicted' = [evicted EXCEPT ![n] = @ \cup {f.packet.inner.from}]
          /\ log' = [log EXCEPT ![n] = @ \cup {f.packet.outer.id}]
    /\ Taken(f) /\ UNCHANGED <<messages, handed, shown>>

RouteLists == {<<>>} \cup {<<a>> : a \in Forwarding} \cup {<<a, b>> : a, b \in Forwarding}

ForwardNext ==
    \/ \E from, to \in Forwarding, app \in AppSizes : from # to /\ Compose(from, to, app)
    \/ \E i \in DOMAIN messages, route \in RouteLists, addresses \in Addresses : HandOut(i, route, addresses)
    \/ \E n \in Forwarding, f \in flying : onInboundData(n, f) \/ onForward(n, f) \/ Refused(n, f)

ForwardSpec == ForwardInit /\ [][ForwardNext]_forwardVars

-----------------------------------------------------------------------------
(* Properties                                                              *)

\* By whatever routes a message is handed out, and however often, the
\* application it is for is called once at most, with what was written and the
\* name of who wrote it, and no forwarder is called (the replay log in
\* decodePacket, and forwardSend passing the inner packet on as it is).
ShownOnce ==
    \A n \in Forwarding :
        /\ \A i \in DOMAIN shown[n] : \E m \in DOMAIN messages :
              shown[n][i] = messages[m] /\ messages[m].outer.to = n
        /\ \A i, j \in DOMAIN shown[n] : shown[n][i] = shown[n][j] => i = j

\* As long as nobody hands a message out twice, nobody is evicted: what one
\* node builds, of any size and through any forwarders, is valid for the next
\* (the lengths of encodePacket against those of parseInnerPlaintext and
\* parseForwardPayload).  A message that is handed out again by another route
\* does cost its sender the place in the table of the receiver.
HonestKept == (\A i \in DOMAIN handed : handed[i] <= 1) => \A n \in Forwarding : evicted[n] = {}

\* A forwarded message is shown once, as it was written, and costs nobody who is
\* honest his place (forwardSend, decodePacket).
ForwardSound == ShownOnce /\ HonestKept
=============================================================================
