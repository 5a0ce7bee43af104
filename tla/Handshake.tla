------------------------------ MODULE Handshake ------------------------------
(***************************************************************************)
(* The hybrid handshake (modules/v2/ntor_hybrid.mjs) over fragments        *)
(* (modules/v2/fragment.mjs): initiators send a message of several         *)
(* fragments, a responder reassembles each and answers.  Either they are   *)
(* clients of one service, whose sealed INTRODUCE messages                 *)
(* (modules/v2/sealed_box.mjs) share the introduction circuit and its      *)
(* reassembler (`shared'), or clients of one relay, each with a circuit.   *)
(*                                                                         *)
(* The reassembler is taken by its own contract: fragments come in any     *)
(* order, interleaved, some never and some twice.  A message is a sequence *)
(* of Pieces pieces (key material, or bytes of a sealed box); the answer   *)
(* comes back whole.                                                       *)
(***************************************************************************)
EXTENDS Naturals, Sequences, FiniteSets, SequencesExt

CONSTANTS
    Initiators,    \* the clients
    Ids,           \* values of the random u32 handshakeId
    CellCapacity,  \* pieces in a fragment of a CREATE cell
    RelayCapacity, \* pieces in a fragment of a RELAY cell
    Pieces,        \* pieces of a message
    MaxConcurrent, \* maxConcurrent of createReassembler
    MaxCopies      \* bound: fragments that arrive twice

ASSUME HandshakeAssumption ==
    /\ {CellCapacity, RelayCapacity, Pieces, MaxConcurrent} \subseteq Nat \ {0}
    /\ Ids \subseteq Nat \ {0} /\ MaxCopies \in Nat

VARIABLES
    shared,   \* one introduction circuit, or a circuit each
    outdated,    \* initiators whose key for the responder is not its key
    chosen,   \* chosen[c]: the handshakeId of c, or 0
    cells,    \* fragments under way: [circuit, owner, fragment]
    copies,   \* fragments that arrived twice
    inFlight, \* inFlight[k]: the reassembler of circuit k, oldest entry first
    peak,     \* the most handshakes that were half delivered on a circuit
    sessions, \* what the responder derived, in order
    answers,  \* answers under way: [to, created]
    seeds     \* seeds[c]: what clientFinish returned

handshakeVars == <<shared, outdated, chosen, cells, copies, inFlight, peak, sessions, answers, seeds>>

CircuitOf(c) == IF shared THEN "service" ELSE c
HandshakeCircuits == Initiators \cup {"service"}
Capacity == IF shared THEN RelayCapacity ELSE CellCapacity

\* A KEY_SEED: the secret input it is derived from.  None yet, and null.
Secret(message, y, key) == [message |-> message, y |-> y, key |-> key]
NoSeed == Secret(<<>>, 0, "none")
Refused == Secret(<<>>, 0, "refused")

\* clientInit: X and K_pk, or the box that holds them; the pieces of c.
createMsg(c) == [i \in 1..Pieces |-> <<c, i>>]
KeyFor(c) == IF c \in outdated THEN "old" ELSE "current"

HandshakeInit ==
    /\ shared \in BOOLEAN /\ outdated \in SUBSET Initiators
    /\ chosen = [c \in Initiators |-> 0]
    /\ cells = {} /\ copies = 0
    /\ inFlight = [k \in HandshakeCircuits |-> <<>>] /\ peak = 0
    /\ sessions = <<>> /\ answers = {}
    /\ seeds = [c \in Initiators |-> NoSeed]

-----------------------------------------------------------------------------
(* Fragments                                                               *)

\* fragmentMessage.
fragmentMessage(message, id, capacity) ==
    LET count == (Len(message) + capacity - 1) \div capacity
        data(i) == SubSeq(message, (i - 1) * capacity + 1,
                          IF i = count THEN Len(message) ELSE i * capacity)
    IN  {[id |-> id, index |-> i, count |-> count, size |-> capacity, data |-> data(i)] : i \in 1..count}

\* parseFragmentHeader: all but the last fragment are full.
wellFormed(f) ==
    /\ f.index \in 1..f.count /\ Len(f.data) <= f.size
    /\ f.index < f.count => Len(f.data) = f.size

Fresh(f) == [id |-> f.id, count |-> f.count, size |-> f.size, parts |-> <<>>]

\* An unknown handshake gets an entry, in place of the oldest one when there
\* are maxConcurrent.
makeRoom(entries, f) ==
    IF \E i \in DOMAIN entries : entries[i].id = f.id THEN entries
    ELSE Append(IF Len(entries) >= MaxConcurrent THEN Tail(entries) ELSE entries, Fresh(f))

\* ingest returns null: an entry of another shape, or a fragment it has.
mismatch(e, f) == e.count # f.count \/ e.size # f.size \/ f.index \in DOMAIN e.parts

\* ingest stores the fragment.
withPart(e, f) ==
    [e EXCEPT !.parts = [i \in DOMAIN e.parts \cup {f.index} |-> IF i = f.index THEN f.data ELSE e.parts[i]]]

Assembled(e) == FlattenSeq([i \in 1..e.count |-> e.parts[i]])

-----------------------------------------------------------------------------
(* The responder                                                           *)

\* unseal and parseIntroduceInner: the tag covers the whole box, and only the
\* key it was sealed to opens it.
unseals(message) == \E c \in Initiators : message = createMsg(c) /\ KeyFor(c) = "current"

\* relayResponse, with an ephemeral key y of its own, sent to whom the message, or the circuit, says: a box that
\* cannot be opened and a message of another length get no answer.
relayResponse(message, to) ==
    IF Len(message) # Pieces \/ (shared /\ ~unseals(message)) THEN UNCHANGED <<sessions, answers>>
    ELSE LET secret == Secret(message, Len(sessions) + 1, "current") IN
         /\ sessions' = Append(sessions, secret)
         /\ answers' = answers \cup {[to |-> IF shared THEN message[1][1] ELSE to,
                                      y |-> secret.y, auth |-> secret]}

\* The fragments of c that have not arrived, and how many there are in all.
Missing(c) == {cell \in cells : cell.owner = c}
Count == (Pieces + Capacity - 1) \div Capacity

\* The handshakes on circuit k that have arrived in part, and the one of c.
HalfDelivered(k, c) ==
    {c} \cup {d \in Initiators : /\ chosen[d] # 0 /\ CircuitOf(d) = k
                                /\ Missing(d) # {} /\ Cardinality(Missing(d)) < Count}

\* A fragment arrives: ingest.  When it returns null the callers drop the
\* whole reassembler (the circuit with it, or the entry of their map).
ingestFragment(cell, again) ==
    LET k == cell.circuit
        f == cell.fragment
        entries == makeRoom(inFlight[k], f)
        i == CHOOSE j \in DOMAIN entries : entries[j].id = f.id
        e == withPart(entries[i], f)
        n == Cardinality(HalfDelivered(k, cell.owner))
    IN  /\ again => copies < MaxCopies
        /\ copies' = IF again THEN copies + 1 ELSE copies
        /\ cells' = IF again THEN cells ELSE cells \ {cell}
        /\ peak' = IF n > peak THEN n ELSE peak
        /\ \/ /\ ~wellFormed(f) \/ mismatch(entries[i], f)
              /\ inFlight' = [inFlight EXCEPT ![k] = <<>>]
              /\ UNCHANGED <<sessions, answers>>
           \/ /\ wellFormed(f) /\ ~mismatch(entries[i], f)
              /\ IF DOMAIN e.parts = 1..e.count
                 THEN /\ inFlight' = [inFlight EXCEPT ![k] = RemoveAt(entries, i)]
                      /\ relayResponse(Assembled(e), cell.owner)
                 ELSE /\ inFlight' = [inFlight EXCEPT ![k] = [entries EXCEPT ![i] = e]]
                      /\ UNCHANGED <<sessions, answers>>
        /\ UNCHANGED <<shared, outdated, chosen, seeds>>

-----------------------------------------------------------------------------
(* The initiators                                                          *)

\* seal or clientInit, then fragmentMessage with a random id.
beginHandshake(c, id) ==
    /\ chosen[c] = 0
    /\ chosen' = [chosen EXCEPT ![c] = id]
    /\ cells' = cells \cup {[circuit |-> CircuitOf(c), owner |-> c, fragment |-> f] :
                              f \in fragmentMessage(createMsg(c), id, Capacity)}
    /\ UNCHANGED <<shared, outdated, copies, inFlight, peak, sessions, answers, seeds>>

\* Mutant: the tag of the responder is not compared.
clientFinishUnchecked(c, answer) ==
    /\ seeds[c] = NoSeed
    /\ seeds' = [seeds EXCEPT ![c] = Secret(createMsg(c), answer.y, KeyFor(c))]

\* clientFinish: the secret of what c itself sent, the answer and the key that
\* c takes for the responder's; AUTH must be the tag under it.
clientFinish(c, answer) ==
    LET secret == Secret(createMsg(c), answer.y, KeyFor(c)) IN
    /\ seeds[c] = NoSeed
    /\ seeds' = [seeds EXCEPT ![c] = IF answer.auth = secret THEN secret ELSE Refused]

answerArrives(answer) ==
    /\ answers' = answers \ {answer}
    /\ clientFinish(answer.to, answer)
    /\ UNCHANGED <<shared, outdated, chosen, cells, copies, inFlight, peak, sessions>>

HandshakeNext ==
    \/ \E c \in Initiators, id \in Ids : beginHandshake(c, id)
    \/ \E cell \in cells, again \in BOOLEAN : ingestFragment(cell, again)
    \/ \E answer \in answers : answerArrives(answer)

HandshakeSpec == HandshakeInit /\ [][HandshakeNext]_handshakeVars

-----------------------------------------------------------------------------
(* Properties                                                              *)

\* Who ends with a key shares it with the responder, and with nobody else,
\* although fragments of messages with the same random id are mixed, some
\* arrive twice and a key may be out of date: every session of the responder
\* is for one whole message, and a client has the secret of exactly one of
\* them, made for its own message (ingest, unseal, relayResponse and the
\* comparison of AUTH in clientFinish).
SeedsAgree ==
    /\ \A n \in DOMAIN sessions : \E c \in Initiators : sessions[n].message = createMsg(c)
    /\ \A c \in Initiators : seeds[c] \notin {NoSeed, Refused} =>
          \E n \in DOMAIN sessions : sessions[n] = seeds[c] /\ seeds[c].message = createMsg(c)

\* A message whose fragments have all arrived, once each, in whatever order
\* and between the fragments of others, has been answered if it could be:
\* only two messages with the same id, or more than maxConcurrent half
\* delivered ones, take each other's fragments away.
WholeMessagesAnswered ==
    LET begun == {c \in Initiators : chosen[c] # 0} IN
    (/\ copies = 0 /\ peak <= MaxConcurrent
     /\ shared => \A c, d \in begun : c # d => chosen[c] # chosen[d]) =>
        \A c \in begun : Missing(c) = {} /\ (shared => c \notin outdated) =>
            \E n \in DOMAIN sessions : sessions[n].message = createMsg(c)

\* Fragments that come in any order, twice, mixed or too many at a time lose
\* nobody's message that was alone under its id, and give nobody a key that
\* the responder did not make for him (ingest and clientFinish).
HandshakesSound == SeedsAgree /\ WholeMessagesAnswered
=============================================================================
