------------------------- MODULE DescriptorDirectory -------------------------
(***************************************************************************)
(* How a client finds the descriptor of an onion address: the local index  *)
(* (v2-runtime/descriptor_index.mjs), the lookup client with its cache and *)
(* its in-flight table (hsdir_client.mjs), the one-shot circuit that asks  *)
(* an exit relay (hsdir_circuit_fetch.mjs), and that relay's role          *)
(* (hsdir_exit_role.mjs).  The directory itself is a file server that the  *)
(* host of ServiceHost uploads its descriptor.bin to, at any moment.       *)
(*                                                                         *)
(* The directory may answer with a file that was cut short or with the     *)
(* descriptor of another service.  Bodies have a size in units: the first  *)
(* reply cell has room for FirstRoom of them, a later one for CellRoom.    *)
(***************************************************************************)
EXTENDS ServiceHost, Sequences, SequencesExt

CONSTANTS Callers,             \* calls of lookup
          MaxFetches,          \* bound: calls of doFetch
          Files,               \* what createDescriptorIndex reads, in order
          FirstRoom, CellRoom, BodySize

ASSUME RoomBounds ==
    FirstRoom \in Nat /\ CellRoom \in Nat \ {0} /\ BodySize \in Nat /\ MaxFetches \in Nat
ASSUME FileContents == Files \in Seq(Descriptor \cup {Torn})
ASSUME NoDescriptors == Absent \notin Descriptor /\ Torn \notin Descriptor

Addresses == Identities
Fetches == 1..MaxFetches
Null == Absent
None == 0
Foreign == [addr |-> 0, epoch |-> 0]  \* the descriptor of another service

VARIABLES hsdir,     \* address -> the uploaded file
          cache,     \* address -> the cached descriptor, or Null
          inFlight,  \* address -> the fetch whose promise the Map holds, or None
          fetch,     \* f -> the state of a doFetch and of its circuit
          caller     \* c -> the state of a lookup

client == <<cache, inFlight, fetch, caller>>
vars == <<host, hsdir, client>>

-----------------------------------------------------------------------------
(* Descriptor bytes                                                        *)

Size(body) == IF body \in Descriptor THEN BodySize ELSE 0

\* parseServiceDescriptorAny: a body of another length is refused.
parseServiceDescriptorAny(body) == IF body \in Descriptor THEN body ELSE Null

\* The keys of the descriptor hash to the address.
bound(a, desc) == desc # Null /\ desc.addr = a

\* createDescriptorIndex: the first file of an address counts.
createDescriptorIndex(files) ==
    [a \in Addresses |->
        LET i == SelectInSeq(files, LAMBDA d : bound(a, parseServiceDescriptorAny(d)))
        IN  IF i = 0 THEN Null ELSE files[i]]

\* buildReplyCells: status and length lead the first cell, an END closes.
FirstPart(body) == IF Size(body) < FirstRoom THEN Size(body) ELSE FirstRoom
LaterCells(body) == (Size(body) - FirstPart(body) + CellRoom - 1) \div CellRoom

PartSize(body, i) ==
    IF i = 1 THEN FirstPart(body)
    ELSE IF i <= LaterCells(body) THEN CellRoom
    ELSE Size(body) - FirstPart(body) - (LaterCells(body) - 1) * CellRoom

buildReplyCells(status, body) ==
    [i \in 1..(LaterCells(body) + 2) |->
        IF i <= LaterCells(body) + 1
        THEN [cmd |-> "REPLY", status |-> status, total |-> Size(body), body |-> body,
              n |-> PartSize(body, i)]
        ELSE [cmd |-> "END", status |-> status, total |-> 0, body |-> body, n |-> 0]]

\* What the loop over the cells copies.
Sum(ns) ==
    LET off[i \in 0..Len(ns)] == IF i = 0 THEN 0 ELSE off[i - 1] + ns[i]
    IN  off[Len(ns)]

\* parseDescfetchReplyStream: throws unless the cells add up to the length.
parseDescfetchReplyStream(replies) ==
    IF replies = <<>> \/ Sum([i \in DOMAIN replies |-> replies[i].n]) # Head(replies).total
    THEN [ok |-> FALSE, status |-> 0, body |-> Null]
    ELSE [ok |-> TRUE, status |-> Head(replies).status, body |-> Head(replies).body]

-----------------------------------------------------------------------------
(* The directory (a file server, external) and the upload to it            *)

upload ==
    /\ descFile # Absent
    /\ \E a \in Addresses :
         /\ a = IF descFile \in Descriptor THEN descFile.addr ELSE minted
         /\ hsdir' = [hsdir EXCEPT ![a] = descFile]
    /\ UNCHANGED <<host, client>>

\* What GET /hsdir/<key> may return; Null is a 404.
Served(a) == {hsdir[a], Foreign}

-----------------------------------------------------------------------------
(* lookup                                                                  *)

Unused == [addr |-> None, pc |-> "unused", timer |-> FALSE, settled |-> "no",
           up |-> FALSE, asked |-> FALSE, got |-> [status |-> 0, body |-> Null],
           line |-> <<>>, replies |-> <<>>]

\* A fetch that left its circuit behind forgets it: what is still on the way
\* there reaches only closures that nobody awaits.
Update(f, changes) ==
    LET leaves == "pc" \in DOMAIN changes /\ changes.pc \in {"https", "done"}
        old == IF leaves THEN [Unused EXCEPT !.addr = fetch[f].addr] ELSE fetch[f]
    IN  fetch' = [fetch EXCEPT ![f] = [k \in DOMAIN @ |->
                      IF k \in DOMAIN changes THEN changes[k] ELSE old[k]]]

Finish(c, a, desc) ==
    /\ caller' = [caller EXCEPT ![c] = [pc |-> "done", addr |-> a, fetch |-> None, desc |-> desc]]
    /\ UNCHANGED <<cache, inFlight, fetch>>

fresh(a) == cache[a] # Null /\ cache[a].epoch + Lifetime > now
Local(a) == createDescriptorIndex(Files)[a]

\* The index is asked first (ensureConnFor), then the cache of lookup.
lookupKnown(c, a) ==
    /\ caller[c].pc = "idle"
    /\ \/ Local(a) # Null /\ Finish(c, a, Local(a))
       \/ Local(a) = Null /\ fresh(a) /\ Finish(c, a, cache[a])
    /\ UNCHANGED <<host, hsdir>>

\* A fetch of the address is under way: its promise is returned.
lookupJoins(c, a) ==
    /\ caller[c].pc = "idle" /\ Local(a) = Null /\ ~fresh(a)
    /\ inFlight[a] # None
    /\ caller' = [caller EXCEPT ![c] = [pc |-> "waiting", addr |-> a, fetch |-> inFlight[a],
                                        desc |-> Null]]
    /\ UNCHANGED <<host, hsdir, cache, inFlight, fetch>>

\* doFetch starts: buildPath may throw, and HTTPS is next; otherwise the timer
\* of fetchDescriptor is set and the circuit is being built.
Start(c, a, f) ==
    /\ fetch[f].pc = "unused" /\ \A g \in 1..(f - 1) : fetch[g].pc # "unused"
    /\ \/ Update(f, [addr |-> a, pc |-> "https"])
       \/ Update(f, [addr |-> a, pc |-> "build", timer |-> TRUE, settled |-> "pending"])
    /\ inFlight' = [inFlight EXCEPT ![a] = f]
    /\ caller' = [caller EXCEPT ![c] = [pc |-> "waiting", addr |-> a, fetch |-> f, desc |-> Null]]
    /\ UNCHANGED <<host, hsdir, cache>>

\* Mutant: no look at the in-flight table.
lookupFetchesAlways(c, a) ==
    /\ caller[c].pc = "idle" /\ Local(a) = Null /\ ~fresh(a)
    /\ \E f \in Fetches : Start(c, a, f)

lookupFetches(c, a) ==
    /\ caller[c].pc = "idle" /\ Local(a) = Null /\ ~fresh(a)
    /\ inFlight[a] = None
    /\ \E f \in Fetches : Start(c, a, f)

\* Mutant: the in-flight entry goes only when the fetch succeeded.
SettleKept(f, desc) ==
    LET a == fetch[f].addr
    IN  /\ Update(f, [pc |-> "done"])
        /\ cache' = IF desc = Null THEN cache ELSE [cache EXCEPT ![a] = desc]
        /\ inFlight' = IF desc = Null THEN inFlight ELSE [inFlight EXCEPT ![a] = None]
        /\ caller' = [c \in Callers |->
              IF caller[c].pc = "waiting" /\ caller[c].fetch = f
              THEN [caller[c] EXCEPT !.pc = "done", !.desc = desc] ELSE caller[c]]
        /\ UNCHANGED <<host, hsdir>>

\* The end of the shared promise: cached or null, and no longer in flight.
Settle(f, desc) ==
    LET a == fetch[f].addr
    IN  /\ Update(f, [pc |-> "done"])
        /\ cache' = IF desc = Null THEN cache ELSE [cache EXCEPT ![a] = desc]
        /\ inFlight' = [inFlight EXCEPT ![a] = None]
        /\ caller' = [c \in Callers |->
              IF caller[c].pc = "waiting" /\ caller[c].fetch = f
              THEN [caller[c] EXCEPT !.pc = "done", !.desc = desc] ELSE caller[c]]
        /\ UNCHANGED <<host, hsdir>>

-----------------------------------------------------------------------------
(* The circuit-routed fetch                                                *)

OnlyFetch(f, changes) ==
    /\ Update(f, changes)
    /\ UNCHANGED <<host, hsdir, cache, inFlight, caller>>

\* buildCircuit resolves: DESCFETCH is sent, whatever the timer did meanwhile.
circuitBuilt(f) ==
    /\ fetch[f].pc = "build"
    /\ OnlyFetch(f, [pc |-> "wait", up |-> TRUE, asked |-> TRUE])

\* buildCircuit rejects: the timer stays, the fallback is taken.
circuitFails(f) ==
    /\ fetch[f].pc = "build"
    /\ OnlyFetch(f, [pc |-> "https"])

\* Mutant: the timer ends nothing.
descfetchTimeoutIdle(f) ==
    /\ fetch[f].timer
    /\ OnlyFetch(f, [timer |-> FALSE])

\* requestTimeoutMs.
descfetchTimeout(f) ==
    /\ fetch[f].timer
    /\ OnlyFetch(f, [timer |-> FALSE,
                     settled |-> IF fetch[f].settled = "pending" THEN "timeout" ELSE fetch[f].settled])

\* DESTROY comes back: onDestroy.
onDestroy(f) ==
    /\ fetch[f].up
    /\ OnlyFetch(f, [up |-> FALSE, timer |-> FALSE, line |-> <<>>,
                     settled |-> IF fetch[f].settled = "pending" THEN "destroyed" ELSE fetch[f].settled])

\* A link of the circuit is lost, and nobody is told.
circuitDies(f) ==
    /\ fetch[f].up
    /\ OnlyFetch(f, [up |-> FALSE, line |-> <<>>])

\* handleDescfetch at the exit: the HTTP answer, or status 0 for a failure
\* (any status but 2xx has an empty body), goes back on the circuit, which may
\* be gone.
exitAnswers(f) ==
    /\ fetch[f].asked
    /\ \E got \in [status : {200}, body : Served(fetch[f].addr) \ {Null}]
                  \cup [status : {0}, body : {Null}] :
         OnlyFetch(f, [asked |-> FALSE, got |-> got,
                       line |-> IF fetch[f].up THEN buildReplyCells(got.status, got.body) ELSE <<>>])

\* onData takes the next cell: a reply is kept, an END settles.
onData(f) ==
    /\ fetch[f].line # <<>>
    /\ LET cell == Head(fetch[f].line)
           rest == Tail(fetch[f].line)
           parsed == parseDescfetchReplyStream(fetch[f].replies)
       IN  IF cell.cmd = "REPLY"
           THEN OnlyFetch(f, [line |-> rest, replies |-> Append(fetch[f].replies, cell)])
           ELSE OnlyFetch(f, [line |-> rest, timer |-> FALSE,
                    settled |-> IF fetch[f].settled # "pending" THEN fetch[f].settled
                                ELSE IF parsed.ok THEN "resolved" ELSE "garbled"])

\* await settled: a good answer ends the lookup, anything else falls back.
circuitAnswer(f) ==
    LET parsed == parseDescfetchReplyStream(fetch[f].replies)
        desc == parseServiceDescriptorAny(parsed.body)
    IN  /\ fetch[f].pc = "wait" /\ fetch[f].settled # "pending"
        /\ IF fetch[f].settled = "resolved" /\ parsed.status = 200 /\ bound(fetch[f].addr, desc)
           THEN Settle(f, desc)
           ELSE OnlyFetch(f, [pc |-> "https"])

\* fetchDescriptorFromHsdir: its timer ends a slow answer; a bad status, size,
\* body or binding throws.
httpsAnswer(f) ==
    /\ fetch[f].pc = "https"
    /\ \E body \in Served(fetch[f].addr) \cup {Null} :
         LET desc == parseServiceDescriptorAny(body)
         IN  Settle(f, IF bound(fetch[f].addr, desc) THEN desc ELSE Null)

-----------------------------------------------------------------------------
Init ==
    /\ HostInit
    /\ hsdir = [a \in Addresses |-> Absent]
    /\ cache = [a \in Addresses |-> Null]
    /\ inFlight = [a \in Addresses |-> None]
    /\ fetch = [f \in Fetches |-> Unused]
    /\ caller = [c \in Callers |-> [pc |-> "idle", addr |-> None, fetch |-> None, desc |-> Null]]

FetchStep(f) ==
    \/ circuitBuilt(f) \/ circuitFails(f) \/ descfetchTimeout(f) \/ onDestroy(f)
    \/ circuitDies(f) \/ exitAnswers(f) \/ onData(f) \/ circuitAnswer(f) \/ httpsAnswer(f)

Next ==
    \/ HostNext /\ UNCHANGED <<hsdir, client>>
    \/ upload
    \/ \E c \in Callers, a \in Addresses :
         lookupKnown(c, a) \/ lookupJoins(c, a) \/ lookupFetches(c, a)
    \/ \E f \in Fetches : FetchStep(f)

Spec == Init /\ [][Next]_vars

\* A build settles (OnionCircuit), timers fire, promises resume, and the HTTP
\* client ends every request.
Fairness ==
    \A f \in Fetches :
        WF_vars(\/ circuitBuilt(f) \/ circuitFails(f) \/ descfetchTimeout(f)
                \/ circuitAnswer(f) \/ httpsAnswer(f))

FairSpec == Spec /\ Fairness

-----------------------------------------------------------------------------
TypeOK ==
    /\ HostTypeOK
    /\ hsdir \in [Addresses -> Descriptor \cup {Absent, Torn}]
    /\ cache \in [Addresses -> Descriptor \cup {Null}]
    /\ inFlight \in [Addresses -> Fetches \cup {None}]
    /\ \A f \in Fetches :
         /\ fetch[f].pc \in {"unused", "build", "wait", "https", "done"}
         /\ fetch[f].settled \in {"no", "pending", "resolved", "garbled", "timeout", "destroyed"}
    /\ \A c \in Callers : caller[c].desc \in Descriptor \cup {Null}

\* Whatever the directory or the exit relay serves, and whichever way the
\* answer came, a lookup returns a descriptor of the address it was asked for
\* and the cache holds nothing else under that address (the binding check of
\* hsdir_client.mjs, which the code has twice).
LookupBound ==
    /\ \A c \in Callers : caller[c].desc # Null => caller[c].desc.addr = caller[c].addr
    /\ \A a \in Addresses : cache[a] # Null => cache[a].addr = a

\* A promise in the in-flight table is one that is still to settle: a fetch
\* that failed must not answer the lookups that come after it.
InFlightPending ==
    \A a \in Addresses : inFlight[a] # None =>
        fetch[inFlight[a]].pc \in {"build", "wait", "https"} /\ fetch[inFlight[a]].addr = a

\* The client's cache does not go back to an older descriptor, although answers
\* are slow and the service publishes again meanwhile: fetches of one address
\* are coalesced.
CacheNeverOlder ==
    [][\A a \in Addresses : cache[a] # Null => cache'[a] # Null /\ cache'[a].epoch >= cache[a].epoch]_vars

\* What the exit read is what the client assembles: no answer is refused
\* because of how it was cut into cells.
RepliesFaithful ==
    \A f \in Fetches :
        /\ fetch[f].settled # "garbled"
        /\ fetch[f].settled = "resolved" =>
             LET parsed == parseDescfetchReplyStream(fetch[f].replies)
             IN  parsed.ok /\ parsed.status = fetch[f].got.status /\ parsed.body = fetch[f].got.body

\* Every lookup ends, with a descriptor or null, whatever happens to the
\* circuit and to the relay at its end.
LookupsSettle ==
    \A c \in Callers : caller[c].pc = "waiting" ~> caller[c].pc = "done"

\* A lookup is given a descriptor of the address it asked for, never waits on a
\* fetch that is over, and loses no answer to the way it was cut into cells
\* (lookup, its in-flight table and the descfetch replies).
LookupSound == TypeOK /\ LookupBound /\ InFlightPending /\ RepliesFaithful
=============================================================================
