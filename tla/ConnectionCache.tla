--------------------------- MODULE ConnectionCache ---------------------------
(***************************************************************************)
(* The rendezvous connections that a browser bridge (anon-browse-gui), the *)
(* terminal browser (anon-browse) and the TCP proxy (anon-rendezvous-proxy)*)
(* keep to a hidden service: connections are expensive, so all three cache *)
(* one per service and open streams on it.  They differ in whether they    *)
(* share an attempt under way, look the descriptor up first, and drop a    *)
(* connection over which a fetch failed.                                   *)
(*                                                                         *)
(* One service; services share no state.  openHiddenService is Rendezvous, *)
(* the lookup DescriptorDirectory, openStream Streams, fetchOnce           *)
(* SiteSession: what is left of them here is how they may end.             *)
(***************************************************************************)
EXTENDS Naturals, Sequences, FiniteSets

CONSTANTS MaxFetches,   \* bound: fetches (local connections, for the proxy)
          MaxAttempts   \* bound: calls of openHiddenService

ASSUME CacheBounds == MaxFetches \in Nat \ {0} /\ MaxAttempts \in Nat \ {0}

VARIABLES
    program,    \* "gui", "tui" or "proxy"
    indexed,    \* the descriptor is in the local index
    issued,     \* fetches started
    pc,         \* where a fetch is
    over,       \* the attempt, or its connection, a fetch goes over or failed on
    conns,      \* the attempts: state, and whether cells still get through
    cached,     \* connByHost.get(host), or conn
    inFlight    \* inFlight.get(host), or opening

fetchVars == <<issued, pc, over>>
cacheVars == <<program, indexed, fetchVars, conns, cached, inFlight>>

Fetches == 1..MaxFetches
NoAttempt == 0
Finished == {"ok", "failed"}

CacheInit ==
    /\ program \in {"gui", "tui", "proxy"}
    /\ indexed \in BOOLEAN /\ (program # "gui" => indexed)
    /\ issued = 0 /\ pc = [f \in Fetches |-> "idle"] /\ over = [f \in Fetches |-> NoAttempt]
    /\ conns = <<>> /\ cached = NoAttempt /\ inFlight = NoAttempt

-----------------------------------------------------------------------------
(* ensureConnFor, ensureConn                                               *)

\* A new attempt of openHiddenService, with f as its first waiter.
newAttempt(f) ==
    LET a == Len(conns) + 1
    IN  /\ a <= MaxAttempts
        /\ conns' = Append(conns, [state |-> "opening", alive |-> TRUE])
        /\ pc' = [pc EXCEPT ![f] = "waiting"] /\ over' = [over EXCEPT ![f] = a]
        /\ inFlight' = IF program = "tui" THEN NoAttempt ELSE a
        /\ UNCHANGED cached

ensureConn(f) ==
    CASE cached # NoAttempt ->
            /\ pc' = [pc EXCEPT ![f] = "stream"] /\ over' = [over EXCEPT ![f] = cached]
            /\ UNCHANGED <<conns, cached, inFlight>>
      [] cached = NoAttempt /\ inFlight # NoAttempt ->
            /\ pc' = [pc EXCEPT ![f] = "waiting"] /\ over' = [over EXCEPT ![f] = inFlight]
            /\ UNCHANGED <<conns, cached, inFlight>>
      [] cached = NoAttempt /\ inFlight = NoAttempt /\ ~indexed ->
            /\ pc' = [pc EXCEPT ![f] = "lookup"]
            /\ UNCHANGED <<over, conns, cached, inFlight>>
      [] OTHER -> newAttempt(f)

\* A fetch starts.
startFetch(f) ==
    /\ f = issued + 1 /\ issued' = f
    /\ ensureConn(f)
    /\ UNCHANGED <<program, indexed>>

\* Mutant: the cached connection is closed but stays cached.
evictClosing(Fs, p, cs) ==
    /\ conns' = IF cached = NoAttempt THEN cs ELSE [cs EXCEPT ![cached].state = "closed"]
    /\ pc' = [f \in Fetches |-> IF f \in Fs THEN "failed" ELSE p[f]]
    /\ UNCHANGED cached /\ inFlight' = NoAttempt

\* _evict, once per fetch of Fs that fails: the cached connection, whichever it
\* is by now, is closed and forgotten, and so is the attempt under way.  The
\* streams of the closed connection end: a fetch that reads from one fails too
\* (and evicts again, with nothing left to evict); one whose stream is not open
\* yet is never told.
evict(Fs, p, cs) ==
    /\ conns' = IF cached = NoAttempt THEN cs ELSE [cs EXCEPT ![cached].state = "closed"]
    /\ pc' = [f \in Fetches |->
                CASE f \in Fs -> "failed"
                  [] f \notin Fs /\ cached # NoAttempt /\ over[f] = cached /\ p[f] = "fetch" -> "failed"
                  [] f \notin Fs /\ cached # NoAttempt /\ over[f] = cached /\ p[f] = "stream" -> "stranded"
                  [] OTHER -> p[f]]
    /\ cached' = NoAttempt /\ inFlight' = NoAttempt

\* Fetches Fs fail: the bridge evicts, the other programs do not.
Fail(Fs, cs, flight) ==
    IF program = "gui" /\ Fs # {} THEN evict(Fs, pc, cs)
    ELSE /\ conns' = cs /\ inFlight' = flight /\ UNCHANGED cached
         /\ pc' = [f \in Fetches |-> IF f \in Fs THEN "failed" ELSE pc[f]]

\* The lookup ends.  What was cached or started meanwhile is not looked at.
lookupEnds(f) ==
    /\ pc[f] = "lookup"
    /\ \/ newAttempt(f)
       \/ Fail({f}, conns, inFlight) /\ UNCHANGED over
    /\ UNCHANGED <<program, indexed, issued>>

Waiting(a) == {f \in Fetches : pc[f] = "waiting" /\ over[f] = a}

\* openHiddenService resolves: its connection replaces what is cached.
opened(a) ==
    /\ conns[a].state = "opening" /\ conns' = [conns EXCEPT ![a].state = "open"]
    /\ cached' = a /\ inFlight' = NoAttempt
    /\ pc' = [f \in Fetches |-> IF f \in Waiting(a) THEN "stream" ELSE pc[f]]
    /\ UNCHANGED <<program, indexed, issued, over>>

\* ... or rejects.
openFails(a) ==
    /\ conns[a].state = "opening"
    /\ Fail(Waiting(a), [conns EXCEPT ![a].state = "failed"], NoAttempt)
    /\ UNCHANGED <<program, indexed, issued, over>>

-----------------------------------------------------------------------------
(* A fetch over a connection                                               *)

\* openStream resolves, or the stream is refused, of which it never hears.
streamOpens(f) ==
    /\ pc[f] = "stream" /\ conns[over[f]].alive
    /\ \E p \in {"fetch", "stranded"} : pc' = [pc EXCEPT ![f] = p]
    /\ UNCHANGED <<program, indexed, issued, over, conns, cached, inFlight>>

\* Mutant: openStream has no timer.
fetchFailsReading(f) ==
    /\ pc[f] = "fetch"
    /\ Fail({f}, conns, inFlight)
    /\ UNCHANGED <<program, indexed, issued, over>>

\* openStream times out, or fetchOnce fails.
fetchFails(f) ==
    /\ pc[f] \in {"stream", "fetch"}
    /\ Fail({f}, conns, inFlight)
    /\ UNCHANGED <<program, indexed, issued, over>>

\* fetchOnce resolves, or the local connection is done.
fetchSucceeds(f) ==
    /\ pc[f] = "fetch" /\ conns[over[f]].alive
    /\ pc' = [pc EXCEPT ![f] = "ok"] /\ over' = [over EXCEPT ![f] = NoAttempt]
    /\ UNCHANGED <<program, indexed, issued, conns, cached, inFlight>>

\* The local side of a proxied connection closes early.
localCloses(f) ==
    /\ program = "proxy" /\ pc[f] \in {"waiting", "stream", "fetch"}
    /\ pc' = [pc EXCEPT ![f] = "failed"]
    /\ UNCHANGED <<program, indexed, issued, over, conns, cached, inFlight>>

\* A circuit is lost, or the service behind it has gone: nobody is told.
connDies(a) ==
    /\ conns[a].state = "open" /\ conns[a].alive
    /\ conns' = [conns EXCEPT ![a].alive = FALSE]
    /\ UNCHANGED <<program, indexed, fetchVars, cached, inFlight>>

-----------------------------------------------------------------------------
CacheStep ==
    \/ \E f \in Fetches : lookupEnds(f) \/ streamOpens(f) \/ fetchFails(f)
                          \/ fetchSucceeds(f) \/ localCloses(f)
    \/ \E a \in DOMAIN conns : opened(a) \/ openFails(a) \/ connDies(a)
=============================================================================
