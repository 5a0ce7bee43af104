--------------------------- MODULE ConsensusRefresh ---------------------------
(***************************************************************************)
(* The consensus file of a client or a relay: directory authorities sign a *)
(* new consensus every hour (bin/anon-mkconsensus.mjs, rebuild.sh), and a  *)
(* program fetches it over HTTPS, replaces the file it has, and loads it   *)
(* when it starts: the browser bridge (fetchConsensus and main of          *)
(* bin/anon-browse-gui.mjs), or a relay in its container                   *)
(* (deploy/docker/relay/entrypoint.sh).  The launcher writes the same file *)
(* as the bridge.                                                          *)
(*                                                                         *)
(* A fetch asks one URL after the other.  In the bridge a response that is *)
(* reset or times out half way reports two errors, the one of the request  *)
(* and the one of the response, and each goes on to the next URL: one      *)
(* fetch then has two chains, which share the next URL, the promise and    *)
(* the temporary file.                                                     *)
(***************************************************************************)
EXTENDS Consensus

CONSTANTS
    Signer,     \* Signer[u]: the authority whose documents URL u serves
    Trusted,    \* the trust set of the program
    Life,       \* hours for which a document is valid
    MaxTime,    \* hours
    MaxFetches, \* calls of fetchConsensus
    MaxCuts,    \* responses that break off
    MaxStops    \* processes that end

Urls == DOMAIN Signer
LastUrl == Len(Signer)

ASSUME RefreshAssumption ==
    /\ Len(Signer) \in Nat \ {0} /\ DOMAIN Signer = 1..Len(Signer)
    /\ \A u \in Urls : Signer[u] \notin {"absent", "torn"}
    /\ {Life, MaxTime, MaxFetches, MaxCuts, MaxStops} \subseteq Nat

VARIABLES
    program,    \* "bridge" or "relay"
    clock,      \* hours
    served,     \* served[u]: the document at URL u
    phase,      \* of the program: "off", "fetching", "running" or "refused"
    dest,       \* the consensus file
    tmp,        \* the temporary file of the bridge
    next,       \* next[f]: the URL that fetch f asks next
    outcome,    \* outcome[f]: what the promise of fetch f resolved to
    chains,     \* the chains of requests
    loaded,     \* the document in memory
    cuts, stops,
    mixed,      \* history: two chains have had the temporary file at once
    since       \* history: the oldest document served when the program started

refreshVars == <<program, clock, served, phase, dest, tmp, next, outcome, chains, loaded, cuts, stops, mixed, since>>

Doc(u, at) == [by |-> Signer[u], at |-> at]
Docs == {Doc(u, t) : u \in Urls, t \in 0..MaxTime}

Absent == [by |-> "absent", at |-> 0]
Torn   == [by |-> "torn", at |-> 0]
Files  == Docs \cup {Absent, Torn}

\* loadConsensus accepts the file: a build has one signer, its authority.
Acceptable(file) ==
    /\ file \notin {Absent, Torn}
    /\ parseConsensus(buildConsensus(file.at, file.at, file.at + Life, <<file.by>>), Trusted, clock)

\* A chain: its fetch, the URL it asked, what it is about to do, the body it
\* received, and the file its descriptor refers to.
Chain == [fetch : 1..MaxFetches, url : Urls \cup {0},
          at : {"asking", "received", "opened", "written", "done"}, body : Files,
          file : {"none", "tmp", "dest", "unlinked"}]

RefreshTypeOK ==
    /\ program \in {"bridge", "relay"} /\ clock \in 0..MaxTime
    /\ served \in [Urls -> Docs]
    /\ phase \in {"off", "fetching", "running", "refused"}
    /\ dest \in Files /\ tmp \in Files /\ loaded \in Files
    /\ next \in Seq(Nat) /\ Len(next) <= MaxFetches
    /\ outcome \in Seq({"pending", "true", "false"}) /\ Len(outcome) = Len(next)
    /\ chains \in Seq(Chain)
    /\ cuts \in 0..MaxCuts /\ stops \in 0..MaxStops /\ mixed \in BOOLEAN /\ since \in 0..MaxTime

RefreshInit ==
    /\ program \in {"bridge", "relay"} /\ clock = 0
    /\ served = [u \in Urls |-> Doc(u, 0)]
    /\ phase = "off" /\ dest \in {Absent, Doc(1, 0)} /\ tmp = Absent
    /\ program = "relay" => dest # Absent
    /\ next = <<>> /\ outcome = <<>> /\ chains = <<>>
    /\ loaded = Absent /\ cuts = 0 /\ stops = 0 /\ mixed = FALSE /\ since = 0

-----------------------------------------------------------------------------
Hour ==
    /\ clock < MaxTime
    /\ clock' = clock + 1
    /\ UNCHANGED <<program, served, phase, dest, tmp, next, outcome, chains, loaded, cuts, stops, mixed, since>>

\* rebuild.sh, hourly: a new document, renamed into place.
Rebuild(u) ==
    /\ served[u].at < clock
    /\ served' = [served EXCEPT ![u] = Doc(u, clock)]
    /\ UNCHANGED <<program, clock, phase, dest, tmp, next, outcome, chains, loaded, cuts, stops, mixed, since>>

\* Refresh and atomicWrite of the launcher: a file of its own, then a rename.
LauncherWrites(u) ==
    /\ program = "bridge" /\ dest # served[u]
    /\ dest' = served[u]
    /\ UNCHANGED <<program, clock, served, phase, tmp, next, outcome, chains, loaded, cuts, stops, mixed, since>>

\* fetchConsensus: the first chain asks the first URL.
fetchConsensus ==
    /\ Len(next) < MaxFetches
    /\ next' = Append(next, 2) /\ outcome' = Append(outcome, "pending")
    /\ chains' = Append(chains, [fetch |-> Len(next) + 1, url |-> 1, at |-> "asking",
                                 body |-> Absent, file |-> "none"])

StartProgram ==
    /\ phase = "off" /\ fetchConsensus
    /\ phase' = "fetching"
    /\ since' = CHOOSE t \in {served[u].at : u \in Urls} : \A u \in Urls : t <= served[u].at
    /\ UNCHANGED <<program, clock, served, dest, tmp, loaded, cuts, stops, mixed>>

\* The interval of the bridge, or the loop of the relay's entrypoint, which
\* waits for a fetch before it sleeps again.
Interval ==
    /\ phase = "running" /\ fetchConsensus
    /\ program = "relay" => \A c \in DOMAIN chains : chains[c].at = "done"
    /\ UNCHANGED <<program, clock, served, phase, dest, tmp, loaded, cuts, stops, mixed, since>>

\* main: loadConsensus, and the program refuses to start when it fails.
Load ==
    /\ phase = "fetching" /\ outcome[Len(next)] # "pending"
    /\ phase' = IF Acceptable(dest) THEN "running" ELSE "refused"
    /\ loaded' = dest
    /\ UNCHANGED <<program, clock, served, dest, tmp, next, outcome, chains, cuts, stops, mixed, since>>

\* resolve(value): the first call settles the promise.
Settled(f, value) == IF outcome[f] = "pending" THEN value ELSE outcome[f]

\* The process ends at any point, and its requests with it; its temporary file
\* has the number of the process in its name and no other process meets it.  A container is
\* restarted, also when the daemon refused to start.
StopProgram ==
    /\ phase # "off" /\ stops < MaxStops
    /\ stops' = stops + 1
    /\ phase' = "off" /\ loaded' = Absent /\ tmp' = Absent
    /\ chains' = [c \in DOMAIN chains |-> [chains[c] EXCEPT !.at = "done", !.file = "none"]]
    /\ outcome' = [f \in DOMAIN next |-> Settled(f, "false")]
    /\ UNCHANGED <<program, clock, served, dest, next, cuts, mixed, since>>

-----------------------------------------------------------------------------
\* Chain c goes on to the next URL of its fetch, or settles it as failed.
tryNext(c) ==
    LET f == chains[c].fetch IN
    IF next[f] > LastUrl
    THEN /\ outcome' = [outcome EXCEPT ![f] = Settled(f, "false")]
         /\ chains' = [chains EXCEPT ![c].at = "done", ![c].file = "none"]
         /\ UNCHANGED next
    ELSE /\ next' = [next EXCEPT ![f] = @ + 1]
         /\ chains' = [chains EXCEPT ![c] = [@ EXCEPT !.at = "asking", !.url = next[f], !.file = "none"]]
         /\ UNCHANGED outcome

\* No connection, another status than 200, an empty body, a timeout.
RequestFails(c) ==
    /\ chains[c].at = "asking"
    /\ tryNext(c)
    /\ UNCHANGED <<program, clock, served, phase, dest, tmp, loaded, cuts, stops, mixed, since>>

\* The bridge, when a response breaks off: both error handlers call tryNext.
ResponseBreaksOff(c) ==
    LET f == chains[c].fetch
        asked(k) == [chains[c] EXCEPT !.url = IF k > LastUrl THEN 0 ELSE k,
                                      !.at = IF k > LastUrl THEN "done" ELSE "asking"]
    IN  /\ chains[c].at = "asking" /\ program = "bridge" /\ cuts < MaxCuts
        /\ cuts' = cuts + 1
        /\ chains' = Append([chains EXCEPT ![c] = asked(next[f])], asked(next[f] + 1))
        /\ outcome' = IF next[f] + 1 > LastUrl THEN [outcome EXCEPT ![f] = Settled(f, "false")] ELSE outcome
        /\ next' = [next EXCEPT ![f] = IF @ + 2 > LastUrl + 1 THEN LastUrl + 1 ELSE @ + 2]
        /\ UNCHANGED <<program, clock, served, phase, dest, tmp, loaded, stops, mixed, since>>

\* The whole body of a response with status 200; nothing looks at what it is.
BodyArrives(c) ==
    /\ chains[c].at = "asking"
    /\ chains' = [chains EXCEPT ![c].at = "received", ![c].body = served[chains[c].url]]
    /\ UNCHANGED <<program, clock, served, phase, dest, tmp, next, outcome, loaded, cuts, stops, mixed, since>>

\* writeFile(tmp) of the bridge opens the file and cuts it to length 0.
OpenTmp(c) ==
    /\ chains[c].at = "received" /\ program = "bridge"
    /\ chains' = [chains EXCEPT ![c].at = "opened", ![c].file = "tmp"]
    /\ tmp' = Torn
    /\ mixed' = (mixed \/ \E b \in DOMAIN chains \ {c} : chains[b].at \in {"opened", "written"})
    /\ UNCHANGED <<program, clock, served, phase, dest, next, outcome, loaded, cuts, stops, since>>

\* Mutant: the promise settles when the body is written.
WriteSettles(c) ==
    /\ chains[c].at = "opened"
    /\ chains' = [chains EXCEPT ![c].at = "written", ![c].file = "none"]
    /\ tmp' = chains[c].body
    /\ outcome' = [outcome EXCEPT ![chains[c].fetch] = Settled(chains[c].fetch, "true")]
    /\ UNCHANGED <<program, clock, served, phase, dest, next, loaded, cuts, stops, mixed, since>>

\* It writes the body; over another, longer one the end of that one stays.
Write(c) ==
    /\ chains[c].at = "opened"
    /\ chains' = [chains EXCEPT ![c].at = "written", ![c].file = "none"]
    /\ \E content \in {chains[c].body} \cup (IF mixed THEN {Torn} ELSE {}) :
          /\ tmp' = IF chains[c].file = "tmp" THEN content ELSE tmp
          /\ dest' = IF chains[c].file = "dest" THEN content ELSE dest
    /\ UNCHANGED <<program, clock, served, phase, next, outcome, loaded, cuts, stops, mixed, since>>

\* What the rename does to the descriptors that are open.
Moved(c) == [b \in DOMAIN chains |->
    [chains[b] EXCEPT !.file = IF @ = "dest" THEN "unlinked" ELSE IF @ = "tmp" THEN "dest" ELSE @]]

\* rename(tmp, dest), and the promise settles; there may be no tmp any more.
Rename(c) ==
    /\ chains[c].at = "written"
    /\ \/ /\ tmp # Absent
          /\ dest' = tmp /\ tmp' = Absent
          /\ chains' = [Moved(c) EXCEPT ![c].at = "done"]
          /\ outcome' = [outcome EXCEPT ![chains[c].fetch] = Settled(chains[c].fetch, "true")]
          /\ UNCHANGED next
       \/ /\ tmp = Absent
          /\ tryNext(c)
          /\ UNCHANGED <<dest, tmp>>
    /\ UNCHANGED <<program, clock, served, phase, loaded, cuts, stops, mixed, since>>

\* Mutant: the daemon goes on with what it has.
AdoptQuietly(c) ==
    /\ chains[c].at = "received" /\ program = "relay"
    /\ dest' = chains[c].body
    /\ chains' = [chains EXCEPT ![c].at = "done"]
    /\ outcome' = [outcome EXCEPT ![chains[c].fetch] = Settled(chains[c].fetch, "true")]
    /\ UNCHANGED <<program, clock, served, phase, tmp, next, loaded, cuts, stops, mixed, since>>

\* The relay: a file of its own, compared with the one it has, renamed when it
\* differs; a daemon that runs is then stopped, and the container restarted.
Adopt(c) ==
    /\ chains[c].at = "received" /\ program = "relay"
    /\ dest' = chains[c].body
    /\ chains' = [chains EXCEPT ![c].at = "done"]
    /\ outcome' = [outcome EXCEPT ![chains[c].fetch] = Settled(chains[c].fetch, "true")]
    /\ IF phase = "running" /\ dest # chains[c].body
       THEN phase' = "off" /\ loaded' = Absent
       ELSE UNCHANGED <<phase, loaded>>
    /\ UNCHANGED <<program, clock, served, tmp, next, cuts, stops, mixed, since>>

ChainStep(c) ==
    \/ RequestFails(c) \/ BodyArrives(c) \/ OpenTmp(c) \/ Write(c) \/ Rename(c) \/ Adopt(c)

RefreshNext ==
    \/ Hour
    \/ \E u \in Urls : Rebuild(u) \/ LauncherWrites(u)
    \/ StartProgram \/ Interval \/ Load \/ StopProgram
    \/ \E c \in DOMAIN chains : ChainStep(c) \/ ResponseBreaksOff(c)

\* A request is answered or times out, writes and renames are done, and a
\* program loads the file when its fetch has settled.
RefreshFairness == WF_refreshVars(Load) /\ WF_refreshVars(\E c \in DOMAIN chains : ChainStep(c))

RefreshSpec == RefreshInit /\ [][RefreshNext]_refreshVars /\ RefreshFairness

-----------------------------------------------------------------------------
(* Properties                                                              *)

\* Whatever ends in whichever order, and wherever the process stops, the file
\* is absent or a whole document, unless two chains had the temporary file at
\* once (tmp and rename of fetchConsensus, atomicWrite, mv of the entrypoint).
DestWhole == mixed \/ dest # Torn

\* A program that was told that the fetch succeeded starts from a document that
\* was served no longer ago than when it started, and not from the file it had:
\* "Removes the manual restart footgun where a stale on-disk consensus.bin
\* makes the bridge refuse to start" (main of anon-browse-gui.mjs).
FetchedIsLoaded ==
    [][(/\ phase = "fetching" /\ phase' \in {"running", "refused"}
        /\ outcome[Len(next)] = "true" /\ ~mixed)
       => loaded' \in Docs /\ loaded'.at >= since]_refreshVars

\* Whatever the URLs answer, and however often responses break off, the promise
\* that the start of the program waits for settles.
StartSettles == (phase = "fetching") ~> (phase # "fetching")

\* A relay never serves from another consensus than the file it has: "On
\* detected change we atomically swap the file then SIGTERM the daemon"
\* (entrypoint.sh).
RelayRunsDest == (program = "relay" /\ phase = "running") => loaded = dest

\* "The client trusts a consensus if any DA listed in da-trust.json signed it"
\* (deploy/ARCHITECTURE.md): no program refuses to start over a document of a
\* trusted authority that is in its window.
AnyAuthoritySuffices ==
    phase = "refused" => ~(/\ loaded \in Docs /\ loaded.by \in Trusted
                           /\ loaded.at <= clock /\ clock <= loaded.at + Life)

\* The consensus file is whole wherever a program stopped, and a relay runs
\* from what it holds (fetchConsensus, atomicWrite and the entrypoint).
ConsensusFileSound == RefreshTypeOK /\ DestWhole /\ RelayRunsDest

\* A start gets on, whatever the URLs do, and with what it was told it has
\* (the two chains of fetchConsensus).
StartsFresh == StartSettles /\ FetchedIsLoaded
=============================================================================
