---------------------------- MODULE PathSelection ----------------------------
(***************************************************************************)
(* The three relays of a circuit: pickPath of modules/v2/consensus.mjs,    *)
(* which the SOCKS proxy calls, and the paths to a relay that is given     *)
(* (buildPath of anon-browse, anon-browse-gui and the proxy,               *)
(* pickPathForExit of anon-service) or to any relay (the directory lookups *)
(* of anon-browse-gui).  All choices among candidates are random.          *)
(*                                                                         *)
(* A relay entry has a fingerprint, flags, a network per address family    *)
(* (the first 16 or 48 bits, NoNet without an address) and an exit policy. *)
(***************************************************************************)
EXTENDS ExitPolicy, FiniteSets

CONSTANTS
    Consensuses, \* sets of relay entries, one per fingerprint
    Wanted,      \* destinations of streams
    NoNet

\* A relay is listed once.
ASSUME EntriesAssumption == \A entries \in Consensuses : \A r, s \in entries : r.fp = s.fp => r = s

\* The entries that parseRse returns: no zero address, a policy that parses.
RelayEntries(fps, nets) ==
    [fp : fps, v4 : nets \cup {NoNet}, v6 : nets \cup {NoNet}, exitPolicy : Policies \cup {<<>>},
     flags : SUBSET {"Running", "Valid", "Guard", "Exit", "BadExit"}]

VARIABLES
    rses,        \* the entries of the consensus
    path         \* the path picked last, NoPath, or Unpicked

pathVars == <<rses, path>>

NoPath   == [by |-> "none"]
Unpicked == [by |-> "start"]

usableRelay(r) == {"Running", "Valid"} \subseteq r.flags

\* coLocated: two relays in one IPv4 /16; and any two that both have an IPv6
\* address, since { same: false } counts as true.
coLocated(a, b) ==
    \/ a.v4 # NoNet /\ a.v4 = b.v4
    \/ a.v6 # NoNet /\ b.v6 # NoNet

filterCandidates(extraFlags, excludeFps, avoid) ==
    {r \in rses : /\ usableRelay(r) /\ extraFlags \subseteq r.flags /\ "BadExit" \notin r.flags
                  /\ r.fp \notin excludeFps
                  /\ \A other \in avoid : ~coLocated(r, other)}

\* selectGuard: the first existing guard that is usable, whatever its other
\* flags; a new one when there is none.
selectGuard(existing) ==
    LET stillValid == {i \in DOMAIN existing : \E r \in rses : r.fp = existing[i] /\ usableRelay(r)}
    IN  IF stillValid = {} THEN filterCandidates({"Guard"}, {}, {})
        ELSE {r \in rses : r.fp = existing[CHOOSE i \in stillValid : \A j \in stillValid : i <= j]}

\* Mutant: the middle is only kept away from the exit.
selectMiddleNear(ends, avoid) ==
    filterCandidates({}, {r.fp : r \in ends}, {r \in avoid : "Exit" \in r.flags})

selectMiddle(ends, avoid) == filterCandidates({}, {r.fp : r \in ends}, avoid)

selectExit(destination, guard, avoid) ==
    {r \in filterCandidates({"Exit"}, {guard.fp}, avoid) : evaluate(r.exitPolicy, destination) = "accept"}

Avoided(skip, hops) == IF skip THEN {} ELSE hops

\* pickPath.  A draw of the guard, or of the exit, may leave no candidate for
\* the next role, and is not drawn again.
pickPath(destination, existing, skip) ==
    \/ selectGuard(existing) = {} /\ path' = NoPath
    \/ \E guard \in selectGuard(existing) :
          LET exits == selectExit(destination, guard, Avoided(skip, {guard}))
              middles(exit) == selectMiddle({guard, exit}, Avoided(skip, {guard, exit}))
          IN  \/ \E exit \in exits : \E middle \in middles(exit) :
                    path' = [by |-> "pickPath", guard |-> guard, middle |-> middle, exit |-> exit,
                             destination |-> destination, existing |-> existing, skip |-> skip]
              \/ (exits = {} \/ \E exit \in exits : middles(exit) = {}) /\ path' = NoPath

\* Guards of the programs' own paths: no BadExit test.
GuardRelays == {r \in rses : {"Running", "Valid", "Guard"} \subseteq r.flags}

\* A guard that is not the exit, and a middle that avoids both.
ownPath(by, exit, skip) ==
    LET guards == {r \in GuardRelays : r.fp # exit.fp}
        middles(guard) == selectMiddle({guard, exit}, Avoided(skip, {guard, exit}))
    IN  \/ \E guard \in guards : \E middle \in middles(guard) :
              path' = [by |-> by, guard |-> guard, middle |-> middle, exit |-> exit, skip |-> skip]
        \/ (guards = {} \/ \E guard \in guards : middles(guard) = {}) /\ path' = NoPath

\* buildPath and pickPathForExit: the exit is the relay with a fingerprint
\* that a descriptor or a caller names.
buildPath(exitFp, skip) ==
    IF \E r \in rses : r.fp = exitFp
    THEN \E exit \in {r \in rses : r.fp = exitFp} : ownPath("buildPath", exit, skip)
    ELSE path' = NoPath

\* The path of a directory lookup: the exit is any other relay than the guard.
lookupPath(skip) ==
    IF GuardRelays = {} \/ Cardinality(rses) < 3 THEN path' = NoPath
    ELSE \E exit \in rses : /\ \E guard \in GuardRelays : guard.fp # exit.fp
                            /\ ownPath("lookup", exit, skip)

Fingerprints == {r.fp : r \in rses}
GuardLists == {<<>>} \cup {<<fp>> : fp \in Fingerprints} \cup {<<fp, gp>> : fp, gp \in Fingerprints}

PathInit == rses \in Consensuses /\ path = Unpicked

PathNext ==
    /\ path = Unpicked
    /\ \E skip \in BOOLEAN :
          \/ \E d \in Wanted, existing \in GuardLists : pickPath(d, existing, skip)
          \/ \E fp \in Fingerprints : buildPath(fp, skip)
          \/ lookupPath(skip)
    /\ UNCHANGED rses

PathSpec == PathInit /\ [][PathNext]_pathVars

-----------------------------------------------------------------------------
(* Properties                                                              *)

Picked == path \notin {NoPath, Unpicked}
Hops == {path.guard, path.middle, path.exit}
SameNetwork(a, b) == (a.v4 # NoNet /\ a.v4 = b.v4) \/ (a.v6 # NoNet /\ a.v6 = b.v6)

\* No relay is on a path twice, however the path was made: "a collision causes
\* a self-dial loop when the middle hop tries to EXTEND" (anon-browse.mjs).
HopsDistinct ==
    Picked => /\ path.guard.fp # path.middle.fp /\ path.middle.fp # path.exit.fp
              /\ path.guard.fp # path.exit.fp

\* Without skipAntiCorrelation no two relays of pickPath share a network, and
\* the middle of the programs' own paths shares none with either end: "Two
\* relays co-located if they share the same /16 IPv4 prefix or /48 IPv6 prefix"
\* (consensus.mjs).  (Guard and exit of an own path may.)
NetworksDiffer ==
    (Picked /\ ~path.skip) =>
        /\ ~SameNetwork(path.middle, path.guard) /\ ~SameNetwork(path.middle, path.exit)
        /\ path.by = "pickPath" => ~SameNetwork(path.guard, path.exit)

\* A path of pickPath serves: each relay runs and is valid, the exit takes the
\* destination, and an existing guard that is usable is the guard although
\* later roles may then find nobody.
PathServes ==
    (Picked /\ path.by = "pickPath") =>
        /\ \A r \in Hops : usableRelay(r)
        /\ "Exit" \in path.exit.flags /\ "BadExit" \notin path.exit.flags
        /\ evaluate(path.exit.exitPolicy, path.destination) = "accept"
        /\ \/ \E i \in DOMAIN path.existing :
                 /\ path.guard.fp = path.existing[i]
                 /\ \A j \in 1..(i - 1) : \A r \in rses : r.fp = path.existing[j] => ~usableRelay(r)
           \/ /\ "Guard" \in path.guard.flags
              /\ \A i \in DOMAIN path.existing : \A r \in rses :
                    r.fp = path.existing[i] => ~usableRelay(r)

\* A path is one: three relays, apart from one another, that serve (pickPath and the
\* paths the programs pick themselves).
PathSound == HopsDistinct /\ NetworksDiffer /\ PathServes
=============================================================================
