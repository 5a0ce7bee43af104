---------------------------- MODULE ClientProofs ----------------------------
(***************************************************************************)
(* Proofs about what a client takes for the network, and how it uses it,   *)
(* whatever the documents, the trust sets, the policies and the times, and *)
(* however many connections:                                               *)
(*   - any two documents accepted under one trust set have a common signer *)
(*     (Consensus);                                                        *)
(*   - the consensus file is whole wherever the program stops              *)
(*     (ConsensusRefresh);                                                 *)
(*   - what holds of every path (PathSelection).  A path is made in one    *)
(*     step, so that the properties follow from what each way of making it *)
(*     guarantees;                                                         *)
(*   - the tunnel builds one circuit at a time, and a live standby circuit *)
(*     is never discarded (SocksTunnel);                                   *)
(*   - a key that a handshake ends with is a key of the responder, and a   *)
(*     message that nobody else's disturb is answered, whatever the order  *)
(*     of its fragments (Handshake).                                       *)
(***************************************************************************)
EXTENDS ConsensusRefresh, PathSelection, SocksTunnel, Handshake, Integers,
        FiniteSetTheorems, FunctionTheorems, TLAPS

-----------------------------------------------------------------------------
(* The signatures of a document                                            *)

\* Only authorities of the trust set count, and each of them signed the bytes
\* of the document (the first signature of a signer is one of its signatures).
LEMMA VerifiedSigned ==
    ASSUME NEW doc, NEW trust
    PROVE  /\ verified(doc, trust) \subseteq trust
           /\ \A a \in verified(doc, trust) : Signed(doc, a)
BY DEF verified, Signed

\* Two quorums are more than the trust set (the rounding down in `required').
LEMMA TwoQuorums ==
    ASSUME NEW n \in Nat, NEW v \in Nat, NEW w \in Nat,
           v >= (n \div 2) + 1, w >= (n \div 2) + 1
    PROVE  v + w > n
OBVIOUS

\* QuorumsMeet holds for every document and every set of others, every family of finite trust
\* sets and all times (parseConsensus of modules/v2/consensus.mjs).
THEOREM QuorumsAlwaysMeet == QuorumsMeet
<1> SUFFICES ASSUME NEW trust \in TrustSets, NEW t \in Times, parseConsensus(document, trust, t),
                    NEW other \in Documents, NEW u \in Times, parseConsensus(other, trust, u)
             PROVE  \E a \in trust : Signed(document, a) /\ Signed(other, a)
    BY DEF QuorumsMeet
<1> DEFINE V == verified(document, trust)
           W == verified(other, trust)
<1>1. IsFiniteSet(trust)
    BY ConsensusAssumption
<1>2. V \subseteq trust /\ W \subseteq trust
    BY VerifiedSigned
<1>3. IsFiniteSet(V) /\ IsFiniteSet(W)
    BY <1>1, <1>2, FS_Subset
<1>4. Cardinality(trust) \in Nat /\ Cardinality(V) \in Nat /\ Cardinality(W) \in Nat
    BY <1>1, <1>3, FS_CardinalityType
<1>5. Cardinality(V) >= required(trust) /\ Cardinality(W) >= required(trust)
    BY DEF parseConsensus
<1>6. Cardinality(V) + Cardinality(W) > Cardinality(trust)
    BY <1>4, <1>5, TwoQuorums DEF required
<1>7. PICK a : a \in V \cap W
    BY <1>1, <1>2, <1>6, FS_MajoritiesIntersect
<1> QED
    BY <1>2, <1>7, VerifiedSigned

-----------------------------------------------------------------------------
(* The consensus file                                                      *)

\* A chain that writes the temporary file of the bridge, or wrote it and has
\* yet to rename it.
Writing(c) == chains[c].at \in {"opened", "written"}

\* A fetch asks URLs that there are, and its chains are those of a fetch.
FetchesCounted ==
    /\ \A f \in 1..Len(next) : next[f] \in 1..(LastUrl + 1)
    /\ \A c \in DOMAIN chains : chains[c].fetch \in 1..Len(next)

\* What a chain asks for is served, and what it received was.
BodiesServed ==
    \A c \in DOMAIN chains :
        /\ chains[c].at = "asking" => chains[c].url \in Urls
        /\ (chains[c].at = "received" \/ Writing(c)) => chains[c].body \in Docs

\* The daemon of a relay has no temporary file that two chains could share.
RelayWritesNothing ==
    program = "relay" => \A c \in DOMAIN chains : ~Writing(c)

\* Unless two chains have had the temporary file at once, one chain at most
\* writes it, through the file of that name, and it is torn only meanwhile.
OneWriter ==
    ~mixed => /\ \A b, c \in DOMAIN chains : Writing(b) /\ Writing(c) => b = c
              /\ \A c \in DOMAIN chains : chains[c].at = "opened" => chains[c].file = "tmp"
              /\ tmp = Torn => \E c \in DOMAIN chains : chains[c].at = "opened"

\* The inductive invariant.
RefreshInv ==
    /\ RefreshTypeOK /\ FetchesCounted /\ BodiesServed
    /\ RelayWritesNothing /\ OneWriter /\ DestWhole /\ RelayRunsDest

\* Documents are neither absent nor torn.
LEMMA DocsAre ==
    /\ \A u \in Urls, t \in 0..MaxTime : Doc(u, t) \in Docs
    /\ \A d \in Docs : d \in Files /\ d # Absent /\ d # Torn
    /\ Absent \in Files /\ Torn \in Files /\ Absent # Torn
  BY RefreshAssumption DEF Docs, Doc, Files, Absent, Torn

\* A fetch's entry changes, and every other stays.
LEMMA EntryChanges ==
    ASSUME NEW S, NEW q \in Seq(S), NEW i \in DOMAIN q, NEW s \in S, NEW r,
           r = [q EXCEPT ![i] = s]
    PROVE  /\ r \in Seq(S) /\ Len(r) = Len(q) /\ DOMAIN r = DOMAIN q /\ r[i] = s
           /\ \A j \in DOMAIN q : j # i => r[j] = q[j]
  OBVIOUS

\* One more entry.
LEMMA EntryAdded ==
    ASSUME NEW S, NEW q \in Seq(S), NEW s \in S, NEW r, r = Append(q, s)
    PROVE  /\ r \in Seq(S) /\ Len(r) = Len(q) + 1 /\ r[Len(q) + 1] = s
           /\ \A j \in DOMAIN q : j \in DOMAIN r /\ r[j] = q[j]
           /\ \A j \in DOMAIN r : j \in DOMAIN q \/ j = Len(q) + 1
  OBVIOUS

\* A function on 1..n is a sequence.
LEMMA FunctionIsSeq ==
    ASSUME NEW S, NEW n \in Nat, NEW f \in [1..n -> S]
    PROVE  f \in Seq(S) /\ Len(f) = n
  OBVIOUS

\* A promise that settles once is still one.
LEMMA SettledIs ==
    ASSUME RefreshTypeOK, NEW f \in 1..Len(next), NEW v \in {"true", "false"}
    PROVE  Settled(f, v) \in {"pending", "true", "false"}
<1>1. outcome \in Seq({"pending", "true", "false"}) /\ Len(outcome) = Len(next)
  BY DEF RefreshTypeOK
<1> QED BY <1>1 DEF Settled

\* Chain c goes on as r, which writes nothing now.
GoesOn(c, r) ==
    /\ r \in Chain /\ r.fetch = chains[c].fetch
    /\ r.at \in {"asking", "done"} /\ (r.at = "asking" => r.url \in Urls)
    /\ chains' = [chains EXCEPT ![c] = r]

\* tryNext asks a URL that there is, or ends the chain.
LEMMA TryNextSays ==
    ASSUME RefreshInv, NEW c \in DOMAIN chains, tryNext(c)
    PROVE  /\ \E r : GoesOn(c, r)
           /\ next' \in Seq(Nat) /\ Len(next') = Len(next)
           /\ \A f \in 1..Len(next) : next'[f] \in 1..(LastUrl + 1)
           /\ outcome' \in Seq({"pending", "true", "false"}) /\ Len(outcome') = Len(next)
<1> DEFINE f == chains[c].fetch
<1>1. /\ next \in Seq(Nat) /\ outcome \in Seq({"pending", "true", "false"})
      /\ Len(outcome) = Len(next) /\ chains \in Seq(Chain) /\ chains[c] \in Chain
      /\ f \in 1..Len(next) /\ f \in 1..MaxFetches
      /\ \A g \in 1..Len(next) : next[g] \in 1..(LastUrl + 1)
  <2>1. /\ next \in Seq(Nat) /\ outcome \in Seq({"pending", "true", "false"})
        /\ Len(outcome) = Len(next) /\ chains \in Seq(Chain)
    BY DEF RefreshInv, RefreshTypeOK
  <2>2. chains[c] \in Chain
    BY <2>1
  <2>3. f \in 1..MaxFetches
    BY <2>2 DEF Chain
  <2> QED BY <2>1, <2>2, <2>3 DEF RefreshInv, FetchesCounted
<1>2. LastUrl \in Nat \ {0} /\ Urls = 1..LastUrl
  BY RefreshAssumption DEF LastUrl, Urls
<1>3. CASE next[f] > LastUrl
  <2> DEFINE r == [chains[c] EXCEPT !.at = "done", !.file = "none"]
  <2>1. chains' = [chains EXCEPT ![c].at = "done", ![c].file = "none"]
    BY <1>3 DEF tryNext
  <2>2. r \in Chain /\ r.fetch = f /\ r.at = "done"
    BY <1>1 DEF Chain
  <2>3. chains' = [chains EXCEPT ![c] = r]
    BY <1>1, <2>1 DEF Chain
  <2>4. outcome' = [outcome EXCEPT ![f] = Settled(f, "false")] /\ next' = next
    BY <1>3 DEF tryNext
  <2>5. Settled(f, "false") \in {"pending", "true", "false"}
    BY <1>1, SettledIs DEF RefreshInv
  <2>6. outcome' \in Seq({"pending", "true", "false"}) /\ Len(outcome') = Len(next)
    BY <1>1, <2>4, <2>5
  <2>7. GoesOn(c, r)
    BY <2>2, <2>3 DEF GoesOn
  <2> QED BY <1>1, <2>4, <2>6, <2>7
<1>4. CASE ~(next[f] > LastUrl)
  <2> DEFINE r == [chains[c] EXCEPT !.at = "asking", !.url = next[f], !.file = "none"]
  <2>1. chains' = [chains EXCEPT ![c] = r]
    BY <1>4 DEF tryNext
  <2>2. next[f] \in Urls
    BY <1>1, <1>2, <1>4
  <2>3. r \in Chain /\ r.fetch = f /\ r.at = "asking" /\ r.url \in Urls
    BY <1>1, <2>2 DEF Chain
  <2>4. next' = [next EXCEPT ![f] = @ + 1] /\ outcome' = outcome
    BY <1>4 DEF tryNext
  <2>5. /\ next' \in Seq(Nat) /\ Len(next') = Len(next)
        /\ \A g \in 1..Len(next) : next'[g] \in 1..(LastUrl + 1)
    BY <1>1, <1>2, <2>2, <2>4
  <2>6. GoesOn(c, r)
    BY <2>1, <2>3 DEF GoesOn
  <2> QED BY <1>1, <2>4, <2>5, <2>6
<1> QED BY <1>3, <1>4

\* The parts of the invariant that are about the chains.
ChainsInv == FetchesCounted /\ BodiesServed /\ RelayWritesNothing /\ OneWriter

\* A chain that goes on takes nothing from the others.
LEMMA GoesOnKeeps ==
    ASSUME RefreshInv, NEW c \in DOMAIN chains, chains[c].at # "opened", NEW r, GoesOn(c, r),
           next' \in Seq(Nat), Len(next') = Len(next),
           \A f \in 1..Len(next) : next'[f] \in 1..(LastUrl + 1),
           UNCHANGED <<program, tmp, mixed>>
    PROVE  chains' \in Seq(Chain) /\ ChainsInv'
<1>0. FetchesCounted /\ BodiesServed /\ RelayWritesNothing /\ OneWriter
  BY DEF RefreshInv
<1>1. chains \in Seq(Chain)
  BY DEF RefreshInv, RefreshTypeOK
<1>2. /\ r \in Chain /\ r.fetch = chains[c].fetch /\ r.at \in {"asking", "done"}
      /\ (r.at = "asking" => r.url \in Urls)
      /\ chains' = [chains EXCEPT ![c] = r]
  BY DEF GoesOn
<1>3. /\ chains' \in Seq(Chain) /\ DOMAIN chains' = DOMAIN chains /\ chains'[c] = r
      /\ \A b \in DOMAIN chains : b # c => chains'[b] = chains[b]
  BY <1>1, <1>2, EntryChanges
<1>4. FetchesCounted'
  BY <1>0, <1>2, <1>3 DEF FetchesCounted
<1>5. BodiesServed' /\ RelayWritesNothing'
  BY <1>0, <1>2, <1>3 DEF BodiesServed, RelayWritesNothing, Writing
<1>6. OneWriter'
  BY <1>0, <1>2, <1>3 DEF OneWriter, Writing
<1> QED BY <1>3, <1>4, <1>5, <1>6 DEF ChainsInv

\* Steps of the clock, the authorities, the launcher and the load of the file.
LEMMA OutsideKeeps ==
    ASSUME RefreshInv, Hour \/ Load \/ \E u \in Urls : Rebuild(u) \/ LauncherWrites(u)
    PROVE  RefreshInv'
<1>0. /\ clock \in 0..MaxTime /\ served \in [Urls -> Docs] /\ dest \in Files
      /\ phase \in {"off", "fetching", "running", "refused"} /\ loaded \in Files
  BY DEF RefreshInv, RefreshTypeOK
<1>1. /\ UNCHANGED <<program, tmp, next, outcome, chains, cuts, stops, mixed, since>>
      /\ phase' \in {"off", "fetching", "running", "refused"}
      /\ loaded' \in {loaded, dest} /\ clock' \in {clock, clock + 1}
      /\ clock' # clock => clock < MaxTime
  BY <1>0 DEF Hour, Load, Rebuild, LauncherWrites
<1>6. dest' \in Files
  BY <1>0, DocsAre DEF Hour, Load, Rebuild, LauncherWrites
<1>7. served' \in [Urls -> Docs]
  BY <1>0, DocsAre DEF Hour, Load, Rebuild, LauncherWrites
<1>8. clock' \in 0..MaxTime
  BY <1>0, <1>1, RefreshAssumption
<1>2. DestWhole'
  BY DocsAre DEF RefreshInv, RefreshTypeOK, DestWhole, Hour, Load, Rebuild, LauncherWrites
<1>3. RelayRunsDest'
  BY DEF RefreshInv, RelayRunsDest, Hour, Load, Rebuild, LauncherWrites
<1>4. RefreshTypeOK'
  BY <1>0, <1>1, <1>6, <1>7, <1>8 DEF RefreshInv, RefreshTypeOK
<1>5. ChainsInv'
  BY <1>1 DEF RefreshInv, ChainsInv, FetchesCounted, BodiesServed, RelayWritesNothing,
              OneWriter, Writing
<1> QED BY <1>2, <1>3, <1>4, <1>5 DEF RefreshInv, ChainsInv

\* A set of numbers has a smallest one (the finite sets 0..t are well-founded).
LEMMA SmallestNumber ==
    ASSUME NEW T, T \subseteq Nat, T # {}
    PROVE  \E t \in T : \A u \in T : t <= u
<1> DEFINE D == {0..t : t \in T}
           R == StrictSubsetOrdering(Nat)
<1>1. \A t \in T : 0..t \in FiniteSubsetsOf(Nat)
  BY FS_Interval DEF FiniteSubsetsOf
<1>2. D \subseteq FiniteSubsetsOf(Nat) /\ D # {}
  BY <1>1
<1>3. IsWellFoundedOn(R, FiniteSubsetsOf(Nat))
  BY FS_StrictSubsetOrderingWellFounded
<1> HIDE DEF D, R
<1>4. PICK d \in D : \A c \in D : ~ (<<c, d>> \in R)
  BY <1>2, <1>3, WFMin, Zenon
<1>5. PICK t \in T : d = 0..t
  BY <1>4 DEF D
<1>6. ASSUME NEW u \in T, u < t
      PROVE  FALSE
  <2>1. 0..u \in D /\ 0..u \subseteq d /\ 0..u # d
    BY <1>5, <1>6 DEF D
  <2>2. 0..u \in SUBSET Nat /\ d \in SUBSET Nat
    BY <1>5
  <2> QED BY <1>4, <2>1, <2>2 DEF R, StrictSubsetOrdering
<1> QED BY <1>6

\* A fetch adds a chain that writes nothing yet.
LEMMA FetchKeeps ==
    ASSUME RefreshInv, fetchConsensus, UNCHANGED <<program, tmp, mixed>>
    PROVE  /\ next' \in Seq(Nat) /\ Len(next') <= MaxFetches
           /\ outcome' \in Seq({"pending", "true", "false"}) /\ Len(outcome') = Len(next')
           /\ chains' \in Seq(Chain) /\ ChainsInv'
<1> DEFINE r == [fetch |-> Len(next) + 1, url |-> 1, at |-> "asking",
                 body |-> Absent, file |-> "none"]
<1>0. FetchesCounted /\ BodiesServed /\ RelayWritesNothing /\ OneWriter
  BY DEF RefreshInv
<1>1. /\ next \in Seq(Nat) /\ outcome \in Seq({"pending", "true", "false"})
      /\ Len(outcome) = Len(next) /\ chains \in Seq(Chain)
  BY DEF RefreshInv, RefreshTypeOK
<1>2. LastUrl \in Nat \ {0} /\ Urls = 1..LastUrl /\ MaxFetches \in Nat
  BY RefreshAssumption DEF LastUrl, Urls
<1>3. /\ Len(next) < MaxFetches /\ next' = Append(next, 2)
      /\ outcome' = Append(outcome, "pending") /\ chains' = Append(chains, r)
  BY DEF fetchConsensus
<1>4. r \in Chain
  BY <1>1, <1>2, <1>3, DocsAre DEF Chain
<1>5. /\ r.fetch = Len(next) + 1 /\ r.at = "asking" /\ r.url \in Urls
  BY <1>2
<1> HIDE DEF r
<1>6. /\ chains' \in Seq(Chain) /\ Len(chains') = Len(chains) + 1
      /\ chains'[Len(chains) + 1] = r
      /\ \A b \in DOMAIN chains : b \in DOMAIN chains' /\ chains'[b] = chains[b]
      /\ \A b \in DOMAIN chains' : b \in DOMAIN chains \/ b = Len(chains) + 1
  BY <1>1, <1>3, <1>4, EntryAdded
<1>7. /\ next' \in Seq(Nat) /\ Len(next') = Len(next) + 1 /\ next'[Len(next) + 1] = 2
      /\ \A f \in 1..Len(next) : next'[f] = next[f]
      /\ Len(next') <= MaxFetches
      /\ outcome' \in Seq({"pending", "true", "false"}) /\ Len(outcome') = Len(next')
  BY <1>1, <1>2, <1>3
<1>8. FetchesCounted'
  <2>1. \A f \in 1..Len(next') : next'[f] \in 1..(LastUrl + 1)
    <3>1. Len(next) \in Nat
      BY <1>1
    <3>2. \A f \in 1..Len(next') : f \in 1..Len(next) \/ f = Len(next) + 1
      BY <1>7, <3>1
    <3>3. 2 \in 1..(LastUrl + 1)
      BY <1>2
    <3> QED BY <1>0, <1>7, <3>2, <3>3 DEF FetchesCounted
  <2>2. \A c \in DOMAIN chains' : chains'[c].fetch \in 1..Len(next')
    BY <1>0, <1>1, <1>5, <1>6, <1>7, SMTT(30) DEF FetchesCounted
  <2> QED BY <2>1, <2>2 DEF FetchesCounted
<1>9. BodiesServed' /\ RelayWritesNothing'
  BY <1>0, <1>5, <1>6 DEF BodiesServed, RelayWritesNothing, Writing
<1>10. OneWriter'
  BY <1>0, <1>5, <1>6 DEF OneWriter, Writing
<1> QED BY <1>6, <1>7, <1>8, <1>9, <1>10 DEF ChainsInv

\* The program starts, or fetches at an interval.
LEMMA StartKeeps ==
    ASSUME RefreshInv, StartProgram \/ Interval
    PROVE  RefreshInv'
<1>0. RefreshTypeOK /\ DestWhole /\ RelayRunsDest
  BY DEF RefreshInv
<1>1. /\ fetchConsensus
      /\ UNCHANGED <<program, clock, served, dest, tmp, loaded, cuts, stops, mixed>>
      /\ phase' \in {phase, "fetching"}
  BY DEF StartProgram, Interval
<1>2. since' \in 0..MaxTime
  <2>1. CASE Interval
    BY <1>0, <2>1 DEF Interval, RefreshTypeOK
  <2>2. CASE StartProgram
    <3> DEFINE T == {served[u].at : u \in Urls}
    <3>1. 1 \in Urls
      BY RefreshAssumption DEF Urls
    <3>2. \A u \in Urls : served[u] \in Docs /\ served[u].at \in 0..MaxTime
      BY <1>0 DEF RefreshTypeOK, Docs, Doc
    <3>3. T # {} /\ T \subseteq 0..MaxTime /\ T \subseteq Nat
      BY <3>1, <3>2, RefreshAssumption
    <3>4. \E t \in T : \A u \in T : t <= u
      BY <3>3, SmallestNumber
    <3>5. \E t \in T : \A u \in Urls : t <= served[u].at
      BY <3>4
    <3>6. since' = CHOOSE t \in T : \A u \in Urls : t <= served[u].at
      BY <2>2 DEF StartProgram
    <3>7. since' \in T
      BY <3>5, <3>6
    <3> QED BY <3>3, <3>7
  <2> QED BY <2>1, <2>2
<1>3. /\ next' \in Seq(Nat) /\ Len(next') <= MaxFetches
      /\ outcome' \in Seq({"pending", "true", "false"}) /\ Len(outcome') = Len(next')
      /\ chains' \in Seq(Chain) /\ ChainsInv'
  BY <1>1, FetchKeeps
<1>4. RefreshTypeOK'
  BY <1>0, <1>1, <1>2, <1>3 DEF RefreshTypeOK
<1>5. DestWhole' /\ RelayRunsDest'
  BY <1>0, <1>1 DEF DestWhole, RelayRunsDest
<1> QED BY <1>3, <1>4, <1>5 DEF RefreshInv, ChainsInv

\* A process that ends takes its chains and its temporary file with it.
LEMMA StopKeeps ==
    ASSUME RefreshInv, StopProgram
    PROVE  RefreshInv'
<1>0. RefreshTypeOK /\ FetchesCounted /\ DestWhole
  BY DEF RefreshInv
<1>1. /\ UNCHANGED <<program, clock, served, dest, next, cuts, mixed, since>>
      /\ phase' = "off" /\ loaded' = Absent /\ tmp' = Absent
      /\ stops < MaxStops /\ stops' = stops + 1
      /\ chains' = [c \in DOMAIN chains |-> [chains[c] EXCEPT !.at = "done", !.file = "none"]]
      /\ outcome' = [f \in DOMAIN next |-> Settled(f, "false")]
  BY DEF StopProgram
<1>2. /\ chains \in Seq(Chain) /\ next \in Seq(Nat) /\ stops \in Nat /\ MaxStops \in Nat
  BY <1>0, RefreshAssumption DEF RefreshTypeOK
<1>3. ASSUME NEW c \in DOMAIN chains
      PROVE  /\ chains'[c] \in Chain /\ chains'[c].at = "done"
             /\ chains'[c].fetch = chains[c].fetch
  <2>1. chains[c] \in Chain
    BY <1>2
  <2>2. chains'[c] = [chains[c] EXCEPT !.at = "done", !.file = "none"]
    BY <1>1
  <2> QED BY <2>1, <2>2 DEF Chain
<1>4. chains' \in Seq(Chain) /\ DOMAIN chains' = DOMAIN chains
  <2>1. DOMAIN chains = 1..Len(chains) /\ Len(chains) \in Nat
    BY <1>2
  <2>2. DOMAIN chains' = DOMAIN chains /\ chains' = [c \in DOMAIN chains |-> chains'[c]]
    BY <1>1
  <2>3. chains' \in [1..Len(chains) -> Chain]
    BY <1>3, <2>1, <2>2
  <2> QED BY <2>1, <2>2, <2>3, FunctionIsSeq
<1>5. outcome' \in Seq({"pending", "true", "false"}) /\ Len(outcome') = Len(next)
  <2>1. DOMAIN next = 1..Len(next) /\ Len(next) \in Nat
    BY <1>2
  <2>2. \A f \in DOMAIN next : Settled(f, "false") \in {"pending", "true", "false"}
    BY <1>0, <2>1, SettledIs
  <2>3. outcome' \in [1..Len(next) -> {"pending", "true", "false"}]
    BY <1>1, <2>1, <2>2
  <2> QED BY <2>1, <2>3, FunctionIsSeq
<1>6. RefreshTypeOK'
  <2>1. stops' \in 0..MaxStops
    <3>1. stops < MaxStops /\ stops' = stops + 1
      BY <1>1
    <3> QED BY <1>2, <3>1
  <2> QED BY <1>0, <1>1, <1>4, <1>5, <2>1, DocsAre DEF RefreshTypeOK
<1>7. ChainsInv'
  BY <1>0, <1>1, <1>3, <1>4, DocsAre
     DEF ChainsInv, FetchesCounted, BodiesServed, RelayWritesNothing, OneWriter, Writing
<1>8. DestWhole' /\ RelayRunsDest'
  BY <1>0, <1>1 DEF DestWhole, RelayRunsDest
<1> QED BY <1>6, <1>7, <1>8 DEF RefreshInv, ChainsInv

\* What every chain step finds.
LEMMA ChainHere ==
    ASSUME RefreshInv, NEW c \in DOMAIN chains
    PROVE  /\ chains \in Seq(Chain) /\ chains[c] \in Chain
           /\ next \in Seq(Nat) /\ Len(next) <= MaxFetches /\ Len(next) \in Nat
           /\ outcome \in Seq({"pending", "true", "false"}) /\ Len(outcome) = Len(next)
           /\ chains[c].fetch \in 1..Len(next) /\ chains[c].fetch \in 1..MaxFetches
           /\ \A f \in 1..Len(next) : next[f] \in 1..(LastUrl + 1)
<1>1. /\ chains \in Seq(Chain) /\ next \in Seq(Nat) /\ Len(next) <= MaxFetches
      /\ outcome \in Seq({"pending", "true", "false"}) /\ Len(outcome) = Len(next)
  BY DEF RefreshInv, RefreshTypeOK
<1>2. chains[c] \in Chain /\ Len(next) \in Nat
  BY <1>1
<1>3. chains[c].fetch \in 1..MaxFetches
  BY <1>2 DEF Chain
<1> QED BY <1>1, <1>2, <1>3 DEF RefreshInv, FetchesCounted

\* The promise of a chain's fetch settles, or did before.
LEMMA OutcomeSettles ==
    ASSUME RefreshInv, NEW c \in DOMAIN chains, NEW v \in {"true", "false"}, NEW o,
           o = [outcome EXCEPT ![chains[c].fetch] = Settled(chains[c].fetch, v)]
    PROVE  o \in Seq({"pending", "true", "false"}) /\ Len(o) = Len(next)
<1>1. /\ outcome \in Seq({"pending", "true", "false"}) /\ Len(outcome) = Len(next)
      /\ chains[c].fetch \in DOMAIN outcome
  BY ChainHere
<1>2. Settled(chains[c].fetch, v) \in {"pending", "true", "false"}
  BY ChainHere, SettledIs DEF RefreshInv
<1> QED BY <1>1, <1>2, EntryChanges

\* A request that fails, for one URL.
LEMMA RequestFailsKeeps ==
    ASSUME RefreshInv, NEW c \in DOMAIN chains, RequestFails(c)
    PROVE  RefreshInv'
<1>0. RefreshTypeOK /\ DestWhole /\ RelayRunsDest
  BY DEF RefreshInv
<1>1. /\ chains[c].at = "asking" /\ tryNext(c)
      /\ UNCHANGED <<program, clock, served, phase, dest, tmp, loaded, cuts, stops, mixed, since>>
  BY DEF RequestFails
<1>2. /\ next' \in Seq(Nat) /\ Len(next') = Len(next)
      /\ \A f \in 1..Len(next) : next'[f] \in 1..(LastUrl + 1)
      /\ outcome' \in Seq({"pending", "true", "false"}) /\ Len(outcome') = Len(next)
  BY <1>1, TryNextSays
<1>3. chains' \in Seq(Chain) /\ ChainsInv'
  BY <1>1, <1>2, TryNextSays, GoesOnKeeps
<1>4. RefreshTypeOK'
  BY <1>0, <1>1, <1>2, <1>3 DEF RefreshTypeOK
<1>5. DestWhole' /\ RelayRunsDest'
  BY <1>0, <1>1 DEF DestWhole, RelayRunsDest
<1> QED BY <1>3, <1>4, <1>5 DEF RefreshInv, ChainsInv

\* A response that breaks off leaves two chains of the same fetch, neither of
\* which writes.
LEMMA ResponseBreaksOffKeeps ==
    ASSUME RefreshInv, NEW c \in DOMAIN chains, ResponseBreaksOff(c)
    PROVE  RefreshInv'
<1> DEFINE f == chains[c].fetch
           asked(k) == [chains[c] EXCEPT !.url = IF k > LastUrl THEN 0 ELSE k,
                                         !.at = IF k > LastUrl THEN "done" ELSE "asking"]
           r == asked(next[f])
           s == asked(next[f] + 1)
           w == [chains EXCEPT ![c] = r]
<1>0. /\ RefreshTypeOK /\ DestWhole /\ RelayRunsDest
      /\ FetchesCounted /\ BodiesServed /\ RelayWritesNothing /\ OneWriter
  BY DEF RefreshInv
<1>1. /\ chains[c].at = "asking" /\ program = "bridge" /\ cuts < MaxCuts
      /\ cuts' = cuts + 1
      /\ chains' = Append(w, s)
      /\ outcome' = IF next[f] + 1 > LastUrl THEN [outcome EXCEPT ![f] = Settled(f, "false")] ELSE outcome
      /\ next' = [next EXCEPT ![f] = IF @ + 2 > LastUrl + 1 THEN LastUrl + 1 ELSE @ + 2]
      /\ UNCHANGED <<program, clock, served, phase, dest, tmp, loaded, stops, mixed, since>>
  BY DEF ResponseBreaksOff
<1>2. /\ chains \in Seq(Chain) /\ chains[c] \in Chain
      /\ next \in Seq(Nat) /\ Len(next) <= MaxFetches /\ f \in 1..Len(next)
      /\ \A g \in 1..Len(next) : next[g] \in 1..(LastUrl + 1)
      /\ outcome \in Seq({"pending", "true", "false"}) /\ Len(outcome) = Len(next)
  BY ChainHere
<1>3. LastUrl \in Nat \ {0} /\ Urls = 1..LastUrl
  BY RefreshAssumption DEF LastUrl, Urls
<1>4. ASSUME NEW k \in 1..(LastUrl + 2)
      PROVE  /\ asked(k) \in Chain /\ asked(k).fetch = f
             /\ asked(k).at \in {"asking", "done"}
             /\ asked(k).at = "asking" => asked(k).url \in Urls
  <2>1. CASE k > LastUrl
    <3>1. asked(k) = [chains[c] EXCEPT !.url = 0, !.at = "done"]
      BY <2>1
    <3> QED BY <1>2, <3>1 DEF Chain
  <2>2. CASE ~(k > LastUrl)
    <3>1. asked(k) = [chains[c] EXCEPT !.url = k, !.at = "asking"] /\ k \in Urls
      BY <1>3, <2>2
    <3> QED BY <1>2, <3>1 DEF Chain
  <2> QED BY <2>1, <2>2
<1>5. next[f] \in 1..(LastUrl + 2) /\ next[f] + 1 \in 1..(LastUrl + 2)
  BY <1>2, <1>3
<1>6. /\ r \in Chain /\ r.fetch = f /\ r.at \in {"asking", "done"}
      /\ r.at = "asking" => r.url \in Urls
      /\ s \in Chain /\ s.fetch = f /\ s.at \in {"asking", "done"}
      /\ s.at = "asking" => s.url \in Urls
  BY <1>4, <1>5
<1> HIDE DEF asked, r, s
<1>7. /\ w \in Seq(Chain) /\ Len(w) = Len(chains) /\ DOMAIN w = DOMAIN chains /\ w[c] = r
      /\ \A b \in DOMAIN chains : b # c => w[b] = chains[b]
  BY <1>2, <1>6, EntryChanges
<1> HIDE DEF w
<1>8. /\ chains' \in Seq(Chain) /\ chains'[Len(chains) + 1] = s
      /\ \A b \in DOMAIN chains : b \in DOMAIN chains' /\ chains'[b] = w[b]
      /\ \A b \in DOMAIN chains' : b \in DOMAIN chains \/ b = Len(chains) + 1
  BY <1>1, <1>6, <1>7, EntryAdded, SMTT(30)
<1>9. \A b \in DOMAIN chains' :
          \/ b \in DOMAIN chains /\ b # c /\ chains'[b] = chains[b]
          \/ chains'[b] \in {r, s}
  BY <1>7, <1>8
<1>10. /\ next' \in Seq(Nat) /\ Len(next') = Len(next)
       /\ \A g \in 1..Len(next) : next'[g] \in 1..(LastUrl + 1)
  <2> DEFINE v == IF next[f] + 2 > LastUrl + 1 THEN LastUrl + 1 ELSE next[f] + 2
  <2>1. v \in Nat /\ v \in 1..(LastUrl + 1)
    BY <1>2, <1>3
  <2>2. next' = [next EXCEPT ![f] = v] /\ f \in DOMAIN next
    BY <1>1, <1>2
  <2> HIDE DEF v, f
  <2>3. /\ next' \in Seq(Nat) /\ Len(next') = Len(next) /\ next'[f] = v
        /\ \A g \in DOMAIN next : g # f => next'[g] = next[g]
    BY <1>2, <2>1, <2>2, EntryChanges
  <2>4. DOMAIN next = 1..Len(next)
    BY <1>2
  <2>5. \A g \in 1..Len(next) : next[g] \in 1..(LastUrl + 1)
    BY <1>2
  <2> QED BY <2>1, <2>3, <2>4, <2>5
<1>11. outcome' \in Seq({"pending", "true", "false"}) /\ Len(outcome') = Len(next)
  BY <1>1, <1>2, OutcomeSettles
<1>12. cuts' \in 0..MaxCuts
  <2>1. cuts \in Nat /\ MaxCuts \in Nat /\ cuts < MaxCuts /\ cuts' = cuts + 1
    BY <1>0, <1>1, RefreshAssumption DEF RefreshTypeOK
  <2> QED BY <2>1
<1>13. RefreshTypeOK'
  BY <1>0, <1>1, <1>2, <1>8, <1>10, <1>11, <1>12 DEF RefreshTypeOK
<1>14. FetchesCounted'
  BY <1>0, <1>2, <1>6, <1>9, <1>10 DEF FetchesCounted
<1>15. BodiesServed' /\ RelayWritesNothing'
  BY <1>0, <1>1, <1>6, <1>9 DEF BodiesServed, RelayWritesNothing, Writing
<1>16. OneWriter'
  <2>1. \A b \in DOMAIN chains : chains[b].at = "opened" =>
            b \in DOMAIN chains' /\ chains'[b] = chains[b]
    BY <1>1, <1>7, <1>8
  <2> QED BY <1>0, <1>1, <1>6, <1>9, <2>1 DEF OneWriter, Writing
<1>17. DestWhole' /\ RelayRunsDest'
  BY <1>0, <1>1 DEF DestWhole, RelayRunsDest
<1> QED BY <1>13, <1>14, <1>15, <1>16, <1>17 DEF RefreshInv

\* The body that arrives is the one served.
LEMMA BodyArrivesKeeps ==
    ASSUME RefreshInv, NEW c \in DOMAIN chains, BodyArrives(c)
    PROVE  RefreshInv'
<1> DEFINE r == [chains[c] EXCEPT !.at = "received", !.body = served[chains[c].url]]
<1>0. /\ RefreshTypeOK /\ DestWhole /\ RelayRunsDest
      /\ FetchesCounted /\ BodiesServed /\ RelayWritesNothing /\ OneWriter
  BY DEF RefreshInv
<1>1. /\ chains[c].at = "asking"
      /\ chains' = [chains EXCEPT ![c].at = "received", ![c].body = served[chains[c].url]]
      /\ UNCHANGED <<program, clock, served, phase, dest, tmp, next, outcome, loaded, cuts,
                     stops, mixed, since>>
  BY DEF BodyArrives
<1>2. chains \in Seq(Chain) /\ chains[c] \in Chain
  BY ChainHere
<1>3. served[chains[c].url] \in Docs
  BY <1>0, <1>1 DEF BodiesServed, RefreshTypeOK
<1>4. /\ r \in Chain /\ r.fetch = chains[c].fetch /\ r.at = "received" /\ r.body \in Docs
      /\ chains' = [chains EXCEPT ![c] = r]
  BY <1>1, <1>2, <1>3, DocsAre DEF Chain
<1> HIDE DEF r
<1>5. /\ chains' \in Seq(Chain) /\ DOMAIN chains' = DOMAIN chains /\ chains'[c] = r
      /\ \A b \in DOMAIN chains : b # c => chains'[b] = chains[b]
  BY <1>2, <1>4, EntryChanges
<1>6. RefreshTypeOK'
  BY <1>0, <1>1, <1>5 DEF RefreshTypeOK
<1>7. FetchesCounted' /\ BodiesServed' /\ RelayWritesNothing'
  BY <1>0, <1>1, <1>4, <1>5, ZenonT(30) DEF FetchesCounted, BodiesServed, RelayWritesNothing, Writing
<1>8. OneWriter'
  BY <1>0, <1>1, <1>4, <1>5 DEF OneWriter, Writing
<1>9. DestWhole' /\ RelayRunsDest'
  BY <1>0, <1>1 DEF DestWhole, RelayRunsDest
<1> QED BY <1>6, <1>7, <1>8, <1>9 DEF RefreshInv

\* A chain that opens the temporary file is the only one, or mixed says so.
LEMMA OpenTmpKeeps ==
    ASSUME RefreshInv, NEW c \in DOMAIN chains, OpenTmp(c)
    PROVE  RefreshInv'
<1> DEFINE r == [chains[c] EXCEPT !.at = "opened", !.file = "tmp"]
<1>0. /\ RefreshTypeOK /\ DestWhole /\ RelayRunsDest
      /\ FetchesCounted /\ BodiesServed /\ RelayWritesNothing /\ OneWriter
  BY DEF RefreshInv
<1>1. /\ chains[c].at = "received" /\ program = "bridge"
      /\ chains' = [chains EXCEPT ![c].at = "opened", ![c].file = "tmp"]
      /\ tmp' = Torn
      /\ mixed' = (mixed \/ \E b \in DOMAIN chains \ {c} : chains[b].at \in {"opened", "written"})
      /\ UNCHANGED <<program, clock, served, phase, dest, next, outcome, loaded, cuts, stops, since>>
  BY DEF OpenTmp
<1>2. chains \in Seq(Chain) /\ chains[c] \in Chain
  BY ChainHere
<1>3. /\ r \in Chain /\ r.fetch = chains[c].fetch /\ r.at = "opened" /\ r.file = "tmp"
      /\ r.body = chains[c].body /\ chains' = [chains EXCEPT ![c] = r]
  BY <1>1, <1>2 DEF Chain
<1> HIDE DEF r
<1>4. /\ chains' \in Seq(Chain) /\ DOMAIN chains' = DOMAIN chains /\ chains'[c] = r
      /\ \A b \in DOMAIN chains : b # c => chains'[b] = chains[b]
  BY <1>2, <1>3, EntryChanges
<1>5. RefreshTypeOK'
  BY <1>0, <1>1, <1>4, DocsAre DEF RefreshTypeOK
<1>6. FetchesCounted' /\ BodiesServed' /\ RelayWritesNothing'
  BY <1>0, <1>1, <1>3, <1>4 DEF FetchesCounted, BodiesServed, RelayWritesNothing, Writing
<1>7. OneWriter'
  <2>1. ASSUME ~mixed'
        PROVE  ~mixed /\ \A b \in DOMAIN chains : b # c => ~Writing(b)
    BY <1>1, <2>1 DEF Writing
  <2> QED BY <1>0, <1>3, <1>4, <2>1 DEF OneWriter, Writing
<1>8. DestWhole' /\ RelayRunsDest'
  <2>1. mixed => mixed'
    BY <1>1
  <2> QED BY <1>0, <1>1, <2>1 DEF DestWhole, RelayRunsDest
<1> QED BY <1>5, <1>6, <1>7, <1>8 DEF RefreshInv

\* The only chain that has the temporary file open writes a whole document.
LEMMA WriteKeeps ==
    ASSUME RefreshInv, NEW c \in DOMAIN chains, Write(c)
    PROVE  RefreshInv'
<1> DEFINE r == [chains[c] EXCEPT !.at = "written", !.file = "none"]
<1>0. /\ RefreshTypeOK /\ DestWhole /\ RelayRunsDest
      /\ FetchesCounted /\ BodiesServed /\ RelayWritesNothing /\ OneWriter
  BY DEF RefreshInv
<1>1. /\ chains[c].at = "opened"
      /\ chains' = [chains EXCEPT ![c].at = "written", ![c].file = "none"]
      /\ UNCHANGED <<program, clock, served, phase, next, outcome, loaded, cuts, stops, mixed, since>>
  BY DEF Write
<1>2. PICK content \in {chains[c].body} \cup (IF mixed THEN {Torn} ELSE {}) :
          /\ tmp' = IF chains[c].file = "tmp" THEN content ELSE tmp
          /\ dest' = IF chains[c].file = "dest" THEN content ELSE dest
  BY DEF Write
<1>3. chains \in Seq(Chain) /\ chains[c] \in Chain /\ chains[c].body \in Docs
  BY <1>0, <1>1, ChainHere DEF BodiesServed, Writing
<1>4. /\ r \in Chain /\ r.fetch = chains[c].fetch /\ r.at = "written"
      /\ r.body = chains[c].body /\ chains' = [chains EXCEPT ![c] = r]
  BY <1>1, <1>3 DEF Chain
<1> HIDE DEF r
<1>5. /\ chains' \in Seq(Chain) /\ DOMAIN chains' = DOMAIN chains /\ chains'[c] = r
      /\ \A b \in DOMAIN chains : b # c => chains'[b] = chains[b]
  BY <1>3, <1>4, EntryChanges
<1>6. content \in Files /\ tmp \in Files /\ dest \in Files
  BY <1>0, <1>3, DocsAre DEF RefreshTypeOK
<1>7. tmp' \in Files /\ dest' \in Files
  BY <1>2, <1>6
<1>8. RefreshTypeOK'
  BY <1>0, <1>1, <1>5, <1>7 DEF RefreshTypeOK
<1>9. ASSUME ~mixed
      PROVE  /\ chains[c].file = "tmp" /\ tmp' = chains[c].body /\ tmp' # Torn /\ dest' = dest
             /\ \A b \in DOMAIN chains : b # c => ~Writing(b)
  BY <1>0, <1>1, <1>2, <1>3, <1>9, DocsAre DEF OneWriter, Writing
<1>10. FetchesCounted' /\ BodiesServed' /\ RelayWritesNothing'
  BY <1>0, <1>1, <1>3, <1>4, <1>5 DEF FetchesCounted, BodiesServed, RelayWritesNothing, Writing
<1>11. OneWriter'
  BY <1>1, <1>4, <1>5, <1>9 DEF OneWriter, Writing
<1>12. DestWhole'
  BY <1>0, <1>1, <1>9 DEF DestWhole
<1>13. RelayRunsDest'
  BY <1>0, <1>1 DEF RelayRunsDest, RelayWritesNothing, Writing
<1> QED BY <1>8, <1>10, <1>11, <1>12, <1>13 DEF RefreshInv

\* What is renamed to the consensus file is whole: a chain that would have torn
\* it is another one that writes.
LEMMA RenameKeeps ==
    ASSUME RefreshInv, NEW c \in DOMAIN chains, Rename(c)
    PROVE  RefreshInv'
<1>0. /\ RefreshTypeOK /\ DestWhole /\ RelayRunsDest
      /\ FetchesCounted /\ BodiesServed /\ RelayWritesNothing /\ OneWriter
  BY DEF RefreshInv
<1>1. /\ chains[c].at = "written" /\ program # "relay"
      /\ UNCHANGED <<program, clock, served, phase, loaded, cuts, stops, mixed, since>>
  BY <1>0 DEF Rename, RelayWritesNothing, Writing
<1>2. RelayRunsDest'
  BY <1>1 DEF RelayRunsDest
<1>3. CASE /\ tmp # Absent
           /\ dest' = tmp /\ tmp' = Absent
           /\ chains' = [Moved(c) EXCEPT ![c].at = "done"]
           /\ outcome' = [outcome EXCEPT ![chains[c].fetch] = Settled(chains[c].fetch, "true")]
           /\ UNCHANGED next
  <2>1. outcome' \in Seq({"pending", "true", "false"}) /\ Len(outcome') = Len(next)
    BY <1>3, OutcomeSettles
  <2>2. chains \in Seq(Chain) /\ DOMAIN chains = 1..Len(chains) /\ Len(chains) \in Nat
    BY ChainHere
  <2>3. DOMAIN Moved(c) = DOMAIN chains
    BY DEF Moved
  <2>4. ASSUME NEW b \in DOMAIN chains
        PROVE  /\ chains'[b] \in Chain /\ chains'[b].fetch = chains[b].fetch
               /\ chains'[b].url = chains[b].url /\ chains'[b].body = chains[b].body
               /\ chains'[b].at = IF b = c THEN "done" ELSE chains[b].at
    <3>1. chains[b] \in Chain
      BY <2>2
    <3>2. PICK file \in {"none", "tmp", "dest", "unlinked"} :
             Moved(c)[b] = [chains[b] EXCEPT !.file = file]
      BY <3>1 DEF Moved, Chain
    <3>3. chains'[b] = IF b = c THEN [Moved(c)[b] EXCEPT !.at = "done"] ELSE Moved(c)[b]
      BY <1>3, <2>3
    <3> QED BY <3>1, <3>2, <3>3, ZenonT(30) DEF Chain
  <2>5. chains' \in Seq(Chain) /\ DOMAIN chains' = DOMAIN chains
    <3>1. DOMAIN chains' = DOMAIN chains /\ chains' = [b \in DOMAIN chains |-> chains'[b]]
      BY <1>3, <2>3
    <3>2. chains' \in [1..Len(chains) -> Chain]
      BY <2>2, <2>4, <3>1
    <3> QED BY <2>2, <3>1, <3>2, FunctionIsSeq
  <2>6. RefreshTypeOK'
    BY <1>0, <1>1, <1>3, <2>1, <2>5, DocsAre DEF RefreshTypeOK
  <2>7. FetchesCounted' /\ BodiesServed'
    BY <1>0, <1>1, <1>3, <2>4, <2>5, SMTT(30) DEF FetchesCounted, BodiesServed, Writing
  <2>8. RelayWritesNothing'
    BY <1>1 DEF RelayWritesNothing
  <2>9. ASSUME ~mixed
        PROVE  tmp # Torn /\ \A b \in DOMAIN chains : b # c => ~Writing(b)
    BY <1>0, <1>1, <2>9 DEF OneWriter, Writing
  <2>10. OneWriter'
    BY <1>1, <1>3, <2>4, <2>5, <2>9, DocsAre DEF OneWriter, Writing
  <2>11. DestWhole'
    BY <1>1, <1>3, <2>9 DEF DestWhole
  <2> QED BY <1>2, <2>6, <2>7, <2>8, <2>10, <2>11 DEF RefreshInv
<1>4. CASE tmp = Absent /\ tryNext(c) /\ UNCHANGED <<dest, tmp>>
  <2>1. /\ next' \in Seq(Nat) /\ Len(next') = Len(next)
        /\ \A f \in 1..Len(next) : next'[f] \in 1..(LastUrl + 1)
        /\ outcome' \in Seq({"pending", "true", "false"}) /\ Len(outcome') = Len(next)
    BY <1>4, TryNextSays
  <2>2. chains' \in Seq(Chain) /\ ChainsInv'
    BY <1>1, <1>4, <2>1, TryNextSays, GoesOnKeeps
  <2>3. RefreshTypeOK'
    BY <1>0, <1>1, <1>4, <2>1, <2>2 DEF RefreshTypeOK
  <2>4. DestWhole'
    BY <1>0, <1>1, <1>4 DEF DestWhole
  <2> QED BY <1>2, <2>2, <2>3, <2>4 DEF RefreshInv, ChainsInv
<1> QED BY <1>3, <1>4 DEF Rename

\* A relay that runs goes down when the file it loaded is replaced by another.
LEMMA AdoptKeeps ==
    ASSUME RefreshInv, NEW c \in DOMAIN chains, Adopt(c)
    PROVE  RefreshInv'
<1> DEFINE r == [chains[c] EXCEPT !.at = "done"]
<1>0. /\ RefreshTypeOK /\ DestWhole /\ RelayRunsDest
      /\ FetchesCounted /\ BodiesServed /\ RelayWritesNothing /\ OneWriter
  BY DEF RefreshInv
<1>1. /\ chains[c].at = "received" /\ dest' = chains[c].body
      /\ chains' = [chains EXCEPT ![c].at = "done"]
      /\ outcome' = [outcome EXCEPT ![chains[c].fetch] = Settled(chains[c].fetch, "true")]
      /\ \/ phase = "running" /\ dest # chains[c].body /\ phase' = "off" /\ loaded' = Absent
         \/ ~(phase = "running" /\ dest # chains[c].body) /\ UNCHANGED <<phase, loaded>>
      /\ UNCHANGED <<program, clock, served, tmp, next, cuts, stops, mixed, since>>
  BY DEF Adopt
<1>2. chains \in Seq(Chain) /\ chains[c] \in Chain /\ chains[c].body \in Docs
  BY <1>0, <1>1, ChainHere DEF BodiesServed
<1>3. r \in Chain /\ r.fetch = chains[c].fetch /\ r.at = "done" /\ chains' = [chains EXCEPT ![c] = r]
  BY <1>1, <1>2 DEF Chain
<1> HIDE DEF r
<1>4. /\ chains' \in Seq(Chain) /\ DOMAIN chains' = DOMAIN chains /\ chains'[c] = r
      /\ \A b \in DOMAIN chains : b # c => chains'[b] = chains[b]
  BY <1>2, <1>3, EntryChanges
<1>5. outcome' \in Seq({"pending", "true", "false"}) /\ Len(outcome') = Len(next)
  BY <1>1, OutcomeSettles
<1>6. RefreshTypeOK'
  BY <1>0, <1>1, <1>2, <1>4, <1>5, DocsAre DEF RefreshTypeOK
<1>7. FetchesCounted' /\ BodiesServed' /\ RelayWritesNothing'
  BY <1>0, <1>1, <1>3, <1>4 DEF FetchesCounted, BodiesServed, RelayWritesNothing, Writing
<1>8. OneWriter'
  BY <1>0, <1>1, <1>3, <1>4 DEF OneWriter, Writing
<1>9. DestWhole'
  BY <1>1, <1>2, DocsAre DEF DestWhole
<1>10. RelayRunsDest'
  BY <1>0, <1>1 DEF RelayRunsDest
<1> QED BY <1>6, <1>7, <1>8, <1>9, <1>10 DEF RefreshInv

\* The invariant holds initially, with no chains.
LEMMA RefreshInitHolds == RefreshInit => RefreshInv
<1> SUFFICES ASSUME RefreshInit
             PROVE  RefreshInv
  OBVIOUS
<1>1. RefreshTypeOK
  <2>1. 1 \in Urls /\ 0 \in 0..MaxTime /\ 0 \in 0..MaxCuts /\ 0 \in 0..MaxStops /\ 0 <= MaxFetches
    BY RefreshAssumption DEF Urls
  <2>2. served \in [Urls -> Docs] /\ dest \in Files
    BY <2>1, DocsAre DEF RefreshInit
  <2>3. next \in Seq(Nat) /\ Len(next) = 0 /\ chains \in Seq(Chain)
        /\ outcome \in Seq({"pending", "true", "false"}) /\ Len(outcome) = Len(next)
    BY DEF RefreshInit
  <2>4. /\ program \in {"bridge", "relay"} /\ clock = 0 /\ phase = "off" /\ tmp = Absent
        /\ loaded = Absent /\ cuts = 0 /\ stops = 0 /\ mixed = FALSE /\ since = 0
    BY DEF RefreshInit
  <2> QED BY <2>1, <2>2, <2>3, <2>4, DocsAre DEF RefreshTypeOK
<1>2. FetchesCounted /\ BodiesServed /\ RelayWritesNothing /\ OneWriter
  BY DocsAre DEF RefreshInit, FetchesCounted, BodiesServed, RelayWritesNothing, OneWriter
<1>3. DestWhole /\ RelayRunsDest
  <2>1. 1 \in Urls /\ 0 \in 0..MaxTime
    BY RefreshAssumption DEF Urls
  <2> QED BY <2>1, DocsAre DEF RefreshInit, DestWhole, RelayRunsDest
<1> QED BY <1>1, <1>2, <1>3 DEF RefreshInv

\* Every step keeps it.
LEMMA RefreshNextKeeps == RefreshInv /\ [RefreshNext]_refreshVars => RefreshInv'
<1> SUFFICES ASSUME RefreshInv, [RefreshNext]_refreshVars
             PROVE  RefreshInv'
  OBVIOUS
<1>1. CASE Hour \/ Load \/ \E u \in Urls : Rebuild(u) \/ LauncherWrites(u)
  BY <1>1, OutsideKeeps
<1>2. CASE StartProgram \/ Interval \/ StopProgram
  BY <1>2, StartKeeps, StopKeeps
<1>3. ASSUME NEW c \in DOMAIN chains, ChainStep(c) \/ ResponseBreaksOff(c)
      PROVE  RefreshInv'
  BY <1>3, RequestFailsKeeps, ResponseBreaksOffKeeps, BodyArrivesKeeps, OpenTmpKeeps,
     WriteKeeps, RenameKeeps, AdoptKeeps DEF ChainStep
<1>4. CASE UNCHANGED refreshVars
  BY <1>4 DEF refreshVars, RefreshInv, RefreshTypeOK, FetchesCounted, BodiesServed,
              RelayWritesNothing, OneWriter, Writing, DestWhole, RelayRunsDest
<1> QED BY <1>1, <1>2, <1>3, <1>4 DEF RefreshNext

\* For any authorities, URLs and bounds: the consensus file is absent or a whole
\* document wherever the program stops, unless two chains had the temporary
\* file at once, and a relay serves only from the file it has (fetchConsensus
\* of anon-browse-gui.mjs, atomicWrite of the launcher, entrypoint.sh).
THEOREM ConsensusFileAlwaysSound == RefreshSpec => []ConsensusFileSound
<1>1. RefreshInv => ConsensusFileSound
  BY DEF RefreshInv, ConsensusFileSound
<1> QED BY <1>1, RefreshInitHolds, RefreshNextKeeps, PTL DEF RefreshSpec

-----------------------------------------------------------------------------
(* Paths                                                                   *)


\* What the candidates of a role are (filterCandidates).
LEMMA Candidates ==
    ASSUME NEW flags, NEW fps, NEW avoid, NEW r \in filterCandidates(flags, fps, avoid)
    PROVE  /\ r \in rses /\ usableRelay(r) /\ flags \subseteq r.flags
           /\ r.fp \notin fps
           /\ \A other \in avoid : ~coLocated(r, other)
BY DEF filterCandidates

\* Relays that share a network count as co-located; the converse fails for two
\* IPv6 addresses (coLocated).
LEMMA SharedIsCoLocated ==
    ASSUME NEW a, NEW b, ~coLocated(a, b)
    PROVE  ~SameNetwork(a, b) /\ ~SameNetwork(b, a)
BY DEF coLocated, SameNetwork

\* A middle relay differs from both ends, and without skipAntiCorrelation in
\* its network as well (selectMiddle).
LEMMA MiddleApart ==
    ASSUME NEW guard, NEW exit, NEW skip \in BOOLEAN,
           NEW middle \in selectMiddle({guard, exit}, Avoided(skip, {guard, exit}))
    PROVE  /\ middle.fp # guard.fp /\ middle.fp # exit.fp
           /\ ~skip => /\ ~SameNetwork(middle, guard)
                       /\ ~SameNetwork(middle, exit)
<1>1. middle \in filterCandidates({}, {r.fp : r \in {guard, exit}}, Avoided(skip, {guard, exit}))
    BY DEF selectMiddle
<1>2. middle.fp \notin {r.fp : r \in {guard, exit}}
    BY <1>1, Candidates
<1>3. ASSUME ~skip
      PROVE  ~coLocated(middle, guard) /\ ~coLocated(middle, exit)
    BY <1>1, <1>3, Candidates DEF Avoided
<1> QED
    BY <1>2, <1>3, SharedIsCoLocated

\* An exit of pickPath differs from the guard (selectExit).
LEMMA ExitApart ==
    ASSUME NEW destination, NEW guard, NEW skip \in BOOLEAN,
           NEW exit \in selectExit(destination, guard, Avoided(skip, {guard}))
    PROVE  /\ exit.fp # guard.fp
           /\ ~skip => ~SameNetwork(guard, exit)
<1>1. exit \in filterCandidates({"Exit"}, {guard.fp}, Avoided(skip, {guard}))
    BY DEF selectExit
<1>2. exit.fp \notin {guard.fp}
    BY <1>1, Candidates
<1>3. ASSUME ~skip
      PROVE  ~coLocated(exit, guard)
    BY <1>1, <1>3, Candidates DEF Avoided
<1> QED
    BY <1>2, <1>3, SharedIsCoLocated

\* What the two ends of pickPath are: an exit that takes the destination.
LEMMA ExitServes ==
    ASSUME NEW destination, NEW guard, NEW avoid,
           NEW exit \in selectExit(destination, guard, avoid)
    PROVE  /\ usableRelay(exit) /\ "Exit" \in exit.flags /\ "BadExit" \notin exit.flags
           /\ evaluate(exit.exitPolicy, destination) = "accept"
BY DEF selectExit, filterCandidates

\* A list of one or two existing guards has a first that is usable, or none.
LEMMA FirstOfTwo ==
    ASSUME NEW existing \in GuardLists, NEW usable \in SUBSET DOMAIN existing, usable # {}
    PROVE  /\ (CHOOSE i \in usable : \A j \in usable : i <= j) \in usable
           /\ \A j \in usable : (CHOOSE i \in usable : \A k \in usable : i <= k) <= j
<1>1. DOMAIN existing \subseteq 1..2
    BY DEF GuardLists
<1>2. \E i \in usable : \A j \in usable : i <= j
    <2>1. CASE 1 \in usable
        BY <1>1, <2>1
    <2>2. CASE 1 \notin usable
        BY <1>1, <2>2
    <2> QED
        BY <2>1, <2>2
<1> QED
    BY <1>2

Usable(fp) == \E r \in rses : r.fp = fp /\ usableRelay(r)

\* A guard of pickPath runs, and is the first existing one that does; a new one
\* has the flag and none of the existing ones runs (selectGuard).
LEMMA GuardServes ==
    ASSUME rses \in Consensuses, NEW existing \in GuardLists, NEW guard \in selectGuard(existing)
    PROVE  /\ usableRelay(guard)
           /\ \/ \E i \in DOMAIN existing : /\ guard.fp = existing[i]
                                            /\ \A j \in 1..(i - 1) : ~Usable(existing[j])
              \/ "Guard" \in guard.flags /\ \A i \in DOMAIN existing : ~Usable(existing[i])
<1> DEFINE usable == {i \in DOMAIN existing : Usable(existing[i])}
           first == CHOOSE i \in usable : \A j \in usable : i <= j
<1>1. CASE usable = {}
    <2>1. guard \in filterCandidates({"Guard"}, {}, {})
        BY <1>1 DEF selectGuard, Usable
    <2> QED
        BY <1>1, <2>1, Candidates
<1>2. CASE usable # {}
    <2>1. guard \in rses /\ guard.fp = existing[first]
        BY <1>2 DEF selectGuard, Usable
    <2>2. first \in usable /\ \A j \in usable : first <= j
        BY <1>2, FirstOfTwo
    <2>3. usableRelay(guard)
        BY <2>1, <2>2, EntriesAssumption DEF Usable
    <2>4. ASSUME NEW j \in 1..(first - 1)
          PROVE  ~Usable(existing[j])
        <3>1. DOMAIN existing \in {{}, {1}, 1..2}
            BY DEF GuardLists
        <3>2. j \in DOMAIN existing /\ ~(first <= j)
            BY <2>2, <3>1
        <3> QED
            BY <2>2, <3>2
    <2> QED
        BY <2>1, <2>2, <2>3, <2>4
<1> QED
    BY <1>1, <1>2

\* The properties of a path, and that the consensus is one of those assumed.
PathInv == rses \in Consensuses /\ PathSound

\* No path is trivially as it should be.
LEMMA NoPathSound == ASSUME path' = NoPath PROVE PathSound'
BY DEF PathSound, HopsDistinct, NetworksDiffer, PathServes, Picked

LEMMA PickPathSound ==
    ASSUME rses \in Consensuses, UNCHANGED rses,
           NEW destination, NEW existing \in GuardLists, NEW skip \in BOOLEAN,
           pickPath(destination, existing, skip)
    PROVE  PathSound'
<1>1. CASE path' = NoPath
    BY <1>1, NoPathSound
<1>2. ASSUME NEW guard \in selectGuard(existing),
             NEW exit \in selectExit(destination, guard, Avoided(skip, {guard})),
             NEW middle \in selectMiddle({guard, exit}, Avoided(skip, {guard, exit})),
             path' = [by |-> "pickPath", guard |-> guard, middle |-> middle, exit |-> exit,
                      destination |-> destination, existing |-> existing, skip |-> skip]
      PROVE  PathSound'
    <2>1. /\ middle.fp # guard.fp /\ middle.fp # exit.fp /\ exit.fp # guard.fp
          /\ ~skip => /\ ~SameNetwork(middle, guard) /\ ~SameNetwork(middle, exit)
                      /\ ~SameNetwork(guard, exit)
        BY MiddleApart, ExitApart
    <2>2. /\ path'.guard = guard /\ path'.middle = middle /\ path'.exit = exit /\ path'.skip = skip
          /\ path'.destination = destination /\ path'.existing = existing
        BY <1>2
    <2>3. HopsDistinct' /\ NetworksDiffer'
        BY <2>1, <2>2 DEF HopsDistinct, NetworksDiffer, SameNetwork
    <2>4. PathServes'
        <3>1. usableRelay(middle)
            BY Candidates DEF selectMiddle
        <3>2. \/ \E i \in DOMAIN existing :
                    /\ guard.fp = existing[i]
                    /\ \A j \in 1..(i - 1) : \A r \in rses : r.fp = existing[j] => ~usableRelay(r)
              \/ /\ "Guard" \in guard.flags
                 /\ \A i \in DOMAIN existing : \A r \in rses : r.fp = existing[i] => ~usableRelay(r)
            BY GuardServes DEF Usable
        <3>3. rses' = rses
            OBVIOUS
        <3> QED
            BY <2>2, <3>1, <3>2, <3>3, GuardServes, ExitServes DEF PathServes, Hops, usableRelay
    <2> QED
        BY <2>3, <2>4 DEF PathSound
<1> QED
    BY <1>1, <1>2 DEF pickPath

LEMMA OwnPathSound ==
    ASSUME NEW by \in {"buildPath", "lookup"}, NEW exit, NEW skip \in BOOLEAN,
           ownPath(by, exit, skip)
    PROVE  PathSound'
<1>1. CASE path' = NoPath
    BY <1>1, NoPathSound
<1>2. ASSUME NEW guard \in GuardRelays, guard.fp # exit.fp,
             NEW middle \in selectMiddle({guard, exit}, Avoided(skip, {guard, exit})),
             path' = [by |-> by, guard |-> guard, middle |-> middle, exit |-> exit, skip |-> skip]
      PROVE  PathSound'
    <2>1. /\ middle.fp # guard.fp /\ middle.fp # exit.fp
          /\ ~skip => ~SameNetwork(middle, guard) /\ ~SameNetwork(middle, exit)
        BY MiddleApart
    <2>2. /\ path'.guard = guard /\ path'.middle = middle /\ path'.exit = exit /\ path'.skip = skip
          /\ path'.by # "pickPath"
        BY <1>2
    <2> QED
        BY <1>2, <2>1, <2>2 DEF PathSound, HopsDistinct, NetworksDiffer, PathServes, SameNetwork
<1> QED
    BY <1>1, <1>2 DEF ownPath

LEMMA StepSound == ASSUME PathInv, [PathNext]_pathVars PROVE PathInv'
<1> USE DEF PathInv
<1>1. CASE UNCHANGED pathVars
    BY <1>1 DEF pathVars, PathSound, HopsDistinct, NetworksDiffer, PathServes, Picked, Hops,
                SameNetwork, usableRelay, NoPath, Unpicked
<1>2. ASSUME UNCHANGED rses, NEW skip \in BOOLEAN, NEW d \in Wanted, NEW existing \in GuardLists,
             pickPath(d, existing, skip)
      PROVE  PathInv'
    BY <1>2, PickPathSound
<1>3. ASSUME UNCHANGED rses, NEW skip \in BOOLEAN, NEW fp \in Fingerprints, buildPath(fp, skip)
      PROVE  PathInv'
    BY <1>3, OwnPathSound, NoPathSound DEF buildPath
<1>4. ASSUME UNCHANGED rses, NEW skip \in BOOLEAN, lookupPath(skip)
      PROVE  PathInv'
    BY <1>4, OwnPathSound, NoPathSound DEF lookupPath
<1> QED
    BY <1>1, <1>2, <1>3, <1>4 DEF PathNext

\* Every path is sound, for every consensus that lists a relay once, every
\* policy and every draw of pickPath, buildPath, pickPathForExit and the
\* lookups: three relays, none told to extend to itself, apart in their networks
\* where they must be, and in pickPath running and willing to serve.
THEOREM PathsSound == PathSpec => []PathSound
<1>1. PathInit => PathInv
    BY DEF PathInit, PathInv, PathSound, HopsDistinct, NetworksDiffer, PathServes, Picked
<1>2. PathInv => PathSound
    BY DEF PathInv
<1> QED
    BY <1>1, <1>2, StepSound, PTL DEF PathSpec

-----------------------------------------------------------------------------
(* The standby circuit                                                     *)

\* onDestroy clears the standby whichever circuit it belongs to.  That is
\* safe because no other built circuit is still alive to call it.
OthersGone ==
    \A k \in Circuits :
        (life[k] = "built" /\ k \notin destroyed) => (standby = k \/ closing)

\* A circuit comes to be the standby by a build that was finished.
StandbyBuilt == standby # None => life[standby] = "built"

\* The inductive invariant.
IInv == TypeOK /\ OneBuild /\ OthersGone /\ StandbyBuilt

\* With no DESTROY between the last EXTENDED and the continuation, a circuit
\* whose continuation is queued is alive.
ResolvedAlive == \A k \in Circuits : life[k] = "resolved" => k \notin destroyed

\* 0 is no circuit.
LEMMA NoneIsNoCircuit == None \notin Circuits
  BY TunnelBounds DEF None, Circuits

-----------------------------------------------------------------------------
(* Steps that leave the tunnel alone: they only move connections           *)

\* The step of one connection that uses neither standby nor build.
ConnStep(r) ==
    \/ accept(r) \/ greeting(r) \/ greetingRefused(r) \/ connectRequest(r)
    \/ \E answer \in {"none", "failure"} : requestRefused(r, answer)
    \/ resolveFails(r) \/ useStandby(r) \/ joinBuild(r) \/ noPath(r)
    \/ openSucceeds(r) \/ openRefused(r) \/ openTimesOut(r) \/ pipeEnds(r)

\* A connection's step changes nothing of the tunnel and keeps the types.
LEMMA ConnStepKeeps ==
    ASSUME TypeOK, NEW r \in Conns, ConnStep(r)
    PROVE  TypeOK' /\ UNCHANGED tunnel
<1>1. UNCHANGED tunnel
  BY DEF ConnStep, accept, greeting, greetingRefused, connectRequest, requestRefused,
         resolveFails, useStandby, joinBuild, noPath, openSucceeds, openRefused,
         openTimesOut, pipeEnds
<1>2. CASE accept(r) \/ greeting(r) \/ greetingRefused(r) \/ connectRequest(r) \/ pipeEnds(r)
  BY <1>1, <1>2 DEF TypeOK, tunnel, accept, greeting, greetingRefused, connectRequest, pipeEnds
<1>3. CASE \E answer \in {"none", "failure"} : requestRefused(r, answer)
  BY <1>1, <1>3 DEF TypeOK, tunnel, requestRefused
<1>4. CASE resolveFails(r) \/ noPath(r) \/ openTimesOut(r)
  BY <1>1, <1>4 DEF TypeOK, tunnel, resolveFails, noPath, openTimesOut, Fail
<1>5. CASE useStandby(r) \/ joinBuild(r)
  BY <1>1, <1>5 DEF TypeOK, tunnel, useStandby, joinBuild, WaitFor
<1>6. CASE openSucceeds(r) \/ openRefused(r)
  BY <1>1, <1>6 DEF TypeOK, tunnel, openSucceeds, openRefused
<1> QED BY <1>1, <1>2, <1>3, <1>4, <1>5, <1>6 DEF ConnStep

\* What IInv says of the tunnel depends on nothing else.
LEMMA TunnelUnchanged ==
    ASSUME IInv, TypeOK', UNCHANGED tunnel
    PROVE  IInv'
  BY DEF IInv, OneBuild, OthersGone, StandbyBuilt, tunnel

-----------------------------------------------------------------------------
(* Steps of the standby circuit                                            *)

\* A build begins only when there is neither a standby nor another build.
LEMMA StartBuildKeeps ==
    ASSUME IInv, NEW r \in Conns, NEW k \in Circuits, startBuild(r, k)
    PROVE  IInv'
<1> USE DEF IInv, startBuild
<1>1. TypeOK'
  BY DEF TypeOK, WaitFor
<1>2. OneBuild'
  BY NoneIsNoCircuit DEF OneBuild, TypeOK
<1>3. OthersGone' /\ StandbyBuilt'
  BY NoneIsNoCircuit DEF OthersGone, StandbyBuilt, TypeOK, NextBuild
<1> QED BY <1>1, <1>2, <1>3

\* A failed build leaves no build, and touches no circuit that was built.
LEMMA BuildFailsKeeps ==
    ASSUME IInv, NEW k \in Circuits, buildFails(k)
    PROVE  IInv'
<1> USE DEF IInv, buildFails
<1>1. TypeOK'
  BY DEF TypeOK, Fail
<1>2. OneBuild'
  BY NoneIsNoCircuit DEF OneBuild, TypeOK
<1>3. OthersGone' /\ StandbyBuilt'
  BY NoneIsNoCircuit DEF OthersGone, StandbyBuilt, TypeOK
<1> QED BY <1>1, <1>2, <1>3

\* A build whose continuation is queued is still the build in flight.
LEMMA BuildResolvesKeeps ==
    ASSUME IInv, NEW k \in Circuits, buildResolves(k)
    PROVE  IInv'
<1> USE DEF IInv, buildResolves
<1>1. TypeOK'
  BY DEF TypeOK, socks
<1>2. OneBuild'
  BY NoneIsNoCircuit DEF OneBuild, TypeOK
<1>3. OthersGone' /\ StandbyBuilt'
  BY NoneIsNoCircuit DEF OthersGone, StandbyBuilt, TypeOK
<1> QED BY <1>1, <1>2, <1>3

\* The circuit that becomes the standby finds the place empty: while it was
\* built there was no standby, so all circuits built before it are gone.
LEMMA BuildDoneKeeps ==
    ASSUME IInv, NEW k \in Circuits, buildDone(k)
    PROVE  IInv'
<1> USE DEF IInv, buildDone
<1>1. TypeOK'
  BY DEF TypeOK
<1>2. building = k /\ standby = None
  BY NoneIsNoCircuit DEF OneBuild
<1>3. OneBuild'
  BY <1>2, NoneIsNoCircuit DEF OneBuild, TypeOK
<1>4. OthersGone' /\ StandbyBuilt'
  BY <1>2, NoneIsNoCircuit DEF OthersGone, StandbyBuilt, TypeOK
<1> QED BY <1>1, <1>3, <1>4

\* After onDestroy there is no standby, and the circuit that called it was
\* the only one built and alive.
LEMMA OnDestroyKeeps ==
    ASSUME IInv, NEW k \in Circuits, onDestroy(k)
    PROVE  IInv' /\ (standby = None \/ standby \in destroyed' \/ closing)
<1> USE DEF IInv, onDestroy
<1>1. TypeOK'
  BY DEF TypeOK, socks
<1>2. OneBuild'
  BY DEF OneBuild
<1>3. standby = None \/ standby \in destroyed' \/ closing
  <2>1. CASE life[k] = "built"
    BY <2>1 DEF OthersGone
  <2>2. CASE life[k] # "built"
    <3>1. building = k
      BY <2>2, TunnelSwitches DEF OneBuild
    <3> QED BY <3>1, NoneIsNoCircuit DEF OneBuild
  <2> QED BY <2>1, <2>2
<1>4. OthersGone' /\ StandbyBuilt'
  BY <1>3 DEF OthersGone, StandbyBuilt, TypeOK
<1> QED BY <1>1, <1>2, <1>3, <1>4

\* A shutdown.
LEMMA CloseStandbyKeeps ==
    ASSUME IInv, closeStandby
    PROVE  IInv'
<1> USE DEF IInv, closeStandby
<1>1. TypeOK'
  BY DEF TypeOK
<1>2. OneBuild' /\ OthersGone' /\ StandbyBuilt'
  BY DEF OneBuild, OthersGone, StandbyBuilt
<1> QED BY <1>1, <1>2

\* Every step keeps the invariant, and takes a standby away only when its
\* own DESTROY was handled or at the shutdown.
LEMMA NextKeeps ==
    ASSUME IInv, [Next]_vars
    PROVE  /\ IInv'
           /\ (standby # None /\ standby' = None) => (standby \in destroyed' \/ closing')
<1>1. CASE \E r \in Conns : ConnStep(r)
  <2>1. IInv' /\ UNCHANGED tunnel
    BY <1>1, ConnStepKeeps, TunnelUnchanged DEF IInv
  <2> QED BY <2>1 DEF tunnel
<1>2. CASE \E r \in Conns, k \in Circuits : startBuild(r, k)
  <2>1. IInv'
    BY <1>2, StartBuildKeeps
  <2>2. standby' = standby
    BY <1>2 DEF startBuild
  <2> QED BY <2>1, <2>2
<1>3. CASE \E k \in Circuits : buildFails(k)
  <2>1. IInv'
    BY <1>3, BuildFailsKeeps
  <2>2. standby' = standby
    BY <1>3 DEF buildFails
  <2> QED BY <2>1, <2>2
<1>4. CASE \E k \in Circuits : buildResolves(k)
  <2>1. IInv'
    BY <1>4, BuildResolvesKeeps
  <2>2. standby' = standby
    BY <1>4 DEF buildResolves
  <2> QED BY <2>1, <2>2
<1>5. CASE \E k \in Circuits : buildDone(k)
  <2>1. IInv'
    BY <1>5, BuildDoneKeeps
  <2>2. standby' # None
    BY <1>5, NoneIsNoCircuit DEF buildDone
  <2> QED BY <2>1, <2>2
<1>6. CASE \E k \in Circuits : onDestroy(k)
  <2>1. PICK k \in Circuits : onDestroy(k)
    BY <1>6
  <2>2. IInv' /\ (standby = None \/ standby \in destroyed' \/ closing)
    BY <2>1, OnDestroyKeeps
  <2>3. closing' = closing
    BY <2>1 DEF onDestroy
  <2> QED BY <2>2, <2>3
<1>7. CASE closeStandby
  <2>1. IInv'
    BY <1>7, CloseStandbyKeeps
  <2>2. closing'
    BY <1>7 DEF closeStandby
  <2> QED BY <2>1, <2>2
<1>8. CASE UNCHANGED vars
  <2>1. TypeOK' /\ UNCHANGED tunnel
    BY <1>8 DEF IInv, TypeOK, vars, socks, tunnel
  <2>2. IInv'
    BY <2>1, TunnelUnchanged
  <2> QED BY <2>1, <2>2 DEF tunnel
<1> QED
  BY <1>1, <1>2, <1>3, <1>4, <1>5, <1>6, <1>7, <1>8 DEF Next, ConnStep

\* The invariant holds at the start.
LEMMA InitIInv == Init => IInv
  BY NoneIsNoCircuit DEF Init, IInv, TypeOK, OneBuild, OthersGone, StandbyBuilt

-----------------------------------------------------------------------------
(* The theorems                                                            *)

\* ensureCircuit never builds two circuits at once, nor one beside a standby,
\* however many connections ask.
THEOREM OneBuildAlways == Spec => [](TypeOK /\ OneBuild)
<1>1. IInv /\ [Next]_vars => IInv'
  BY NextKeeps
<1>2. IInv => TypeOK /\ OneBuild
  BY DEF IInv
<1> QED BY InitIInv, <1>1, <1>2, PTL DEF Spec

\* The callback of another circuit never takes a live standby away, although
\* onDestroy does not look whose callback it is.
THEOREM StandbyKeptAlways == Spec => StandbyKept
<1>1. IInv /\ [Next]_vars => IInv'
  BY NextKeeps
<1>2. IInv /\ [Next]_vars =>
        [(standby # None /\ standby' = None) => (standby \in destroyed' \/ closing')]_vars
  BY NextKeeps
<1> QED BY InitIInv, <1>1, <1>2, PTL DEF Spec, StandbyKept

\* When no DESTROY is handled between the last EXTENDED and the continuation
\* of buildCircuit, the standby circuit is never a dead one, and it is the only
\* one: ensureCircuit builds none beside it.
THEOREM StandbySoundUncoalesced ==
    ASSUME Coalesced = FALSE
    PROVE  Spec => []StandbySound
<1> DEFINE Alive == IInv /\ ResolvedAlive /\ StandbyAlive
<1>1. Init => Alive
  BY InitIInv DEF Init, ResolvedAlive, StandbyAlive
<1>2. Alive /\ [Next]_vars => Alive'
  <2> SUFFICES ASSUME IInv, ResolvedAlive, StandbyAlive, [Next]_vars
      PROVE  IInv' /\ ResolvedAlive' /\ StandbyAlive'
    OBVIOUS
  <2>1. IInv'
    BY NextKeeps
  <2>2. CASE \E r \in Conns : ConnStep(r)
    <3>1. UNCHANGED tunnel
      BY <2>2, ConnStepKeeps DEF IInv
    <3> QED BY <2>1, <3>1 DEF ResolvedAlive, StandbyAlive, tunnel
  <2>3. CASE \/ \E r \in Conns, k \in Circuits : startBuild(r, k)
             \/ \E k \in Circuits : buildFails(k) \/ buildResolves(k)
    BY <2>1, <2>3, ZenonT(30)
    DEF IInv, TypeOK, ResolvedAlive, StandbyAlive, startBuild, buildFails, buildResolves
  <2>4. CASE \E k \in Circuits : buildDone(k)
    BY <2>1, <2>4 DEF IInv, TypeOK, ResolvedAlive, StandbyAlive, buildDone
  <2>5. CASE \E k \in Circuits : onDestroy(k)
    BY <2>1, <2>5 DEF ResolvedAlive, StandbyAlive, onDestroy
  <2>6. CASE closeStandby
    BY <2>1, <2>6 DEF ResolvedAlive, StandbyAlive, closeStandby
  <2>7. CASE UNCHANGED vars
    BY <2>1, <2>7 DEF ResolvedAlive, StandbyAlive, vars, tunnel
  <2> QED BY <2>2, <2>3, <2>4, <2>5, <2>6, <2>7 DEF Next, ConnStep
<1>3. Alive => StandbySound
  BY DEF IInv, StandbySound
<1> QED BY <1>1, <1>2, <1>3, PTL DEF Spec

-----------------------------------------------------------------------------
(* Handshake: the fragments of a message                                   *)

\* A message of p pieces has (p + c - 1) \div c fragments of at most c pieces.
LEMMA Division ==
    ASSUME NEW p \in Nat \ {0}, NEW c \in Nat \ {0}
    PROVE  LET n == (p + c - 1) \div c IN n \in Nat \ {0} /\ (n - 1) * c < p /\ p <= n * c
<1> DEFINE n == (p + c - 1) \div c
           r == (p + c - 1) % c
<1>1. p + c - 1 \in Nat
  OBVIOUS
<1>2. n \in Int /\ r \in 0..(c - 1) /\ p + c - 1 = c * n + r
  BY <1>1, Z3
<1> QED BY <1>2

\* Fragment i of the message of c, and the cell that carries it.
Data(c, i) == SubSeq(createMsg(c), (i - 1) * Capacity + 1, IF i = Count THEN Pieces ELSE i * Capacity)
FragOf(c, i) == [id |-> chosen[c], index |-> i, count |-> Count, size |-> Capacity, data |-> Data(c, i)]
CellOf(c, i) == [circuit |-> CircuitOf(c), owner |-> c, fragment |-> FragOf(c, i)]

Begun == {c \in Initiators : chosen[c] # 0}
PieceSeqs == Seq(Initiators \X Nat)
Parts == UNION {[D -> PieceSeqs] : D \in SUBSET (1..Count)}
EntrySet == [id : Ids, count : {Count}, size : {Capacity}, parts : Parts]
SecretSet == {Secret(createMsg(c), y, "current") : c \in Initiators, y \in Nat}

\* An entry of the reassembler holds nothing but fragments of c.
EntryOf(e, c) == e.id = chosen[c] /\ \A i \in DOMAIN e.parts : e.parts[i] = Data(c, i)

HandshakeTypes ==
    /\ shared \in BOOLEAN /\ outdated \subseteq Initiators
    /\ chosen \in [Initiators -> Ids \cup {0}] /\ IsFiniteSet(Begun)
    /\ copies \in Nat /\ peak \in Nat
    /\ inFlight \in [HandshakeCircuits -> Seq(EntrySet)]
    /\ sessions \in Seq(SecretSet)
    /\ seeds = [c \in Initiators |-> seeds[c]]

CellsSent == \A x \in cells : \E c \in Begun, i \in 1..Count : x = CellOf(c, i)

\* On a circuit of its own a client meets nobody else's fragments.
Unmixed ==
    ~shared => \A k \in HandshakeCircuits : \A j \in 1..Len(inFlight[k]) :
                  k \in Begun /\ EntryOf(inFlight[k][j], k)

\* Answers and keys come from sessions.
AnswersMade ==
    \A a \in answers : a.to \in Initiators /\ \E n \in 1..Len(sessions) : sessions[n] = a.auth
SeedsMade ==
    \A c \in Initiators : seeds[c] \notin {NoSeed, Refused} =>
        \E n \in 1..Len(sessions) : sessions[n] = seeds[c] /\ seeds[c].message = createMsg(c)

LEMMA CountFacts ==
    ASSUME shared \in BOOLEAN
    PROVE  /\ Capacity \in Nat \ {0} /\ Pieces \in Nat \ {0} /\ MaxConcurrent \in Nat \ {0}
           /\ Count \in Nat \ {0} /\ (Count - 1) * Capacity < Pieces /\ Pieces <= Count * Capacity
           /\ Ids \subseteq Nat \ {0} /\ MaxCopies \in Nat
<1>1. /\ Capacity \in Nat \ {0} /\ Pieces \in Nat \ {0} /\ MaxConcurrent \in Nat \ {0}
      /\ Ids \subseteq Nat \ {0} /\ MaxCopies \in Nat
  BY HandshakeAssumption DEF Capacity
<1> QED BY <1>1, Division DEF Count

LEMMA Products ==
    ASSUME NEW c \in Nat, NEW a \in Nat, NEW b \in Nat, a <= b
    PROVE  a * c \in Nat /\ b * c \in Nat /\ a * c <= b * c /\ (a + 1) * c = a * c + c
<1>1. b - a \in Nat /\ b = a + (b - a)
  OBVIOUS
<1>2. (b - a) * c >= 0 /\ b * c = a * c + (b - a) * c
  BY <1>1
<1> QED BY <1>2

LEMMA MessageFacts ==
    ASSUME shared \in BOOLEAN, NEW c \in Initiators
    PROVE  createMsg(c) \in PieceSeqs /\ Len(createMsg(c)) = Pieces /\ createMsg(c)[1] = <<c, 1>>
BY CountFacts DEF createMsg, PieceSeqs

\* Where fragment i begins and ends.
LEMMA FragmentEnds ==
    ASSUME shared \in BOOLEAN, NEW i \in 1..Count
    PROVE  LET from == (i - 1) * Capacity
               to == IF i = Count THEN Pieces ELSE i * Capacity
           IN  /\ from \in Nat /\ to \in Nat /\ from < to /\ to <= Pieces /\ to - from <= Capacity
               /\ i < Count => to - from = Capacity
<1>1. /\ Capacity \in Nat \ {0} /\ Pieces \in Nat \ {0} /\ Count \in Nat \ {0}
      /\ (Count - 1) * Capacity < Pieces /\ Pieces <= Count * Capacity
  BY CountFacts
<1>2. (i - 1) * Capacity \in Nat /\ i * Capacity \in Nat /\ i * Capacity = (i - 1) * Capacity + Capacity
  <2>1. i - 1 \in Nat /\ i \in Nat /\ i - 1 <= i /\ (i - 1) + 1 = i
    BY <1>1
  <2> QED BY <1>1, <2>1, Products
<1>3. i < Count => i * Capacity <= (Count - 1) * Capacity
  <2>1. i < Count => i \in Nat /\ Count - 1 \in Nat /\ i <= Count - 1
    BY <1>1
  <2> QED BY <1>1, <2>1, Products
<1>4. (Count - 1) * Capacity \in Nat
  <2>1. Count - 1 \in Nat
    BY <1>1
  <2> QED BY <1>1, <2>1, Products
<1> QED BY <1>1, <1>2, <1>3, <1>4

LEMMA DataFacts ==
    ASSUME shared \in BOOLEAN, NEW c \in Initiators, NEW i \in 1..Count
    PROVE  /\ Data(c, i) \in PieceSeqs /\ Len(Data(c, i)) <= Capacity
           /\ i < Count => Len(Data(c, i)) = Capacity
<1> DEFINE from == (i - 1) * Capacity
           to == IF i = Count THEN Pieces ELSE i * Capacity
           m == createMsg(c)
<1>1. /\ from \in Nat /\ to \in Nat /\ from < to /\ to <= Pieces /\ to - from <= Capacity
      /\ i < Count => to - from = Capacity
  BY FragmentEnds
<1>2. m \in Seq(Initiators \X Nat) /\ Len(m) = Pieces /\ Capacity \in Nat
  BY MessageFacts, CountFacts DEF PieceSeqs
<1>3. Data(c, i) = SubSeq(m, from + 1, to)
  BY DEF Data
<1> HIDE DEF from, to, m
<1>4. SubSeq(m, from + 1, to) \in Seq(Initiators \X Nat) /\ Len(SubSeq(m, from + 1, to)) = to - from
  <2>1. from + 1 \in 1..Len(m) /\ to \in 1..Len(m) /\ Len(m) \in Nat
    BY <1>1, <1>2
  <2> QED BY <1>1, <1>2, <2>1
<1> QED BY <1>1, <1>2, <1>3, <1>4 DEF PieceSeqs

\* parseFragmentHeader accepts what fragmentMessage makes.
LEMMA FragmentsWellFormed ==
    ASSUME shared \in BOOLEAN, NEW c \in Initiators, NEW i \in 1..Count
    PROVE  wellFormed(FragOf(c, i))
BY DataFacts DEF wellFormed, FragOf

LEMMA FragmentsAre ==
    ASSUME shared \in BOOLEAN, NEW c \in Initiators, NEW id
    PROVE  fragmentMessage(createMsg(c), id, Capacity) =
             {[id |-> id, index |-> i, count |-> Count, size |-> Capacity, data |-> Data(c, i)] : i \in 1..Count}
BY MessageFacts DEF fragmentMessage, Count, Data

LEMMA SlicesJoin ==
    ASSUME NEW S, NEW s \in Seq(S), NEW a \in Nat, NEW b \in Nat, a <= b, b <= Len(s)
    PROVE  SubSeq(s, 1, a) \o SubSeq(s, a + 1, b) = SubSeq(s, 1, b)
<1> DEFINE l == SubSeq(s, 1, a)
           r == SubSeq(s, a + 1, b)
           w == SubSeq(s, 1, b)
<1>1. l \in Seq(S) /\ Len(l) = a /\ \A i \in 1..a : l[i] = s[i]
  OBVIOUS
<1>2. r \in Seq(S) /\ Len(r) = b - a /\ \A i \in 1..(b - a) : r[i] = s[a + i]
  OBVIOUS
<1>3. w \in Seq(S) /\ Len(w) = b /\ \A i \in 1..b : w[i] = s[i]
  OBVIOUS
<1> HIDE DEF l, r, w
<1>4. l \o r \in Seq(S) /\ Len(l \o r) = b
  <2>1. l \in Seq(S) /\ r \in Seq(S)
    BY <1>1, <1>2
  <2>2. l \o r \in Seq(S) /\ Len(l \o r) = Len(l) + Len(r)
    BY <2>1
  <2> QED BY <1>1, <1>2, <2>2
<1>5. ASSUME NEW i \in 1..b PROVE (l \o r)[i] = w[i]
  <2>1. CASE i <= a
    BY <1>1, <1>2, <1>3, <2>1
  <2>2. CASE ~(i <= a)
    <3>1. i - a \in 1..(b - a) /\ a + (i - a) = i
      BY <2>2
    <3>2. (l \o r)[i] = r[i - a]
      BY <1>1, <1>2, <2>2
    <3> QED BY <1>2, <1>3, <3>1, <3>2
  <2> QED BY <2>1, <2>2
<1>6. l \o r = w
  <2> DEFINE v == l \o r
  <2>1. v \in Seq(S) /\ Len(v) = b /\ \A i \in 1..b : v[i] = w[i]
    BY <1>4, <1>5
  <2> HIDE DEF v
  <2>2. v = w
    BY <1>3, <2>1, SMTT(30)
  <2> QED BY <2>2 DEF v
<1> QED BY <1>6 DEF l, r, w

\* The first n parts of a sequence, put together one after the other.
Together(f, n, seqs) == f = [i \in 1..n |-> IF i = 1 THEN seqs[i] ELSE f[i - 1] \o seqs[i]]

LEMMA TogetherExists ==
    ASSUME NEW n \in Nat, NEW seqs
    PROVE  \E f : Together(f, n, seqs)
<1> DEFINE T == {k \in 0..n : ~ \E f : Together(f, k, seqs)}
<1>1. SUFFICES ASSUME T # {}
               PROVE  FALSE
  BY DEF T
<1>2. PICK k \in T : \A j \in T : k <= j
  <2>1. T \subseteq Nat
    OBVIOUS
  <2> HIDE DEF T
  <2> QED BY <1>1, <2>1, SmallestNumber
<1>3. CASE k = 0
  <2>1. Together([i \in 1..0 |-> seqs[i]], 0, seqs)
    BY DEF Together
  <2> QED BY <1>3, <2>1
<1>4. CASE k # 0
  <2>1. k \in Nat /\ k - 1 \in 0..n /\ k - 1 \notin T
    BY <1>2, <1>4
  <2>2. PICK f : Together(f, k - 1, seqs)
    BY <2>1
  <2> DEFINE g == [i \in 1..k |-> IF i < k THEN f[i] ELSE IF k = 1 THEN seqs[k] ELSE f[k - 1] \o seqs[k]]
  <2>3. \A i \in 1..(k - 1) : f[i] = IF i = 1 THEN seqs[i] ELSE f[i - 1] \o seqs[i]
    BY <2>2 DEF Together
  <2>4. \A i \in 1..k : g[i] = IF i = 1 THEN seqs[i] ELSE g[i - 1] \o seqs[i]
    BY <2>1, <2>3
  <2>5. g = [i \in 1..k |-> g[i]]
    OBVIOUS
  <2>6. Together(g, k, seqs)
    <3> HIDE DEF g
    <3> QED BY <2>4, <2>5 DEF Together
  <2> QED BY <2>6
<1> QED BY <1>3, <1>4

\* FlattenSeq puts a sequence of sequences together.
LEMMA FlattenIs ==
    ASSUME NEW seqs, Len(seqs) \in Nat \ {0}
    PROVE  \E f : /\ FlattenSeq(seqs) = f[Len(seqs)]
                  /\ \A i \in 1..Len(seqs) : f[i] = IF i = 1 THEN seqs[i] ELSE f[i - 1] \o seqs[i]
<1> DEFINE f == CHOOSE f : Together(f, Len(seqs), seqs)
<1>1. Together(f, Len(seqs), seqs)
  BY TogetherExists
<1>2. FlattenSeq(seqs) = f[Len(seqs)]
  BY DEF FlattenSeq, Together
<1> HIDE DEF f
<1>3. \A i \in 1..Len(seqs) : f[i] = IF i = 1 THEN seqs[i] ELSE f[i - 1] \o seqs[i]
  BY <1>1 DEF Together
<1> QED BY <1>2, <1>3

\* The fragments of c in their order are its message (ingest, when all are there).
LEMMA AssembledWhole ==
    ASSUME shared \in BOOLEAN, NEW c \in Initiators, NEW e,
           e.count = Count, \A i \in 1..Count : e.parts[i] = Data(c, i)
    PROVE  Assembled(e) = createMsg(c)
<1> DEFINE m == createMsg(c)
           seqs == [i \in 1..Count |-> e.parts[i]]
           to(i) == IF i = Count THEN Pieces ELSE i * Capacity
<1>1. Count \in Nat \ {0} /\ Capacity \in Nat \ {0} /\ m \in Seq(Initiators \X Nat) /\ Len(m) = Pieces /\ Pieces \in Nat
  BY CountFacts, MessageFacts DEF PieceSeqs
<1>2. Len(seqs) = Count /\ Len(seqs) \in Nat \ {0} /\ \A i \in 1..Count : seqs[i] = SubSeq(m, (i - 1) * Capacity + 1, to(i))
  <2>1. Len(seqs) = Count /\ Len(seqs) \in Nat \ {0}
    BY <1>1
  <2>2. \A i \in 1..Count : Data(c, i) = SubSeq(m, (i - 1) * Capacity + 1, to(i))
    BY DEF Data
  <2> QED BY <2>1, <2>2
<1>3. Assembled(e) = FlattenSeq(seqs)
  BY DEF Assembled
<1>4. ASSUME NEW i \in 1..Count
      PROVE  /\ (i - 1) * Capacity \in Nat /\ to(i) \in Nat /\ (i - 1) * Capacity < to(i) /\ to(i) <= Pieces
             /\ i # 1 => to(i - 1) = (i - 1) * Capacity
  <2>1. /\ (i - 1) * Capacity \in Nat /\ to(i) \in Nat /\ (i - 1) * Capacity < to(i) /\ to(i) <= Pieces
    BY FragmentEnds
  <2> QED BY <1>1, <2>1
<1> HIDE DEF seqs, m
<1>5. PICK f : /\ FlattenSeq(seqs) = f[Len(seqs)]
               /\ \A i \in 1..Len(seqs) : f[i] = IF i = 1 THEN seqs[i] ELSE f[i - 1] \o seqs[i]
  BY <1>2, FlattenIs
<1> DEFINE T == {i \in 1..Count : f[i] # SubSeq(m, 1, to(i))}
<1>6. T = {}
  <2> SUFFICES ASSUME T # {} PROVE FALSE
    OBVIOUS
  <2>1. T \subseteq Nat
    OBVIOUS
  <2> HIDE DEF T
  <2>2. PICK i \in T : \A j \in T : i <= j
    BY <2>1, SmallestNumber
  <2> USE DEF T
  <2>3. i \in 1..Count /\ f[i] # SubSeq(m, 1, to(i))
    BY <2>2
  <2>4. CASE i = 1
    <3>0. (i - 1) * Capacity = 0
      BY <1>1, <2>4
    <3>1. f[i] = SubSeq(m, (i - 1) * Capacity + 1, to(i))
      BY <1>2, <1>5, <2>3, <2>4
    <3> QED BY <2>3, <3>0, <3>1
  <2>5. CASE i # 1
    <3>0. i - 1 \in 1..Count /\ i \in Nat /\ ~(i <= i - 1)
      BY <1>1, <2>3, <2>5
    <3>1. i - 1 \in 1..Count /\ i - 1 \notin T
      <4> HIDE DEF T
      <4> QED BY <2>2, <3>0
    <3>2. f[i - 1] = SubSeq(m, 1, (i - 1) * Capacity)
      BY <1>4, <2>3, <2>5, <3>1
    <3>3. f[i] = f[i - 1] \o seqs[i]
      BY <1>2, <1>5, <2>3, <2>5
    <3>4. f[i] = SubSeq(m, 1, (i - 1) * Capacity) \o SubSeq(m, (i - 1) * Capacity + 1, to(i))
      BY <1>2, <2>3, <3>2, <3>3
    <3>5. /\ (i - 1) * Capacity \in Nat /\ to(i) \in Nat /\ (i - 1) * Capacity <= to(i) /\ to(i) <= Len(m)
      BY <1>1, <1>4, <2>3
    <3> HIDE DEF T, to
    <3>6. SubSeq(m, 1, (i - 1) * Capacity) \o SubSeq(m, (i - 1) * Capacity + 1, to(i)) = SubSeq(m, 1, to(i))
      BY <1>1, <3>5, SlicesJoin
    <3> QED BY <2>3, <3>4, <3>6
  <2> QED BY <2>4, <2>5
<1>7. f[Count] = SubSeq(m, 1, Pieces)
  BY <1>1, <1>6
<1>8. SubSeq(m, 1, Pieces) = m
  BY <1>1
<1> QED BY <1>2, <1>3, <1>5, <1>7, <1>8 DEF m

-----------------------------------------------------------------------------
(* The entries of a reassembler                                            *)

LEMMA FreshEntry ==
    ASSUME NEW f, f.id \in Ids, f.count = Count, f.size = Capacity
    PROVE  Fresh(f) \in EntrySet /\ Fresh(f).id = f.id /\ DOMAIN Fresh(f).parts = {}
<1>1. <<>> \in [{} -> PieceSeqs] /\ DOMAIN <<>> = {}
  OBVIOUS
<1>2. <<>> \in Parts
  BY <1>1 DEF Parts
<1> QED BY <1>1, <1>2 DEF Fresh, EntrySet

LEMMA RoomMade ==
    ASSUME NEW entries \in Seq(EntrySet), NEW f, f.id \in Ids, f.count = Count, f.size = Capacity,
           MaxConcurrent \in Nat \ {0}
    PROVE  LET es == makeRoom(entries, f) IN
           /\ es \in Seq(EntrySet) /\ \E i \in 1..Len(es) : es[i].id = f.id
           /\ \A i \in 1..Len(es) : es[i] = Fresh(f) \/ \E j \in 1..Len(entries) : es[i] = entries[j]
           /\ (\E i \in 1..Len(entries) : entries[i].id = f.id) => es = entries
           /\ (Len(entries) < MaxConcurrent /\ ~ \E i \in 1..Len(entries) : entries[i].id = f.id) =>
                 es = Append(entries, Fresh(f))
<1> DEFINE es == makeRoom(entries, f)
           rest == IF Len(entries) >= MaxConcurrent THEN Tail(entries) ELSE entries
<1>0. Fresh(f) \in EntrySet /\ Fresh(f).id = f.id
  BY FreshEntry
<1>1. CASE \E i \in 1..Len(entries) : entries[i].id = f.id
  <2>1. es = entries
    BY <1>1 DEF makeRoom
  <2> QED BY <1>1, <2>1
<1>2. CASE ~ \E i \in 1..Len(entries) : entries[i].id = f.id
  <2>1. es = Append(rest, Fresh(f))
    BY <1>2 DEF makeRoom
  <2>2. /\ rest \in Seq(EntrySet) /\ \A i \in 1..Len(rest) : \E j \in 1..Len(entries) : rest[i] = entries[j]
        /\ Len(entries) < MaxConcurrent => rest = entries
    <3>1. CASE Len(entries) >= MaxConcurrent
      <4>1. rest = Tail(entries) /\ entries # <<>>
        BY <3>1
      <4>2. Tail(entries) \in Seq(EntrySet) /\ \A i \in 1..Len(Tail(entries)) : i + 1 \in 1..Len(entries) /\ Tail(entries)[i] = entries[i + 1]
        BY <4>1
      <4> QED BY <3>1, <4>1, <4>2
    <3>2. CASE ~(Len(entries) >= MaxConcurrent)
      BY <3>2
    <3> QED BY <3>1, <3>2
  <2> HIDE DEF rest
  <2>3. /\ es \in Seq(EntrySet) /\ Len(es) = Len(rest) + 1 /\ es[Len(es)] = Fresh(f)
        /\ Len(es) \in 1..Len(es) /\ \A i \in 1..Len(rest) : es[i] = rest[i]
    <3> HIDE DEF es
    <3> QED BY <1>0, <2>1, <2>2
  <2> HIDE DEF es
  <2>4. \A i \in 1..Len(es) : es[i] = Fresh(f) \/ \E j \in 1..Len(entries) : es[i] = entries[j]
    <3> SUFFICES ASSUME NEW i \in 1..Len(es), es[i] # Fresh(f)
                 PROVE  \E j \in 1..Len(entries) : es[i] = entries[j]
      OBVIOUS
    <3>1. i \in 1..Len(rest)
      BY <2>2, <2>3
    <3> QED BY <2>2, <2>3, <3>1
  <2>5. \E i \in 1..Len(es) : es[i].id = f.id
    BY <1>0, <2>3
  <2>6. Len(entries) < MaxConcurrent => es = Append(entries, Fresh(f))
    BY <2>1, <2>2
  <2> QED BY <1>2, <2>3, <2>4, <2>5, <2>6 DEF es
<1> QED BY <1>1, <1>2

LEMMA PartStored ==
    ASSUME NEW e \in EntrySet, NEW f, f.index \in 1..Count, f.data \in PieceSeqs
    PROVE  LET g == withPart(e, f) IN
           /\ g \in EntrySet /\ g.id = e.id /\ g.count = Count
           /\ DOMAIN g.parts = DOMAIN e.parts \cup {f.index}
           /\ \A i \in DOMAIN g.parts : g.parts[i] = IF i = f.index THEN f.data ELSE e.parts[i]
<1> DEFINE ps == [i \in DOMAIN e.parts \cup {f.index} |-> IF i = f.index THEN f.data ELSE e.parts[i]]
<1>1. PICK D \in SUBSET (1..Count) : e.parts \in [D -> PieceSeqs]
  BY DEF EntrySet, Parts
<1>2. /\ DOMAIN ps = DOMAIN e.parts \cup {f.index} /\ D \cup {f.index} \in SUBSET (1..Count)
      /\ ps \in [D \cup {f.index} -> PieceSeqs]
      /\ \A i \in DOMAIN ps : ps[i] = IF i = f.index THEN f.data ELSE e.parts[i]
  BY <1>1
<1>3. withPart(e, f) = [e EXCEPT !.parts = ps]
  BY DEF withPart
<1>4. ps \in Parts
  BY <1>2 DEF Parts
<1> HIDE DEF ps
<1>5. [e EXCEPT !.parts = ps] \in EntrySet /\ [e EXCEPT !.parts = ps].parts = ps
      /\ [e EXCEPT !.parts = ps].id = e.id /\ [e EXCEPT !.parts = ps].count = Count
  BY <1>4 DEF EntrySet
<1> QED BY <1>2, <1>3, <1>5

LEMMA EntryRemoved ==
    ASSUME NEW S, NEW s \in Seq(S), NEW i \in 1..Len(s)
    PROVE  /\ RemoveAt(s, i) \in Seq(S) /\ Len(RemoveAt(s, i)) = Len(s) - 1
           /\ \A j \in 1..(Len(s) - 1) : RemoveAt(s, i)[j] = s[IF j < i THEN j ELSE j + 1]
<1> DEFINE l == SubSeq(s, 1, i - 1)
           r == SubSeq(s, i + 1, Len(s))
<1>0. Len(s) \in Nat
  OBVIOUS
<1>1. l \in Seq(S) /\ Len(l) = i - 1 /\ \A j \in 1..(i - 1) : l[j] = s[j]
  OBVIOUS
<1>2. r \in Seq(S) /\ Len(r) = Len(s) - i /\ \A j \in 1..(Len(s) - i) : r[j] = s[i + j]
  OBVIOUS
<1>3. RemoveAt(s, i) = l \o r
  BY DEF RemoveAt
<1> HIDE DEF l, r
<1>4. l \in Seq(S) /\ r \in Seq(S)
  BY <1>1, <1>2
<1>5. l \o r \in Seq(S) /\ Len(l \o r) = Len(l) + Len(r)
  BY <1>4
<1>6. ASSUME NEW j \in 1..(Len(s) - 1)
      PROVE  (l \o r)[j] = s[IF j < i THEN j ELSE j + 1]
  <2>1. CASE j < i
    <3>1. j \in 1..(i - 1) /\ j \in 1..Len(l)
      BY <1>0, <1>1, <2>1
    <3>2. (l \o r)[j] = l[j]
      BY <1>4, <3>1
    <3> QED BY <1>1, <2>1, <3>1, <3>2
  <2>2. CASE ~(j < i)
    <3>1. j - (i - 1) \in 1..(Len(s) - i) /\ i + (j - (i - 1)) = j + 1
      BY <1>0, <2>2
    <3>2. (l \o r)[j] = r[j - (i - 1)]
      BY <1>0, <1>1, <1>2, <1>4, <2>2
    <3> QED BY <1>2, <2>2, <3>1, <3>2
  <2> QED BY <2>1, <2>2
<1> QED BY <1>0, <1>1, <1>2, <1>3, <1>5, <1>6

-----------------------------------------------------------------------------
(* What a fragment finds                                                   *)

HandshakeSafe == HandshakeTypes /\ CellsSent /\ Unmixed /\ AnswersMade /\ SeedsMade

\* The reassembler a fragment of c comes to, the place of its entry, and the
\* entry with the fragment.
Room(c, i) == makeRoom(inFlight[CircuitOf(c)], FragOf(c, i))
Place(c, i) == CHOOSE j \in DOMAIN Room(c, i) : Room(c, i)[j].id = chosen[c]
Stored(c, i) == withPart(Room(c, i)[Place(c, i)], FragOf(c, i))

LEMMA FrameOf ==
    ASSUME shared' = shared
    PROVE  /\ Capacity' = Capacity /\ Count' = Count /\ EntrySet' = EntrySet
           /\ \A c : CircuitOf(c)' = CircuitOf(c)
           /\ \A c, i : Data(c, i)' = Data(c, i)
<1>1. Capacity' = Capacity
  BY DEF Capacity
<1>2. Count' = Count
  BY <1>1 DEF Count
<1>3. \A c : CircuitOf(c)' = CircuitOf(c)
  BY DEF CircuitOf
<1>4. \A c, i : Data(c, i)' = Data(c, i)
  BY <1>1, <1>2 DEF Data
<1>5. EntrySet' = EntrySet
  BY <1>1, <1>2 DEF EntrySet, Parts
<1> QED BY <1>1, <1>2, <1>3, <1>4, <1>5

LEMMA FragFacts ==
    ASSUME HandshakeSafe, NEW c \in Begun, NEW i \in 1..Count
    PROVE  /\ c \in Initiators /\ CircuitOf(c) \in HandshakeCircuits /\ shared \in BOOLEAN
           /\ chosen[c] \in Ids /\ chosen[c] # 0 /\ Data(c, i) \in PieceSeqs
           /\ LET f == FragOf(c, i) IN
              f.id = chosen[c] /\ f.index = i /\ f.count = Count /\ f.size = Capacity /\ f.data = Data(c, i)
<1>1. c \in Initiators /\ shared \in BOOLEAN /\ chosen[c] \in Ids /\ chosen[c] # 0
  BY DEF HandshakeSafe, HandshakeTypes, Begun
<1>2. Data(c, i) \in PieceSeqs
  BY <1>1, DataFacts
<1> QED BY <1>1, <1>2 DEF CircuitOf, HandshakeCircuits, FragOf

LEMMA RoomFacts ==
    ASSUME HandshakeSafe, NEW c \in Begun, NEW i \in 1..Count
    PROVE  LET s == inFlight[CircuitOf(c)]
               es == Room(c, i)
               j == Place(c, i)
               e == Stored(c, i)
           IN  /\ s \in Seq(EntrySet) /\ es \in Seq(EntrySet) /\ j \in 1..Len(es) /\ es[j].id = chosen[c]
               /\ \A l \in 1..Len(es) : es[l] = Fresh(FragOf(c, i)) \/ \E h \in 1..Len(s) : es[l] = s[h]
               /\ (\E l \in 1..Len(s) : s[l].id = chosen[c]) => es = s
               /\ (Len(s) < MaxConcurrent /\ ~ \E l \in 1..Len(s) : s[l].id = chosen[c]) =>
                     es = Append(s, Fresh(FragOf(c, i)))
               /\ e \in EntrySet /\ e.id = chosen[c] /\ e.count = Count
               /\ DOMAIN e.parts = DOMAIN es[j].parts \cup {i}
               /\ \A l \in DOMAIN e.parts : e.parts[l] = IF l = i THEN Data(c, i) ELSE es[j].parts[l]
<1> DEFINE s == inFlight[CircuitOf(c)]
           es == Room(c, i)
           j == Place(c, i)
           e == Stored(c, i)
           f == FragOf(c, i)
<1>1. /\ CircuitOf(c) \in HandshakeCircuits /\ shared \in BOOLEAN
      /\ chosen[c] \in Ids /\ Data(c, i) \in PieceSeqs
      /\ f.id = chosen[c] /\ f.index = i /\ f.count = Count /\ f.size = Capacity /\ f.data = Data(c, i)
  BY FragFacts
<1>2. s \in Seq(EntrySet) /\ MaxConcurrent \in Nat \ {0}
  BY <1>1, CountFacts DEF HandshakeSafe, HandshakeTypes
<1>3. es = makeRoom(s, f)
  BY DEF Room
<1> HIDE DEF s, f, es
<1>4. /\ es \in Seq(EntrySet) /\ \E l \in 1..Len(es) : es[l].id = chosen[c]
      /\ \A l \in 1..Len(es) : es[l] = Fresh(f) \/ \E h \in 1..Len(s) : es[l] = s[h]
      /\ (\E l \in 1..Len(s) : s[l].id = chosen[c]) => es = s
      /\ (Len(s) < MaxConcurrent /\ ~ \E l \in 1..Len(s) : s[l].id = chosen[c]) => es = Append(s, Fresh(f))
  <2>1. f.id \in Ids /\ f.count = Count /\ f.size = Capacity
    BY <1>1
  <2>2. LET fs == makeRoom(s, f) IN
        /\ fs \in Seq(EntrySet) /\ \E l \in 1..Len(fs) : fs[l].id = f.id
        /\ \A l \in 1..Len(fs) : fs[l] = Fresh(f) \/ \E h \in 1..Len(s) : fs[l] = s[h]
        /\ (\E l \in 1..Len(s) : s[l].id = f.id) => fs = s
        /\ (Len(s) < MaxConcurrent /\ ~ \E l \in 1..Len(s) : s[l].id = f.id) => fs = Append(s, Fresh(f))
    BY <1>2, <2>1, RoomMade, Zenon
  <2> QED BY <1>1, <1>3, <2>2
<1>5. j \in 1..Len(es) /\ es[j].id = chosen[c]
  <2>1. DOMAIN es = 1..Len(es)
    BY <1>4
  <2> QED BY <1>4, <2>1 DEF Place, es
<1>6. e = withPart(es[j], f)
  BY DEF Stored, f, es
<1>7. es[j] \in EntrySet
  BY <1>4, <1>5
<1> HIDE DEF es, j, e
<1>8. /\ e \in EntrySet /\ e.id = es[j].id /\ e.count = Count
      /\ DOMAIN e.parts = DOMAIN es[j].parts \cup {f.index}
      /\ \A l \in DOMAIN e.parts : e.parts[l] = IF l = f.index THEN f.data ELSE es[j].parts[l]
  BY <1>1, <1>6, <1>7, PartStored
<1> QED BY <1>1, <1>2, <1>4, <1>5, <1>8 DEF s, es, j, e, f

LEMMA IngestUnfolds ==
    ASSUME HandshakeSafe, NEW c \in Begun, NEW i \in 1..Count, NEW again \in BOOLEAN,
           ingestFragment(CellOf(c, i), again)
    PROVE  LET k == CircuitOf(c)
               es == Room(c, i)
               j == Place(c, i)
               e == Stored(c, i)
               n == Cardinality(HalfDelivered(k, c))
           IN  /\ copies' = IF again THEN copies + 1 ELSE copies
               /\ cells' = IF again THEN cells ELSE cells \ {CellOf(c, i)}
               /\ peak' = IF n > peak THEN n ELSE peak
               /\ shared' = shared /\ outdated' = outdated /\ chosen' = chosen /\ seeds' = seeds
               /\ \/ /\ mismatch(es[j], FragOf(c, i)) /\ inFlight' = [inFlight EXCEPT ![k] = <<>>]
                     /\ sessions' = sessions /\ answers' = answers
                  \/ /\ DOMAIN e.parts = 1..Count /\ inFlight' = [inFlight EXCEPT ![k] = RemoveAt(es, j)]
                     /\ relayResponse(Assembled(e), c)
                  \/ /\ DOMAIN e.parts # 1..Count /\ inFlight' = [inFlight EXCEPT ![k] = [es EXCEPT ![j] = e]]
                     /\ sessions' = sessions /\ answers' = answers
<1> DEFINE cell == CellOf(c, i)
           f == FragOf(c, i)
           k == CircuitOf(c)
           es == Room(c, i)
           j == Place(c, i)
           e == Stored(c, i)
<1>1. cell.circuit = k /\ cell.owner = c /\ cell.fragment = f /\ f.id = chosen[c]
  BY DEF CellOf, FragOf
<1>2. wellFormed(f) /\ e.count = Count
  <2>1. shared \in BOOLEAN /\ c \in Initiators
    BY FragFacts
  <2>2. wellFormed(f)
    BY <2>1, FragmentsWellFormed
  <2> QED BY <2>2, RoomFacts
<1> HIDE DEF cell, f
<1>3. es = makeRoom(inFlight[k], f) /\ j = (CHOOSE l \in DOMAIN es : es[l].id = f.id) /\ e = withPart(es[j], f)
  BY <1>1 DEF Room, Place, Stored, f
<1> HIDE DEF k, es, j, e
<1>4. ingestFragment(cell, again)
  BY DEF cell
<1>5. /\ copies' = IF again THEN copies + 1 ELSE copies
      /\ cells' = IF again THEN cells ELSE cells \ {cell}
      /\ peak' = IF Cardinality(HalfDelivered(k, c)) > peak THEN Cardinality(HalfDelivered(k, c)) ELSE peak
      /\ shared' = shared /\ outdated' = outdated /\ chosen' = chosen /\ seeds' = seeds
  BY <1>1, <1>4 DEF ingestFragment
<1>6. \/ /\ mismatch(es[j], f) /\ inFlight' = [inFlight EXCEPT ![k] = <<>>]
         /\ sessions' = sessions /\ answers' = answers
      \/ /\ DOMAIN e.parts = 1..Count /\ inFlight' = [inFlight EXCEPT ![k] = RemoveAt(es, j)]
         /\ relayResponse(Assembled(e), c)
      \/ /\ DOMAIN e.parts # 1..Count /\ inFlight' = [inFlight EXCEPT ![k] = [es EXCEPT ![j] = e]]
         /\ sessions' = sessions /\ answers' = answers
  <2> DEFINE rs == makeRoom(inFlight[cell.circuit], cell.fragment)
             l == CHOOSE h \in DOMAIN rs : rs[h].id = cell.fragment.id
             g == withPart(rs[l], cell.fragment)
  <2>1. rs = es /\ l = j /\ g = e
    BY <1>1, <1>3
  <2>2. \/ /\ ~wellFormed(cell.fragment) \/ mismatch(rs[l], cell.fragment)
           /\ inFlight' = [inFlight EXCEPT ![cell.circuit] = <<>>]
           /\ UNCHANGED <<sessions, answers>>
        \/ /\ wellFormed(cell.fragment) /\ ~mismatch(rs[l], cell.fragment)
           /\ IF DOMAIN g.parts = 1..g.count
              THEN /\ inFlight' = [inFlight EXCEPT ![cell.circuit] = RemoveAt(rs, l)]
                   /\ relayResponse(Assembled(g), cell.owner)
              ELSE /\ inFlight' = [inFlight EXCEPT ![cell.circuit] = [rs EXCEPT ![l] = g]]
                   /\ UNCHANGED <<sessions, answers>>
    BY <1>4 DEF ingestFragment
  <2> HIDE DEF rs, l, g
  <2>3. \/ /\ ~wellFormed(f) \/ mismatch(es[j], f)
           /\ inFlight' = [inFlight EXCEPT ![k] = <<>>]
           /\ UNCHANGED <<sessions, answers>>
        \/ /\ wellFormed(f) /\ ~mismatch(es[j], f)
           /\ IF DOMAIN e.parts = 1..e.count
              THEN /\ inFlight' = [inFlight EXCEPT ![k] = RemoveAt(es, j)]
                   /\ relayResponse(Assembled(e), c)
              ELSE /\ inFlight' = [inFlight EXCEPT ![k] = [es EXCEPT ![j] = e]]
                   /\ UNCHANGED <<sessions, answers>>
    BY <1>1, <2>1, <2>2
  <2> QED BY <1>2, <2>3
<1> QED BY <1>5, <1>6 DEF cell, f, k, es, j, e

-----------------------------------------------------------------------------
(* The answer, and the steps of the invariant                              *)

LEMMA KeysCurrent ==
    ASSUME NEW c
    PROVE  KeyFor(c) = "current" <=> c \notin outdated
BY DEF KeyFor

\* relayResponse answers what it can open, and forgets nothing.
LEMMA ResponseMade ==
    ASSUME HandshakeSafe, NEW message, NEW to \in Initiators, relayResponse(message, to),
           ~shared => message = createMsg(to)
    PROVE  /\ sessions' \in Seq(SecretSet) /\ Len(sessions) <= Len(sessions')
           /\ \A n \in 1..Len(sessions) : sessions'[n] = sessions[n]
           /\ \A a \in answers' : a.to \in Initiators /\ \E n \in 1..Len(sessions') : sessions'[n] = a.auth
           /\ message = createMsg(to) /\ (shared => to \notin outdated) =>
                 \E n \in 1..Len(sessions') : sessions'[n].message = createMsg(to)
<1> DEFINE secret == Secret(message, Len(sessions) + 1, "current")
<1>1. shared \in BOOLEAN /\ sessions \in Seq(SecretSet) /\ Len(sessions) \in Nat
  BY DEF HandshakeSafe, HandshakeTypes
<1>2. AnswersMade
  BY DEF HandshakeSafe
<1>3. CASE Len(message) # Pieces \/ (shared /\ ~unseals(message))
  <2>1. sessions' = sessions /\ answers' = answers
    BY <1>3 DEF relayResponse
  <2>2. ~(message = createMsg(to) /\ (shared => to \notin outdated))
    <3>1. message = createMsg(to) => Len(message) = Pieces
      BY <1>1, MessageFacts
    <3>2. message = createMsg(to) /\ to \notin outdated => unseals(message)
      BY KeysCurrent DEF unseals
    <3> QED BY <1>1, <1>3, <3>1, <3>2
  <2> QED BY <1>1, <1>2, <2>1, <2>2 DEF AnswersMade
<1>4. CASE ~(Len(message) # Pieces \/ (shared /\ ~unseals(message)))
  <2>1. PICK d \in Initiators : message = createMsg(d) /\ (~shared => d = to)
    BY <1>1, <1>4 DEF unseals
  <2>2. message[1][1] = d
    <3>1. createMsg(d)[1] = <<d, 1>>
      BY <1>1, MessageFacts
    <3> QED BY <2>1, <3>1
  <2>3. /\ sessions' = Append(sessions, secret)
        /\ answers' = answers \cup {[to |-> IF shared THEN message[1][1] ELSE to, y |-> secret.y, auth |-> secret]}
    BY <1>4, Zenon DEF relayResponse
  <2>4. secret \in SecretSet /\ secret.message = message
    <3>1. Len(sessions) + 1 \in Nat
      BY <1>1
    <3>2. secret.message = message
      BY DEF Secret
    <3> QED BY <2>1, <3>1, <3>2 DEF SecretSet
  <2> HIDE DEF secret
  <2>5. /\ sessions' \in Seq(SecretSet) /\ Len(sessions') = Len(sessions) + 1
        /\ Len(sessions') \in 1..Len(sessions') /\ sessions'[Len(sessions')] = secret
        /\ \A n \in 1..Len(sessions) : n \in 1..Len(sessions') /\ sessions'[n] = sessions[n]
    BY <1>1, <2>3, <2>4
  <2>6. ASSUME NEW a \in answers'
        PROVE  a.to \in Initiators /\ \E n \in 1..Len(sessions') : sessions'[n] = a.auth
    <3>1. CASE a \in answers
      BY <1>2, <2>5, <3>1 DEF AnswersMade
    <3>2. CASE a \notin answers
      <4>1. a.to = (IF shared THEN message[1][1] ELSE to) /\ a.auth = secret
        BY <2>3, <3>2
      <4> QED BY <2>2, <2>5, <4>1
    <3> QED BY <3>1, <3>2
  <2>7. Len(sessions) <= Len(sessions')
    BY <1>1, <2>5
  <2>8. message = createMsg(to) => \E n \in 1..Len(sessions') : sessions'[n].message = createMsg(to)
    BY <2>4, <2>5
  <2> QED BY <2>5, <2>6, <2>7, <2>8
<1> QED BY <1>3, <1>4

\* On a circuit of its own a client finds its own fragments, and an entry
\* that is complete is its message.
LEMMA UnmixedRoom ==
    ASSUME HandshakeSafe, NEW c \in Begun, NEW i \in 1..Count, ~shared
    PROVE  /\ \A l \in 1..Len(Room(c, i)) : EntryOf(Room(c, i)[l], c)
           /\ EntryOf(Stored(c, i), c)
           /\ DOMAIN Stored(c, i).parts = 1..Count => Assembled(Stored(c, i)) = createMsg(c)
<1> DEFINE s == inFlight[c]
           es == Room(c, i)
           j == Place(c, i)
           e == Stored(c, i)
<1>1. CircuitOf(c) = c /\ c \in Initiators /\ shared \in BOOLEAN
  BY FragFacts DEF CircuitOf
<1>2. /\ c \in HandshakeCircuits
      /\ chosen[c] \in Ids /\ FragOf(c, i).id = chosen[c] /\ FragOf(c, i).count = Count /\ FragOf(c, i).size = Capacity
  BY <1>1, FragFacts DEF HandshakeCircuits
<1>3. /\ j \in 1..Len(es) /\ e.id = chosen[c] /\ e.count = Count
      /\ \A l \in 1..Len(es) : es[l] = Fresh(FragOf(c, i)) \/ \E h \in 1..Len(s) : es[l] = s[h]
      /\ DOMAIN e.parts = DOMAIN es[j].parts \cup {i}
      /\ \A l \in DOMAIN e.parts : e.parts[l] = IF l = i THEN Data(c, i) ELSE es[j].parts[l]
  BY <1>1, RoomFacts
<1>4. Fresh(FragOf(c, i)).id = chosen[c] /\ DOMAIN Fresh(FragOf(c, i)).parts = {}
  BY <1>2, FreshEntry
<1>5. \A h \in 1..Len(s) : EntryOf(s[h], c)
  BY <1>2 DEF HandshakeSafe, Unmixed
<1> HIDE DEF s, es, j, e
<1>6. \A l \in 1..Len(es) : EntryOf(es[l], c)
  BY <1>3, <1>4, <1>5 DEF EntryOf
<1>7. EntryOf(e, c)
  BY <1>3, <1>6 DEF EntryOf
<1>8. DOMAIN e.parts = 1..Count => Assembled(e) = createMsg(c)
  BY <1>1, <1>3, <1>7, AssembledWhole DEF EntryOf
<1> QED BY <1>6, <1>7, <1>8 DEF es, e

LEMMA FrameOfCells ==
    ASSUME shared' = shared, chosen' = chosen
    PROVE  Begun' = Begun /\ \A c, i : CellOf(c, i)' = CellOf(c, i)
<1>1. /\ Capacity' = Capacity /\ Count' = Count
      /\ \A c : CircuitOf(c)' = CircuitOf(c)
      /\ \A c, i : Data(c, i)' = Data(c, i)
  BY FrameOf
<1> QED BY <1>1 DEF CellOf, FragOf, Begun

\* A set of halves is a number.
LEMMA HalvesCounted ==
    ASSUME HandshakeSafe, NEW k, NEW c \in Begun
    PROVE  IsFiniteSet(HalfDelivered(k, c)) /\ Cardinality(HalfDelivered(k, c)) \in Nat
<1>1. HalfDelivered(k, c) \subseteq Begun
  BY DEF HalfDelivered, Begun
<1> QED BY <1>1, FS_Subset, FS_CardinalityType DEF HandshakeSafe, HandshakeTypes

\* The reassembler of a circuit after a fragment.
LEMMA EntriesTyped ==
    ASSUME HandshakeSafe, NEW c \in Begun, NEW i \in 1..Count
    PROVE  /\ <<>> \in Seq(EntrySet) /\ RemoveAt(Room(c, i), Place(c, i)) \in Seq(EntrySet)
           /\ [Room(c, i) EXCEPT ![Place(c, i)] = Stored(c, i)] \in Seq(EntrySet)
<1> DEFINE es == Room(c, i)
           j == Place(c, i)
           e == Stored(c, i)
<1>1. es \in Seq(EntrySet) /\ j \in 1..Len(es) /\ e \in EntrySet
  BY RoomFacts
<1> HIDE DEF es, j, e
<1>2. RemoveAt(es, j) \in Seq(EntrySet)
  BY <1>1, EntryRemoved
<1>3. [es EXCEPT ![j] = e] \in Seq(EntrySet)
  BY <1>1
<1> QED BY <1>2, <1>3 DEF es, j, e

LEMMA IngestTypes ==
    ASSUME HandshakeSafe, NEW c \in Begun, NEW i \in 1..Count, NEW again \in BOOLEAN,
           ingestFragment(CellOf(c, i), again)
    PROVE  HandshakeTypes'
<1> DEFINE k == CircuitOf(c)
           es == Room(c, i)
           j == Place(c, i)
           e == Stored(c, i)
           n == Cardinality(HalfDelivered(k, c))
<1>1. /\ copies' = IF again THEN copies + 1 ELSE copies
      /\ peak' = IF n > peak THEN n ELSE peak
      /\ shared' = shared /\ outdated' = outdated /\ chosen' = chosen /\ seeds' = seeds
      /\ \/ /\ inFlight' = [inFlight EXCEPT ![k] = <<>>] /\ sessions' = sessions
         \/ /\ DOMAIN e.parts = 1..Count /\ inFlight' = [inFlight EXCEPT ![k] = RemoveAt(es, j)]
            /\ relayResponse(Assembled(e), c)
         \/ /\ inFlight' = [inFlight EXCEPT ![k] = [es EXCEPT ![j] = e]] /\ sessions' = sessions
  BY IngestUnfolds
<1>2. /\ shared \in BOOLEAN /\ outdated \subseteq Initiators
      /\ chosen \in [Initiators -> Ids \cup {0}] /\ IsFiniteSet(Begun)
      /\ copies \in Nat /\ peak \in Nat
      /\ inFlight \in [HandshakeCircuits -> Seq(EntrySet)]
      /\ sessions \in Seq(SecretSet)
      /\ seeds = [d \in Initiators |-> seeds[d]]
  BY DEF HandshakeSafe, HandshakeTypes
<1>3. n \in Nat /\ k \in HandshakeCircuits /\ c \in Initiators
  BY HalvesCounted, FragFacts
<1>4. Begun' = Begun /\ EntrySet' = EntrySet
  BY <1>1, FrameOf, FrameOfCells
<1>5. /\ <<>> \in Seq(EntrySet) /\ RemoveAt(es, j) \in Seq(EntrySet)
      /\ [es EXCEPT ![j] = e] \in Seq(EntrySet)
  BY EntriesTyped
<1>6. sessions' \in Seq(SecretSet)
  <2>1. CASE DOMAIN e.parts = 1..Count /\ relayResponse(Assembled(e), c)
    <3>1. ~shared => Assembled(e) = createMsg(c)
      BY <2>1, UnmixedRoom
    <3> QED BY <1>3, <2>1, <3>1, ResponseMade
  <2>2. CASE sessions' = sessions
    BY <1>2, <2>2
  <2> QED BY <1>1, <2>1, <2>2
<1> HIDE DEF k, es, j, e, n
<1>7. inFlight' \in [HandshakeCircuits -> Seq(EntrySet)]
  <2>1. PICK r \in Seq(EntrySet) : inFlight' = [inFlight EXCEPT ![k] = r]
    BY <1>1, <1>5
  <2> QED BY <1>2, <1>3, <2>1
<1>8. copies' \in Nat /\ peak' \in Nat
  BY <1>1, <1>2, <1>3
<1>9. seeds' = [d \in Initiators |-> seeds'[d]]
  BY <1>1, <1>2
<1>10. SecretSet' = SecretSet /\ HandshakeCircuits' = HandshakeCircuits
  BY DEF SecretSet, HandshakeCircuits, Secret, createMsg
<1> QED BY <1>1, <1>2, <1>4, <1>6, <1>7, <1>8, <1>9, <1>10 DEF HandshakeTypes

\* What the responder has answered stays answered, and every answer has a session.
LEMMA IngestAnswers ==
    ASSUME HandshakeSafe, NEW c \in Begun, NEW i \in 1..Count, NEW again \in BOOLEAN,
           ingestFragment(CellOf(c, i), again)
    PROVE  /\ Len(sessions) \in Nat /\ Len(sessions') \in Nat /\ Len(sessions) <= Len(sessions')
           /\ \A n \in 1..Len(sessions) : sessions'[n] = sessions[n]
           /\ \A a \in answers' : a.to \in Initiators /\ \E n \in 1..Len(sessions') : sessions'[n] = a.auth
<1> DEFINE e == Stored(c, i)
<1>1. \/ sessions' = sessions /\ answers' = answers
      \/ DOMAIN e.parts = 1..Count /\ relayResponse(Assembled(e), c)
  BY IngestUnfolds
<1>2. sessions \in Seq(SecretSet) /\ Len(sessions) \in Nat
  BY DEF HandshakeSafe, HandshakeTypes
<1>3. CASE DOMAIN e.parts = 1..Count /\ relayResponse(Assembled(e), c)
  <2>1. ~shared => Assembled(e) = createMsg(c)
    BY <1>3, UnmixedRoom
  <2>2. c \in Initiators
    BY DEF Begun
  <2>3. /\ sessions' \in Seq(SecretSet) /\ Len(sessions) <= Len(sessions')
        /\ \A n \in 1..Len(sessions) : sessions'[n] = sessions[n]
        /\ \A a \in answers' : a.to \in Initiators /\ \E n \in 1..Len(sessions') : sessions'[n] = a.auth
    BY <1>3, <2>1, <2>2, ResponseMade
  <2> QED BY <1>2, <2>3
<1>4. CASE sessions' = sessions /\ answers' = answers
  BY <1>2, <1>4 DEF HandshakeSafe, AnswersMade
<1> QED BY <1>1, <1>3, <1>4

LEMMA IngestSafe ==
    ASSUME HandshakeSafe, NEW c \in Begun, NEW i \in 1..Count, NEW again \in BOOLEAN,
           ingestFragment(CellOf(c, i), again)
    PROVE  HandshakeSafe'
<1> DEFINE k == CircuitOf(c)
           es == Room(c, i)
           j == Place(c, i)
           e == Stored(c, i)
<1>1. /\ cells' = IF again THEN cells ELSE cells \ {CellOf(c, i)}
      /\ shared' = shared /\ outdated' = outdated /\ chosen' = chosen /\ seeds' = seeds
      /\ \/ /\ inFlight' = [inFlight EXCEPT ![k] = <<>>] /\ sessions' = sessions /\ answers' = answers
         \/ /\ DOMAIN e.parts = 1..Count /\ inFlight' = [inFlight EXCEPT ![k] = RemoveAt(es, j)]
            /\ relayResponse(Assembled(e), c)
         \/ /\ inFlight' = [inFlight EXCEPT ![k] = [es EXCEPT ![j] = e]] /\ sessions' = sessions /\ answers' = answers
  BY IngestUnfolds
<1>2. HandshakeTypes'
  BY IngestTypes
<1>3. /\ c \in Initiators /\ k \in HandshakeCircuits /\ inFlight \in [HandshakeCircuits -> Seq(EntrySet)]
      /\ es \in Seq(EntrySet) /\ j \in 1..Len(es)
  BY FragFacts, RoomFacts DEF HandshakeSafe, HandshakeTypes
<1>4. Begun' = Begun /\ Count' = Count /\ \A d, l : CellOf(d, l)' = CellOf(d, l) /\ Data(d, l)' = Data(d, l)
  BY <1>1, FrameOf, FrameOfCells
<1>5. CellsSent'
  <2>1. cells' \subseteq cells
    BY <1>1
  <2> QED BY <1>4, <2>1 DEF CellsSent, HandshakeSafe
<1>6. Unmixed'
  <2> SUFFICES ASSUME ~shared, NEW q \in HandshakeCircuits, NEW h \in 1..Len(inFlight'[q])
               PROVE  q \in Begun /\ EntryOf(inFlight[q][h], q)'
    BY <1>1, <1>4 DEF Unmixed, HandshakeCircuits
  <2>1. k = c
    BY DEF CircuitOf
  <2>2. (\A l \in 1..Len(es) : EntryOf(es[l], c)) /\ EntryOf(e, c)
    BY UnmixedRoom
  <2> HIDE DEF k, es, j, e
  <2>3. CASE q # k
    <3>1. inFlight'[q] = inFlight[q]
      BY <1>1, <1>3, <2>3
    <3> QED BY <1>1, <1>4, <3>1 DEF HandshakeSafe, Unmixed, EntryOf
  <2>4. CASE q = k
    <3>1. inFlight'[q] \in {<<>>, RemoveAt(es, j), [es EXCEPT ![j] = e]}
      BY <1>1, <1>3, <2>4
    <3>2. inFlight'[q][h] = e \/ \E l \in 1..Len(es) : inFlight'[q][h] = es[l]
      <4>1. CASE inFlight'[q] = <<>>
        BY <4>1
      <4>2. CASE inFlight'[q] = RemoveAt(es, j)
        <5>1. /\ Len(RemoveAt(es, j)) = Len(es) - 1
              /\ \A l \in 1..(Len(es) - 1) : RemoveAt(es, j)[l] = es[IF l < j THEN l ELSE l + 1]
          BY <1>3, EntryRemoved
        <5> QED BY <1>3, <4>2, <5>1
      <4>3. CASE inFlight'[q] = [es EXCEPT ![j] = e]
        BY <1>3, <4>3
      <4> QED BY <3>1, <4>1, <4>2, <4>3
    <3> QED BY <1>1, <1>4, <2>1, <2>2, <2>4, <3>2 DEF EntryOf
  <2> QED BY <2>3, <2>4
<1>7. /\ Len(sessions) \in Nat /\ Len(sessions') \in Nat /\ Len(sessions) <= Len(sessions')
      /\ \A n \in 1..Len(sessions) : sessions'[n] = sessions[n]
      /\ \A a \in answers' : a.to \in Initiators /\ \E n \in 1..Len(sessions') : sessions'[n] = a.auth
  BY IngestAnswers
<1>8. AnswersMade'
  BY <1>7 DEF AnswersMade
<1>9. SeedsMade'
  <2> SUFFICES ASSUME NEW d \in Initiators, seeds[d] \notin {NoSeed, Refused}
               PROVE  \E n \in 1..Len(sessions') : sessions'[n] = seeds[d] /\ seeds[d].message = createMsg(d)
    BY <1>1 DEF SeedsMade, NoSeed, Refused, Secret, createMsg
  <2>1. PICK n \in 1..Len(sessions) : sessions[n] = seeds[d] /\ seeds[d].message = createMsg(d)
    BY DEF HandshakeSafe, SeedsMade
  <2>2. n \in 1..Len(sessions')
    BY <1>7
  <2> QED BY <1>7, <2>1, <2>2
<1> QED BY <1>2, <1>5, <1>6, <1>8, <1>9 DEF HandshakeSafe

\* What a client that begins sends, and what it leaves alone.
LEMMA BeginUnfolds ==
    ASSUME HandshakeSafe, NEW c \in Initiators, NEW id \in Ids, beginHandshake(c, id)
    PROVE  /\ chosen[c] = 0 /\ id # 0 /\ chosen' = [chosen EXCEPT ![c] = id]
           /\ chosen'[c] = id /\ \A d \in Initiators : d # c => chosen'[d] = chosen[d]
           /\ Begun' = Begun \cup {c} /\ c \notin Begun
           /\ \A d, i : d # c /\ d \in Initiators => CellOf(d, i)' = CellOf(d, i)
           /\ cells' = cells \cup {CellOf(c, i)' : i \in 1..Count}
<1>1. /\ chosen[c] = 0 /\ chosen' = [chosen EXCEPT ![c] = id] /\ shared' = shared
      /\ cells' = cells \cup {[circuit |-> CircuitOf(c), owner |-> c, fragment |-> f] :
                                f \in fragmentMessage(createMsg(c), id, Capacity)}
  BY DEF beginHandshake
<1>2. shared \in BOOLEAN /\ chosen \in [Initiators -> Ids \cup {0}] /\ id # 0
  BY CountFacts DEF HandshakeSafe, HandshakeTypes
<1>3. chosen'[c] = id /\ \A d \in Initiators : d # c => chosen'[d] = chosen[d]
  BY <1>1, <1>2
<1>4. Begun' = Begun \cup {c} /\ c \notin Begun
  BY <1>1, <1>2, <1>3 DEF Begun
<1>5. /\ Capacity' = Capacity /\ Count' = Count
      /\ \A d : CircuitOf(d)' = CircuitOf(d)
      /\ \A d, i : Data(d, i)' = Data(d, i)
  BY <1>1, FrameOf
<1>6. \A d, i : d # c /\ d \in Initiators => CellOf(d, i)' = CellOf(d, i)
  BY <1>3, <1>5 DEF CellOf, FragOf
<1> DEFINE F(i) == [id |-> id, index |-> i, count |-> Count, size |-> Capacity, data |-> Data(c, i)]
<1>7. cells' = cells \cup {CellOf(c, i)' : i \in 1..Count}
  <2>1. \A i : CellOf(c, i)' = [circuit |-> CircuitOf(c), owner |-> c, fragment |-> F(i)]
    BY <1>3, <1>5 DEF CellOf, FragOf
  <2>2. fragmentMessage(createMsg(c), id, Capacity) = {F(i) : i \in 1..Count}
    BY <1>2, FragmentsAre
  <2> HIDE DEF F
  <2>3. {[circuit |-> CircuitOf(c), owner |-> c, fragment |-> f] : f \in {F(i) : i \in 1..Count}}
          = {CellOf(c, i)' : i \in 1..Count}
    BY <2>1
  <2> QED BY <1>1, <2>2, <2>3
<1> QED BY <1>1, <1>2, <1>3, <1>4, <1>6, <1>7

LEMMA BeginSafe ==
    ASSUME HandshakeSafe, NEW c \in Initiators, NEW id \in Ids, beginHandshake(c, id)
    PROVE  HandshakeSafe'
<1>1. /\ chosen[c] = 0 /\ chosen' = [chosen EXCEPT ![c] = id]
      /\ \A d \in Initiators : d # c => chosen'[d] = chosen[d]
      /\ Begun' = Begun \cup {c} /\ c \notin Begun
      /\ \A d, i : d # c /\ d \in Initiators => CellOf(d, i)' = CellOf(d, i)
      /\ cells' = cells \cup {CellOf(c, i)' : i \in 1..Count}
  BY BeginUnfolds
<1>2. /\ shared' = shared /\ outdated' = outdated /\ copies' = copies /\ inFlight' = inFlight
      /\ peak' = peak /\ sessions' = sessions /\ answers' = answers /\ seeds' = seeds
  BY DEF beginHandshake
<1>3. Count' = Count /\ EntrySet' = EntrySet /\ \A d, l : Data(d, l)' = Data(d, l)
  BY <1>2, FrameOf
<1>4. HandshakeTypes'
  <2>1. chosen' \in [Initiators -> Ids \cup {0}]
    BY <1>1 DEF HandshakeSafe, HandshakeTypes
  <2>2. IsFiniteSet(Begun')
    BY <1>1, FS_AddElement DEF HandshakeSafe, HandshakeTypes
  <2>3. SecretSet' = SecretSet /\ HandshakeCircuits' = HandshakeCircuits
    BY DEF SecretSet, HandshakeCircuits, Secret, createMsg
  <2> QED BY <1>2, <1>3, <2>1, <2>2, <2>3 DEF HandshakeSafe, HandshakeTypes
<1>5. CellsSent'
  <2> SUFFICES ASSUME NEW x \in cells'
               PROVE  \E d \in Begun', i \in 1..Count : x = CellOf(d, i)'
    BY <1>3 DEF CellsSent
  <2>1. CASE x \in cells
    <3>1. PICK d \in Begun, i \in 1..Count : x = CellOf(d, i)
      BY <2>1 DEF HandshakeSafe, CellsSent
    <3>2. d # c /\ d \in Initiators /\ d \in Begun'
      BY <1>1 DEF Begun
    <3> QED BY <1>1, <3>1, <3>2
  <2>2. CASE x \notin cells
    BY <1>1, <2>2
  <2> QED BY <2>1, <2>2
<1>6. Unmixed'
  <2> SUFFICES ASSUME ~shared, NEW q \in HandshakeCircuits, NEW h \in 1..Len(inFlight[q])
               PROVE  q \in Begun' /\ EntryOf(inFlight[q][h], q)'
    BY <1>2 DEF Unmixed, HandshakeCircuits
  <2>1. q \in Begun /\ EntryOf(inFlight[q][h], q)
    BY DEF HandshakeSafe, Unmixed
  <2>2. q \in Initiators /\ q # c
    BY <1>1, <2>1 DEF Begun
  <2> QED BY <1>1, <1>2, <1>3, <2>1, <2>2 DEF EntryOf
<1>7. AnswersMade' /\ SeedsMade'
  BY <1>2 DEF HandshakeSafe, AnswersMade, SeedsMade, NoSeed, Refused, Secret, createMsg
<1> QED BY <1>4, <1>5, <1>6, <1>7 DEF HandshakeSafe

\* Nothing of the responder, and nothing under way to it, changes.
LEMMA RestSafe ==
    ASSUME HandshakeSafe, shared' = shared, outdated' = outdated, chosen' = chosen, cells' = cells,
           copies' = copies, peak' = peak, inFlight' = inFlight, sessions' = sessions,
           seeds' = [d \in Initiators |-> seeds'[d]], AnswersMade', SeedsMade'
    PROVE  HandshakeSafe'
<1>1. Count' = Count /\ EntrySet' = EntrySet /\ \A d, l : Data(d, l)' = Data(d, l)
  BY FrameOf
<1>2. Begun' = Begun /\ \A d, i : CellOf(d, i)' = CellOf(d, i)
  BY FrameOfCells
<1>3. SecretSet' = SecretSet /\ HandshakeCircuits' = HandshakeCircuits
  BY DEF SecretSet, HandshakeCircuits, Secret, createMsg
<1>4. HandshakeTypes'
  BY <1>1, <1>2, <1>3 DEF HandshakeSafe, HandshakeTypes
<1>5. CellsSent'
  BY <1>1, <1>2 DEF HandshakeSafe, CellsSent
<1>6. Unmixed'
  BY <1>1, <1>2, <1>3 DEF HandshakeSafe, Unmixed, EntryOf
<1> QED BY <1>4, <1>5, <1>6 DEF HandshakeSafe

\* clientFinish: a key that is kept is the one of a session.
LEMMA AnswerSafe ==
    ASSUME HandshakeSafe, NEW a \in answers, answerArrives(a)
    PROVE  HandshakeSafe'
<1> DEFINE c == a.to
           secret == Secret(createMsg(c), a.y, KeyFor(c))
<1>1. /\ shared' = shared /\ outdated' = outdated /\ chosen' = chosen /\ cells' = cells
      /\ copies' = copies /\ peak' = peak /\ inFlight' = inFlight /\ sessions' = sessions
      /\ answers' = answers \ {a}
      /\ seeds' = [seeds EXCEPT ![c] = IF a.auth = secret THEN secret ELSE Refused]
  BY DEF answerArrives, clientFinish
<1>2. c \in Initiators /\ \E n \in 1..Len(sessions) : sessions[n] = a.auth
  BY DEF HandshakeSafe, AnswersMade
<1>3. secret.message = createMsg(c)
  BY DEF Secret
<1> HIDE DEF c, secret
<1>4. seeds = [d \in Initiators |-> seeds[d]]
  BY DEF HandshakeSafe, HandshakeTypes
<1>5. /\ seeds' = [d \in Initiators |-> seeds'[d]]
      /\ seeds'[c] = (IF a.auth = secret THEN secret ELSE Refused)
      /\ \A d \in Initiators : d # c => seeds'[d] = seeds[d]
  <2> DEFINE g == [d \in Initiators |-> seeds[d]]
             v == IF a.auth = secret THEN secret ELSE Refused
  <2>1. [g EXCEPT ![c] = v] = [d \in Initiators |-> IF d = c THEN v ELSE seeds[d]]
    BY <1>2
  <2>2. seeds' = [d \in Initiators |-> IF d = c THEN v ELSE seeds[d]]
    BY <1>1, <1>4, <2>1
  <2> QED BY <1>2, <2>2
<1>6. SeedsMade'
  <2> SUFFICES ASSUME NEW d \in Initiators, seeds'[d] \notin {NoSeed, Refused}
               PROVE  \E n \in 1..Len(sessions) : sessions[n] = seeds'[d] /\ seeds'[d].message = createMsg(d)
    BY <1>1 DEF SeedsMade, NoSeed, Refused, Secret, createMsg
  <2>1. CASE d = c
    BY <1>2, <1>3, <1>5, <2>1
  <2>2. CASE d # c
    BY <1>5, <2>2 DEF HandshakeSafe, SeedsMade
  <2> QED BY <2>1, <2>2
<1>7. AnswersMade'
  BY <1>1 DEF HandshakeSafe, AnswersMade
<1> QED BY <1>1, <1>5, <1>6, <1>7, RestSafe

LEMMA StartSafe == HandshakeInit => HandshakeSafe
<1> SUFFICES ASSUME HandshakeInit PROVE HandshakeSafe
  OBVIOUS
<1>1. Begun = {}
  BY DEF HandshakeInit, Begun
<1>2. HandshakeTypes
  <2>1. <<>> \in Seq(EntrySet) /\ <<>> \in Seq(SecretSet)
    OBVIOUS
  <2>2. IsFiniteSet(Begun)
    BY <1>1, FS_EmptySet
  <2> QED BY <2>1, <2>2 DEF HandshakeInit, HandshakeTypes
<1>3. CellsSent /\ Unmixed /\ AnswersMade /\ SeedsMade
  BY DEF HandshakeInit, CellsSent, Unmixed, AnswersMade, SeedsMade
<1> QED BY <1>2, <1>3 DEF HandshakeSafe

-----------------------------------------------------------------------------
(* Messages that nobody disturbs                                           *)

\* The fragments of c that have arrived, once each.
Arrived(c) == {i \in 1..Count : CellOf(c, i) \notin cells}

Alone ==
    /\ copies = 0 /\ peak <= MaxConcurrent
    /\ shared => \A c, d \in Begun : c # d => chosen[c] # chosen[d]

\* Entry j of circuit k is what has arrived of d, which is not all.
Holds(k, j, d) ==
    /\ CircuitOf(d) = k /\ EntryOf(inFlight[k][j], d)
    /\ DOMAIN inFlight[k][j].parts = Arrived(d) /\ Arrived(d) # {} /\ Arrived(d) # 1..Count
Held == \A k \in HandshakeCircuits : \A j \in 1..Len(inFlight[k]) : \E d \in Begun : Holds(k, j, d)
OneEach ==
    \A k \in HandshakeCircuits : \A j, h \in 1..Len(inFlight[k]) :
        j # h => inFlight[k][j].id # inFlight[k][h].id
PartKept ==
    \A d \in Begun : Arrived(d) # {} /\ Arrived(d) # 1..Count =>
        \E j \in 1..Len(inFlight[CircuitOf(d)]) : inFlight[CircuitOf(d)][j].id = chosen[d]
AllAnswered ==
    \A d \in Begun : Arrived(d) = 1..Count /\ (shared => d \notin outdated) =>
        \E n \in 1..Len(sessions) : sessions[n].message = createMsg(d)
AloneSafe == Alone => Held /\ OneEach /\ PartKept /\ AllAnswered

\* Nobody is alone who was not alone before.
LEMMA AloneBefore ==
    ASSUME HandshakeTypes, HandshakeTypes', shared' = shared, copies <= copies', peak <= peak',
           Begun \subseteq Begun', \A d \in Begun : chosen'[d] = chosen[d], Alone'
    PROVE  Alone
<1>1. copies \in Nat /\ peak \in Nat /\ copies' \in Nat /\ peak' \in Nat /\ MaxConcurrent \in Nat
  BY CountFacts DEF HandshakeTypes
<1>2. copies' = 0 /\ peak' <= MaxConcurrent
      /\ (shared => \A c, d \in Begun' : c # d => chosen'[c] # chosen'[d])
  BY DEF Alone
<1>3. copies = 0 /\ peak <= MaxConcurrent
  BY <1>1, <1>2
<1>4. shared => \A c, d \in Begun : c # d => chosen[c] # chosen[d]
  BY <1>2
<1> QED BY <1>3, <1>4 DEF Alone

\* What has arrived in part is missing in part.
LEMMA MissingSome ==
    ASSUME HandshakeSafe, NEW d \in Begun, Arrived(d) # {}, Arrived(d) # 1..Count
    PROVE  Missing(d) # {} /\ Cardinality(Missing(d)) \in Nat /\ Cardinality(Missing(d)) < Count
<1>1. Count \in Nat \ {0} /\ shared \in BOOLEAN
  BY FragFacts, CountFacts DEF HandshakeSafe, HandshakeTypes
<1>2. PICK i0 \in 1..Count : CellOf(d, i0) \notin cells
  BY DEF Arrived
<1>3. PICK i1 \in 1..Count : CellOf(d, i1) \in cells
  BY DEF Arrived
<1>4. CellOf(d, i1) \in Missing(d)
  BY <1>3 DEF Missing, CellOf
<1>5. \A x \in Missing(d) : x.fragment.index \in (1..Count) \ {i0} /\ x = CellOf(d, x.fragment.index)
  <2> SUFFICES ASSUME NEW x \in Missing(d)
               PROVE  x.fragment.index \in (1..Count) \ {i0} /\ x = CellOf(d, x.fragment.index)
    OBVIOUS
  <2>1. x \in cells /\ x.owner = d
    BY DEF Missing
  <2>2. PICK c \in Begun, i \in 1..Count : x = CellOf(c, i)
    BY <2>1 DEF HandshakeSafe, CellsSent
  <2>3. x.owner = c /\ x.fragment.index = i
    BY <2>2 DEF CellOf, FragOf
  <2> QED BY <1>2, <2>1, <2>2, <2>3
<1> DEFINE T == (1..Count) \ {i0}
           f == [x \in Missing(d) |-> x.fragment.index]
<1>6. IsFiniteSet(T) /\ Cardinality(T) = Count - 1
  <2>1. IsFiniteSet(1..Count) /\ Cardinality(1..Count) = Count
    BY <1>1, FS_Interval
  <2> QED BY <1>2, <2>1, FS_RemoveElement
<1>7. f \in Injection(Missing(d), T)
  <2>1. f \in [Missing(d) -> T]
    BY <1>5
  <2>2. \A x, y \in Missing(d) : f[x] = f[y] => x = y
    BY <1>5
  <2> QED BY <2>1, <2>2, Fun_IsInj
<1>8. IsFiniteSet(Missing(d)) /\ Cardinality(Missing(d)) <= Cardinality(T)
  BY <1>6, <1>7, FS_Injection
<1>9. Cardinality(Missing(d)) \in Nat
  BY <1>8, FS_CardinalityType
<1> QED BY <1>1, <1>4, <1>6, <1>8, <1>9

\* makeRoom drops nothing while maxConcurrent handshakes are half delivered at
\* most: each entry is one of them, and the new one is another.
LEMMA NothingDropped ==
    ASSUME HandshakeSafe, NEW c \in Begun, Held, OneEach, Arrived(c) = {},
           Cardinality(HalfDelivered(CircuitOf(c), c)) <= MaxConcurrent
    PROVE  Len(inFlight[CircuitOf(c)]) < MaxConcurrent
<1> DEFINE k == CircuitOf(c)
           s == inFlight[k]
           H == HalfDelivered(k, c)
           T == H \ {c}
           f == [j \in 1..Len(s) |-> CHOOSE d \in Begun : Holds(k, j, d)]
<1>1. k \in HandshakeCircuits /\ MaxConcurrent \in Nat
  <2>1. c \in Initiators /\ shared \in BOOLEAN
    BY DEF Begun, HandshakeSafe, HandshakeTypes
  <2> QED BY <2>1, CountFacts DEF CircuitOf, HandshakeCircuits
<1>2. Len(s) \in Nat
  BY <1>1 DEF HandshakeSafe, HandshakeTypes
<1>3. IsFiniteSet(H) /\ Cardinality(H) \in Nat /\ c \in H
  BY HalvesCounted DEF HalfDelivered
<1>4. \A j \in 1..Len(s) : f[j] \in Begun /\ Holds(k, j, f[j])
  BY <1>1 DEF Held
<1> HIDE DEF f, k
<1>5. ASSUME NEW j \in 1..Len(s)
      PROVE  f[j] \in T /\ s[j].id = chosen[f[j]]
  <2>1. /\ f[j] \in Begun /\ CircuitOf(f[j]) = k /\ s[j].id = chosen[f[j]]
        /\ Arrived(f[j]) # {} /\ Arrived(f[j]) # 1..Count
    BY <1>4 DEF Holds, EntryOf
  <2>2. Missing(f[j]) # {} /\ Cardinality(Missing(f[j])) < Count
    BY <2>1, MissingSome
  <2>3. f[j] \in H /\ f[j] # c
    BY <2>1, <2>2 DEF HalfDelivered, Begun
  <2> QED BY <2>1, <2>3
<1>6. f \in Injection(1..Len(s), T)
  <2>0. f = [j \in 1..Len(s) |-> f[j]]
    BY DEF f
  <2>1. f \in [1..Len(s) -> T]
    BY <1>5, <2>0
  <2>2. \A j, h \in 1..Len(s) : f[j] = f[h] => j = h
    BY <1>1, <1>5 DEF OneEach
  <2> QED BY <2>1, <2>2, Fun_IsInj
<1>7. IsFiniteSet(T) /\ Cardinality(T) = Cardinality(H) - 1
  <2> HIDE DEF H
  <2> QED BY <1>3, FS_RemoveElement
<1>8. IsFiniteSet(1..Len(s)) /\ Cardinality(1..Len(s)) = Len(s)
  BY <1>2, FS_Interval
<1>9. Cardinality(1..Len(s)) <= Cardinality(T)
  BY <1>6, <1>7, FS_Injection
<1> QED BY <1>1, <1>2, <1>3, <1>7, <1>8, <1>9 DEF k

LEMMA SameOwner ==
    ASSUME HandshakeSafe, Alone, NEW c \in Begun, NEW d \in Begun,
           CircuitOf(c) = CircuitOf(d), chosen[c] = chosen[d]
    PROVE  c = d
BY DEF Alone, CircuitOf

LEMMA EntryHeld ==
    ASSUME HandshakeSafe, Alone, Held, NEW c \in Begun, NEW j \in 1..Len(inFlight[CircuitOf(c)]),
           inFlight[CircuitOf(c)][j].id = chosen[c]
    PROVE  Holds(CircuitOf(c), j, c)
<1>1. CircuitOf(c) \in HandshakeCircuits
  BY DEF Begun, CircuitOf, HandshakeCircuits, HandshakeSafe, HandshakeTypes
<1>2. PICK d \in Begun : Holds(CircuitOf(c), j, d)
  BY <1>1 DEF Held
<1>3. CircuitOf(d) = CircuitOf(c) /\ chosen[d] = chosen[c]
  BY <1>2 DEF Holds, EntryOf
<1> QED BY <1>2, <1>3, SameOwner

\* The reassembler that a fragment of c finds: an entry for each message, and
\* the one of c without that fragment.
LEMMA AloneRoom ==
    ASSUME HandshakeSafe, Alone, Held, OneEach, PartKept, NEW c \in Begun, NEW i \in 1..Count,
           CellOf(c, i) \in cells, Cardinality(HalfDelivered(CircuitOf(c), c)) <= MaxConcurrent
    PROVE  LET s == inFlight[CircuitOf(c)]
               es == Room(c, i)
               j == Place(c, i)
           IN  /\ \A l, h \in 1..Len(es) : l # h => es[l].id # es[h].id
               /\ \A l \in 1..Len(es) : l # j => \E h \in 1..Len(s) : es[l] = s[h]
               /\ \A h \in 1..Len(s) : s[h].id # chosen[c] => \E l \in 1..Len(es) : l # j /\ es[l] = s[h]
               /\ EntryOf(es[j], c) /\ DOMAIN es[j].parts = Arrived(c) /\ i \notin Arrived(c)
               /\ ~mismatch(es[j], FragOf(c, i))
<1> DEFINE k == CircuitOf(c)
           s == inFlight[k]
           es == Room(c, i)
           j == Place(c, i)
           f == FragOf(c, i)
<1>1. /\ s \in Seq(EntrySet) /\ es \in Seq(EntrySet) /\ j \in 1..Len(es) /\ es[j].id = chosen[c]
      /\ (\E l \in 1..Len(s) : s[l].id = chosen[c]) => es = s
      /\ (Len(s) < MaxConcurrent /\ ~ \E l \in 1..Len(s) : s[l].id = chosen[c]) => es = Append(s, Fresh(f))
  BY RoomFacts
<1>2. /\ k \in HandshakeCircuits /\ chosen[c] \in Ids
      /\ f.id = chosen[c] /\ f.index = i /\ f.count = Count /\ f.size = Capacity
  BY FragFacts
<1>3. Fresh(f) \in EntrySet /\ Fresh(f).id = chosen[c] /\ DOMAIN Fresh(f).parts = {}
  BY <1>2, FreshEntry
<1>4. i \notin Arrived(c) /\ Arrived(c) # 1..Count
  BY DEF Arrived
<1>5. \A l, h \in 1..Len(s) : l # h => s[l].id # s[h].id
  BY <1>2 DEF OneEach
<1>6. ASSUME NEW h \in 1..Len(s), s[h].id = chosen[c]
      PROVE  EntryOf(s[h], c) /\ DOMAIN s[h].parts = Arrived(c) /\ Arrived(c) # {}
  BY <1>6, EntryHeld DEF Holds
<1> HIDE DEF k, s, es, j, f
<1>7. /\ \A l, h \in 1..Len(es) : l # h => es[l].id # es[h].id
      /\ \A l \in 1..Len(es) : l # j => \E h \in 1..Len(s) : es[l] = s[h]
      /\ \A h \in 1..Len(s) : s[h].id # chosen[c] => \E l \in 1..Len(es) : l # j /\ es[l] = s[h]
      /\ EntryOf(es[j], c) /\ DOMAIN es[j].parts = Arrived(c)
  <2>1. CASE \E l \in 1..Len(s) : s[l].id = chosen[c]
    <3>1. es = s
      BY <1>1, <2>1
    <3>2. EntryOf(es[j], c) /\ DOMAIN es[j].parts = Arrived(c)
      BY <1>1, <1>6, <3>1
    <3>3. \A l, h \in 1..Len(es) : l # h => es[l].id # es[h].id
      BY <1>5, <3>1
    <3>4. \A l \in 1..Len(es) : \E h \in 1..Len(s) : es[l] = s[h]
      BY <3>1
    <3>5. \A h \in 1..Len(s) : s[h].id # chosen[c] => h # j /\ h \in 1..Len(es) /\ es[h] = s[h]
      BY <1>1, <3>1
    <3> QED BY <3>2, <3>3, <3>4, <3>5
  <2>2. CASE ~ \E l \in 1..Len(s) : s[l].id = chosen[c]
    <3>1. Arrived(c) = {}
      <4>1. Arrived(c) # {} => \E l \in 1..Len(inFlight[CircuitOf(c)]) : inFlight[CircuitOf(c)][l].id = chosen[c]
        BY <1>4 DEF PartKept
      <4> QED BY <2>2, <4>1 DEF k, s
    <3>2. Len(s) < MaxConcurrent
      BY <3>1, NothingDropped DEF k, s
    <3>3. es = Append(s, Fresh(f))
      BY <1>1, <2>2, <3>2
    <3>4. /\ Len(es) = Len(s) + 1 /\ Len(s) \in Nat /\ es[Len(s) + 1] = Fresh(f)
          /\ \A l \in 1..Len(s) : l \in 1..Len(es) /\ es[l] = s[l]
      BY <1>1, <1>3, <3>3
    <3>5. j = Len(s) + 1
      BY <1>1, <2>2, <3>4
    <3>6. EntryOf(es[j], c) /\ DOMAIN es[j].parts = Arrived(c)
      BY <1>3, <3>1, <3>4, <3>5 DEF EntryOf
    <3>7. \A l, h \in 1..Len(es) : l # h => es[l].id # es[h].id
      BY <1>3, <1>5, <2>2, <3>4
    <3>8. \A l \in 1..Len(es) : l # j => l \in 1..Len(s) /\ es[l] = s[l]
      BY <3>4, <3>5
    <3>9. \A h \in 1..Len(s) : h # j /\ h \in 1..Len(es) /\ es[h] = s[h]
      BY <3>4, <3>5
    <3> QED BY <3>6, <3>7, <3>8, <3>9
  <2> QED BY <2>1, <2>2
<1>8. ~mismatch(es[j], f)
  <2>0. es[j] \in EntrySet
    BY <1>1
  <2>1. es[j].count = Count /\ es[j].size = Capacity
    BY <2>0 DEF EntrySet
  <2> QED BY <1>2, <1>4, <1>7, <2>1 DEF mismatch
<1> QED BY <1>4, <1>7, <1>8 DEF k, s, es, j, f

\* One entry replaced by another of the same id, and no other.
LEMMA OthersStay ==
    ASSUME NEW es \in Seq(EntrySet), NEW j \in 1..Len(es), NEW e \in EntrySet, e.id = es[j].id,
           \A l, h \in 1..Len(es) : l # h => es[l].id # es[h].id
    PROVE  LET r == [es EXCEPT ![j] = e] IN
           /\ \A h \in 1..Len(r) : r[h] = e \/ \E l \in 1..Len(es) : l # j /\ r[h] = es[l]
           /\ \A h, g \in 1..Len(r) : h # g => r[h].id # r[g].id
           /\ \A l \in 1..Len(es) : l # j => \E h \in 1..Len(r) : r[h] = es[l]
           /\ \E h \in 1..Len(r) : r[h] = e
<1> DEFINE r == [es EXCEPT ![j] = e]
<1>1. Len(r) = Len(es) /\ r[j] = e /\ \A l \in 1..Len(es) : l # j => r[l] = es[l]
  OBVIOUS
<1> HIDE DEF r
<1>2. \A h \in 1..Len(r) : r[h].id = es[h].id
  BY <1>1
<1>3. \A h, g \in 1..Len(r) : h # g => r[h].id # r[g].id
  BY <1>1, <1>2
<1> QED BY <1>1, <1>3 DEF r

\* One entry taken out, and no other.
LEMMA OthersRemain ==
    ASSUME NEW es \in Seq(EntrySet), NEW j \in 1..Len(es),
           \A l, h \in 1..Len(es) : l # h => es[l].id # es[h].id
    PROVE  LET r == RemoveAt(es, j) IN
           /\ \A h \in 1..Len(r) : \E l \in 1..Len(es) : l # j /\ r[h] = es[l]
           /\ \A h, g \in 1..Len(r) : h # g => r[h].id # r[g].id
           /\ \A l \in 1..Len(es) : l # j => \E h \in 1..Len(r) : r[h] = es[l]
<1> DEFINE r == RemoveAt(es, j)
           at(h) == IF h < j THEN h ELSE h + 1
<1>0. Len(es) \in Nat /\ j \in Nat /\ 1 <= j /\ j <= Len(es)
  OBVIOUS
<1>1. Len(r) = Len(es) - 1 /\ \A h \in 1..(Len(es) - 1) : r[h] = es[at(h)]
  BY EntryRemoved
<1>2. \A h \in 1..(Len(es) - 1) : at(h) \in 1..Len(es) /\ at(h) # j
  BY <1>0
<1>3. \A h, g \in 1..(Len(es) - 1) : h # g => at(h) # at(g)
  BY <1>0
<1>4. \A l \in 1..Len(es) : l # j => \E h \in 1..(Len(es) - 1) : at(h) = l
  <2> SUFFICES ASSUME NEW l \in 1..Len(es), l # j
               PROVE  \E h \in 1..(Len(es) - 1) : at(h) = l
    OBVIOUS
  <2>1. CASE l < j
    <3>1. l \in 1..(Len(es) - 1) /\ at(l) = l
      BY <1>0, <2>1
    <3> QED BY <3>1
  <2>2. CASE ~(l < j)
    <3>1. l - 1 \in 1..(Len(es) - 1) /\ at(l - 1) = l
      BY <1>0, <2>2
    <3> QED BY <3>1
  <2> QED BY <2>1, <2>2
<1> HIDE DEF r, at
<1>5. \A h \in 1..Len(r) : \E l \in 1..Len(es) : l # j /\ r[h] = es[l]
  BY <1>1, <1>2
<1>6. \A h, g \in 1..Len(r) : h # g => r[h].id # r[g].id
  <2> SUFFICES ASSUME NEW h \in 1..(Len(es) - 1), NEW g \in 1..(Len(es) - 1), h # g
               PROVE  es[at(h)].id # es[at(g)].id
    BY <1>0, <1>1
  <2>1. at(h) \in 1..Len(es) /\ at(g) \in 1..Len(es) /\ at(h) # at(g)
    BY <1>2, <1>3
  <2> QED BY <2>1
<1>7. \A l \in 1..Len(es) : l # j => \E h \in 1..Len(r) : r[h] = es[l]
  BY <1>1, <1>4
<1> QED BY <1>5, <1>6, <1>7 DEF r

\* One more fragment of c has arrived, and of nobody else.
LEMMA OneMoreArrived ==
    ASSUME HandshakeSafe, NEW c \in Begun, NEW i \in 1..Count, shared' = shared, chosen' = chosen,
           cells' = cells \ {CellOf(c, i)}
    PROVE  /\ Arrived(c)' = Arrived(c) \cup {i}
           /\ \A d \in Begun : d # c => Arrived(d)' = Arrived(d)
<1>1. Count' = Count /\ \A d, l : CellOf(d, l)' = CellOf(d, l)
  BY FrameOf, FrameOfCells
<1>2. \A d, l : CellOf(d, l) = CellOf(c, i) => d = c /\ l = i
  BY DEF CellOf, FragOf
<1>3. Arrived(c)' = {l \in 1..Count : CellOf(c, l) \notin cells \ {CellOf(c, i)}}
  BY <1>1 DEF Arrived
<1>4. \A d \in Begun : Arrived(d)' = {l \in 1..Count : CellOf(d, l) \notin cells \ {CellOf(c, i)}}
  BY <1>1 DEF Arrived
<1> QED BY <1>2, <1>3, <1>4 DEF Arrived

LEMMA IngestAlone ==
    ASSUME HandshakeSafe, AloneSafe, NEW c \in Begun, NEW i \in 1..Count, NEW again \in BOOLEAN,
           CellOf(c, i) \in cells, ingestFragment(CellOf(c, i), again), Alone'
    PROVE  Held' /\ OneEach' /\ PartKept' /\ AllAnswered'
<1> DEFINE k == CircuitOf(c)
           s == inFlight[k]
           es == Room(c, i)
           j == Place(c, i)
           e == Stored(c, i)
           n == Cardinality(HalfDelivered(k, c))
           stored == DOMAIN e.parts # 1..Count
           r == IF stored THEN [es EXCEPT ![j] = e] ELSE RemoveAt(es, j)
<1>1. /\ copies' = IF again THEN copies + 1 ELSE copies
      /\ cells' = IF again THEN cells ELSE cells \ {CellOf(c, i)}
      /\ peak' = IF n > peak THEN n ELSE peak
      /\ shared' = shared /\ outdated' = outdated /\ chosen' = chosen
      /\ \/ mismatch(es[j], FragOf(c, i))
         \/ /\ DOMAIN e.parts = 1..Count /\ inFlight' = [inFlight EXCEPT ![k] = RemoveAt(es, j)]
            /\ relayResponse(Assembled(e), c)
         \/ DOMAIN e.parts # 1..Count /\ inFlight' = [inFlight EXCEPT ![k] = [es EXCEPT ![j] = e]]
  BY IngestUnfolds
<1>2. /\ copies \in Nat /\ peak \in Nat /\ n \in Nat /\ MaxConcurrent \in Nat
      /\ inFlight \in [HandshakeCircuits -> Seq(EntrySet)]
      /\ k \in HandshakeCircuits /\ c \in Initiators /\ shared \in BOOLEAN
  BY HalvesCounted, FragFacts, CountFacts DEF HandshakeSafe, HandshakeTypes
<1>3. /\ cells' = cells \ {CellOf(c, i)} /\ copies' = copies /\ peak <= peak' /\ n <= MaxConcurrent
  BY <1>1, <1>2 DEF Alone
<1>4. /\ Begun' = Begun /\ Count' = Count /\ \A d : CircuitOf(d)' = CircuitOf(d)
      /\ \A d, l : Data(d, l)' = Data(d, l)
  BY <1>1, FrameOf, FrameOfCells
<1>5. Alone /\ Held /\ OneEach /\ PartKept /\ AllAnswered
  <2>1. HandshakeTypes /\ HandshakeTypes'
    BY IngestTypes DEF HandshakeSafe
  <2>2. copies <= copies' /\ Begun \subseteq Begun' /\ \A d \in Begun : chosen'[d] = chosen[d]
    BY <1>1, <1>2, <1>3, <1>4
  <2>3. Alone
    BY <1>1, <1>3, <2>1, <2>2, AloneBefore
  <2> QED BY <2>3 DEF AloneSafe
<1>6. /\ \A l, h \in 1..Len(es) : l # h => es[l].id # es[h].id
      /\ \A l \in 1..Len(es) : l # j => \E h \in 1..Len(s) : es[l] = s[h]
      /\ \A h \in 1..Len(s) : s[h].id # chosen[c] => \E l \in 1..Len(es) : l # j /\ es[l] = s[h]
      /\ EntryOf(es[j], c) /\ DOMAIN es[j].parts = Arrived(c) /\ ~mismatch(es[j], FragOf(c, i))
  BY <1>3, <1>5, AloneRoom
<1>7. /\ es \in Seq(EntrySet) /\ j \in 1..Len(es) /\ es[j].id = chosen[c]
      /\ e \in EntrySet /\ e.id = chosen[c] /\ e.count = Count
      /\ DOMAIN e.parts = DOMAIN es[j].parts \cup {i}
      /\ \A l \in DOMAIN e.parts : e.parts[l] = IF l = i THEN Data(c, i) ELSE es[j].parts[l]
  BY RoomFacts
<1>8. /\ Arrived(c)' = Arrived(c) \cup {i}
      /\ \A d \in Begun : d # c => Arrived(d)' = Arrived(d)
  BY <1>1, <1>3, OneMoreArrived
<1>9. /\ \A d \in Begun : d # c /\ CircuitOf(d) = k => chosen[d] # chosen[c]
  BY <1>5, SameOwner
<1>10. EntryOf(e, c) /\ DOMAIN e.parts = Arrived(c)'
  BY <1>6, <1>7, <1>8 DEF EntryOf
<1>11. inFlight' = [inFlight EXCEPT ![k] = r]
  BY <1>1, <1>6
<1>12. /\ stored \in BOOLEAN /\ e.id = es[j].id
       /\ r = IF stored THEN [es EXCEPT ![j] = e] ELSE RemoveAt(es, j)
  BY <1>7
<1>13. \A q \in HandshakeCircuits : inFlight'[q] = IF q = k THEN r ELSE inFlight[q]
  <2> HIDE DEF r, k
  <2> QED BY <1>2, <1>11
<1> HIDE DEF k, s, es, j, e, n, stored, r
<1>14. /\ \A h \in 1..Len(r) : (stored /\ r[h] = e) \/ \E l \in 1..Len(es) : l # j /\ r[h] = es[l]
       /\ \A h, g \in 1..Len(r) : h # g => r[h].id # r[g].id
       /\ \A l \in 1..Len(es) : l # j => \E h \in 1..Len(r) : r[h] = es[l]
       /\ stored => \E h \in 1..Len(r) : r[h] = e
  <2>1. /\ es \in Seq(EntrySet) /\ j \in 1..Len(es) /\ e \in EntrySet /\ e.id = es[j].id
        /\ \A l, h \in 1..Len(es) : l # h => es[l].id # es[h].id
    BY <1>6, <1>7
  <2>2. CASE stored
    <3>1. r = [es EXCEPT ![j] = e]
      BY <1>12, <2>2
    <3> QED BY <2>1, <2>2, <3>1, OthersStay
  <2>3. CASE ~stored
    <3>1. r = RemoveAt(es, j)
      BY <1>12, <2>3
    <3>2. LET q == RemoveAt(es, j) IN
          /\ \A h \in 1..Len(q) : \E l \in 1..Len(es) : l # j /\ q[h] = es[l]
          /\ \A h, g \in 1..Len(q) : h # g => q[h].id # q[g].id
          /\ \A l \in 1..Len(es) : l # j => \E h \in 1..Len(q) : q[h] = es[l]
      BY <2>1, OthersRemain, Zenon
    <3> QED BY <2>3, <3>1, <3>2
  <2> QED BY <2>2, <2>3
<1>15. Held'
  <2> SUFFICES ASSUME NEW q \in HandshakeCircuits, NEW h \in 1..Len(inFlight'[q])
               PROVE  \E d \in Begun : Holds(q, h, d)'
    BY <1>4 DEF Held, HandshakeCircuits
  <2>0. ASSUME NEW g \in 1..Len(inFlight[q]), inFlight'[q][h] = inFlight[q][g],
               NEW d \in Begun, d # c, Holds(q, g, d)
        PROVE  Holds(q, h, d)'
    BY <1>1, <1>4, <1>8, <2>0 DEF Holds, EntryOf
  <2>1. CASE q # k
    <3>1. inFlight'[q] = inFlight[q]
      BY <1>13, <2>1
    <3>2. PICK d \in Begun : Holds(q, h, d)
      BY <1>5, <3>1 DEF Held
    <3>3. d # c
      BY <2>1, <3>2 DEF Holds, k
    <3> QED BY <2>0, <3>1, <3>2, <3>3
  <2>2. CASE q = k
    <3>1. inFlight'[q] = r /\ inFlight[q] = s
      BY <1>13, <2>2 DEF s
    <3>2. CASE stored /\ r[h] = e
      <4>1. Arrived(c)' # {} /\ Arrived(c)' # (1..Count)'
        BY <1>4, <1>8, <1>10, <3>2 DEF stored
      <4>2. CircuitOf(c)' = q /\ EntryOf(inFlight[q][h], c)' /\ DOMAIN inFlight'[q][h].parts = Arrived(c)'
        BY <1>1, <1>4, <1>10, <2>2, <3>1, <3>2 DEF EntryOf, k
      <4>3. Holds(q, h, c)'
        BY <4>1, <4>2 DEF Holds
      <4> QED BY <4>3
    <3>3. CASE \E l \in 1..Len(es) : l # j /\ r[h] = es[l]
      <4>1. PICK l \in 1..Len(es) : l # j /\ r[h] = es[l]
        BY <3>3
      <4>2. PICK g \in 1..Len(s) : es[l] = s[g]
        BY <1>6, <4>1
      <4>3. PICK d \in Begun : Holds(q, g, d)
        BY <1>5, <3>1 DEF Held
      <4>4. s[g].id = chosen[d]
        BY <3>1, <4>3 DEF Holds, EntryOf
      <4>5. d # c
        BY <1>6, <1>7, <4>1, <4>2, <4>4
      <4> QED BY <2>0, <3>1, <4>1, <4>2, <4>3, <4>5
    <3> QED BY <1>14, <3>1, <3>2, <3>3
  <2> QED BY <2>1, <2>2
<1>16. OneEach'
  <2> SUFFICES ASSUME NEW q \in HandshakeCircuits, NEW h \in 1..Len(inFlight'[q]), NEW g \in 1..Len(inFlight'[q]), h # g
               PROVE  inFlight'[q][h].id # inFlight'[q][g].id
    BY DEF OneEach, HandshakeCircuits
  <2>1. CASE q = k
    <3>1. inFlight'[q] = r
      BY <1>13, <2>1
    <3>2. h \in 1..Len(r) /\ g \in 1..Len(r)
      BY <3>1
    <3>3. r[h].id # r[g].id
      BY <1>14, <3>2
    <3> QED BY <3>1, <3>3
  <2>2. CASE q # k
    BY <1>5, <1>13, <2>2 DEF OneEach
  <2> QED BY <2>1, <2>2
<1>17. PartKept'
  <2> SUFFICES ASSUME NEW d \in Begun, Arrived(d)' # {}, Arrived(d)' # 1..Count
               PROVE  \E h \in 1..Len(inFlight'[CircuitOf(d)]) : inFlight'[CircuitOf(d)][h].id = chosen[d]
    BY <1>1, <1>4 DEF PartKept
  <2>0. CircuitOf(d) \in HandshakeCircuits
    BY DEF CircuitOf, HandshakeCircuits, Begun
  <2>1. CASE d = c
    <3>1. stored
      BY <1>10, <2>1 DEF stored
    <3>2. PICK h \in 1..Len(r) : r[h] = e
      BY <1>14, <3>1
    <3>3. inFlight'[CircuitOf(d)] = r
      BY <1>13, <2>0, <2>1 DEF k
    <3> QED BY <1>7, <2>1, <3>2, <3>3
  <2>2. CASE d # c
    <3>1. PICK g \in 1..Len(inFlight[CircuitOf(d)]) : inFlight[CircuitOf(d)][g].id = chosen[d]
      BY <1>5, <1>8, <2>2 DEF PartKept
    <3>2. CASE CircuitOf(d) = k
      <4>1. g \in 1..Len(s) /\ s[g].id = chosen[d] /\ s[g].id # chosen[c]
        BY <1>9, <2>2, <3>1, <3>2 DEF s
      <4>2. PICK l \in 1..Len(es) : l # j /\ es[l] = s[g]
        BY <1>6, <4>1
      <4>3. PICK h \in 1..Len(r) : r[h] = es[l]
        BY <1>14, <4>2
      <4>4. inFlight'[CircuitOf(d)] = r
        BY <1>13, <2>0, <3>2
      <4> QED BY <4>1, <4>2, <4>3, <4>4
    <3>3. CASE CircuitOf(d) # k
      BY <1>13, <2>0, <3>1, <3>3
    <3> QED BY <3>2, <3>3
  <2> QED BY <2>1, <2>2
<1>18. AllAnswered'
  <2> SUFFICES ASSUME NEW d \in Begun, Arrived(d)' = 1..Count, shared => d \notin outdated
               PROVE  \E l \in 1..Len(sessions') : sessions'[l].message = createMsg(d)
    BY <1>1, <1>4 DEF AllAnswered, createMsg
  <2>1. CASE d = c
    <3>1. DOMAIN e.parts = 1..Count
      BY <1>10, <2>1
    <3>2. relayResponse(Assembled(e), c)
      BY <1>1, <1>6, <3>1 DEF e, es, j
    <3>3. Assembled(e) = createMsg(c)
      BY <1>2, <1>7, <1>10, <3>1, AssembledWhole DEF EntryOf
    <3>4. Assembled(e) = createMsg(c) /\ (shared => c \notin outdated) =>
             \E l \in 1..Len(sessions') : sessions'[l].message = createMsg(c)
      BY <1>2, <3>2, <3>3, ResponseMade
    <3> QED BY <2>1, <3>3, <3>4
  <2>2. CASE d # c
    <3>1. PICK l \in 1..Len(sessions) : sessions[l].message = createMsg(d)
      BY <1>5, <1>8, <2>2 DEF AllAnswered
    <3>2. l \in 1..Len(sessions') /\ sessions'[l] = sessions[l]
      BY IngestAnswers
    <3> QED BY <3>1, <3>2
  <2> QED BY <2>1, <2>2
<1> QED BY <1>15, <1>16, <1>17, <1>18

LEMMA BeginAlone ==
    ASSUME HandshakeSafe, AloneSafe, NEW c \in Initiators, NEW id \in Ids, beginHandshake(c, id), Alone'
    PROVE  Held' /\ OneEach' /\ PartKept' /\ AllAnswered'
<1>1. /\ \A d \in Initiators : d # c => chosen'[d] = chosen[d]
      /\ Begun' = Begun \cup {c} /\ c \notin Begun
      /\ \A d, i : d # c /\ d \in Initiators => CellOf(d, i)' = CellOf(d, i)
      /\ cells' = cells \cup {CellOf(c, i)' : i \in 1..Count}
  BY BeginUnfolds
<1>2. /\ shared' = shared /\ outdated' = outdated /\ copies' = copies /\ inFlight' = inFlight
      /\ peak' = peak /\ sessions' = sessions
  BY DEF beginHandshake
<1>3. /\ Count' = Count /\ \A d : CircuitOf(d)' = CircuitOf(d)
      /\ \A d, l : Data(d, l)' = Data(d, l)
  BY <1>2, FrameOf
<1>4. Count \in Nat \ {0} /\ copies \in Nat /\ peak \in Nat /\ HandshakeTypes /\ HandshakeTypes'
  BY BeginSafe, CountFacts DEF HandshakeSafe, HandshakeTypes
<1>5. \A d \in Begun : d \in Initiators /\ d # c /\ d \in Begun' /\ chosen'[d] = chosen[d]
  BY <1>1 DEF Begun
<1>6. Alone /\ Held /\ OneEach /\ PartKept /\ AllAnswered
  <2>1. copies <= copies' /\ peak <= peak' /\ Begun \subseteq Begun'
    BY <1>1, <1>2, <1>4
  <2> QED BY <1>2, <1>4, <1>5, <2>1, AloneBefore DEF AloneSafe
<1>7. Arrived(c)' = {}
  <2>1. \A i \in 1..Count : CellOf(c, i)' \in cells'
    BY <1>1
  <2> QED BY <1>3, <2>1 DEF Arrived
<1>8. ASSUME NEW d \in Begun
      PROVE  Arrived(d)' = Arrived(d)
  <2>1. \A i : CellOf(d, i)' = CellOf(d, i)
    BY <1>1, <1>5
  <2>2. \A i, l : CellOf(d, i) # CellOf(c, l)'
    <3>1. \A i, l : CellOf(d, i).owner = d /\ CellOf(c, l)'.owner = c
      BY DEF CellOf
    <3> QED BY <1>5, <3>1
  <2>3. Arrived(d)' = {i \in 1..Count : CellOf(d, i) \notin cells'}
    BY <1>3, <2>1 DEF Arrived
  <2> QED BY <1>1, <2>2, <2>3 DEF Arrived
<1>9. Held'
  <2> SUFFICES ASSUME NEW q \in HandshakeCircuits, NEW h \in 1..Len(inFlight[q])
               PROVE  \E d \in Begun' : Holds(q, h, d)'
    BY <1>2 DEF Held, HandshakeCircuits
  <2>1. PICK d \in Begun : Holds(q, h, d)
    BY <1>6 DEF Held
  <2>2. Holds(q, h, d)'
    BY <1>2, <1>3, <1>5, <1>8, <2>1 DEF Holds, EntryOf
  <2> QED BY <1>5, <2>2
<1>10. OneEach'
  BY <1>2, <1>6 DEF OneEach, HandshakeCircuits
<1>11. PartKept'
  <2> SUFFICES ASSUME NEW d \in Begun', Arrived(d)' # {}, Arrived(d)' # 1..Count
               PROVE  \E h \in 1..Len(inFlight[CircuitOf(d)]) : inFlight[CircuitOf(d)][h].id = chosen'[d]
    BY <1>2, <1>3 DEF PartKept
  <2>1. d \in Begun
    BY <1>1, <1>7
  <2> QED BY <1>5, <1>6, <1>8, <2>1 DEF PartKept
<1>12. AllAnswered'
  <2> SUFFICES ASSUME NEW d \in Begun', Arrived(d)' = 1..Count, shared => d \notin outdated
               PROVE  \E l \in 1..Len(sessions) : sessions[l].message = createMsg(d)
    BY <1>2, <1>3 DEF AllAnswered, createMsg
  <2>1. 1 \in 1..Count
    BY <1>4
  <2>2. d \in Begun
    BY <1>1, <1>7, <2>1
  <2> QED BY <1>6, <1>8, <2>2 DEF AllAnswered
<1> QED BY <1>9, <1>10, <1>11, <1>12

LEMMA RestAlone ==
    ASSUME HandshakeSafe, AloneSafe, shared' = shared, outdated' = outdated, chosen' = chosen, cells' = cells,
           copies' = copies, peak' = peak, inFlight' = inFlight, sessions' = sessions
    PROVE  AloneSafe'
<1>1. /\ Count' = Count /\ \A d : CircuitOf(d)' = CircuitOf(d)
      /\ \A d, l : Data(d, l)' = Data(d, l) /\ CellOf(d, l)' = CellOf(d, l)
      /\ Begun' = Begun
  BY FrameOf, FrameOfCells
<1>2. \A d : Arrived(d)' = Arrived(d)
  BY <1>1 DEF Arrived
<1>3. Alone' => Alone
  BY <1>1 DEF Alone
<1>4. ASSUME Held PROVE Held'
  <2> SUFFICES ASSUME NEW q \in HandshakeCircuits, NEW h \in 1..Len(inFlight[q])
               PROVE  \E d \in Begun : Holds(q, h, d)'
    BY <1>1 DEF Held, HandshakeCircuits
  <2>1. PICK d \in Begun : Holds(q, h, d)
    BY <1>4 DEF Held
  <2> QED BY <1>1, <1>2, <2>1 DEF Holds, EntryOf
<1>5. OneEach => OneEach'
  BY DEF OneEach, HandshakeCircuits
<1>6. PartKept => PartKept'
  BY <1>1, <1>2 DEF PartKept
<1>7. AllAnswered => AllAnswered'
  BY <1>1, <1>2 DEF AllAnswered, createMsg
<1> QED BY <1>3, <1>4, <1>5, <1>6, <1>7 DEF AloneSafe

LEMMA StartAlone == HandshakeInit => AloneSafe
BY DEF HandshakeInit, AloneSafe, Held, OneEach, PartKept, AllAnswered, Begun

HandshakeInv == HandshakeSafe /\ AloneSafe

LEMMA HandshakeInductive == HandshakeInv /\ [HandshakeNext]_handshakeVars => HandshakeInv'
<1> SUFFICES ASSUME HandshakeSafe, AloneSafe, [HandshakeNext]_handshakeVars
             PROVE  HandshakeSafe' /\ AloneSafe'
  BY DEF HandshakeInv
<1>1. ASSUME NEW c \in Initiators, NEW id \in Ids, beginHandshake(c, id)
      PROVE  HandshakeSafe' /\ AloneSafe'
  BY <1>1, BeginSafe, BeginAlone DEF AloneSafe
<1>2. ASSUME NEW cell \in cells, NEW again \in BOOLEAN, ingestFragment(cell, again)
      PROVE  HandshakeSafe' /\ AloneSafe'
  <2>1. PICK c \in Begun, i \in 1..Count : cell = CellOf(c, i)
    BY DEF HandshakeSafe, CellsSent
  <2>2. CellOf(c, i) \in cells /\ ingestFragment(CellOf(c, i), again)
    BY <1>2, <2>1
  <2> QED BY <2>2, IngestSafe, IngestAlone DEF AloneSafe
<1>3. ASSUME NEW a \in answers, answerArrives(a)
      PROVE  HandshakeSafe' /\ AloneSafe'
  <2>1. /\ shared' = shared /\ outdated' = outdated /\ chosen' = chosen /\ cells' = cells
        /\ copies' = copies /\ peak' = peak /\ inFlight' = inFlight /\ sessions' = sessions
    BY <1>3 DEF answerArrives
  <2> QED BY <1>3, <2>1, AnswerSafe, RestAlone
<1>4. CASE UNCHANGED handshakeVars
  <2>1. /\ shared' = shared /\ outdated' = outdated /\ chosen' = chosen /\ cells' = cells
        /\ copies' = copies /\ peak' = peak /\ inFlight' = inFlight /\ sessions' = sessions
        /\ answers' = answers /\ seeds' = seeds
    BY <1>4 DEF handshakeVars
  <2>2. seeds' = [d \in Initiators |-> seeds'[d]]
    BY <2>1 DEF HandshakeSafe, HandshakeTypes
  <2>3. AnswersMade' /\ SeedsMade'
    BY <2>1 DEF HandshakeSafe, AnswersMade, SeedsMade, NoSeed, Refused, Secret, createMsg
  <2> QED BY <2>1, <2>2, <2>3, RestSafe, RestAlone
<1> QED BY <1>1, <1>2, <1>3, <1>4 DEF HandshakeNext

LEMMA HandshakesFollow == HandshakeInv => HandshakesSound
<1> SUFFICES ASSUME HandshakeSafe, AloneSafe PROVE SeedsAgree /\ WholeMessagesAnswered
  BY DEF HandshakeInv, HandshakesSound
<1>1. sessions \in Seq(SecretSet) /\ DOMAIN sessions = 1..Len(sessions)
  BY DEF HandshakeSafe, HandshakeTypes
<1>2. SeedsAgree
  <2>1. ASSUME NEW n \in DOMAIN sessions
        PROVE  \E c \in Initiators : sessions[n].message = createMsg(c)
    <3>1. sessions[n] \in SecretSet
      BY <1>1
    <3> QED BY <3>1 DEF SecretSet, Secret
  <2>2. ASSUME NEW c \in Initiators, seeds[c] \notin {NoSeed, Refused}
        PROVE  \E n \in DOMAIN sessions : sessions[n] = seeds[c] /\ seeds[c].message = createMsg(c)
    BY <1>1, <2>2 DEF HandshakeSafe, SeedsMade
  <2> QED BY <2>1, <2>2 DEF SeedsAgree
<1>3. WholeMessagesAnswered
  <2> SUFFICES ASSUME Alone, NEW c \in Begun, Missing(c) = {}, shared => c \notin outdated
               PROVE  \E n \in DOMAIN sessions : sessions[n].message = createMsg(c)
    BY DEF WholeMessagesAnswered, Alone, Begun
  <2>1. Arrived(c) = 1..Count
    BY DEF Arrived, Missing, CellOf
  <2> QED BY <1>1, <2>1 DEF AloneSafe, AllAnswered
<1> QED BY <1>2, <1>3

\* Whatever the fragments, the copies and the keys, who ends with a key shares
\* it with the responder, and a message whose fragments nobody else's disturb
\* is answered (ingest, relayResponse and clientFinish).
THEOREM HandshakesAlwaysSound == HandshakeSpec => []HandshakesSound
<1>1. HandshakeInit => HandshakeInv
  BY StartSafe, StartAlone DEF HandshakeInv
<1> QED BY <1>1, HandshakeInductive, HandshakesFollow, PTL DEF HandshakeSpec
=============================================================================
