--------------------------- MODULE DirectoryProofs ---------------------------
(***************************************************************************)
(* Proofs about DescriptorDirectory: for any number of lookups, fetches    *)
(* and init runs, whatever the directory and the exit relay answer and     *)
(* whichever circuits die, a lookup returns a descriptor of its address,   *)
(* waits on no fetch that is over, and loses no answer to the way it was   *)
(* cut into cells; and the cache never goes back to an older descriptor.   *)
(***************************************************************************)
EXTENDS DescriptorDirectory, FiniteSetTheorems, TLAPS

Bodies == Descriptor \cup {Absent, Torn}
Cells == [cmd : {"REPLY", "END"}, status : {0, 200}, total : Nat, body : Bodies, n : Int]
FetchState ==
    [addr : Addresses \cup {None},
     pc : {"unused", "build", "wait", "https", "done"},
     timer : BOOLEAN, up : BOOLEAN, asked : BOOLEAN,
     settled : {"no", "pending", "resolved", "garbled", "timeout", "destroyed"},
     got : [status : {0, 200}, body : Bodies],
     line : Seq(Cells), replies : Seq(Cells)]
CallerState ==
    [pc : {"idle", "waiting", "done"}, addr : Addresses \cup {None}, fetch : Fetches \cup {None},
     desc : Descriptor \cup {Null}]

\* Everything has its type, records included.
Typed ==
    /\ TypeOK
    /\ fetch \in [Fetches -> FetchState]
    /\ caller \in [Callers -> CallerState]

\* A fetch whose promise is still to settle.
Pending(f) == fetch[f].pc \in {"build", "wait", "https"}

\* The in-flight table holds the pending fetches, one for each address.
TableExact ==
    /\ \A a \in Addresses : inFlight[a] # None =>
          Pending(inFlight[a]) /\ fetch[inFlight[a]].addr = a
    /\ \A f \in Fetches : Pending(f) => fetch[f].addr \in Addresses /\ inFlight[fetch[f].addr] = f

\* A fetch has a circuit to ask, and a promise to settle, only while it waits.
NoCircuit(f) ==
    /\ fetch[f].pc # "wait" => /\ ~fetch[f].up /\ ~fetch[f].asked
                               /\ fetch[f].line = <<>> /\ fetch[f].replies = <<>>
                               /\ fetch[f].settled \in {"no", "pending", "timeout"}
                               /\ fetch[f].got.body = Null
    /\ fetch[f].pc \notin {"build", "wait"} => ~fetch[f].timer
    /\ fetch[f].pc \in {"build", "wait"} => fetch[f].settled # "no"

\* What came of the answer is its beginning, and what is under way the rest.
Answered(f) ==
    LET cells == buildReplyCells(fetch[f].got.status, fetch[f].got.body)
        k == Len(fetch[f].replies)
    IN  /\ k < Len(cells) /\ fetch[f].replies = SubSeq(cells, 1, k)
        /\ fetch[f].line = <<>> \/ fetch[f].line = SubSeq(cells, k + 1, Len(cells))
        /\ fetch[f].settled # "garbled"
        /\ fetch[f].settled = "resolved" => k = Len(cells) - 1

\* While the exit is still to answer, nothing came.
Unanswered(f) ==
    /\ fetch[f].line = <<>> /\ fetch[f].replies = <<>>
    /\ fetch[f].settled \notin {"resolved", "garbled"}

AnswersWhole ==
    \A f \in Fetches :
        /\ NoCircuit(f)
        /\ fetch[f].asked => Unanswered(f)
        /\ fetch[f].pc = "wait" /\ ~fetch[f].asked => Answered(f)

\* A lookup that waits is one for the address of a fetch that is not over.
CallersBound ==
    /\ LookupBound
    /\ \A c \in Callers : caller[c].pc = "waiting" =>
          /\ caller[c].fetch \in Fetches /\ caller[c].addr = fetch[caller[c].fetch].addr
          /\ Pending(caller[c].fetch) /\ caller[c].desc = Null

\* Of two descriptors of one address, e is not the older one.
NotBefore(d, e) ==
    d \in Descriptor /\ e \in Descriptor /\ d.addr = e.addr => d.epoch <= e.epoch

\* No descriptor is from the future.
Dated(d) == d \in Descriptor => d.epoch <= now

\* Descriptors of an address only get older on their way from the host to the
\* directory, ...
DirectoryDated(a) ==
    /\ Dated(hsdir[a]) /\ Dated(cache[a])
    /\ hsdir[a] \in Descriptor => hsdir[a].addr = a
    /\ NotBefore(hsdir[a], descFile)
    /\ NotBefore(cache[a], hsdir[a]) /\ NotBefore(cache[a], descFile)

\* ... through the answer of a fetch that waits, to the cache.
AnswerDated(a, body) ==
    /\ Dated(body) /\ NotBefore(body, descFile) /\ NotBefore(body, hsdir[a])
    /\ NotBefore(cache[a], body)

EpochsRise ==
    /\ Dated(descFile)
    /\ \A a \in Addresses : DirectoryDated(a)
    /\ \A f \in Fetches : fetch[f].pc = "wait" =>
          AnswerDated(fetch[f].addr, fetch[f].got.body)

\* An init run that is under way holds an identity.
InitsHold == \A p \in Inits : init[p].pc # "idle" => init[p].id \in Identities

\* The inductive invariant.
IInv == Typed /\ InitsHold /\ TableExact /\ AnswersWhole /\ CallersBound /\ EpochsRise

-----------------------------------------------------------------------------
(* Reply cells                                                             *)

\* A set of numbers has a smallest one.
LEMMA SmallestNumber ==
    ASSUME NEW T, T \subseteq Nat, T # {}
    PROVE  \E t \in T : \A u \in T : t <= u
<1> DEFINE D == {0..t : t \in T}
           R == StrictSubsetOrdering(Nat)
<1>1. \A t \in T : 0..t \in FiniteSubsetsOf(Nat)
  BY FS_Interval DEF FiniteSubsetsOf
<1>2. D \subseteq FiniteSubsetsOf(Nat) /\ D # {}
  BY <1>1
<1>3. IsWellFoundedOn(R, FiniteSubsetsOf(Nat))
  BY FS_StrictSubsetOrderingWellFounded
<1> HIDE DEF D, R
<1>4. PICK d \in D : \A c \in D : ~ (<<c, d>> \in R)
  BY <1>2, <1>3, WFMin, Zenon
<1>5. PICK t \in T : d = 0..t
  BY <1>4 DEF D
<1>6. ASSUME NEW u \in T, u < t
      PROVE  FALSE
  <2>1. 0..u \in D /\ 0..u \subseteq d /\ 0..u # d
    BY <1>5, <1>6 DEF D
  <2>2. 0..u \in SUBSET Nat /\ d \in SUBSET Nat
    BY <1>5
  <2> QED BY <1>4, <2>1, <2>2 DEF R, StrictSubsetOrdering
<1> QED BY <1>6

\* g[i] is what the first i terms come to.
AddsUp(g, ns, n) == g = [i \in 0..n |-> IF i = 0 THEN 0 ELSE g[i - 1] + ns[i]]

\* Sum adds up its terms.
LEMMA SumIs ==
    ASSUME NEW n \in Nat, NEW ns, DOMAIN ns = 1..n, Len(ns) = n, NEW g,
           AddsUp(g, ns, n)
    PROVE  Sum(ns) = g[n]
<1> DEFINE Counts(h) == h = [i \in 0..n |-> IF i = 0 THEN 0 ELSE h[i - 1] + ns[i]]
           off == CHOOSE h : Counts(h)
<1>1. Counts(g)
  BY DEF AddsUp
<1>2. Sum(ns) = off[n]
  BY DEF Sum
<1>3. Counts(off)
  BY <1>1
<1> HIDE DEF off
<1> DEFINE T == {i \in 0..n : off[i] # g[i]}
<1>4. ASSUME T # {}
      PROVE  FALSE
  <2>1. PICK t \in T : \A u \in T : t <= u
    <3>1. T \subseteq Nat
      OBVIOUS
    <3> HIDE DEF T
    <3> QED BY <1>4, <3>1, SmallestNumber
  <2>2. t \in 0..n /\ off[t] # g[t]
    BY <2>1
  <2>3. t # 0
    BY <1>1, <1>3, <2>2
  <2>4. t - 1 \in 0..n /\ off[t - 1] = g[t - 1]
    BY <2>1, <2>2, <2>3
  <2> QED BY <1>1, <1>3, <2>2, <2>3, <2>4
<1> QED BY <1>2, <1>4

\* How many cells an answer has.
LEMMA CellsCounted ==
    ASSUME NEW body
    PROVE  /\ Size(body) \in Nat /\ FirstPart(body) \in Nat /\ LaterCells(body) \in Nat
           /\ FirstPart(body) <= Size(body)
           /\ LaterCells(body) = 0 => FirstPart(body) = Size(body)
<1>1. /\ Size(body) \in Nat /\ FirstPart(body) \in Nat /\ FirstPart(body) <= Size(body)
      /\ CellRoom \in Nat /\ CellRoom > 0
  BY RoomBounds DEF Size, FirstPart
<1>2. PICK r \in Nat : r = Size(body) - FirstPart(body)
  BY <1>1
<1>3. /\ (r + CellRoom - 1) \div CellRoom \in Nat
      /\ (r + CellRoom - 1) \div CellRoom = 0 => r = 0
  <2>1. r + CellRoom - 1 \in Nat
    BY <1>1, <1>2
  <2>2. PICK q \in Int : q = (r + CellRoom - 1) \div CellRoom
    BY <1>1, <2>1
  <2>3. /\ CellRoom * q <= r + CellRoom - 1
        /\ r + CellRoom - 1 < CellRoom * (q + 1)
    BY <1>1, <2>1, <2>2
  <2>4. q >= 0 /\ (q = 0 => r = 0)
    BY <1>1, <2>1, <2>3
  <2> QED BY <2>2, <2>4
<1>4. LaterCells(body) = (r + CellRoom - 1) \div CellRoom
  BY <1>2 DEF LaterCells
<1>5. /\ LaterCells(body) \in Nat
      /\ LaterCells(body) = 0 => r = 0
  BY <1>3, <1>4, Zenon
<1> QED BY <1>1, <1>2, <1>5

LEMMA FunctionIsSeq ==
    ASSUME NEW S, NEW n \in Nat, NEW f \in [1..n -> S]
    PROVE  f \in Seq(S) /\ Len(f) = n
  OBVIOUS

LEMMA CellsAre ==
    ASSUME NEW status \in {0, 200}, NEW body \in Bodies
    PROVE  LET cells == buildReplyCells(status, body)
               last == LaterCells(body) + 2
           IN  /\ cells \in Seq(Cells) /\ Len(cells) = last /\ last \in Nat /\ last > 1
               /\ cells[1].total = Size(body) /\ cells[1].status = status /\ cells[1].body = body
               /\ cells[last].cmd = "END"
               /\ \A i \in 1..(last - 1) : cells[i].cmd = "REPLY" /\ cells[i].n = PartSize(body, i)
<1> DEFINE cells == buildReplyCells(status, body)
           last == LaterCells(body) + 2
<1>1. LaterCells(body) \in Nat /\ Size(body) \in Nat /\ FirstPart(body) \in Nat /\ CellRoom \in Nat
  BY CellsCounted, RoomBounds
<1>2. \A i \in 1..last : PartSize(body, i) \in Int
  BY <1>1 DEF PartSize
<1>3. \A i \in 1..last : cells[i] \in Cells
  BY <1>1, <1>2 DEF buildReplyCells, Cells
<1>4. cells \in [1..last -> Cells]
  BY <1>3 DEF buildReplyCells
<1>5. cells \in Seq(Cells) /\ Len(cells) = last
  BY <1>1, <1>4, FunctionIsSeq
<1> QED BY <1>1, <1>5 DEF buildReplyCells
\* The reply cells of an answer are assembled to that answer.
LEMMA WholeAnswer ==
    ASSUME NEW status \in {0, 200}, NEW body \in Bodies
    PROVE  LET cells == buildReplyCells(status, body)
           IN  parseDescfetchReplyStream(SubSeq(cells, 1, Len(cells) - 1))
                 = [ok |-> TRUE, status |-> status, body |-> body]
<1> DEFINE cells == buildReplyCells(status, body)
           later == LaterCells(body)
           first == FirstPart(body)
           replies == SubSeq(cells, 1, Len(cells) - 1)
           ns == [i \in DOMAIN replies |-> replies[i].n]
           n == later + 1
           g == [i \in 0..n |-> IF i = 0 THEN 0
                                ELSE IF i <= later THEN first + (i - 1) * CellRoom ELSE Size(body)]
<1>1. /\ later \in Nat /\ first \in Nat /\ Size(body) \in Nat /\ CellRoom \in Nat /\ n \in Nat
      /\ later = 0 => first = Size(body)
  BY CellsCounted, RoomBounds
<1>2. /\ cells \in Seq(Cells) /\ Len(cells) = n + 1
      /\ cells[1].total = Size(body) /\ cells[1].status = status /\ cells[1].body = body
      /\ \A i \in 1..n : cells[i].n = PartSize(body, i)
  <2>1. n + 1 = later + 2 /\ (later + 2) - 1 = n
    BY <1>1
  <2> QED BY <2>1, CellsAre
<1> HIDE DEF cells
<1>3. replies \in Seq(Cells) /\ Len(replies) = n /\ \A i \in 1..n : replies[i] = cells[i]
  BY <1>1, <1>2
<1> HIDE DEF replies
<1>4. Len(ns) = n /\ DOMAIN ns = 1..n /\ \A i \in 1..n : ns[i] = PartSize(body, i)
  <2>1. DOMAIN replies = 1..n
    BY <1>3
  <2>2. \A i \in 1..n : replies[i].n \in Int
    <3>1. \A i \in 1..n : replies[i] \in Cells
      BY <1>3
    <3> QED BY <3>1 DEF Cells
  <2>3. ns \in [1..n -> Int]
    BY <2>1, <2>2
  <2>4. Len(ns) = n
    BY <1>1, <2>3, FunctionIsSeq
  <2> QED BY <1>2, <1>3, <2>1, <2>3, <2>4
<1> HIDE DEF ns
<1>5. ASSUME NEW i \in 1..n
      PROVE  g[i] = g[i - 1] + ns[i]
  <2>1. ns[i] = PartSize(body, i) /\ i - 1 \in 0..n /\ i \in 0..n
    BY <1>1, <1>4, <1>5
  <2>2. CASE i = 1
    BY <1>1, <2>1, <2>2 DEF PartSize
  <2>3. CASE i # 1 /\ i <= later
    <3>1. (i - 1) * CellRoom = (i - 1 - 1) * CellRoom + CellRoom
      BY <1>1
    <3>2. g[i] = first + (i - 1) * CellRoom /\ g[i - 1] = first + (i - 1 - 1) * CellRoom
      BY <1>1, <2>1, <2>3
    <3>3. ns[i] = CellRoom
      BY <2>1, <2>3 DEF PartSize
    <3> QED BY <1>1, <3>1, <3>2, <3>3
  <2>4. CASE i # 1 /\ ~(i <= later)
    <3>1. i = later + 1 /\ later > 0
      BY <1>1, <2>4
    <3>2. g[i] = Size(body) /\ g[i - 1] = first + (later - 1) * CellRoom
      BY <1>1, <2>1, <3>1
    <3>3. ns[i] = Size(body) - first - (later - 1) * CellRoom
      BY <2>1, <2>4 DEF PartSize
    <3> QED BY <1>1, <3>2, <3>3
  <2> QED BY <2>2, <2>3, <2>4
<1>6. g[n] = Size(body) /\ g[0] = 0 /\ g = [i \in 0..n |-> g[i]]
  BY <1>1
<1> HIDE DEF g
<1>7. AddsUp(g, ns, n)
  <2>1. \A i \in 0..n : i # 0 => i \in 1..n
    BY <1>1
  <2>2. \A i \in 0..n : g[i] = IF i = 0 THEN 0 ELSE g[i - 1] + ns[i]
    BY <1>5, <1>6, <2>1
  <2> QED BY <1>6, <2>2 DEF AddsUp
<1>8. Sum(ns) = Size(body)
  BY <1>1, <1>4, <1>6, <1>7, SumIs
<1>9. replies # <<>> /\ Head(replies) = cells[1]
  BY <1>1, <1>3
<1>10. parseDescfetchReplyStream(replies) = [ok |-> TRUE, status |-> status, body |-> body]
  BY <1>2, <1>8, <1>9 DEF parseDescfetchReplyStream, ns
<1> QED BY <1>10 DEF replies, cells
-----------------------------------------------------------------------------
(* Steps of the host                                                       *)

InitStates == [pc : {"idle", "write", "rename", "describe", "fill"}, id : 0..MaxMinted]

\* Where an init run goes.
Goes(p, r) == init' = [init EXCEPT ![p] = r]

\* A descriptor that is new in descriptor.bin is of this moment.
LEMMA HostStep ==
    ASSUME HostTypeOK, InitsHold, HostNext
    PROVE  /\ HostTypeOK' /\ InitsHold' /\ now <= now'
           /\ \/ descFile' \in {descFile, Absent, Torn}
              \/ descFile' \in Descriptor /\ descFile'.epoch = now /\ now' = now
<1>0. /\ now \in 0..MaxTime /\ minted \in 0..MaxMinted /\ crashes \in 0..MaxCrash
      /\ MaxTime \in Nat /\ MaxMinted \in Nat /\ MaxCrash \in Nat
  BY HostBounds DEF HostTypeOK
<1>1. Idle \in InitStates /\ Idle.pc = "idle"
  BY <1>0 DEF Idle, InitStates
<1>2. CASE tick
  BY <1>0, <1>2 DEF tick, HostTypeOK, InitsHold
<1>3. CASE writeBack
  BY <1>0, <1>3 DEF writeBack, HostTypeOK, InitsHold
<1>4. CASE powerLoss
  <2>1. init' = [p \in Inits |-> Idle] /\ now' = now /\ minted' = minted
    BY <1>4 DEF powerLoss
  <2>2. InitsHold' /\ init' \in [Inits -> InitStates]
    BY <1>1, <2>1 DEF InitsHold
  <2>3. /\ crashes' \in 0..MaxCrash /\ unsynced' = {} /\ tmp' \in {Absent, Torn}
        /\ idFile' \in {idFile, Absent, Torn} /\ descFile' \in {descFile, Absent, Torn}
    BY <1>0, <1>4 DEF powerLoss
  <2> QED BY <1>0, <2>1, <2>2, <2>3 DEF HostTypeOK, InitStates
<1>5. ASSUME NEW p \in Inits, NEW r \in InitStates, Goes(p, r),
             r.pc # "idle" => r.id \in Identities
      PROVE  init' \in [Inits -> InitStates] /\ InitsHold'
  BY <1>5 DEF HostTypeOK, InitsHold, Goes, InitStates
<1>6. ASSUME NEW p \in Inits,
             \/ loadOrCreateServiceIdentity(p) \/ writeIdentity(p) \/ renameIdentity(p)
             \/ openDescriptor(p) \/ fillDescriptor(p) \/ killInit(p)
      PROVE  /\ HostTypeOK' /\ InitsHold' /\ now' = now
             /\ \/ descFile' \in {descFile, Torn}
                \/ descFile' \in Descriptor /\ descFile'.epoch = now
  <2>0. init[p] \in InitStates /\ (init[p].pc # "idle" => init[p].id \in Identities)
    BY DEF HostTypeOK, InitsHold, InitStates
  <2>1. CASE loadOrCreateServiceIdentity(p)
    <3>1. PICK r \in InitStates : Goes(p, r) /\ r.id \in Identities
      <4>1. CASE idFile # Absent
        <5>1. Goes(p, [pc |-> "describe", id |-> idFile]) /\ idFile \in Identities
          BY <2>1, <4>1 DEF loadOrCreateServiceIdentity, Goto, Goes, HostTypeOK
        <5>2. [pc |-> "describe", id |-> idFile] \in InitStates
          BY <5>1 DEF Identities, InitStates
        <5> QED BY <5>1, <5>2
      <4>2. CASE idFile = Absent
        <5>1. /\ Goes(p, [pc |-> "write", id |-> minted + 1])
              /\ minted + 1 \in Identities
          BY <1>0, <2>1, <4>2 DEF loadOrCreateServiceIdentity, Goto, Goes, Identities
        <5>2. [pc |-> "write", id |-> minted + 1] \in InitStates
          BY <5>1 DEF Identities, InitStates
        <5> QED BY <5>1, <5>2
      <4> QED BY <4>1, <4>2
    <3>2. minted' \in 0..MaxMinted
      BY <1>0, <2>1 DEF loadOrCreateServiceIdentity
    <3> QED BY <1>5, <2>1, <3>1, <3>2 DEF loadOrCreateServiceIdentity, HostTypeOK, InitStates
  <2>2. CASE writeIdentity(p)
    <3>1. /\ Goes(p, [pc |-> "rename", id |-> init[p].id])
          /\ init[p].id \in Identities /\ tmp' = init[p].id
      BY <2>0, <2>2 DEF writeIdentity, Goto, Goes
    <3>2. [pc |-> "rename", id |-> init[p].id] \in InitStates
      BY <2>0 DEF InitStates
    <3>3. init' \in [Inits -> InitStates] /\ InitsHold'
      BY <1>5, <3>1, <3>2
    <3> QED BY <2>2, <3>1, <3>3 DEF writeIdentity, HostTypeOK, InitStates
  <2>3. CASE renameIdentity(p)
    <3>1. PICK r \in InitStates : /\ Goes(p, r)
                                  /\ r.pc # "idle" => r.id \in Identities
      <4>1. [pc |-> "describe", id |-> init[p].id] \in InitStates /\ init[p].id \in Identities
        BY <2>0, <2>3 DEF renameIdentity, InitStates
      <4> QED BY <1>1, <2>3, <4>1 DEF renameIdentity, Goto, Goes
    <3>2. /\ idFile' \in Identities \cup {Absent, Torn} /\ tmp' \in Identities \cup {Absent, Torn}
          /\ unsynced' \subseteq {"id", "desc"}
      BY <2>3 DEF renameIdentity, HostTypeOK
    <3>3. init' \in [Inits -> InitStates] /\ InitsHold'
      BY <1>5, <3>1
    <3>4. UNCHANGED <<now, descFile, minted, crashes>>
      BY <2>3 DEF renameIdentity
    <3> QED BY <1>0, <3>2, <3>3, <3>4 DEF HostTypeOK, InitStates
  <2>4. CASE openDescriptor(p)
    <3>1. /\ Goes(p, [pc |-> "fill", id |-> init[p].id])
          /\ init[p].id \in Identities
      BY <2>0, <2>4 DEF openDescriptor, Goto, Goes
    <3>2. [pc |-> "fill", id |-> init[p].id] \in InitStates
      BY <2>0 DEF InitStates
    <3>3. init' \in [Inits -> InitStates] /\ InitsHold'
      BY <1>5, <3>1, <3>2
    <3> QED BY <2>4, <3>1, <3>3 DEF openDescriptor, HostTypeOK, InitStates
  <2>5. CASE fillDescriptor(p)
    <3>1. /\ Goes(p, Idle) /\ descFile' = [addr |-> init[p].id, epoch |-> now]
          /\ unsynced' \subseteq {"id", "desc"}
      BY <2>5 DEF fillDescriptor, HostTypeOK, Goes
    <3>2. descFile' \in Descriptor /\ descFile'.epoch = now
      BY <1>0, <2>0, <3>1 DEF Descriptor, InitStates
    <3> QED BY <1>1, <1>5, <2>5, <3>1, <3>2 DEF fillDescriptor, HostTypeOK, InitStates
  <2>6. CASE killInit(p)
    <3>1. crashes' \in 0..MaxCrash /\ Goes(p, Idle)
      BY <1>0, <2>6 DEF killInit, Goes
    <3> QED BY <1>1, <1>5, <2>6, <3>1 DEF killInit, HostTypeOK, InitStates
  <2> QED BY <1>6, <2>1, <2>2, <2>3, <2>4, <2>5, <2>6
<1> QED BY <1>0, <1>2, <1>3, <1>4, <1>6 DEF HostNext

\* Dates of what is there stay in the past.
LEMMA HostKeeps ==
    ASSUME IInv, HostNext, UNCHANGED <<hsdir, client>>
    PROVE  IInv'
<1>0. Typed /\ InitsHold /\ TableExact /\ AnswersWhole /\ CallersBound /\ EpochsRise /\ HostTypeOK
  BY DEF IInv, Typed, TypeOK
<1>1. /\ HostTypeOK' /\ InitsHold' /\ now <= now' /\ now \in Nat /\ now' \in Nat
      /\ \/ descFile' \in {descFile, Absent, Torn}
         \/ descFile' \in Descriptor /\ descFile'.epoch = now /\ now' = now
  <2>1. HostTypeOK'
    BY <1>0, HostStep
  <2> QED BY <1>0, <2>1, HostStep, HostBounds DEF HostTypeOK
<1>2. UNCHANGED <<hsdir, cache, inFlight, fetch, caller>>
  BY DEF client
<1>3. Typed'
  BY <1>0, <1>1, <1>2 DEF Typed, TypeOK
<1>4. TableExact'
  BY <1>0, <1>2 DEF TableExact, Pending
<1>5. AnswersWhole'
  BY <1>0, <1>2 DEF AnswersWhole, NoCircuit, Unanswered, Answered
<1>6. CallersBound'
  BY <1>0, <1>2 DEF CallersBound, LookupBound, Pending
<1>7. \A d : Dated(d) => Dated(d)'
  BY <1>1 DEF Dated, Descriptor
<1>8. \A d : Dated(d) /\ NotBefore(d, descFile) => NotBefore(d, descFile')
  <2>1. CASE descFile' \in {descFile, Absent, Torn}
    BY <2>1, NoDescriptors DEF NotBefore
  <2>2. CASE descFile' \in Descriptor /\ descFile'.epoch = now
    BY <1>1, <2>2 DEF NotBefore, Dated, Descriptor
  <2> QED BY <1>1, <2>1, <2>2
<1>9. Dated(descFile)'
  <2>1. Dated(descFile) /\ now <= now
    BY <1>0, <1>1 DEF EpochsRise
  <2> QED BY <1>1, <2>1, NoDescriptors DEF Dated, Descriptor
<1>10. EpochsRise'
  <2>1. \A a \in Addresses : DirectoryDated(a) => DirectoryDated(a)'
    BY <1>2, <1>7, <1>8 DEF DirectoryDated, NotBefore, Dated
  <2>2. \A a, body : AnswerDated(a, body) => AnswerDated(a, body)'
    BY <1>2, <1>7, <1>8 DEF AnswerDated, NotBefore
  <2> QED BY <1>0, <1>2, <1>9, <2>1, <2>2 DEF EpochsRise
<1> QED BY <1>1, <1>3, <1>4, <1>5, <1>6, <1>10 DEF IInv
\* The directory takes what descriptor.bin holds, which is no older.
LEMMA UploadKeeps ==
    ASSUME IInv, upload
    PROVE  IInv'
<1>0. Typed /\ InitsHold /\ TableExact /\ AnswersWhole /\ CallersBound /\ EpochsRise /\ HostTypeOK
  BY DEF IInv, Typed, TypeOK
<1>1. PICK a \in Addresses : /\ a = IF descFile \in Descriptor THEN descFile.addr ELSE minted
                            /\ hsdir' = [hsdir EXCEPT ![a] = descFile]
  BY DEF upload
<1>2. /\ UNCHANGED host /\ descFile' = descFile /\ now' = now /\ init' = init
      /\ UNCHANGED <<cache, inFlight, fetch, caller>>
  BY DEF upload, host, client
<1>3. HostTypeOK' /\ InitsHold'
  BY <1>0, <1>2 DEF host, HostTypeOK, InitsHold
<1>4. /\ hsdir' \in [Addresses -> Descriptor \cup {Absent, Torn}]
      /\ \A b \in Addresses : hsdir'[b] = IF b = a THEN descFile ELSE hsdir[b]
  BY <1>0, <1>1 DEF Typed, TypeOK, HostTypeOK
<1>5. Typed'
  BY <1>0, <1>2, <1>3, <1>4 DEF Typed, TypeOK
<1>6. TableExact' /\ CallersBound'
  BY <1>0, <1>2 DEF TableExact, Pending, CallersBound, LookupBound
<1>7. AnswersWhole'
  BY <1>0, <1>2 DEF AnswersWhole, NoCircuit, Unanswered, Answered
<1>8. NotBefore(descFile, descFile) /\ Dated(descFile)
  BY <1>0 DEF NotBefore, EpochsRise, Descriptor
<1>9. ASSUME NEW b \in Addresses
      PROVE  DirectoryDated(b)'
  <2>1. DirectoryDated(b)
    BY <1>0 DEF EpochsRise
  <2> QED BY <1>1, <1>2, <1>4, <1>8, <2>1 DEF DirectoryDated, NotBefore, Dated
<1>10. ASSUME NEW f \in Fetches, fetch[f].pc = "wait"
       PROVE  AnswerDated(fetch[f].addr, fetch[f].got.body)'
  <2>1. AnswerDated(fetch[f].addr, fetch[f].got.body) /\ fetch[f].addr \in Addresses
    BY <1>0, <1>10 DEF EpochsRise, TableExact, Pending
  <2> QED BY <1>2, <1>4, <2>1 DEF AnswerDated, NotBefore, Dated
<1>11. EpochsRise'
  BY <1>2, <1>8, <1>9, <1>10 DEF EpochsRise, Dated
<1> QED BY <1>3, <1>5, <1>6, <1>7, <1>11 DEF IInv

-----------------------------------------------------------------------------
(* Steps of the lookups                                                    *)

\* The index holds descriptors of the address it is asked for.
LEMMA IndexBound ==
    ASSUME NEW a \in Addresses, Local(a) # Null
    PROVE  Local(a) \in Descriptor /\ Local(a).addr = a
<1> DEFINE I == {i \in 1..Len(Files) : bound(a, parseServiceDescriptorAny(Files[i]))}
<1>1. Local(a) = LET i == IF I # {} THEN Min(I) ELSE 0 IN IF i = 0 THEN Null ELSE Files[i]
  BY DEF Local, createDescriptorIndex, SelectInSeq
<1>2. I # {}
  BY <1>1
<1>3. I \subseteq 1..Len(Files) /\ I \subseteq Nat
  OBVIOUS
<1>4. \A i \in I : Files[i] \in Descriptor /\ Files[i].addr = a
  BY DEF bound, parseServiceDescriptorAny
<1> HIDE DEF I
<1>5. \E i \in I : \A j \in I : i <= j
  BY <1>2, <1>3, SmallestNumber
<1>6. Min(I) \in I
  BY <1>5 DEF Min
<1> QED BY <1>1, <1>2, <1>3, <1>4, <1>6

\* What the steps of the client's Map and its callers leave alone.
LEMMA CallerKeeps ==
    ASSUME IInv, UNCHANGED <<host, hsdir, cache, inFlight, fetch>>, NEW c \in Callers,
           NEW r \in CallerState, caller' = [caller EXCEPT ![c] = r],
           r.desc # Null => r.desc.addr = r.addr,
           r.pc = "waiting" => /\ r.fetch \in Fetches /\ r.addr = fetch[r.fetch].addr
                               /\ Pending(r.fetch) /\ r.desc = Null
    PROVE  IInv'
<1>0. Typed /\ InitsHold /\ TableExact /\ AnswersWhole /\ CallersBound /\ EpochsRise /\ HostTypeOK
  BY DEF IInv, Typed, TypeOK
<1>1. /\ UNCHANGED <<hsdir, cache, inFlight, fetch, init, descFile, now>> /\ UNCHANGED host
  BY DEF host
<1>2. HostTypeOK' /\ InitsHold'
  BY <1>0, <1>1 DEF host, HostTypeOK, InitsHold
<1>3. /\ caller' \in [Callers -> CallerState]
      /\ \A d \in Callers : caller'[d] = IF d = c THEN r ELSE caller[d]
  BY <1>0 DEF Typed
<1>4. \A d \in Callers : caller'[d].desc \in Descriptor \cup {Null}
  BY <1>3 DEF CallerState
<1>5. Typed'
  BY <1>0, <1>1, <1>2, <1>3, <1>4 DEF Typed, TypeOK
<1>6. TableExact'
  BY <1>0, <1>1 DEF TableExact, Pending
<1>7. AnswersWhole'
  BY <1>0, <1>1 DEF AnswersWhole, NoCircuit, Unanswered, Answered
<1>8. CallersBound'
  BY <1>0, <1>1, <1>3 DEF CallersBound, LookupBound, Pending
<1>9. EpochsRise'
  BY <1>0, <1>1 DEF EpochsRise, DirectoryDated, AnswerDated, NotBefore, Dated
<1> QED BY <1>2, <1>5, <1>6, <1>7, <1>8, <1>9 DEF IInv

\* The index or the cache answers; or a lookup joins one under way.
LEMMA LookupKeeps ==
    ASSUME IInv, NEW c \in Callers, NEW a \in Addresses, lookupKnown(c, a) \/ lookupJoins(c, a)
    PROVE  IInv'
<1>0. Typed /\ TableExact /\ CallersBound
  BY DEF IInv
<1>1. CASE lookupKnown(c, a)
  <2>1. PICK desc \in Descriptor : Finish(c, a, desc) /\ desc.addr = a
    <3>1. CASE Local(a) # Null /\ Finish(c, a, Local(a))
      BY <3>1, IndexBound
    <3>2. CASE fresh(a) /\ Finish(c, a, cache[a])
      BY <1>0, <3>2 DEF fresh, Typed, TypeOK, CallersBound, LookupBound
    <3> QED BY <1>1, <3>1, <3>2 DEF lookupKnown
  <2> DEFINE r == [pc |-> "done", addr |-> a, fetch |-> None, desc |-> desc]
  <2>2. /\ r \in CallerState /\ r.desc = desc /\ r.addr = a /\ r.pc # "waiting"
    BY DEF CallerState
  <2>3. UNCHANGED <<host, hsdir, cache, inFlight, fetch>> /\ caller' = [caller EXCEPT ![c] = r]
    BY <1>1, <2>1 DEF lookupKnown, Finish
  <2> HIDE DEF r
  <2> QED BY <2>1, <2>2, <2>3, CallerKeeps
<1>2. CASE lookupJoins(c, a)
  <2>0. PICK f \in Fetches : f = inFlight[a] /\ fetch[f].addr = a /\ Pending(f)
    BY <1>0, <1>2 DEF lookupJoins, Typed, TypeOK, TableExact
  <2> DEFINE r == [pc |-> "waiting", addr |-> a, fetch |-> f, desc |-> Null]
  <2>1. r \in CallerState /\ r.desc = Null /\ r.addr = a /\ r.fetch = f
    BY DEF CallerState
  <2>2. UNCHANGED <<host, hsdir, cache, inFlight, fetch>> /\ caller' = [caller EXCEPT ![c] = r]
    BY <1>2, <2>0 DEF lookupJoins
  <2> HIDE DEF r
  <2> QED BY <2>0, <2>1, <2>2, CallerKeeps
<1> QED BY <1>1, <1>2
-----------------------------------------------------------------------------
(* Steps of a fetch                                                        *)

Fields == {"addr", "pc", "timer", "up", "asked", "settled", "got", "line", "replies"}

\* Update changes one fetch, and leaves it a record of the same fields.
LEMMA Updated ==
    ASSUME Typed, NEW f \in Fetches, NEW changes, Update(f, changes)
    PROVE  /\ fetch' = [g \in Fetches |-> fetch'[g]]
           /\ \A g \in Fetches : g # f => fetch'[g] = fetch[g]
           /\ DOMAIN fetch'[f] = Fields /\ fetch'[f] = [k \in Fields |-> fetch'[f][k]]
<1>1. fetch[f] \in FetchState /\ DOMAIN fetch = Fetches
  BY DEF Typed
<1>2. DOMAIN fetch[f] = Fields
  BY <1>1 DEF FetchState, Fields
<1> DEFINE leaves == "pc" \in DOMAIN changes /\ changes.pc \in {"https", "done"}
           old == IF leaves THEN [Unused EXCEPT !.addr = fetch[f].addr] ELSE fetch[f]
           v == [k \in Fields |-> IF k \in DOMAIN changes THEN changes[k] ELSE old[k]]
<1>3. fetch' = [fetch EXCEPT ![f] = v]
  BY <1>1, <1>2 DEF Update
<1>4. DOMAIN v = Fields /\ v = [k \in Fields |-> v[k]]
  OBVIOUS
<1> HIDE DEF v
<1>5. fetch' = [g \in Fetches |-> fetch'[g]] /\ fetch'[f] = v
  BY <1>1, <1>3
<1>6. \A g \in Fetches : g # f => fetch'[g] = fetch[g]
  BY <1>1, <1>3
<1> QED BY <1>4, <1>5, <1>6

\* What a fetch is after an update that does not leave its circuit behind.
LEMMA UpdateStays ==
    ASSUME Typed, NEW f \in Fetches, NEW changes, Update(f, changes), "pc" \notin DOMAIN changes,
           NEW k \in Fields
    PROVE  fetch'[f][k] = IF k \in DOMAIN changes THEN changes[k] ELSE fetch[f][k]
<1>1. fetch[f] \in FetchState /\ DOMAIN fetch = Fetches
  BY DEF Typed
<1>2. DOMAIN fetch[f] = Fields
  BY <1>1 DEF FetchState, Fields
<1> DEFINE v == [j \in Fields |-> IF j \in DOMAIN changes THEN changes[j] ELSE fetch[f][j]]
<1>3. fetch' = [fetch EXCEPT ![f] = v]
  BY <1>1, <1>2 DEF Update
<1>4. v[k] = IF k \in DOMAIN changes THEN changes[k] ELSE fetch[f][k]
  OBVIOUS
<1> HIDE DEF v
<1> QED BY <1>1, <1>3, <1>4

\* A record of these fields is a fetch, when each has its type.
LEMMA FetchTyped ==
    ASSUME NEW r, DOMAIN r = Fields, r = [k \in Fields |-> r[k]],
           r.addr \in Addresses \cup {None},
           r.pc \in {"unused", "build", "wait", "https", "done"},
           r.timer \in BOOLEAN, r.up \in BOOLEAN, r.asked \in BOOLEAN,
           r.settled \in {"no", "pending", "resolved", "garbled", "timeout", "destroyed"},
           r.got \in [status : {0, 200}, body : Bodies],
           r.line \in Seq(Cells), r.replies \in Seq(Cells)
    PROVE  r \in FetchState
  BY DEF FetchState, Fields

\* One fetch changes, but for the table it holds a promise in.
Moves(f) ==
    /\ fetch' \in [Fetches -> FetchState]
    /\ \A g \in Fetches : g # f => fetch'[g] = fetch[g]
    /\ fetch'[f].addr = fetch[f].addr
    /\ NoCircuit(f)'
    /\ (fetch[f].asked => Unanswered(f))'
    /\ (fetch[f].pc = "wait" /\ ~fetch[f].asked => Answered(f))'

\* What the steps of a pending fetch have in common.
LEMMA FetchKeeps ==
    ASSUME IInv, NEW f \in Fetches, UNCHANGED <<host, hsdir, cache, inFlight, caller>>, Moves(f),
           Pending(f), Pending(f)',
           fetch'[f].pc = "wait" => AnswerDated(fetch[f].addr, fetch'[f].got.body)
    PROVE  IInv'
<1>0. Typed /\ InitsHold /\ TableExact /\ AnswersWhole /\ CallersBound /\ EpochsRise /\ HostTypeOK
  BY DEF IInv, Typed, TypeOK
<1>1. /\ UNCHANGED <<hsdir, cache, inFlight, caller, init, descFile, now>> /\ UNCHANGED host
  BY DEF host
<1>2. HostTypeOK' /\ InitsHold'
  BY <1>0, <1>1 DEF host, HostTypeOK, InitsHold
<1>3. /\ fetch' \in [Fetches -> FetchState]
      /\ \A g \in Fetches : g # f => fetch'[g] = fetch[g]
      /\ fetch'[f].addr = fetch[f].addr
  BY DEF Moves
<1>4. Typed'
  <2>1. \A g \in Fetches :
          /\ fetch'[g].pc \in {"unused", "build", "wait", "https", "done"}
          /\ fetch'[g].settled \in {"no", "pending", "resolved", "garbled", "timeout", "destroyed"}
    BY <1>3 DEF FetchState
  <2> QED BY <1>0, <1>1, <1>2, <1>3, <2>1 DEF Typed, TypeOK
<1>5. TableExact'
  <2>1. \A g \in Fetches : (Pending(g)' <=> Pending(g)) /\ fetch'[g].addr = fetch[g].addr
    BY <1>3 DEF Pending
  <2>2. inFlight' = inFlight /\ \A a \in Addresses : inFlight[a] \in Fetches \cup {None}
    BY <1>0, <1>1 DEF Typed, TypeOK
  <2> QED BY <1>0, <2>1, <2>2 DEF TableExact
<1>6. AnswersWhole'
  <2>1. ASSUME NEW g \in Fetches, g # f
        PROVE  /\ NoCircuit(g)'
               /\ (fetch[g].asked => Unanswered(g))'
               /\ (fetch[g].pc = "wait" /\ ~fetch[g].asked => Answered(g))'
    BY <1>0, <1>3, <2>1 DEF AnswersWhole, NoCircuit, Unanswered, Answered
  <2> QED BY <2>1 DEF AnswersWhole, Moves
<1>7. CallersBound'
  <2>1. \A g \in Fetches : fetch'[g].addr = fetch[g].addr /\ (Pending(g) => Pending(g)')
    BY <1>3 DEF Pending
  <2> QED BY <1>0, <1>1, <2>1 DEF CallersBound, LookupBound, Pending
<1>8. \A b, body : AnswerDated(b, body) => AnswerDated(b, body)'
  BY <1>1 DEF AnswerDated, NotBefore, Dated
<1>9. ASSUME NEW g \in Fetches, fetch'[g].pc = "wait"
      PROVE  AnswerDated(fetch[g].addr, fetch[g].got.body)'
  <2>1. CASE g = f
    BY <1>3, <1>8, <1>9, <2>1 DEF AnswerDated, NotBefore, Dated
  <2>2. CASE g # f
    <3>1. fetch'[g] = fetch[g] /\ fetch[g].pc = "wait"
      BY <1>3, <1>9, <2>2
    <3>2. PICK a, body : a = fetch[g].addr /\ body = fetch[g].got.body
      OBVIOUS
    <3>3. AnswerDated(a, body)
      BY <1>0, <3>1, <3>2 DEF EpochsRise
    <3>4. AnswerDated(a, body)'
      BY <1>8, <3>3
    <3>5. a = fetch'[g].addr /\ body = fetch'[g].got.body
      BY <3>1, <3>2
    <3> QED BY <3>4, <3>5
  <2> QED BY <2>1, <2>2
<1>10. EpochsRise'
  BY <1>0, <1>1, <1>9 DEF EpochsRise, DirectoryDated, NotBefore, Dated
<1> QED BY <1>2, <1>4, <1>5, <1>6, <1>7, <1>10 DEF IInv

\* Then the fetches are typed.
LEMMA UpdateTyped ==
    ASSUME Typed, NEW f \in Fetches, NEW changes, Update(f, changes),
           fetch'[f].addr = fetch[f].addr,
           fetch'[f].pc \in {"unused", "build", "wait", "https", "done"},
           fetch'[f].timer \in BOOLEAN, fetch'[f].up \in BOOLEAN, fetch'[f].asked \in BOOLEAN,
           fetch'[f].settled \in {"no", "pending", "resolved", "garbled", "timeout", "destroyed"},
           fetch'[f].got \in [status : {0, 200}, body : Bodies],
           fetch'[f].line \in Seq(Cells), fetch'[f].replies \in Seq(Cells)
    PROVE  /\ fetch' \in [Fetches -> FetchState]
           /\ \A g \in Fetches : g # f => fetch'[g] = fetch[g]
<1>1. /\ fetch' = [g \in Fetches |-> fetch'[g]]
      /\ \A g \in Fetches : g # f => fetch'[g] = fetch[g]
      /\ DOMAIN fetch'[f] = Fields /\ fetch'[f] = [k \in Fields |-> fetch'[f][k]]
  BY Updated
<1>2. fetch[f].addr \in Addresses \cup {None} /\ \A g \in Fetches : fetch[g] \in FetchState
  BY DEF Typed, FetchState
<1>3. fetch'[f] \in FetchState
  BY <1>1, <1>2, FetchTyped
<1> QED BY <1>1, <1>2, <1>3

\* What is known of a fetch, field by field.
LEMMA FetchIs ==
    ASSUME Typed, NEW f \in Fetches
    PROVE  /\ fetch[f].addr \in Addresses \cup {None}
           /\ fetch[f].pc \in {"unused", "build", "wait", "https", "done"}
           /\ fetch[f].timer \in BOOLEAN /\ fetch[f].up \in BOOLEAN /\ fetch[f].asked \in BOOLEAN
           /\ fetch[f].settled \in {"no", "pending", "resolved", "garbled", "timeout", "destroyed"}
           /\ fetch[f].got \in [status : {0, 200}, body : Bodies]
           /\ fetch[f].line \in Seq(Cells) /\ fetch[f].replies \in Seq(Cells)
           /\ DOMAIN fetch[f] = Fields
  BY DEF Typed, FetchState, Fields

\* The circuit is left behind: HTTPS is next.
LEMMA FallBackKeeps ==
    ASSUME IInv, NEW f \in Fetches, Pending(f), OnlyFetch(f, [pc |-> "https"])
    PROVE  IInv'
<1>1. Typed
  BY DEF IInv
<1>2. /\ Update(f, [pc |-> "https"]) /\ UNCHANGED <<host, hsdir, cache, inFlight, caller>>
  BY DEF OnlyFetch
<1>3. /\ fetch'[f].addr = fetch[f].addr /\ fetch'[f].pc = "https" /\ fetch'[f].timer = FALSE
      /\ fetch'[f].up = FALSE /\ fetch'[f].asked = FALSE /\ fetch'[f].settled = "no"
      /\ fetch'[f].got = [status |-> 0, body |-> Null]
      /\ fetch'[f].line = <<>> /\ fetch'[f].replies = <<>>
  <2>1. fetch[f] \in FetchState
    BY <1>1 DEF Typed
  <2> QED BY <1>1, <1>2, <2>1 DEF Update, Unused, Typed, FetchState
<1>4. <<>> \in Seq(Cells) /\ [status |-> 0, body |-> Null] \in [status : {0, 200}, body : Bodies]
  BY DEF Bodies, Null
<1>5. fetch' \in [Fetches -> FetchState] /\ \A g \in Fetches : g # f => fetch'[g] = fetch[g]
  BY <1>1, <1>2, <1>3, <1>4, UpdateTyped, ZenonT(30)
<1>6. Moves(f)
  BY <1>3, <1>5 DEF Moves, NoCircuit, Unanswered, Answered
<1>7. Pending(f)'
  BY <1>3 DEF Pending
<1> QED BY <1>2, <1>3, <1>6, <1>7, FetchKeeps

\* A timer, a DESTROY or a lost link leaves what came of the answer.
LEMMA SameAnswer ==
    ASSUME NEW f \in Fetches, Answered(f),
           fetch'[f].got = fetch[f].got, fetch'[f].replies = fetch[f].replies,
           fetch'[f].line \in {fetch[f].line, <<>>},
           fetch'[f].settled \in {fetch[f].settled, "timeout", "destroyed"}
    PROVE  Answered(f)'
<1>1. buildReplyCells(fetch'[f].got.status, fetch'[f].got.body)
        = buildReplyCells(fetch[f].got.status, fetch[f].got.body)
  OBVIOUS
<1>2. fetch'[f].line = <<>> \/ fetch'[f].line = fetch[f].line
  OBVIOUS
<1>3. fetch'[f].settled \in {"resolved", "garbled"} => fetch'[f].settled = fetch[f].settled
  OBVIOUS
<1> DEFINE cells == buildReplyCells(fetch[f].got.status, fetch[f].got.body)
           k == Len(fetch[f].replies)
<1>4. /\ k < Len(cells) /\ fetch[f].replies = SubSeq(cells, 1, k)
      /\ fetch[f].line = <<>> \/ fetch[f].line = SubSeq(cells, k + 1, Len(cells))
      /\ fetch[f].settled # "garbled"
      /\ fetch[f].settled = "resolved" => k = Len(cells) - 1
  BY DEF Answered
<1> HIDE DEF cells
<1>5. LET k2 == Len(fetch'[f].replies)
      IN  /\ k2 < Len(cells) /\ fetch'[f].replies = SubSeq(cells, 1, k2)
          /\ fetch'[f].line = <<>> \/ fetch'[f].line = SubSeq(cells, k2 + 1, Len(cells))
          /\ fetch'[f].settled # "garbled"
          /\ fetch'[f].settled = "resolved" => k2 = Len(cells) - 1
  <2>1. fetch'[f].settled # "garbled" /\ (fetch'[f].settled = "resolved" => k = Len(cells) - 1)
    BY <1>3, <1>4
  <2> QED BY <1>2, <1>4, <2>1
<1> QED BY <1>1, <1>5 DEF Answered, cells

\* buildCircuit resolves: DESCFETCH is sent.
LEMMA CircuitBuiltKeeps ==
    ASSUME IInv, NEW f \in Fetches, circuitBuilt(f)
    PROVE  IInv'
<1>1. Typed /\ NoCircuit(f) /\ fetch[f].pc = "build" /\ Pending(f)
  BY DEF IInv, AnswersWhole, circuitBuilt, Pending
<1>2. /\ Update(f, [pc |-> "wait", up |-> TRUE, asked |-> TRUE])
      /\ UNCHANGED <<host, hsdir, cache, inFlight, caller>>
  BY DEF circuitBuilt, OnlyFetch
<1>3. /\ fetch'[f].addr = fetch[f].addr /\ fetch'[f].pc = "wait" /\ fetch'[f].timer = fetch[f].timer
      /\ fetch'[f].up = TRUE /\ fetch'[f].asked = TRUE /\ fetch'[f].settled = fetch[f].settled
      /\ fetch'[f].got = fetch[f].got
      /\ fetch'[f].line = fetch[f].line /\ fetch'[f].replies = fetch[f].replies
  BY <1>1, <1>2, FetchIs DEF Update, Typed, Fields
<1>4. fetch' \in [Fetches -> FetchState] /\ \A g \in Fetches : g # f => fetch'[g] = fetch[g]
  BY <1>1, <1>2, <1>3, UpdateTyped, FetchIs
<1>5. Moves(f)
  BY <1>1, <1>3, <1>4 DEF Moves, NoCircuit, Unanswered
<1>6. AnswerDated(fetch[f].addr, fetch'[f].got.body)
  BY <1>1, <1>3, NoDescriptors DEF NoCircuit, AnswerDated, NotBefore, Dated, Null
<1>7. Pending(f)'
  BY <1>3 DEF Pending
<1> QED BY <1>1, <1>2, <1>5, <1>6, <1>7, FetchKeeps

\* The timer fires, DESTROY comes back, or a link is lost.
LEMMA CircuitEndsKeeps ==
    ASSUME IInv, NEW f \in Fetches, descfetchTimeout(f) \/ onDestroy(f) \/ circuitDies(f)
    PROVE  IInv'
<1>1. /\ Typed /\ NoCircuit(f) /\ (fetch[f].asked => Unanswered(f))
      /\ fetch[f].pc = "wait" /\ ~fetch[f].asked => Answered(f)
      /\ fetch[f].pc = "wait" => AnswerDated(fetch[f].addr, fetch[f].got.body)
  BY DEF IInv, AnswersWhole, EpochsRise
<1>2. Pending(f) /\ fetch[f].pc \in {"build", "wait"}
  BY <1>1, FetchIs DEF descfetchTimeout, onDestroy, circuitDies, NoCircuit, Pending
<1>3. PICK changes : Update(f, changes)
  BY DEF descfetchTimeout, onDestroy, circuitDies, OnlyFetch
<1>4. UNCHANGED <<host, hsdir, cache, inFlight, caller>>
  BY DEF descfetchTimeout, onDestroy, circuitDies, OnlyFetch
<1>5. /\ fetch'[f].addr = fetch[f].addr /\ fetch'[f].pc = fetch[f].pc
      /\ fetch'[f].timer \in {fetch[f].timer, FALSE}
      /\ fetch'[f].up \in {fetch[f].up, FALSE} /\ fetch'[f].asked = fetch[f].asked
      /\ fetch'[f].settled \in {fetch[f].settled, "timeout", "destroyed"}
      /\ fetch[f].pc = "build" => fetch'[f].settled \in {fetch[f].settled, "timeout"}
      /\ fetch'[f].got = fetch[f].got
      /\ fetch'[f].line \in {fetch[f].line, <<>>} /\ fetch'[f].replies = fetch[f].replies
  <2>1. CASE descfetchTimeout(f)
    <3> DEFINE u == [timer |-> FALSE, settled |-> IF fetch[f].settled = "pending" THEN "timeout"
                                                  ELSE fetch[f].settled]
    <3>1. Update(f, u)
      BY <2>1 DEF descfetchTimeout, OnlyFetch
    <3>2. \A k \in Fields : fetch'[f][k] = IF k \in DOMAIN u THEN u[k] ELSE fetch[f][k]
      BY <1>1, <3>1, UpdateStays
    <3> QED BY <3>2 DEF Fields
  <2>2. CASE onDestroy(f)
    <3> DEFINE u == [up |-> FALSE, timer |-> FALSE, line |-> <<>>,
                     settled |-> IF fetch[f].settled = "pending" THEN "destroyed"
                                 ELSE fetch[f].settled]
    <3>1. Update(f, u) /\ fetch[f].pc # "build"
      BY <1>1, <2>2 DEF onDestroy, OnlyFetch, NoCircuit
    <3>2. \A k \in Fields : fetch'[f][k] = IF k \in DOMAIN u THEN u[k] ELSE fetch[f][k]
      BY <1>1, <3>1, UpdateStays
    <3> QED BY <3>1, <3>2 DEF Fields
  <2>3. CASE circuitDies(f)
    <3> DEFINE u == [up |-> FALSE, line |-> <<>>]
    <3>1. Update(f, u)
      BY <2>3 DEF circuitDies, OnlyFetch
    <3>2. \A k \in Fields : fetch'[f][k] = IF k \in DOMAIN u THEN u[k] ELSE fetch[f][k]
      BY <1>1, <3>1, UpdateStays
    <3> QED BY <3>2 DEF Fields
  <2> QED BY <2>1, <2>2, <2>3
<1>6. /\ fetch'[f].timer \in BOOLEAN /\ fetch'[f].up \in BOOLEAN
      /\ fetch'[f].settled \in {"no", "pending", "resolved", "garbled", "timeout", "destroyed"}
      /\ fetch'[f].line \in Seq(Cells)
  <2>1. /\ fetch[f].timer \in BOOLEAN /\ fetch[f].up \in BOOLEAN /\ fetch[f].line \in Seq(Cells)
        /\ fetch[f].settled \in {"no", "pending", "resolved", "garbled", "timeout", "destroyed"}
        /\ <<>> \in Seq(Cells)
    BY <1>1, FetchIs
  <2>2. fetch'[f].timer \in BOOLEAN
    BY <1>5, <2>1
  <2>3. fetch'[f].up \in BOOLEAN
    BY <1>5, <2>1
  <2>4. fetch'[f].line \in Seq(Cells)
    BY <1>5, <2>1
  <2>5. fetch'[f].settled \in {"no", "pending", "resolved", "garbled", "timeout", "destroyed"}
    BY <1>5, <2>1
  <2> QED BY <2>2, <2>3, <2>4, <2>5
<1>7. fetch' \in [Fetches -> FetchState] /\ \A g \in Fetches : g # f => fetch'[g] = fetch[g]
  BY <1>1, <1>3, <1>5, <1>6, UpdateTyped, FetchIs
<1>8. NoCircuit(f)'
  BY <1>1, <1>2, <1>5 DEF NoCircuit
<1>9. (fetch[f].asked => Unanswered(f))'
  BY <1>1, <1>5 DEF Unanswered
<1>10. (fetch[f].pc = "wait" /\ ~fetch[f].asked => Answered(f))'
  BY <1>1, <1>5, SameAnswer
<1>11. Moves(f)
  BY <1>5, <1>7, <1>8, <1>9, <1>10 DEF Moves
<1>12. Pending(f)'
  BY <1>2, <1>5 DEF Pending
<1>13. fetch'[f].pc = "wait" => AnswerDated(fetch[f].addr, fetch'[f].got.body)
  BY <1>1, <1>5
<1> QED BY <1>2, <1>4, <1>11, <1>12, <1>13, FetchKeeps
\* The exit answers with what the directory holds at that moment.
LEMMA ExitAnswersKeeps ==
    ASSUME IInv, NEW f \in Fetches, exitAnswers(f)
    PROVE  IInv'
<1>1. /\ Typed /\ NoCircuit(f) /\ fetch[f].asked /\ Unanswered(f)
      /\ fetch[f].pc = "wait" /\ Pending(f)
  BY DEF IInv, AnswersWhole, exitAnswers, NoCircuit, Pending
<1>2. fetch[f].addr \in Addresses /\ DirectoryDated(fetch[f].addr) /\ LookupBound
  BY <1>1 DEF IInv, TableExact, EpochsRise, CallersBound
<1>3. PICK got \in [status : {200}, body : Served(fetch[f].addr) \ {Null}]
                      \cup [status : {0}, body : {Null}] :
        OnlyFetch(f, [asked |-> FALSE, got |-> got,
                      line |-> IF fetch[f].up THEN buildReplyCells(got.status, got.body) ELSE <<>>])
  BY DEF exitAnswers
<1>4. /\ got \in [status : {0, 200}, body : Bodies]
      /\ got.body \in {Null, Foreign, hsdir[fetch[f].addr]}
  <2>1. Foreign \in Descriptor
    BY HostBounds DEF Foreign, Descriptor
  <2>2. hsdir[fetch[f].addr] \in Bodies
    BY <1>1, <1>2 DEF Typed, TypeOK, Bodies
  <2> QED BY <1>3, <2>1, <2>2 DEF Served, Bodies, Null
<1>5. AnswerDated(fetch[f].addr, got.body)
  <2>1. CASE got.body = Null
    BY <2>1, NoDescriptors DEF AnswerDated, NotBefore, Dated, Null
  <2>2. CASE got.body = hsdir[fetch[f].addr]
    BY <1>2, <2>2 DEF AnswerDated, DirectoryDated, NotBefore, Dated, Descriptor
  <2>3. CASE got.body = Foreign
    <3>1. Foreign.addr = 0 /\ Foreign.epoch = 0 /\ now >= 0
      BY <1>1 DEF Foreign, Typed, TypeOK, HostTypeOK
    <3>2. cache[fetch[f].addr] \in Descriptor => cache[fetch[f].addr].addr # 0
      BY <1>2, HostBounds, NoDescriptors DEF LookupBound, Addresses, Identities, Null
    <3> QED BY <2>3, <3>1, <3>2 DEF AnswerDated, NotBefore, Dated, Descriptor
  <2> QED BY <1>4, <2>1, <2>2, <2>3
<1>6. PICK cells : /\ cells = buildReplyCells(got.status, got.body)
                   /\ cells \in Seq(Cells) /\ Len(cells) > 0
  <2>1. got.status \in {0, 200} /\ got.body \in Bodies
    BY <1>4
  <2> QED BY <2>1, CellsAre
<1> DEFINE u == [asked |-> FALSE, got |-> got, line |-> IF fetch[f].up THEN cells ELSE <<>>]
<1>7. /\ Update(f, u)
      /\ UNCHANGED <<host, hsdir, cache, inFlight, caller>>
  BY <1>3, <1>6 DEF OnlyFetch
<1>8. /\ fetch'[f].addr = fetch[f].addr /\ fetch'[f].pc = "wait" /\ fetch'[f].timer = fetch[f].timer
      /\ fetch'[f].up = fetch[f].up /\ ~fetch'[f].asked /\ fetch'[f].settled = fetch[f].settled
      /\ fetch'[f].got = got
      /\ fetch'[f].line \in {cells, <<>>} /\ fetch'[f].replies = <<>>
  <2>1. \A k \in Fields : fetch'[f][k] = IF k \in DOMAIN u THEN u[k] ELSE fetch[f][k]
    BY <1>1, <1>7, UpdateStays
  <2> QED BY <1>1, <2>1 DEF Fields, Unanswered
<1>9. fetch' \in [Fetches -> FetchState] /\ \A g \in Fetches : g # f => fetch'[g] = fetch[g]
  <2>1. fetch'[f].line \in Seq(Cells) /\ fetch'[f].replies \in Seq(Cells)
    <3>1. <<>> \in Seq(Cells) /\ cells \in Seq(Cells)
      BY <1>6
    <3> QED BY <1>8, <3>1, Zenon
  <2>2. fetch'[f].asked \in BOOLEAN
    <3>1. \A k \in Fields : fetch'[f][k] = IF k \in DOMAIN u THEN u[k] ELSE fetch[f][k]
      BY <1>1, <1>7, UpdateStays
    <3> QED BY <3>1 DEF Fields
  <2>3. fetch'[f].got \in [status : {0, 200}, body : Bodies]
    BY <1>4, <1>8
  <2> HIDE DEF u
  <2> QED BY <1>1, <1>7, <1>8, <2>1, <2>2, <2>3, UpdateTyped, FetchIs, ZenonT(30)
<1>10. Answered(f)'
  <2>1. cells = SubSeq(cells, 1, Len(cells)) /\ SubSeq(cells, 1, 0) = <<>>
    BY <1>6
  <2>2. fetch'[f].settled # "garbled" /\ fetch'[f].settled # "resolved"
    BY <1>1, <1>8 DEF Unanswered
  <2>3. cells = buildReplyCells(fetch'[f].got.status, fetch'[f].got.body)
    BY <1>6, <1>8
  <2>4. Len(fetch'[f].replies) = 0
    BY <1>8
  <2> QED BY <1>6, <1>8, <2>1, <2>2, <2>3, <2>4 DEF Answered
<1>11. Moves(f)
  BY <1>1, <1>8, <1>9, <1>10 DEF Moves, NoCircuit
<1>12. Pending(f)'
  BY <1>8 DEF Pending
<1> QED BY <1>1, <1>5, <1>7, <1>8, <1>11, <1>12, FetchKeeps

\* A queue is its elements, in order.
LEMMA SameElements ==
    ASSUME NEW S, NEW s \in Seq(S), NEW t \in Seq(S), Len(s) = Len(t),
           \A i \in 1..Len(t) : s[i] = t[i]
    PROVE  s = t
<1>1. s \in [1..Len(s) -> S] /\ t \in [1..Len(t) -> S]
  OBVIOUS
<1> QED BY <1>1

\* The rest of a queue after its next element.
LEMMA RestAfter ==
    ASSUME NEW S, NEW q \in Seq(S), NEW n \in Nat, n < Len(q)
    PROVE  LET rest == SubSeq(q, n + 1, Len(q))
           IN  /\ rest # <<>> /\ Head(rest) = q[n + 1] /\ Tail(rest) \in Seq(S)
               /\ n + 1 < Len(q) => Tail(rest) = SubSeq(q, n + 2, Len(q))
               /\ n + 1 = Len(q) => Tail(rest) = <<>>
<1> DEFINE rest == SubSeq(q, n + 1, Len(q))
<1>1. /\ rest \in Seq(S) /\ Len(rest) = Len(q) - n
      /\ \A i \in 1..(Len(q) - n) : rest[i] = q[n + i]
  OBVIOUS
<1> HIDE DEF rest
<1>2. rest # <<>> /\ Head(rest) = q[n + 1]
  BY <1>1
<1>3. /\ Tail(rest) \in Seq(S) /\ Len(Tail(rest)) = Len(q) - n - 1
      /\ \A i \in 1..(Len(q) - n - 1) : Tail(rest)[i] = q[n + 1 + i]
  BY <1>1, <1>2
<1>4. n + 1 = Len(q) => Tail(rest) = <<>>
  BY <1>3
<1>5. ASSUME n + 1 < Len(q)
      PROVE  Tail(rest) = SubSeq(q, n + 2, Len(q))
  <2> DEFINE t == SubSeq(q, n + 2, Len(q))
  <2>1. /\ t \in Seq(S) /\ Len(t) = Len(q) - n - 1
        /\ \A i \in 1..(Len(q) - n - 1) : t[i] = q[n + 1 + i]
    BY <1>5
  <2> HIDE DEF t
  <2>2. Len(Tail(rest)) = Len(t) /\ \A i \in 1..Len(t) : Tail(rest)[i] = t[i]
    BY <1>3, <2>1
  <2>3. Tail(rest) = t
    BY <1>3, <2>1, <2>2, SameElements
  <2> QED BY <2>3 DEF t
<1> QED BY <1>2, <1>3, <1>4, <1>5 DEF rest

\* The next cell continues what came: the END comes when all of it did.
LEMMA OnDataKeeps ==
    ASSUME IInv, NEW f \in Fetches, onData(f)
    PROVE  IInv'
<1>1. /\ Typed /\ NoCircuit(f) /\ fetch[f].line # <<>> /\ fetch[f].pc = "wait" /\ Pending(f)
      /\ ~fetch[f].asked /\ Answered(f) /\ AnswerDated(fetch[f].addr, fetch[f].got.body)
  BY DEF IInv, AnswersWhole, EpochsRise, onData, NoCircuit, Unanswered, Pending
<1>2. /\ fetch[f].got.status \in {0, 200} /\ fetch[f].got.body \in Bodies
      /\ fetch[f].replies \in Seq(Cells) /\ fetch[f].line \in Seq(Cells)
  BY <1>1, FetchIs
<1>3. PICK cells : cells = buildReplyCells(fetch[f].got.status, fetch[f].got.body)
  OBVIOUS
<1>4. PICK last \in Nat : /\ cells \in Seq(Cells) /\ Len(cells) = last /\ last > 1
                          /\ cells[last].cmd = "END"
                          /\ \A i \in 1..(last - 1) : cells[i].cmd = "REPLY"
  BY <1>2, <1>3, CellsAre, SMTT(30)
<1>5. PICK k \in Nat : k = Len(fetch[f].replies)
  BY <1>2
<1>6. /\ k < last /\ fetch[f].replies = SubSeq(cells, 1, k)
      /\ fetch[f].line = SubSeq(cells, k + 1, last)
      /\ fetch[f].settled # "garbled"
      /\ fetch[f].settled = "resolved" => k = last - 1
  BY <1>1, <1>3, <1>4, <1>5 DEF Answered
<1>7. /\ Head(fetch[f].line) = cells[k + 1]
      /\ Tail(fetch[f].line) \in Seq(Cells)
      /\ k + 1 < last => Tail(fetch[f].line) = SubSeq(cells, k + 2, last)
      /\ k + 1 = last => Tail(fetch[f].line) = <<>>
  <2>1. k < Len(cells) /\ fetch[f].line = SubSeq(cells, k + 1, Len(cells))
    BY <1>4, <1>6
  <2> QED BY <1>4, <2>1, RestAfter
<1>8. CASE k + 1 < last
  <2> DEFINE u == [line |-> Tail(fetch[f].line), replies |-> Append(fetch[f].replies, cells[k + 1])]
  <2>1. Update(f, u) /\ UNCHANGED <<host, hsdir, cache, inFlight, caller>>
    <3>1. Head(fetch[f].line).cmd = "REPLY"
      BY <1>4, <1>7, <1>8
    <3>2. OnlyFetch(f, [line |-> Tail(fetch[f].line),
                        replies |-> Append(fetch[f].replies, Head(fetch[f].line))])
      BY <3>1 DEF onData
    <3> QED BY <1>7, <3>2 DEF OnlyFetch
  <2>2. \A j \in Fields : fetch'[f][j] = IF j \in DOMAIN u THEN u[j] ELSE fetch[f][j]
    BY <1>1, <2>1, UpdateStays
  <2>3. /\ fetch'[f].addr = fetch[f].addr /\ fetch'[f].pc = "wait" /\ fetch'[f].timer = fetch[f].timer
        /\ fetch'[f].up = fetch[f].up /\ fetch'[f].asked = fetch[f].asked
        /\ fetch'[f].settled = fetch[f].settled /\ fetch'[f].got = fetch[f].got
        /\ fetch'[f].line = Tail(fetch[f].line)
        /\ fetch'[f].replies = Append(fetch[f].replies, cells[k + 1])
    BY <1>1, <2>2 DEF Fields
  <2>4. /\ fetch'[f].replies = SubSeq(cells, 1, k + 1) /\ Len(fetch'[f].replies) = k + 1
        /\ fetch'[f].replies \in Seq(Cells)
    BY <1>4, <1>6, <1>8, <2>3
  <2> HIDE DEF u
  <2>5. fetch' \in [Fetches -> FetchState] /\ \A g \in Fetches : g # f => fetch'[g] = fetch[g]
    BY <1>1, <1>7, <2>1, <2>3, <2>4, UpdateTyped, FetchIs, ZenonT(30)
  <2>6. Answered(f)'
    <3>1. cells = buildReplyCells(fetch'[f].got.status, fetch'[f].got.body)
      BY <1>3, <2>3
    <3>2. fetch'[f].line = SubSeq(cells, (k + 1) + 1, last)
      BY <1>7, <1>8, <2>3
    <3>3. fetch'[f].settled # "garbled" /\ fetch'[f].settled # "resolved"
      BY <1>6, <1>8, <2>3
    <3> QED BY <1>4, <1>8, <2>4, <3>1, <3>2, <3>3 DEF Answered
  <2>7. Moves(f)
    BY <1>1, <2>3, <2>5, <2>6 DEF Moves, NoCircuit
  <2>8. Pending(f)'
    BY <2>3 DEF Pending
  <2> QED BY <1>1, <2>1, <2>3, <2>7, <2>8, FetchKeeps
<1>9. CASE k + 1 = last
  <2>1. parseDescfetchReplyStream(fetch[f].replies).ok
    <3>1. fetch[f].replies = SubSeq(cells, 1, Len(cells) - 1)
      BY <1>4, <1>6, <1>9
    <3>2. parseDescfetchReplyStream(SubSeq(cells, 1, Len(cells) - 1))
            = [ok |-> TRUE, status |-> fetch[f].got.status, body |-> fetch[f].got.body]
      BY <1>2, <1>3, WholeAnswer
    <3> QED BY <3>1, <3>2
  <2> DEFINE u == [line |-> Tail(fetch[f].line), timer |-> FALSE,
                   settled |-> IF fetch[f].settled # "pending" THEN fetch[f].settled ELSE "resolved"]
  <2>2. Update(f, u) /\ UNCHANGED <<host, hsdir, cache, inFlight, caller>>
    <3>1. Head(fetch[f].line).cmd = "END"
      BY <1>4, <1>7, <1>9
    <3> QED BY <2>1, <3>1 DEF onData, OnlyFetch
  <2>3. \A j \in Fields : fetch'[f][j] = IF j \in DOMAIN u THEN u[j] ELSE fetch[f][j]
    BY <1>1, <2>2, UpdateStays
  <2>4. /\ fetch'[f].addr = fetch[f].addr /\ fetch'[f].pc = "wait" /\ fetch'[f].timer = FALSE
        /\ fetch'[f].up = fetch[f].up /\ fetch'[f].asked = fetch[f].asked
        /\ fetch'[f].settled \in {fetch[f].settled, "resolved"} /\ fetch'[f].got = fetch[f].got
        /\ fetch'[f].line = <<>>
        /\ fetch'[f].replies = fetch[f].replies
    BY <1>1, <1>7, <1>9, <2>3 DEF Fields
  <2>5. /\ fetch'[f].timer \in BOOLEAN /\ fetch'[f].line \in Seq(Cells)
        /\ fetch'[f].settled \in {"no", "pending", "resolved", "garbled", "timeout", "destroyed"}
    <3>1. /\ <<>> \in Seq(Cells)
          /\ fetch[f].settled \in {"no", "pending", "resolved", "garbled", "timeout", "destroyed"}
      BY <1>1, FetchIs
    <3>2. fetch'[f].line \in Seq(Cells)
      BY <2>4, <3>1
    <3>3. fetch'[f].settled \in {"no", "pending", "resolved", "garbled", "timeout", "destroyed"}
      BY <2>4, <3>1
    <3> QED BY <2>4, <3>2, <3>3
  <2> HIDE DEF u
  <2>6. fetch' \in [Fetches -> FetchState] /\ \A g \in Fetches : g # f => fetch'[g] = fetch[g]
    BY <1>1, <2>2, <2>4, <2>5, UpdateTyped, FetchIs
  <2>7. Answered(f)'
    <3>1. cells = buildReplyCells(fetch'[f].got.status, fetch'[f].got.body)
      BY <1>3, <2>4
    <3>2. Len(fetch'[f].replies) = Len(cells) - 1 /\ fetch'[f].replies = SubSeq(cells, 1, k)
          /\ k = Len(cells) - 1
      BY <1>4, <1>5, <1>6, <1>9, <2>4
    <3>3. fetch'[f].settled # "garbled"
      BY <1>6, <2>4
    <3> QED BY <1>4, <2>4, <3>1, <3>2, <3>3 DEF Answered
  <2>8. Moves(f)
    BY <1>1, <2>4, <2>6, <2>7 DEF Moves, NoCircuit
  <2>9. Pending(f)'
    BY <2>4 DEF Pending
  <2> QED BY <1>1, <2>2, <2>4, <2>8, <2>9, FetchKeeps
<1> QED BY <1>4, <1>6, <1>8, <1>9
-----------------------------------------------------------------------------
(* The end of a fetch, and the beginning                                   *)

\* The shared promise settles, with null or with a descriptor of the address
\* that is no older than the cached one.
LEMMA SettleKeeps ==
    ASSUME IInv, NEW f \in Fetches, Pending(f), NEW desc \in Descriptor \cup {Null}, Settle(f, desc),
           desc # Null => /\ desc.addr = fetch[f].addr /\ Dated(desc)
                          /\ NotBefore(desc, descFile) /\ NotBefore(desc, hsdir[fetch[f].addr])
                          /\ NotBefore(cache[fetch[f].addr], desc)
    PROVE  /\ IInv'
           /\ \A b \in Addresses : cache[b] # Null => cache'[b] # Null /\ cache'[b].epoch >= cache[b].epoch
<1>0. Typed /\ InitsHold /\ TableExact /\ AnswersWhole /\ CallersBound /\ EpochsRise /\ HostTypeOK
  BY DEF IInv, Typed, TypeOK
<1>1. PICK a \in Addresses : a = fetch[f].addr /\ inFlight[a] = f
  BY <1>0 DEF TableExact
<1>2. /\ Update(f, [pc |-> "done"]) /\ UNCHANGED <<host, hsdir>>
      /\ cache' = IF desc = Null THEN cache ELSE [cache EXCEPT ![a] = desc]
      /\ inFlight' = [inFlight EXCEPT ![a] = None]
      /\ caller' = [c \in Callers |->
              IF caller[c].pc = "waiting" /\ caller[c].fetch = f
              THEN [caller[c] EXCEPT !.pc = "done", !.desc = desc] ELSE caller[c]]
  BY <1>1 DEF Settle
<1>3. /\ fetch'[f].addr = fetch[f].addr /\ fetch'[f].pc = "done" /\ fetch'[f].timer = FALSE
      /\ fetch'[f].up = FALSE /\ fetch'[f].asked = FALSE /\ fetch'[f].settled = "no"
      /\ fetch'[f].got = [status |-> 0, body |-> Null]
      /\ fetch'[f].line = <<>> /\ fetch'[f].replies = <<>>
  <2>1. fetch[f] \in FetchState
    BY <1>0 DEF Typed
  <2> QED BY <1>0, <1>2, <2>1 DEF Update, Unused, Typed, FetchState
<1>4. fetch' \in [Fetches -> FetchState] /\ \A g \in Fetches : g # f => fetch'[g] = fetch[g]
  <2>1. <<>> \in Seq(Cells) /\ [status |-> 0, body |-> Null] \in [status : {0, 200}, body : Bodies]
    BY DEF Bodies, Null
  <2> QED BY <1>0, <1>2, <1>3, <2>1, UpdateTyped
<1>5. /\ cache \in [Addresses -> Descriptor \cup {Null}] /\ Null \notin Descriptor
      /\ cache' \in [Addresses -> Descriptor \cup {Null}]
      /\ \A b \in Addresses : b # a => cache'[b] = cache[b]
      /\ cache'[a] = IF desc = Null THEN cache[a] ELSE desc
  BY <1>0, <1>2, NoDescriptors DEF Typed, TypeOK, Null
<1>6. /\ caller' \in [Callers -> CallerState]
      /\ \A c \in Callers :
            IF caller[c].pc = "waiting" /\ caller[c].fetch = f
            THEN caller'[c].pc = "done" /\ caller'[c].desc = desc /\ caller'[c].addr = caller[c].addr
            ELSE caller'[c] = caller[c]
  <2>1. \A c \in Callers : caller[c] \in CallerState
    BY <1>0 DEF Typed
  <2> QED BY <1>2, <2>1 DEF CallerState
<1>7. /\ UNCHANGED <<hsdir, init, descFile, now>> /\ UNCHANGED host
  BY <1>2 DEF host
<1>8. HostTypeOK' /\ InitsHold'
  BY <1>0, <1>7 DEF host, HostTypeOK, InitsHold
<1>9. Typed'
  <2>1. inFlight' \in [Addresses -> Fetches \cup {None}]
    BY <1>0, <1>2 DEF Typed, TypeOK
  <2>2. \A g \in Fetches :
          /\ fetch'[g].pc \in {"unused", "build", "wait", "https", "done"}
          /\ fetch'[g].settled \in {"no", "pending", "resolved", "garbled", "timeout", "destroyed"}
    BY <1>4 DEF FetchState
  <2>3. \A c \in Callers : caller'[c].desc \in Descriptor \cup {Null}
    BY <1>6 DEF CallerState
  <2> QED BY <1>0, <1>4, <1>5, <1>6, <1>7, <1>8, <2>1, <2>2, <2>3 DEF Typed, TypeOK
<1>10. TableExact'
  <2>1. \A g \in Fetches : g # f => (Pending(g)' <=> Pending(g)) /\ fetch'[g].addr = fetch[g].addr
    BY <1>4 DEF Pending
  <2>2. ~Pending(f)'
    BY <1>3 DEF Pending
  <2>3. /\ inFlight'[a] = None
        /\ \A b \in Addresses : inFlight[b] \in Fetches \cup {None} /\ (b # a => inFlight'[b] = inFlight[b])
    BY <1>0, <1>2 DEF Typed, TypeOK
  <2>4. None \notin Fetches
    BY DEF None, Fetches
  <2>5. ASSUME NEW b \in Addresses, inFlight'[b] # None
        PROVE  Pending(inFlight[b])' /\ fetch'[inFlight'[b]].addr = b /\ inFlight'[b] = inFlight[b]
    <3>1. b # a /\ inFlight[b] \in Fetches /\ inFlight'[b] = inFlight[b]
      BY <2>3, <2>5
    <3>2. Pending(inFlight[b]) /\ fetch[inFlight[b]].addr = b /\ inFlight[b] # f
      BY <1>0, <1>1, <2>3, <2>5, <3>1 DEF TableExact
    <3>3. fetch'[inFlight[b]] = fetch[inFlight[b]]
      BY <1>4, <3>1, <3>2
    <3> QED BY <3>1, <3>2, <3>3 DEF Pending
  <2>6. ASSUME NEW g \in Fetches, Pending(g)'
        PROVE  fetch'[g].addr \in Addresses /\ inFlight'[fetch'[g].addr] = g
    <3>1. g # f
      BY <2>2, <2>6
    <3>2. Pending(g) /\ fetch'[g].addr = fetch[g].addr
      BY <2>1, <2>6, <3>1
    <3> QED BY <1>0, <1>1, <2>3, <3>1, <3>2 DEF TableExact
  <2> QED BY <2>5, <2>6 DEF TableExact, Pending
<1>11. AnswersWhole'
  <2>1. ASSUME NEW g \in Fetches
        PROVE  /\ NoCircuit(g)'
               /\ (fetch[g].asked => Unanswered(g))'
               /\ (fetch[g].pc = "wait" /\ ~fetch[g].asked => Answered(g))'
    <3>1. CASE g = f
      BY <1>3, <3>1 DEF NoCircuit
    <3>2. CASE g # f
      BY <1>0, <1>4, <3>2 DEF AnswersWhole, NoCircuit, Unanswered, Answered
    <3> QED BY <3>1, <3>2
  <2> QED BY <2>1 DEF AnswersWhole
<1>12. CallersBound'
  <2>0. \A g \in Fetches : fetch'[g].addr = fetch[g].addr /\ (g # f => (Pending(g)' <=> Pending(g)))
    BY <1>3, <1>4 DEF Pending
  <2>1. ASSUME NEW c \in Callers
        PROVE  /\ caller'[c].desc # Null => caller'[c].desc.addr = caller'[c].addr
               /\ caller'[c].pc = "waiting" =>
                     /\ caller'[c].fetch \in Fetches /\ caller'[c].addr = fetch'[caller'[c].fetch].addr
                     /\ fetch'[caller'[c].fetch].pc \in {"build", "wait", "https"}
                     /\ caller'[c].desc = Null
    BY <1>0, <1>6, <2>0 DEF CallersBound, LookupBound, Pending
  <2>2. \A b \in Addresses : cache'[b] # Null => cache'[b].addr = b
    BY <1>0, <1>1, <1>5 DEF CallersBound, LookupBound
  <2> QED BY <2>1, <2>2 DEF CallersBound, LookupBound, Pending
<1>13. EpochsRise'
  <2>1. ASSUME NEW b \in Addresses PROVE DirectoryDated(b)'
    <3>1. DirectoryDated(b)
      BY <1>0 DEF EpochsRise
    <3> QED BY <1>1, <1>5, <1>7, <3>1 DEF DirectoryDated, NotBefore, Dated
  <2>2. ASSUME NEW g \in Fetches, fetch'[g].pc = "wait"
        PROVE  AnswerDated(fetch[g].addr, fetch[g].got.body)'
    <3>1. g # f /\ fetch'[g] = fetch[g]
      BY <1>3, <1>4, <2>2
    <3>2. AnswerDated(fetch[g].addr, fetch[g].got.body)
      BY <1>0, <2>2, <3>1 DEF EpochsRise
    <3>3. fetch[g].addr \in Addresses /\ fetch[g].addr # a
      BY <1>0, <1>1, <2>2, <3>1 DEF TableExact, Pending
    <3> QED BY <1>5, <1>7, <3>1, <3>2, <3>3 DEF AnswerDated, NotBefore, Dated
  <2> QED BY <1>0, <1>7, <2>1, <2>2 DEF EpochsRise, Dated
<1>14. ASSUME NEW b \in Addresses, cache[b] # Null
       PROVE  cache'[b] # Null /\ cache'[b].epoch >= cache[b].epoch
  <2>1. cache[b] \in Descriptor /\ cache[b].epoch \in Nat /\ cache[b].addr = b
    BY <1>0, <1>5, <1>14 DEF Descriptor, CallersBound, LookupBound
  <2>2. CASE cache'[b] = cache[b]
    BY <1>14, <2>1, <2>2
  <2>3. CASE cache'[b] # cache[b]
    <3>1. b = a /\ cache'[b] = desc /\ desc \in Descriptor /\ desc # Null
      BY <1>5, <2>3
    <3>2. NotBefore(cache[b], desc) /\ desc.addr = b /\ desc.epoch \in Nat
      BY <1>1, <3>1 DEF Descriptor
    <3>3. cache[b].epoch <= desc.epoch
      BY <2>1, <3>1, <3>2 DEF NotBefore
    <3> QED BY <2>1, <3>1, <3>2, <3>3
  <2> QED BY <2>2, <2>3
<1> QED BY <1>8, <1>9, <1>10, <1>11, <1>12, <1>13, <1>14 DEF IInv
\* What the circuit brought, or else what HTTPS does.
LEMMA AnswerKeeps ==
    ASSUME IInv, NEW f \in Fetches, circuitAnswer(f) \/ httpsAnswer(f)
    PROVE  /\ IInv'
           /\ \A b \in Addresses : cache[b] # Null => cache'[b] # Null /\ cache'[b].epoch >= cache[b].epoch
<1>1. Typed /\ Pending(f) /\ fetch[f].addr \in Addresses /\ DirectoryDated(fetch[f].addr)
  BY DEF IInv, TableExact, EpochsRise, circuitAnswer, httpsAnswer, Pending
<1>2. cache \in [Addresses -> Descriptor \cup {Null}] /\ Null \notin Descriptor
  BY <1>1, NoDescriptors DEF Typed, TypeOK, Null
<1>3. CASE circuitAnswer(f)
  <2> DEFINE parsed == parseDescfetchReplyStream(fetch[f].replies)
             desc == parseServiceDescriptorAny(parsed.body)
  <2>1. /\ NoCircuit(f) /\ fetch[f].pc = "wait" /\ (fetch[f].asked => Unanswered(f))
        /\ ~fetch[f].asked => Answered(f)
        /\ AnswerDated(fetch[f].addr, fetch[f].got.body)
    BY <1>3 DEF IInv, AnswersWhole, EpochsRise, circuitAnswer
  <2>2. CASE fetch[f].settled = "resolved" /\ parsed.status = 200 /\ bound(fetch[f].addr, desc)
    <3>1. Answered(f)
      BY <2>1, <2>2 DEF Unanswered
    <3>2. fetch[f].got.status \in {0, 200} /\ fetch[f].got.body \in Bodies
      BY <1>1, FetchIs
    <3>3. PICK cells : cells = buildReplyCells(fetch[f].got.status, fetch[f].got.body)
      OBVIOUS
    <3>4. fetch[f].replies = SubSeq(cells, 1, Len(cells) - 1)
      BY <2>2, <3>1, <3>3 DEF Answered
    <3>5. parseDescfetchReplyStream(SubSeq(cells, 1, Len(cells) - 1))
            = [ok |-> TRUE, status |-> fetch[f].got.status, body |-> fetch[f].got.body]
      BY <3>2, <3>3, WholeAnswer
    <3>6. parsed.body = fetch[f].got.body
      BY <3>4, <3>5
    <3>7. desc = fetch[f].got.body /\ desc \in Descriptor /\ desc.addr = fetch[f].addr
      BY <2>2, <3>6 DEF bound, parseServiceDescriptorAny
    <3>8. Settle(f, desc)
      BY <1>3, <2>2 DEF circuitAnswer
    <3>9. /\ Dated(desc) /\ NotBefore(desc, descFile) /\ NotBefore(desc, hsdir[fetch[f].addr])
          /\ NotBefore(cache[fetch[f].addr], desc)
      BY <2>1, <3>7 DEF AnswerDated
    <3> HIDE DEF desc
    <3> QED BY <1>1, <3>7, <3>8, <3>9, SettleKeeps
  <2>3. CASE ~(fetch[f].settled = "resolved" /\ parsed.status = 200 /\ bound(fetch[f].addr, desc))
    <3>1. OnlyFetch(f, [pc |-> "https"])
      BY <1>3, <2>3 DEF circuitAnswer
    <3>2. cache' = cache
      BY <3>1 DEF OnlyFetch
    <3>3. \A b \in Addresses : cache[b] # Null => cache[b].epoch \in Nat
      BY <1>2 DEF Descriptor
    <3> QED BY <1>1, <3>1, <3>2, <3>3, FallBackKeeps
  <2> QED BY <2>2, <2>3
<1>4. CASE httpsAnswer(f)
  <2>1. PICK body \in Served(fetch[f].addr) \cup {Null} :
          Settle(f, IF bound(fetch[f].addr, parseServiceDescriptorAny(body))
                    THEN parseServiceDescriptorAny(body) ELSE Null)
    BY <1>4 DEF httpsAnswer
  <2>2. PICK desc : desc = IF bound(fetch[f].addr, parseServiceDescriptorAny(body))
                           THEN parseServiceDescriptorAny(body) ELSE Null
    OBVIOUS
  <2>3. desc \in Descriptor \cup {Null} /\ (desc # Null => desc = body /\ desc.addr = fetch[f].addr)
    BY <2>2 DEF bound, parseServiceDescriptorAny
  <2>4. desc # Null => desc = hsdir[fetch[f].addr]
    <3>1. body \in {hsdir[fetch[f].addr], Foreign, Null} /\ Foreign.addr = 0
      BY <2>1 DEF Served, Foreign
    <3>2. fetch[f].addr # 0
      BY <1>1, HostBounds DEF Addresses, Identities
    <3> QED BY <2>3, <3>1, <3>2
  <2>5. desc # Null => /\ desc.addr = fetch[f].addr /\ Dated(desc)
                       /\ NotBefore(desc, descFile) /\ NotBefore(desc, hsdir[fetch[f].addr])
                       /\ NotBefore(cache[fetch[f].addr], desc)
    BY <1>1, <2>3, <2>4 DEF DirectoryDated, NotBefore, Descriptor
  <2> QED BY <1>1, <2>1, <2>2, <2>3, <2>5, SettleKeeps
<1> QED BY <1>3, <1>4

\* A lookup starts a fetch that nobody else is doing.
LEMMA StartKeeps ==
    ASSUME IInv, NEW c \in Callers, NEW a \in Addresses, lookupFetches(c, a)
    PROVE  IInv'
<1>0. Typed /\ InitsHold /\ TableExact /\ AnswersWhole /\ CallersBound /\ EpochsRise /\ HostTypeOK
  BY DEF IInv, Typed, TypeOK
<1>1. PICK f \in Fetches : Start(c, a, f)
  BY DEF lookupFetches
<1>2. /\ fetch[f].pc = "unused" /\ inFlight[a] = None
      /\ inFlight' = [inFlight EXCEPT ![a] = f]
      /\ caller' = [caller EXCEPT ![c] = [pc |-> "waiting", addr |-> a, fetch |-> f, desc |-> Null]]
      /\ UNCHANGED <<host, hsdir, cache>>
  BY <1>1 DEF Start, lookupFetches
<1>3. NoCircuit(f) /\ ~Pending(f)
  BY <1>0, <1>2 DEF AnswersWhole, Pending
<1>4. UNCHANGED <<hsdir, cache, init, descFile, now>> /\ UNCHANGED host
  BY <1>2 DEF host
<1>5. HostTypeOK' /\ InitsHold'
  BY <1>0, <1>4 DEF host, HostTypeOK, InitsHold
<1>6. /\ fetch'[f].addr = a /\ fetch'[f].pc \in {"build", "https"}
      /\ fetch'[f].timer \in BOOLEAN /\ (fetch'[f].pc = "https" => ~fetch'[f].timer)
      /\ fetch'[f].up = FALSE /\ fetch'[f].asked = FALSE
      /\ fetch'[f].settled \in {"no", "pending"}
      /\ fetch'[f].pc = "build" => fetch'[f].settled = "pending"
      /\ fetch'[f].got \in [status : {0, 200}, body : Bodies] /\ fetch'[f].got.body = Null
      /\ fetch'[f].line = <<>> /\ fetch'[f].replies = <<>>
      /\ \E changes : Update(f, changes)
  <2>1. CASE Update(f, [addr |-> a, pc |-> "https"])
    <3>1. /\ fetch'[f].addr = a /\ fetch'[f].pc = "https" /\ fetch'[f].timer = FALSE
          /\ fetch'[f].up = FALSE /\ fetch'[f].asked = FALSE /\ fetch'[f].settled = "no"
          /\ fetch'[f].got = [status |-> 0, body |-> Null]
          /\ fetch'[f].line = <<>> /\ fetch'[f].replies = <<>>
      <4>1. fetch[f] \in FetchState
        BY <1>0 DEF Typed
      <4> QED BY <1>0, <2>1, <4>1 DEF Update, Unused, Typed, FetchState
    <3>2. \E changes : Update(f, changes)
      BY <2>1
    <3>3. fetch'[f].got \in [status : {0, 200}, body : Bodies] /\ fetch'[f].got.body = Null
      BY <3>1 DEF Bodies, Null
    <3>4. /\ fetch'[f].pc \in {"build", "https"} /\ fetch'[f].pc # "build"
          /\ fetch'[f].settled \in {"no", "pending"}
      BY <3>1
    <3>5. fetch'[f].timer \in BOOLEAN /\ ~fetch'[f].timer
      BY <3>1
    <3> QED BY <3>1, <3>2, <3>3, <3>4, <3>5
  <2>2. CASE Update(f, [addr |-> a, pc |-> "build", timer |-> TRUE, settled |-> "pending"])
    <3>1. /\ fetch'[f].addr = a /\ fetch'[f].pc = "build" /\ fetch'[f].timer = TRUE
          /\ fetch'[f].up = fetch[f].up /\ fetch'[f].asked = fetch[f].asked
          /\ fetch'[f].settled = "pending" /\ fetch'[f].got = fetch[f].got
          /\ fetch'[f].line = fetch[f].line /\ fetch'[f].replies = fetch[f].replies
      <4>1. fetch[f] \in FetchState
        BY <1>0 DEF Typed
      <4> QED BY <1>0, <2>2, <4>1 DEF Update, Unused, Typed, FetchState
    <3>2. /\ fetch[f].got \in [status : {0, 200}, body : Bodies]
          /\ fetch[f].up \in BOOLEAN /\ fetch[f].asked \in BOOLEAN
      BY <1>0 DEF Typed, FetchState
    <3>3. \E changes : Update(f, changes)
      BY <2>2
    <3>4. fetch'[f].got \in [status : {0, 200}, body : Bodies] /\ fetch'[f].got.body = Null
      <4>1. fetch[f].got.body = Null
        BY <1>2, <1>3 DEF NoCircuit
      <4> QED BY <3>1, <3>2, <4>1
    <3>5. /\ fetch'[f].up = FALSE /\ fetch'[f].asked = FALSE
          /\ fetch'[f].line = <<>> /\ fetch'[f].replies = <<>>
      <4>1. /\ ~fetch[f].up /\ ~fetch[f].asked
            /\ fetch[f].line = <<>> /\ fetch[f].replies = <<>>
        BY <1>2, <1>3 DEF NoCircuit
      <4> QED BY <3>1, <3>2, <4>1
    <3>6. /\ fetch'[f].pc \in {"build", "https"} /\ fetch'[f].pc # "https"
          /\ fetch'[f].settled \in {"no", "pending"}
      BY <3>1
    <3>7. fetch'[f].timer \in BOOLEAN
      BY <3>1
    <3> QED BY <3>1, <3>3, <3>4, <3>5, <3>6, <3>7
  <2> QED BY <1>1, <2>1, <2>2 DEF Start
<1>7. /\ fetch' \in [Fetches -> FetchState] /\ \A g \in Fetches : g # f => fetch'[g] = fetch[g]
  <2>1. PICK changes : Update(f, changes)
    BY <1>6
  <2>2. /\ fetch' = [g \in Fetches |-> fetch'[g]]
        /\ \A g \in Fetches : g # f => fetch'[g] = fetch[g]
        /\ DOMAIN fetch'[f] = Fields /\ fetch'[f] = [k \in Fields |-> fetch'[f][k]]
    BY <1>0, <2>1, Updated
  <2>3. /\ fetch'[f].up \in BOOLEAN /\ fetch'[f].asked \in BOOLEAN
        /\ fetch'[f].line \in Seq(Cells) /\ fetch'[f].replies \in Seq(Cells)
    <3>1. <<>> \in Seq(Cells)
      OBVIOUS
    <3> QED BY <1>6, <3>1
  <2>4. fetch'[f] \in FetchState
    BY <1>6, <2>2, <2>3, FetchTyped
  <2>5. \A g \in Fetches : fetch[g] \in FetchState
    BY <1>0 DEF Typed
  <2> QED BY <2>2, <2>4, <2>5
<1>8. /\ inFlight \in [Addresses -> Fetches \cup {None}] /\ inFlight' \in [Addresses -> Fetches \cup {None}]
      /\ inFlight'[a] = f /\ \A b \in Addresses : b # a => inFlight'[b] = inFlight[b]
      /\ None \notin Fetches
  BY <1>0, <1>2 DEF Typed, TypeOK, None, Fetches
<1>9. /\ caller' \in [Callers -> CallerState]
      /\ caller'[c].pc = "waiting" /\ caller'[c].addr = a /\ caller'[c].fetch = f /\ caller'[c].desc = Null
      /\ \A d \in Callers : d # c => caller'[d] = caller[d]
  <2> DEFINE r == [pc |-> "waiting", addr |-> a, fetch |-> f, desc |-> Null]
  <2>1. /\ r \in CallerState /\ r.pc = "waiting" /\ r.addr = a /\ r.fetch = f /\ r.desc = Null
    BY DEF CallerState
  <2>2. caller' = [caller EXCEPT ![c] = r]
    BY <1>2
  <2> HIDE DEF r
  <2> QED BY <1>0, <2>1, <2>2 DEF Typed
<1>10. Typed'
  <2>1. \A g \in Fetches :
          /\ fetch'[g].pc \in {"unused", "build", "wait", "https", "done"}
          /\ fetch'[g].settled \in {"no", "pending", "resolved", "garbled", "timeout", "destroyed"}
    BY <1>7 DEF FetchState
  <2>2. \A d \in Callers : caller'[d].desc \in Descriptor \cup {Null}
    BY <1>9 DEF CallerState
  <2> QED BY <1>0, <1>4, <1>5, <1>7, <1>8, <1>9, <2>1, <2>2 DEF Typed, TypeOK
<1>11. TableExact'
  <2>1. Pending(f)' /\ fetch'[f].addr = a
    BY <1>6 DEF Pending
  <2>2. \A g \in Fetches : g # f => (Pending(g)' <=> Pending(g)) /\ fetch'[g].addr = fetch[g].addr
    BY <1>7 DEF Pending
  <2>3. ASSUME NEW b \in Addresses, inFlight'[b] # None
        PROVE  /\ fetch'[inFlight'[b]].pc \in {"build", "wait", "https"}
               /\ fetch'[inFlight'[b]].addr = b
    <3>1. CASE b = a
      BY <1>8, <2>1, <3>1 DEF Pending
    <3>2. CASE b # a
      <4>1. inFlight'[b] = inFlight[b] /\ inFlight[b] \in Fetches
        BY <1>8, <2>3, <3>2
      <4>2. Pending(inFlight[b]) /\ fetch[inFlight[b]].addr = b
        BY <1>0, <1>8, <4>1 DEF TableExact
      <4> QED BY <1>3, <1>7, <4>1, <4>2 DEF Pending
    <3> QED BY <3>1, <3>2
  <2>4. ASSUME NEW g \in Fetches, Pending(g)'
        PROVE  fetch'[g].addr \in Addresses /\ inFlight'[fetch'[g].addr] = g
    <3>1. CASE g = f
      BY <1>8, <2>1, <3>1
    <3>2. CASE g # f
      <4>1. fetch[g].addr \in Addresses /\ inFlight[fetch[g].addr] = g /\ fetch'[g].addr = fetch[g].addr
        BY <1>0, <2>2, <2>4, <3>2 DEF TableExact
      <4> QED BY <1>2, <1>8, <4>1
    <3> QED BY <3>1, <3>2
  <2> QED BY <2>3, <2>4 DEF TableExact, Pending
<1>12. AnswersWhole'
  <2>1. ASSUME NEW g \in Fetches
        PROVE  /\ NoCircuit(g)'
               /\ (fetch[g].asked => Unanswered(g))'
               /\ (fetch[g].pc = "wait" /\ ~fetch[g].asked => Answered(g))'
    <3>1. CASE g = f
      BY <1>6, <3>1 DEF NoCircuit
    <3>2. CASE g # f
      BY <1>0, <1>7, <3>2 DEF AnswersWhole, NoCircuit, Unanswered, Answered
    <3> QED BY <3>1, <3>2
  <2> QED BY <2>1 DEF AnswersWhole
<1>13. CallersBound'
  <2>1. ASSUME NEW d \in Callers
        PROVE  /\ caller'[d].desc # Null => caller'[d].desc.addr = caller'[d].addr
               /\ caller'[d].pc = "waiting" =>
                     /\ caller'[d].fetch \in Fetches /\ caller'[d].addr = fetch'[caller'[d].fetch].addr
                     /\ fetch'[caller'[d].fetch].pc \in {"build", "wait", "https"}
                     /\ caller'[d].desc = Null
    <3>1. CASE d = c
      BY <1>6, <1>9, <3>1
    <3>2. CASE d # c
      BY <1>0, <1>3, <1>7, <1>9, <3>2 DEF CallersBound, LookupBound, Pending
    <3> QED BY <3>1, <3>2
  <2> QED BY <1>0, <1>4, <2>1 DEF CallersBound, LookupBound, Pending
<1>14. EpochsRise'
  <2>1. \A b \in Addresses : DirectoryDated(b) => DirectoryDated(b)'
    BY <1>4 DEF DirectoryDated, NotBefore, Dated
  <2>2. ASSUME NEW g \in Fetches, fetch'[g].pc = "wait"
        PROVE  AnswerDated(fetch[g].addr, fetch[g].got.body)'
    <3>1. g # f /\ fetch'[g] = fetch[g]
      BY <1>6, <1>7, <2>2
    <3> QED BY <1>0, <1>4, <2>2, <3>1 DEF EpochsRise, AnswerDated, NotBefore, Dated
  <2> QED BY <1>0, <1>4, <2>1, <2>2 DEF EpochsRise, Dated
<1> QED BY <1>5, <1>10, <1>11, <1>12, <1>13, <1>14 DEF IInv

-----------------------------------------------------------------------------
(* The theorems                                                            *)

LEMMA InitHolds ==
    ASSUME Init
    PROVE  IInv
<1>1. /\ 0 \in 0..MaxTime /\ 0 \in 0..MaxMinted /\ 0 \in 0..MaxCrash
  BY HostBounds
<1>2. Idle \in InitStates /\ Idle.pc = "idle"
  BY <1>1 DEF Idle, InitStates
<1>3. HostTypeOK
  <2>1. init \in [Inits -> InitStates]
    BY <1>2 DEF Init, HostInit
  <2> QED BY <1>1, <2>1 DEF Init, HostInit, HostTypeOK, InitStates
<1>4. InitsHold
  BY <1>2 DEF Init, HostInit, InitsHold
<1>5. Unused \in FetchState
  <2>1. <<>> \in Seq(Cells)
    OBVIOUS
  <2>2. [status |-> 0, body |-> Null] \in [status : {0, 200}, body : Bodies]
    BY DEF Bodies, Null
  <2> QED BY <2>1, <2>2 DEF Unused, FetchState
<1>6. /\ Unused.pc = "unused" /\ Unused.settled = "no" /\ ~Unused.up /\ ~Unused.asked /\ ~Unused.timer
      /\ Unused.line = <<>> /\ Unused.replies = <<>> /\ Unused.got.body = Null
  BY DEF Unused
<1>7. \A f \in Fetches : fetch[f] = Unused
  BY DEF Init
<1>8. fetch \in [Fetches -> FetchState]
  BY <1>5 DEF Init
<1>9. /\ caller \in [Callers -> CallerState]
      /\ \A c \in Callers : caller[c].pc = "idle" /\ caller[c].desc = Null
  <2> DEFINE r == [pc |-> "idle", addr |-> None, fetch |-> None, desc |-> Null]
  <2>1. r \in CallerState /\ r.pc = "idle" /\ r.desc = Null
    BY DEF CallerState
  <2>2. caller = [c \in Callers |-> r]
    BY DEF Init
  <2> HIDE DEF r
  <2> QED BY <2>1, <2>2
<1>10. /\ hsdir \in [Addresses -> {Absent}] /\ cache \in [Addresses -> {Null}]
       /\ inFlight \in [Addresses -> {None}]
  BY DEF Init
<1>11. Typed
  <2>1. \A f \in Fetches :
          /\ fetch[f].pc \in {"unused", "build", "wait", "https", "done"}
          /\ fetch[f].settled \in {"no", "pending", "resolved", "garbled", "timeout", "destroyed"}
    BY <1>6, <1>7
  <2>2. \A c \in Callers : caller[c].desc \in Descriptor \cup {Null}
    BY <1>9
  <2> QED BY <1>3, <1>8, <1>9, <1>10, <2>1, <2>2 DEF Typed, TypeOK, Null
<1>12. TableExact /\ AnswersWhole
  BY <1>6, <1>7, <1>10 DEF TableExact, AnswersWhole, Pending, NoCircuit
<1>13. CallersBound
  BY <1>9, <1>10 DEF CallersBound, LookupBound
<1>14. EpochsRise
  <2>1. descFile = Absent
    BY DEF Init, HostInit
  <2> QED BY <1>6, <1>7, <1>10, <2>1, NoDescriptors
          DEF EpochsRise, DirectoryDated, Dated, NotBefore, Null
<1> QED BY <1>4, <1>11, <1>12, <1>13, <1>14 DEF IInv

LEMMA CircuitFailsKeeps ==
    ASSUME IInv, NEW f \in Fetches, circuitFails(f)
    PROVE  IInv'
<1>1. OnlyFetch(f, [pc |-> "https"]) /\ Pending(f)
  BY DEF circuitFails, Pending
<1> QED BY <1>1, FallBackKeeps

\* Every step keeps the invariant, and the cache from going back.
LEMMA NextKeeps ==
    ASSUME IInv, [Next]_vars
    PROVE  /\ IInv'
           /\ \A a \in Addresses : cache[a] # Null => cache'[a] # Null /\ cache'[a].epoch >= cache[a].epoch
<1>1. ASSUME cache' = cache
      PROVE  \A a \in Addresses : cache[a] # Null => cache'[a] # Null /\ cache'[a].epoch >= cache[a].epoch
  BY <1>1 DEF IInv, Typed, TypeOK, Descriptor
<1>2. CASE HostNext /\ UNCHANGED <<hsdir, client>>
  <2>1. cache' = cache
    BY <1>2 DEF client
  <2> QED BY <1>1, <1>2, <2>1, HostKeeps
<1>3. CASE upload
  <2>1. cache' = cache
    BY <1>3 DEF upload, client
  <2> QED BY <1>1, <1>3, <2>1, UploadKeeps
<1>4. ASSUME NEW c \in Callers, NEW a \in Addresses,
             lookupKnown(c, a) \/ lookupJoins(c, a) \/ lookupFetches(c, a)
      PROVE  /\ IInv'
             /\ \A b \in Addresses : cache[b] # Null => cache'[b] # Null /\ cache'[b].epoch >= cache[b].epoch
  <2>1. cache' = cache
    BY <1>4 DEF lookupKnown, lookupJoins, lookupFetches, Finish, Start
  <2>2. IInv'
    BY <1>4, LookupKeeps, StartKeeps
  <2> QED BY <1>1, <2>1, <2>2
<1>5. ASSUME NEW f \in Fetches, FetchStep(f)
      PROVE  /\ IInv'
             /\ \A b \in Addresses : cache[b] # Null => cache'[b] # Null /\ cache'[b].epoch >= cache[b].epoch
  <2>1. CASE circuitAnswer(f) \/ httpsAnswer(f)
    BY <2>1, AnswerKeeps
  <2>2. CASE ~(circuitAnswer(f) \/ httpsAnswer(f))
    <3>1. cache' = cache
      BY <1>5, <2>2 DEF FetchStep, circuitBuilt, circuitFails, descfetchTimeout, onDestroy, circuitDies,
                        exitAnswers, onData, OnlyFetch
    <3>2. IInv'
      BY <1>5, <2>2, CircuitBuiltKeeps, CircuitFailsKeeps, CircuitEndsKeeps, ExitAnswersKeeps, OnDataKeeps
         DEF FetchStep
    <3> QED BY <1>1, <3>1, <3>2
  <2> QED BY <2>1, <2>2
<1>6. CASE UNCHANGED vars
  <2>1. UNCHANGED <<hsdir, cache, inFlight, fetch, caller, now, idFile, tmp, descFile, unsynced, minted,
                    crashes, init>>
    BY <1>6 DEF vars, host, client
  <2>2. IInv'
    BY <2>1, ZenonT(30) DEF IInv, Typed, TypeOK, HostTypeOK, InitsHold, TableExact, AnswersWhole, CallersBound, EpochsRise,
                LookupBound, Pending, NoCircuit, Unanswered, Answered, DirectoryDated, AnswerDated, Dated, NotBefore
  <2> QED BY <1>1, <2>1, <2>2
<1> QED BY <1>2, <1>3, <1>4, <1>5, <1>6 DEF Next

\* What the exit sent and the client has taken is what the client assembles.
LEMMA Faithful ==
    ASSUME IInv
    PROVE  RepliesFaithful
<1>1. ASSUME NEW f \in Fetches
      PROVE  /\ fetch[f].settled # "garbled"
             /\ fetch[f].settled = "resolved" =>
                  LET parsed == parseDescfetchReplyStream(fetch[f].replies)
                  IN  parsed.ok /\ parsed.status = fetch[f].got.status /\ parsed.body = fetch[f].got.body
  <2>1. /\ NoCircuit(f) /\ (fetch[f].asked => Unanswered(f))
        /\ fetch[f].pc = "wait" /\ ~fetch[f].asked => Answered(f)
    BY <1>1 DEF IInv, AnswersWhole
  <2>2. CASE ~Answered(f)
    BY <2>1, <2>2 DEF NoCircuit, Unanswered
  <2>3. CASE Answered(f)
    <3>1. fetch[f].settled # "garbled"
      BY <2>3 DEF Answered
    <3>2. ASSUME fetch[f].settled = "resolved"
          PROVE  parseDescfetchReplyStream(fetch[f].replies)
                   = [ok |-> TRUE, status |-> fetch[f].got.status, body |-> fetch[f].got.body]
      <4>1. PICK cells : cells = buildReplyCells(fetch[f].got.status, fetch[f].got.body)
        OBVIOUS
      <4>2. fetch[f].replies = SubSeq(cells, 1, Len(cells) - 1)
        BY <2>3, <3>2, <4>1 DEF Answered
      <4>3. fetch[f].got.status \in {0, 200} /\ fetch[f].got.body \in Bodies
        BY FetchIs DEF IInv
      <4> QED BY <4>1, <4>2, <4>3, WholeAnswer
    <3> QED BY <3>1, <3>2
  <2> QED BY <2>2, <2>3
<1> QED BY <1>1 DEF RepliesFaithful

\* A lookup is given a descriptor of the address it asked for, joins no fetch
\* that is over, and loses no answer to the way it was cut into cells, whatever
\* the size of a descriptor and of a cell (lookup, doFetch, handleDescfetch).
THEOREM LookupAlwaysSound == Spec => []LookupSound
<1>1. Init => IInv
  BY InitHolds
<1>2. IInv /\ [Next]_vars => IInv'
  BY NextKeeps
<1>3. IInv => LookupSound
  <2>1. IInv => TypeOK /\ LookupBound /\ InFlightPending
    BY DEF IInv, Typed, CallersBound, TableExact, Pending, InFlightPending
  <2> QED BY <2>1, Faithful DEF LookupSound
<1> QED BY <1>1, <1>2, <1>3, PTL DEF Spec

\* The cache of a client never goes back to an older descriptor, however slow
\* the answers are and however often the service publishes meanwhile (doFetch
\* and its in-flight table).
THEOREM CacheAgesOnly == Spec => CacheNeverOlder
<1>1. Init => IInv
  BY InitHolds
<1>2. IInv /\ [Next]_vars => IInv'
  BY NextKeeps
<1>3. IInv /\ [Next]_vars =>
        [\A a \in Addresses : cache[a] # Null => cache'[a] # Null /\ cache'[a].epoch >= cache[a].epoch]_vars
  BY NextKeeps
<1> QED BY <1>1, <1>2, <1>3, PTL DEF Spec, CacheNeverOlder

-----------------------------------------------------------------------------
(* The address of a service                                                *)

\* Runs of init come one after the other.
InitsInTurn == \A p, q \in Inits : p = q

\* What an init run knows of identity.bin.
HoldsFile(p) ==
    /\ init[p].pc \in {"write", "rename"} => idFile = Absent
    /\ init[p].pc = "rename" => tmp = init[p].id
    /\ init[p].pc \in {"describe", "fill"} => idFile = init[p].id

\* A descriptor is signed by the identity that is there, and none is there
\* before the identity is, not even after a power loss undid the rename.
SignedByFile ==
    /\ descFile \in Descriptor /\ idFile \in Identities => descFile.addr = idFile
    /\ idFile = Absent => descFile \notin Descriptor
    /\ "id" \in unsynced => idFile \in Identities
    /\ "id" \in unsynced /\ "desc" \notin unsynced => descFile \notin Descriptor

FilesInv == HostTypeOK /\ InitsHold /\ SignedByFile /\ \A p \in Inits : HoldsFile(p)

FileStays ==
    /\ idFile \in Identities =>
          \/ idFile' = idFile
          \/ "id" \in unsynced /\ crashes' > crashes /\ idFile' \in {Absent, Torn}
    /\ idFile = Torn => idFile' = Torn

LEMMA FilesKeep ==
    ASSUME InitsInTurn, FilesInv, HostNext
    PROVE  FilesInv' /\ FileStays
<1>0. /\ HostTypeOK /\ InitsHold /\ SignedByFile
      /\ Absent # Torn /\ Absent \notin Identities /\ Torn \notin Identities
      /\ Absent \notin Descriptor /\ Torn \notin Descriptor
  BY FileMarks, NoDescriptors DEF FilesInv, Identities
<1>1. HostTypeOK' /\ InitsHold'
  BY <1>0, HostStep
<1>2. CASE UNCHANGED <<idFile, tmp, descFile, init>> /\ unsynced' \in {unsynced, {}}
  <2>1. SignedByFile'
    BY <1>0, <1>2 DEF SignedByFile
  <2>2. \A p \in Inits : HoldsFile(p)'
    BY <1>2 DEF FilesInv, HoldsFile
  <2> QED BY <1>0, <1>1, <1>2, <2>1, <2>2 DEF FilesInv, FileStays
<1>3. CASE powerLoss
  <2>1. \A p \in Inits : init'[p].pc = "idle"
    BY <1>3 DEF powerLoss, Idle
  <2>2. /\ unsynced' = {} /\ crashes' > crashes
        /\ \/ \E lost \in SUBSET unsynced :
                 /\ idFile' = IF "id" \in lost THEN Torn ELSE idFile
                 /\ descFile' = IF "desc" \in lost THEN Torn ELSE descFile
           \/ /\ "id" \in unsynced /\ idFile' = Absent
              /\ descFile' = IF "desc" \in unsynced THEN Absent ELSE descFile
    BY <1>0, <1>3 DEF powerLoss, HostTypeOK
  <2>3. SignedByFile'
    BY <1>0, <2>2 DEF SignedByFile
  <2>4. FileStays
    BY <1>0, <2>2 DEF SignedByFile, FileStays
  <2> QED BY <1>1, <2>1, <2>3, <2>4 DEF FilesInv, HoldsFile
<1>4. ASSUME NEW p \in Inits,
             \/ loadOrCreateServiceIdentity(p) \/ writeIdentity(p) \/ renameIdentity(p)
             \/ openDescriptor(p) \/ fillDescriptor(p) \/ killInit(p)
      PROVE  SignedByFile' /\ HoldsFile(p)' /\ FileStays
  <2>0. /\ HoldsFile(p) /\ init[p] \in InitStates /\ init \in [Inits -> InitStates]
        /\ init[p].pc # "idle" => init[p].id \in Identities
    BY <1>0 DEF FilesInv, HostTypeOK, InitsHold, InitStates
  <2>1. CASE loadOrCreateServiceIdentity(p)
    <3>1. UNCHANGED <<idFile, tmp, descFile, unsynced>>
      BY <2>1 DEF loadOrCreateServiceIdentity
    <3>2. \/ idFile # Absent /\ init'[p].pc = "describe" /\ init'[p].id = idFile
          \/ idFile = Absent /\ init'[p].pc = "write"
      BY <2>0, <2>1 DEF loadOrCreateServiceIdentity, Goto
    <3> QED BY <1>0, <3>1, <3>2 DEF SignedByFile, HoldsFile, FileStays
  <2>2. CASE writeIdentity(p)
    <3>1. /\ UNCHANGED <<idFile, descFile, unsynced>> /\ init[p].pc = "write"
          /\ init'[p].pc = "rename" /\ init'[p].id = init[p].id /\ tmp' = init[p].id
      BY <2>0, <2>2 DEF writeIdentity, Goto
    <3> QED BY <1>0, <2>0, <3>1 DEF SignedByFile, HoldsFile, FileStays
  <2>3. CASE renameIdentity(p)
    <3>1. /\ init[p].pc = "rename" /\ tmp = init[p].id /\ tmp \in Identities /\ idFile = Absent
          /\ idFile' = tmp /\ unsynced' = unsynced \cup {"id"} /\ descFile' = descFile
          /\ init'[p].pc = "describe" /\ init'[p].id = init[p].id
      BY <1>0, <2>0, <2>3 DEF renameIdentity, Goto, HoldsFile
    <3> QED BY <1>0, <3>1 DEF SignedByFile, HoldsFile, FileStays
  <2>4. CASE openDescriptor(p)
    <3>1. /\ UNCHANGED <<idFile, tmp, unsynced>> /\ init[p].pc = "describe" /\ descFile' = Torn
          /\ init'[p].pc = "fill" /\ init'[p].id = init[p].id
      BY <2>0, <2>4 DEF openDescriptor, Goto
    <3> QED BY <1>0, <2>0, <3>1 DEF SignedByFile, HoldsFile, FileStays
  <2>5. CASE fillDescriptor(p)
    <3>1. /\ UNCHANGED <<idFile, tmp>> /\ idFile = init[p].id /\ idFile \in Identities
          /\ unsynced' = unsynced \cup {"desc"}
          /\ descFile'.addr = init[p].id /\ init'[p].pc = "idle"
      BY <2>0, <2>5 DEF fillDescriptor, HoldsFile, Idle
    <3> QED BY <1>0, <3>1 DEF SignedByFile, HoldsFile, FileStays
  <2>6. CASE killInit(p)
    <3>1. UNCHANGED <<idFile, tmp, descFile, unsynced>> /\ init'[p].pc = "idle"
      BY <2>0, <2>6 DEF killInit, Idle
    <3> QED BY <1>0, <3>1 DEF SignedByFile, HoldsFile, FileStays
  <2> QED BY <1>4, <2>1, <2>2, <2>3, <2>4, <2>5, <2>6
<1>5. ASSUME NEW p \in Inits,
             \/ loadOrCreateServiceIdentity(p) \/ writeIdentity(p) \/ renameIdentity(p)
             \/ openDescriptor(p) \/ fillDescriptor(p) \/ killInit(p)
      PROVE  FilesInv' /\ FileStays
  <2>1. \A q \in Inits : q = p
    BY DEF InitsInTurn
  <2>2. SignedByFile' /\ HoldsFile(p)' /\ FileStays
    BY <1>4, <1>5
  <2>3. \A q \in Inits : HoldsFile(q)'
    BY <2>1, <2>2 DEF HoldsFile
  <2> QED BY <1>1, <2>2, <2>3 DEF FilesInv
<1>6. CASE tick \/ writeBack
  BY <1>2, <1>6 DEF tick, writeBack
<1> QED BY <1>3, <1>5, <1>6 DEF HostNext

\* While runs of init come one after the other, the address of a service is one
\* for good: what it publishes is signed by the identity in identity.bin, which
\* is replaced by none, through kills and power losses at any step
\* (saveServiceIdentity, cmdInit, cmdPublish).
THEOREM AddressAlwaysKept == InitsInTurn => (Spec => AddressKept)
<1> SUFFICES ASSUME InitsInTurn
             PROVE  Spec => AddressKept
  OBVIOUS
<1>1. Init => FilesInv
  <2> SUFFICES ASSUME Init
               PROVE  FilesInv
    OBVIOUS
  <2>1. HostTypeOK /\ InitsHold
    BY InitHolds DEF IInv, Typed, TypeOK
  <2>2. SignedByFile /\ \A p \in Inits : HoldsFile(p)
    BY FileMarks, NoDescriptors DEF Init, HostInit, Idle, SignedByFile, HoldsFile, Identities
  <2> QED BY <2>1, <2>2 DEF FilesInv
<1>2. FilesInv /\ [Next]_vars => FilesInv' /\ [FileStays]_host
  <2> SUFFICES ASSUME FilesInv, [Next]_vars
               PROVE  FilesInv' /\ [FileStays]_host
    OBVIOUS
  <2>1. CASE HostNext
    BY <2>1, FilesKeep
  <2>2. CASE UNCHANGED host
    BY <2>2 DEF host, FilesInv, HostTypeOK, InitsHold, SignedByFile, HoldsFile
  <2>3. HostNext \/ UNCHANGED host
    BY DEF Next, upload, lookupKnown, lookupJoins, lookupFetches, Start, Finish, FetchStep, circuitBuilt,
           circuitFails, descfetchTimeout, onDestroy, circuitDies, exitAnswers, onData, circuitAnswer,
           httpsAnswer, OnlyFetch, Settle, vars
  <2> QED BY <2>1, <2>2, <2>3
<1>3. FilesInv => DescriptorOfIdentity
  BY FileMarks DEF FilesInv, SignedByFile, DescriptorOfIdentity, publishLoads
<1>4. IdentityKept <=> [][FileStays]_host
  BY DEF IdentityKept, FileStays
<1> QED BY <1>1, <1>2, <1>3, <1>4, PTL DEF Spec, AddressKept
=============================================================================
