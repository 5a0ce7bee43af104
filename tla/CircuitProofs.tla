---------------------------- MODULE CircuitProofs ----------------------------
(***************************************************************************)
(* Proof that client and relays agree on the layers of a circuit, for a    *)
(* path of any length, messages of any number of cells, any number of data *)
(* cells and lost links.                                                   *)
(*                                                                         *)
(* The invariant says what is on each link, cell by cell: all RELAY cells  *)
(* under way are for, or from, the last of the client's hops, and the cell *)
(* at place k of link j is told by how far relay j is behind the client.   *)
(* A DESTROY comes last.                                                   *)
(***************************************************************************)
EXTENDS OnionCircuit, Integers, FiniteSetTheorems, TLAPS

DESTROY == Cell("DESTROY")

Commands == {"CREATE", "CREATED", "DESTROY"}
Kinds == {"EXTEND", "EXTENDED", "DATA"}
Cells == [cmd : Commands] \cup
         [cmd : {"RELAY"}, plain : [hop : Hops, kind : Kinds, seq : Int],
          layers : SUBSET (Hops \X {"f", "b"} \X Int)]

LinksTyped == dn \in [Hops -> Seq(Cells)] /\ up \in [Hops -> Seq(Cells)]

-----------------------------------------------------------------------------
(* What is on a link                                                       *)

\* First n cells as f tells, and then nothing but DESTROY.
Line(q, n, f) ==
    /\ n \in 0..Len(q)
    /\ \A k \in 1..Len(q) : q[k] = IF k <= n THEN f[k] ELSE DESTROY

NoDestroy(q) == \A k \in 1..Len(q) : q[k].cmd # "DESTROY"

\* What the client and its last hop h have for one another.
FwdKind(h) == IF h < N THEN "EXTEND" ELSE "DATA"
BwdKind(h) == IF h < N THEN "EXTENDED" ELSE "DATA"

\* A cell for the last hop h that the client, whose counters are c and d, sent
\* b cells ago, with the layers from hop j on.
FwdCell(h, c, d, j, b) ==
    Relay(Plain(h, FwdKind(h), d[h] - b),
          {<<i, "f", c[i] - b>> : i \in j..h})

\* A cell from the last hop h that the client will take after a others.
BwdCell(h, c, d, j, a) ==
    Relay(Plain(h, BwdKind(h), d[h] + a),
          {<<i, "b", c[i] + a>> : i \in j..h})

\* The layer of hop j on such a cell.
FwdLayer(j, c, b) == {<<j, "f", c[j] - b>>}
BwdLayer(j, c, a) == {<<j, "b", c[j] + a>>}

FwdCells(h, c, d, j, l) == [k \in Nat |-> FwdCell(h, c, d, j, l - k + 1)]
BwdCells(h, c, d, j, l) == [k \in Nat |-> BwdCell(h, c, d, j, l + k - 1)]
AllCells(cmd) == [k \in Nat |-> Cell(cmd)]

\* Cells that relay j has still to take from the client, and the client from it.
lag(j) == IF j = 0 THEN 0 ELSE cf[j] - rf[j]
lead(j) == IF j = 0 THEN 0 ELSE rb[j] - cb[j]

Past(i) == role[i] \notin {"none", "pending-create"}
Dead(i) == role[i] = "destroyed"

-----------------------------------------------------------------------------
(* The inductive invariant                                                 *)

\* Link j toward the exit holds what the client sent and relay j has still to
\* take, but for what relay j-1 has still to take.
DnLine(j) ==
    ~Dead(j) =>
        \E n \in Nat :
            /\ n <= lag(j)
            /\ j \notin broken /\ (j > 1 \/ result # "failed") => n = lag(j) - lag(j - 1)
            /\ Line(dn[j], n, FwdCells(hops, cf, df, j, lag(j)))

\* The node at the client's end of link j goes on, and goes on sending.
Receives(j) == IF j = 1 THEN handler # "closed" ELSE ~Dead(j - 1)
Sends(j) == IF j = 1 THEN result # "failed" ELSE ~Dead(j - 1)

UpLine(j) ==
    Receives(j) =>
        \E n \in Nat :
            /\ j \notin broken => n = lead(j) - lead(j - 1)
            /\ Line(up[j], n, BwdCells(hops, cb, db, j, lead(j - 1)))

LinesSound == \A j \in 1..hops : DnLine(j) /\ UpLine(j)

\* The further a relay from the client, the more cells are between them.
LagsGrow ==
    \A k \in 1..hops : \A i \in 0..k :
        0 <= lag(i) /\ lag(i) <= lag(k) /\ 0 <= lead(i) /\ lead(i) <= lead(k)

\* A lost link is empty, and who sent DESTROY is dead.
EndsSound ==
    \A j \in Hops :
        /\ j \in broken => dn[j] = <<>> /\ up[j] = <<>>
        /\ ~Dead(j) => NoDestroy(up[j])
        /\ Sends(j) => NoDestroy(dn[j])

\* Nothing has happened yet beyond the hops of the client, and the next one.
RelaysSound ==
    \A i \in Hops :
        /\ i <= hops => Past(i) /\ i \notin stale
        /\ i < hops => ext[i] /\ ~dial[i]
        /\ i > hops => /\ cf[i] = 0 /\ cb[i] = 0 /\ df[i] = 0 /\ db[i] = 0
                       /\ rf[i] = 0 /\ rb[i] = 0 /\ gf[i] = 0 /\ gb[i] = 0
                       /\ ~dial[i] /\ ~ext[i] /\ outFrag[i] = 0 /\ role[i] # "extending"
        /\ i > hops + 1 => role[i] = "none" /\ inFrag[i] = 0 /\ dn[i] = <<>> /\ up[i] = <<>>
        /\ served[i] # 0 => i = N /\ i = hops

ClientSound ==
    /\ hops = N <=> result = "built"
    /\ handler = "create" => hops = 0 /\ cont = "none" /\ result = "building"
    /\ handler = "extend" => /\ hops \in 1..(N - 1) /\ cont = "none" /\ result = "building"
                             /\ frag = cb[hops]
    /\ handler = "idle" => cont = "resolve" \/ result = "built"
    /\ cont = "resolve" => /\ result = "building" /\ hops < N
                           /\ Past(hops + 1) /\ hops + 1 \notin stale
                           /\ hops >= 1 => cb[hops] = Frags
    /\ cont = "reject" => result = "building"
    /\ cont = "reject" \/ result = "failed" => handler = "closed"

\* The last hop of the client: digests are where the counters are, and what
\* was counted tells how far the extension to the next hop is.
LastSound ==
    hops >= 1 =>
        /\ cf[hops] = df[hops] /\ cb[hops] = db[hops]
        /\ rf[hops] = gf[hops] /\ rb[hops] = gb[hops]
        /\ hops = N => ~dial[hops] /\ ~ext[hops] /\ role[hops] # "extending"
        /\ hops < N =>
             /\ cf[hops] = Frags
             /\ dial[hops] \/ ext[hops] => rf[hops] = Frags
             /\ ~(dial[hops] /\ ext[hops])
             /\ ~Dead(hops) /\ rf[hops] < Frags => inFrag[hops] = rf[hops]
             /\ rb[hops] \in {0, Frags}
             /\ rb[hops] # 0 => ext[hops] /\ Past(hops + 1) /\ role[hops] # "extending"
             /\ role[hops] = "extending" => ext[hops]
             /\ role[hops] = "established" /\ ext[hops] => rb[hops] # 0
             /\ ~ext[hops] => /\ dn[hops + 1] = <<>> /\ up[hops + 1] = <<>>
                              /\ role[hops + 1] = "none" /\ inFrag[hops + 1] = 0
                              /\ outFrag[hops] = 0

\* The next hop: a CREATE is under way to it, or a CREATED back.
Collected == IF hops = 0 THEN frag ELSE outFrag[hops]
Waiting == IF hops = 0 THEN handler = "create" ELSE role[hops] = "extending"

CreateSound ==
    hops < N /\ ~Dead(hops + 1) =>
        \E n \in Nat :
            /\ Line(dn[hops + 1], n, AllCells("CREATE"))
            /\ role[hops + 1] # "established" /\ n > 0 => inFrag[hops + 1] + n = Frags
            /\ role[hops + 1] = "established" => n = 0 /\ inFrag[hops + 1] = 0

CreatedSound ==
    hops < N /\ Receives(hops + 1) =>
        \E n \in Nat :
            /\ Line(up[hops + 1], n, AllCells("CREATED"))
            /\ ~Waiting => n = 0
            /\ Waiting /\ n > 0 => Collected + n = Frags
            /\ Waiting /\ (n > 0 \/ Collected > 0) => Past(hops + 1)

CircuitInv ==
    /\ TypeOK /\ LinksTyped /\ ~dropped
    /\ LinesSound /\ LagsGrow /\ EndsSound /\ RelaysSound /\ ClientSound /\ LastSound
    /\ CreateSound /\ CreatedSound

-----------------------------------------------------------------------------
(* Lines                                                                   *)

\* The next cell of a line is taken.
LEMMA LineTaken ==
    ASSUME NEW S, NEW q \in Seq(S), q # <<>>, NEW n \in Nat, NEW f, NEW g,
           Line(q, n, f), \A k \in Nat \ {0} : g[k] = f[k + 1]
    PROVE  /\ Head(q) = IF n = 0 THEN DESTROY ELSE f[1]
           /\ Line(Tail(q), IF n = 0 THEN 0 ELSE n - 1, g)
<1> DEFINE len == Len(q)
<1>1. /\ len \in Nat /\ len > 0 /\ Head(q) = q[1] /\ Len(Tail(q)) = len - 1
      /\ \A k \in 1..(len - 1) : Tail(q)[k] = q[k + 1]
  OBVIOUS
<1>2. n <= len /\ \A k \in 1..len : q[k] = IF k <= n THEN f[k] ELSE DESTROY
  BY DEF Line
<1> HIDE DEF len
<1>3. 0 \in 0..(len - 1) /\ 1 \in 1..len
  BY <1>1
<1>4. Head(q) = IF n = 0 THEN DESTROY ELSE f[1]
  BY <1>1, <1>2, <1>3
<1>5. CASE n = 0
  <2>1. ASSUME NEW k \in 1..(len - 1)
        PROVE  Tail(q)[k] = DESTROY /\ ~(k <= 0)
    BY <1>1, <1>2, <1>5
  <2>2. Line(Tail(q), 0, g)
    BY <1>1, <1>3, <2>1 DEF Line
  <2> QED BY <1>4, <1>5, <2>2
<1>6. CASE n # 0
  <2>1. ASSUME NEW k \in 1..(len - 1)
        PROVE  Tail(q)[k] = IF k <= n - 1 THEN g[k] ELSE DESTROY
    <3>1. k + 1 \in 1..len /\ k \in Nat \ {0} /\ (k <= n - 1 <=> k + 1 <= n)
      BY <1>1
    <3>2. Tail(q)[k] = q[k + 1] /\ g[k] = f[k + 1]
      BY <1>1, <3>1
    <3> QED BY <3>1, <3>2, <1>2
  <2>2. n - 1 \in 0..(len - 1)
    BY <1>1, <1>2, <1>6
  <2>3. Line(Tail(q), n - 1, g)
    BY <1>1, <2>1, <2>2 DEF Line
  <2> QED BY <1>4, <1>6, <2>3
<1> QED BY <1>5, <1>6

\* Cells go on a line that carries no DESTROY.
LEMMA LineMore ==
    ASSUME NEW S, NEW q \in Seq(S), NEW c \in Seq(S), NEW f, Line(q, Len(q), f),
           \A k \in 1..Len(c) : c[k] = f[Len(q) + k]
    PROVE  Line(q \o c, Len(q) + Len(c), f)
<1> DEFINE len == Len(q) more == Len(c) all == q \o c
<1>1. /\ len \in Nat /\ more \in Nat /\ Len(all) = len + more
      /\ \A k \in 1..len : all[k] = q[k]
      /\ \A k \in 1..more : all[len + k] = c[k]
  OBVIOUS
<1>2. \A k \in 1..len : q[k] = f[k]
  BY <1>1 DEF Line
<1>3. \A k \in 1..more : c[k] = f[len + k]
  OBVIOUS
<1> HIDE DEF len, more, all
<1>4. ASSUME NEW k \in 1..(len + more)
      PROVE  all[k] = f[k]
  <2>1. CASE k <= len
    BY <2>1, <1>1, <1>2
  <2>2. CASE k > len
    <3>1. k - len \in 1..more /\ len + (k - len) = k
      BY <2>2, <1>1
    <3> QED BY <3>1, <1>1, <1>3
  <2> QED BY <1>1, <2>1, <2>2
<1>5. Line(all, len + more, f)
  BY <1>1, <1>4 DEF Line
<1> QED BY <1>5 DEF all, len, more

\* A DESTROY goes on any line.
LEMMA LineEnds ==
    ASSUME NEW S, NEW q \in Seq(S), NEW n \in Nat, NEW f, Line(q, n, f)
    PROVE  Line(q \o <<DESTROY>>, n, f)
<1> DEFINE len == Len(q) all == q \o <<DESTROY>>
<1>1. /\ len \in Nat /\ Len(all) = len + 1
      /\ \A k \in 1..len : all[k] = q[k]
      /\ all[len + 1] = DESTROY
  OBVIOUS
<1>2. n <= len /\ \A k \in 1..len : q[k] = IF k <= n THEN f[k] ELSE DESTROY
  BY DEF Line
<1> HIDE DEF len, all
<1>3. ASSUME NEW k \in 1..(len + 1)
      PROVE  all[k] = IF k <= n THEN f[k] ELSE DESTROY
  <2>1. CASE k = len + 1
    BY <2>1, <1>1, <1>2
  <2>2. CASE k # len + 1
    BY <2>2, <1>1, <1>2
  <2> QED BY <2>1, <2>2
<1>4. Line(all, n, f)
  BY <1>1, <1>2, <1>3 DEF Line
<1> QED BY <1>4 DEF all

LEMMA LineWhole ==
    ASSUME NEW S, NEW q \in Seq(S), NEW n \in Nat, NEW f, Line(q, n, f), NoDestroy(q)
    PROVE  n = Len(q)
<1>1. Len(q) \in Nat
  OBVIOUS
<1>2. DESTROY.cmd = "DESTROY"
  BY DEF DESTROY, Cell
<1> QED BY <1>1, <1>2 DEF Line, NoDestroy

LEMMA LineSame ==
    ASSUME NEW q, NEW n \in Nat, NEW f, NEW g, Line(q, n, f), \A k \in Nat \ {0} : f[k] = g[k]
    PROVE  Line(q, n, g)
BY DEF Line

LEMMA LineEmpty == ASSUME NEW f PROVE Line(<<>>, 0, f)
BY DEF Line

LEMMA NoDestroyTaken ==
    ASSUME NEW S, NEW q \in Seq(S), q # <<>>, NoDestroy(q)
    PROVE  NoDestroy(Tail(q))
<1> DEFINE len == Len(q)
<1>1. /\ len \in Nat /\ Len(Tail(q)) = len - 1
      /\ \A k \in 1..(len - 1) : Tail(q)[k] = q[k + 1]
  OBVIOUS
<1>2. \A k \in 1..len : q[k].cmd # "DESTROY"
  BY DEF NoDestroy
<1> HIDE DEF len
<1>3. \A k \in 1..(len - 1) : k + 1 \in 1..len
  BY <1>1
<1> QED BY <1>1, <1>2, <1>3 DEF NoDestroy

LEMMA NoDestroyMore ==
    ASSUME NEW S, NEW q \in Seq(S), NEW c \in Seq(S), NoDestroy(q), NoDestroy(c)
    PROVE  NoDestroy(q \o c)
<1> DEFINE len == Len(q) more == Len(c) all == q \o c
<1>1. /\ len \in Nat /\ more \in Nat /\ Len(all) = len + more
      /\ \A k \in 1..len : all[k] = q[k]
      /\ \A k \in 1..more : all[len + k] = c[k]
  OBVIOUS
<1>2. (\A k \in 1..len : q[k].cmd # "DESTROY") /\ (\A k \in 1..more : c[k].cmd # "DESTROY")
  BY DEF NoDestroy
<1> HIDE DEF len, more, all
<1>3. ASSUME NEW k \in 1..(len + more)
      PROVE  all[k].cmd # "DESTROY"
  <2>1. CASE k <= len
    BY <2>1, <1>1, <1>2
  <2>2. CASE k > len
    <3>1. k - len \in 1..more /\ len + (k - len) = k
      BY <2>2, <1>1
    <3> QED BY <3>1, <1>1, <1>2
  <2> QED BY <1>1, <2>1, <2>2
<1>4. NoDestroy(all)
  BY <1>1, <1>3 DEF NoDestroy
<1> QED BY <1>4 DEF all

-----------------------------------------------------------------------------
(* Layers                                                                  *)

\* Only the distance to the counters is in a cell.
LEMMA FwdMoves ==
    ASSUME NEW h, NEW c, NEW d, NEW e, NEW g, NEW j, NEW b, NEW a,
           d[h] - b = g[h] - a, \A i \in j..h : c[i] - b = e[i] - a
    PROVE  FwdCell(h, c, d, j, b) = FwdCell(h, e, g, j, a)
<1>1. {<<i, "f", c[i] - b>> : i \in j..h} = {<<i, "f", e[i] - a>> : i \in j..h}
  OBVIOUS
<1> QED BY <1>1 DEF FwdCell

LEMMA BwdMoves ==
    ASSUME NEW h, NEW c, NEW d, NEW e, NEW g, NEW j, NEW b, NEW a,
           d[h] + b = g[h] + a, \A i \in j..h : c[i] + b = e[i] + a
    PROVE  BwdCell(h, c, d, j, b) = BwdCell(h, e, g, j, a)
<1>1. {<<i, "b", c[i] + b>> : i \in j..h} = {<<i, "b", e[i] + a>> : i \in j..h}
  OBVIOUS
<1> QED BY <1>1 DEF BwdCell

\* A relay takes its layer off, and the last one finds the plaintext.
LEMMA FwdPeeled ==
    ASSUME NEW h \in Hops, NEW c, NEW d, NEW j \in 1..h, NEW b
    PROVE  /\ applyLayers(FwdCell(h, c, d, j, b).layers, FwdLayer(j, c, b))
                = FwdCell(h, c, d, j + 1, b).layers
           /\ FwdCell(h, c, d, j + 1, b) =
                Relay(FwdCell(h, c, d, j, b).plain, FwdCell(h, c, d, j + 1, b).layers)
           /\ FwdCell(h, c, d, j + 1, b).layers = {} <=> j = h
<1> DEFINE L(m) == {<<i, "f", c[i] - b>> : i \in m..h}
<1>1. L(j + 1) = (L(j) \ {<<j, "f", c[j] - b>>}) \cup ({<<j, "f", c[j] - b>>} \ L(j))
  <2>1. h \in Nat /\ j \in Nat
    BY PathAssumption DEF Hops
  <2>2. <<j, "f", c[j] - b>> \in L(j)
    BY <2>1
  <2>3. ASSUME NEW x \in L(j), x # <<j, "f", c[j] - b>>
        PROVE  x \in L(j + 1)
    BY <2>1, <2>3
  <2>4. ASSUME NEW x \in L(j + 1)
        PROVE  x \in L(j) /\ x # <<j, "f", c[j] - b>>
    BY <2>1, <2>4
  <2> HIDE DEF L
  <2> QED BY <2>2, <2>3, <2>4
<1>2. L(j + 1) = {} <=> j = h
  <2>1. h \in Nat /\ j \in Nat
    BY PathAssumption DEF Hops
  <2>2. CASE j = h
    BY <2>1, <2>2
  <2>3. CASE j # h
    <3>1. j + 1 \in (j + 1)..h
      BY <2>1, <2>3
    <3> QED BY <2>3, <3>1
  <2> QED BY <2>2, <2>3
<1> HIDE DEF L
<1>3. \A m : FwdCell(h, c, d, m, b) =
               Relay(Plain(h, FwdKind(h), d[h] - b), L(m))
  BY DEF FwdCell, L
<1> QED BY <1>1, <1>2, <1>3 DEF applyLayers, Relay, FwdLayer

\* A relay puts its layer on.
LEMMA BwdWrapped ==
    ASSUME NEW h \in Hops, NEW c, NEW d, NEW j \in 1..h, NEW a
    PROVE  /\ applyLayers(BwdCell(h, c, d, j + 1, a).layers, BwdLayer(j, c, a))
                = BwdCell(h, c, d, j, a).layers
           /\ BwdCell(h, c, d, j, a) =
                Relay(BwdCell(h, c, d, j + 1, a).plain, BwdCell(h, c, d, j, a).layers)
<1> DEFINE L(m) == {<<i, "b", c[i] + a>> : i \in m..h}
<1>0. h \in Nat /\ j \in Nat
  BY PathAssumption DEF Hops
<1>1. L(j) = (L(j + 1) \ {<<j, "b", c[j] + a>>}) \cup ({<<j, "b", c[j] + a>>} \ L(j + 1))
  <2>2. <<j, "b", c[j] + a>> \in L(j)
    BY <1>0
  <2>3. ASSUME NEW x \in L(j), x # <<j, "b", c[j] + a>>
        PROVE  x \in L(j + 1)
    BY <1>0, <2>3
  <2>4. ASSUME NEW x \in L(j + 1)
        PROVE  x \in L(j) /\ x # <<j, "b", c[j] + a>>
    BY <1>0, <2>4
  <2> HIDE DEF L
  <2> QED BY <2>2, <2>3, <2>4
<1> HIDE DEF L
<1>3. \A m : BwdCell(h, c, d, m, a) =
               Relay(Plain(h, BwdKind(h), d[h] + a), L(m))
  BY DEF BwdCell, L
<1> QED BY <1>1, <1>3 DEF applyLayers, Relay, BwdLayer

-----------------------------------------------------------------------------
(* Types, and what sending and passing on change                           *)

LEMMA Types ==
    ASSUME TypeOK
    PROVE  /\ hops \in 0..N /\ hops \in Nat /\ N \in Nat \ {0} /\ Frags \in Nat \ {0}
           /\ cf \in [Hops -> Nat] /\ cb \in [Hops -> Nat]
           /\ df \in [Hops -> Nat] /\ db \in [Hops -> Nat]
           /\ rf \in [Hops -> Nat] /\ rb \in [Hops -> Nat]
           /\ gf \in [Hops -> Nat] /\ gb \in [Hops -> Nat]
           /\ served \in [Hops -> Nat] /\ replied \in [Hops -> Nat]
           /\ frag \in 0..Frags - 1
           /\ inFrag \in [Hops -> 0..Frags - 1] /\ outFrag \in [Hops -> 0..Frags - 1]
           /\ role \in [Hops -> Live \cup {"none", "destroyed"}]
           /\ dial \in [Hops -> BOOLEAN] /\ ext \in [Hops -> BOOLEAN]
           /\ told \in BOOLEAN /\ dropped \in BOOLEAN
           /\ broken \subseteq Hops /\ stale \subseteq Hops
           /\ \A j : j \in 1..hops => j \in Hops
           /\ hops < N => hops + 1 \in Hops
<1>1. N \in Nat \ {0} /\ Frags \in Nat \ {0} /\ hops \in 0..N
  BY PathAssumption DEF TypeOK
<1>2. \A j : j \in 1..hops => j \in Hops
  BY <1>1 DEF Hops
<1>3. hops < N => hops + 1 \in Hops
  BY <1>1 DEF Hops
<1> QED BY <1>1, <1>2, <1>3 DEF TypeOK

LEMMA Hop ==
    ASSUME TypeOK, NEW j \in 1..hops
    PROVE  /\ j \in Hops /\ j \in Nat /\ j \in 0..hops /\ j \in 0..j
           /\ j - 1 \in 0..hops /\ j - 1 \in 0..j /\ (j = 1 \/ j - 1 \in 1..hops)
<1>1. hops \in Nat /\ hops <= N /\ N \in Nat
  BY Types
<1> QED BY <1>1 DEF Hops

LEMMA LagTypes ==
    ASSUME TypeOK, NEW j \in 0..hops
    PROVE  lag(j) \in Int /\ lead(j) \in Int
<1>1. j = 0 \/ j \in Hops
  BY Types
<1>2. CASE j = 0
  BY <1>2 DEF lag, lead
<1>3. CASE j # 0 /\ j \in Hops
  <2>1. cf[j] \in Nat /\ rf[j] \in Nat /\ cb[j] \in Nat /\ rb[j] \in Nat
    BY <1>3, Types
  <2> QED BY <1>3, <2>1 DEF lag, lead
<1> QED BY <1>1, <1>2, <1>3

LEMMA Wires ==
    ASSUME LinksTyped, NEW i \in Hops
    PROVE  /\ dn[i] \in Seq(Cells) /\ up[i] \in Seq(Cells)
           /\ dn[i] # <<>> => Head(dn[i]) \in Cells /\ Tail(dn[i]) \in Seq(Cells)
           /\ up[i] # <<>> => Head(up[i]) \in Cells /\ Tail(up[i]) \in Seq(Cells)
<1>1. dn[i] \in Seq(Cells) /\ up[i] \in Seq(Cells)
  BY DEF LinksTyped
<1>2. \A q \in Seq(Cells) : q # <<>> => Head(q) \in Cells /\ Tail(q) \in Seq(Cells)
  OBVIOUS
<1> QED BY <1>1, <1>2

LEMMA Bare == ASSUME NEW cmd \in Commands
              PROVE  /\ Cell(cmd) \in Cells /\ Cell(cmd).cmd = cmd
                     /\ <<Cell(cmd)>> \in Seq(Cells)
                     /\ \A n \in Nat : [k \in 1..n |-> Cell(cmd)] \in Seq(Cells)
<1>1. Cell(cmd) \in Cells /\ Cell(cmd).cmd = cmd
  BY DEF Cell, Cells
<1>2. \A c \in Cells : <<c>> \in Seq(Cells)
  OBVIOUS
<1>3. \A n \in Nat : [k \in 1..n |-> Cell(cmd)] \in Seq(Cells)
  BY <1>1
<1> QED BY <1>1, <1>2, <1>3

LEMMA Nothing == <<>> \in Seq(Cells) /\ NoDestroy(<<>>)
BY DEF NoDestroy

LEMMA SentDn ==
    ASSUME LinksTyped, NEW i \in Hops, NEW cells \in Seq(Cells), SendDn(i, cells)
    PROVE  /\ dn' \in [Hops -> Seq(Cells)]
           /\ \A j \in Hops : dn'[j] = IF j = i /\ j \notin broken THEN dn[j] \o cells ELSE dn[j]
<1>1. dn \in [Hops -> Seq(Cells)]
  BY DEF LinksTyped
<1>2. dn[i] \o cells \in Seq(Cells)
  <2>1. dn[i] \in Seq(Cells)
    BY <1>1
  <2> QED BY <2>1
<1> QED BY <1>1, <1>2 DEF SendDn

LEMMA SentUp ==
    ASSUME LinksTyped, NEW i \in Hops, NEW cells \in Seq(Cells), SendUp(i, cells)
    PROVE  /\ up' \in [Hops -> Seq(Cells)]
           /\ \A j \in Hops : up'[j] = IF j = i /\ j \notin broken THEN up[j] \o cells ELSE up[j]
<1>1. up \in [Hops -> Seq(Cells)]
  BY DEF LinksTyped
<1>2. up[i] \o cells \in Seq(Cells)
  <2>1. up[i] \in Seq(Cells)
    BY <1>1
  <2> QED BY <2>1
<1> QED BY <1>1, <1>2 DEF SendUp

LEMMA PassedDn ==
    ASSUME LinksTyped, NEW i \in Hops, dn[i] # <<>>, NEW cells \in Seq(Cells), PassDn(i, cells)
    PROVE  /\ dn' \in [Hops -> Seq(Cells)]
           /\ dn'[i] = Tail(dn[i])
           /\ \A j \in Hops \ {i} :
                dn'[j] = IF j = i + 1 /\ j \notin broken THEN dn[j] \o cells ELSE dn[j]
           /\ cells = <<>> => \A j \in Hops \ {i} : dn'[j] = dn[j]
<1>1. \A j \in Hops : dn[j] \in Seq(Cells) /\ dn[j] \o cells \in Seq(Cells)
  <2>1. \A q \in Seq(Cells) : q \o cells \in Seq(Cells)
    OBVIOUS
  <2> QED BY <2>1 DEF LinksTyped
<1>2. Tail(dn[i]) \in Seq(Cells)
  BY Wires
<1>3. \A q \in Seq(Cells) : q \o <<>> = q
  OBVIOUS
<1>4. dn' \in [Hops -> Seq(Cells)]
  BY <1>1, <1>2 DEF PassDn
<1>5. i # i + 1
  BY PathAssumption DEF Hops
<1> QED BY <1>1, <1>3, <1>4, <1>5 DEF PassDn

LEMMA PassedUp ==
    ASSUME LinksTyped, NEW i \in Hops, i + 1 \in Hops, up[i + 1] # <<>>,
           NEW cells \in Seq(Cells), PassUp(i, cells)
    PROVE  /\ up' \in [Hops -> Seq(Cells)]
           /\ up'[i + 1] = Tail(up[i + 1])
           /\ \A j \in Hops \ {i + 1} :
                up'[j] = IF j = i /\ j \notin broken THEN up[j] \o cells ELSE up[j]
           /\ cells = <<>> => \A j \in Hops \ {i + 1} : up'[j] = up[j]
<1>1. \A j \in Hops : up[j] \in Seq(Cells) /\ up[j] \o cells \in Seq(Cells)
  <2>1. \A q \in Seq(Cells) : q \o cells \in Seq(Cells)
    OBVIOUS
  <2> QED BY <2>1 DEF LinksTyped
<1>2. Tail(up[i + 1]) \in Seq(Cells)
  BY Wires
<1>3. \A q \in Seq(Cells) : q \o <<>> = q
  OBVIOUS
<1>4. up' \in [Hops -> Seq(Cells)]
  BY <1>1, <1>2 DEF PassUp
<1>5. i # i + 1
  BY PathAssumption DEF Hops
<1> QED BY <1>1, <1>3, <1>4, <1>5 DEF PassUp

-----------------------------------------------------------------------------
(* What a step that leaves the counters alone keeps                        *)

\* A link on which nothing happens, or only its end.
Rests(q, r) == r = q \/ r = q \o <<DESTROY>>

LEMMA DnLineKept ==
    ASSUME LinksTyped, NEW j \in Hops, DnLine(j), lag(j) >= 0,
           UNCHANGED <<hops, cf, df>>, lag(j)' = lag(j), lag(j - 1)' = lag(j - 1),
           Dead(j) => Dead(j)', broken \subseteq broken', result = "failed" => result' = "failed",
           ~Dead(j)' => Rests(dn[j], dn'[j]) \/ (j \in broken' /\ dn'[j] = <<>>)
    PROVE  DnLine(j)'
<1> SUFFICES ASSUME ~Dead(j)'
             PROVE  DnLine(j)'
  BY DEF DnLine
<1>1. PICK n \in Nat : /\ n <= lag(j)
                       /\ j \notin broken /\ (j > 1 \/ result # "failed") => n = lag(j) - lag(j - 1)
                       /\ Line(dn[j], n, FwdCells(hops, cf, df, j, lag(j)))
  BY DEF DnLine
<1>2. FwdCells(hops, cf, df, j, lag(j))' = FwdCells(hops, cf, df, j, lag(j))
  <2>1. FwdCells(hops, cf, df, j, lag(j))' = FwdCells(hops', cf', df', j, lag(j)')
    BY DEF FwdCells, FwdCell
  <2> QED BY <2>1
<1>3. CASE Rests(dn[j], dn'[j])
  <2>1. Line(dn'[j], n, FwdCells(hops, cf, df, j, lag(j)))
    BY <1>1, <1>3, LineEnds, Wires DEF Rests
  <2> QED BY <1>1, <1>2, <2>1 DEF DnLine
<1>4. CASE j \in broken' /\ dn'[j] = <<>>
  <2>1. Line(dn'[j], 0, FwdCells(hops, cf, df, j, lag(j))')
    BY <1>4, LineEmpty
  <2> QED BY <1>4, <2>1 DEF DnLine
<1> QED BY <1>3, <1>4

LEMMA UpLineKept ==
    ASSUME LinksTyped, NEW j \in Hops, UpLine(j),
           UNCHANGED <<hops, cb, db>>, lead(j)' = lead(j), lead(j - 1)' = lead(j - 1),
           Receives(j)' => Receives(j), broken \subseteq broken',
           Receives(j)' => Rests(up[j], up'[j]) \/ (j \in broken' /\ up'[j] = <<>>)
    PROVE  UpLine(j)'
<1> SUFFICES ASSUME Receives(j)'
             PROVE  UpLine(j)'
  BY DEF UpLine
<1>1. PICK n \in Nat : /\ j \notin broken => n = lead(j) - lead(j - 1)
                       /\ Line(up[j], n, BwdCells(hops, cb, db, j, lead(j - 1)))
  BY DEF UpLine
<1>2. BwdCells(hops, cb, db, j, lead(j - 1))' = BwdCells(hops, cb, db, j, lead(j - 1))
  <2>1. BwdCells(hops, cb, db, j, lead(j - 1))' = BwdCells(hops', cb', db', j, lead(j - 1)')
    BY DEF BwdCells, BwdCell
  <2> QED BY <2>1
<1>3. CASE Rests(up[j], up'[j])
  <2>1. Line(up'[j], n, BwdCells(hops, cb, db, j, lead(j - 1)))
    BY <1>1, <1>3, LineEnds, Wires DEF Rests
  <2> QED BY <1>1, <1>2, <2>1 DEF UpLine
<1>4. CASE j \in broken' /\ up'[j] = <<>>
  <2>1. Line(up'[j], 0, BwdCells(hops, cb, db, j, lead(j - 1))')
    BY <1>4, LineEmpty
  <2> QED BY <1>4, <2>1 DEF UpLine
<1> QED BY <1>3, <1>4

LEMMA LinesKept ==
    ASSUME TypeOK, LinksTyped, LinesSound, LagsGrow,
           UNCHANGED <<hops, cf, cb, df, db, rf, rb>>,
           \A j \in Hops : Dead(j) => Dead(j)',
           broken \subseteq broken', result = "failed" => result' = "failed",
           handler = "closed" => handler' = "closed",
           \A j \in 1..hops : ~Dead(j)' => Rests(dn[j], dn'[j]) \/ (j \in broken' /\ dn'[j] = <<>>),
           \A j \in 1..hops : Receives(j)' => Rests(up[j], up'[j]) \/ (j \in broken' /\ up'[j] = <<>>)
    PROVE  LinesSound' /\ LagsGrow'
<1>1. \A j : lag(j)' = lag(j) /\ lead(j)' = lead(j)
  BY DEF lag, lead
<1>2. ASSUME NEW j \in 1..hops
      PROVE  DnLine(j)' /\ UpLine(j)'
  <2>1. j \in Hops /\ DnLine(j) /\ UpLine(j) /\ lag(j) >= 0
    <3>1. j \in Hops /\ j \in 0..j /\ j \in 0..hops
      BY Hop
    <3>2. 0 <= lag(j) /\ lag(j) \in Int
      BY <3>1, LagTypes DEF LagsGrow
    <3> QED BY <3>1, <3>2 DEF LinesSound
  <2>2. Receives(j)' => Receives(j)
    <3>1. j = 1 \/ j - 1 \in Hops
      BY <2>1, PathAssumption DEF Hops
    <3> QED BY <3>1 DEF Receives
  <2> QED BY <1>1, <2>1, <2>2, DnLineKept, UpLineKept
<1>3. LagsGrow'
  BY <1>1 DEF LagsGrow
<1> QED BY <1>2, <1>3 DEF LinesSound

\* A link that loses its next cell, or gets cells none of which is a DESTROY.
Quiet(q, r) ==
    \/ r = q
    \/ q # <<>> /\ r = Tail(q)
    \/ \E c \in Seq(Cells) : NoDestroy(c) /\ r = q \o c

LEMMA EndsKept ==
    ASSUME LinksTyped, EndsSound,
           \A j \in Hops : /\ Dead(j) => Dead(j)'
                           /\ ~Dead(j)' => Quiet(up[j], up'[j]) \/ up'[j] = <<>>
                           /\ Sends(j)' => Sends(j) /\ (Quiet(dn[j], dn'[j]) \/ dn'[j] = <<>>)
                           /\ j \in broken' => dn'[j] = <<>> /\ up'[j] = <<>>
    PROVE  EndsSound'
<1>1. ASSUME NEW q \in Seq(Cells), NEW r, NoDestroy(q), Quiet(q, r) \/ r = <<>>
      PROVE  NoDestroy(r)
  BY <1>1, NoDestroyTaken, NoDestroyMore, Nothing DEF Quiet
<1>2. ASSUME NEW j \in Hops
      PROVE  /\ j \in broken' => dn'[j] = <<>> /\ up'[j] = <<>>
             /\ ~Dead(j)' => NoDestroy(up'[j])
             /\ Sends(j)' => NoDestroy(dn'[j])
  <2>1. dn[j] \in Seq(Cells) /\ up[j] \in Seq(Cells)
    BY Wires
  <2> QED BY <1>1, <2>1 DEF EndsSound
<1> QED BY <1>2 DEF EndsSound

LEMMA CreateKept ==
    ASSUME LinksTyped, CreateSound, TypeOK, hops' = hops,
           hops < N /\ ~Dead(hops + 1)' =>
              /\ role'[hops + 1] = role[hops + 1] /\ inFrag'[hops + 1] = inFrag[hops + 1]
              /\ Rests(dn[hops + 1], dn'[hops + 1]) \/ dn'[hops + 1] = <<>>
    PROVE  CreateSound'
<1> DEFINE x == hops + 1
<1> SUFFICES ASSUME hops < N, ~Dead(x)'
             PROVE  CreateSound'
  BY DEF CreateSound
<1>1. x \in Hops /\ ~Dead(x) /\ x' = x /\ dn[x] \in Seq(Cells)
  BY Types, Wires DEF Dead
<1>2. PICK n \in Nat :
        /\ Line(dn[x], n, AllCells("CREATE"))
        /\ role[x] # "established" /\ n > 0 => inFrag[x] + n = Frags
        /\ role[x] = "established" => n = 0 /\ inFrag[x] = 0
  BY <1>1 DEF CreateSound
<1>3. CASE Rests(dn[x], dn'[x])
  <2>1. Line(dn'[x], n, AllCells("CREATE"))
    BY <1>1, <1>2, <1>3, LineEnds DEF Rests
  <2> QED BY <1>1, <1>2, <2>1 DEF CreateSound
<1>4. CASE dn'[x] = <<>>
  <2>1. Line(dn'[x], 0, AllCells("CREATE"))
    BY <1>4, LineEmpty
  <2> QED BY <1>1, <1>2, <2>1 DEF CreateSound
<1> QED BY <1>3, <1>4

LEMMA CreatedKept ==
    ASSUME LinksTyped, CreatedSound, TypeOK, hops' = hops,
           hops < N /\ Receives(hops + 1)' =>
              /\ Receives(hops + 1) /\ (Waiting' <=> Waiting) /\ Collected' = Collected
              /\ Past(hops + 1) => Past(hops + 1)'
              /\ Rests(up[hops + 1], up'[hops + 1]) \/ up'[hops + 1] = <<>>
    PROVE  CreatedSound'
<1> DEFINE x == hops + 1
<1> SUFFICES ASSUME hops < N, Receives(x)'
             PROVE  CreatedSound'
  BY DEF CreatedSound
<1>1. x \in Hops /\ Receives(x) /\ x' = x /\ up[x] \in Seq(Cells)
  BY Types, Wires
<1>2. PICK n \in Nat :
        /\ Line(up[x], n, AllCells("CREATED"))
        /\ ~Waiting => n = 0
        /\ Waiting /\ n > 0 => Collected + n = Frags
        /\ Waiting /\ (n > 0 \/ Collected > 0) => Past(x)
  BY <1>1 DEF CreatedSound
<1>3. CASE Rests(up[x], up'[x])
  <2>1. Line(up'[x], n, AllCells("CREATED"))
    BY <1>1, <1>2, <1>3, LineEnds DEF Rests
  <2> QED BY <1>1, <1>2, <2>1 DEF CreatedSound
<1>4. CASE up'[x] = <<>>
  <2>1. Line(up'[x], 0, AllCells("CREATED"))
    BY <1>4, LineEmpty
  <2> QED BY <1>1, <1>2, <2>1 DEF CreatedSound
<1> QED BY <1>3, <1>4

-----------------------------------------------------------------------------
(* What can be next on a link                                              *)

LEMMA NextDn ==
    ASSUME TypeOK, LinksTyped, LinesSound, NEW j \in 1..hops, ~Dead(j), dn[j] # <<>>
    PROVE  /\ Head(dn[j]).cmd \in {"RELAY", "DESTROY"}
           /\ Head(dn[j]).cmd = "RELAY" =>
                /\ Head(dn[j]) = FwdCell(hops, cf, df, j, lag(j))
                /\ \E n \in Nat :
                     /\ n < lag(j)
                     /\ j \notin broken /\ (j > 1 \/ result # "failed") => n = lag(j) - lag(j - 1) - 1
                     /\ Line(Tail(dn[j]), n, FwdCells(hops, cf, df, j, lag(j) - 1))
<1>1. PICK n \in Nat : /\ n <= lag(j)
                       /\ j \notin broken /\ (j > 1 \/ result # "failed") => n = lag(j) - lag(j - 1)
                       /\ Line(dn[j], n, FwdCells(hops, cf, df, j, lag(j)))
  BY DEF DnLine, LinesSound
<1>2. lag(j) \in Int /\ dn[j] \in Seq(Cells) /\ lag(j - 1) \in Int
  BY Hop, LagTypes, Wires
<1> DEFINE f == FwdCells(hops, cf, df, j, lag(j)) g == FwdCells(hops, cf, df, j, lag(j) - 1)
<1>3. \A k \in Nat \ {0} : g[k] = f[k + 1]
  BY <1>2 DEF FwdCells
<1>4. f[1] = FwdCell(hops, cf, df, j, lag(j))
  BY <1>2 DEF FwdCells
<1>5. f[1].cmd = "RELAY" /\ DESTROY.cmd = "DESTROY"
  BY <1>4 DEF FwdCell, Relay, DESTROY, Cell
<1>6. Line(dn[j], n, f)
  BY <1>1
<1> HIDE DEF f, g
<1>7. /\ Head(dn[j]) = IF n = 0 THEN DESTROY ELSE f[1]
      /\ Line(Tail(dn[j]), IF n = 0 THEN 0 ELSE n - 1, g)
  BY <1>2, <1>3, <1>6, LineTaken
<1>8. CASE n = 0
  BY <1>5, <1>7, <1>8
<1>9. CASE n # 0
  <2>1. Line(Tail(dn[j]), n - 1, g) /\ n - 1 \in Nat /\ n - 1 < lag(j)
    BY <1>1, <1>2, <1>7, <1>9
  <2>2. j \notin broken /\ (j > 1 \/ result # "failed") => n - 1 = lag(j) - lag(j - 1) - 1
    BY <1>1, <1>2
  <2> QED BY <1>4, <1>5, <1>7, <1>9, <2>1, <2>2 DEF g
<1> QED BY <1>8, <1>9

LEMMA NextUp ==
    ASSUME TypeOK, LinksTyped, LinesSound, NEW j \in 1..hops, Receives(j), up[j] # <<>>
    PROVE  /\ Head(up[j]).cmd \in {"RELAY", "DESTROY"}
           /\ Head(up[j]).cmd = "RELAY" =>
                /\ Head(up[j]) = BwdCell(hops, cb, db, j, lead(j - 1))
                /\ \E n \in Nat :
                     /\ j \notin broken => n = lead(j) - lead(j - 1) - 1
                     /\ Line(Tail(up[j]), n, BwdCells(hops, cb, db, j, lead(j - 1) + 1))
<1>1. PICK n \in Nat : /\ j \notin broken => n = lead(j) - lead(j - 1)
                       /\ Line(up[j], n, BwdCells(hops, cb, db, j, lead(j - 1)))
  BY DEF UpLine, LinesSound
<1>2. lead(j) \in Int /\ up[j] \in Seq(Cells) /\ lead(j - 1) \in Int
  BY Hop, LagTypes, Wires
<1> DEFINE f == BwdCells(hops, cb, db, j, lead(j - 1)) g == BwdCells(hops, cb, db, j, lead(j - 1) + 1)
<1>3. \A k \in Nat \ {0} : g[k] = f[k + 1]
  <2>1. \A k \in Nat \ {0} : k + 1 \in Nat /\ lead(j - 1) + 1 + k - 1 = lead(j - 1) + (k + 1) - 1
    BY <1>2
  <2> QED BY <2>1 DEF BwdCells
<1>4. f[1] = BwdCell(hops, cb, db, j, lead(j - 1))
  <2>1. lead(j - 1) + 1 - 1 = lead(j - 1)
    BY <1>2
  <2> QED BY <2>1 DEF BwdCells
<1>5. f[1].cmd = "RELAY" /\ DESTROY.cmd = "DESTROY"
  BY <1>4 DEF BwdCell, Relay, DESTROY, Cell
<1>6. Line(up[j], n, f)
  BY <1>1
<1> HIDE DEF f, g
<1>7. /\ Head(up[j]) = IF n = 0 THEN DESTROY ELSE f[1]
      /\ Line(Tail(up[j]), IF n = 0 THEN 0 ELSE n - 1, g)
  BY <1>2, <1>3, <1>6, LineTaken
<1>8. CASE n = 0
  BY <1>5, <1>7, <1>8
<1>9. CASE n # 0
  <2>1. Line(Tail(up[j]), n - 1, g) /\ n - 1 \in Nat
    BY <1>1, <1>2, <1>7, <1>9
  <2>2. j \notin broken => n - 1 = lead(j) - lead(j - 1) - 1
    BY <1>1, <1>2
  <2> QED BY <1>4, <1>5, <1>7, <1>9, <2>1, <2>2 DEF g
<1> QED BY <1>8, <1>9

LEMMA NextCreate ==
    ASSUME TypeOK, LinksTyped, CreateSound, hops < N, ~Dead(hops + 1), dn[hops + 1] # <<>>
    PROVE  /\ Head(dn[hops + 1]).cmd \in {"CREATE", "DESTROY"}
           /\ Head(dn[hops + 1]).cmd = "DESTROY" => Line(Tail(dn[hops + 1]), 0, AllCells("CREATE"))
           /\ Head(dn[hops + 1]).cmd = "CREATE" =>
                /\ role[hops + 1] # "established"
                /\ \E n \in Nat :
                     /\ Line(Tail(dn[hops + 1]), n, AllCells("CREATE"))
                     /\ inFrag[hops + 1] + n + 1 = Frags
<1> DEFINE x == hops + 1 f == AllCells("CREATE")
<1>1. PICK n \in Nat :
        /\ Line(dn[x], n, f)
        /\ role[x] # "established" /\ n > 0 => inFrag[x] + n = Frags
        /\ role[x] = "established" => n = 0 /\ inFrag[x] = 0
  BY DEF CreateSound
<1>2. dn[x] \in Seq(Cells) /\ dn[x] # <<>> /\ inFrag[x] \in Nat /\ Frags \in Nat
  <2>1. x \in Hops
    BY Types
  <2> QED BY <2>1, Wires, Types, SMTT(30)
<1>3. (\A k \in Nat \ {0} : f[k] = f[k + 1]) /\ f[1].cmd = "CREATE" /\ DESTROY.cmd = "DESTROY"
  BY DEF AllCells, DESTROY, Cell
<1> HIDE DEF f, x
<1>7. Line(dn[x], n, f) /\ dn[x] \in Seq(Cells) /\ dn[x] # <<>> /\ \A k \in Nat \ {0} : f[k] = f[k + 1]
  BY <1>1, <1>2, <1>3
<1>4. /\ Head(dn[x]) = IF n = 0 THEN DESTROY ELSE f[1]
      /\ Line(Tail(dn[x]), IF n = 0 THEN 0 ELSE n - 1, f)
  BY <1>7, LineTaken
<1>5. CASE n = 0
  BY <1>3, <1>4, <1>5 DEF x, f
<1>6. CASE n # 0
  <2>1. Line(Tail(dn[x]), n - 1, f) /\ n - 1 \in Nat
    BY <1>4, <1>6
  <2>2. role[x] # "established" /\ inFrag[x] + (n - 1) + 1 = Frags
    BY <1>1, <1>2, <1>6
  <2> QED BY <1>3, <1>4, <1>6, <2>1, <2>2 DEF x, f
<1> QED BY <1>5, <1>6

LEMMA NextCreated ==
    ASSUME TypeOK, LinksTyped, CreatedSound, hops < N, Receives(hops + 1), up[hops + 1] # <<>>
    PROVE  /\ Head(up[hops + 1]).cmd \in {"CREATED", "DESTROY"}
           /\ Head(up[hops + 1]).cmd = "CREATED" =>
                /\ Waiting /\ Past(hops + 1)
                /\ \E n \in Nat :
                     /\ Line(Tail(up[hops + 1]), n, AllCells("CREATED"))
                     /\ Collected + n + 1 = Frags
<1> DEFINE x == hops + 1 f == AllCells("CREATED")
<1>1. PICK n \in Nat :
        /\ Line(up[x], n, f)
        /\ ~Waiting => n = 0
        /\ Waiting /\ n > 0 => Collected + n = Frags
        /\ Waiting /\ (n > 0 \/ Collected > 0) => Past(x)
  BY DEF CreatedSound
<1>2. up[x] \in Seq(Cells) /\ up[x] # <<>> /\ Frags \in Nat /\ Collected \in Nat
  <2>1. x \in Hops /\ frag \in Nat /\ hops \in 0..N
    BY Types
  <2>2. hops # 0 => outFrag[hops] \in Nat
    <3>1. hops # 0 => hops \in Hops
      BY <2>1 DEF Hops
    <3>2. \A i \in Hops : outFrag[i] \in Nat
      BY Types
    <3> QED BY <3>1, <3>2
  <2> QED BY <2>1, <2>2, Wires, Types DEF Collected
<1>3. (\A k \in Nat \ {0} : f[k] = f[k + 1]) /\ f[1].cmd = "CREATED" /\ DESTROY.cmd = "DESTROY"
  BY DEF AllCells, DESTROY, Cell
<1> HIDE DEF f, x
<1>7. Line(up[x], n, f) /\ up[x] \in Seq(Cells) /\ up[x] # <<>> /\ \A k \in Nat \ {0} : f[k] = f[k + 1]
  BY <1>1, <1>2, <1>3
<1>4. /\ Head(up[x]) = IF n = 0 THEN DESTROY ELSE f[1]
      /\ Line(Tail(up[x]), IF n = 0 THEN 0 ELSE n - 1, f)
  BY <1>7, LineTaken
<1>5. CASE n = 0
  BY <1>3, <1>4, <1>5 DEF x
<1>6. CASE n # 0
  <2>1. Line(Tail(up[x]), n - 1, f) /\ n - 1 \in Nat
    BY <1>4, <1>6
  <2>2. Waiting /\ Past(x) /\ Collected + (n - 1) + 1 = Frags
    BY <1>1, <1>2, <1>6
  <2> QED BY <1>3, <1>4, <1>6, <2>1, <2>2 DEF x, f
<1> QED BY <1>5, <1>6

-----------------------------------------------------------------------------
(* The steps of the client                                                 *)

LEMMA CleanupKeeps == ASSUME CircuitInv, cleanup, result = "building" PROVE CircuitInv'
<1> USE DEF CircuitInv
<1>1. 1 \in Hops /\ hops < N /\ N \in Nat /\ hops \in Nat
  BY Types, PathAssumption DEF ClientSound, Hops
<1>2. /\ UNCHANGED <<hops, cf, cb, df, db, frag, told>> /\ UNCHANGED <<up, broken, stale, dropped>>
      /\ UNCHANGED <<role, inFrag, outFrag, dial, ext, rf, rb, gf, gb, served, replied>>
      /\ result' = "failed" /\ handler' = "closed" /\ cont' = "none"
  BY DEF cleanup, relays
<1>3. /\ dn' \in [Hops -> Seq(Cells)]
      /\ \A j \in Hops : dn'[j] = IF j = 1 /\ j \notin broken THEN dn[j] \o <<DESTROY>> ELSE dn[j]
  <2>1. SendDn(1, <<DESTROY>>) /\ <<DESTROY>> \in Seq(Cells)
    BY Bare DEF cleanup, DESTROY, Commands
  <2> QED BY <1>1, <2>1, SentDn
<1>4. \A j \in Hops : Dead(j)' = Dead(j)
  BY <1>2 DEF Dead
<1>5. TypeOK' /\ LinksTyped' /\ ~dropped'
  BY <1>2, <1>3 DEF TypeOK, LinksTyped
<1>6. LinesSound' /\ LagsGrow'
  <2>1. \A j \in 1..hops : Rests(dn[j], dn'[j]) /\ Rests(up[j], up'[j])
    BY <1>2, <1>3, Hop DEF Rests
  <2> QED BY <1>2, <1>4, <2>1, LinesKept
<1>7. EndsSound'
  <2>1. ASSUME NEW j \in Hops
        PROVE  /\ Dead(j) => Dead(j)'
               /\ ~Dead(j)' => Quiet(up[j], up'[j]) \/ up'[j] = <<>>
               /\ Sends(j)' => Sends(j) /\ (Quiet(dn[j], dn'[j]) \/ dn'[j] = <<>>)
               /\ j \in broken' => dn'[j] = <<>> /\ up'[j] = <<>>
    <3>1. Quiet(up[j], up'[j])
      BY <1>2 DEF Quiet
    <3>2. j = 1 => ~Sends(j)'
      BY <1>2 DEF Sends
    <3>3. j # 1 => Quiet(dn[j], dn'[j]) /\ (Sends(j)' => Sends(j))
      BY <1>2, <1>3 DEF Quiet, Sends, Dead
    <3>4. j \in broken' => dn'[j] = <<>> /\ up'[j] = <<>>
      BY <1>2, <1>3 DEF EndsSound
    <3> QED BY <1>4, <3>1, <3>2, <3>3, <3>4
  <2> QED BY <2>1, EndsKept
<1>8. RelaysSound'
  BY <1>1, <1>2, <1>3 DEF RelaysSound, Past
<1>9. ClientSound'
  BY <1>1, <1>2 DEF ClientSound
<1>10. LastSound'
  <2>1. hops >= 1 => dn'[hops + 1] = dn[hops + 1]
    <3>1. hops + 1 \in Hops /\ (hops >= 1 => hops + 1 # 1)
      BY <1>1, Types
    <3> QED BY <1>3, <3>1
  <2> QED BY <1>2, <2>1 DEF LastSound, Past, Dead
<1>11. CreateSound'
  BY <1>1, <1>2, <1>3, Types, CreateKept DEF Rests
<1>12. CreatedSound'
  <2>1. Receives(hops + 1)' => /\ hops # 0 /\ Receives(hops + 1)
                               /\ (Waiting' <=> Waiting) /\ Collected' = Collected
    BY <1>1, <1>2 DEF Receives, Dead, Waiting, Collected
  <2>2. Past(hops + 1) => Past(hops + 1)'
    BY <1>2 DEF Past
  <2> QED BY <1>2, <2>1, <2>2, CreatedKept DEF Rests
<1> QED BY <1>5, <1>6, <1>7, <1>8, <1>9, <1>10, <1>11, <1>12

LEMMA RejectedKeeps == ASSUME CircuitInv, resumeRejected \/ hopTimeout PROVE CircuitInv'
<1>1. cleanup /\ result = "building"
  BY DEF CircuitInv, ClientSound, resumeRejected, hopTimeout
<1> QED BY <1>1, CleanupKeeps

\* The next cell of the entry link is taken, and the counters are left alone:
\* the client was closed, or takes it as told here.
LEMMA ReadKeeps ==
    ASSUME CircuitInv, up[1] # <<>>, up' = [up EXCEPT ![1] = Tail(@)],
           UNCHANGED <<result, hops, cf, cb, df, db>>, UNCHANGED relays,
           UNCHANGED <<dn, broken, stale, dropped>>,
           told' \in BOOLEAN, frag' \in 0..Frags - 1,
           handler' \in {"idle", "create", "extend", "closed"},
           cont' \in {"none", "resolve", "reject"},
           handler = "closed" => handler' = "closed",
           handler' = "closed" \/ hops = 0,
           ClientSound', CreatedSound'
    PROVE  CircuitInv'
<1> USE DEF CircuitInv
<1>1. 1 \in Hops /\ hops \in Nat
  BY Types, PathAssumption DEF Hops
<1>2. UNCHANGED <<role, inFrag, outFrag, dial, ext, rf, rb, gf, gb, served, replied>>
  BY DEF relays
<1>3. /\ up' \in [Hops -> Seq(Cells)] /\ up'[1] = Tail(up[1])
      /\ \A j \in Hops : j # 1 => up'[j] = up[j]
  <2>1. up \in [Hops -> Seq(Cells)] /\ Tail(up[1]) \in Seq(Cells)
    BY <1>1, Wires DEF LinksTyped
  <2> QED BY <1>1, <2>1
<1>4. \A j \in Hops : Dead(j)' = Dead(j)
  BY <1>2 DEF Dead
<1>5. TypeOK' /\ LinksTyped' /\ ~dropped'
  <2>1. TypeOK'
    BY <1>2 DEF TypeOK
  <2> QED BY <1>3, <2>1 DEF LinksTyped
<1>6. LinesSound' /\ LagsGrow'
  <2>1. \A j \in 1..hops : Rests(dn[j], dn'[j]) /\ (Receives(j)' => Rests(up[j], up'[j]))
    <3>1. \A j \in 1..hops : j \in Hops /\ (j = 1 => ~Receives(j)')
      BY <1>1, Hop DEF Receives
    <3> QED BY <3>1, <1>3 DEF Rests
  <2> QED BY <1>2, <1>4, <2>1, LinesKept
<1>7. EndsSound'
  <2>1. ASSUME NEW j \in Hops
        PROVE  /\ Dead(j) => Dead(j)'
               /\ ~Dead(j)' => Quiet(up[j], up'[j]) \/ up'[j] = <<>>
               /\ Sends(j)' => Sends(j) /\ (Quiet(dn[j], dn'[j]) \/ dn'[j] = <<>>)
               /\ j \in broken' => dn'[j] = <<>> /\ up'[j] = <<>>
    <3>1. Quiet(up[j], up'[j]) /\ Quiet(dn[j], dn'[j])
      BY <1>3 DEF Quiet
    <3>2. Sends(j)' => Sends(j)
      BY <1>2 DEF Sends, Dead
    <3>3. j \in broken' => dn'[j] = <<>> /\ up'[j] = <<>>
      BY <1>3 DEF EndsSound
    <3> QED BY <1>4, <3>1, <3>2, <3>3
  <2> QED BY <2>1, EndsKept
<1>8. RelaysSound'
  BY <1>1, <1>2, <1>3 DEF RelaysSound, Past
<1>10. LastSound'
  <2>1. hops >= 1 /\ hops < N => up'[hops + 1] = up[hops + 1]
    BY <1>1, <1>3, Types
  <2> QED BY <1>2, <2>1 DEF LastSound, Past, Dead
<1>11. CreateSound'
  BY <1>2, CreateKept DEF Rests
<1> QED BY <1>5, <1>6, <1>7, <1>8, <1>10, <1>11

\* A cell on the entry link changes nothing for a client that was closed.
LEMMA ClosedCreated ==
    ASSUME CircuitInv, up[1] # <<>>, up' = [up EXCEPT ![1] = Tail(@)], handler' = "closed",
           UNCHANGED hops, UNCHANGED relays
    PROVE  CreatedSound'
<1> USE DEF CircuitInv
<1>1. 1 \in Hops /\ hops \in Nat /\ up \in [Hops -> Seq(Cells)]
  BY Types, PathAssumption DEF Hops, LinksTyped
<1>2. Receives(hops + 1)' => /\ hops # 0 /\ Receives(hops + 1)
                             /\ (Waiting' <=> Waiting) /\ Collected' = Collected
  BY <1>1 DEF Receives, Dead, Waiting, Collected, relays
<1>3. Past(hops + 1) => Past(hops + 1)'
  BY DEF Past, relays
<1>4. hops # 0 /\ hops < N => up'[hops + 1] = up[hops + 1]
  BY <1>1, Types
<1> QED BY <1>2, <1>3, <1>4, CreatedKept DEF Rests

LEMMA OnDestroyKeeps == ASSUME CircuitInv, onDestroyAtClient PROVE CircuitInv'
<1> USE DEF CircuitInv
<1>1. up[1] # <<>> /\ up' = [up EXCEPT ![1] = Tail(@)]
  BY DEF onDestroyAtClient, FromGuard
<1>2. /\ UNCHANGED <<result, hops, cf, cb, df, db, frag>> /\ UNCHANGED relays
      /\ UNCHANGED <<dn, broken, stale, dropped>>
      /\ handler' = "closed" /\ told' \in BOOLEAN
      /\ cont' \in {"none", "resolve", "reject"}
  BY DEF onDestroyAtClient, TypeOK
<1>3. ClientSound'
  <2>1. role' = role
    BY <1>2 DEF relays
  <2>2. CASE handler = "closed"
    BY <1>2, <2>1, <2>2 DEF onDestroyAtClient, ClientSound, Past
  <2>3. CASE handler # "closed"
    BY <1>2, <2>1, <2>3 DEF onDestroyAtClient, ClientSound, Past
  <2> QED BY <2>2, <2>3
<1>4. CreatedSound'
  BY <1>1, <1>2, ClosedCreated
<1>5. frag' \in 0..Frags - 1
  BY <1>2, Types
<1> QED BY <1>1, <1>2, <1>3, <1>4, <1>5, ReadKeeps

LEMMA OnCreatedKeeps == ASSUME CircuitInv, onCreated PROVE CircuitInv'
<1> USE DEF CircuitInv
<1>1. /\ up[1] # <<>> /\ up' = [up EXCEPT ![1] = Tail(@)] /\ Head(up[1]).cmd = "CREATED"
      /\ UNCHANGED <<result, hops, cf, cb, df, db, told>> /\ UNCHANGED relays
      /\ UNCHANGED <<dn, broken, stale, dropped>> /\ role' = role
  BY DEF onCreated, FromGuard, relays
<1>2. hops \in Nat /\ N \in Nat /\ 1 \in Hops /\ frag \in 0..Frags - 1 /\ Frags \in Nat \ {0}
  BY Types, PathAssumption DEF Hops
<1>3. handler # "closed" => hops = 0 /\ handler = "create"
  <2>1. ASSUME handler # "closed"
        PROVE  hops = 0
    <3>1. hops >= 1 => 1 \in 1..hops /\ Receives(1)
      BY <1>2, <2>1 DEF Receives
    <3> QED BY <1>1, <1>2, <3>1, NextUp
  <2>2. ASSUME handler # "closed"
        PROVE  handler = "create"
    <3>1. hops = 0 /\ hops + 1 = 1 /\ Receives(hops + 1) /\ hops < N
      BY <2>1, <2>2, PathAssumption DEF Receives
    <3>2. Waiting
      BY <1>1, <3>1, NextCreated
    <3> QED BY <3>1, <3>2 DEF Waiting
  <2> QED BY <2>1, <2>2
<1>4. CASE handler = "closed"
  <2>1. UNCHANGED <<handler, cont, frag>>
    BY <1>4 DEF onCreated
  <2>2. ClientSound'
    BY <1>1, <1>4, <2>1 DEF ClientSound, Past
  <2>3. CreatedSound'
    BY <1>1, <1>4, <2>1, ClosedCreated
  <2>4. /\ handler' \in {"idle", "create", "extend", "closed"} /\ cont' \in {"none", "resolve", "reject"}
        /\ frag' \in 0..Frags - 1 /\ told' \in BOOLEAN
    BY <1>1, <2>1 DEF TypeOK
  <2> QED BY <1>1, <1>4, <2>1, <2>2, <2>3, <2>4, ReadKeeps
<1>5. CASE handler = "create"
  <2>1. hops = 0 /\ hops + 1 = 1 /\ Receives(hops + 1) /\ hops < N /\ Waiting /\ Collected = frag
    BY <1>2, <1>3, <1>5, PathAssumption DEF Receives, Waiting, Collected
  <2>2. PICK n \in Nat : Line(Tail(up[1]), n, AllCells("CREATED")) /\ frag + n + 1 = Frags
    BY <1>1, <2>1, NextCreated
  <2>3. Past(1)
    BY <1>1, <2>1, NextCreated
  <2>4. up'[1] = Tail(up[1])
    BY <1>1, <1>2 DEF LinksTyped
  <2>5. cont = "none" /\ result = "building"
    BY <1>5 DEF ClientSound
  <2>6. frag' \in 0..Frags - 1
    BY <1>2, <1>5 DEF onCreated, ingest
  <2>7. told' \in BOOLEAN /\ (Past(1) => Past(1)')
    BY <1>1 DEF TypeOK, Past
  <2>8. CASE Complete(frag)
    <3>1. finishHandshake
      BY <1>5, <2>8 DEF onCreated
    <3>2. \/ handler' = "closed" /\ cont' = "reject"
          \/ handler' = "idle" /\ cont' = "resolve" /\ 1 \notin stale
      BY <3>1, <2>1 DEF finishHandshake
    <3>3. ClientSound'
      BY <1>1, <2>1, <2>3, <2>5, <2>7, <3>2 DEF ClientSound
    <3>4. n = 0
      BY <1>2, <2>2, <2>8 DEF Complete
    <3>5. CreatedSound'
      <4>1. hops' + 1 = 1 /\ hops' = 0
        BY <1>1, <2>1
      <4>2. ~Waiting'
        BY <3>2, <4>1 DEF Waiting
      <4> QED BY <2>2, <2>4, <3>4, <4>1, <4>2 DEF CreatedSound
    <3> QED BY <1>1, <1>5, <2>1, <2>6, <2>7, <3>2, <3>3, <3>5, ReadKeeps
  <2>9. CASE ~Complete(frag)
    <3>1. UNCHANGED <<handler, cont>> /\ frag' = frag + 1
      BY <1>5, <2>9 DEF onCreated, Complete, ingest
    <3>2. ClientSound'
      BY <1>1, <1>5, <2>1, <2>5, <3>1 DEF ClientSound
    <3>3. CreatedSound'
      <4>1. hops' + 1 = 1 /\ hops' = 0 /\ Collected' = frag + 1
        BY <1>1, <2>1, <3>1 DEF Collected
      <4>2. Waiting'
        BY <1>5, <3>1, <4>1 DEF Waiting
      <4>3. frag + 1 + n = Frags
        BY <1>2, <2>2
      <4>4. Past(1)'
        BY <2>3, <2>7
      <4> QED BY <2>2, <2>4, <4>1, <4>2, <4>3, <4>4 DEF CreatedSound
    <3> QED BY <1>1, <1>5, <2>1, <2>5, <2>6, <2>7, <3>1, <3>2, <3>3, ReadKeeps
  <2> QED BY <2>8, <2>9
<1> QED BY <1>3, <1>4, <1>5

\* What the client peels is what it would have put on: the last hop is
\* recognised, and no other.
LEMMA BwdRead ==
    ASSUME TypeOK, hops >= 1, NEW m, m = BwdCell(hops, cb, db, 1, 0)
    PROVE  /\ applyLayers(m.layers, decryptInbound(hops, cb)) = {}
           /\ {i \in 1..hops : Matches(m.plain, {}, i, db[i])} = {hops}
           /\ m.plain.kind = BwdKind(hops)
<1>1. hops \in Hops /\ hops \in Nat /\ db[hops] \in Nat /\ 1 \in 1..hops
  BY Types DEF Hops
<1>2. \A i \in 1..hops : cb[i] + 0 = cb[i] /\ i \in Hops
  BY Types
<1>3. m.layers = {<<i, "b", cb[i]>> : i \in 1..hops}
  <2>1. m.layers = {<<i, "b", cb[i] + 0>> : i \in 1..hops}
    BY DEF BwdCell, Relay
  <2> QED BY <1>2, <2>1
<1>4. applyLayers(m.layers, decryptInbound(hops, cb)) = {}
  BY <1>3 DEF applyLayers, decryptInbound
<1>5. m.plain.hop = hops /\ m.plain.seq = db[hops] /\ m.plain.kind = BwdKind(hops)
  <2>1. db[hops] + 0 = db[hops]
    BY <1>1
  <2> QED BY <2>1 DEF BwdCell, Relay, Plain
<1>6. \A i \in 1..hops : Matches(m.plain, {}, i, db[i]) <=> i = hops
  BY <1>5 DEF Matches
<1> QED BY <1>1, <1>4, <1>5, <1>6

LEMMA OnRelayKeeps == ASSUME CircuitInv, onRelay PROVE CircuitInv'
<1> USE DEF CircuitInv
<1> DEFINE m == Head(up[1])
<1>1. /\ up[1] # <<>> /\ up' = [up EXCEPT ![1] = Tail(@)] /\ m.cmd = "RELAY"
      /\ UNCHANGED relays /\ UNCHANGED <<dn, broken, stale>>
  BY DEF onRelay, FromGuard
<1>2. hops \in Nat /\ N \in Nat /\ 1 \in Hops /\ frag \in 0..Frags - 1 /\ Frags \in Nat \ {0} /\ hops <= N
  BY Types, PathAssumption DEF Hops
<1>3. CASE handler = "closed"
  <2>1. UNCHANGED <<handler, cont, result, hops, cf, cb, df, db, frag, told, dropped>>
    BY <1>3 DEF onRelay, client
  <2>2. ClientSound'
    BY <1>1, <2>1 DEF ClientSound, Past, relays
  <2>3. CreatedSound'
    BY <1>1, <1>3, <2>1, ClosedCreated
  <2>4. /\ handler' \in {"idle", "create", "extend", "closed"} /\ cont' \in {"none", "resolve", "reject"}
        /\ frag' \in 0..Frags - 1 /\ told' \in BOOLEAN
    BY <2>1 DEF TypeOK
  <2> QED BY <1>1, <1>3, <2>1, <2>2, <2>3, <2>4, ReadKeeps
<1>4. CASE handler # "closed"
  <2>1. hops >= 1
    <3>1. hops = 0 => hops + 1 = 1 /\ Receives(hops + 1) /\ hops < N
      BY <1>4, PathAssumption DEF Receives
    <3> QED BY <1>1, <1>2, <3>1, NextCreated
  <2>2. 1 \in 1..hops /\ hops \in 1..hops /\ Receives(1) /\ lead(0) = 0 /\ hops \in Hops
    BY <1>2, <1>4, <2>1 DEF Receives, lead, Hops
  <2>3. m = BwdCell(hops, cb, db, 1, 0)
    BY <1>1, <2>2, NextUp
  <2>4. PICK n \in Nat : /\ 1 \notin broken => n = lead(1) - 0 - 1
                         /\ Line(Tail(up[1]), n, BwdCells(hops, cb, db, 1, 0 + 1))
    BY <1>1, <2>2, NextUp
  <2>5. 1 \notin broken /\ lead(1) >= 1
    <3>1. 1 \notin broken
      BY <1>1, <1>2 DEF EndsSound
    <3>2. lead(1) \in Int
      BY <2>2, Hop, LagTypes
    <3> QED BY <2>4, <3>1, <3>2
  <2>6. \A j \in 1..hops : lead(j) >= 1
    <3>1. ASSUME NEW j \in 1..hops
          PROVE  lead(j) >= 1
      <4>1. lead(j) \in Int /\ lead(1) \in Int /\ 1 \in 0..j
        BY <2>2, Hop, LagTypes
      <4>2. lead(1) <= lead(j)
        BY <4>1 DEF LagsGrow
      <4> QED BY <2>5, <4>1, <4>2
    <3> QED BY <3>1
  <2>7. cb[hops] \in Nat /\ rb[hops] \in Nat /\ rb[hops] > cb[hops]
    <3>1. cb[hops] \in Nat /\ rb[hops] \in Nat
      BY <2>2, Types
    <3>2. rb[hops] - cb[hops] >= 1
      BY <2>2, <2>6, <1>2, <2>1 DEF lead
    <3> QED BY <3>1, <3>2
  <2> DEFINE extend == hops < N /\ handler = "extend"
  <2>8. /\ cb' = Advance(cb, hops, 1) /\ dropped' = dropped
        /\ db' = [db EXCEPT ![hops] = @ + 1]
        /\ UNCHANGED <<result, hops, cf, df, told>>
        /\ ~extend => UNCHANGED <<handler, cont, frag>>
        /\ extend => /\ frag' = ingest(frag)
                     /\ IF Complete(frag) THEN finishHandshake ELSE UNCHANGED <<handler, cont>>
    <3>1. /\ applyLayers(m.layers, decryptInbound(hops, cb)) = {}
          /\ {i \in 1..hops : Matches(m.plain, {}, i, db[i])} = {hops}
          /\ m.plain.kind = BwdKind(hops)
      BY <2>1, <2>3, BwdRead
    <3>2. (CHOOSE j \in {hops} : TRUE) = hops
      OBVIOUS
    <3> HIDE DEF m
    <3>3. LET layers == {}
              match == {hops}
              i == hops
          IN  /\ cb' = Advance(cb, hops, 1)
              /\ dropped' = (dropped \/ match = {})
              /\ db' = IF match = {} THEN db ELSE [db EXCEPT ![i] = @ + 1]
              /\ IF match = {} \/ m.plain.kind # "EXTENDED" \/ handler # "extend"
                 THEN UNCHANGED <<handler, cont, frag>>
                 ELSE /\ frag' = ingest(frag)
                      /\ IF Complete(frag) THEN finishHandshake
                                           ELSE UNCHANGED <<handler, cont>>
              /\ UNCHANGED <<result, hops, cf, df, told>>
      BY <1>4, <3>1, <3>2 DEF onRelay, m
    <3>4. {hops} # {}
      OBVIOUS
    <3> QED BY <3>1, <3>3, <3>4, dropped = FALSE \/ dropped = TRUE, Types DEF BwdKind
  <2> HIDE DEF m
  <2>9. /\ cb' \in [Hops -> Nat] /\ db' \in [Hops -> Nat]
        /\ \A i \in 1..hops : cb'[i] = cb[i] + 1
        /\ \A i \in Hops : i > hops => cb'[i] = cb[i] /\ db'[i] = db[i]
        /\ db'[hops] = db[hops] + 1
    <3>1. cb \in [Hops -> Nat] /\ db \in [Hops -> Nat] /\ \A i \in 1..hops : i \in Hops /\ i <= hops
      BY Types
    <3>2. \A i \in Hops : i > hops => ~(i <= hops) /\ i # hops
      BY <1>2 DEF Hops
    <3> QED BY <2>2, <2>8, <3>1, <3>2 DEF Advance
  <2>10. /\ up' \in [Hops -> Seq(Cells)] /\ up'[1] = Tail(up[1])
         /\ \A j \in Hops : j # 1 => up'[j] = up[j]
    <3>1. up \in [Hops -> Seq(Cells)] /\ Tail(up[1]) \in Seq(Cells)
      BY <1>1, <1>2, Wires DEF LinksTyped
    <3> QED BY <1>1, <1>2, <3>1
  <2>11. UNCHANGED <<role, inFrag, outFrag, dial, ext, rf, rb, gf, gb, served, replied>>
    BY <1>1 DEF relays
  <2>12. /\ lag(0)' = lag(0) /\ lead(0)' = 0
         /\ \A j \in 1..hops : lag(j)' = lag(j) /\ lead(j)' = lead(j) - 1
    <3>1. \A j \in 1..hops : j # 0 /\ cb'[j] = cb[j] + 1 /\ cb[j] \in Nat /\ rb[j] \in Nat
      BY <2>9, Types
    <3> QED BY <2>8, <2>11, <3>1 DEF lag, lead
  <2>13. /\ handler' \in {"idle", "create", "extend", "closed"} /\ cont' \in {"none", "resolve", "reject"}
         /\ frag' \in 0..Frags - 1
    BY <1>2, <2>8 DEF TypeOK, ingest, finishHandshake
  <2>14. TypeOK' /\ LinksTyped' /\ ~dropped'
    <3>1. UNCHANGED <<result, hops, cf, df, told, dropped>> /\ UNCHANGED <<broken, stale>>
      BY <1>1, <2>8
    <3>2. TypeOK'
      BY <2>9, <2>11, <2>13, <3>1 DEF TypeOK
    <3> QED BY <1>1, <2>8, <2>10, <3>2 DEF LinksTyped
  <2>15. LagsGrow'
    <3>1. ASSUME NEW k \in 1..hops, NEW i \in 0..k
          PROVE  0 <= lag(i)' /\ lag(i)' <= lag(k)' /\ 0 <= lead(i)' /\ lead(i)' <= lead(k)'
      <4>1. 0 <= lag(i) /\ lag(i) <= lag(k) /\ 0 <= lead(i) /\ lead(i) <= lead(k)
        BY DEF LagsGrow
      <4>2. i = 0 \/ i \in 1..hops
        BY <1>2
      <4>3. lag(i) \in Int /\ lag(k) \in Int /\ lead(i) \in Int /\ lead(k) \in Int /\ lead(k) >= 1
        <5>1. i \in 0..hops /\ k \in 0..hops
          BY <1>2
        <5> QED BY <5>1, LagTypes, <2>6
      <4>4. CASE i = 0
        BY <4>1, <4>3, <4>4, <2>12
      <4>5. CASE i \in 1..hops
        BY <4>1, <4>3, <4>5, <2>12, <2>6
      <4> QED BY <4>2, <4>4, <4>5
    <3> QED BY <2>8, <3>1 DEF LagsGrow
  <2>16. LinesSound'
    <3>1. ASSUME NEW j \in 1..hops
          PROVE  DnLine(j)'
      <4>1. j \in Hops /\ DnLine(j) /\ lag(j) >= 0
        <5>1. j \in Hops /\ j \in 0..j /\ j \in 0..hops
          BY Hop
        <5>2. 0 <= lag(j) /\ lag(j) \in Int
          BY <5>1, LagTypes DEF LagsGrow
        <5> QED BY <5>1, <5>2 DEF LinesSound
      <4>2. lag(j)' = lag(j) /\ lag(j - 1)' = lag(j - 1)
        BY <2>12, Hop
      <4>3. Rests(dn[j], dn'[j]) /\ (Dead(j) => Dead(j)') /\ broken \subseteq broken'
        BY <1>1, <2>11 DEF Rests, Dead
      <4> QED BY <2>8, <4>1, <4>2, <4>3, DnLineKept
    <3>2. \A i \in 1..hops : cb'[i] = cb[i] + 1 /\ cb[i] \in Nat /\ db[hops] \in Nat
      BY <2>2, <2>9, Types
    <3>3. UpLine(1)'
      <4>1. ASSUME NEW k \in Nat \ {0}
            PROVE  BwdCell(hops, cb, db, 1, 0 + 1 + k - 1) = BwdCell(hops, cb', db', 1, 0 + k - 1)
        <5>1. db[hops] + (0 + 1 + k - 1) = db'[hops] + (0 + k - 1)
          BY <2>9, <3>2, <2>2
        <5>2. \A i \in 1..hops : cb[i] + (0 + 1 + k - 1) = cb'[i] + (0 + k - 1)
          BY <3>2
        <5> QED BY <5>1, <5>2, BwdMoves
      <4>2. \A k \in Nat \ {0} : BwdCells(hops, cb, db, 1, 0 + 1)[k] = BwdCells(hops, cb', db', 1, 0)[k]
        BY <4>1 DEF BwdCells
      <4>3. Line(up'[1], n, BwdCells(hops, cb', db', 1, 0))
        BY <2>4, <2>10, <4>2, LineSame
      <4>4. n = lead(1)' - lead(0)'
        <5>1. lead(1) \in Int
          BY <2>2, Hop, LagTypes
        <5> QED BY <2>2, <2>4, <2>5, <2>12, <5>1
      <4> QED BY <2>8, <2>12, <4>3, <4>4 DEF UpLine
    <3>4. ASSUME NEW j \in 1..hops, j # 1, Receives(j)'
          PROVE  UpLine(j)'
      <4>1. j - 1 \in 1..hops /\ j \in Hops /\ Receives(j)
        BY <2>11, <3>4, Hop DEF Receives, Dead
      <4>2. PICK a \in Nat : /\ j \notin broken => a = lead(j) - lead(j - 1)
                             /\ Line(up[j], a, BwdCells(hops, cb, db, j, lead(j - 1)))
        BY <4>1 DEF UpLine, LinesSound
      <4>3. lead(j - 1) \in Int /\ lead(j) \in Int /\ lead(j - 1)' = lead(j - 1) - 1 /\ lead(j)' = lead(j) - 1
        BY <2>12, <4>1, Hop, LagTypes
      <4>4. ASSUME NEW k \in Nat \ {0}
            PROVE  BwdCell(hops, cb, db, j, lead(j - 1) + k - 1)
                     = BwdCell(hops, cb', db', j, lead(j - 1) - 1 + k - 1)
        <5>1. db[hops] + (lead(j - 1) + k - 1) = db'[hops] + (lead(j - 1) - 1 + k - 1)
          BY <2>2, <2>9, <3>2, <4>3
        <5>2. \A i \in j..hops : cb[i] + (lead(j - 1) + k - 1) = cb'[i] + (lead(j - 1) - 1 + k - 1)
          <6>1. \A i \in j..hops : i \in 1..hops
            BY <4>1, <1>2
          <6> QED BY <3>2, <4>3, <6>1
        <5> QED BY <5>1, <5>2, BwdMoves
      <4>5. \A k \in Nat \ {0} : BwdCells(hops, cb, db, j, lead(j - 1))[k]
                                   = BwdCells(hops, cb', db', j, lead(j - 1) - 1)[k]
        BY <4>4 DEF BwdCells
      <4>6. Line(up'[j], a, BwdCells(hops, cb', db', j, lead(j - 1) - 1))
        BY <2>10, <3>4, <4>1, <4>2, <4>5, LineSame
      <4>7. j \notin broken' => a = lead(j)' - lead(j - 1)'
        BY <1>1, <4>2, <4>3
      <4> QED BY <2>8, <4>3, <4>6, <4>7 DEF UpLine
    <3> QED BY <2>8, <3>1, <3>3, <3>4 DEF LinesSound, UpLine
  <2>17. EndsSound'
    <3>1. ASSUME NEW j \in Hops
          PROVE  /\ Dead(j) => Dead(j)'
                 /\ ~Dead(j)' => Quiet(up[j], up'[j]) \/ up'[j] = <<>>
                 /\ Sends(j)' => Sends(j) /\ (Quiet(dn[j], dn'[j]) \/ dn'[j] = <<>>)
                 /\ j \in broken' => dn'[j] = <<>> /\ up'[j] = <<>>
      <4>1. Quiet(up[j], up'[j]) /\ Quiet(dn[j], dn'[j])
        BY <1>1, <2>10 DEF Quiet
      <4>2. (Sends(j)' => Sends(j)) /\ (Dead(j) => Dead(j)')
        BY <2>8, <2>11 DEF Sends, Dead
      <4>3. j \in broken' => dn'[j] = <<>> /\ up'[j] = <<>>
        BY <1>1, <2>5, <2>10 DEF EndsSound
      <4> QED BY <4>1, <4>2, <4>3
    <3> QED BY <3>1, EndsKept
  <2>18. RelaysSound'
    BY <1>1, <1>2, <2>1, <2>8, <2>9, <2>10, <2>11, ZenonT(30) DEF RelaysSound, Past
  <2>19. ClientSound'
    <3>1. hops < N => cb[hops] < Frags /\ Past(hops + 1)
      BY <1>2, <2>1, <2>7 DEF LastSound
    <3>2. cb'[hops] = cb[hops] + 1 /\ Past(hops + 1)' = Past(hops + 1) /\ stale' = stale
      BY <1>1, <2>2, <2>9, <2>11, <2>8 DEF Past
    <3>3. handler # "create" /\ cont # "resolve" /\ cont # "reject"
      BY <1>4, <2>1, <2>7, <3>1 DEF ClientSound
    <3>4. CASE ~extend
      <4>1. handler # "extend" /\ UNCHANGED <<handler, cont, frag, result, hops>>
        BY <1>2, <2>8, <3>4 DEF ClientSound
      <4> QED BY <1>4, <3>3, <4>1 DEF ClientSound
    <3>5. CASE extend
      <4>1. frag = cb[hops] /\ result = "building" /\ cont = "none" /\ hops \in 1..(N - 1) /\ hops # N
        BY <1>2, <3>5 DEF ClientSound
      <4>2. CASE Complete(frag)
        <5>1. cb'[hops] = Frags
          BY <2>7, <3>2, <4>1, <4>2 DEF Complete
        <5>2. \/ handler' = "closed" /\ cont' = "reject"
              \/ handler' = "idle" /\ cont' = "resolve" /\ hops + 1 \notin stale
          BY <2>8, <3>5, <4>2 DEF finishHandshake
        <5> QED BY <2>8, <3>1, <3>2, <3>5, <4>1, <5>1, <5>2 DEF ClientSound
      <4>3. CASE ~Complete(frag)
        <5>1. frag' = frag + 1 /\ UNCHANGED <<handler, cont>>
          BY <2>8, <3>5, <4>3 DEF Complete, ingest
        <5> QED BY <2>8, <3>2, <3>5, <4>1, <5>1 DEF ClientSound
      <4> QED BY <4>2, <4>3
    <3> QED BY <3>4, <3>5
  <2>20. LastSound'
    <3>1. hops < N => up'[hops + 1] = up[hops + 1]
      <4>1. hops + 1 # 1 /\ (hops < N => hops + 1 \in Hops)
        BY <1>2, <2>1, Types
      <4> QED BY <2>10, <4>1
    <3>2. cb'[hops] = db'[hops] <=> cb[hops] = db[hops]
      BY <2>2, <2>9, <2>7, Types
    <3> QED BY <1>1, <2>8, <2>11, <3>1, <3>2 DEF LastSound, Past, Dead
  <2>21. CreateSound'
    BY <1>1, <2>8, <2>11, CreateKept DEF Rests
  <2>22. CreatedSound'
    <3>1. hops + 1 # 1 /\ hops # 0
      BY <1>2, <2>1
    <3>2. Receives(hops + 1)' => /\ Receives(hops + 1) /\ (Waiting' <=> Waiting) /\ Collected' = Collected
                                 /\ Past(hops + 1) => Past(hops + 1)'
      BY <2>8, <2>11, <3>1 DEF Receives, Dead, Waiting, Collected, Past
    <3>3. hops < N => up'[hops + 1] = up[hops + 1]
      <4>1. hops < N => hops + 1 \in Hops
        BY Types
      <4> QED BY <2>10, <3>1, <4>1
    <3> QED BY <2>8, <3>2, <3>3, CreatedKept DEF Rests
  <2> QED BY <2>14, <2>15, <2>16, <2>17, <2>18, <2>19, <2>20, <2>21, <2>22
<1> QED BY <1>3, <1>4

LEMMA RelayIsCell ==
    ASSUME NEW p \in [hop : Hops, kind : Kinds, seq : Int],
           NEW l \in SUBSET (Hops \X {"f", "b"} \X Int)
    PROVE  Relay(p, l) \in Cells /\ Relay(p, l).cmd = "RELAY"
BY DEF Relay, Cells

\* What the client sends is what its counters then say it sent.
LEMMA FwdSent ==
    ASSUME TypeOK, NEW h \in Hops, NEW n \in Nat
    PROVE  /\ Outbound(h, FwdKind(h), n) \in Seq(Cells) /\ Len(Outbound(h, FwdKind(h), n)) = n
           /\ NoDestroy(Outbound(h, FwdKind(h), n))
           /\ Line(Outbound(h, FwdKind(h), n), n,
                   FwdCells(h, Advance(cf, h, n), [df EXCEPT ![h] = @ + n], 1, n))
<1> DEFINE e == Advance(cf, h, n) g == [df EXCEPT ![h] = @ + n]
           sent == Outbound(h, FwdKind(h), n)
           layers(k) == {<<i, "f", cf[i] + k - 1>> : i \in 1..h}
<1>1. df[h] \in Nat /\ h \in Nat /\ \A i \in 1..h : i \in Hops /\ cf[i] \in Nat
  <2>1. h \in Nat /\ \A i \in 1..h : i \in Hops
    BY PathAssumption DEF Hops
  <2> QED BY <2>1, Types
<1>0. g[h] = df[h] + n /\ \A i \in 1..h : e[i] = cf[i] + n
  <2>1. df \in [Hops -> Nat] /\ \A i \in 1..h : i <= h
    BY <1>1, Types
  <2> QED BY <1>1, <2>1 DEF Advance
<1> HIDE DEF e, g
<1>2. sent = [k \in 1..n |-> Relay(Plain(h, FwdKind(h), df[h] + k - 1),
                                   encryptOutbound(h, [i \in Hops |-> cf[i] + k - 1]))]
  BY DEF Outbound
<1>3. \A k \in 1..n : encryptOutbound(h, [i \in Hops |-> cf[i] + k - 1]) = layers(k)
  BY <1>1 DEF encryptOutbound
<1> HIDE DEF sent
<1>4. \A k \in 1..n : sent[k] = Relay(Plain(h, FwdKind(h), df[h] + k - 1), layers(k))
  BY <1>2, <1>3
<1>5. \A k \in 1..n : layers(k) = {<<i, "f", e[i] - (n - k + 1)>> : i \in 1..h}
  <2>1. ASSUME NEW k \in 1..n, NEW i \in 1..h
        PROVE  cf[i] + k - 1 = e[i] - (n - k + 1)
    BY <1>0, <1>1
  <2> QED BY <2>1
<1>6. \A k \in 1..n : sent[k] = FwdCell(h, e, g, 1, n - k + 1)
  <2>1. ASSUME NEW k \in 1..n
        PROVE  df[h] + k - 1 = g[h] - (n - k + 1)
    BY <1>0, <1>1
  <2> HIDE DEF layers
  <2> QED BY <1>4, <1>5, <2>1 DEF FwdCell
<1>7. \A k \in 1..n : sent[k] \in Cells /\ sent[k].cmd = "RELAY"
  <2>1. ASSUME NEW k \in 1..n
        PROVE  layers(k) \in SUBSET (Hops \X {"f", "b"} \X Int)
    BY <1>1
  <2>2. ASSUME NEW k \in 1..n
        PROVE  Plain(h, FwdKind(h), df[h] + k - 1) \in [hop : Hops, kind : Kinds, seq : Int]
    BY <1>1 DEF Plain, Kinds, FwdKind
  <2> HIDE DEF layers
  <2> QED BY <1>4, <2>1, <2>2, RelayIsCell
<1>8. sent \in Seq(Cells) /\ Len(sent) = n
  BY <1>2, <1>7
<1>9. NoDestroy(sent)
  BY <1>7, <1>8 DEF NoDestroy
<1>10. Line(sent, n, FwdCells(h, e, g, 1, n))
  BY <1>6, <1>8 DEF Line, FwdCells
<1> QED BY <1>8, <1>9, <1>10 DEF sent, e, g

LEMMA SendForwardKeeps == ASSUME CircuitInv, sendForward PROVE CircuitInv'
<1> USE DEF CircuitInv
<1>1. /\ result = "built" /\ SendDn(1, Outbound(hops, "DATA", 1))
      /\ df' = [df EXCEPT ![hops] = @ + 1] /\ cf' = Advance(cf, hops, 1)
      /\ UNCHANGED <<handler, cont, result, hops, cb, db, frag, told>>
      /\ UNCHANGED <<up, broken, stale, dropped>>
      /\ UNCHANGED <<role, inFrag, outFrag, dial, ext, rf, rb, gf, gb, served, replied>>
  BY DEF sendForward, relays
<1>2. hops = N /\ hops \in Nat /\ hops >= 1 /\ hops \in Hops /\ 1 \in Hops /\ 1 \in 1..hops /\ hops \in 1..hops
  BY <1>1, Types DEF ClientSound, Hops
<1>3. /\ cf' \in [Hops -> Nat] /\ df' \in [Hops -> Nat]
      /\ \A i \in 1..hops : cf'[i] = cf[i] + 1 /\ cf[i] \in Nat /\ rf[i] \in Nat /\ i # 0
      /\ df'[hops] = df[hops] + 1 /\ df[hops] \in Nat
      /\ \A i \in Hops : i > hops => cf'[i] = cf[i] /\ df'[i] = df[i]
  <2>1. cf \in [Hops -> Nat] /\ df \in [Hops -> Nat] /\ rf \in [Hops -> Nat]
    BY Types
  <2>2. \A i \in 1..hops : i \in Hops /\ i <= hops
    BY <1>2, Types
  <2>3. \A i \in Hops : i > hops => ~(i <= hops) /\ i # hops
    BY <1>2 DEF Hops
  <2> QED BY <1>1, <1>2, <2>1, <2>2, <2>3 DEF Advance
<1> DEFINE sent == Outbound(hops, "DATA", 1)
<1>4. /\ sent \in Seq(Cells) /\ Len(sent) = 1 /\ NoDestroy(sent)
      /\ Line(sent, 1, FwdCells(hops, cf', df', 1, 1))
  <2>1. FwdKind(hops) = "DATA" /\ 1 \in Nat
    BY <1>2 DEF FwdKind
  <2> QED BY <1>1, <1>2, <2>1, FwdSent
<1>5. SendDn(1, sent)
  BY <1>1
<1> HIDE DEF sent
<1>6. /\ dn' \in [Hops -> Seq(Cells)]
      /\ \A j \in Hops : dn'[j] = IF j = 1 /\ j \notin broken THEN dn[j] \o sent ELSE dn[j]
  BY <1>2, <1>4, <1>5, SentDn
<1>7. /\ lag(0)' = 0 /\ lag(0) = 0 /\ lead(0)' = lead(0)
      /\ \A j \in 1..hops : lag(j)' = lag(j) + 1 /\ lead(j)' = lead(j)
  BY <1>1, <1>3 DEF lag, lead
<1>8. \A j \in Hops : Dead(j)' = Dead(j) /\ Sends(j)' = Sends(j) /\ Receives(j)' = Receives(j)
  BY <1>1 DEF Dead, Sends, Receives
<1>9. TypeOK' /\ LinksTyped' /\ ~dropped'
  <2>1. TypeOK'
    BY <1>1, <1>3 DEF TypeOK
  <2> QED BY <1>1, <1>6, <2>1 DEF LinksTyped
<1>10. LagsGrow'
  <2>1. ASSUME NEW k \in 1..hops, NEW i \in 0..k
        PROVE  0 <= lag(i)' /\ lag(i)' <= lag(k)' /\ 0 <= lead(i)' /\ lead(i)' <= lead(k)'
    <3>1. 0 <= lag(i) /\ lag(i) <= lag(k) /\ 0 <= lead(i) /\ lead(i) <= lead(k)
      BY DEF LagsGrow
    <3>2. i = 0 \/ i \in 1..hops
      BY <1>2
    <3>3. lag(i) \in Int /\ lag(k) \in Int
      <4>1. i \in 0..hops /\ k \in 0..hops
        BY <1>2
      <4> QED BY <4>1, LagTypes
    <3>4. CASE i = 0
      BY <3>1, <3>3, <3>4, <1>7
    <3>5. CASE i \in 1..hops
      BY <3>1, <3>3, <3>5, <1>7
    <3> QED BY <3>2, <3>4, <3>5
  <2> QED BY <1>1, <2>1 DEF LagsGrow
<1>11. ASSUME NEW j \in 1..hops
       PROVE  \A k \in Nat \ {0} : FwdCells(hops, cf, df, j, lag(j))[k]
                                     = FwdCells(hops, cf', df', j, lag(j) + 1)[k]
  <2>1. lag(j) \in Int /\ \A i \in j..hops : i \in 1..hops
    BY Hop, LagTypes, <1>2
  <2>2. ASSUME NEW k \in Nat \ {0}
        PROVE  FwdCell(hops, cf, df, j, lag(j) - k + 1) = FwdCell(hops, cf', df', j, lag(j) + 1 - k + 1)
    <3>1. df[hops] - (lag(j) - k + 1) = df'[hops] - (lag(j) + 1 - k + 1)
      BY <1>3, <2>1
    <3>2. \A i \in j..hops : cf[i] - (lag(j) - k + 1) = cf'[i] - (lag(j) + 1 - k + 1)
      BY <1>3, <2>1
    <3> QED BY <3>1, <3>2, FwdMoves
  <2> QED BY <2>1, <2>2 DEF FwdCells
<1>12. ASSUME NEW j \in 1..hops, ~Dead(j)'
       PROVE  DnLine(j)'
  <2>1. j \in Hops /\ ~Dead(j) /\ lag(j) \in Int /\ lag(j - 1) \in Int /\ dn[j] \in Seq(Cells)
    BY <1>8, <1>12, Hop, LagTypes, Wires
  <2>2. PICK n \in Nat : /\ n <= lag(j)
                         /\ j \notin broken /\ (j > 1 \/ result # "failed") => n = lag(j) - lag(j - 1)
                         /\ Line(dn[j], n, FwdCells(hops, cf, df, j, lag(j)))
    BY <2>1 DEF DnLine, LinesSound
  <2>3. Line(dn[j], n, FwdCells(hops, cf', df', j, lag(j) + 1))
    BY <1>11, <2>2, LineSame
  <2>4. CASE j # 1 \/ j \in broken
    <3>1. dn'[j] = dn[j]
      BY <1>6, <2>1, <2>4
    <3>2. n <= lag(j)'
      BY <1>7, <2>1, <2>2
    <3>3. j \notin broken => n = lag(j)' - lag(j - 1)'
      <4>1. j \notin broken => j - 1 \in 1..hops /\ j > 1
        BY <2>4, Hop
      <4> QED BY <1>7, <2>1, <2>2, <4>1
    <3> QED BY <1>1, <1>7, <2>3, <3>1, <3>2, <3>3 DEF DnLine
  <2>5. CASE j = 1 /\ j \notin broken
    <3>1. n = lag(1) /\ lag(j - 1) = 0 /\ lag(j - 1)' = 0
      <4>1. j - 1 = 0
        BY <2>5
      <4> QED BY <1>1, <1>7, <2>1, <2>2, <2>5, <4>1
    <3>2. NoDestroy(dn[1])
      BY <1>1, <1>2 DEF EndsSound, Sends
    <3>3. n = Len(dn[1])
      BY <2>1, <2>2, <2>5, <3>2, LineWhole
    <3>4. \A k \in 1..Len(sent) : sent[k] = FwdCells(hops, cf', df', 1, lag(1) + 1)[Len(dn[1]) + k]
      <4>1. ASSUME NEW k \in 1..1
            PROVE  sent[k] = FwdCells(hops, cf', df', 1, lag(1) + 1)[lag(1) + k]
        <5>1. lag(1) + k \in Nat /\ lag(1) + 1 - (lag(1) + k) + 1 = 1 - k + 1
          BY <2>1, <2>2, <2>5, <3>1
        <5>2. sent[k] = FwdCells(hops, cf', df', 1, 1)[k]
          BY <1>4 DEF Line
        <5> QED BY <5>1, <5>2 DEF FwdCells
      <4> QED BY <1>4, <3>1, <3>3, <4>1
    <3>5. Line(dn[1] \o sent, n + 1, FwdCells(hops, cf', df', 1, lag(1) + 1))
      <4>1. Line(dn[1], Len(dn[1]), FwdCells(hops, cf', df', 1, lag(1) + 1)) /\ dn[1] \in Seq(Cells)
        BY <2>1, <2>3, <2>5, <3>3
      <4> QED BY <1>4, <3>3, <3>4, <4>1, LineMore
    <3>6. dn'[1] = dn[1] \o sent
      BY <1>2, <1>6, <2>5
    <3>7. n + 1 \in Nat /\ n + 1 <= lag(1)' /\ n + 1 = lag(1)' - lag(1 - 1)' /\ lag(1)' = lag(1) + 1
      <4>1. lag(1) \in Int /\ 1 - 1 = 0
        BY <2>1, <2>5
      <4> QED BY <1>2, <1>7, <3>1, <4>1
    <3> QED BY <1>1, <2>5, <3>5, <3>6, <3>7 DEF DnLine
  <2> QED BY <2>4, <2>5
<1>13. LinesSound'
  <2>1. ASSUME NEW j \in 1..hops
        PROVE  UpLine(j)'
    <3>1. j \in Hops /\ UpLine(j) /\ lead(j)' = lead(j) /\ lead(j - 1)' = lead(j - 1)
      BY <1>7, Hop DEF LinesSound
    <3> QED BY <1>1, <1>8, <3>1, UpLineKept DEF Rests
  <2> QED BY <1>1, <1>12, <2>1 DEF LinesSound, DnLine
<1>14. EndsSound'
  <2>1. ASSUME NEW j \in Hops
        PROVE  /\ Dead(j) => Dead(j)'
               /\ ~Dead(j)' => Quiet(up[j], up'[j]) \/ up'[j] = <<>>
               /\ Sends(j)' => Sends(j) /\ (Quiet(dn[j], dn'[j]) \/ dn'[j] = <<>>)
               /\ j \in broken' => dn'[j] = <<>> /\ up'[j] = <<>>
    <3>1. Quiet(up[j], up'[j]) /\ Quiet(dn[j], dn'[j])
      BY <1>1, <1>4, <1>6 DEF Quiet
    <3>2. j \in broken' => dn'[j] = <<>> /\ up'[j] = <<>>
      BY <1>1, <1>6 DEF EndsSound
    <3> QED BY <1>8, <3>1, <3>2
  <2> QED BY <2>1, EndsKept
<1>15. RelaysSound'
  <2>1. \A i \in Hops : ~(i > hops) /\ ~(i > hops + 1)
    BY <1>2 DEF Hops
  <2> QED BY <1>1, <2>1 DEF RelaysSound, Past
<1>16. ClientSound'
  BY <1>1, <1>2 DEF ClientSound, Past
<1>17. LastSound'
  BY <1>1, <1>2, <1>3 DEF LastSound
<1>18. CreateSound' /\ CreatedSound'
  BY <1>1, <1>2 DEF CreateSound, CreatedSound
<1> QED BY <1>9, <1>10, <1>13, <1>14, <1>15, <1>16, <1>17, <1>18

LEMMA LineNone == ASSUME NEW q, NEW f, NEW g, Line(q, 0, f) PROVE Line(q, 0, g)
BY DEF Line

\* When the client has the keys of the next hop, nothing is under way.
LEMMA NothingUnderWay ==
    ASSUME CircuitInv, cont = "resolve"
    PROVE  /\ hops < N /\ result = "building" /\ handler \in {"idle", "closed"}
           /\ hops >= 1 => /\ ext[hops] /\ ~dial[hops] /\ role[hops] # "extending"
           /\ \A j \in 1..(hops + 1) :
                /\ lag(j) = 0 /\ lead(j) = 0
                /\ ~Dead(j) => \A f : Line(dn[j], 0, f)
                /\ Receives(j) => \A f : Line(up[j], 0, f)
<1> USE DEF CircuitInv
<1>1. /\ hops < N /\ result = "building" /\ handler \in {"idle", "closed"}
      /\ Past(hops + 1) /\ (hops >= 1 => cb[hops] = Frags)
      /\ hops \in Nat /\ N \in Nat /\ hops + 1 \in Hops /\ Frags \in Nat \ {0}
  BY Types DEF ClientSound, TypeOK
<1>2. ASSUME hops >= 1
      PROVE  /\ ext[hops] /\ ~dial[hops] /\ role[hops] # "extending"
             /\ lag(hops) = 0 /\ lead(hops) = 0
  <2>1. hops \in Hops /\ hops \in 1..hops /\ hops # 0
    BY <1>1, <1>2 DEF Hops
  <2>2. cf[hops] \in Nat /\ rf[hops] \in Nat /\ cb[hops] \in Nat /\ rb[hops] \in Nat
    BY <2>1, Types
  <2>3. 0 <= lead(hops) /\ lead(hops) = rb[hops] - cb[hops] /\ lag(hops) = cf[hops] - rf[hops]
    BY <2>1, Hop DEF LagsGrow, lead, lag
  <2>4. rb[hops] \in {0, Frags} /\ cf[hops] = Frags
    BY <1>1, <1>2 DEF LastSound
  <2>5. rb[hops] = Frags /\ rb[hops] # 0
    BY <1>1, <1>2, <2>2, <2>3, <2>4
  <2>6. ext[hops] /\ ~dial[hops] /\ role[hops] # "extending" /\ rf[hops] = Frags
    BY <1>1, <1>2, <2>1, <2>5 DEF LastSound
  <2> QED BY <1>1, <1>2, <2>2, <2>3, <2>4, <2>5, <2>6
<1>3. ASSUME NEW j \in 1..hops
      PROVE  /\ lag(j) = 0 /\ lead(j) = 0
             /\ ~Dead(j) => \A f : Line(dn[j], 0, f)
             /\ Receives(j) => \A f : Line(up[j], 0, f)
  <2>1. hops >= 1 /\ hops \in 1..hops /\ j \in 0..hops /\ j - 1 \in 0..hops /\ j \in Hops
    BY <1>1, Hop
  <2>2. lag(j) = 0 /\ lead(j) = 0 /\ lag(j - 1) = 0 /\ lead(j - 1) = 0
    <3>1. lag(j) \in Int /\ lead(j) \in Int /\ lag(j - 1) \in Int /\ lead(j - 1) \in Int
      BY <2>1, LagTypes
    <3>2. /\ 0 <= lag(j) /\ lag(j) <= lag(hops) /\ 0 <= lead(j) /\ lead(j) <= lead(hops)
          /\ 0 <= lag(j - 1) /\ lag(j - 1) <= lag(hops) /\ 0 <= lead(j - 1) /\ lead(j - 1) <= lead(hops)
      BY <2>1 DEF LagsGrow
    <3> QED BY <1>2, <2>1, <3>1, <3>2
  <2>3. ASSUME ~Dead(j), NEW f
        PROVE  Line(dn[j], 0, f)
    <3>1. PICK n \in Nat : n <= lag(j) /\ Line(dn[j], n, FwdCells(hops, cf, df, j, lag(j)))
      BY <2>3 DEF LinesSound, DnLine
    <3>2. n = 0
      BY <2>2, <3>1
    <3> QED BY <3>1, <3>2, LineNone
  <2>4. ASSUME Receives(j), NEW f
        PROVE  Line(up[j], 0, f)
    <3>1. PICK n \in Nat : /\ j \notin broken => n = lead(j) - lead(j - 1)
                           /\ Line(up[j], n, BwdCells(hops, cb, db, j, lead(j - 1)))
      BY <2>4 DEF LinesSound, UpLine
    <3>2. n = 0
      <4>1. CASE j \notin broken
        BY <2>2, <3>1, <4>1
      <4>2. CASE j \in broken
        <5>1. up[j] = <<>>
          BY <2>1, <4>2 DEF EndsSound
        <5>2. n \in 0..Len(up[j])
          BY <3>1 DEF Line
        <5> QED BY <5>1, <5>2
      <4> QED BY <4>1, <4>2
    <3> QED BY <3>1, <3>2, LineNone
  <2> QED BY <2>2, <2>3, <2>4
<1>4. LET x == hops + 1
      IN  /\ lag(x) = 0 /\ lead(x) = 0
          /\ ~Dead(x) => \A f : Line(dn[x], 0, f)
          /\ Receives(x) => \A f : Line(up[x], 0, f)
  <2> DEFINE x == hops + 1
  <2>1. lag(x) = 0 /\ lead(x) = 0
    <3>1. cf[x] = 0 /\ rf[x] = 0 /\ cb[x] = 0 /\ rb[x] = 0
      BY <1>1 DEF RelaysSound
    <3> QED BY <3>1 DEF lag, lead
  <2>2. ASSUME ~Dead(x), NEW f
        PROVE  Line(dn[x], 0, f)
    <3>1. role[x] = "established"
      <4>1. role[x] \in Live \cup {"none", "destroyed"} /\ role[x] # "extending"
        BY <1>1, Types DEF RelaysSound
      <4> QED BY <1>1, <2>2, <4>1 DEF Past, Dead, Live
    <3>2. Line(dn[x], 0, AllCells("CREATE"))
      BY <1>1, <2>2, <3>1 DEF CreateSound
    <3> QED BY <3>2, LineNone
  <2>3. ASSUME Receives(x), NEW f
        PROVE  Line(up[x], 0, f)
    <3>1. ~Waiting
      BY <1>1, <1>2 DEF Waiting
    <3>2. Line(up[x], 0, AllCells("CREATED"))
      BY <1>1, <2>3, <3>1 DEF CreatedSound
    <3> QED BY <3>2, LineNone
  <2> QED BY <2>1, <2>2, <2>3
<1>5. \A j \in 1..(hops + 1) : j \in 1..hops \/ j = hops + 1
  BY <1>1
<1> QED BY <1>1, <1>2, <1>3, <1>4, <1>5

LEMMA ResolvedKeeps == ASSUME CircuitInv, resumeResolved PROVE CircuitInv'
<1> USE DEF CircuitInv
<1> DEFINE x == hops + 1
           more == IF x = N THEN 0 ELSE Frags
<1>1. /\ cont = "resolve" /\ cont' = "none" /\ hops' = x /\ frag' = 0
      /\ UNCHANGED <<cb, db, told>> /\ UNCHANGED <<up, broken, stale, dropped>>
      /\ UNCHANGED <<role, inFrag, outFrag, dial, ext, rf, rb, gf, gb, served, replied>>
  BY DEF resumeResolved, relays
<1>2. /\ hops < N /\ result = "building" /\ handler \in {"idle", "closed"}
      /\ hops >= 1 => /\ ext[hops] /\ ~dial[hops] /\ role[hops] # "extending"
      /\ \A j \in 1..x : /\ lag(j) = 0 /\ lead(j) = 0
                         /\ ~Dead(j) => \A f : Line(dn[j], 0, f)
                         /\ Receives(j) => \A f : Line(up[j], 0, f)
  BY <1>1, NothingUnderWay
<1>3. /\ hops \in Nat /\ N \in Nat /\ x \in Hops /\ x \in Nat /\ x <= N /\ Frags \in Nat \ {0} /\ 1 \in Hops
      /\ 1 \in 1..x /\ x \in 1..x /\ \A j \in 1..x : j \in Hops /\ j # 0 /\ j <= x
  <2>1. hops \in Nat /\ N \in Nat /\ Frags \in Nat \ {0}
    BY Types
  <2> QED BY <1>2, <2>1 DEF Hops
<1>4. Past(x) /\ x \notin stale
  BY <1>1 DEF ClientSound
<1>5. /\ cf[x] = 0 /\ cb[x] = 0 /\ df[x] = 0 /\ db[x] = 0
      /\ rf[x] = 0 /\ rb[x] = 0 /\ gf[x] = 0 /\ gb[x] = 0
      /\ ~dial[x] /\ ~ext[x] /\ outFrag[x] = 0 /\ role[x] # "extending"
  BY <1>3 DEF RelaysSound
<1>6. /\ x = N => result' = "built" /\ UNCHANGED <<handler, cf, df, dn>>
      /\ x # N => /\ df' = [df EXCEPT ![x] = @ + Frags] /\ cf' = Advance(cf, x, Frags)
                  /\ handler = "idle" => /\ handler' = "extend" /\ UNCHANGED result
                                         /\ SendDn(1, Outbound(x, "EXTEND", Frags))
                  /\ handler # "idle" => /\ result' = "failed" /\ UNCHANGED handler
                                         /\ SendDn(1, <<DESTROY>>)
  BY <1>1 DEF resumeResolved, DESTROY
<1> HIDE DEF x
<1>7. /\ cf' \in [Hops -> Nat] /\ df' \in [Hops -> Nat]
      /\ \A i \in 1..x : cf'[i] = cf[i] + more /\ cf[i] \in Nat /\ rf[i] \in Nat
      /\ df'[x] = more
      /\ \A i \in Hops : i > x => cf'[i] = cf[i] /\ df'[i] = df[i]
  <2>1. cf \in [Hops -> Nat] /\ df \in [Hops -> Nat] /\ rf \in [Hops -> Nat]
    BY Types
  <2>2. \A i \in Hops : i > x => ~(i <= x) /\ i # x
    BY <1>3 DEF Hops
  <2>3. CASE x = N
    BY <1>3, <1>5, <1>6, <2>1, <2>3
  <2>4. CASE x # N
    BY <1>3, <1>5, <1>6, <2>1, <2>2, <2>4 DEF Advance
  <2> QED BY <2>3, <2>4
<1>8. /\ lag(0)' = 0 /\ lead(0)' = 0
      /\ \A j \in 1..x : lag(j)' = more /\ lead(j)' = 0
  <2>1. \A j \in 1..x : cf[j] - rf[j] = 0 /\ rb[j] - cb[j] = 0
    BY <1>2, <1>3 DEF lag, lead
  <2>2. \A j \in 1..x : (cf[j] + more) - rf[j] = more
    <3>1. more \in Nat
      BY <1>3
    <3> QED BY <1>7, <2>1, <3>1
  <2> QED BY <1>1, <1>3, <1>7, <2>1, <2>2 DEF lag, lead
<1>9. /\ dn' \in [Hops -> Seq(Cells)]
      /\ \A j \in Hops : j # 1 \/ j \in broken => dn'[j] = dn[j]
      /\ x = N => dn' = dn
      /\ x # N /\ handler # "idle" => dn'[1] = dn[1] \/ dn'[1] = dn[1] \o <<DESTROY>>
      /\ x # N /\ handler = "idle" /\ 1 \notin broken =>
           /\ dn'[1] = dn[1] \o Outbound(x, "EXTEND", Frags)
           /\ Outbound(x, "EXTEND", Frags) \in Seq(Cells)
           /\ Len(Outbound(x, "EXTEND", Frags)) = Frags /\ NoDestroy(Outbound(x, "EXTEND", Frags))
           /\ Line(Outbound(x, "EXTEND", Frags), Frags, FwdCells(x, cf', df', 1, Frags))
  <2>1. CASE x = N
    BY <1>6, <2>1 DEF LinksTyped
  <2>2. CASE x # N /\ handler # "idle"
    <3>1. <<DESTROY>> \in Seq(Cells)
      BY Bare DEF DESTROY, Commands
    <3>2. /\ dn' \in [Hops -> Seq(Cells)]
          /\ \A j \in Hops : dn'[j] = IF j = 1 /\ j \notin broken THEN dn[j] \o <<DESTROY>> ELSE dn[j]
      BY <1>3, <1>6, <2>2, <3>1, SentDn
    <3> QED BY <1>3, <2>2, <3>2
  <2>3. CASE x # N /\ handler = "idle"
    <3>1. FwdKind(x) = "EXTEND" /\ Frags \in Nat
      BY <1>3, <2>3 DEF FwdKind
    <3>2. /\ Outbound(x, "EXTEND", Frags) \in Seq(Cells)
          /\ Len(Outbound(x, "EXTEND", Frags)) = Frags /\ NoDestroy(Outbound(x, "EXTEND", Frags))
          /\ Line(Outbound(x, "EXTEND", Frags), Frags, FwdCells(x, cf', df', 1, Frags))
      BY <1>3, <1>6, <2>3, <3>1, FwdSent
    <3>3. /\ dn' \in [Hops -> Seq(Cells)]
          /\ \A j \in Hops : dn'[j] = IF j = 1 /\ j \notin broken
                                      THEN dn[j] \o Outbound(x, "EXTEND", Frags) ELSE dn[j]
      BY <1>3, <1>6, <2>3, <3>2, SentDn
    <3> QED BY <1>3, <2>3, <3>2, <3>3
  <2> QED BY <2>1, <2>2, <2>3
<1>10. \A j \in Hops : Dead(j)' = Dead(j) /\ (Sends(j)' => Sends(j)) /\ (Receives(j)' => Receives(j))
  <2>1. (handler' # "closed" => handler # "closed") /\ result # "failed"
    BY <1>2, <1>6
  <2> QED BY <1>1, <2>1 DEF Dead, Sends, Receives
<1>11. handler' \in {"idle", "extend", "closed"} /\ result' \in {"building", "built", "failed"}
  BY <1>2, <1>6
<1>12. TypeOK' /\ LinksTyped' /\ ~dropped'
  <2>1. hops' \in 0..N /\ frag' \in 0..Frags - 1
    BY <1>1, <1>3
  <2>2. TypeOK'
    BY <1>1, <1>7, <1>11, <2>1 DEF TypeOK
  <2> QED BY <1>1, <1>9, <2>2 DEF LinksTyped
<1>13. LagsGrow'
  <2>1. ASSUME NEW k \in 1..x, NEW i \in 0..k
        PROVE  0 <= lag(i)' /\ lag(i)' <= lag(k)' /\ 0 <= lead(i)' /\ lead(i)' <= lead(k)'
    <3>1. (i = 0 \/ i \in 1..x) /\ more \in Nat
      BY <1>3
    <3> HIDE DEF more
    <3> QED BY <1>8, <3>1
  <2> QED BY <1>1, <2>1 DEF LagsGrow
<1>14. ASSUME NEW j \in 1..x, ~Dead(j)'
       PROVE  DnLine(j)'
  <2>1. ~Dead(j) /\ j \in Hops /\ dn[j] \in Seq(Cells) /\ 0 <= lag(j)'
    <3>1. 0 <= more
      BY <1>3
    <3> QED BY <1>3, <1>8, <1>10, <1>14, <3>1, Wires
  <2>2. \A f : Line(dn[j], 0, f)
    BY <1>2, <2>1
  <2>3. CASE j # 1
    <3>1. 0 = lag(j)' - lag(j - 1)' /\ dn'[j] = dn[j]
      <4>1. j - 1 \in 1..x /\ more \in Nat
        BY <1>3, <2>3
      <4> QED BY <1>8, <1>9, <2>1, <2>3, <4>1
    <3> QED BY <1>1, <2>1, <2>2, <3>1 DEF DnLine
  <2>4. CASE j = 1 /\ dn'[1] = dn[1] /\ (1 \in broken \/ x = N)
    <3>1. x = N => 0 = lag(1)' - lag(1 - 1)'
      BY <1>8, <2>4
    <3> QED BY <1>1, <2>1, <2>2, <2>4, <3>1 DEF DnLine
  <2>5. CASE j = 1 /\ x # N /\ handler # "idle"
    <3>1. result' = "failed"
      BY <1>6, <2>5
    <3>2. \A f : Line(dn'[1], 0, f)
      BY <1>9, <2>1, <2>2, <2>5, LineEnds
    <3> QED BY <1>1, <2>1, <2>5, <3>1, <3>2 DEF DnLine
  <2>6. CASE j = 1 /\ x # N /\ handler = "idle" /\ 1 \notin broken
    <3> DEFINE sent == Outbound(x, "EXTEND", Frags) f == FwdCells(x, cf', df', 1, Frags)
    <3>1. dn'[1] = dn[1] \o sent /\ sent \in Seq(Cells) /\ Len(sent) = Frags /\ Line(sent, Frags, f)
      BY <1>9, <2>6
    <3> HIDE DEF sent
    <3>2. 0 = Len(dn[1])
      <4>1. NoDestroy(dn[1])
        BY <1>2, <1>3 DEF EndsSound, Sends
      <4> QED BY <2>1, <2>2, <2>6, <4>1, LineWhole
    <3>3. \A k \in 1..Len(sent) : sent[k] = f[Len(dn[1]) + k]
      BY <1>3, <3>1, <3>2 DEF Line
    <3>4. Line(dn'[1], 0 + Frags, f)
      <4>1. Line(dn[1], Len(dn[1]), f) /\ dn[1] \in Seq(Cells)
        BY <2>1, <2>2, <2>6, <3>2
      <4> HIDE DEF f
      <4>2. Line(dn[1] \o sent, Len(dn[1]) + Len(sent), f)
        BY <3>1, <3>3, <4>1, LineMore
      <4> QED BY <3>1, <3>2, <4>2
    <3>5. more = Frags /\ lag(1)' = Frags /\ Frags = lag(1)' - lag(1 - 1)' /\ 0 + Frags = Frags
      BY <1>3, <1>8, <2>6
    <3>6. hops' = x /\ Frags \in Nat /\ Frags <= lag(1)'
      BY <1>1, <1>3, <3>5
    <3> QED BY <2>6, <3>4, <3>5, <3>6 DEF DnLine
  <2> QED BY <1>3, <1>9, <2>3, <2>4, <2>5, <2>6
<1>15. ASSUME NEW j \in 1..x, Receives(j)'
       PROVE  UpLine(j)'
  <2>1. \A f : Line(up'[j], 0, f)
    BY <1>1, <1>2, <1>3, <1>10, <1>15
  <2>2. 0 = lead(j)' - lead(j - 1)'
    <3>1. j - 1 = 0 \/ j - 1 \in 1..x
      BY <1>3
    <3> QED BY <1>8, <3>1
  <2> QED BY <2>1, <2>2 DEF UpLine
<1>16. LinesSound'
  BY <1>1, <1>14, <1>15 DEF LinesSound, DnLine, UpLine
<1>17. EndsSound'
  <2>1. ASSUME NEW j \in Hops
        PROVE  /\ Dead(j) => Dead(j)'
               /\ ~Dead(j)' => Quiet(up[j], up'[j]) \/ up'[j] = <<>>
               /\ Sends(j)' => Sends(j) /\ (Quiet(dn[j], dn'[j]) \/ dn'[j] = <<>>)
               /\ j \in broken' => dn'[j] = <<>> /\ up'[j] = <<>>
    <3>1. Quiet(up[j], up'[j])
      BY <1>1 DEF Quiet
    <3>2. Sends(j)' => Quiet(dn[j], dn'[j])
      <4>1. CASE j # 1 \/ j \in broken \/ x = N
        BY <1>9, <4>1 DEF Quiet
      <4>2. CASE j = 1 /\ x # N /\ handler # "idle"
        BY <1>6, <4>2 DEF Sends
      <4>3. CASE j = 1 /\ x # N /\ handler = "idle" /\ 1 \notin broken
        BY <1>9, <4>3 DEF Quiet
      <4> QED BY <4>1, <4>2, <4>3
    <3>3. j \in broken' => dn'[j] = <<>> /\ up'[j] = <<>>
      BY <1>1, <1>9 DEF EndsSound
    <3> QED BY <1>10, <3>1, <3>2, <3>3
  <2> QED BY <2>1, EndsKept
<1>18. RelaysSound'
  <2>1. ASSUME NEW i \in Hops
        PROVE  /\ i <= x => Past(i)' /\ i \notin stale'
               /\ i < x => ext'[i] /\ ~dial'[i]
               /\ i > x => /\ cf'[i] = 0 /\ cb'[i] = 0 /\ df'[i] = 0 /\ db'[i] = 0
                           /\ rf'[i] = 0 /\ rb'[i] = 0 /\ gf'[i] = 0 /\ gb'[i] = 0
                           /\ ~dial'[i] /\ ~ext'[i] /\ outFrag'[i] = 0 /\ role'[i] # "extending"
               /\ i > x + 1 => role'[i] = "none" /\ inFrag'[i] = 0 /\ dn'[i] = <<>> /\ up'[i] = <<>>
               /\ served'[i] # 0 => i = N /\ i = x
    <3>1. i \in Nat /\ (i <= x <=> i <= hops \/ i = x) /\ (i < x <=> i < hops \/ (i = hops /\ hops >= 1))
          /\ (i > x => i > hops) /\ (i > x + 1 => i > hops + 1 /\ i # 1) /\ ~(i = N /\ i = hops)
      BY <1>2, <1>3 DEF Hops, x
    <3>2. i <= x => Past(i)' /\ i \notin stale'
      BY <1>1, <1>4, <3>1 DEF RelaysSound, Past
    <3>3. i < x => ext'[i] /\ ~dial'[i]
      BY <1>1, <1>2, <3>1 DEF RelaysSound
    <3>4. i > x => /\ cf'[i] = 0 /\ cb'[i] = 0 /\ df'[i] = 0 /\ db'[i] = 0
                   /\ rf'[i] = 0 /\ rb'[i] = 0 /\ gf'[i] = 0 /\ gb'[i] = 0
                   /\ ~dial'[i] /\ ~ext'[i] /\ outFrag'[i] = 0 /\ role'[i] # "extending"
      BY <1>1, <1>7, <3>1 DEF RelaysSound
    <3>5. i > x + 1 => role'[i] = "none" /\ inFrag'[i] = 0 /\ dn'[i] = <<>> /\ up'[i] = <<>>
      BY <1>1, <1>9, <3>1 DEF RelaysSound
    <3>6. served'[i] = 0
      BY <1>1, <3>1 DEF RelaysSound
    <3> QED BY <3>2, <3>3, <3>4, <3>5, <3>6
  <2> QED BY <1>1, <2>1 DEF RelaysSound
<1>19. ClientSound'
  <2>1. x # N => x \in 1..(N - 1)
    BY <1>3
  <2> QED BY <1>1, <1>2, <1>3, <1>5, <1>6, <2>1 DEF ClientSound
<1>20. x < N => x + 1 \in Hops /\ x + 1 > hops + 1
  BY <1>3 DEF Hops, x
<1>21. x < N => /\ dn'[x + 1] = <<>> /\ up'[x + 1] = <<>> /\ role'[x + 1] = "none" /\ inFrag'[x + 1] = 0
  <2>1. x < N => x + 1 # 1
    BY <1>3
  <2> QED BY <1>1, <1>9, <1>20, <2>1 DEF RelaysSound
<1>22. ~Dead(x) => inFrag[x] = 0
  <2>1. role[x] \in Live \cup {"none", "destroyed"}
    BY <1>3, Types
  <2>2. ~Dead(x) => role[x] = "established"
    BY <1>4, <1>5, <2>1 DEF Past, Dead, Live
  <2> QED BY <1>2, <2>2 DEF CreateSound, x
<1>23. LastSound'
  <2>1. x >= 1 /\ (x < N => x # N /\ more = Frags) /\ cf'[x] = more
    <3>1. more \in Nat
      BY <1>3
    <3> QED BY <1>3, <1>5, <1>7
  <2>2. /\ cf'[x] = df'[x] /\ cb'[x] = db'[x] /\ rf'[x] = gf'[x] /\ rb'[x] = gb'[x]
        /\ ~dial'[x] /\ ~ext'[x] /\ role'[x] # "extending" /\ rf'[x] = 0 /\ rb'[x] = 0 /\ outFrag'[x] = 0
    BY <1>1, <1>5, <1>7, <2>1
  <2>3. role'[x] # "destroyed" => inFrag'[x] = 0
    BY <1>1, <1>22 DEF Dead
  <2> HIDE DEF more
  <2>4. x < N => /\ cf'[x] = Frags /\ rb'[x] \in {0, Frags}
                 /\ role'[x] # "destroyed" /\ rf'[x] < Frags => inFrag'[x] = rf'[x]
    BY <2>1, <2>2, <2>3
  <2>5. x = N => ~dial'[x] /\ ~ext'[x] /\ role'[x] # "extending"
    BY <2>2
  <2> QED BY <1>1, <1>21, <2>2, <2>4, <2>5 DEF LastSound, Dead
<1>24. CreateSound'
  <2>1. x < N => Line(dn'[x + 1], 0, AllCells("CREATE"))
    BY <1>21, LineEmpty
  <2> QED BY <1>1, <1>21, <2>1 DEF CreateSound
<1>25. CreatedSound'
  <2>1. x < N => Line(up'[x + 1], 0, AllCells("CREATED"))
    BY <1>21, LineEmpty
  <2>2. ~Waiting'
    <3>1. x # 0 /\ role'[x] # "extending"
      BY <1>1, <1>3, <1>5
    <3> QED BY <1>1, <3>1 DEF Waiting
  <2> QED BY <1>1, <2>1, <2>2 DEF CreatedSound
<1> QED BY <1>12, <1>13, <1>16, <1>17, <1>18, <1>19, <1>23, <1>24, <1>25

-----------------------------------------------------------------------------
(* The steps of the relays: teardown, and cells that are ignored           *)

\* A relay is where its place tells.
LEMMA Places ==
    ASSUME CircuitInv, NEW i \in Hops
    PROVE  /\ i \in Nat /\ i \in 1..N /\ hops \in Nat /\ N \in Nat /\ hops <= N
           /\ i <= hops => Past(i) /\ i \in 1..hops /\ hops >= 1
           /\ ~Past(i) => i >= hops + 1
           /\ role[i] # "none" => i <= hops + 1
           /\ dn[i] # <<>> \/ up[i] # <<>> => i <= hops + 1
           /\ ~Dead(i) /\ Past(i) => role[i] \in {"established", "extending"}
           /\ role[i] = "extending" => i <= hops
           /\ i + 1 # 1 /\ i + 1 # i
<1>1. i \in Nat /\ i \in 1..N /\ hops \in Nat /\ N \in Nat /\ hops <= N
  BY PathAssumption, Types DEF Hops, CircuitInv
<1>2. role[i] \in Live \cup {"none", "destroyed"}
  BY Types DEF CircuitInv
<1>3. i <= hops \/ i = hops + 1 \/ i > hops + 1
  BY <1>1
<1>4. i <= hops => Past(i)
  BY DEF RelaysSound, CircuitInv
<1>5. i > hops + 1 => role[i] = "none" /\ dn[i] = <<>> /\ up[i] = <<>>
  BY DEF RelaysSound, CircuitInv
<1>6. role[i] = "extending" => i <= hops
  BY <1>1 DEF RelaysSound, CircuitInv
<1>7. ~Dead(i) /\ Past(i) => role[i] \in {"established", "extending"}
  BY <1>2 DEF Dead, Past, Live
<1> QED BY <1>1, <1>3, <1>4, <1>5, <1>6, <1>7

\* What is next on a link is the next cell, or nothing changes.
Taken(q, r) == r = q \/ (q # <<>> /\ r = Tail(q))

\* Relay i gives the circuit up, and may tell both sides.
LEMMA RelayDies ==
    ASSUME CircuitInv, NEW i \in Hops, role[i] \in Live,
           role' = [role EXCEPT ![i] = "destroyed"],
           UNCHANGED client,
           UNCHANGED <<inFrag, outFrag, ext, rf, rb, gf, gb, served, replied, broken, stale, dropped>>,
           dial' = dial \/ dial' = [dial EXCEPT ![i] = FALSE],
           LinksTyped',
           Taken(dn[i], dn'[i]), Rests(up[i], up'[i]),
           \A j \in Hops : j # i /\ j # i + 1 => dn'[j] = dn[j] /\ up'[j] = up[j],
           i + 1 \in Hops => /\ dn'[i + 1] = dn[i + 1] \/ (ext[i] /\ Rests(dn[i + 1], dn'[i + 1]))
                             /\ Taken(up[i + 1], up'[i + 1]),
           \A j \in broken : dn'[j] = <<>> /\ up'[j] = <<>>
    PROVE  CircuitInv'
<1> USE DEF CircuitInv
<1>1. /\ UNCHANGED <<handler, cont, result, hops, cf, cb, df, db, frag, told>>
      /\ role \in [Hops -> Live \cup {"none", "destroyed"}] /\ dial \in [Hops -> BOOLEAN]
  BY Types DEF client
<1>2. /\ Dead(i)' /\ role'[i] = "destroyed" /\ i <= hops + 1
      /\ \A j \in Hops : /\ j # i => role'[j] = role[j] /\ Dead(j)' = Dead(j)
                         /\ Dead(j) => Dead(j)'
                         /\ Past(j) => Past(j)'
                         /\ dial'[j] => dial[j]
                         /\ role'[j] = "extending" => role[j] = "extending"
                         /\ role'[j] = "established" => role[j] = "established"
                         /\ role'[j] # "destroyed" => role'[j] = role[j] /\ j # i
  <2>1. role[i] # "none"
    BY DEF Live
  <2>2. i <= hops + 1
    BY <2>1, Places
  <2> QED BY <1>1, <2>2 DEF Dead, Past
<1>3. i \in Nat /\ hops \in Nat /\ N \in Nat /\ hops <= N /\ i + 1 # 1 /\ i + 1 # i
  BY Places
<1>4. TypeOK' /\ ~dropped'
  <2>1. role' \in [Hops -> Live \cup {"none", "destroyed"}] /\ dial' \in [Hops -> BOOLEAN]
    BY <1>1
  <2> QED BY <1>1, <2>1, SMTT(30) DEF TypeOK
<1>5. i + 1 \in Hops => ~Receives(i + 1)' /\ ~Sends(i + 1)'
  <2>1. (i + 1) - 1 = i
    BY <1>3
  <2> QED BY <1>2, <1>3, <2>1 DEF Receives, Sends
<1>6. LinesSound' /\ LagsGrow'
  <2>1. ASSUME NEW j \in 1..hops
        PROVE  /\ ~Dead(j)' => Rests(dn[j], dn'[j])
               /\ Receives(j)' => Rests(up[j], up'[j])
    <3>1. j \in Hops
      BY Hop
    <3> QED BY <1>2, <1>5, <3>1 DEF Rests
  <2> QED BY <1>1, <1>2, <2>1, LinesKept
<1>7. EndsSound'
  <2>1. ASSUME NEW j \in Hops
        PROVE  /\ Dead(j) => Dead(j)'
               /\ ~Dead(j)' => Quiet(up[j], up'[j]) \/ up'[j] = <<>>
               /\ Sends(j)' => Sends(j) /\ (Quiet(dn[j], dn'[j]) \/ dn'[j] = <<>>)
               /\ j \in broken' => dn'[j] = <<>> /\ up'[j] = <<>>
    <3>1. ~Dead(j)' => Quiet(up[j], up'[j])
      BY <1>2 DEF Quiet, Taken
    <3>2. Sends(j)' => Quiet(dn[j], dn'[j])
      BY <1>5 DEF Quiet, Taken
    <3>3. Sends(j)' => Sends(j)
      <4>1. j = 1 \/ j - 1 \in Hops
        BY PathAssumption DEF Hops
      <4> QED BY <1>1, <1>2, <4>1 DEF Sends
    <3> QED BY <1>2, <3>1, <3>2, <3>3
  <2> QED BY <2>1, EndsKept
<1>8. RelaysSound'
  <2>1. ASSUME NEW j \in Hops, j > hops + 1
        PROVE  role'[j] = "none" /\ dn'[j] = <<>> /\ up'[j] = <<>>
    <3>1. role[j] = "none" /\ dn[j] = <<>> /\ up[j] = <<>> /\ j # i
      BY <1>2, <1>3, <2>1 DEF RelaysSound, Hops
    <3>2. CASE j = i + 1
      <4>1. ~ext[i]
        BY <1>3, <2>1, <3>2 DEF RelaysSound
      <4> QED BY <1>2, <3>1, <3>2, <4>1 DEF Taken
    <3> QED BY <1>2, <3>1, <3>2
  <2>2. ASSUME NEW j \in Hops
        PROVE  /\ j <= hops => Past(j)' /\ j \notin stale
               /\ j < hops => ext[j] /\ ~dial'[j]
               /\ j > hops => ~dial'[j] /\ role'[j] # "extending"
    BY <1>2 DEF RelaysSound
  <2> QED BY <1>1, <2>1, <2>2 DEF RelaysSound
<1>9. hops < N => hops + 1 \in Hops /\ hops + 1 > 0 /\ (hops >= 1 => hops \in Hops)
  BY <1>3 DEF Hops
<1>10. ClientSound'
  <2>1. hops < N /\ Past(hops + 1) => Past(hops + 1)'
    BY <1>1, <1>2, <1>9 DEF Past
  <2> QED BY <1>1, <2>1 DEF ClientSound
<1>11. LastSound'
  <2> SUFFICES ASSUME hops >= 1
               PROVE  LastSound'
    BY <1>1 DEF LastSound
  <2>1. hops \in Hops
    BY <1>3 DEF Hops
  <2>2. ASSUME hops < N, ~ext[hops]
        PROVE  dn'[hops + 1] = <<>> /\ up'[hops + 1] = <<>> /\ role'[hops + 1] = "none"
    <3>1. dn[hops + 1] = <<>> /\ up[hops + 1] = <<>> /\ role[hops + 1] = "none"
      BY <2>2 DEF LastSound
    <3>2. hops + 1 # i /\ hops + 1 \in Hops
      BY <1>9, <2>2, <3>1 DEF Live
    <3>3. CASE hops = i
      BY <1>2, <2>2, <3>1, <3>2, <3>3 DEF Taken
    <3>4. CASE hops # i
      <4>1. hops + 1 # i + 1
        BY <1>3, <3>4
      <4> QED BY <1>2, <3>1, <3>2, <4>1
    <3> QED BY <3>3, <3>4
  <2>3. /\ dial'[hops] => dial[hops]
        /\ role'[hops] = "extending" => role[hops] = "extending"
        /\ role'[hops] = "established" => role[hops] = "established"
        /\ role'[hops] # "destroyed" => ~Dead(hops)
    BY <1>2, <2>1 DEF Dead
  <2>4. hops = N => ~dial'[hops] /\ ~ext[hops] /\ role'[hops] # "extending"
    BY <2>3 DEF LastSound
  <2>5. hops < N /\ Past(hops + 1) => Past(hops + 1)'
    BY <1>1, <1>2, <1>9 DEF Past
  <2>6. hops < N =>
             /\ cf[hops] = Frags
             /\ dial'[hops] \/ ext[hops] => rf[hops] = Frags
             /\ ~(dial'[hops] /\ ext[hops])
             /\ role'[hops] # "destroyed" /\ rf[hops] < Frags => inFrag[hops] = rf[hops]
             /\ rb[hops] \in {0, Frags}
             /\ rb[hops] # 0 => ext[hops] /\ Past(hops + 1)' /\ role'[hops] # "extending"
             /\ role'[hops] = "extending" => ext[hops]
             /\ role'[hops] = "established" /\ ext[hops] => rb[hops] # 0
             /\ ~ext[hops] => inFrag[hops + 1] = 0 /\ outFrag[hops] = 0
    BY <2>3, <2>5 DEF LastSound
  <2>7. cf[hops] = df[hops] /\ cb[hops] = db[hops] /\ rf[hops] = gf[hops] /\ rb[hops] = gb[hops]
    BY DEF LastSound
  <2> QED BY <1>1, <2>2, <2>4, <2>6, <2>7 DEF LastSound, Dead, Past
<1>12. CreateSound'
  <2>1. ASSUME hops < N, ~Dead(hops + 1)'
        PROVE  /\ role'[hops + 1] = role[hops + 1] /\ inFrag'[hops + 1] = inFrag[hops + 1]
               /\ Rests(dn[hops + 1], dn'[hops + 1]) \/ dn'[hops + 1] = <<>>
    <3>1. role'[hops + 1] # "destroyed"
      BY <1>1, <2>1 DEF Dead
    <3>2. hops + 1 # i /\ role'[hops + 1] = role[hops + 1]
      BY <1>2, <1>9, <2>1, <3>1
    <3> QED BY <1>1, <1>9, <2>1, <3>2 DEF Rests
  <2> QED BY <1>1, <2>1, CreateKept
<1>13. CreatedSound'
  <2>1. ASSUME hops < N, Receives(hops + 1)'
        PROVE  /\ Receives(hops + 1) /\ (Waiting' <=> Waiting) /\ Collected' = Collected
               /\ Past(hops + 1) => Past(hops + 1)'
               /\ Rests(up[hops + 1], up'[hops + 1]) \/ up'[hops + 1] = <<>>
    <3>1. hops # i
      BY <1>1, <1>2, <1>3, <2>1 DEF Receives, Dead
    <3>2. hops >= 1 => role'[hops] = role[hops]
      BY <1>2, <1>9, <2>1, <3>1
    <3>3. Receives(hops + 1) /\ (Waiting' <=> Waiting) /\ Collected' = Collected
      BY <1>1, <1>3, <2>1, <3>2 DEF Receives, Dead, Waiting, Collected
    <3>4. Past(hops + 1) => Past(hops + 1)'
      BY <1>1, <1>2, <1>9, <2>1 DEF Past
    <3>5. hops + 1 # i + 1
      BY <1>3, <3>1
    <3>6. Rests(up[hops + 1], up'[hops + 1])
      BY <1>9, <2>1, <3>5 DEF Rests
    <3> QED BY <3>3, <3>4, <3>6
  <2> QED BY <1>1, <2>1, CreatedKept
<1> QED BY <1>4, <1>6, <1>7, <1>8, <1>10, <1>11, <1>12, <1>13

\* A cell that comes to a relay that has given the circuit up, or a dial that
\* ends there, changes nothing; nor does a DESTROY before the CREATE.
LEMMA IgnoredKeeps ==
    ASSUME CircuitInv, NEW i \in Hops, UNCHANGED client,
           UNCHANGED <<role, inFrag, outFrag, ext, rf, rb, gf, gb, served, replied,
                       broken, stale, dropped>>,
           dial' = dial \/ dial' = [dial EXCEPT ![i] = FALSE],
           LinksTyped',
           Taken(dn[i], dn'[i]),
           \/ Dead(i) \/ dn'[i] = dn[i]
           \/ i = hops + 1 /\ role[i] = "none" /\ Line(dn'[i], 0, AllCells("CREATE")),
           \A j \in Hops : j # i => dn'[j] = dn[j],
           \A j \in Hops : j # i + 1 => up'[j] = up[j],
           i + 1 \in Hops => Taken(up[i + 1], up'[i + 1]),
           Dead(i) \/ up' = up
    PROVE  CircuitInv'
<1> USE DEF CircuitInv
<1>1. /\ UNCHANGED <<handler, cont, result, hops, cf, cb, df, db, frag, told>>
      /\ dial \in [Hops -> BOOLEAN] /\ i \in Nat /\ hops \in Nat /\ N \in Nat /\ hops <= N
  BY Types, Places DEF client
<1>2. \A j \in Hops : /\ Dead(j)' = Dead(j) /\ Sends(j)' = Sends(j) /\ Receives(j)' = Receives(j)
                      /\ Past(j)' = Past(j) /\ (dial'[j] => dial[j])
  BY <1>1 DEF Dead, Past, Sends, Receives
<1>3. \A j \in Hops : j = i + 1 => /\ Dead(i) => ~Receives(j)
                                   /\ Dead(i) \/ up'[j] = up[j]
  <2>1. i + 1 # 1 /\ (i + 1) - 1 = i
    BY <1>1, Places
  <2> QED BY <2>1 DEF Receives
<1>4. TypeOK' /\ ~dropped'
  <2>1. dial' \in [Hops -> BOOLEAN]
    BY <1>1
  <2> QED BY <1>1, <2>1 DEF TypeOK
<1>5. LinesSound' /\ LagsGrow'
  <2>1. ASSUME NEW j \in 1..hops
        PROVE  /\ ~Dead(j)' => Rests(dn[j], dn'[j])
               /\ Receives(j)' => Rests(up[j], up'[j])
    <3>1. j \in Hops /\ j # hops + 1
      BY <1>1, Hop
    <3>2. ~Dead(j) => dn'[j] = dn[j]
      BY <3>1
    <3>3. Receives(j) => up'[j] = up[j]
      BY <1>3, <3>1
    <3> QED BY <1>2, <3>1, <3>2, <3>3 DEF Rests
  <2> QED BY <1>1, <1>2, <2>1, LinesKept
<1>6. EndsSound'
  <2>1. ASSUME NEW j \in Hops
        PROVE  /\ Dead(j) => Dead(j)'
               /\ ~Dead(j)' => Quiet(up[j], up'[j]) \/ up'[j] = <<>>
               /\ Sends(j)' => Sends(j) /\ (Quiet(dn[j], dn'[j]) \/ dn'[j] = <<>>)
               /\ j \in broken' => dn'[j] = <<>> /\ up'[j] = <<>>
    <3>1. Quiet(up[j], up'[j]) /\ Quiet(dn[j], dn'[j])
      BY DEF Quiet, Taken
    <3>2. j \in broken' => dn'[j] = <<>> /\ up'[j] = <<>>
      BY DEF EndsSound, Taken
    <3> QED BY <1>2, <3>1, <3>2
  <2> QED BY <2>1, EndsKept
<1>7. \A j \in Hops : (dn[j] = <<>> => dn'[j] = <<>>) /\ (up[j] = <<>> => up'[j] = <<>>)
  BY DEF Taken
<1>8. RelaysSound'
  BY <1>1, <1>2, <1>7 DEF RelaysSound
<1>9. ClientSound'
  BY <1>1 DEF ClientSound, Past
<1>10. LastSound'
  <2>1. hops >= 1 /\ dial'[hops] => dial[hops]
    <3>1. hops >= 1 => hops \in Hops
      BY <1>1 DEF Hops
    <3> QED BY <1>2, <3>1
  <2>2. hops < N => /\ dn[hops + 1] = <<>> => dn'[hops + 1] = <<>>
                    /\ up[hops + 1] = <<>> => up'[hops + 1] = <<>>
    <3>1. hops < N => hops + 1 \in Hops
      BY Types
    <3> QED BY <1>7, <3>1
  <2> QED BY <1>1, <2>1, <2>2 DEF LastSound, Past, Dead
<1>11. CreateSound'
  <2>1. CASE Dead(i) \/ dn'[i] = dn[i] \/ i # hops + 1
    <3>1. hops < N /\ ~Dead(hops + 1)' => dn'[hops + 1] = dn[hops + 1]
      <4>1. hops < N => hops + 1 \in Hops
        BY Types
      <4> QED BY <1>1, <2>1, <4>1 DEF Dead
    <3> QED BY <1>1, <3>1, CreateKept DEF Rests
  <2>2. CASE i = hops + 1 /\ role[i] = "none" /\ Line(dn'[i], 0, AllCells("CREATE"))
    BY <1>1, <2>2 DEF CreateSound
  <2> QED BY <2>1, <2>2
<1>12. CreatedSound'
  <2>1. hops < N /\ Receives(hops + 1)' => Receives(hops + 1) /\ up'[hops + 1] = up[hops + 1]
    <3>1. hops < N => hops + 1 \in Hops
      BY Types
    <3>2. Receives(hops + 1)' => Receives(hops + 1)
      BY <1>1 DEF Receives, Dead
    <3> QED BY <1>3, <3>1, <3>2
  <2>2. (Waiting' <=> Waiting) /\ Collected' = Collected /\ (Past(hops + 1) => Past(hops + 1)')
    BY <1>1 DEF Waiting, Collected, Past
  <2> QED BY <1>1, <2>1, <2>2, CreatedKept DEF Rests
<1> QED BY <1>4, <1>5, <1>6, <1>8, <1>9, <1>10, <1>11, <1>12

LEMMA ExtHop == ASSUME CircuitInv, NEW i \in Hops, ext[i]
                PROVE  i <= hops /\ i < N /\ i + 1 \in Hops
<1>1. i \in Nat /\ hops \in Nat /\ N \in Nat /\ hops <= N
  BY Places
<1>2. i <= hops
  BY <1>1 DEF CircuitInv, RelaysSound
<1>3. i # N
  BY <1>1, <1>2 DEF CircuitInv, LastSound, Hops
<1> QED BY <1>1, <1>2, <1>3 DEF Hops

\* Both sides are told.
LEMMA DestroyKeeps ==
    ASSUME CircuitInv, NEW i \in Hops, role[i] \in Live, destroyCircuit(i),
           UNCHANGED <<client, inFrag, outFrag, ext, rf, rb, gf, gb, served, replied,
                       broken, stale, dropped>>,
           dial' = dial \/ dial' = [dial EXCEPT ![i] = FALSE]
    PROVE  CircuitInv'
<1> USE DEF CircuitInv
<1>0. <<DESTROY>> \in Seq(Cells)
  BY Bare DEF DESTROY, Commands
<1>1. /\ role' = [role EXCEPT ![i] = "destroyed"] /\ SendUp(i, <<DESTROY>>)
      /\ IF ext[i] THEN SendDn(i + 1, <<DESTROY>>) ELSE dn' = dn
  BY DEF destroyCircuit, DESTROY
<1>2. /\ up' \in [Hops -> Seq(Cells)]
      /\ \A j \in Hops : up'[j] = IF j = i /\ j \notin broken THEN up[j] \o <<DESTROY>> ELSE up[j]
  BY <1>0, <1>1, SentUp
<1>3. /\ dn' \in [Hops -> Seq(Cells)]
      /\ \A j \in Hops : dn'[j] = IF j = i + 1 /\ j \notin broken /\ ext[i]
                                  THEN dn[j] \o <<DESTROY>> ELSE dn[j]
  <2>1. CASE ext[i]
    <3>1. i + 1 \in Hops
      BY <2>1, ExtHop
    <3> QED BY <1>0, <1>1, <2>1, <3>1, SentDn
  <2>2. CASE ~ext[i]
    BY <1>1, <2>2 DEF LinksTyped
  <2> QED BY <2>1, <2>2
<1>4. LinksTyped' /\ i + 1 # i
  BY <1>2, <1>3, Places DEF LinksTyped
<1>5. Taken(dn[i], dn'[i]) /\ Rests(up[i], up'[i])
  BY <1>2, <1>3, <1>4 DEF Taken, Rests
<1>6. \A j \in Hops : j # i /\ j # i + 1 => dn'[j] = dn[j] /\ up'[j] = up[j]
  BY <1>2, <1>3
<1>7. i + 1 \in Hops => /\ dn'[i + 1] = dn[i + 1] \/ (ext[i] /\ Rests(dn[i + 1], dn'[i + 1]))
                        /\ Taken(up[i + 1], up'[i + 1])
  BY <1>2, <1>3, <1>4 DEF Taken, Rests
<1>8. \A j \in broken : dn'[j] = <<>> /\ up'[j] = <<>>
  <2>1. broken \subseteq Hops
    BY Types
  <2> QED BY <1>2, <1>3, <2>1 DEF EndsSound
<1> QED BY <1>1, <1>4, <1>5, <1>6, <1>7, <1>8, RelayDies

LEMMA CloseAllKeeps == ASSUME CircuitInv, NEW i \in Hops, relayCloseAll(i) PROVE CircuitInv'
BY DestroyKeeps DEF relayCloseAll

LEMMA DialFailedKeeps == ASSUME CircuitInv, NEW i \in Hops, extendDialFailed(i) PROVE CircuitInv'
<1> USE DEF CircuitInv
<1>1. /\ dial[i] /\ dial' = [dial EXCEPT ![i] = FALSE]
      /\ UNCHANGED <<client, inFrag, outFrag, ext, rf, rb, gf, gb, served, replied,
                     broken, stale, dropped>>
      /\ IF role[i] = "destroyed" THEN UNCHANGED <<role, dn, up>> ELSE destroyCircuit(i)
  BY DEF extendDialFailed
<1>2. CASE role[i] = "destroyed"
  BY <1>1, <1>2, IgnoredKeeps DEF Taken, Dead, LinksTyped
<1>3. CASE role[i] # "destroyed"
  <2>1. i <= hops
    BY <1>1, Places DEF RelaysSound
  <2>2. role[i] \in Live
    BY <1>3, <2>1, Places DEF Dead, Live
  <2> QED BY <1>1, <1>3, <2>2, DestroyKeeps
<1> QED BY <1>2, <1>3

\* A DESTROY from the client's side, passed on to the hop that was dialled.
LEMMA DestroyFromPrevKeeps ==
    ASSUME CircuitInv, NEW i \in Hops, onDestroyFromPrev(i) PROVE CircuitInv'
<1> USE DEF CircuitInv
<1>1. /\ dn[i] # <<>> /\ Head(dn[i]).cmd = "DESTROY"
      /\ UNCHANGED <<client, inFrag, outFrag, dial, ext, rf, rb, gf, gb, served,
                     replied, up, broken, stale, dropped>>
      /\ IF role[i] \in Live
         THEN /\ role' = [role EXCEPT ![i] = "destroyed"]
              /\ PassDn(i, IF ext[i] THEN <<DESTROY>> ELSE <<>>)
         ELSE PassDn(i, <<>>) /\ role' = role
  BY DEF onDestroyFromPrev, FromPrev, DESTROY
<1>2. i + 1 # i /\ i <= hops + 1 /\ <<DESTROY>> \in Seq(Cells) /\ <<>> \in Seq(Cells)
  BY <1>1, Places, Bare, Nothing DEF DESTROY, Commands
<1>3. CASE role[i] \in Live
  <2> DEFINE cells == IF ext[i] THEN <<DESTROY>> ELSE <<>>
  <2>1. cells \in Seq(Cells) /\ PassDn(i, cells)
    BY <1>1, <1>2, <1>3
  <2>2. ext[i] => cells = <<DESTROY>>
    OBVIOUS
  <2>3. ~ext[i] => cells = <<>>
    OBVIOUS
  <2> HIDE DEF cells
  <2>4. /\ dn' \in [Hops -> Seq(Cells)] /\ dn'[i] = Tail(dn[i])
        /\ \A j \in Hops \ {i} : dn'[j] = IF j = i + 1 /\ j \notin broken THEN dn[j] \o cells ELSE dn[j]
        /\ cells = <<>> => \A j \in Hops \ {i} : dn'[j] = dn[j]
    BY <1>1, <2>1, PassedDn
  <2>5. LinksTyped'
    BY <1>1, <2>4 DEF LinksTyped
  <2>6. Taken(dn[i], dn'[i]) /\ Rests(up[i], up'[i])
    BY <1>1, <2>4 DEF Taken, Rests
  <2>7. \A j \in Hops : j # i /\ j # i + 1 => dn'[j] = dn[j] /\ up'[j] = up[j]
    BY <1>1, <2>4
  <2>8. i + 1 \in Hops => /\ dn'[i + 1] = dn[i + 1] \/ (ext[i] /\ Rests(dn[i + 1], dn'[i + 1]))
                          /\ Taken(up[i + 1], up'[i + 1])
    BY <1>1, <1>2, <2>2, <2>3, <2>4 DEF Taken, Rests
  <2>9. \A j \in broken : dn'[j] = <<>> /\ up'[j] = <<>>
    <3>1. i \notin broken /\ broken \subseteq Hops
      BY <1>1, Types DEF EndsSound
    <3> QED BY <1>1, <2>4, <3>1 DEF EndsSound
  <2> QED BY <1>1, <1>3, <2>5, <2>6, <2>7, <2>8, <2>9, RelayDies
<1>4. CASE role[i] \notin Live
  <2>1. PassDn(i, <<>>) /\ role' = role
    BY <1>1, <1>4
  <2>2. /\ dn' \in [Hops -> Seq(Cells)] /\ dn'[i] = Tail(dn[i])
        /\ \A j \in Hops \ {i} : dn'[j] = dn[j]
    BY <1>1, <1>2, <2>1, PassedDn
  <2>3. \/ Dead(i)
        \/ i = hops + 1 /\ role[i] = "none" /\ Line(dn'[i], 0, AllCells("CREATE"))
    <3>1. role[i] \in Live \cup {"none", "destroyed"}
      BY Types
    <3>2. ASSUME role[i] = "none"
          PROVE  i = hops + 1 /\ hops < N /\ ~Dead(hops + 1)
      BY <1>2, <3>2, Places DEF Past, Dead
    <3>3. role[i] = "none" => Line(dn'[i], 0, AllCells("CREATE"))
      BY <1>1, <2>2, <3>2, NextCreate
    <3> QED BY <1>4, <3>1, <3>2, <3>3 DEF Dead
  <2>4. LinksTyped' /\ Taken(dn[i], dn'[i])
    BY <1>1, <2>2 DEF LinksTyped, Taken
  <2>5. \A j \in Hops : Taken(up[j], up'[j])
    BY <1>1 DEF Taken
  <2> QED BY <1>1, <2>1, <2>2, <2>3, <2>4, <2>5, IgnoredKeeps
<1> QED BY <1>3, <1>4

\* A relay that has given the circuit up takes whatever comes from the next hop.
LEMMA UpIgnored ==
    ASSUME CircuitInv, NEW i \in Hops, Dead(i), i < N, up[i + 1] # <<>>, PassUp(i, <<>>),
           UNCHANGED <<client, role, inFrag, outFrag, dial, ext, rf, rb, gf, gb, served,
                       replied, dn, broken, stale, dropped>>
    PROVE  CircuitInv'
<1> USE DEF CircuitInv
<1>1. i + 1 \in Hops
  BY Places DEF Hops
<1>2. /\ up' \in [Hops -> Seq(Cells)] /\ up'[i + 1] = Tail(up[i + 1])
      /\ \A j \in Hops \ {i + 1} : up'[j] = up[j]
  BY <1>1, Nothing, PassedUp
<1>3. LinksTyped' /\ Taken(up[i + 1], up'[i + 1])
  BY <1>2 DEF LinksTyped, Taken
<1>4. \A j \in Hops : Taken(dn[j], dn'[j])
  BY DEF Taken
<1> QED BY <1>2, <1>3, <1>4, IgnoredKeeps

\* A DESTROY from the next hop, passed on toward the client.
LEMMA DestroyFromNextKeeps ==
    ASSUME CircuitInv, NEW i \in Hops, onDestroyFromNext(i) PROVE CircuitInv'
<1> USE DEF CircuitInv
<1>1. /\ i < N /\ up[i + 1] # <<>>
      /\ UNCHANGED <<client, inFrag, outFrag, dial, ext, rf, rb, gf, gb, served,
                     replied, dn, broken, stale, dropped>>
      /\ IF role[i] \in Live
         THEN role' = [role EXCEPT ![i] = "destroyed"] /\ PassUp(i, <<DESTROY>>)
         ELSE PassUp(i, <<>>) /\ role' = role
  BY DEF onDestroyFromNext, FromNext, DESTROY
<1>2. i + 1 \in Hops /\ i + 1 # i /\ <<DESTROY>> \in Seq(Cells)
  BY <1>1, Places, Bare DEF Hops, DESTROY, Commands
<1>3. CASE role[i] \in Live
  <2>1. role' = [role EXCEPT ![i] = "destroyed"] /\ PassUp(i, <<DESTROY>>)
    BY <1>1, <1>3
  <2>2. /\ up' \in [Hops -> Seq(Cells)] /\ up'[i + 1] = Tail(up[i + 1])
        /\ \A j \in Hops \ {i + 1} :
             up'[j] = IF j = i /\ j \notin broken THEN up[j] \o <<DESTROY>> ELSE up[j]
    BY <1>1, <1>2, <2>1, PassedUp
  <2>3. LinksTyped' /\ Taken(dn[i], dn'[i]) /\ Rests(up[i], up'[i]) /\ Taken(up[i + 1], up'[i + 1])
    BY <1>1, <1>2, <2>2 DEF LinksTyped, Taken, Rests
  <2>4. \A j \in Hops : j # i /\ j # i + 1 => dn'[j] = dn[j] /\ up'[j] = up[j]
    BY <1>1, <2>2
  <2>5. \A j \in broken : dn'[j] = <<>> /\ up'[j] = <<>>
    <3>1. i + 1 \notin broken /\ broken \subseteq Hops
      BY <1>1, <1>2, Types DEF EndsSound
    <3> QED BY <1>1, <2>2, <3>1 DEF EndsSound
  <2> QED BY <1>1, <1>3, <2>1, <2>3, <2>4, <2>5, RelayDies
<1>4. CASE role[i] \notin Live
  <2>1. Dead(i)
    <3>1. role[i] \in Live \cup {"none", "destroyed"}
      BY Types
    <3>2. role[i] # "none"
      <4>1. i <= hops
        BY <1>1, <1>2, Places
      <4> QED BY <4>1, Places DEF Past
    <3> QED BY <1>4, <3>1, <3>2 DEF Dead
  <2> QED BY <1>1, <1>4, <2>1, UpIgnored
<1> QED BY <1>3, <1>4

-----------------------------------------------------------------------------
(* The steps of the relays and the links: extending the circuit            *)

\* A link is lost with what is in flight.
LEMMA LinkLostKeeps == ASSUME CircuitInv, NEW i \in Hops, linkLost(i) PROVE CircuitInv'
<1> USE DEF CircuitInv
<1>1. /\ UNCHANGED <<handler, cont, result, hops, cf, cb, df, db, frag, told>>
      /\ UNCHANGED <<role, inFrag, outFrag, dial, ext, rf, rb, gf, gb, served, replied>>
      /\ UNCHANGED <<stale, dropped>> /\ broken' = broken \cup {i}
  BY DEF linkLost, client, relays
<1>2. /\ dn' \in [Hops -> Seq(Cells)] /\ up' \in [Hops -> Seq(Cells)]
      /\ \A j \in Hops : /\ j # i => dn'[j] = dn[j] /\ up'[j] = up[j]
                         /\ j = i => dn'[j] = <<>> /\ up'[j] = <<>>
  BY Nothing DEF linkLost, LinksTyped
<1>3. \A j \in Hops : Dead(j)' = Dead(j) /\ Sends(j)' = Sends(j) /\ Receives(j)' = Receives(j)
  BY <1>1 DEF Dead, Sends, Receives
<1>4. TypeOK' /\ LinksTyped' /\ ~dropped'
  BY <1>1, <1>2 DEF TypeOK, LinksTyped
<1>5. LinesSound' /\ LagsGrow'
  <2>1. \A j \in 1..hops : /\ Rests(dn[j], dn'[j]) \/ (j \in broken' /\ dn'[j] = <<>>)
                           /\ Rests(up[j], up'[j]) \/ (j \in broken' /\ up'[j] = <<>>)
    <3>1. \A j \in 1..hops : j \in Hops
      BY Hop
    <3> QED BY <1>1, <1>2, <3>1 DEF Rests
  <2> QED BY <1>1, <1>3, <2>1, LinesKept
<1>6. EndsSound'
  <2>1. ASSUME NEW j \in Hops
        PROVE  /\ Dead(j) => Dead(j)'
               /\ ~Dead(j)' => Quiet(up[j], up'[j]) \/ up'[j] = <<>>
               /\ Sends(j)' => Sends(j) /\ (Quiet(dn[j], dn'[j]) \/ dn'[j] = <<>>)
               /\ j \in broken' => dn'[j] = <<>> /\ up'[j] = <<>>
    <3>1. /\ Quiet(up[j], up'[j]) \/ up'[j] = <<>>
          /\ Quiet(dn[j], dn'[j]) \/ dn'[j] = <<>>
      BY <1>2 DEF Quiet
    <3>2. j \in broken' => dn'[j] = <<>> /\ up'[j] = <<>>
      BY <1>1, <1>2 DEF EndsSound
    <3> QED BY <1>3, <3>1, <3>2
  <2> QED BY <2>1, EndsKept
<1>7. \A j \in Hops : (dn[j] = <<>> => dn'[j] = <<>>) /\ (up[j] = <<>> => up'[j] = <<>>)
  BY <1>2
<1>8. RelaysSound'
  BY <1>1, <1>7 DEF RelaysSound, Past
<1>9. ClientSound'
  BY <1>1 DEF ClientSound, Past
<1>10. hops < N => hops + 1 \in Hops
  BY Types
<1>11. LastSound'
  BY <1>1, <1>7, <1>10 DEF LastSound, Past, Dead
<1>12. CreateSound'
  <2>1. hops < N => Rests(dn[hops + 1], dn'[hops + 1]) \/ dn'[hops + 1] = <<>>
    BY <1>2, <1>10 DEF Rests
  <2> QED BY <1>1, <2>1, CreateKept
<1>13. CreatedSound'
  <2>1. hops < N => Rests(up[hops + 1], up'[hops + 1]) \/ up'[hops + 1] = <<>>
    BY <1>2, <1>10 DEF Rests
  <2>2. /\ Receives(hops + 1)' => Receives(hops + 1)
        /\ (Waiting' <=> Waiting) /\ Collected' = Collected /\ (Past(hops + 1) => Past(hops + 1)')
    BY <1>1 DEF Receives, Dead, Waiting, Collected, Past
  <2> QED BY <1>1, <2>1, <2>2, CreatedKept
<1> QED BY <1>4, <1>5, <1>6, <1>8, <1>9, <1>11, <1>12, <1>13

\* The cells of a CREATE or a CREATED go on an empty link.
LEMMA AllSent ==
    ASSUME NEW cmd \in {"CREATE", "CREATED"}
    PROVE  LET cells == [k \in 1..Frags |-> Cell(cmd)]
           IN  cells \in Seq(Cells) /\ NoDestroy(cells) /\ Line(cells, Frags, AllCells(cmd))
<1> DEFINE cells == [k \in 1..Frags |-> Cell(cmd)]
<1>1. Frags \in Nat
  BY PathAssumption
<1>2. cells \in Seq(Cells) /\ Len(cells) = Frags
  <2>1. cells \in Seq(Cells)
    BY <1>1, Bare DEF Commands
  <2> QED BY <1>1, <2>1
<1>3. \A k \in 1..Frags : cells[k] = Cell(cmd) /\ cells[k].cmd # "DESTROY"
  BY DEF Cell
<1> HIDE DEF cells
<1>4. NoDestroy(cells) /\ Line(cells, Frags, AllCells(cmd))
  BY <1>1, <1>2, <1>3 DEF NoDestroy, Line, AllCells
<1> QED BY <1>2, <1>4 DEF cells

\* The next hop was dialled: a CREATE goes to it.
LEMMA DialedKeeps == ASSUME CircuitInv, NEW i \in Hops, extendDialed(i) PROVE CircuitInv'
<1> USE DEF CircuitInv
<1> DEFINE x == hops + 1
           cells == [k \in 1..Frags |-> Cell("CREATE")]
<1>1. /\ dial[i] /\ i < N /\ dial' = [dial EXCEPT ![i] = FALSE]
      /\ UNCHANGED <<client, inFrag, outFrag, rf, rb, gf, gb, served, replied, up,
                     broken, stale, dropped>>
      /\ IF role[i] = "destroyed" THEN UNCHANGED <<role, ext, dn>>
         ELSE /\ role' = [role EXCEPT ![i] = "extending"]
              /\ ext' = [ext EXCEPT ![i] = TRUE]
              /\ SendDn(i + 1, cells)
  BY DEF extendDialed
<1>2. CASE role[i] = "destroyed"
  <2>1. \A j \in Hops : Taken(up[j], up'[j]) /\ Taken(dn[j], dn'[j])
    BY <1>1, <1>2 DEF Taken
  <2> QED BY <1>1, <1>2, <2>1, IgnoredKeeps DEF Dead, LinksTyped
<1>3. CASE role[i] # "destroyed"
  <2>1. i = hops /\ hops < N /\ hops >= 1 /\ hops \in Hops /\ x \in Hops /\ x # hops /\ x # 1
        /\ hops \in Nat /\ N \in Nat /\ Frags \in Nat \ {0}
    <3>1. hops \in Nat /\ i \in Nat /\ N \in Nat
      BY Places
    <3>2. ~(i < hops) /\ ~(i > hops)
      BY <1>1 DEF RelaysSound
    <3> QED BY <1>1, <3>1, <3>2, Types DEF Hops
  <2>2. /\ ~ext[hops] /\ rf[hops] = Frags /\ rb[hops] = 0
        /\ dn[x] = <<>> /\ up[x] = <<>> /\ role[x] = "none" /\ inFrag[x] = 0 /\ outFrag[hops] = 0
    BY <1>1, <2>1 DEF LastSound
  <2>3. /\ UNCHANGED <<handler, cont, result, hops, cf, cb, df, db, frag, told>>
        /\ UNCHANGED <<inFrag, outFrag, rf, rb, gf, gb, served, replied, up, broken, stale, dropped>>
    BY <1>1 DEF client
  <2>4. cells \in Seq(Cells) /\ NoDestroy(cells) /\ Line(cells, Frags, AllCells("CREATE"))
    BY AllSent
  <2>5. SendDn(x, cells)
    BY <1>1, <1>3, <2>1
  <2> HIDE DEF cells
  <2>6. /\ dn' \in [Hops -> Seq(Cells)]
        /\ \A j \in Hops : dn'[j] = IF j = x /\ j \notin broken THEN dn[j] \o cells ELSE dn[j]
    BY <2>1, <2>4, <2>5, SentDn
  <2>7. /\ role' \in [Hops -> Live \cup {"none", "destroyed"}]
        /\ dial' \in [Hops -> BOOLEAN] /\ ext' \in [Hops -> BOOLEAN]
        /\ role'[hops] = "extending" /\ ext'[hops] /\ ~dial'[hops]
        /\ \A j \in Hops : j # hops => role'[j] = role[j] /\ dial'[j] = dial[j] /\ ext'[j] = ext[j]
    BY <1>1, <1>3, <2>1, Types, ZenonT(30) DEF Live
  <2>8. /\ \A j \in Hops : /\ (role'[j] = "destroyed" <=> role[j] = "destroyed")
                           /\ Past(j) => Past(j)'
        /\ Past(x)' = Past(x)
    BY <1>3, <2>1, <2>3, <2>7 DEF Past
  <2>9. \A j \in Hops : Dead(j)' = Dead(j) /\ Sends(j)' = Sends(j) /\ Receives(j)' = Receives(j)
    <3>1. \A j \in Hops : j = 1 \/ j - 1 \in Hops
      BY PathAssumption DEF Hops
    <3> QED BY <2>3, <2>8, <3>1 DEF Dead, Sends, Receives
  <2>10. TypeOK' /\ LinksTyped' /\ ~dropped'
    BY <2>3, <2>6, <2>7 DEF TypeOK, LinksTyped
  <2>11. LinesSound' /\ LagsGrow'
    <3>1. \A j \in 1..hops : Rests(dn[j], dn'[j]) /\ Rests(up[j], up'[j])
      <4>1. \A j \in 1..hops : j \in Hops /\ j # x
        BY <2>1, Hop
      <4> QED BY <2>3, <2>6, <4>1 DEF Rests
    <3> QED BY <2>3, <2>9, <3>1, LinesKept
  <2>12. EndsSound'
    <3>1. ASSUME NEW j \in Hops
          PROVE  /\ Dead(j) => Dead(j)'
                 /\ ~Dead(j)' => Quiet(up[j], up'[j]) \/ up'[j] = <<>>
                 /\ Sends(j)' => Sends(j) /\ (Quiet(dn[j], dn'[j]) \/ dn'[j] = <<>>)
                 /\ j \in broken' => dn'[j] = <<>> /\ up'[j] = <<>>
      <4>1. Quiet(up[j], up'[j]) /\ Quiet(dn[j], dn'[j])
        BY <2>3, <2>4, <2>6 DEF Quiet
      <4>2. j \in broken' => dn'[j] = <<>> /\ up'[j] = <<>>
        BY <2>3, <2>6 DEF EndsSound
      <4> QED BY <2>9, <4>1, <4>2
    <3> QED BY <3>1, EndsKept
  <2>13. RelaysSound'
    <3>1. ASSUME NEW j \in Hops
          PROVE  /\ j < hops => ext'[j] /\ ~dial'[j]
                 /\ j > hops => role'[j] = role[j] /\ dial'[j] = dial[j] /\ ext'[j] = ext[j]
                 /\ j > x => dn'[j] = dn[j]
      <4>1. j < hops => j # hops
        BY <2>1
      <4>2. j > hops => j # hops
        BY <2>1
      <4>3. j > x => j # x
        BY <2>1
      <4> QED BY <2>6, <2>7, <4>1, <4>2, <4>3 DEF RelaysSound
    <3>2. ASSUME NEW j \in Hops
          PROVE  /\ j <= hops => Past(j)' /\ j \notin stale
                 /\ j > hops => ~dial'[j] /\ ~ext'[j] /\ role'[j] # "extending"
                 /\ j > x => role'[j] = "none" /\ dn'[j] = <<>>
      <4>1. j > x => j > hops
        BY <2>1 DEF Hops
      <4> QED BY <2>8, <3>1, <4>1 DEF RelaysSound
    <3> QED BY <2>3, <3>1, <3>2 DEF RelaysSound
  <2>14. ClientSound'
    BY <2>3, <2>8 DEF ClientSound, Past
  <2>15. LastSound'
    BY <2>1, <2>2, <2>3, <2>7 DEF LastSound
  <2>16. CreateSound'
    <3>1. role'[x] = "none" /\ inFrag'[x] = 0
      BY <2>1, <2>2, <2>3, <2>7
    <3>2. CASE x \notin broken
      <4>1. dn'[x] = cells
        <5>1. <<>> \o cells = cells
          BY <2>4
        <5> QED BY <2>1, <2>2, <2>6, <3>2, <5>1
      <4> QED BY <2>1, <2>3, <2>4, <3>1, <4>1 DEF CreateSound
    <3>3. CASE x \in broken
      <4>1. Line(dn'[x], 0, AllCells("CREATE"))
        BY <2>1, <2>2, <2>6, <3>3, LineEmpty
      <4> QED BY <2>3, <3>1, <4>1 DEF CreateSound
    <3> QED BY <3>2, <3>3
  <2>17. CreatedSound'
    <3>1. Line(up'[x], 0, AllCells("CREATED"))
      BY <2>2, <2>3, LineEmpty
    <3>2. Collected' = 0
      BY <2>1, <2>2, <2>3 DEF Collected
    <3> QED BY <2>3, <3>1, <3>2 DEF CreatedSound
  <2> QED BY <2>10, <2>11, <2>12, <2>13, <2>14, <2>15, <2>16, <2>17
<1> QED BY <1>2, <1>3

\* A CREATE reaches the next hop of the client: with its last cell, what the
\* client's end waits for is sent back.
LEMMA CreateKeeps == ASSUME CircuitInv, NEW i \in Hops, onInboundCreate(i) PROVE CircuitInv'
<1> USE DEF CircuitInv
<1> DEFINE cells == [k \in 1..Frags |-> Cell("CREATED")]
<1>1. /\ dn[i] # <<>> /\ Head(dn[i]).cmd = "CREATE" /\ PassDn(i, <<>>)
      /\ \/ role[i] = "destroyed" /\ UNCHANGED <<role, inFrag, up>>
         \/ /\ role[i] \in {"none", "pending-create"}
            /\ inFrag' = [inFrag EXCEPT ![i] = ingest(@)]
            /\ IF Complete(inFrag[i])
               THEN role' = [role EXCEPT ![i] = "established"] /\ SendUp(i, cells)
               ELSE role' = [role EXCEPT ![i] = "pending-create"] /\ up' = up
      /\ UNCHANGED <<client, outFrag, dial, ext, rf, rb, gf, gb, served, replied,
                     broken, stale, dropped>>
  BY DEF onInboundCreate, FromPrev
<1>2. /\ dn' \in [Hops -> Seq(Cells)] /\ dn'[i] = Tail(dn[i])
      /\ \A j \in Hops \ {i} : dn'[j] = dn[j]
  BY <1>1, Nothing, PassedDn
<1>3. CASE role[i] = "destroyed"
  <2>1. UNCHANGED <<role, inFrag, up>>
    BY <1>1, <1>3
  <2>2. LinksTyped' /\ Taken(dn[i], dn'[i])
    BY <1>1, <1>2, <2>1 DEF LinksTyped, Taken
  <2>3. \A j \in Hops : Taken(up[j], up'[j])
    BY <2>1 DEF Taken
  <2> QED BY <1>1, <1>2, <1>3, <2>1, <2>2, <2>3, IgnoredKeeps DEF Dead
<1>4. CASE role[i] \in {"none", "pending-create"}
  <2>0. i = hops + 1 /\ i \in Nat /\ hops \in Nat /\ N \in Nat /\ hops < N /\ ~Past(i) /\ ~Dead(i)
    <3>1. ~Past(i) /\ ~Dead(i)
      BY <1>4 DEF Past, Dead
    <3> QED BY <1>1, <3>1, Places
  <2>1. PICK n \in Nat : Line(dn'[i], n, AllCells("CREATE")) /\ inFrag[i] + n + 1 = Frags
    BY <1>1, <1>2, <2>0, NextCreate
  <2>2. /\ UNCHANGED <<handler, cont, result, hops, cf, cb, df, db, frag, told>>
        /\ UNCHANGED <<outFrag, dial, ext, rf, rb, gf, gb, served, replied, broken, stale, dropped>>
    BY <1>1 DEF client
  <2>3. /\ Complete(inFrag[i]) => /\ n = 0 /\ inFrag'[i] = 0 /\ role'[i] = "established"
                                  /\ SendUp(i, cells)
        /\ ~Complete(inFrag[i]) => /\ inFrag'[i] + n = Frags /\ role'[i] = "pending-create"
                                   /\ up' = up
        /\ inFrag' \in [Hops -> 0..Frags - 1] /\ role' \in [Hops -> Live \cup {"none", "destroyed"}]
        /\ \A j \in Hops : j # i => role'[j] = role[j] /\ inFrag'[j] = inFrag[j]
    <3>1. /\ role \in [Hops -> Live \cup {"none", "destroyed"}] /\ inFrag \in [Hops -> 0..Frags - 1]
          /\ Frags \in Nat \ {0} /\ inFrag[i] \in 0..Frags - 1 /\ ~(role[i] = "destroyed")
      BY <1>4, Types
    <3>2. ingest(inFrag[i]) \in 0..Frags - 1
      BY <3>1 DEF ingest
    <3>3. inFrag' = [inFrag EXCEPT ![i] = ingest(inFrag[i])]
      BY <1>1, <3>1
    <3>4. inFrag' \in [Hops -> 0..Frags - 1] /\ inFrag'[i] = ingest(inFrag[i])
          /\ \A j \in Hops : j # i => inFrag'[j] = inFrag[j]
      BY <3>1, <3>2, <3>3
    <3>5. CASE Complete(inFrag[i])
      <4>1. role' = [role EXCEPT ![i] = "established"] /\ SendUp(i, cells)
        BY <1>1, <3>1, <3>5
      <4>2. n = 0 /\ inFrag'[i] = 0
        BY <2>1, <3>1, <3>4, <3>5 DEF Complete, ingest
      <4> QED BY <3>1, <3>4, <3>5, <4>1, <4>2 DEF Live
    <3>6. CASE ~Complete(inFrag[i])
      <4>1. role' = [role EXCEPT ![i] = "pending-create"] /\ up' = up
        BY <1>1, <3>1, <3>6
      <4>2. inFrag'[i] + n = Frags
        BY <2>1, <3>1, <3>4, <3>6 DEF Complete, ingest
      <4> QED BY <3>1, <3>4, <3>6, <4>1, <4>2 DEF Live
    <3> QED BY <3>5, <3>6
  <2>4. cells \in Seq(Cells) /\ NoDestroy(cells) /\ Line(cells, Frags, AllCells("CREATED"))
    BY AllSent
  <2> HIDE DEF cells
  <2>5. /\ up' \in [Hops -> Seq(Cells)]
        /\ \A j \in Hops : up'[j] = IF j = i /\ j \notin broken /\ Complete(inFrag[i])
                                    THEN up[j] \o cells ELSE up[j]
    <3>1. CASE Complete(inFrag[i])
      BY <2>3, <2>4, <3>1, SentUp
    <3>2. CASE ~Complete(inFrag[i])
      BY <2>3, <3>2 DEF LinksTyped
    <3> QED BY <3>1, <3>2
  <2>6. \A j \in Hops : /\ (role'[j] = "destroyed" <=> role[j] = "destroyed")
                        /\ (role'[j] = "extending" <=> role[j] = "extending")
                        /\ Past(j) => Past(j)'
    <3>1. role'[i] \notin {"destroyed", "extending"}
      BY <2>3
    <3> QED BY <1>4, <2>3, <3>1 DEF Past
  <2>7. \A j \in Hops : Dead(j)' = Dead(j) /\ Sends(j)' = Sends(j) /\ Receives(j)' = Receives(j)
    <3>1. \A j \in Hops : j = 1 \/ j - 1 \in Hops
      BY PathAssumption DEF Hops
    <3> QED BY <2>2, <2>6, <3>1 DEF Dead, Sends, Receives
  <2>8. TypeOK' /\ LinksTyped' /\ ~dropped'
    BY <1>2, <2>2, <2>3, <2>5 DEF TypeOK, LinksTyped
  <2>9. LinesSound' /\ LagsGrow'
    <3>1. \A j \in 1..hops : Rests(dn[j], dn'[j]) /\ Rests(up[j], up'[j])
      <4>1. \A j \in 1..hops : j \in Hops /\ j # i
        BY <2>0, Hop
      <4> QED BY <1>2, <2>5, <4>1 DEF Rests
    <3> QED BY <2>2, <2>7, <3>1, LinesKept
  <2>10. EndsSound'
    <3>1. ASSUME NEW j \in Hops
          PROVE  /\ Dead(j) => Dead(j)'
                 /\ ~Dead(j)' => Quiet(up[j], up'[j]) \/ up'[j] = <<>>
                 /\ Sends(j)' => Sends(j) /\ (Quiet(dn[j], dn'[j]) \/ dn'[j] = <<>>)
                 /\ j \in broken' => dn'[j] = <<>> /\ up'[j] = <<>>
      <4>1. Quiet(up[j], up'[j]) /\ Quiet(dn[j], dn'[j])
        BY <1>1, <1>2, <2>4, <2>5 DEF Quiet
      <4>2. j \in broken' => dn'[j] = <<>> /\ up'[j] = <<>>
        BY <1>1, <1>2, <2>2, <2>5 DEF EndsSound
      <4> QED BY <2>7, <4>1, <4>2
    <3> QED BY <3>1, EndsKept
  <2>11. RelaysSound'
    <3>1. ASSUME NEW j \in Hops
          PROVE  /\ j <= hops => Past(j)' /\ j \notin stale
                 /\ j > hops => role'[j] # "extending"
                 /\ j > hops + 1 => role'[j] = "none" /\ inFrag'[j] = 0 /\ dn'[j] = <<>> /\ up'[j] = <<>>
      <4>1. j > hops + 1 => j # i
        BY <2>0
      <4> QED BY <1>2, <2>3, <2>5, <2>6, <4>1 DEF RelaysSound
    <3> QED BY <2>2, <3>1 DEF RelaysSound
  <2>12. Past(hops + 1) => Past(hops + 1)'
    BY <2>0
  <2>13. ClientSound'
    BY <2>0, <2>2 DEF ClientSound
  <2>14. hops >= 1 => hops \in Hops /\ hops # i /\ ext[hops] /\ role'[hops] = role[hops]
    <3>1. hops >= 1 => hops \in Hops /\ hops # i
      BY <2>0 DEF Hops
    <3>2. hops >= 1 => ext[hops]
      BY <1>1, <2>0 DEF LastSound
    <3> QED BY <2>3, <3>1, <3>2
  <2>15. LastSound'
    <3>1. hops >= 1 => inFrag'[hops] = inFrag[hops]
      BY <2>3, <2>14
    <3>2. hops >= 1 => rb[hops] = 0
      BY <2>0 DEF LastSound
    <3> QED BY <2>0, <2>2, <2>14, <3>1, <3>2 DEF LastSound, Dead
  <2>16. CreateSound'
    BY <2>0, <2>1, <2>2, <2>3 DEF CreateSound
  <2>17. CreatedSound'
    <3>0. Receives(hops + 1)' <=> Receives(hops + 1)
      <4>1. hops + 1 # 1 => hops >= 1 /\ (hops + 1) - 1 = hops
        BY <2>0
      <4> QED BY <2>2, <2>14, <4>1 DEF Receives, Dead
    <3>1. CASE ~Complete(inFrag[i])
      <4>1. UNCHANGED up
        BY <2>3, <3>1
      <4>2. (Waiting' <=> Waiting) /\ Collected' = Collected
        BY <2>2, <2>14, <2>0 DEF Waiting, Collected
      <4>3. Receives(hops + 1)' => Receives(hops + 1)
        BY <3>0
      <4> QED BY <2>2, <2>12, <4>1, <4>2, <4>3, CreatedKept DEF Rests
    <3>2. CASE Complete(inFrag[i]) /\ ~Receives(i)
      <4>1. ~Receives(hops + 1)'
        BY <2>0, <3>0, <3>2
      <4> QED BY <4>1 DEF CreatedSound
    <3>3. CASE Complete(inFrag[i]) /\ Receives(i)
      <4>1. Waiting /\ (Waiting' <=> Waiting) /\ Collected' = Collected
        <5>1. CASE hops = 0
          <6>1. handler # "closed"
            BY <2>0, <3>3, <5>1 DEF Receives
          <6>2. handler = "create"
            BY <2>0, <5>1, <6>1 DEF ClientSound, TypeOK
          <6> QED BY <2>2, <5>1, <6>2 DEF Waiting, Collected
        <5>2. CASE hops >= 1
          <6>1. ~Dead(hops) /\ Past(hops) /\ hops \in Hops
            <7>1. i # 1 /\ i - 1 = hops
              BY <2>0, <5>2
            <7> QED BY <2>14, <3>3, <5>2, <7>1, Places DEF Receives
          <6>2. role[hops] \in {"established", "extending"}
            BY <6>1, Places
          <6>3. role[hops] = "extending"
            BY <2>0, <2>14, <5>2, <6>2 DEF LastSound
          <6> QED BY <2>0, <2>2, <2>14, <5>2, <6>3 DEF Waiting, Collected
        <5> QED BY <2>0, <5>1, <5>2
      <4>2. Line(up[i], 0, AllCells("CREATED")) /\ Collected = 0
        <5>1. PICK l \in Nat : /\ Line(up[i], l, AllCells("CREATED"))
                               /\ ~(l > 0 \/ Collected > 0)
          BY <2>0, <3>3, <4>1 DEF CreatedSound
        <5>2. Collected \in Nat
          <6>1. frag \in Nat /\ (hops >= 1 => outFrag[hops] \in Nat)
            BY <2>14, Types
          <6> QED BY <2>0, <6>1 DEF Collected
        <5> QED BY <5>1, <5>2
      <4>3. NoDestroy(up[i]) /\ up[i] \in Seq(Cells)
        BY <2>0, Wires DEF EndsSound
      <4>4. 0 = Len(up[i])
        BY <4>2, <4>3, LineWhole
      <4>5. up[i] = <<>> /\ <<>> \o cells = cells
        BY <2>4, <4>3, <4>4
      <4>6. Past(i)' /\ Frags \in Nat
        BY <2>3, <3>3, Types DEF Past
      <4>7. CASE i \notin broken
        <5>1. up'[i] = cells
          BY <2>5, <3>3, <4>5, <4>7
        <5>2. Collected' + Frags = Frags
          BY <4>1, <4>2, <4>6
        <5> QED BY <2>0, <2>2, <2>4, <4>1, <4>6, <5>1, <5>2 DEF CreatedSound
      <4>8. CASE i \in broken
        <5>1. Line(up'[i], 0, AllCells("CREATED"))
          BY <2>5, <4>2, <4>8
        <5> QED BY <2>0, <2>2, <4>1, <4>2, <5>1 DEF CreatedSound
      <4> QED BY <4>7, <4>8
    <3> QED BY <3>1, <3>2, <3>3
  <2> QED BY <2>8, <2>9, <2>10, <2>11, <2>13, <2>15, <2>16, <2>17
<1> QED BY <1>1, <1>3, <1>4

-----------------------------------------------------------------------------
(* The steps of the relays: cells on their way                             *)

\* A relay of the client takes its layer off the cell that is next, and only
\* the last one finds its digest in it.
LEMMA PeelsNext ==
    ASSUME CircuitInv, NEW i \in 1..hops, onInboundRelay(i), ~Dead(i)
    PROVE  /\ rf' = [rf EXCEPT ![i] = @ + 1] /\ ~dropped'
           /\ UNCHANGED <<client, up, broken, stale, role, outFrag, ext, rb, gb, replied>>
           /\ i < hops =>
                /\ PassDn(i, <<FwdCell(hops, cf, df, i + 1, lag(i))>>)
                /\ UNCHANGED <<gf, inFrag, dial, served>>
           /\ i = hops =>
                /\ PassDn(i, <<>>)
                /\ gf' = [gf EXCEPT ![i] = @ + 1]
                /\ hops < N => /\ UNCHANGED served
                               /\ inFrag' = [inFrag EXCEPT ![i] = ingest(@)]
                               /\ dial' = [dial EXCEPT ![i] = @ \/ Complete(inFrag[i])]
                /\ hops = N => /\ UNCHANGED <<inFrag, dial>>
                               /\ served' = [served EXCEPT ![i] = @ + 1]
<1> USE DEF CircuitInv
<1> DEFINE m == Head(dn[i])
           layers == relayPeelForward(i, m)
           match == Matches(m.plain, layers, i, gf[i])
           extend == match /\ m.plain.kind = "EXTEND"
           cells == IF match \/ ~ext[i] THEN <<>> ELSE <<Relay(m.plain, layers)>>
<1>1. /\ dn[i] # <<>> /\ m.cmd = "RELAY"
      /\ UNCHANGED <<client, up, broken, stale>>
  BY DEF onInboundRelay, FromPrev
<1>2. i \in Hops /\ i <= hops /\ hops \in Hops /\ hops <= N /\ hops \in Nat /\ N \in Nat /\ i \in Nat
  BY Hop, Types DEF Hops
<1>3. role[i] \in {"established", "extending"}
  BY <1>2, Places
<1>4. /\ rf' = [rf EXCEPT ![i] = @ + 1]
      /\ gf' = IF match THEN [gf EXCEPT ![i] = @ + 1] ELSE gf
      /\ inFrag' = IF extend THEN [inFrag EXCEPT ![i] = ingest(@)] ELSE inFrag
      /\ dial' = [dial EXCEPT ![i] = @ \/ (extend /\ Complete(inFrag[i]))]
      /\ served' = IF match /\ m.plain.kind = "DATA"
                   THEN [served EXCEPT ![i] = @ + 1] ELSE served
      /\ PassDn(i, cells)
      /\ dropped' = (dropped \/ (~match /\ ~ext[i]))
      /\ UNCHANGED <<role, outFrag, ext, rb, gb, replied>>
  BY <1>3 DEF onInboundRelay
<1>5. m = FwdCell(hops, cf, df, i, lag(i))
  BY <1>1, NextDn
<1>6. /\ cf \in [Hops -> Nat] /\ rf \in [Hops -> Nat] /\ df \in [Hops -> Nat] /\ gf \in [Hops -> Nat]
      /\ dial \in [Hops -> BOOLEAN] /\ dropped = FALSE
  BY Types
<1>7. rf[i] = cf[i] - lag(i)
  <2>1. cf[i] \in Nat /\ rf[i] \in Nat /\ i # 0
    BY <1>2, <1>6
  <2> QED BY <2>1 DEF lag
<1> HIDE DEF m
<1>8. /\ layers = FwdCell(hops, cf, df, i + 1, lag(i)).layers
      /\ Relay(m.plain, layers) = FwdCell(hops, cf, df, i + 1, lag(i))
      /\ layers = {} <=> i = hops
      /\ m.plain.hop = hops /\ m.plain.seq = df[hops] - lag(i) /\ m.plain.kind = FwdKind(hops)
  <2>1. i \in 1..hops /\ layers = applyLayers(m.layers, FwdLayer(i, cf, lag(i)))
    BY <1>7 DEF relayPeelForward, FwdLayer
  <2> DEFINE next == FwdCell(hops, cf, df, i + 1, lag(i))
  <2>2. /\ applyLayers(FwdCell(hops, cf, df, i, lag(i)).layers, FwdLayer(i, cf, lag(i))) = next.layers
        /\ next = Relay(FwdCell(hops, cf, df, i, lag(i)).plain, next.layers)
        /\ next.layers = {} <=> i = hops
    BY <1>2, FwdPeeled, SMTT(30)
  <2>3. /\ FwdCell(hops, cf, df, i, lag(i)).plain.hop = hops
        /\ FwdCell(hops, cf, df, i, lag(i)).plain.seq = df[hops] - lag(i)
        /\ FwdCell(hops, cf, df, i, lag(i)).plain.kind = FwdKind(hops)
    BY DEF FwdCell, Relay, Plain
  <2> HIDE DEF layers, next
  <2>4. layers = next.layers
    BY <1>5, <2>1, <2>2
  <2> QED BY <1>5, <2>2, <2>3, <2>4 DEF next
<1>9. match <=> i = hops
  <2>1. i = hops => gf[i] = df[hops] - lag(i)
    BY <1>2, <1>7 DEF LastSound
  <2> QED BY <1>8, <2>1 DEF Matches
<1> HIDE DEF match, layers
<1>10. CASE i < hops
  <2>1. ~match /\ ext[i]
    BY <1>2, <1>9, <1>10 DEF RelaysSound
  <2>2. dial' = dial /\ cells = <<FwdCell(hops, cf, df, i + 1, lag(i))>> /\ i # hops
    BY <1>2, <1>4, <1>6, <1>8, <1>10, <2>1
  <2> HIDE DEF cells
  <2>3. /\ PassDn(i, <<FwdCell(hops, cf, df, i + 1, lag(i))>>)
        /\ UNCHANGED <<gf, inFrag, dial, served>> /\ ~dropped'
    BY <1>4, <1>6, <2>1, <2>2
  <2> QED BY <1>1, <1>4, <2>2, <2>3
<1>11. CASE i = hops
  <2>1. match /\ cells = <<>>
    BY <1>9, <1>11
  <2> HIDE DEF cells
  <2>2. PassDn(i, <<>>) /\ gf' = [gf EXCEPT ![i] = @ + 1] /\ ~dropped'
    BY <1>4, <1>6, <2>1
  <2>3. hops < N => extend /\ m.plain.kind # "DATA"
    BY <1>8, <2>1 DEF FwdKind
  <2>4. hops = N => ~extend /\ m.plain.kind = "DATA"
    BY <1>2, <1>8 DEF FwdKind
  <2> HIDE DEF extend
  <2>5. hops = N => dial' = dial
    BY <1>2, <1>4, <1>6, <2>4
  <2>6. hops < N => /\ UNCHANGED served
                    /\ inFrag' = [inFrag EXCEPT ![i] = ingest(@)]
                    /\ dial' = [dial EXCEPT ![i] = @ \/ Complete(inFrag[i])]
    <3> SUFFICES ASSUME hops < N
                 PROVE  /\ UNCHANGED served
                        /\ inFrag' = [inFrag EXCEPT ![i] = ingest(@)]
                        /\ dial' = [dial EXCEPT ![i] = @ \/ Complete(inFrag[i])]
      OBVIOUS
    <3>1. (extend /\ Complete(inFrag[i])) = Complete(inFrag[i])
      BY <2>3 DEF Complete
    <3> QED BY <1>4, <2>1, <2>3, <3>1
  <2>7. hops = N => UNCHANGED inFrag /\ served' = [served EXCEPT ![i] = @ + 1]
    BY <1>4, <2>1, <2>4
  <2> HIDE DEF cells
  <2>8. ~(i < hops)
    BY <1>2, <1>11
  <2>9. /\ rf' = [rf EXCEPT ![i] = @ + 1]
        /\ UNCHANGED <<client, up, broken, stale, role, outFrag, ext, rb, gb, replied>>
    BY <1>1, <1>4
  <2> QED BY <2>2, <2>5, <2>6, <2>7, <2>8, <2>9
<1> QED BY <1>2, <1>10, <1>11

LEMMA InboundRelayKeeps == ASSUME CircuitInv, NEW i \in Hops, onInboundRelay(i) PROVE CircuitInv'
<1> USE DEF CircuitInv
<1>1. dn[i] # <<>> /\ Head(dn[i]).cmd = "RELAY"
  BY DEF onInboundRelay, FromPrev
<1>2. CASE Dead(i)
  <2>1. PassDn(i, <<>>) /\ UNCHANGED relays /\ UNCHANGED <<client, up, broken, stale, dropped>>
    BY <1>2 DEF onInboundRelay, Dead
  <2>2. /\ dn' \in [Hops -> Seq(Cells)] /\ dn'[i] = Tail(dn[i])
        /\ \A j \in Hops \ {i} : dn'[j] = dn[j]
    BY <1>1, <2>1, Nothing, PassedDn
  <2>3. LinksTyped' /\ Taken(dn[i], dn'[i])
    BY <1>1, <2>1, <2>2 DEF LinksTyped, Taken
  <2>4. \A j \in Hops : Taken(up[j], up'[j])
    BY <2>1 DEF Taken
  <2> QED BY <1>2, <2>1, <2>2, <2>3, <2>4, IgnoredKeeps DEF relays
<1>3. CASE ~Dead(i)
  <2>1. i \in 1..hops /\ i <= hops /\ i \in Nat /\ hops \in Nat /\ N \in Nat /\ hops <= N /\ hops \in Hops
    <3>1. i <= hops + 1 /\ i \in Nat /\ hops \in Nat /\ i >= 1 /\ i <= N /\ hops <= N /\ N \in Nat
      BY <1>1, Places
    <3>2. i # hops + 1
      <4>1. i = hops + 1 => hops < N
        BY <3>1
      <4> QED BY <1>1, <1>3, <4>1, NextCreate
    <3> QED BY <3>1, <3>2 DEF Hops
  <2>2. /\ rf' = [rf EXCEPT ![i] = @ + 1] /\ ~dropped'
        /\ UNCHANGED <<client, up, broken, stale, role, outFrag, ext, rb, gb, replied>>
        /\ i < hops =>
             /\ PassDn(i, <<FwdCell(hops, cf, df, i + 1, lag(i))>>)
             /\ UNCHANGED <<gf, inFrag, dial, served>>
        /\ i = hops =>
             /\ PassDn(i, <<>>)
             /\ gf' = [gf EXCEPT ![i] = @ + 1]
             /\ hops < N => /\ UNCHANGED served
                            /\ inFrag' = [inFrag EXCEPT ![i] = ingest(@)]
                            /\ dial' = [dial EXCEPT ![i] = @ \/ Complete(inFrag[i])]
             /\ hops = N => /\ UNCHANGED <<inFrag, dial>>
                            /\ served' = [served EXCEPT ![i] = @ + 1]
    BY <1>3, <2>1, PeelsNext
  <2>3. UNCHANGED <<handler, cont, result, hops, cf, cb, df, db, frag, told>>
    BY <2>2 DEF client
  <2>4. PICK n \in Nat :
          /\ n < lag(i)
          /\ i \notin broken /\ (i > 1 \/ result # "failed") => n = lag(i) - lag(i - 1) - 1
          /\ Line(Tail(dn[i]), n, FwdCells(hops, cf, df, i, lag(i) - 1))
    BY <1>1, <1>3, <2>1, NextDn
  <2>5. /\ i \notin broken /\ i + 1 # i /\ Sends(i + 1) /\ NoDestroy(dn[i]) = NoDestroy(dn[i])
        /\ (i + 1) - 1 = i /\ i + 1 # 1
    BY <1>1, <1>3, <2>1 DEF EndsSound, Sends
  <2>6. /\ rf' \in [Hops -> Nat] /\ rf'[i] = rf[i] + 1
        /\ \A j \in Hops : j # i => rf'[j] = rf[j]
        /\ cf[i] \in Nat /\ rf[i] \in Nat
    BY <2>2, Types, SMTT(30)
  <2>7. /\ lag(i)' = lag(i) - 1
        /\ \A j \in 0..hops : j # i => lag(j)' = lag(j)
        /\ \A j : lead(j)' = lead(j)
    <3>1. \A j \in 0..hops : j # 0 => j \in Hops
      BY <2>1 DEF Hops
    <3>2. i # 0
      BY <2>1
    <3> QED BY <2>2, <2>3, <2>6, <3>1, <3>2 DEF lag, lead
  <2>8. /\ dn' \in [Hops -> Seq(Cells)] /\ dn'[i] = Tail(dn[i])
        /\ \A j \in Hops : j # i /\ (j # i + 1 \/ i = hops \/ j \in broken) => dn'[j] = dn[j]
        /\ i < hops /\ i + 1 \notin broken =>
             dn'[i + 1] = dn[i + 1] \o <<FwdCell(hops, cf, df, i + 1, lag(i))>>
        /\ i < hops => /\ <<FwdCell(hops, cf, df, i + 1, lag(i))>> \in Seq(Cells)
                       /\ NoDestroy(<<FwdCell(hops, cf, df, i + 1, lag(i))>>)
    <3>1. CASE i < hops
      <4> DEFINE c == FwdCell(hops, cf, df, i + 1, lag(i))
      <4>1. c \in Cells /\ c.cmd = "RELAY"
        <5>1. lag(i) \in Int /\ \A j \in Hops : cf[j] \in Nat /\ df[j] \in Nat
          BY <2>1, LagTypes, Types
        <5>2. Plain(hops, FwdKind(hops), df[hops] - lag(i)) \in [hop : Hops, kind : Kinds, seq : Int]
          BY <2>1, <5>1 DEF Plain, FwdKind, Kinds
        <5>3. {<<j, "f", cf[j] - lag(i)>> : j \in (i + 1)..hops} \in SUBSET (Hops \X {"f", "b"} \X Int)
          <6>1. \A j \in (i + 1)..hops : j \in Hops
            BY <2>1 DEF Hops
          <6> QED BY <5>1, <6>1
        <5> QED BY <5>2, <5>3, RelayIsCell DEF FwdCell
      <4> HIDE DEF c
      <4>2. <<c>> \in Seq(Cells) /\ Len(<<c>>) = 1 /\ \A k \in 1..1 : <<c>>[k] = c
        BY <4>1
      <4>3. NoDestroy(<<c>>)
        BY <4>1, <4>2 DEF NoDestroy
      <4>4. PassDn(i, <<c>>)
        BY <2>2, <3>1 DEF c
      <4>5. /\ dn' \in [Hops -> Seq(Cells)] /\ dn'[i] = Tail(dn[i])
            /\ \A j \in Hops \ {i} : dn'[j] = IF j = i + 1 /\ j \notin broken THEN dn[j] \o <<c>> ELSE dn[j]
        BY <1>1, <4>2, <4>4, PassedDn
      <4>6. i + 1 \in Hops /\ i # hops
        BY <2>1, <3>1 DEF Hops
      <4> QED BY <2>5, <4>2, <4>3, <4>5, <4>6 DEF c
    <3>2. CASE i = hops
      <4>1. PassDn(i, <<>>) /\ ~(i < hops)
        BY <2>1, <2>2, <3>2
      <4>2. /\ dn' \in [Hops -> Seq(Cells)] /\ dn'[i] = Tail(dn[i])
            /\ \A j \in Hops \ {i} : dn'[j] = dn[j]
        BY <1>1, <4>1, Nothing, PassedDn
      <4> QED BY <4>1, <4>2
    <3> QED BY <2>1, <3>1, <3>2
  <2>9. \A j \in Hops : Dead(j)' = Dead(j) /\ Sends(j)' = Sends(j) /\ Receives(j)' = Receives(j)
                        /\ Past(j)' = Past(j)
    BY <2>2, <2>3 DEF Dead, Sends, Receives, Past
  <2>10. /\ gf' \in [Hops -> Nat] /\ served' \in [Hops -> Nat]
         /\ inFrag' \in [Hops -> 0..Frags - 1] /\ dial' \in [Hops -> BOOLEAN]
         /\ \A j \in Hops : /\ j # hops => /\ gf'[j] = gf[j] /\ inFrag'[j] = inFrag[j]
                                           /\ dial'[j] = dial[j] /\ served'[j] = served[j]
                            /\ served'[j] # served[j] => hops = N
         /\ hops = N => UNCHANGED <<inFrag, dial>>
         /\ hops < N => UNCHANGED served
    <3>1. /\ gf \in [Hops -> Nat] /\ served \in [Hops -> Nat] /\ Frags \in Nat \ {0}
          /\ inFrag \in [Hops -> 0..Frags - 1] /\ dial \in [Hops -> BOOLEAN]
      BY Types
    <3>2. CASE i < hops
      BY <2>2, <3>1, <3>2
    <3>3. CASE i = hops /\ hops = N
      BY <2>1, <2>2, <3>1, <3>3, SMTT(30)
    <3>4. CASE i = hops /\ hops < N
      <4>1. ingest(inFrag[i]) \in 0..Frags - 1
        BY <3>1 DEF ingest
      <4>2. (dial[i] \/ Complete(inFrag[i])) \in BOOLEAN
        BY DEF Complete
      <4>3. /\ gf' \in [Hops -> Nat] /\ \A j \in Hops : j # hops => gf'[j] = gf[j]
            /\ served' = served
        BY <2>1, <2>2, <3>1, <3>4
      <4>4. /\ inFrag' \in [Hops -> 0..Frags - 1]
            /\ \A j \in Hops : j # hops => inFrag'[j] = inFrag[j]
        BY <2>1, <2>2, <3>1, <3>4, <4>1
      <4>5. /\ dial' \in [Hops -> BOOLEAN]
            /\ \A j \in Hops : j # hops => dial'[j] = dial[j]
        BY <2>1, <2>2, <3>1, <3>4, <4>2
      <4> QED BY <2>1, <3>1, <3>4, <4>3, <4>4, <4>5
    <3> QED BY <2>1, <3>2, <3>3, <3>4
  <2>11. TypeOK' /\ LinksTyped' /\ ~dropped'
    <3>1. dropped' \in BOOLEAN
      BY <2>2, <1>1, <1>3 DEF onInboundRelay, TypeOK
    <3>2. /\ {cf, cb, df, db, rf, rb, gf, gb, served, replied}' \subseteq [Hops -> Nat]
          /\ {inFrag, outFrag}' \subseteq [Hops -> 0..Frags - 1]
          /\ {dial, ext}' \subseteq [Hops -> BOOLEAN]
      <4>1. /\ cf' \in [Hops -> Nat] /\ cb' \in [Hops -> Nat] /\ df' \in [Hops -> Nat]
            /\ db' \in [Hops -> Nat] /\ rb' \in [Hops -> Nat] /\ gb' \in [Hops -> Nat]
            /\ replied' \in [Hops -> Nat] /\ outFrag' \in [Hops -> 0..Frags - 1]
            /\ ext' \in [Hops -> BOOLEAN]
        BY <2>2, <2>3, Types
      <4> QED BY <2>6, <2>10, <4>1
    <3>3. TypeOK'
      BY <2>2, <2>3, <3>1, <3>2 DEF TypeOK
    <3> QED BY <2>2, <2>8, <3>3 DEF LinksTyped
  <2>12. /\ lag(i - 1) \in Int /\ lag(i) \in Int /\ lag(i - 1) <= lag(i) - 1
         /\ \A a \in 0..(i - 1) : lag(a) <= lag(i) - 1
    <3>1. lag(i - 1) \in Int /\ lag(i) \in Int /\ i - 1 \in 0..hops
      BY <2>1, Hop, LagTypes
    <3>2. lag(i - 1) <= lag(i) - 1
      <4>1. CASE i > 1 \/ result # "failed"
        BY <2>4, <2>5, <3>1, <4>1
      <4>2. CASE i = 1
        BY <2>4, <3>1, <4>2 DEF lag
      <4> QED BY <2>1, <4>1, <4>2
    <3>3. ASSUME NEW a \in 0..(i - 1)
          PROVE  lag(a) <= lag(i) - 1
      <4>1. a \in 0..hops /\ lag(a) \in Int
        <5>1. a \in 0..hops
          BY <2>1
        <5> QED BY <5>1, LagTypes
      <4>2. CASE i = 1
        <5>1. a = i - 1
          BY <4>2
        <5> QED BY <3>2, <5>1
      <4>3. CASE i # 1
        <5>1. i - 1 \in 1..hops
          BY <2>1, <4>3
        <5>2. lag(a) <= lag(i - 1)
          BY <5>1 DEF LagsGrow
        <5> QED BY <3>1, <3>2, <4>1, <5>2
      <4> QED BY <4>2, <4>3
    <3> QED BY <3>1, <3>2, <3>3
  <2>13. LagsGrow'
    <3>1. ASSUME NEW k \in 1..hops, NEW a \in 0..k
          PROVE  0 <= lag(a)' /\ lag(a)' <= lag(k)' /\ 0 <= lead(a)' /\ lead(a)' <= lead(k)'
      <4>1. 0 <= lag(a) /\ lag(a) <= lag(k) /\ 0 <= lead(a) /\ lead(a) <= lead(k)
        BY DEF LagsGrow
      <4>2. a \in 0..hops /\ k \in 0..hops
        BY <2>1
      <4>3. lag(a) \in Int /\ lag(k) \in Int
        BY <4>2, LagTypes
      <4>4. CASE a = i /\ k = i
        BY <2>4, <2>7, <2>12, <4>1, <4>4
      <4>5. CASE a = i /\ k # i
        BY <2>4, <2>7, <2>12, <4>1, <4>2, <4>3, <4>5
      <4>6. CASE a # i /\ k = i
        <5>1. a \in 0..(i - 1)
          BY <2>1, <4>6
        <5> QED BY <2>7, <2>12, <4>1, <4>2, <4>6, <5>1
      <4>7. CASE a # i /\ k # i
        BY <2>7, <4>1, <4>2, <4>7
      <4> QED BY <4>4, <4>5, <4>6, <4>7
    <3> QED BY <2>3, <3>1 DEF LagsGrow
  <2>14. DnLine(i)'
    <3>1. n <= lag(i)' /\ 0 <= lag(i)'
      BY <2>4, <2>7, <2>12
    <3>2. i \notin broken /\ (i > 1 \/ result # "failed") => n = lag(i)' - lag(i - 1)'
      <4>1. i - 1 \in 0..hops /\ i - 1 # i
        BY <2>1
      <4> QED BY <2>4, <2>7, <2>12, <4>1
    <3>3. Line(dn'[i], n, FwdCells(hops, cf, df, i, lag(i)'))
      BY <2>4, <2>7, <2>8
    <3> QED BY <2>2, <2>3, <3>1, <3>2, <3>3 DEF DnLine
  <2>15. ASSUME i < hops, ~Dead(i + 1)
         PROVE  DnLine(i + 1)'
    <3> DEFINE x == i + 1 c == FwdCell(hops, cf, df, x, lag(i)) f == FwdCells(hops, cf, df, x, lag(x))
    <3>1. x \in 1..hops /\ x \in Hops /\ x > 1 /\ x # i
      BY <2>1, <2>15 DEF Hops
    <3>2. lag(x) \in Int /\ dn[x] \in Seq(Cells)
      BY <3>1, Hop, LagTypes, Wires
    <3>3. PICK a \in Nat : a <= lag(x) /\ (x \notin broken => a = lag(x) - lag(i)) /\ Line(dn[x], a, f)
      <4>1. x - 1 = i
        BY <2>1
      <4> QED BY <2>15, <3>1, <4>1 DEF LinesSound, DnLine
    <3>4. lag(x)' = lag(x) /\ lag(x - 1)' = lag(i) - 1
      <4>1. x \in 0..hops /\ x - 1 = i
        BY <2>1, <3>1
      <4> QED BY <2>7, <3>1, <4>1
    <3>5. CASE x \in broken
      <4>1. dn'[x] = dn[x] /\ 0 <= lag(x)
        <5>1. x \in 0..x
          BY <3>1
        <5> QED BY <2>8, <3>1, <3>5, <5>1 DEF LagsGrow
      <4> QED BY <2>2, <2>3, <3>3, <3>4, <3>5, <4>1 DEF DnLine
    <3>6. CASE x \notin broken
      <4>1. a = Len(dn[x]) /\ a = lag(x) - lag(i)
        <5>1. NoDestroy(dn[x])
          BY <2>5, <3>1 DEF EndsSound
        <5> QED BY <3>2, <3>3, <3>6, <5>1, LineWhole
      <4>2. f[a + 1] = c
        <5>1. lag(x) - (a + 1) + 1 = lag(i) /\ a + 1 \in Nat
          BY <2>12, <3>2, <4>1
        <5> QED BY <5>1 DEF FwdCells
      <4>3. <<c>> \in Seq(Cells) /\ dn'[x] = dn[x] \o <<c>>
        BY <2>8, <2>15, <3>6
      <4> HIDE DEF f, c
      <4>4. Len(<<c>>) = 1 /\ \A k \in 1..Len(<<c>>) : <<c>>[k] = f[Len(dn[x]) + k]
        <5>1. \A k \in 1..1 : <<c>>[k] = c /\ k = 1
          OBVIOUS
        <5> QED BY <4>1, <4>2, <5>1
      <4>5. Line(dn[x], Len(dn[x]), f)
        BY <3>3, <4>1
      <4>6. Line(dn[x] \o <<c>>, Len(dn[x]) + Len(<<c>>), f)
        BY <3>2, <4>3, <4>4, <4>5, LineMore
      <4>7. Line(dn'[x], a + 1, f)
        BY <4>1, <4>3, <4>4, <4>6
      <4>8. a + 1 \in Nat /\ a + 1 <= lag(x)' /\ a + 1 = lag(x)' - lag(x - 1)'
        BY <2>4, <2>12, <3>2, <3>4, <4>1
      <4> QED BY <2>2, <2>3, <3>4, <4>7, <4>8 DEF DnLine, f
    <3> QED BY <3>5, <3>6
  <2>16. LinesSound'
    <3>1. ASSUME NEW j \in 1..hops
          PROVE  UpLine(j)'
      <4>1. j \in Hops /\ UpLine(j)
        BY Hop DEF LinesSound
      <4> QED BY <2>2, <2>3, <2>7, <2>9, <4>1, UpLineKept DEF Rests
    <3>2. ASSUME NEW j \in 1..hops, j # i, j # i + 1 \/ Dead(j)
          PROVE  DnLine(j)'
      <4>1. j \in Hops /\ j \in Nat /\ j \in 0..hops /\ j - 1 \in 0..hops
        BY Hop
      <4>2. CASE Dead(j)
        BY <2>9, <4>1, <4>2 DEF DnLine
      <4>3. CASE j # i + 1
        <5>1. DnLine(j) /\ lag(j) >= 0
          <6>1. j \in 0..j /\ lag(j) \in Int
            BY <4>1, LagTypes
          <6>2. 0 <= lag(j)
            BY <6>1 DEF LagsGrow
          <6> QED BY <6>1, <6>2 DEF LinesSound
        <5>2. lag(j)' = lag(j) /\ lag(j - 1)' = lag(j - 1)
          <6>1. j - 1 # i
            BY <2>1, <4>1, <4>3
          <6> QED BY <2>7, <3>2, <4>1, <6>1
        <5>3. dn'[j] = dn[j]
          BY <2>8, <3>2, <4>1, <4>3
        <5> QED BY <2>2, <2>3, <2>9, <4>1, <5>1, <5>2, <5>3, DnLineKept DEF Rests
      <4> QED BY <3>2, <4>2, <4>3
    <3>3. ASSUME NEW j \in 1..hops
          PROVE  DnLine(j)'
      <4>1. j = i + 1 => i < hops
        BY <2>1
      <4> QED BY <2>14, <2>15, <3>2, <4>1
    <3> QED BY <2>3, <3>1, <3>3 DEF LinesSound, DnLine, UpLine
  <2>17. EndsSound'
    <3>1. ASSUME NEW j \in Hops
          PROVE  /\ Dead(j) => Dead(j)'
                 /\ ~Dead(j)' => Quiet(up[j], up'[j]) \/ up'[j] = <<>>
                 /\ Sends(j)' => Sends(j) /\ (Quiet(dn[j], dn'[j]) \/ dn'[j] = <<>>)
                 /\ j \in broken' => dn'[j] = <<>> /\ up'[j] = <<>>
      <4>1. Quiet(up[j], up'[j])
        BY <2>2 DEF Quiet
      <4>2. Quiet(dn[j], dn'[j])
        <5>1. CASE j = i
          BY <1>1, <2>8, <5>1 DEF Quiet
        <5>2. CASE j # i /\ (j # i + 1 \/ i = hops \/ j \in broken)
          BY <2>8, <5>2 DEF Quiet
        <5>3. CASE j = i + 1 /\ i < hops /\ j \notin broken
          BY <2>8, <5>3 DEF Quiet
        <5> QED BY <2>1, <5>1, <5>2, <5>3
      <4>3. j \in broken' => dn'[j] = <<>> /\ up'[j] = <<>>
        BY <2>2, <2>5, <2>8 DEF EndsSound
      <4> QED BY <2>9, <4>1, <4>2, <4>3
    <3> QED BY <3>1, EndsKept
  <2>18. RelaysSound'
    <3>1. ASSUME NEW j \in Hops
          PROVE  /\ j <= hops => Past(j)' /\ j \notin stale
                 /\ j < hops => ext[j] /\ ~dial'[j]
                 /\ j > hops => rf'[j] = 0 /\ gf'[j] = 0 /\ ~dial'[j]
                 /\ j > hops + 1 => inFrag'[j] = 0 /\ dn'[j] = <<>>
                 /\ served'[j] # 0 => j = N /\ j = hops
      <4>1. /\ j < hops => j # hops
            /\ j > hops => j # hops /\ j # i
            /\ j > hops + 1 => j # hops /\ j # i /\ (j # i + 1 \/ i = hops) /\ j > hops
        BY <2>1 DEF Hops
      <4> QED BY <2>6, <2>8, <2>9, <2>10, <4>1 DEF RelaysSound
    <3> QED BY <2>2, <2>3, <3>1 DEF RelaysSound
  <2>19. ClientSound'
    BY <2>2, <2>3 DEF ClientSound, Past
  <2>20. hops < N => dn'[hops + 1] = dn[hops + 1] /\ inFrag'[hops + 1] = inFrag[hops + 1]
    <3>1. hops < N => hops + 1 \in Hops /\ hops + 1 # i /\ (hops + 1 # i + 1 \/ i = hops) /\ hops + 1 # hops
      BY <2>1, Types
    <3> QED BY <2>8, <2>10, <3>1
  <2>21. LastSound'
    <3>1. CASE i < hops
      <4>1. UNCHANGED <<gf, inFrag, dial, served>> /\ rf'[hops] = rf[hops]
        BY <2>1, <2>2, <2>6, <3>1
      <4> QED BY <2>2, <2>3, <2>20, <4>1 DEF LastSound, Past, Dead
    <3>2. CASE i = hops
      <4>1. rf'[hops] = rf[hops] + 1 /\ gf'[hops] = gf[hops] + 1
        BY <2>1, <2>2, <2>6, <3>2, Types
      <4>2. rf[hops] < cf[hops] /\ rf[hops] \in Nat
        <5>1. lag(hops) = cf[hops] - rf[hops]
          BY <2>1 DEF lag
        <5> QED BY <2>4, <2>6, <3>2, <5>1
      <4>3. hops < N =>
              /\ cf[hops] = Frags /\ ~dial[hops] /\ ~ext[hops] /\ inFrag[hops] = rf[hops] /\ rb[hops] = 0
              /\ role[hops] # "extending"
        BY <1>3, <2>1, <3>2, <4>2 DEF LastSound
      <4>4. hops < N => /\ dial'[hops] => rf'[hops] = Frags
                        /\ rf'[hops] < Frags => inFrag'[hops] = rf'[hops]
        <5> SUFFICES ASSUME hops < N
                     PROVE  /\ dial'[hops] => rf'[hops] = Frags
                            /\ rf'[hops] < Frags => inFrag'[hops] = rf'[hops]
          OBVIOUS
        <5>1. inFrag'[hops] = ingest(inFrag[hops])
          BY <2>1, <2>2, <3>2, Types
        <5>2. dial'[hops] => dial[hops] \/ Complete(inFrag[hops])
          <6>1. dial' = [dial EXCEPT ![hops] = dial[hops] \/ Complete(inFrag[hops])]
            BY <2>2, <3>2
          <6> HIDE DEF Complete
          <6>2. dial'[hops] = (dial[hops] \/ Complete(inFrag[hops]))
            BY <2>1, <6>1, Types
          <6> QED BY <6>2
        <5> QED BY <4>1, <4>2, <4>3, <5>1, <5>2, Types DEF ingest, Complete
      <4>5. hops = N => dial' = dial
        BY <2>10
      <4> QED BY <2>1, <2>2, <2>3, <2>20, <4>1, <4>3, <4>4, <4>5 DEF LastSound
    <3> QED BY <2>1, <3>1, <3>2
  <2>22. CreateSound'
    BY <2>2, <2>3, <2>20, CreateKept DEF Rests
  <2>23. CreatedSound'
    <3>1. /\ Receives(hops + 1)' => Receives(hops + 1)
          /\ (Waiting' <=> Waiting) /\ Collected' = Collected /\ (Past(hops + 1) => Past(hops + 1)')
      BY <2>2, <2>3 DEF Receives, Dead, Waiting, Collected, Past
    <3> QED BY <2>2, <2>3, <3>1, CreatedKept DEF Rests
  <2> QED BY <2>11, <2>13, <2>16, <2>17, <2>18, <2>19, <2>21, <2>22, <2>23
<1> QED BY <1>2, <1>3

\* A relay of the client puts its layer on the cell that is next.
LEMMA WrapsNext ==
    ASSUME CircuitInv, NEW i \in 1..hops, i < hops, onOutboundRelay(i), ~Dead(i)
    PROVE  /\ PassUp(i, <<BwdCell(hops, cb, db, i, lead(i))>>)
           /\ rb' = [rb EXCEPT ![i] = @ + 1]
<1> USE DEF CircuitInv
<1> DEFINE m == Head(up[i + 1])
           layers == applyLayers(m.layers, {<<i, "b", rb[i]>>})
<1>1. up[i + 1] # <<>> /\ m.cmd = "RELAY"
  BY DEF onOutboundRelay, FromNext
<1>2. i \in Hops /\ hops \in Hops /\ hops \in Nat /\ i \in Nat /\ i + 1 \in 1..hops /\ (i + 1) - 1 = i /\ i + 1 # 1
  BY Hop, Types DEF Hops
<1>3. PassUp(i, <<Relay(m.plain, layers)>>) /\ rb' = [rb EXCEPT ![i] = @ + 1]
  BY DEF onOutboundRelay, Dead
<1>4. m = BwdCell(hops, cb, db, i + 1, lead(i))
  <2>1. Receives(i + 1)
    BY <1>2 DEF Receives
  <2> QED BY <1>1, <1>2, <2>1, NextUp
<1>5. layers = applyLayers(m.layers, BwdLayer(i, cb, lead(i)))
  <2>1. cb[i] \in Nat /\ rb[i] \in Nat /\ i # 0
    BY <1>2, Types
  <2>2. rb[i] = cb[i] + lead(i)
    BY <2>1 DEF lead
  <2> QED BY <2>2 DEF BwdLayer
<1> HIDE DEF m, layers
<1>6. /\ applyLayers(BwdCell(hops, cb, db, i + 1, lead(i)).layers, BwdLayer(i, cb, lead(i)))
           = BwdCell(hops, cb, db, i, lead(i)).layers
      /\ BwdCell(hops, cb, db, i, lead(i)) =
           Relay(BwdCell(hops, cb, db, i + 1, lead(i)).plain, BwdCell(hops, cb, db, i, lead(i)).layers)
  BY <1>2, BwdWrapped
<1>7. Relay(m.plain, layers) = BwdCell(hops, cb, db, i, lead(i))
  BY <1>4, <1>5, <1>6
<1> QED BY <1>3, <1>7

LEMMA OutboundRelayKeeps == ASSUME CircuitInv, NEW i \in Hops, onOutboundRelay(i) PROVE CircuitInv'
<1> USE DEF CircuitInv
<1>1. /\ i < N /\ up[i + 1] # <<>> /\ Head(up[i + 1]).cmd = "RELAY"
      /\ UNCHANGED <<client, role, inFrag, outFrag, dial, ext, rf, gf, gb, served,
                     replied, dn, broken, stale, dropped>>
  BY DEF onOutboundRelay, FromNext
<1>2. CASE Dead(i)
  <2>1. PassUp(i, <<>>) /\ UNCHANGED rb
    BY <1>2 DEF onOutboundRelay, Dead
  <2> QED BY <1>1, <1>2, <2>1, UpIgnored
<1>3. CASE ~Dead(i)
  <2> DEFINE x == i + 1
  <2>0. i \in Nat /\ hops \in Nat /\ N \in Nat /\ hops <= N /\ x \in Hops /\ x # i /\ x # 1 /\ x - 1 = i
        /\ i >= 1 /\ x \in Nat
    <3>1. i \in Nat /\ i >= 1 /\ hops \in Nat /\ N \in Nat /\ hops <= N /\ i + 1 # i /\ i + 1 # 1
      BY Places
    <3> QED BY <1>1, <3>1 DEF Hops
  <2>1. i < hops /\ i \in 1..hops /\ x \in 1..hops /\ Receives(x)
    <3>1. Receives(x)
      BY <1>3, <2>0 DEF Receives
    <3>2. x <= hops + 1
      BY <1>1, <2>0, Places
    <3>3. i # hops
      BY <1>1, <2>0, <3>1, NextCreated
    <3> QED BY <2>0, <3>1, <3>2, <3>3
  <2>2. /\ PassUp(i, <<BwdCell(hops, cb, db, i, lead(i))>>)
        /\ rb' = [rb EXCEPT ![i] = @ + 1]
    BY <1>3, <2>1, WrapsNext
  <2>3. /\ UNCHANGED <<handler, cont, result, hops, cf, cb, df, db, frag, told>>
        /\ UNCHANGED <<role, inFrag, outFrag, dial, ext, rf, gf, gb, served, replied, dn,
                       broken, stale, dropped>>
    BY <1>1 DEF client
  <2>4. x \notin broken
    BY <1>1, <2>0 DEF EndsSound
  <2>5. PICK n \in Nat : /\ n = lead(x) - lead(i) - 1
                         /\ Line(Tail(up[x]), n, BwdCells(hops, cb, db, x, lead(i) + 1))
    BY <1>1, <2>0, <2>1, <2>4, NextUp
  <2>6. /\ rb' \in [Hops -> Nat] /\ rb'[i] = rb[i] + 1 /\ rb[i] \in Nat /\ cb[i] \in Nat
        /\ \A j \in Hops : j # i => rb'[j] = rb[j]
    BY <2>2, Types
  <2>7. /\ lead(i)' = lead(i) + 1
        /\ \A j \in 0..hops : j # i => lead(j)' = lead(j)
        /\ \A j : lag(j)' = lag(j)
    <3>1. \A j \in 0..hops : j # 0 => j \in Hops
      BY <2>0 DEF Hops
    <3>2. i # 0
      BY <2>1
    <3> QED BY <2>3, <2>6, <3>1, <3>2 DEF lag, lead
  <2>8. lead(i) \in Int /\ lead(x) \in Int /\ lead(i) + 1 <= lead(x) /\ lead(i - 1) \in Int
    <3>1. lead(i) \in Int /\ lead(x) \in Int /\ lead(i - 1) \in Int
      BY <2>1, Hop, LagTypes
    <3> QED BY <2>5, <3>1
  <2> DEFINE c == BwdCell(hops, cb, db, i, lead(i))
  <2>9. c \in Cells /\ c.cmd = "RELAY"
    <3>1. \A j \in Hops : cb[j] \in Nat /\ db[j] \in Nat
      BY Types
    <3>2. hops \in Hops
      BY <2>0, <2>1 DEF Hops
    <3>3. Plain(hops, BwdKind(hops), db[hops] + lead(i)) \in [hop : Hops, kind : Kinds, seq : Int]
      BY <2>8, <3>1, <3>2 DEF Plain, BwdKind, Kinds
    <3>4. {<<j, "b", cb[j] + lead(i)>> : j \in i..hops} \in SUBSET (Hops \X {"f", "b"} \X Int)
      <4>1. \A j \in i..hops : j \in Hops
        BY <2>0 DEF Hops
      <4> QED BY <2>8, <3>1, <4>1
    <3> QED BY <3>3, <3>4, RelayIsCell DEF BwdCell
  <2> HIDE DEF c
  <2>10. <<c>> \in Seq(Cells) /\ Len(<<c>>) = 1 /\ NoDestroy(<<c>>) /\ \A k \in 1..1 : <<c>>[k] = c /\ k = 1
    <3>1. <<c>> \in Seq(Cells) /\ Len(<<c>>) = 1 /\ \A k \in 1..1 : <<c>>[k] = c /\ k = 1
      BY <2>9
    <3> QED BY <2>9, <3>1 DEF NoDestroy
  <2>11. /\ up' \in [Hops -> Seq(Cells)] /\ up'[x] = Tail(up[x])
         /\ \A j \in Hops \ {x} : up'[j] = IF j = i /\ j \notin broken THEN up[j] \o <<c>> ELSE up[j]
    <3>1. PassUp(i, <<c>>)
      BY <2>2 DEF c
    <3> QED BY <1>1, <2>0, <2>10, <3>1, PassedUp
  <2>12. \A j \in Hops : Dead(j)' = Dead(j) /\ Sends(j)' = Sends(j) /\ Receives(j)' = Receives(j)
                         /\ Past(j)' = Past(j)
    BY <2>3 DEF Dead, Sends, Receives, Past
  <2>13. TypeOK' /\ LinksTyped' /\ ~dropped'
    <3>1. TypeOK'
      BY <2>3, <2>6 DEF TypeOK
    <3> QED BY <2>3, <2>11, <3>1 DEF LinksTyped
  <2>14. LagsGrow'
    <3>1. ASSUME NEW k \in 1..hops, NEW a \in 0..k
          PROVE  0 <= lag(a)' /\ lag(a)' <= lag(k)' /\ 0 <= lead(a)' /\ lead(a)' <= lead(k)'
      <4>1. 0 <= lag(a) /\ lag(a) <= lag(k) /\ 0 <= lead(a) /\ lead(a) <= lead(k)
        BY DEF LagsGrow
      <4>2. a \in 0..hops /\ k \in 0..hops /\ k \in Nat /\ a \in Nat /\ a <= k
        BY <2>0
      <4>3. lead(a) \in Int /\ lead(k) \in Int
        BY <4>2, LagTypes
      <4>4. CASE k = i
        BY <2>7, <2>8, <4>1, <4>2, <4>3, <4>4
      <4>5. CASE a = i /\ k # i
        <5>1. x \in 0..k
          BY <2>0, <4>2, <4>5
        <5>2. lead(x) <= lead(k)
          BY <5>1 DEF LagsGrow
        <5> QED BY <2>7, <2>8, <4>1, <4>2, <4>3, <4>5, <5>2
      <4>6. CASE a # i /\ k # i
        BY <2>7, <4>1, <4>2, <4>6
      <4> QED BY <4>4, <4>5, <4>6
    <3> QED BY <2>3, <3>1 DEF LagsGrow
  <2>15. UpLine(x)'
    <3>1. lead(x)' = lead(x) /\ lead(x - 1)' = lead(i) + 1
      BY <2>0, <2>1, <2>7
    <3>2. n = lead(x)' - lead(x - 1)'
      BY <2>5, <2>8, <3>1
    <3>3. Line(up'[x], n, BwdCells(hops, cb, db, x, lead(x - 1)'))
      BY <2>5, <2>11, <3>1
    <3> QED BY <2>3, <3>2, <3>3 DEF UpLine
  <2>16. ASSUME Receives(i)
         PROVE  UpLine(i)'
    <3> DEFINE f == BwdCells(hops, cb, db, i, lead(i - 1))
    <3>1. PICK a \in Nat : (i \notin broken => a = lead(i) - lead(i - 1)) /\ Line(up[i], a, f)
      BY <2>1, <2>16 DEF LinesSound, UpLine
    <3>2. up[i] \in Seq(Cells) /\ NoDestroy(up[i])
      BY <1>3, Wires DEF EndsSound
    <3>3. a = Len(up[i])
      BY <3>1, <3>2, LineWhole
    <3>4. lead(i)' = lead(i) + 1 /\ lead(i - 1)' = lead(i - 1)
      <4>1. i - 1 \in 0..hops /\ i - 1 # i
        BY <2>0, <2>1
      <4> QED BY <2>7, <4>1
    <3>5. CASE i \in broken
      <4>1. up'[i] = up[i]
        BY <2>0, <2>11, <3>5
      <4> QED BY <2>3, <3>1, <3>4, <3>5, <4>1 DEF UpLine
    <3>6. CASE i \notin broken
      <4>1. up'[i] = up[i] \o <<c>>
        BY <2>0, <2>11, <3>6
      <4>2. f[a + 1] = c
        <5>1. a + 1 \in Nat /\ lead(i - 1) + (a + 1) - 1 = lead(i)
          BY <2>8, <3>1, <3>6
        <5> QED BY <5>1 DEF BwdCells, c
      <4> HIDE DEF f
      <4>3. \A k \in 1..Len(<<c>>) : <<c>>[k] = f[Len(up[i]) + k]
        BY <2>10, <3>3, <4>2
      <4>4. Line(up[i], Len(up[i]), f)
        BY <3>1, <3>3
      <4>5. Line(up[i] \o <<c>>, Len(up[i]) + Len(<<c>>), f)
        BY <2>10, <3>2, <4>3, <4>4, LineMore
      <4>6. Line(up'[i], a + 1, f)
        BY <2>10, <3>3, <4>1, <4>5
      <4>7. a + 1 \in Nat /\ a + 1 = lead(i)' - lead(i - 1)'
        BY <2>8, <3>1, <3>4, <3>6
      <4> QED BY <2>3, <3>4, <4>6, <4>7 DEF UpLine, f
    <3> QED BY <3>5, <3>6
  <2>17. LinesSound'
    <3>1. ASSUME NEW j \in 1..hops
          PROVE  DnLine(j)'
      <4>1. j \in Hops /\ DnLine(j) /\ lag(j) >= 0
        <5>1. j \in Hops /\ j \in 0..j /\ j \in 0..hops
          BY Hop
        <5>2. 0 <= lag(j) /\ lag(j) \in Int
          BY <5>1, LagTypes DEF LagsGrow
        <5> QED BY <5>1, <5>2 DEF LinesSound
      <4> QED BY <2>3, <2>7, <2>12, <4>1, DnLineKept DEF Rests
    <3>2. ASSUME NEW j \in 1..hops
          PROVE  UpLine(j)'
      <4>1. j \in Hops /\ j \in Nat /\ j \in 0..hops /\ j - 1 \in 0..hops /\ UpLine(j)
        BY Hop DEF LinesSound
      <4>2. CASE j = x
        BY <2>15, <4>2
      <4>3. CASE j = i
        BY <2>12, <2>16, <4>3 DEF UpLine
      <4>4. CASE j # x /\ j # i
        <5>1. lead(j)' = lead(j) /\ lead(j - 1)' = lead(j - 1)
          <6>1. j - 1 # i
            BY <2>0, <4>1, <4>4
          <6> QED BY <2>7, <4>1, <4>4, <6>1
        <5>2. up'[j] = up[j]
          BY <2>11, <4>1, <4>4
        <5> QED BY <2>3, <2>12, <4>1, <5>1, <5>2, UpLineKept DEF Rests
      <4> QED BY <4>2, <4>3, <4>4
    <3> QED BY <2>3, <3>1, <3>2 DEF LinesSound, DnLine, UpLine
  <2>18. EndsSound'
    <3>1. ASSUME NEW j \in Hops
          PROVE  /\ Dead(j) => Dead(j)'
                 /\ ~Dead(j)' => Quiet(up[j], up'[j]) \/ up'[j] = <<>>
                 /\ Sends(j)' => Sends(j) /\ (Quiet(dn[j], dn'[j]) \/ dn'[j] = <<>>)
                 /\ j \in broken' => dn'[j] = <<>> /\ up'[j] = <<>>
      <4>1. Quiet(dn[j], dn'[j])
        BY <2>3 DEF Quiet
      <4>2. Quiet(up[j], up'[j])
        <5>1. CASE j = x
          BY <1>1, <2>11, <5>1 DEF Quiet
        <5>2. CASE j # x
          BY <2>10, <2>11, <5>2 DEF Quiet
        <5> QED BY <5>1, <5>2
      <4>3. j \in broken' => dn'[j] = <<>> /\ up'[j] = <<>>
        BY <2>3, <2>4, <2>11 DEF EndsSound
      <4> QED BY <2>12, <4>1, <4>2, <4>3
    <3> QED BY <3>1, EndsKept
  <2>19. RelaysSound'
    <3>1. ASSUME NEW j \in Hops
          PROVE  /\ j <= hops => Past(j)'
                 /\ j > hops => rb'[j] = 0
                 /\ j > hops + 1 => up'[j] = <<>>
      <4>1. /\ j > hops => j # i
            /\ j > hops + 1 => j # i /\ j # x
        BY <2>0, <2>1 DEF Hops
      <4> QED BY <2>6, <2>11, <2>12, <4>1 DEF RelaysSound
    <3> QED BY <2>3, <3>1 DEF RelaysSound
  <2>20. ClientSound'
    BY <2>3 DEF ClientSound, Past
  <2>21. hops < N => up'[hops + 1] = up[hops + 1]
    <3>1. hops < N => hops + 1 \in Hops /\ hops + 1 # x /\ hops + 1 # i
      BY <2>0, <2>1, Types
    <3> QED BY <2>11, <3>1
  <2>22. LastSound'
    <3>1. rb'[hops] = rb[hops]
      <4>1. hops \in Hops /\ hops # i
        BY <2>0, <2>1 DEF Hops
      <4> QED BY <2>6, <4>1
    <3> QED BY <2>3, <2>21, <3>1 DEF LastSound, Past, Dead
  <2>23. CreateSound'
    BY <2>3, CreateKept DEF Rests
  <2>24. CreatedSound'
    <3>1. /\ Receives(hops + 1)' => Receives(hops + 1)
          /\ (Waiting' <=> Waiting) /\ Collected' = Collected /\ (Past(hops + 1) => Past(hops + 1)')
      BY <2>3 DEF Receives, Dead, Waiting, Collected, Past
    <3> QED BY <2>3, <2>21, <3>1, CreatedKept DEF Rests
  <2> QED BY <2>13, <2>14, <2>17, <2>18, <2>19, <2>20, <2>22, <2>23, <2>24
<1> QED BY <1>2, <1>3

\* What the last hop sends to the client, by its counters.
LEMMA BwdSent ==
    ASSUME TypeOK, NEW h \in Hops, NEW n \in Nat
    PROVE  LET sent == Backward(h, BwdKind(h), n)
           IN  /\ sent \in Seq(Cells) /\ Len(sent) = n /\ NoDestroy(sent)
               /\ \A k \in 1..n : sent[k] = Relay(Plain(h, BwdKind(h), gb[h] + k - 1),
                                                  {<<h, "b", rb[h] + k - 1>>})
<1> DEFINE sent == Backward(h, BwdKind(h), n)
           plain(k) == Plain(h, BwdKind(h), gb[h] + k - 1)
           layers(k) == {<<h, "b", rb[h] + k - 1>>}
<1>1. gb[h] \in Nat /\ rb[h] \in Nat
  BY Types
<1>2. sent = [k \in 1..n |-> Relay(plain(k), layers(k))]
  BY DEF Backward
<1>3. \A k \in 1..n : plain(k) \in [hop : Hops, kind : Kinds, seq : Int]
  BY <1>1 DEF Plain, BwdKind, Kinds
<1>4. \A k \in 1..n : layers(k) \in SUBSET (Hops \X {"f", "b"} \X Int)
  BY <1>1
<1> HIDE DEF sent, plain, layers
<1>5. \A k \in 1..n : Relay(plain(k), layers(k)) \in Cells /\ Relay(plain(k), layers(k)).cmd = "RELAY"
  BY <1>3, <1>4, RelayIsCell
<1>6. sent \in Seq(Cells) /\ Len(sent) = n /\ \A k \in 1..n : sent[k] = Relay(plain(k), layers(k))
  BY <1>2, <1>5
<1>7. NoDestroy(sent)
  BY <1>5, <1>6 DEF NoDestroy
<1> QED BY <1>6, <1>7 DEF sent, plain, layers

\* The last hop sends n cells to the client.
LEMMA LastSends ==
    ASSUME TypeOK, LinksTyped, LinesSound, LagsGrow, EndsSound, LastSound,
           hops >= 1, ~Dead(hops), NEW n \in Nat,
           UNCHANGED <<hops, cf, cb, df, db, rf, result, handler, broken, dn>>,
           \A j \in Hops : Dead(j)' = Dead(j),
           rb' = [rb EXCEPT ![hops] = @ + n],
           \A j \in Hops : j < hops => up'[j] = up[j],
           up'[hops] = IF hops \in broken THEN up[hops]
                       ELSE up[hops] \o Backward(hops, BwdKind(hops), n)
    PROVE  LinesSound' /\ LagsGrow'
<1> DEFINE sent == Backward(hops, BwdKind(hops), n)
<1>1. hops \in Hops /\ hops \in Nat /\ hops \in 1..hops /\ hops - 1 \in 0..hops /\ hops \in 0..hops
      /\ hops # 0 /\ hops - 1 # hops /\ N \in Nat /\ hops <= N
  <2>1. hops \in Nat /\ hops <= N /\ N \in Nat
    BY Types
  <2> QED BY <2>1 DEF Hops
<1>2. /\ rb' \in [Hops -> Nat] /\ rb'[hops] = rb[hops] + n
      /\ \A j \in Hops : j # hops => rb'[j] = rb[j]
      /\ rb[hops] \in Nat /\ cb[hops] \in Nat /\ db[hops] \in Nat /\ gb[hops] \in Nat
      /\ rb[hops] = gb[hops] /\ cb[hops] = db[hops]
  BY <1>1, Types DEF LastSound
<1>3. /\ lead(hops)' = lead(hops) + n
      /\ \A j \in 0..hops : j # hops => lead(j)' = lead(j)
      /\ \A j : lag(j)' = lag(j)
      /\ lead(hops) = rb[hops] - cb[hops] /\ lead(hops) \in Int
  <2>1. \A j \in 0..hops : j # 0 => j \in Hops
    BY <1>1 DEF Hops
  <2> QED BY <1>1, <1>2, <2>1 DEF lag, lead
<1>4. \A j \in Hops : Receives(j)' = Receives(j)
  <2>1. \A j \in Hops : j = 1 \/ j - 1 \in Hops
    BY PathAssumption DEF Hops
  <2> QED BY <2>1 DEF Receives
<1>5. /\ sent \in Seq(Cells) /\ Len(sent) = n
      /\ \A k \in 1..n : sent[k] = Relay(Plain(hops, BwdKind(hops), gb[hops] + k - 1),
                                         {<<hops, "b", rb[hops] + k - 1>>})
  BY <1>1, BwdSent
<1>6. up'[hops] = IF hops \in broken THEN up[hops] ELSE up[hops] \o sent
  OBVIOUS
<1> HIDE DEF sent
<1>7. LagsGrow'
  <2>1. ASSUME NEW k \in 1..hops, NEW a \in 0..k
        PROVE  0 <= lag(a)' /\ lag(a)' <= lag(k)' /\ 0 <= lead(a)' /\ lead(a)' <= lead(k)'
    <3>1. 0 <= lag(a) /\ lag(a) <= lag(k) /\ 0 <= lead(a) /\ lead(a) <= lead(k)
      BY DEF LagsGrow
    <3>2. a \in 0..hops /\ k \in 0..hops /\ (k # hops => a # hops)
      BY <1>1
    <3>3. lead(a) \in Int /\ lead(k) \in Int
      BY <3>2, LagTypes
    <3>4. CASE k = hops
      BY <1>3, <3>1, <3>2, <3>3, <3>4
    <3>5. CASE k # hops
      BY <1>3, <3>1, <3>2, <3>5
    <3> QED BY <3>4, <3>5
  <2> QED BY <2>1 DEF LagsGrow
<1>8. ASSUME Receives(hops)
      PROVE  UpLine(hops)'
  <2> DEFINE f == BwdCells(hops, cb, db, hops, lead(hops - 1))
  <2>1. PICK a \in Nat : (hops \notin broken => a = lead(hops) - lead(hops - 1)) /\ Line(up[hops], a, f)
    BY <1>1, <1>8 DEF LinesSound, UpLine
  <2>2. up[hops] \in Seq(Cells) /\ NoDestroy(up[hops])
    BY <1>1, Wires DEF EndsSound
  <2>3. a = Len(up[hops])
    BY <2>1, <2>2, LineWhole
  <2>4. lead(hops - 1)' = lead(hops - 1) /\ lead(hops - 1) \in Int
    BY <1>1, <1>3, LagTypes
  <2>7. f = BwdCells(hops', cb', db', hops', lead(hops - 1)')
    BY <2>4
  <2>5. CASE hops \in broken
    <3>1. up'[hops] = up[hops]
      BY <1>6, <2>5
    <3> HIDE DEF f
    <3> QED BY <2>1, <2>5, <2>7, <3>1 DEF UpLine
  <2>6. CASE hops \notin broken
    <3>1. up'[hops] = up[hops] \o sent
      BY <1>6, <2>6
    <3>2. \A k \in 1..n : sent[k] = f[a + k]
      <4>1. ASSUME NEW k \in 1..n
            PROVE  sent[k] = f[a + k]
        <5>1. a + k \in Nat /\ lead(hops - 1) + (a + k) - 1 = lead(hops) + k - 1
          BY <1>3, <2>1, <2>4, <2>6
        <5>2. f[a + k] = BwdCell(hops, cb, db, hops, lead(hops) + k - 1)
          BY <5>1 DEF BwdCells
        <5>3. db[hops] + (lead(hops) + k - 1) = gb[hops] + k - 1 /\ cb[hops] + (lead(hops) + k - 1) = rb[hops] + k - 1
          BY <1>2, <1>3
        <5>4. {<<i, "b", cb[i] + (lead(hops) + k - 1)>> : i \in hops..hops} = {<<hops, "b", rb[hops] + k - 1>>}
          <6>1. hops..hops = {hops}
            BY <1>1
          <6> QED BY <5>3, <6>1
        <5> QED BY <1>5, <5>2, <5>3, <5>4 DEF BwdCell
      <4> QED BY <4>1
    <3> HIDE DEF f
    <3>3. \A k \in 1..Len(sent) : sent[k] = f[Len(up[hops]) + k]
      BY <1>5, <2>3, <3>2
    <3>4. Line(up[hops], Len(up[hops]), f)
      BY <2>1, <2>3
    <3>5. Line(up[hops] \o sent, Len(up[hops]) + Len(sent), f)
      BY <1>5, <2>2, <3>3, <3>4, LineMore
    <3>6. Line(up'[hops], a + n, f)
      BY <1>5, <2>3, <3>1, <3>5
    <3>7. a + n \in Nat /\ a + n = lead(hops)' - lead(hops - 1)'
      BY <1>3, <2>1, <2>4, <2>6
    <3> QED BY <2>7, <3>6, <3>7 DEF UpLine
  <2> QED BY <2>5, <2>6
<1>9. ASSUME NEW j \in 1..hops
      PROVE  DnLine(j)' /\ UpLine(j)'
  <2>1. j \in Hops /\ j \in Nat /\ j \in 0..hops /\ j - 1 \in 0..hops /\ j <= hops /\ j \in 0..j
        /\ DnLine(j) /\ UpLine(j)
    BY Hop DEF LinesSound
  <2>2. lag(j) >= 0
    <3>1. 0 <= lag(j) /\ lag(j) \in Int
      BY <2>1, LagTypes DEF LagsGrow
    <3> QED BY <3>1
  <2>3. DnLine(j)'
    BY <1>3, <2>1, <2>2, DnLineKept DEF Rests
  <2>4. CASE j = hops
    <3>1. Receives(hops)' = Receives(hops)
      BY <1>1, <1>4
    <3> QED BY <1>1, <1>4, <1>8, <2>3, <2>4, <3>1 DEF UpLine
  <2>5. CASE j # hops
    <3>1. j < hops /\ j - 1 # hops
      BY <2>1, <2>5, <1>1
    <3>2. lead(j)' = lead(j) /\ lead(j - 1)' = lead(j - 1) /\ up'[j] = up[j]
      BY <1>3, <2>1, <2>5, <3>1
    <3> QED BY <1>4, <2>1, <2>3, <3>2, UpLineKept DEF Rests
  <2> QED BY <2>4, <2>5
<1> QED BY <1>7, <1>9 DEF LinesSound

\* The CREATED of the next hop, collected, goes to the client as EXTENDED cells.
LEMMA CreatedKeeps == ASSUME CircuitInv, NEW i \in Hops, onOutboundCreated(i) PROVE CircuitInv'
<1> USE DEF CircuitInv
<1> DEFINE x == hops + 1
<1>1. /\ i < N /\ up[i + 1] # <<>> /\ Head(up[i + 1]).cmd = "CREATED"
      /\ UNCHANGED <<client, inFrag, dial, ext, rf, gf, served, replied, dn, broken,
                     stale, dropped>>
      /\ IF role[i] # "extending"
         THEN PassUp(i, <<>>) /\ UNCHANGED <<role, outFrag, rb, gb>>
         ELSE /\ outFrag' = [outFrag EXCEPT ![i] = ingest(@)]
              /\ IF Complete(outFrag[i])
                 THEN /\ PassUp(i, Backward(i, "EXTENDED", Frags))
                      /\ role' = [role EXCEPT ![i] = "established"]
                      /\ rb' = [rb EXCEPT ![i] = @ + Frags]
                      /\ gb' = [gb EXCEPT ![i] = @ + Frags]
                 ELSE PassUp(i, <<>>) /\ UNCHANGED <<role, rb, gb>>
  BY DEF onOutboundCreated, FromNext
<1>2. i \in Nat /\ i >= 1 /\ hops \in Nat /\ N \in Nat /\ hops <= N /\ i + 1 \in Hops /\ i + 1 # i /\ i + 1 # 1
      /\ (i + 1) - 1 = i
  <2>1. i \in Nat /\ i >= 1 /\ hops \in Nat /\ N \in Nat /\ hops <= N /\ i + 1 # i /\ i + 1 # 1
    BY Places
  <2> QED BY <1>1, <2>1 DEF Hops
<1>3. CASE Dead(i)
  <2>1. role[i] # "extending"
    BY <1>3 DEF Dead
  <2> QED BY <1>1, <1>3, <2>1, UpIgnored
<1>4. CASE ~Dead(i)
  <2>1. Receives(i + 1)
    BY <1>2, <1>4 DEF Receives
  <2>2. i = hops /\ hops < N
    <3>1. i + 1 <= hops + 1
      BY <1>1, <1>2, Places
    <3>2. ~(i + 1 <= hops)
      <4>1. i + 1 <= hops => i + 1 \in 1..hops
        BY <1>2
      <4> QED BY <1>1, <2>1, <4>1, NextUp
    <3> QED BY <1>1, <1>2, <3>1, <3>2
  <2>3. PICK n \in Nat : Line(Tail(up[x]), n, AllCells("CREATED")) /\ Collected + n + 1 = Frags
    BY <1>1, <2>1, <2>2, NextCreated
  <2>4. Waiting /\ Past(x) /\ hops # 0 /\ hops >= 1 /\ x \in Hops /\ x \in Nat /\ hops \in Hops /\ x # hops /\ x # 1
    BY <1>1, <1>2, <2>1, <2>2, NextCreated
  <2>5. role[hops] = "extending" /\ outFrag[hops] + n + 1 = Frags /\ ext[hops] /\ rb[hops] = 0
    BY <2>2, <2>3, <2>4 DEF Waiting, Collected, LastSound
  <2> DEFINE done == Complete(outFrag[hops])
             sent == Backward(hops, BwdKind(hops), Frags)
  <2>6. /\ UNCHANGED <<handler, cont, result, hops, cf, cb, df, db, frag, told>>
        /\ UNCHANGED <<inFrag, dial, ext, rf, gf, served, replied, dn, broken, stale, dropped>>
    BY <1>1 DEF client
  <2>7. /\ sent \in Seq(Cells) /\ NoDestroy(sent)
        /\ outFrag' = [outFrag EXCEPT ![hops] = ingest(@)]
        /\ done => /\ PassUp(hops, sent) /\ role' = [role EXCEPT ![hops] = "established"]
                   /\ rb' = [rb EXCEPT ![hops] = @ + Frags]
                   /\ gb' = [gb EXCEPT ![hops] = @ + Frags]
        /\ ~done => PassUp(hops, <<>>) /\ UNCHANGED <<role, rb, gb>>
    <3>1. BwdKind(hops) = "EXTENDED" /\ Frags \in Nat
      BY <2>2, Types DEF BwdKind
    <3>2. sent \in Seq(Cells) /\ NoDestroy(sent)
      BY <2>4, <3>1, BwdSent
    <3>3. sent = Backward(hops, "EXTENDED", Frags)
      BY <3>1
    <3> HIDE DEF sent
    <3> QED BY <1>1, <2>2, <2>5, <3>2, <3>3
  <2> HIDE DEF sent
  <2>8. /\ outFrag' \in [Hops -> 0..Frags - 1] /\ outFrag[hops] \in 0..Frags - 1
        /\ outFrag'[hops] = ingest(outFrag[hops])
        /\ \A j \in Hops : j # hops => outFrag'[j] = outFrag[j]
    <3>1. outFrag \in [Hops -> 0..Frags - 1] /\ outFrag[hops] \in 0..Frags - 1 /\ Frags \in Nat \ {0}
      BY <2>4, Types
    <3>2. ingest(outFrag[hops]) \in 0..Frags - 1
      BY <3>1 DEF ingest
    <3> QED BY <2>4, <2>7, <3>1, <3>2
  <2>9. /\ rb' \in [Hops -> Nat] /\ gb' \in [Hops -> Nat] /\ role' \in [Hops -> Live \cup {"none", "destroyed"}]
        /\ \A j \in Hops : j # hops => rb'[j] = rb[j] /\ gb'[j] = gb[j] /\ role'[j] = role[j]
        /\ done => rb'[hops] = Frags /\ gb'[hops] = Frags /\ role'[hops] = "established"
    <3>1. /\ rb \in [Hops -> Nat] /\ gb \in [Hops -> Nat] /\ Frags \in Nat
          /\ role \in [Hops -> Live \cup {"none", "destroyed"}] /\ gb[hops] = 0
      BY <2>4, <2>5, Types DEF LastSound
    <3>2. CASE done
      <4>1. rb' = [rb EXCEPT ![hops] = Frags] /\ gb' = [gb EXCEPT ![hops] = Frags]
        BY <2>4, <2>5, <2>7, <3>1, <3>2
      <4>2. role' = [role EXCEPT ![hops] = "established"] /\ "established" \in Live
        BY <2>7, <3>2 DEF Live
      <4> QED BY <2>4, <3>1, <4>1, <4>2
    <3>3. CASE ~done
      BY <2>7, <3>1, <3>3
    <3> QED BY <3>2, <3>3
  <2>10. /\ up' \in [Hops -> Seq(Cells)] /\ up'[x] = Tail(up[x])
         /\ done => \A j \in Hops \ {x} : up'[j] = IF j = hops /\ j \notin broken THEN up[j] \o sent ELSE up[j]
         /\ ~done => \A j \in Hops \ {x} : up'[j] = up[j]
    <3>1. CASE done
      BY <1>1, <2>2, <2>4, <2>7, <3>1, PassedUp
    <3>2. CASE ~done
      BY <1>1, <2>2, <2>4, <2>7, <3>2, Nothing, PassedUp
    <3> QED BY <3>1, <3>2
  <2>11. \A j \in Hops : /\ Dead(j)' = Dead(j) /\ (Past(j) <=> Past(j)')
                         /\ Sends(j)' = Sends(j) /\ Receives(j)' = Receives(j)
    <3>1. /\ (role'[hops] = "destroyed") = (role[hops] = "destroyed")
          /\ role'[hops] \notin {"none", "pending-create"} /\ role[hops] \notin {"none", "pending-create"}
      BY <2>5, <2>7, <2>9
    <3>2. \A j \in Hops : Dead(j)' = Dead(j) /\ (Past(j) <=> Past(j)')
      BY <2>9, <3>1 DEF Dead, Past
    <3>3. \A j \in Hops : j = 1 \/ j - 1 \in Hops
      BY PathAssumption DEF Hops
    <3> QED BY <2>6, <3>2, <3>3 DEF Sends, Receives
  <2>12. TypeOK' /\ LinksTyped' /\ ~dropped'
    <3>1. TypeOK'
      BY <2>6, <2>8, <2>9 DEF TypeOK
    <3> QED BY <2>6, <2>10, <3>1 DEF LinksTyped
  <2>13. LinesSound' /\ LagsGrow'
    <3>1. CASE done
      <4>1. up'[hops] = IF hops \in broken THEN up[hops] ELSE up[hops] \o Backward(hops, BwdKind(hops), Frags)
        BY <2>4, <2>10, <3>1 DEF sent
      <4>2. \A j \in Hops : j < hops => up'[j] = up[j]
        <5>1. \A j \in Hops : j < hops => j # x /\ j # hops
          BY <1>2 DEF Hops
        <5> QED BY <2>10, <3>1, <5>1
      <4>3. rb' = [rb EXCEPT ![hops] = @ + Frags] /\ Frags \in Nat
        BY <2>7, <3>1, Types
      <4>4. ~Dead(hops)
        BY <1>4, <2>2
      <4> QED BY <2>4, <2>6, <2>11, <4>1, <4>2, <4>3, <4>4, LastSends
    <3>2. CASE ~done
      <4>1. \A j \in 1..hops : Rests(dn[j], dn'[j]) /\ Rests(up[j], up'[j])
        <5>1. \A j \in 1..hops : j \in Hops /\ j # x
          BY <1>2, Hop
        <5> QED BY <2>6, <2>10, <3>2, <5>1 DEF Rests
      <4> QED BY <2>6, <2>7, <2>11, <3>2, <4>1, LinesKept
    <3> QED BY <3>1, <3>2
  <2>14. EndsSound'
    <3>1. ASSUME NEW j \in Hops
          PROVE  /\ Dead(j) => Dead(j)'
                 /\ ~Dead(j)' => Quiet(up[j], up'[j]) \/ up'[j] = <<>>
                 /\ Sends(j)' => Sends(j) /\ (Quiet(dn[j], dn'[j]) \/ dn'[j] = <<>>)
                 /\ j \in broken' => dn'[j] = <<>> /\ up'[j] = <<>>
      <4>1. Quiet(dn[j], dn'[j])
        BY <2>6 DEF Quiet
      <4>2. Quiet(up[j], up'[j])
        <5>1. CASE j = x
          BY <1>1, <2>2, <2>10, <5>1 DEF Quiet
        <5>2. CASE j # x
          BY <2>7, <2>10, <5>2 DEF Quiet
        <5> QED BY <5>1, <5>2
      <4>3. j \in broken' => dn'[j] = <<>> /\ up'[j] = <<>>
        <5>1. x \notin broken
          BY <1>1, <2>2, <2>4 DEF EndsSound
        <5> QED BY <2>6, <2>10, <5>1 DEF EndsSound
      <4> QED BY <2>11, <4>1, <4>2, <4>3
    <3> QED BY <3>1, EndsKept
  <2>15. RelaysSound'
    <3>1. ASSUME NEW j \in Hops
          PROVE  /\ j <= hops => Past(j)'
                 /\ j > hops => rb'[j] = 0 /\ gb'[j] = 0 /\ outFrag'[j] = 0 /\ role'[j] # "extending"
                 /\ j > x => role'[j] = "none" /\ up'[j] = <<>>
      <4>1. /\ j > hops => j # hops
            /\ j > x => j # hops /\ j # x /\ j > hops
        BY <1>2 DEF Hops
      <4> QED BY <2>8, <2>9, <2>10, <2>11, <4>1 DEF RelaysSound
    <3> QED BY <2>6, <3>1 DEF RelaysSound
  <2>16. role'[x] = role[x] /\ inFrag'[x] = inFrag[x]
    BY <2>4, <2>6, <2>9
  <2>17. ClientSound'
    BY <2>6, <2>16 DEF ClientSound, Past
  <2>18. LastSound'
    <3>1. Past(x)'
      BY <2>4, <2>6, <2>16 DEF Past
    <3>2. /\ cf[hops] = df[hops] /\ cb[hops] = db[hops] /\ rf[hops] = gf[hops] /\ rb'[hops] = gb'[hops]
          /\ cf[hops] = Frags /\ rf[hops] = Frags /\ ~dial[hops] /\ rb'[hops] \in {0, Frags}
          /\ rb'[hops] # 0 => role'[hops] # "extending"
          /\ role'[hops] = "established" => rb'[hops] # 0
      <4>1. cf[hops] = df[hops] /\ cb[hops] = db[hops] /\ rf[hops] = gf[hops] /\ rb[hops] = gb[hops]
            /\ cf[hops] = Frags /\ rf[hops] = Frags /\ ~dial[hops] /\ Frags # 0
        BY <2>2, <2>4, <2>5, Types DEF LastSound
      <4>2. CASE done
        BY <2>9, <4>1, <4>2
      <4>3. CASE ~done
        BY <2>5, <2>7, <4>1, <4>3
      <4> QED BY <4>2, <4>3
    <3>3. ~(rf[hops] < Frags) /\ hops # N
      BY <1>2, <2>2, <3>2, Types
    <3> QED BY <2>5, <2>6, <3>1, <3>2, <3>3 DEF LastSound
  <2>19. CreateSound'
    BY <2>6, <2>16, CreateKept DEF Rests
  <2>20. CreatedSound'
    <3>1. Collected' = ingest(outFrag[hops])
      BY <2>4, <2>6, <2>8 DEF Collected
    <3>2. Past(x)'
      BY <2>4, <2>6, <2>16 DEF Past
    <3>3. Line(up'[x], n, AllCells("CREATED"))
      BY <2>3, <2>10
    <3>4. CASE done
      <4>1. n = 0
        BY <2>5, <2>8, <3>4 DEF Complete
      <4>2. ~Waiting'
        BY <2>4, <2>6, <2>9, <3>4 DEF Waiting
      <4> QED BY <2>6, <3>3, <4>1, <4>2 DEF CreatedSound
    <3>5. CASE ~done
      <4>1. Waiting'
        BY <2>4, <2>5, <2>6, <2>7, <3>5 DEF Waiting
      <4>2. Collected' + n = Frags
        BY <2>5, <2>8, <3>1, <3>5 DEF ingest, Complete
      <4> QED BY <2>6, <3>2, <3>3, <4>1, <4>2 DEF CreatedSound
    <3> QED BY <3>4, <3>5
  <2> QED BY <2>12, <2>13, <2>14, <2>15, <2>17, <2>18, <2>19, <2>20
<1> QED BY <1>3, <1>4

\* The exit answers.
LEMMA SendBackwardKeeps == ASSUME CircuitInv, NEW i \in Hops, sendBackward(i) PROVE CircuitInv'
<1> USE DEF CircuitInv
<1>1. /\ role[i] \in {"established", "extending"} /\ replied[i] < served[i]
      /\ SendUp(i, Backward(i, "DATA", 1))
      /\ rb' = [rb EXCEPT ![i] = @ + 1] /\ gb' = [gb EXCEPT ![i] = @ + 1]
      /\ replied' = [replied EXCEPT ![i] = @ + 1]
      /\ UNCHANGED <<role, inFrag, outFrag, dial, ext, rf, gf, served, dn, broken, stale, dropped>>
      /\ UNCHANGED <<handler, cont, result, hops, cf, cb, df, db, frag, told>>
  BY DEF sendBackward, client
<1>2. i = N /\ i = hops /\ hops \in Nat /\ hops >= 1 /\ hops \in Hops /\ ~Dead(hops)
  <2>1. served[i] # 0
    <3>1. served[i] \in Nat /\ replied[i] \in Nat
      BY Types
    <3> QED BY <1>1, <3>1
  <2>2. i = N /\ i = hops
    BY <2>1 DEF RelaysSound
  <2> QED BY <1>1, <2>2, Places DEF Dead
<1> DEFINE sent == Backward(hops, BwdKind(hops), 1)
<1>3. /\ sent \in Seq(Cells) /\ NoDestroy(sent)
  BY <1>2, BwdSent
<1>4. SendUp(hops, sent)
  <2>1. BwdKind(hops) = "DATA"
    BY <1>2 DEF BwdKind
  <2> QED BY <1>1, <1>2, <2>1
<1> HIDE DEF sent
<1>5. /\ up' \in [Hops -> Seq(Cells)]
      /\ \A j \in Hops : up'[j] = IF j = hops /\ j \notin broken THEN up[j] \o sent ELSE up[j]
  BY <1>2, <1>3, <1>4, SentUp
<1>6. \A j \in Hops : /\ Dead(j)' = Dead(j) /\ Past(j)' = Past(j)
                      /\ Sends(j)' = Sends(j) /\ Receives(j)' = Receives(j)
  BY <1>1 DEF Dead, Past, Sends, Receives
<1>7. /\ rb' \in [Hops -> Nat] /\ gb' \in [Hops -> Nat] /\ replied' \in [Hops -> Nat]
      /\ rb'[hops] = rb[hops] + 1 /\ gb'[hops] = gb[hops] + 1
  BY <1>1, <1>2, Types
<1>8. TypeOK' /\ LinksTyped' /\ ~dropped'
  <2>1. TypeOK'
    BY <1>1, <1>7 DEF TypeOK
  <2> QED BY <1>1, <1>5, <2>1 DEF LinksTyped
<1>9. LinesSound' /\ LagsGrow'
  <2>1. /\ up'[hops] = IF hops \in broken THEN up[hops] ELSE up[hops] \o Backward(hops, BwdKind(hops), 1)
        /\ \A j \in Hops : j < hops => up'[j] = up[j]
    BY <1>2, <1>5 DEF sent
  <2>2. rb' = [rb EXCEPT ![hops] = @ + 1] /\ 1 \in Nat
    BY <1>1, <1>2
  <2> QED BY <1>1, <1>2, <1>6, <2>1, <2>2, LastSends
<1>10. EndsSound'
  <2>1. ASSUME NEW j \in Hops
        PROVE  /\ Dead(j) => Dead(j)'
               /\ ~Dead(j)' => Quiet(up[j], up'[j]) \/ up'[j] = <<>>
               /\ Sends(j)' => Sends(j) /\ (Quiet(dn[j], dn'[j]) \/ dn'[j] = <<>>)
               /\ j \in broken' => dn'[j] = <<>> /\ up'[j] = <<>>
    <3>1. Quiet(dn[j], dn'[j]) /\ Quiet(up[j], up'[j])
      BY <1>1, <1>3, <1>5 DEF Quiet
    <3>2. j \in broken' => dn'[j] = <<>> /\ up'[j] = <<>>
      BY <1>1, <1>5 DEF EndsSound
    <3> QED BY <1>6, <3>1, <3>2
  <2> QED BY <2>1, EndsKept
<1>11. RelaysSound'
  <2>1. \A j \in Hops : ~(j > hops) /\ ~(j > hops + 1)
    BY <1>2 DEF Hops
  <2> QED BY <1>1, <1>6, <2>1 DEF RelaysSound
<1>12. ClientSound'
  BY <1>1 DEF ClientSound, Past
<1>13. LastSound'
  <2>1. rb'[hops] = gb'[hops]
    BY <1>2, <1>7 DEF LastSound
  <2>2. ~(hops < N)
    BY <1>2
  <2> QED BY <1>1, <2>1, <2>2 DEF LastSound
<1>14. CreateSound' /\ CreatedSound'
  <2>1. ~(hops' < N)
    BY <1>1, <1>2
  <2> QED BY <2>1 DEF CreateSound, CreatedSound
<1> QED BY <1>8, <1>9, <1>10, <1>11, <1>12, <1>13, <1>14

-----------------------------------------------------------------------------
(* The invariant is inductive                                              *)

LEMMA InitCircuitInv == ASSUME Init PROVE CircuitInv
<1>1. N \in Nat \ {0} /\ Frags \in Nat \ {0} /\ 1 \in Hops
  BY PathAssumption DEF Hops
<1> DEFINE cells == [k \in 1..Frags |-> Cell("CREATE")]
<1>2. cells \in Seq(Cells) /\ NoDestroy(cells) /\ Line(cells, Frags, AllCells("CREATE"))
  BY AllSent
<1> HIDE DEF cells
<1>3. /\ handler = "create" /\ cont = "none" /\ result = "building" /\ hops = 0 /\ frag = 0 /\ told = FALSE
      /\ cf = [i \in Hops |-> 0] /\ cb = cf /\ df = cf /\ db = cf
      /\ role = [i \in Hops |-> "none"]
      /\ inFrag = cf /\ outFrag = cf /\ rf = cf /\ rb = cf /\ gf = cf /\ gb = cf
      /\ served = cf /\ replied = cf
      /\ dial = [i \in Hops |-> FALSE] /\ ext = dial
      /\ dn = [i \in Hops |-> IF i = 1 THEN cells ELSE <<>>]
      /\ up = [i \in Hops |-> <<>>]
      /\ broken = {} /\ dropped = FALSE
      /\ stale \in {{}} \cup {{i} : i \in Hops}
  BY DEF Init, cells
<1>4. TypeOK
  <2>1. cf \in [Hops -> Nat] /\ inFrag \in [Hops -> 0..Frags - 1] /\ 0 \in 0..Frags - 1 /\ 0 \in 0..N
    BY <1>1, <1>3
  <2>2. role \in [Hops -> Live \cup {"none", "destroyed"}] /\ dial \in [Hops -> BOOLEAN] /\ stale \subseteq Hops
    BY <1>3
  <2> QED BY <1>3, <2>1, <2>2 DEF TypeOK
<1>5. LinksTyped
  BY <1>2, <1>3, Nothing DEF LinksTyped
<1>6. LinesSound /\ LagsGrow
  BY <1>3 DEF LinesSound, LagsGrow
<1>7. EndsSound
  <2>1. \A j \in Hops : NoDestroy(up[j]) /\ NoDestroy(dn[j])
    BY <1>2, <1>3, Nothing
  <2> QED BY <1>3, <2>1 DEF EndsSound
<1>8. RelaysSound
  <2>1. \A i \in Hops : i > 0 /\ i # 0 /\ (i > 1 => i # 1)
    BY DEF Hops
  <2> QED BY <1>1, <1>3, <2>1 DEF RelaysSound
<1>9. ClientSound
  BY <1>1, <1>3 DEF ClientSound
<1>10. LastSound
  BY <1>3 DEF LastSound
<1>11. CreateSound
  <2>1. Line(dn[1], Frags, AllCells("CREATE")) /\ role[1] = "none" /\ inFrag[1] + Frags = Frags
    BY <1>1, <1>2, <1>3
  <2>2. hops + 1 = 1
    BY <1>3
  <2> QED BY <1>1, <2>1, <2>2 DEF CreateSound
<1>12. CreatedSound
  <2>1. Line(up[1], 0, AllCells("CREATED")) /\ Collected = 0
    BY <1>1, <1>3, LineEmpty DEF Collected
  <2>2. hops + 1 = 1
    BY <1>3
  <2> QED BY <2>1, <2>2 DEF CreatedSound
<1> QED BY <1>3, <1>4, <1>5, <1>6, <1>7, <1>8, <1>9, <1>10, <1>11, <1>12 DEF CircuitInv

LEMMA StillKeeps == ASSUME CircuitInv, UNCHANGED vars PROVE CircuitInv'
<1> USE DEF CircuitInv
<1>1. /\ UNCHANGED <<handler, cont, result, hops, cf, cb, df, db, frag, told>>
      /\ UNCHANGED <<role, inFrag, outFrag, dial, ext, rf, rb, gf, gb, served, replied>>
      /\ UNCHANGED <<dn, up, broken, stale, dropped>>
  BY DEF vars, client, relays
<1>2. \A j \in Hops : Dead(j)' = Dead(j) /\ Sends(j)' = Sends(j)
  BY <1>1 DEF Dead, Sends
<1>3. TypeOK' /\ LinksTyped' /\ ~dropped' /\ RelaysSound' /\ ClientSound' /\ LastSound'
  <2>1. TypeOK' /\ LinksTyped' /\ ~dropped'
    BY <1>1 DEF TypeOK, LinksTyped
  <2>2. RelaysSound'
    BY <1>1 DEF RelaysSound, Past
  <2>3. ClientSound'
    BY <1>1 DEF ClientSound, Past
  <2>4. LastSound'
    BY <1>1, SMTT(30) DEF LastSound, Past, Dead
  <2> QED BY <2>1, <2>2, <2>3, <2>4
<1>4. LinesSound' /\ LagsGrow'
  BY <1>1, <1>2, LinesKept DEF Rests
<1>5. EndsSound'
  BY <1>1, <1>2 DEF EndsSound
<1>6. CreateSound'
  BY <1>1, CreateKept DEF Rests
<1>7. CreatedSound'
  <2>1. /\ Receives(hops + 1)' => Receives(hops + 1)
        /\ (Waiting' <=> Waiting) /\ Collected' = Collected /\ (Past(hops + 1) => Past(hops + 1)')
    BY <1>1 DEF Receives, Dead, Waiting, Collected, Past
  <2> QED BY <1>1, <2>1, CreatedKept DEF Rests
<1> QED BY <1>3, <1>4, <1>5, <1>6, <1>7

LEMMA NextCircuitInv == ASSUME CircuitInv, [Next]_vars PROVE CircuitInv'
<1>1. CASE ClientStep
  BY <1>1, OnCreatedKeeps, OnRelayKeeps, OnDestroyKeeps, ResolvedKeeps, RejectedKeeps DEF ClientStep
<1>2. CASE sendForward
  BY <1>2, SendForwardKeeps
<1>3. ASSUME NEW i \in Hops, RelayStep(i)
      PROVE  CircuitInv'
  BY <1>3, CreateKeeps, InboundRelayKeeps, DialedKeeps, CreatedKeeps, OutboundRelayKeeps,
     DestroyFromPrevKeeps, DestroyFromNextKeeps DEF RelayStep
<1>4. ASSUME NEW i \in Hops, extendDialFailed(i) \/ sendBackward(i) \/ relayCloseAll(i) \/ linkLost(i)
      PROVE  CircuitInv'
  BY <1>4, DialFailedKeeps, SendBackwardKeeps, CloseAllKeeps, LinkLostKeeps
<1>5. CASE UNCHANGED vars
  BY <1>5, StillKeeps
<1> QED BY <1>1, <1>2, <1>3, <1>4, <1>5 DEF Next

-----------------------------------------------------------------------------
(* What the invariant says of the counters                                 *)

\* Nothing between the client and relay i was torn down.
Intact(i) ==
    /\ 1..i \cap broken = {} /\ result # "failed" /\ handler # "closed"
    /\ \A j \in 1..i : role[j] # "destroyed"

\* A set of numbers has a smallest one (the finite sets 0..t are well-founded).
LEMMA SmallestNumber ==
    ASSUME NEW T, T \subseteq Nat, T # {}
    PROVE  \E t \in T : \A u \in T : t <= u
<1> DEFINE D == {0..t : t \in T}
           R == StrictSubsetOrdering(Nat)
<1>1. \A t \in T : 0..t \in FiniteSubsetsOf(Nat)
  BY FS_Interval DEF FiniteSubsetsOf
<1>2. D \subseteq FiniteSubsetsOf(Nat) /\ D # {}
  BY <1>1
<1>3. IsWellFoundedOn(R, FiniteSubsetsOf(Nat))
  BY FS_StrictSubsetOrderingWellFounded
<1> HIDE DEF D, R
<1>4. PICK d \in D : \A c \in D : ~ (<<c, d>> \in R)
  BY <1>2, <1>3, WFMin, Zenon
<1>5. PICK t \in T : d = 0..t
  BY <1>4 DEF D
<1>6. ASSUME NEW u \in T, u < t
      PROVE  FALSE
  <2>1. 0..u \in D /\ 0..u \subseteq d /\ 0..u # d
    BY <1>5, <1>6 DEF D
  <2>2. 0..u \in SUBSET Nat /\ d \in SUBSET Nat
    BY <1>5
  <2> QED BY <1>4, <2>1, <2>2 DEF R, StrictSubsetOrdering
<1> QED BY <1>6

\* On a link that still counts there are the cells relay j has still to take,
\* but for those of relay j-1.
LEMMA LinkTells ==
    ASSUME CircuitInv, NEW i \in 1..hops, Intact(i), NEW j \in 1..i
    PROVE  /\ Len(dn[j]) \in Nat /\ Len(dn[j]) = lag(j) - lag(j - 1)
           /\ \A k \in 1..Len(dn[j]) : dn[j][k] = FwdCell(hops, cf, df, j, lag(j) - k + 1)
<1> USE DEF CircuitInv
<1>1. hops \in Nat /\ j \in 1..hops /\ j \in Hops /\ j <= i /\ (j # 1 => j - 1 \in 1..i)
  <2>1. hops \in Nat /\ hops <= N /\ N \in Nat
    BY Types
  <2> QED BY <2>1 DEF Hops
<1>2. ~Dead(j) /\ Sends(j) /\ j \notin broken /\ result # "failed"
  BY <1>1 DEF Intact, Dead, Sends
<1>3. PICK n \in Nat : /\ n = lag(j) - lag(j - 1)
                       /\ Line(dn[j], n, FwdCells(hops, cf, df, j, lag(j)))
  BY <1>1, <1>2 DEF LinesSound, DnLine
<1>4. dn[j] \in Seq(Cells) /\ NoDestroy(dn[j])
  BY <1>1, <1>2 DEF LinksTyped, EndsSound
<1>5. n = Len(dn[j])
  BY <1>3, <1>4, LineWhole
<1>6. \A k \in 1..Len(dn[j]) : dn[j][k] = FwdCells(hops, cf, df, j, lag(j))[k]
  BY <1>3, <1>4, <1>5 DEF Line
<1>7. \A k \in 1..n : k \in Nat
  OBVIOUS
<1> QED BY <1>3, <1>5, <1>6, <1>7 DEF FwdCells

\* Such a cell has one forward layer of each hop from there on.
LEMMA LayerTells ==
    ASSUME NEW h \in Nat, NEW c, NEW d, NEW j \in Nat, NEW i \in j..h, NEW b,
           NEW cell, cell = FwdCell(h, c, d, j, b)
    PROVE  CarriesLayer(cell, i) /\ CounterOn(cell, i) = c[i] - b
<1> DEFINE ls == {<<m, "f", c[m] - b>> : m \in j..h}
<1>1. cell.cmd = "RELAY" /\ cell.layers = ls
  BY DEF FwdCell, Relay
<1>2. <<i, "f", c[i] - b>> \in ls
  OBVIOUS
<1>3. ASSUME NEW x \in ls, x[1] = i
      PROVE  x[3] = c[i] - b
  BY <1>3
<1> HIDE DEF ls
<1>4. \E x \in ls : x[1] = i /\ x[2] = "f"
  BY <1>2
<1> QED BY <1>1, <1>3, <1>4 DEF CarriesLayer, CounterOn

\* The cells for hop i are all those on the links before it.
LEMMA UnderWayTells ==
    ASSUME CircuitInv, NEW i \in 1..hops, Intact(i)
    PROVE  /\ \A j \in 1..i : \A k \in 1..Len(dn[j]) :
                 /\ <<j, k>> \in UnderWay(i)
                 /\ CounterAt(<<j, k>>, i) = cf[i] - (lag(j) - k + 1)
           /\ \A p \in UnderWay(i) : \E j \in 1..i : \E k \in 1..Len(dn[j]) : p = <<j, k>>
<1> USE DEF CircuitInv
<1>1. hops \in Nat /\ i \in Nat /\ \A j \in 1..i : j \in Nat /\ i \in j..hops /\ j \in Hops
  <2>1. hops \in Nat /\ hops <= N /\ N \in Nat
    BY Types
  <2> QED BY <2>1 DEF Hops
<1>2. ASSUME NEW j \in 1..i
      PROVE  dn[j] \in Seq(Cells) /\ DOMAIN dn[j] = 1..Len(dn[j])
  BY <1>1, <1>2 DEF LinksTyped
<1>3. ASSUME NEW j \in 1..i, NEW k \in 1..Len(dn[j])
      PROVE  /\ <<j, k>> \in UnderWay(i)
             /\ CounterAt(<<j, k>>, i) = cf[i] - (lag(j) - k + 1)
  <2>1. dn[j][k] = FwdCell(hops, cf, df, j, lag(j) - k + 1)
    BY <1>3, LinkTells
  <2> DEFINE cell == dn[j][k]
             back == lag(j) - k + 1
  <2>4. cell = FwdCell(hops, cf, df, j, back)
    BY <2>1
  <2> HIDE DEF cell, back
  <2>2. CarriesLayer(cell, i) /\ CounterOn(cell, i) = cf[i] - back
    BY <1>1, <2>4, LayerTells
  <2>3. <<j, k>>[1] = j /\ <<j, k>>[2] = k /\ <<j, k>> \in UNION {{m} \X DOMAIN dn[m] : m \in 1..i}
    BY <1>2, <1>3
  <2> QED BY <2>2, <2>3 DEF UnderWay, CounterAt, cell, back
<1>4. ASSUME NEW p \in UnderWay(i)
      PROVE  \E j \in 1..i : \E k \in 1..Len(dn[j]) : p = <<j, k>>
  <2>1. PICK j \in 1..i : p \in {j} \X DOMAIN dn[j]
    BY DEF UnderWay
  <2> QED BY <1>2, <2>1
<1> QED BY <1>3, <1>4

\* They carry, in order, the counters from the relay's to the client's.
LEMMA InStep ==
    ASSUME CircuitInv, NEW i \in 1..hops, Intact(i)
    PROVE  /\ {CounterAt(p, i) : p \in UnderWay(i)} = rf[i]..(cf[i] - 1)
           /\ \A p, q \in UnderWay(i) : Nearer(p, q) => CounterAt(p, i) < CounterAt(q, i)
<1> USE DEF CircuitInv
<1> DEFINE C(p) == CounterAt(p, i)
<1>1. /\ i \in Nat /\ i # 0 /\ cf[i] \in Nat /\ rf[i] \in Nat /\ lag(i) = cf[i] - rf[i] /\ lag(0) = 0
      /\ \A j \in 1..i : j \in Nat /\ j - 1 \in 0..i /\ (j # 1 => j - 1 \in 1..i)
  <2>1. hops \in Nat /\ hops <= N /\ N \in Nat
    BY Types
  <2>2. i \in Hops
    BY <2>1 DEF Hops
  <2> QED BY <2>1, <2>2, Types DEF lag
<1>2. \A j \in 0..i : lag(j) \in Int /\ 0 <= lag(j) /\ lag(j) <= lag(i)
  <2>1. \A j \in 0..i : j \in 0..hops
    BY Types
  <2> QED BY <2>1, LagTypes DEF LagsGrow
<1>3. ASSUME NEW j \in 1..i, NEW m \in 0..j
      PROVE  lag(m) <= lag(j)
  <2>1. j \in 1..hops
    BY Types
  <2> QED BY <2>1 DEF LagsGrow
<1>4. \A j \in 1..i : Len(dn[j]) \in Nat /\ Len(dn[j]) = lag(j) - lag(j - 1)
  BY LinkTells
<1>5. /\ \A j \in 1..i : \A k \in 1..Len(dn[j]) :
            <<j, k>> \in UnderWay(i) /\ C(<<j, k>>) = cf[i] - (lag(j) - k + 1)
      /\ \A p \in UnderWay(i) : \E j \in 1..i : \E k \in 1..Len(dn[j]) : p = <<j, k>>
  BY UnderWayTells
<1> HIDE DEF CircuitInv, C
<1>6. ASSUME NEW p \in UnderWay(i)
      PROVE  C(p) \in rf[i]..(cf[i] - 1)
  <2>1. PICK j \in 1..i : \E k \in 1..Len(dn[j]) : p = <<j, k>>
    BY <1>5
  <2>2. PICK k \in 1..Len(dn[j]) : p = <<j, k>>
    BY <2>1
  <2>3. C(p) = cf[i] - (lag(j) - k + 1)
    BY <1>5, <2>2
  <2>4. /\ lag(j) \in Int /\ lag(j - 1) \in Int /\ lag(j) <= lag(i) /\ 0 <= lag(j - 1)
        /\ k \in 1..(lag(j) - lag(j - 1))
    BY <1>1, <1>2, <1>4
  <2> QED BY <1>1, <2>3, <2>4
<1>7. ASSUME NEW v \in rf[i]..(cf[i] - 1)
      PROVE  \E p \in UnderWay(i) : C(p) = v
  <2> DEFINE d == cf[i] - v
             T == {j \in 1..i : d <= lag(j)}
  <2>1. d \in Int /\ 1 <= d /\ d <= lag(i) /\ v = cf[i] - d
    BY <1>1
  <2> HIDE DEF d
  <2>2. T \subseteq Nat /\ i \in T
    BY <1>1, <2>1
  <2>3. PICK j \in T : \A u \in T : j <= u
    BY <2>2, SmallestNumber
  <2>4. j \in 1..i /\ d <= lag(j)
    OBVIOUS
  <2>5. lag(j) \in Int /\ lag(j - 1) \in Int
    BY <1>1, <1>2, <2>4
  <2>6. lag(j - 1) < d
    <3>1. CASE j = 1
      BY <1>1, <2>1, <3>1
    <3>2. CASE j # 1
      <4>1. j - 1 \in 1..i /\ ~ (j <= j - 1)
        BY <1>1, <2>4, <3>2
      <4>2. j - 1 \notin T
        BY <2>3, <4>1
      <4> QED BY <2>1, <2>5, <4>1, <4>2
    <3> QED BY <3>1, <3>2
  <2>7. lag(j) - d + 1 \in 1..Len(dn[j])
    BY <1>4, <2>1, <2>4, <2>5, <2>6
  <2>8. PICK k \in 1..Len(dn[j]) : k = lag(j) - d + 1
    BY <2>7
  <2>9. <<j, k>> \in UnderWay(i) /\ C(<<j, k>>) = cf[i] - (lag(j) - k + 1)
    BY <1>5, <2>4
  <2>10. cf[i] - (lag(j) - k + 1) = v
    BY <1>1, <2>1, <2>5, <2>8
  <2> QED BY <2>9, <2>10
<1>8. ASSUME NEW p \in UnderWay(i), NEW q \in UnderWay(i), Nearer(p, q)
      PROVE  C(p) < C(q)
  <2>1. PICK j \in 1..i : \E k \in 1..Len(dn[j]) : p = <<j, k>>
    BY <1>5
  <2>2. PICK k \in 1..Len(dn[j]) : p = <<j, k>>
    BY <2>1
  <2>3. PICK m \in 1..i : \E l \in 1..Len(dn[m]) : q = <<m, l>>
    BY <1>5
  <2>4. PICK l \in 1..Len(dn[m]) : q = <<m, l>>
    BY <2>3
  <2>5. C(p) = cf[i] - (lag(j) - k + 1) /\ C(q) = cf[i] - (lag(m) - l + 1)
    BY <1>5, <2>2, <2>4
  <2>6. j > m \/ (j = m /\ k < l)
    BY <1>8, <2>2, <2>4 DEF Nearer
  <2>7. /\ lag(j) \in Int /\ lag(j - 1) \in Int /\ lag(m) \in Int
        /\ k \in 1..(lag(j) - lag(j - 1)) /\ l \in Nat /\ 1 <= l
    <3>1. lag(j) \in Int /\ lag(j - 1) \in Int /\ lag(m) \in Int
      <4>1. j \in 0..i /\ j - 1 \in 0..i /\ m \in 0..i
        BY <1>1
      <4> QED BY <1>2, <4>1
    <3>2. k \in 1..(lag(j) - lag(j - 1))
      BY <1>4
    <3>3. l \in Nat /\ 1 <= l
      BY <1>4
    <3> QED BY <3>1, <3>2, <3>3
  <2>8. CASE j > m
    <3>1. lag(m) <= lag(j - 1)
      <4>1. j - 1 \in 1..i /\ m \in 0..(j - 1)
        BY <1>1, <2>8
      <4> QED BY <1>3, <4>1
    <3> QED BY <1>1, <2>5, <2>7, <3>1
  <2>9. CASE j = m /\ k < l
    BY <1>1, <2>5, <2>7, <2>9
  <2> QED BY <2>6, <2>8, <2>9
<1>9. {C(p) : p \in UnderWay(i)} = rf[i]..(cf[i] - 1)
  BY <1>6, <1>7
<1> QED BY <1>8, <1>9 DEF C

LEMMA CircuitInvImplies == ASSUME CircuitInv PROVE LayersAgree
<1> USE DEF CircuitInv
<1>1. KeysAgree
  <2>1. \A i \in 1..hops : i \in Hops /\ i <= hops
    <3>1. hops \in Nat /\ hops <= N /\ N \in Nat
      BY Types
    <3> QED BY <3>1 DEF Hops
  <2> QED BY <2>1 DEF KeysAgree, RelaysSound, Past
<1>2. CountersInStep
  BY InStep DEF CountersInStep, Intact
<1> QED BY <1>1, <1>2 DEF LayersAgree, EveryCellRecognised

\* For a path of any length, handshakes of any number of cells and any number
\* of data cells and lost links, the client and its relays agree on the layers
\* of the circuit: the client has the keys of a hop only after the handshake
\* with that very relay (finishCreate, finishExtend); as long as nothing between
\* them was torn down, the cells under way carry, in order, the counters from
\* the relay's next one up to the client's (encryptOutbound, relayPeelForward);
\* and no RELAY cell ends its way unrecognised (handleRelayAtHop,
\* dispatchInboundRelay).
THEOREM CircuitsAlwaysAgree == Spec => []LayersAgree
<1>1. Init => CircuitInv
  BY InitCircuitInv
<1>2. CircuitInv /\ [Next]_vars => CircuitInv'
  BY NextCircuitInv
<1>3. CircuitInv => LayersAgree
  BY CircuitInvImplies
<1> QED BY <1>1, <1>2, <1>3, PTL DEF Spec
=============================================================================
