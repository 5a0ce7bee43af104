----------------------------- MODULE StreamsProofs -----------------------------
(***************************************************************************)
(* Proofs about Streams: for any number of calls, and any number of data   *)
(* cells on the way, whichever cells cross, sockets die, timers fire and   *)
(* ends are closed, a caller receives what its own socket delivered and a  *)
(* socket is written what its own caller sent, without a gap.              *)
(***************************************************************************)
EXTENDS Streams, FiniteSetTheorems, TLAPS

\* No stream id is used for a second stream of the circuit.
IdsSuffice == MaxCalls <= MaxId

Wire == [cmd : {"BEGIN", "CONNECTED", "DATA", "END"}, id : Ids, call : Calls, n : Nat]

Typed ==
    /\ nextStreamId \in Ids
    /\ streams \in [Ids -> Calls \cup {None}] /\ sockets \in [Ids -> Calls \cup {None}]
    /\ idOf \in [Calls -> Ids \cup {None}]
    /\ promise \in [Calls -> {"none", "pending", "resolved", "rejected"}]
    /\ closed \in [Calls -> BOOLEAN] /\ timer \in [Calls -> BOOLEAN]
    /\ attached \in [Calls -> BOOLEAN] /\ ended \in [Calls -> BOOLEAN]
    /\ refused \in [Calls -> BOOLEAN] /\ half \in [Calls -> BOOLEAN]
    /\ sock \in [Calls -> {"none", "connecting", "connected", "dead"}]
    /\ sent \in [Calls -> 0..MaxData] /\ back \in [Calls -> 0..MaxData]
    /\ shut \in BOOLEAN
    /\ got \in [Calls -> Seq(Calls \X Nat)] /\ put \in [Calls -> Seq(Calls \X Nat)]
    /\ toExit \in Seq(Wire) /\ toClient \in Seq(Wire)

Opened(c) == promise[c] # "none"

\* Calls are opened in order, and a call has its number for a stream id.
Numbered ==
    /\ \A c \in Calls : Opened(c) => idOf[c] = c /\ \A d \in 1..(c - 1) : Opened(d)
    /\ \A c \in Calls : ~Opened(c) /\ (\A d \in 1..(c - 1) : Opened(d)) => nextStreamId = c
    /\ \A c \in Calls : ~Opened(c) =>
          /\ ~attached[c] /\ ~timer[c] /\ ~ended[c]
          /\ sock[c] = "none" /\ sent[c] = 0 /\ got[c] = <<>> /\ put[c] = <<>>
    /\ \A i \in Ids : streams[i] # None => streams[i] = i /\ Opened(i)
    /\ \A i \in Ids : sockets[i] # None => sockets[i] = i /\ Opened(i)

\* A cell goes by the id of its call.
Carried(line) ==
    \A i \in 1..Len(line) : line[i].id = line[i].call /\ Opened(line[i].call)

\* line[i] is the n-th data cell of call c.
Carries(line, i, c, n) == line[i].cmd = "DATA" /\ line[i].call = c /\ line[i].n = n

\* The data cells of a call are in order, ...
Sorted(line) ==
    \A i, j \in 1..Len(line) :
        i < j /\ line[i].cmd = "DATA" /\ line[j].cmd = "DATA" /\ line[i].call = line[j].call
            => line[i].n < line[j].n

\* ... and after any of them all that were sent later follow.
NoGap(line, count) ==
    \A i \in 1..Len(line) : line[i].cmd = "DATA" =>
        /\ line[i].n <= count[line[i].call]
        /\ \A m \in (line[i].n + 1)..count[line[i].call] :
              \E j \in 1..Len(line) : Carries(line, j, line[i].call, m)

\* Under way are exactly the data cells of c after the k-th.
AllFrom(line, c, k, count) ==
    /\ k <= count[c]
    /\ \A i \in 1..Len(line) : line[i].cmd = "DATA" /\ line[i].call = c => line[i].n > k
    /\ \A m \in (k + 1)..count[c] : \E j \in 1..Len(line) : Carries(line, j, c, m)

Ordered(line, count) == Sorted(line) /\ NoGap(line, count)

\* A BEGIN is the first cell of its call.
BeginFirst(line) ==
    \A i, j \in 1..Len(line) :
        i # j /\ line[i].cmd = "BEGIN" /\ line[i].call = line[j].call => i < j

Lines ==
    /\ Carried(toExit) /\ Ordered(toExit, sent) /\ BeginFirst(toExit)
    /\ Carried(toClient) /\ Ordered(toClient, back)

\* BEGIN is on its way.
Begun(c) == \E i \in 1..Len(toExit) : toExit[i].cmd = "BEGIN" /\ toExit[i].call = c

\* The exit takes the data of c.
Takes(c) == sockets[c] = c /\ sock[c] # "dead"

ExitSide ==
    \A c \in Calls :
        /\ Begun(c) => sockets[c] = None /\ sock[c] = "none" /\ put[c] = <<>>
        /\ Begun(c) \/ Takes(c) => AllFrom(toExit, c, Len(put[c]), sent)
        /\ \A k \in 1..Len(put[c]) : put[c][k] = <<c, k>>

Last(s) == s[Len(s)]

ClientSide ==
    \A c \in Calls :
        /\ \A k \in 1..Len(got[c]) : got[c][k] = <<c, got[c][1][2] + k - 1>>
        /\ got[c] # <<>> /\ streams[c] = c => AllFrom(toClient, c, Last(got[c])[2], back)
        /\ got[c] # <<>> => attached[c]
        /\ ended[c] => streams[c] = None

\* The inductive invariant.
IInv == Typed /\ Numbered /\ Lines /\ ExitSide /\ ClientSide

-----------------------------------------------------------------------------
(* Lines                                                                   *)

\* A call that may still send has not sent all.
LEMMA TotalBounds ==
    ASSUME NEW count \in [Calls -> 0..MaxData], NEW c \in Calls, Total(count) < MaxData
    PROVE  count[c] + 1 \in 0..MaxData
<1> DEFINE T == {p \in Calls \X (1..MaxData) : p[2] <= count[p[1]]}
           f == [n \in 1..MaxData |-> <<c, n>>]
<1>1. SUFFICES ASSUME count[c] = MaxData
               PROVE  FALSE
  BY StreamBounds
<1>2. IsFiniteSet(T)
  <2>1. IsFiniteSet(Calls) /\ IsFiniteSet(1..MaxData)
    BY StreamBounds, FS_Interval DEF Calls
  <2>2. IsFiniteSet(Calls \X (1..MaxData))
    BY <2>1, FS_Product
  <2>3. T \in SUBSET (Calls \X (1..MaxData))
    OBVIOUS
  <2> HIDE DEF T
  <2> QED BY <2>2, <2>3, FS_Subset
<1>3. f \in Injection(1..MaxData, T)
  BY <1>1 DEF Injection, IsInjective
<1>4. Cardinality(1..MaxData) = MaxData
  BY StreamBounds, FS_Interval
<1>5. MaxData <= Cardinality(T)
  <2> HIDE DEF T, f
  <2> QED BY <1>2, <1>3, <1>4, FS_Injection
<1>6. Cardinality(T) \in Nat
  <2> HIDE DEF T
  <2> QED BY <1>2, FS_CardinalityType
<1> QED BY <1>5, <1>6, StreamBounds DEF Total

LEMMA CellsTyped ==
    /\ \A cell \in Wire :
          /\ cell.cmd \in {"BEGIN", "CONNECTED", "DATA", "END"} /\ cell.id \in Ids
          /\ cell.call \in Calls /\ cell.n \in Nat
    /\ \A line \in Seq(Wire) : \A i \in 1..Len(line) :
          line[i] \in Wire /\ line[i].call \in Calls /\ line[i].n \in Nat
<1>1. \A cell \in Wire :
          /\ cell.cmd \in {"BEGIN", "CONNECTED", "DATA", "END"} /\ cell.id \in Ids
          /\ cell.call \in Calls /\ cell.n \in Nat
  BY DEF Wire
<1>2. \A line \in Seq(Wire) : \A i \in 1..Len(line) : line[i] \in Wire
  OBVIOUS
<1> QED BY <1>1, <1>2

\* The first cell is taken.
LEMMA LineTail ==
    ASSUME NEW line \in Seq(Wire), line # <<>>, NEW rest, rest = Tail(line),
           NEW count \in [Calls -> 0..MaxData], Ordered(line, count)
    PROVE  /\ rest \in Seq(Wire) /\ Ordered(rest, count)
           /\ Carried(line) => Carried(rest)
           /\ BeginFirst(line) => BeginFirst(rest)
           /\ \A c \in Calls, k \in Nat :
                 AllFrom(line, c, k, count) /\ ~(Head(line).cmd = "DATA" /\ Head(line).call = c)
                    => AllFrom(rest, c, k, count)
           /\ Head(line).cmd = "DATA" => AllFrom(rest, Head(line).call, Head(line).n, count)
           /\ \A c \in Calls, k \in Nat :
                 AllFrom(line, c, k, count) /\ Head(line).cmd = "DATA" /\ Head(line).call = c
                    => Head(line).n = k + 1
<1>1. /\ rest \in Seq(Wire) /\ Len(rest) = Len(line) - 1 /\ Len(line) \in Nat /\ Len(line) > 0
      /\ \A i \in 1..Len(rest) : rest[i] = line[i + 1] /\ i + 1 \in 1..Len(line)
      /\ Head(line) = line[1] /\ 1 \in 1..Len(line)
  OBVIOUS
<1>2. \A j \in 1..Len(line) : j = 1 \/ (j - 1 \in 1..Len(rest) /\ rest[j - 1] = line[j])
  BY <1>1
<1>3. \A i \in 1..Len(line) : line[i].n \in Nat /\ line[i].call \in Calls
  BY CellsTyped
<1>4. \A c \in Calls : count[c] \in Nat
  BY StreamBounds
<1>5. \A i \in 1..Len(line) : i # 1 /\ line[1].cmd = "DATA" /\ line[i].cmd = "DATA" /\ line[i].call = line[1].call
        => line[1].n < line[i].n
  BY <1>1 DEF Ordered, Sorted
<1>6. Sorted(rest)
  BY <1>1 DEF Ordered, Sorted
<1>7. NoGap(rest, count)
  <2> SUFFICES ASSUME NEW i \in 1..Len(rest), rest[i].cmd = "DATA"
               PROVE  /\ rest[i].n <= count[rest[i].call]
                      /\ \A m \in (rest[i].n + 1)..count[rest[i].call] :
                            \E j \in 1..Len(rest) : Carries(rest, j, rest[i].call, m)
    BY DEF NoGap
  <2>1. /\ line[i + 1].n <= count[line[i + 1].call]
        /\ \A m \in (line[i + 1].n + 1)..count[line[i + 1].call] :
              \E j \in 1..Len(line) : Carries(line, j, line[i + 1].call, m)
    BY <1>1 DEF Ordered, NoGap
  <2>2. ASSUME NEW m \in (rest[i].n + 1)..count[rest[i].call]
        PROVE  \E j \in 1..Len(rest) : Carries(rest, j, rest[i].call, m)
    <3>1. PICK j \in 1..Len(line) : Carries(line, j, line[i + 1].call, m)
      BY <1>1, <2>1
    <3>2. j # 1
      <4>1. i + 1 # 1 /\ rest[i].n < m /\ rest[i] = line[i + 1] /\ i + 1 \in 1..Len(line)
        BY <1>1, <1>3, <1>4
      <4> QED BY <1>3, <1>5, <3>1, <4>1 DEF Carries
    <3> QED BY <1>1, <1>2, <3>1, <3>2 DEF Carries
  <2> QED BY <1>1, <2>1, <2>2
<1>8. Carried(line) => Carried(rest)
  BY <1>1 DEF Carried
<1>9. BeginFirst(line) => BeginFirst(rest)
  BY <1>1 DEF BeginFirst
<1>10. ASSUME NEW c \in Calls, NEW k \in Nat, AllFrom(line, c, k, count)
       PROVE  /\ ~(line[1].cmd = "DATA" /\ line[1].call = c) => AllFrom(rest, c, k, count)
              /\ line[1].cmd = "DATA" /\ line[1].call = c => line[1].n = k + 1
  <2>1. ASSUME ~(line[1].cmd = "DATA" /\ line[1].call = c), NEW m \in (k + 1)..count[c]
        PROVE  \E j \in 1..Len(rest) : Carries(rest, j, c, m)
    <3>1. PICK j \in 1..Len(line) : Carries(line, j, c, m)
      BY <1>10 DEF AllFrom
    <3>2. j # 1
      BY <2>1, <3>1 DEF Carries
    <3> QED BY <1>2, <3>1, <3>2 DEF Carries
  <2>2. ASSUME line[1].cmd = "DATA", line[1].call = c
        PROVE  line[1].n = k + 1
    <3>1. line[1].n > k /\ line[1].n <= count[c] /\ line[1].n \in Nat
      BY <1>1, <1>3, <1>10, <2>2 DEF AllFrom, Ordered, NoGap
    <3>2. PICK j \in 1..Len(line) : Carries(line, j, c, k + 1)
      BY <1>4, <1>10, <3>1 DEF AllFrom
    <3>3. j # 1 => line[1].n < k + 1
      BY <1>5, <2>2, <3>2 DEF Carries
    <3> QED BY <3>1, <3>2, <3>3 DEF Carries
  <2> QED BY <1>1, <1>10, <2>1, <2>2 DEF AllFrom
<1>11. ASSUME line[1].cmd = "DATA"
       PROVE  AllFrom(rest, line[1].call, line[1].n, count)
  <2> DEFINE c == line[1].call
  <2>1. /\ line[1].n <= count[c]
        /\ \A m \in (line[1].n + 1)..count[c] : \E j \in 1..Len(line) : Carries(line, j, c, m)
    BY <1>1, <1>11 DEF Ordered, NoGap
  <2>2. \A i \in 1..Len(rest) : rest[i].cmd = "DATA" /\ rest[i].call = c => rest[i].n > line[1].n
    BY <1>1, <1>3, <1>5, <1>11
  <2>3. ASSUME NEW m \in (line[1].n + 1)..count[c]
        PROVE  \E j \in 1..Len(rest) : Carries(rest, j, c, m)
    <3>1. PICK j \in 1..Len(line) : Carries(line, j, c, m)
      BY <2>1
    <3>2. j # 1
      <4>1. line[1].n < m
        BY <1>1, <1>3, <1>4
      <4> QED BY <1>1, <1>3, <3>1, <4>1 DEF Carries
    <3> QED BY <1>2, <3>1, <3>2 DEF Carries
  <2> QED BY <2>1, <2>2, <2>3 DEF AllFrom
<1> QED BY <1>1, <1>6, <1>7, <1>8, <1>9, <1>10, <1>11 DEF Ordered

\* What the sender counts when it sends a cell.
Counted(cell, count, more) ==
    \/ cell.cmd # "DATA" /\ more = count
    \/ /\ cell.cmd = "DATA" /\ cell.n = count[cell.call] + 1 /\ more[cell.call] = cell.n
       /\ \A d \in Calls : d # cell.call => more[d] = count[d]

\* A cell is sent.
LEMMA LineAppend ==
    ASSUME NEW line \in Seq(Wire), NEW cell \in Wire, NEW longer, longer = Append(line, cell),
           NEW count \in [Calls -> 0..MaxData], NEW more \in [Calls -> 0..MaxData],
           Counted(cell, count, more), Ordered(line, count)
    PROVE  /\ longer \in Seq(Wire) /\ Ordered(longer, more)
           /\ \A c \in Calls, k \in Nat : AllFrom(line, c, k, count) => AllFrom(longer, c, k, more)
<1>1. /\ longer \in Seq(Wire) /\ Len(longer) = Len(line) + 1 /\ Len(line) \in Nat
      /\ \A i \in 1..Len(line) : longer[i] = line[i] /\ i \in 1..Len(longer)
      /\ longer[Len(longer)] = cell /\ Len(longer) \in 1..Len(longer)
      /\ \A i \in 1..Len(longer) : i \in 1..Len(line) \/ i = Len(longer)
  OBVIOUS
<1>2. \A i \in 1..Len(line) : line[i].n \in Nat /\ line[i].call \in Calls
  BY CellsTyped
<1>3. /\ \A c \in Calls : count[c] \in Nat /\ more[c] \in Nat /\ count[c] <= more[c]
      /\ cell.call \in Calls /\ cell.n \in Nat
  <2>1. cell.call \in Calls /\ cell.n \in Nat
    BY CellsTyped
  <2>2. \A c \in Calls : count[c] \in Nat /\ more[c] \in Nat
    BY StreamBounds
  <2> QED BY <2>1, <2>2 DEF Counted
<1>4. Sorted(longer)
  <2> SUFFICES ASSUME NEW i \in 1..Len(longer), NEW j \in 1..Len(longer), i < j,
                      longer[i].cmd = "DATA", longer[j].cmd = "DATA", longer[i].call = longer[j].call
               PROVE  longer[i].n < longer[j].n
    BY DEF Sorted
  <2>1. i \in 1..Len(line) /\ longer[i] = line[i]
    BY <1>1
  <2>2. CASE j \in 1..Len(line)
    BY <1>1, <2>1, <2>2 DEF Ordered, Sorted
  <2>3. CASE j = Len(longer)
    <3>1. line[i].n <= count[cell.call] /\ cell.n = count[cell.call] + 1
      BY <1>1, <2>1, <2>3 DEF Counted, Ordered, NoGap
    <3> QED BY <1>1, <1>2, <1>3, <2>1, <2>3, <3>1
  <2> QED BY <1>1, <2>2, <2>3
<1>5. ASSUME NEW c \in Calls, NEW k \in Nat, k <= count[c],
             \A m \in (k + 1)..count[c] : \E j \in 1..Len(line) : Carries(line, j, c, m)
      PROVE  \A m \in (k + 1)..more[c] : \E j \in 1..Len(longer) : Carries(longer, j, c, m)
  <2> SUFFICES ASSUME NEW m \in (k + 1)..more[c]
               PROVE  \E j \in 1..Len(longer) : Carries(longer, j, c, m)
    OBVIOUS
  <2>1. CASE m <= count[c]
    <3>1. PICK j \in 1..Len(line) : Carries(line, j, c, m)
      BY <1>3, <1>5, <2>1
    <3> QED BY <1>1, <3>1 DEF Carries
  <2>2. CASE ~(m <= count[c])
    <3>1. cell.cmd = "DATA" /\ cell.call = c /\ cell.n = m
      BY <1>3, <2>2 DEF Counted
    <3> QED BY <1>1, <3>1 DEF Carries
  <2> QED BY <2>1, <2>2
<1>6. NoGap(longer, more)
  <2> SUFFICES ASSUME NEW i \in 1..Len(longer), longer[i].cmd = "DATA"
               PROVE  /\ longer[i].n <= more[longer[i].call]
                      /\ \A m \in (longer[i].n + 1)..more[longer[i].call] :
                            \E j \in 1..Len(longer) : Carries(longer, j, longer[i].call, m)
    BY DEF NoGap
  <2>1. CASE i \in 1..Len(line)
    <3>1. /\ line[i].n <= count[line[i].call]
          /\ \A m \in (line[i].n + 1)..count[line[i].call] :
                \E j \in 1..Len(line) : Carries(line, j, line[i].call, m)
      BY <1>1, <2>1 DEF Ordered, NoGap
    <3>2. \A m \in (line[i].n + 1)..more[line[i].call] :
                \E j \in 1..Len(longer) : Carries(longer, j, line[i].call, m)
      BY <1>2, <1>5, <2>1, <3>1
    <3>3. line[i].n <= more[line[i].call]
      BY <1>2, <1>3, <2>1, <3>1
    <3> QED BY <1>1, <2>1, <3>2, <3>3
  <2>2. CASE i = Len(longer)
    <3>1. longer[i] = cell /\ more[cell.call] = cell.n
      BY <1>1, <2>2 DEF Counted
    <3> QED BY <1>3, <3>1
  <2> QED BY <1>1, <2>1, <2>2
<1>7. ASSUME NEW c \in Calls, NEW k \in Nat, AllFrom(line, c, k, count)
      PROVE  AllFrom(longer, c, k, more)
  <2>1. k <= count[c] /\ k <= more[c]
    BY <1>3, <1>7 DEF AllFrom
  <2>2. \A m \in (k + 1)..more[c] : \E j \in 1..Len(longer) : Carries(longer, j, c, m)
    BY <1>5, <1>7, <2>1 DEF AllFrom
  <2>3. ASSUME NEW i \in 1..Len(longer), longer[i].cmd = "DATA", longer[i].call = c
        PROVE  longer[i].n > k
    <3>1. CASE i \in 1..Len(line)
      BY <1>1, <1>7, <2>3, <3>1 DEF AllFrom
    <3>2. CASE i = Len(longer)
      BY <1>1, <1>3, <2>1, <2>3, <3>2 DEF Counted
    <3> QED BY <1>1, <3>1, <3>2
  <2> QED BY <2>1, <2>2, <2>3 DEF AllFrom
<1> QED BY <1>1, <1>4, <1>6, <1>7 DEF Ordered

-----------------------------------------------------------------------------
(* What a step leaves alone                                                *)

\* The step opens no stream.
NoneOpened ==
    /\ \A c \in Calls : Opened(c)' <=> Opened(c)
    /\ idOf' = idOf /\ nextStreamId' = nextStreamId
    /\ \A c \in Calls : ~Opened(c) =>
          /\ attached'[c] = attached[c] /\ timer'[c] = timer[c] /\ ended'[c] = ended[c]
          /\ sock'[c] = sock[c] /\ sent'[c] = sent[c] /\ got'[c] = got[c] /\ put'[c] = put[c]
    /\ \A i \in Ids : streams'[i] \in {streams[i], None}
    /\ \A i \in Ids : sockets'[i] \in {sockets[i], None} \/ (sockets'[i] = i /\ i \in Calls /\ Opened(i))

LEMMA NumberedStays ==
    ASSUME IdsSuffice, Typed, Numbered, NoneOpened
    PROVE  Numbered'
<1>1. \A c \in Calls : \A d \in 1..(c - 1) : d \in Calls
  BY StreamBounds DEF Calls
<1>2. \A i \in Ids : streams[i] # None => i \in Calls
  BY DEF Numbered, Typed
<1>3. \A i \in Ids : sockets[i] # None => i \in Calls
  BY DEF Numbered, Typed
<1>4. \A c \in Calls : Opened(c)' <=> Opened(c)
  BY DEF NoneOpened
<1>5. /\ \A c \in Calls : Opened(c)' => idOf'[c] = c /\ \A d \in 1..(c - 1) : Opened(d)'
      /\ \A c \in Calls : ~Opened(c)' /\ (\A d \in 1..(c - 1) : Opened(d)') => nextStreamId' = c
  BY <1>1, <1>4 DEF NoneOpened, Numbered
<1>6. \A c \in Calls : ~Opened(c)' =>
          /\ ~attached'[c] /\ ~timer'[c] /\ ~ended'[c]
          /\ sock'[c] = "none" /\ sent'[c] = 0 /\ got'[c] = <<>> /\ put'[c] = <<>>
  BY <1>4 DEF NoneOpened, Numbered
<1>7. \A i \in Ids : streams'[i] # None => streams'[i] = i /\ Opened(i)'
  BY <1>2, <1>4 DEF NoneOpened, Numbered
<1>8. ASSUME NEW i \in Ids, sockets'[i] # None
      PROVE  sockets'[i] = i /\ Opened(i)'
  <2>1. CASE sockets'[i] = sockets[i]
    BY <1>3, <1>4, <1>8, <2>1 DEF Numbered
  <2>2. CASE sockets'[i] = i /\ i \in Calls /\ Opened(i)
    BY <1>4, <2>2
  <2> QED BY <1>8, <2>1, <2>2 DEF NoneOpened
<1> QED BY <1>5, <1>6, <1>7, <1>8 DEF Numbered

\* Whatever is still to be put is still to come.
LEMMA ExitStays ==
    ASSUME IdsSuffice, ExitSide, put' = put,
           \A c \in Calls : sockets'[c] \in {sockets[c], None},
           \A c \in Calls : Begun(c)' => Begun(c) /\ sock'[c] = sock[c],
           \A c \in Calls : sock'[c] # "dead" => sock[c] # "dead",
           \A c \in Calls, k \in Nat : AllFrom(toExit, c, k, sent) /\ (Begun(c) \/ Takes(c))
              => AllFrom(toExit, c, k, sent)',
           Typed
    PROVE  ExitSide'
<1> SUFFICES ASSUME NEW c \in Calls
             PROVE  /\ Begun(c)' => sockets'[c] = None /\ sock'[c] = "none" /\ put'[c] = <<>>
                    /\ Begun(c)' \/ Takes(c)' => AllFrom(toExit, c, Len(put[c]), sent)'
                    /\ \A k \in 1..Len(put'[c]) : put'[c][k] = <<c, k>>
  BY DEF ExitSide
<1>1. /\ Begun(c) => sockets[c] = None /\ sock[c] = "none" /\ put[c] = <<>>
      /\ Begun(c) \/ Takes(c) => AllFrom(toExit, c, Len(put[c]), sent)
      /\ \A k \in 1..Len(put[c]) : put[c][k] = <<c, k>>
  BY DEF ExitSide
<1>2. Len(put[c]) \in Nat
  BY DEF Typed
<1>3. c # None
  BY DEF Calls, None
<1>4. Takes(c)' => Takes(c)
  BY <1>3 DEF Takes
<1>5. Begun(c)' \/ Takes(c)' => AllFrom(toExit, c, Len(put[c]), sent)'
  <2>1. ASSUME Begun(c)' \/ Takes(c)'
        PROVE  AllFrom(toExit, c, Len(put[c]), sent)'
    <3>1. Begun(c) \/ Takes(c)
      BY <1>4, <2>1
    <3>2. PICK k \in Nat : k = Len(put[c])
      BY <1>2
    <3>3. AllFrom(toExit, c, k, sent)
      BY <1>1, <3>1, <3>2
    <3>4. AllFrom(toExit, c, k, sent)'
      BY <3>1, <3>3
    <3> QED BY <3>2, <3>4
  <2> QED BY <2>1
<1> QED BY <1>1, <1>5

\* Whatever is still to be got is still to come.
LEMMA ClientStays ==
    ASSUME Typed, ClientSide, got' = got,
           \A c \in Calls : streams'[c] = c => streams[c] = c \/ got[c] = <<>>,
           \A c \in Calls : ended'[c] => streams'[c] = None,
           \A c \in Calls : attached[c] => attached'[c],
           \A c \in Calls, k \in Nat : AllFrom(toClient, c, k, back) => AllFrom(toClient, c, k, back)'
    PROVE  ClientSide'
<1> SUFFICES ASSUME NEW c \in Calls
             PROVE  /\ \A k \in 1..Len(got'[c]) : got'[c][k] = <<c, got'[c][1][2] + k - 1>>
                    /\ got'[c] # <<>> /\ streams'[c] = c => AllFrom(toClient, c, Last(got[c])[2], back)'
                    /\ got'[c] # <<>> => attached'[c]
  BY DEF ClientSide
<1>1. ASSUME got[c] # <<>>, streams'[c] = c
      PROVE  AllFrom(toClient, c, Last(got[c])[2], back)'
  <2>1. AllFrom(toClient, c, Last(got[c])[2], back)
    BY <1>1 DEF ClientSide
  <2>2. Last(got[c])[2] \in Nat
    <3>1. got[c] \in Seq(Calls \X Nat)
      BY DEF Typed
    <3>2. got[c][Len(got[c])] \in Calls \X Nat
      BY <1>1, <3>1
    <3> QED BY <3>2 DEF Last
  <2>3. PICK k \in Nat : k = Last(got[c])[2]
    BY <2>2
  <2>4. AllFrom(toClient, c, k, back)'
    BY <2>1, <2>3
  <2> QED BY <2>3, <2>4
<1> QED BY <1>1 DEF ClientSide

\* Nothing is sent or taken towards the exit, ...
LEMMA ToExitSame ==
    ASSUME UNCHANGED <<toExit, sent>>
    PROVE  /\ \A c : Begun(c)' <=> Begun(c)
           /\ \A c, k : AllFrom(toExit, c, k, sent) => AllFrom(toExit, c, k, sent)'
           /\ Ordered(toExit, sent) => Ordered(toExit, sent)'
           /\ BeginFirst(toExit) => BeginFirst(toExit)'
  BY DEF Begun, AllFrom, Ordered, Sorted, NoGap, BeginFirst, Carries

\* ... or towards the client.
LEMMA ToClientSame ==
    ASSUME UNCHANGED <<toClient, back>>
    PROVE  /\ \A c, k : AllFrom(toClient, c, k, back) => AllFrom(toClient, c, k, back)'
           /\ Ordered(toClient, back) => Ordered(toClient, back)'
  BY DEF AllFrom, Ordered, Sorted, NoGap, Carries

-----------------------------------------------------------------------------
(* One end of a line                                                       *)

StillOpen == \A c \in Calls : Opened(c) => Opened(c)'

\* A cell, and no BEGIN, is sent to the exit.
LEMMA SentToExit ==
    ASSUME Typed, Lines, StillOpen, NEW cell \in Wire, toExit' = Append(toExit, cell),
           sent' \in [Calls -> 0..MaxData], Counted(cell, sent, sent'),
           cell.id = cell.call, Opened(cell.call), cell.cmd # "BEGIN"
    PROVE  /\ toExit' \in Seq(Wire)
           /\ Carried(toExit)' /\ Ordered(toExit, sent)' /\ BeginFirst(toExit)'
           /\ \A c \in Calls : Begun(c)' => Begun(c)
           /\ \A c \in Calls, k \in Nat : AllFrom(toExit, c, k, sent) => AllFrom(toExit, c, k, sent)'
<1>1. /\ toExit \in Seq(Wire) /\ sent \in [Calls -> 0..MaxData]
      /\ Carried(toExit) /\ Ordered(toExit, sent) /\ BeginFirst(toExit)
  BY DEF Typed, Lines
<1>2. PICK longer, more : longer = toExit' /\ more = sent'
  OBVIOUS
<1>3. /\ longer \in Seq(Wire) /\ Ordered(longer, more)
      /\ \A c \in Calls, k \in Nat : AllFrom(toExit, c, k, sent) => AllFrom(longer, c, k, more)
  BY <1>1, <1>2, LineAppend
<1>4. /\ Len(longer) = Len(toExit) + 1 /\ Len(toExit) \in Nat
      /\ \A i \in 1..Len(toExit) : longer[i] = toExit[i]
      /\ longer[Len(longer)] = cell
      /\ \A i \in 1..Len(longer) : i \in 1..Len(toExit) \/ i = Len(longer)
  BY <1>1, <1>2
<1>5. \A i \in 1..Len(longer) : longer[i].id = longer[i].call /\ Opened(longer[i].call)'
  <2>1. \A i \in 1..Len(toExit) : toExit[i].call \in Calls
    BY <1>1, CellsTyped
  <2>2. cell.call \in Calls
    BY CellsTyped
  <2> QED BY <1>1, <1>4, <2>1, <2>2 DEF Carried, StillOpen
<1>6. BeginFirst(longer)
  BY <1>1, <1>4 DEF BeginFirst
<1>7. \A c \in Calls : Begun(c)' => Begun(c)
  BY <1>2, <1>4 DEF Begun
<1> QED BY <1>2, <1>3, <1>5, <1>6, <1>7 DEF Carried, Ordered

\* A cell is sent to the client.
LEMMA SentToClient ==
    ASSUME Typed, Lines, StillOpen, NEW cell \in Wire, toClient' = Append(toClient, cell),
           back' \in [Calls -> 0..MaxData], Counted(cell, back, back'),
           cell.id = cell.call, Opened(cell.call)
    PROVE  /\ toClient' \in Seq(Wire)
           /\ Carried(toClient)' /\ Ordered(toClient, back)'
           /\ \A c \in Calls, k \in Nat : AllFrom(toClient, c, k, back) => AllFrom(toClient, c, k, back)'
<1>1. /\ toClient \in Seq(Wire) /\ back \in [Calls -> 0..MaxData]
      /\ Carried(toClient) /\ Ordered(toClient, back)
  BY DEF Typed, Lines
<1>2. PICK longer, more : longer = toClient' /\ more = back'
  OBVIOUS
<1>3. /\ longer \in Seq(Wire) /\ Ordered(longer, more)
      /\ \A c \in Calls, k \in Nat : AllFrom(toClient, c, k, back) => AllFrom(longer, c, k, more)
  BY <1>1, <1>2, LineAppend
<1>4. /\ Len(longer) = Len(toClient) + 1 /\ Len(toClient) \in Nat
      /\ \A i \in 1..Len(toClient) : longer[i] = toClient[i]
      /\ longer[Len(longer)] = cell
      /\ \A i \in 1..Len(longer) : i \in 1..Len(toClient) \/ i = Len(longer)
  BY <1>1, <1>2
<1>5. \A i \in 1..Len(longer) : longer[i].id = longer[i].call /\ Opened(longer[i].call)'
  <2>1. \A i \in 1..Len(toClient) : toClient[i].call \in Calls
    BY <1>1, CellsTyped
  <2>2. cell.call \in Calls
    BY CellsTyped
  <2> QED BY <1>1, <1>4, <2>1, <2>2 DEF Carried, StillOpen
<1> QED BY <1>2, <1>3, <1>5 DEF Carried, Ordered

\* The exit takes a cell.
LEMMA TakenByExit ==
    ASSUME Typed, Lines, StillOpen, toExit # <<>>, toExit' = Tail(toExit), sent' = sent
    PROVE  /\ toExit' \in Seq(Wire) /\ Head(toExit) \in Wire
           /\ Head(toExit).id = Head(toExit).call /\ Opened(Head(toExit).call)
           /\ Carried(toExit)' /\ Ordered(toExit, sent)' /\ BeginFirst(toExit)'
           /\ \A c \in Calls : Begun(c)' => Begun(c) /\ Head(toExit).call # c
           /\ Head(toExit).cmd = "BEGIN" => Begun(Head(toExit).call)
           /\ \A c \in Calls, k \in Nat :
                 AllFrom(toExit, c, k, sent) /\ ~(Head(toExit).cmd = "DATA" /\ Head(toExit).call = c)
                    => AllFrom(toExit, c, k, sent)'
           /\ Head(toExit).cmd = "DATA" => AllFrom(toExit', Head(toExit).call, Head(toExit).n, sent')
           /\ \A c \in Calls, k \in Nat :
                 AllFrom(toExit, c, k, sent) /\ Head(toExit).cmd = "DATA" /\ Head(toExit).call = c
                    => Head(toExit).n = k + 1
<1>1. /\ toExit \in Seq(Wire) /\ sent \in [Calls -> 0..MaxData]
      /\ Carried(toExit) /\ Ordered(toExit, sent) /\ BeginFirst(toExit)
  BY DEF Typed, Lines
<1>2. PICK rest : rest = toExit'
  OBVIOUS
<1>3. /\ rest \in Seq(Wire) /\ Ordered(rest, sent) /\ Carried(rest) /\ BeginFirst(rest)
      /\ \A c \in Calls, k \in Nat :
            AllFrom(toExit, c, k, sent) /\ ~(Head(toExit).cmd = "DATA" /\ Head(toExit).call = c)
               => AllFrom(rest, c, k, sent)
      /\ Head(toExit).cmd = "DATA" => AllFrom(rest, Head(toExit).call, Head(toExit).n, sent)
      /\ \A c \in Calls, k \in Nat :
            AllFrom(toExit, c, k, sent) /\ Head(toExit).cmd = "DATA" /\ Head(toExit).call = c
               => Head(toExit).n = k + 1
  BY <1>1, <1>2, LineTail
<1>4. /\ Len(rest) = Len(toExit) - 1 /\ Len(toExit) \in Nat /\ Len(toExit) > 0
      /\ \A i \in 1..Len(rest) : rest[i] = toExit[i + 1] /\ i + 1 \in 1..Len(toExit)
      /\ Head(toExit) = toExit[1] /\ 1 \in 1..Len(toExit) /\ Head(toExit) \in Wire
  BY <1>1, <1>2
<1>5. \A c \in Calls : Begun(c)' => Begun(c) /\ Head(toExit).call # c
  <2> SUFFICES ASSUME NEW c \in Calls, NEW i \in 1..Len(rest), rest[i].cmd = "BEGIN", rest[i].call = c
               PROVE  Begun(c) /\ Head(toExit).call # c
    BY <1>2 DEF Begun
  <2>1. toExit[i + 1].cmd = "BEGIN" /\ toExit[i + 1].call = c /\ i + 1 \in 1..Len(toExit) /\ ~(i + 1 < 1) /\ i + 1 # 1
    BY <1>4
  <2> QED BY <1>1, <1>4, <2>1 DEF Begun, BeginFirst
<1>6. Carried(toExit)'
  BY <1>2, <1>3, <1>4, CellsTyped DEF Carried, StillOpen
<1> QED BY <1>1, <1>2, <1>3, <1>4, <1>5, <1>6 DEF Carried, Begun, Ordered

\* The client takes a cell.
LEMMA TakenByClient ==
    ASSUME Typed, Lines, StillOpen, toClient # <<>>, toClient' = Tail(toClient), back' = back
    PROVE  /\ toClient' \in Seq(Wire) /\ Head(toClient) \in Wire
           /\ Head(toClient).id = Head(toClient).call /\ Opened(Head(toClient).call)
           /\ Carried(toClient)' /\ Ordered(toClient, back)'
           /\ \A c \in Calls, k \in Nat :
                 AllFrom(toClient, c, k, back) /\ ~(Head(toClient).cmd = "DATA" /\ Head(toClient).call = c)
                    => AllFrom(toClient, c, k, back)'
           /\ Head(toClient).cmd = "DATA" => AllFrom(toClient', Head(toClient).call, Head(toClient).n, back')
           /\ \A c \in Calls, k \in Nat :
                 AllFrom(toClient, c, k, back) /\ Head(toClient).cmd = "DATA" /\ Head(toClient).call = c
                    => Head(toClient).n = k + 1
<1>1. /\ toClient \in Seq(Wire) /\ back \in [Calls -> 0..MaxData]
      /\ Carried(toClient) /\ Ordered(toClient, back)
  BY DEF Typed, Lines
<1>2. PICK rest : rest = toClient'
  OBVIOUS
<1>3. /\ rest \in Seq(Wire) /\ Ordered(rest, back) /\ Carried(rest)
      /\ \A c \in Calls, k \in Nat :
            AllFrom(toClient, c, k, back) /\ ~(Head(toClient).cmd = "DATA" /\ Head(toClient).call = c)
               => AllFrom(rest, c, k, back)
      /\ Head(toClient).cmd = "DATA" => AllFrom(rest, Head(toClient).call, Head(toClient).n, back)
      /\ \A c \in Calls, k \in Nat :
            AllFrom(toClient, c, k, back) /\ Head(toClient).cmd = "DATA" /\ Head(toClient).call = c
               => Head(toClient).n = k + 1
  BY <1>1, <1>2, LineTail
<1>4. Head(toClient) = toClient[1] /\ 1 \in 1..Len(toClient) /\ Head(toClient) \in Wire
  BY <1>1
<1>5. Carried(toClient)'
  BY <1>2, <1>3, CellsTyped DEF Carried, StillOpen
<1> QED BY <1>1, <1>2, <1>3, <1>4, <1>5 DEF Carried, Ordered

-----------------------------------------------------------------------------
(* Steps that put and get nothing                                          *)

\* What a step does to the line to the exit, ...
ExitLineKept ==
    /\ Carried(toExit)' /\ Ordered(toExit, sent)' /\ BeginFirst(toExit)'
    /\ \A c \in Calls : Begun(c)' => Begun(c)
    /\ \A c \in Calls, k \in Nat : AllFrom(toExit, c, k, sent) /\ (Begun(c) \/ Takes(c))
          => AllFrom(toExit, c, k, sent)'

\* ... and to the line to the client.
ClientLineKept ==
    /\ Carried(toClient)' /\ Ordered(toClient, back)'
    /\ \A c \in Calls, k \in Nat : AllFrom(toClient, c, k, back) => AllFrom(toClient, c, k, back)'

LEMMA ExitLineSame ==
    ASSUME Typed, Lines, StillOpen, UNCHANGED <<toExit, sent>>
    PROVE  ExitLineKept
<1>1. Carried(toExit)'
  BY CellsTyped DEF Typed, Lines, Carried, StillOpen
<1> QED BY <1>1, ToExitSame DEF Lines, ExitLineKept

LEMMA ClientLineSame ==
    ASSUME Typed, Lines, StillOpen, UNCHANGED <<toClient, back>>
    PROVE  ClientLineKept
<1>1. Carried(toClient)'
  BY CellsTyped DEF Typed, Lines, Carried, StillOpen
<1> QED BY <1>1, ToClientSame DEF Lines, ClientLineKept

LEMMA QuietStep ==
    ASSUME IdsSuffice, IInv, Typed', NoneOpened, UNCHANGED <<put, got>>,
           ExitLineKept, ClientLineKept,
           \A i \in Ids : sockets'[i] \in {sockets[i], None},
           \A c \in Calls : Begun(c) => sock'[c] = sock[c],
           \A c \in Calls : sock'[c] # "dead" => sock[c] # "dead",
           \A c \in Calls : attached[c] => attached'[c],
           \A c \in Calls : ended'[c] => streams'[c] = None
    PROVE  IInv'
<1>1. Typed /\ Numbered /\ Lines /\ ExitSide /\ ClientSide
  BY DEF IInv
<1>2. Numbered'
  BY <1>1, NumberedStays
<1>3. Lines'
  BY DEF ExitLineKept, ClientLineKept, Lines
<1>4. \A c \in Calls : c \in Ids /\ c # None
  BY StreamBounds DEF IdsSuffice, Calls, Ids, None
<1>5. ExitSide'
  <2>1. \A c \in Calls : Begun(c)' => Begun(c) /\ sock'[c] = sock[c]
    BY <1>1 DEF ExitLineKept, ExitSide
  <2> QED BY <1>1, <1>4, <2>1, ExitStays DEF ExitLineKept
<1>6. ClientSide'
  <2>1. \A c \in Calls : streams'[c] = c => streams[c] = c
    BY <1>4 DEF NoneOpened
  <2> QED BY <1>1, <2>1, ClientStays DEF ClientLineKept
<1> QED BY <1>2, <1>3, <1>5, <1>6 DEF IInv

\* The callbacks and the timers of the client.
LEMMA ConnectedKeeps ==
    ASSUME IdsSuffice, IInv, onConnected
    PROVE  IInv'
<1>1. Typed /\ Numbered /\ Lines /\ ClientSide
  BY DEF IInv
<1>2. /\ toClient # <<>> /\ toClient' = Tail(toClient) /\ back' = back
      /\ Head(toClient).cmd = "CONNECTED"
      /\ UNCHANGED <<nextStreamId, streams, idOf, closed, attached, sent, got, ended, refused, exit, toExit, shut>>
      /\ UNCHANGED <<sockets, sock, half, back, put>>
  BY DEF onConnected, FromExit, exit
<1>3. /\ timer' \in [Calls -> BOOLEAN] /\ \A c \in Calls : ~timer[c] => ~timer'[c]
      /\ promise' \in [Calls -> {"none", "pending", "resolved", "rejected"}]
      /\ \A c \in Calls : Opened(c)' <=> Opened(c)
  <2>1. CASE Entry = None
    BY <1>1, <2>1 DEF onConnected, Typed, Opened
  <2>2. CASE Entry # None
    BY <1>1, <2>2 DEF onConnected, Typed, Opened
  <2> QED BY <2>1, <2>2
<1>4. StillOpen
  BY <1>3 DEF StillOpen
<1>5. ClientLineKept /\ toClient' \in Seq(Wire)
  BY <1>1, <1>2, <1>4, TakenByClient DEF ClientLineKept
<1>6. Typed'
  BY <1>1, <1>2, <1>3, <1>5 DEF Typed
<1>7. NoneOpened
  BY <1>1, <1>2, <1>3 DEF NoneOpened, Numbered, Typed
<1> QED BY <1>1, <1>2, <1>4, <1>5, <1>6, <1>7, QuietStep, ExitLineSame DEF ClientSide
LEMMA EndKeeps ==
    ASSUME IdsSuffice, IInv, onEnd
    PROVE  IInv'
<1>1. Typed /\ Numbered /\ Lines /\ ClientSide
  BY DEF IInv
<1>2. /\ toClient # <<>> /\ toClient' = Tail(toClient) /\ back' = back
      /\ Head(toClient).cmd = "END"
      /\ UNCHANGED <<nextStreamId, idOf, promise, timer, attached, sent, got, exit, toExit, shut>>
      /\ UNCHANGED <<sockets, sock, half, back, put>>
  BY DEF onEnd, FromExit, exit
<1>3. StillOpen /\ \A c \in Calls : Opened(c)' <=> Opened(c)
  BY <1>2 DEF StillOpen, Opened
<1>4. ClientLineKept /\ toClient' \in Seq(Wire) /\ Head(toClient).id \in Ids
  BY <1>1, <1>2, <1>3, TakenByClient, CellsTyped DEF ClientLineKept
<1>5. /\ closed' \in [Calls -> BOOLEAN] /\ refused' \in [Calls -> BOOLEAN] /\ ended' \in [Calls -> BOOLEAN]
      /\ streams' \in [Ids -> Calls \cup {None}]
      /\ \A i \in Ids : streams'[i] \in {streams[i], None}
      /\ \A c \in Calls : ended'[c] => ended[c] \/ streams'[c] = None
      /\ \A c \in Calls : ~Opened(c) => ended'[c] = ended[c]
  <2>1. CASE Entry = None
    BY <1>1, <2>1 DEF onEnd, Typed
  <2>2. CASE Entry # None
    <3>1. Entry \in Calls /\ Head(toClient).id = Entry /\ Opened(Entry)
      BY <1>1, <1>4, <2>2 DEF Entry, Typed, Numbered
    <3>2. /\ closed' = [closed EXCEPT ![Entry] = TRUE]
          /\ streams' = [streams EXCEPT ![Head(toClient).id] = None]
          /\ ended' = [ended EXCEPT ![Entry] = attached[Entry]]
          /\ refused' = [refused EXCEPT ![Entry] = promise[Entry] = "pending"]
      BY <2>2 DEF onEnd
    <3>3. attached[Entry] \in BOOLEAN /\ (promise[Entry] = "pending") \in BOOLEAN
      BY <1>1, <3>1 DEF Typed
    <3>4. closed' \in [Calls -> BOOLEAN] /\ refused' \in [Calls -> BOOLEAN] /\ ended' \in [Calls -> BOOLEAN]
      BY <1>1, <3>2, <3>3 DEF Typed
    <3>5. /\ streams' \in [Ids -> Calls \cup {None}]
          /\ \A i \in Ids : streams'[i] \in {streams[i], None}
          /\ streams'[Entry] = None
      BY <1>1, <1>4, <3>1, <3>2 DEF Typed
    <3>6. \A c \in Calls : c # Entry => ended'[c] = ended[c]
      BY <1>1, <3>2 DEF Typed
    <3> QED BY <3>1, <3>4, <3>5, <3>6
  <2> QED BY <2>1, <2>2
<1>6. Typed'
  BY <1>1, <1>2, <1>4, <1>5 DEF Typed
<1>7. NoneOpened
  BY <1>1, <1>2, <1>3, <1>5 DEF NoneOpened
<1>8. \A c \in Calls : ended'[c] => streams'[c] = None
  <2>1. \A c \in Calls : c \in Ids
    BY StreamBounds DEF IdsSuffice, Calls, Ids
  <2> QED BY <1>1, <1>5, <2>1 DEF ClientSide
<1> QED BY <1>1, <1>2, <1>3, <1>4, <1>6, <1>7, <1>8, QuietStep, ExitLineSame

LEMMA TimeoutKeeps ==
    ASSUME IdsSuffice, IInv, NEW c \in Calls, connectTimeout(c)
    PROVE  IInv'
<1>1. Typed /\ Numbered /\ Lines /\ ClientSide
  BY DEF IInv
<1>2. /\ UNCHANGED <<nextStreamId, idOf, attached, sent, got, ended, refused, toClient, shut>>
      /\ UNCHANGED <<sockets, sock, half, back, put>> /\ timer' = [timer EXCEPT ![c] = FALSE]
      /\ timer[c]
  BY DEF connectTimeout, exit
<1>3. Opened(c) /\ idOf[c] = c /\ c \in Ids
  BY <1>1, <1>2, StreamBounds DEF Numbered, IdsSuffice, Calls, Ids
<1>4. /\ streams' \in [Ids -> Calls \cup {None}] /\ \A i \in Ids : streams'[i] \in {streams[i], None}
      /\ closed' \in [Calls -> BOOLEAN]
      /\ promise' \in [Calls -> {"none", "pending", "resolved", "rejected"}]
      /\ \A d \in Calls : Opened(d)' <=> Opened(d)
      /\ toExit' = toExit \/ toExit' = Append(toExit, Cell("END", c, 0))
  <2>1. CASE streams[idOf[c]] = None
    BY <1>1, <2>1 DEF connectTimeout, Typed, Opened
  <2>2. CASE streams[idOf[c]] # None
    <3>1. /\ streams' = [streams EXCEPT ![idOf[c]] = None]
          /\ closed' = [closed EXCEPT ![c] = TRUE]
          /\ promise' = [promise EXCEPT ![c] = "rejected"]
          /\ toExit' = toExit \/ toExit' = Append(toExit, Cell("END", c, 0))
      BY <2>2 DEF connectTimeout
    <3> QED BY <1>1, <1>3, <3>1 DEF Typed, Opened
  <2> QED BY <2>1, <2>2
<1>5. StillOpen
  BY <1>4 DEF StillOpen
<1>6. ExitLineKept /\ toExit' \in Seq(Wire)
  <2>1. CASE toExit' = toExit
    BY <1>1, <1>2, <1>5, <2>1, ExitLineSame DEF Typed
  <2>2. CASE toExit' = Append(toExit, Cell("END", c, 0))
    <3>1. PICK cell : cell = Cell("END", c, 0)
      OBVIOUS
    <3>2. cell \in Wire /\ cell.id = cell.call /\ cell.call = c /\ cell.cmd = "END"
      BY <1>3, <3>1 DEF Cell, Wire
    <3>3. Counted(cell, sent, sent') /\ sent' \in [Calls -> 0..MaxData]
      BY <1>1, <1>2, <3>2 DEF Counted, Typed
    <3> QED BY <1>1, <1>3, <1>5, <2>2, <3>1, <3>2, <3>3, SentToExit DEF ExitLineKept
  <2> QED BY <1>4, <2>1, <2>2
<1>7. Typed'
  BY <1>1, <1>2, <1>4, <1>6 DEF Typed
<1>8. NoneOpened
  BY <1>1, <1>2, <1>3, <1>4 DEF NoneOpened, Typed
<1>9. \A d \in Calls : ended'[d] => streams'[d] = None
  <2>1. \A d \in Calls : d \in Ids
    BY StreamBounds DEF IdsSuffice, Calls, Ids
  <2> QED BY <1>1, <1>2, <1>4, <2>1 DEF ClientSide
<1> QED BY <1>1, <1>2, <1>5, <1>6, <1>7, <1>8, <1>9, QuietStep, ClientLineSame

LEMMA AttachKeeps ==
    ASSUME IdsSuffice, IInv, NEW c \in Calls, attach(c)
    PROVE  IInv'
<1>1. Typed /\ Numbered /\ Lines /\ ClientSide
  BY DEF IInv
<1>2. /\ promise[c] = "resolved" /\ attached' = [attached EXCEPT ![c] = TRUE]
      /\ UNCHANGED <<nextStreamId, streams, idOf, promise, closed, timer, sent, got, ended,
                     refused, toExit, toClient, shut>>
      /\ UNCHANGED <<sockets, sock, half, back, put>>
  BY DEF attach, exit
<1>3. StillOpen /\ Opened(c) /\ \A d \in Calls : Opened(d)' <=> Opened(d)
  BY <1>2 DEF StillOpen, Opened
<1>4. Typed'
  BY <1>1, <1>2 DEF Typed
<1>5. NoneOpened
  BY <1>1, <1>2, <1>3 DEF NoneOpened, Typed
<1> QED BY <1>1, <1>2, <1>3, <1>4, <1>5, QuietStep, ExitLineSame, ClientLineSame DEF ClientSide

\* The caller of a stream sends, or ends it.
LEMMA SendKeeps ==
    ASSUME IdsSuffice, IInv, NEW c \in Calls, send(c) \/ end(c)
    PROVE  IInv'
<1>1. Typed /\ Numbered /\ Lines /\ ClientSide
  BY DEF IInv
<1>2. /\ attached[c]
      /\ UNCHANGED <<nextStreamId, idOf, promise, timer, attached, got, ended, refused, toClient, shut>>
      /\ UNCHANGED <<sockets, sock, half, back, put>>
  BY DEF send, end, exit
<1>3. StillOpen /\ Opened(c) /\ idOf[c] = c /\ c \in Ids /\ \A d \in Calls : Opened(d)' <=> Opened(d)
  BY <1>1, <1>2, StreamBounds DEF Numbered, IdsSuffice, Calls, Ids, StillOpen, Opened
<1>4. PICK cell \in Wire : /\ toExit' = Append(toExit, cell) /\ cell.id = cell.call /\ cell.call = c
                           /\ cell.cmd # "BEGIN" /\ Counted(cell, sent, sent')
                           /\ sent' \in [Calls -> 0..MaxData]
                           /\ \A d \in Calls : d # c => sent'[d] = sent[d]
  <2>1. CASE send(c)
    <3>1. PICK cell : cell = Cell("DATA", c, sent[c] + 1)
      OBVIOUS
    <3>2. sent[c] + 1 \in 0..MaxData /\ sent[c] + 1 \in Nat
      <4>1. sent \in [Calls -> 0..MaxData] /\ Total(sent) < MaxData
        BY <1>1, <2>1 DEF send, Typed
      <4>2. sent[c] + 1 \in 0..MaxData
        BY <4>1, TotalBounds
      <4> QED BY <4>2, StreamBounds
    <3>3. /\ cell \in Wire /\ cell.id = cell.call /\ cell.call = c /\ cell.cmd = "DATA"
          /\ cell.n = sent[c] + 1
      BY <1>3, <3>1, <3>2 DEF Cell, Wire
    <3>4. /\ sent' = [sent EXCEPT ![c] = sent[c] + 1] /\ toExit' = Append(toExit, cell)
      BY <2>1, <3>1 DEF send
    <3>5. /\ sent' \in [Calls -> 0..MaxData] /\ sent'[c] = cell.n
          /\ \A d \in Calls : d # c => sent'[d] = sent[d]
      BY <1>1, <3>2, <3>3, <3>4 DEF Typed
    <3> QED BY <3>3, <3>4, <3>5 DEF Counted
  <2>2. CASE end(c)
    <3>1. PICK cell : cell = Cell("END", c, 0)
      OBVIOUS
    <3>2. cell \in Wire /\ cell.id = cell.call /\ cell.call = c /\ cell.cmd = "END"
      BY <1>3, <3>1 DEF Cell, Wire
    <3>3. toExit' = Append(toExit, cell) /\ sent' = sent
      BY <2>2, <3>1 DEF end
    <3> QED BY <1>1, <3>2, <3>3 DEF Counted, Typed
  <2> QED BY <2>1, <2>2
<1>5. ExitLineKept /\ toExit' \in Seq(Wire)
  BY <1>1, <1>3, <1>4, SentToExit DEF ExitLineKept
<1>6. /\ streams' \in [Ids -> Calls \cup {None}] /\ \A i \in Ids : streams'[i] \in {streams[i], None}
      /\ closed' \in [Calls -> BOOLEAN]
  <2>1. CASE send(c)
    BY <1>1, <2>1 DEF send, Typed
  <2>2. CASE end(c)
    BY <1>1, <2>2 DEF end, Typed
  <2> QED BY <2>1, <2>2
<1>7. Typed'
  BY <1>1, <1>2, <1>4, <1>5, <1>6 DEF Typed
<1>8. NoneOpened
  <2>1. \A d \in Calls : ~Opened(d) => sent'[d] = sent[d]
    BY <1>3, <1>4
  <2> QED BY <1>1, <1>2, <1>3, <1>6, <2>1 DEF NoneOpened
<1>9. \A d \in Calls : ended'[d] => streams'[d] = None
  <2>1. \A d \in Calls : d \in Ids
    BY StreamBounds DEF IdsSuffice, Calls, Ids
  <2> QED BY <1>1, <1>2, <1>6, <2>1 DEF ClientSide
<1> QED BY <1>1, <1>2, <1>3, <1>5, <1>7, <1>8, <1>9, QuietStep, ClientLineSame
\* closeAll of the client.
LEMMA CloseAllStreamsKeeps ==
    ASSUME IdsSuffice, IInv, closeAllStreams
    PROVE  IInv'
<1>1. Typed /\ Numbered /\ Lines /\ ClientSide
  BY DEF IInv
<1> DEFINE open == {streams[i] : i \in Ids} \ {None}
<1>2. /\ shut' = TRUE /\ streams' = [i \in Ids |-> None]
      /\ closed' = [c \in Calls |-> closed[c] \/ c \in open]
      /\ ended' = [c \in Calls |-> ended[c] \/ (c \in open /\ attached[c])]
      /\ UNCHANGED <<nextStreamId, idOf, promise, timer, attached, sent, got, refused, toExit, toClient>>
      /\ UNCHANGED <<sockets, sock, half, back, put>>
  BY DEF closeAllStreams, exit
<1>3. StillOpen /\ \A d \in Calls : Opened(d)' <=> Opened(d)
  BY <1>2 DEF StillOpen, Opened
<1>4. \A c \in Calls : ~Opened(c) => ended'[c] = ended[c]
  <2> SUFFICES ASSUME NEW c \in Calls, ~Opened(c)
               PROVE  c \notin open
    BY <1>1, <1>2 DEF Typed
  <2> QED BY <1>1 DEF Numbered
<1>5. Typed'
  <2>1. closed' \in [Calls -> BOOLEAN] /\ ended' \in [Calls -> BOOLEAN]
    <3> HIDE DEF open
    <3> QED BY <1>2
  <2> HIDE DEF open
  <2> QED BY <1>1, <1>2, <2>1 DEF Typed
<1>6. NoneOpened
  <2> HIDE DEF open
  <2> QED BY <1>1, <1>2, <1>3, <1>4 DEF NoneOpened
<1>7. \A d \in Calls : ended'[d] => streams'[d] = None
  <2>1. \A d \in Calls : d \in Ids
    BY StreamBounds DEF IdsSuffice, Calls, Ids
  <2> HIDE DEF open
  <2> QED BY <1>2, <2>1
<1> HIDE DEF open
<1> QED BY <1>1, <1>2, <1>3, <1>5, <1>6, <1>7, QuietStep, ExitLineSame, ClientLineSame

\* What the sockets of the exit do.
LEMMA SockKeeps ==
    ASSUME IdsSuffice, IInv, NEW c \in Calls, sockConnect(c) \/ sockTimeout(c) \/ sockData(c) \/ sockEnd(c)
    PROVE  IInv'
<1>1. Typed /\ Numbered /\ Lines /\ ClientSide
  BY DEF IInv
<1>2. /\ sock[c] \in {"connecting", "connected"}
      /\ UNCHANGED <<nextStreamId, streams, idOf, promise, closed, timer, attached, sent, got, ended, refused>>
      /\ UNCHANGED <<half, put, toExit, shut>>
  BY DEF sockConnect, sockTimeout, sockData, sockEnd, client
<1>3. StillOpen /\ Opened(c) /\ idOf[c] = c /\ c \in Ids /\ \A d \in Calls : Opened(d)' <=> Opened(d)
  BY <1>1, <1>2, StreamBounds DEF Numbered, IdsSuffice, Calls, Ids, StillOpen, Opened
<1>4. /\ sock' \in [Calls -> {"none", "connecting", "connected", "dead"}]
      /\ \A d \in Calls : d # c => sock'[d] = sock[d]
      /\ sockets' \in [Ids -> Calls \cup {None}] /\ \A i \in Ids : sockets'[i] \in {sockets[i], None}
  <2>1. CASE sockEnd(c)
    BY <1>1, <2>1 DEF sockEnd, Typed
  <2>2. CASE sockData(c)
    BY <1>1, <2>2 DEF sockData, Typed
  <2>3. CASE sockConnect(c) \/ sockTimeout(c)
    BY <1>1, <2>3 DEF sockConnect, sockTimeout, Typed
  <2> QED BY <2>1, <2>2, <2>3
<1>5. /\ back' \in [Calls -> 0..MaxData]
      /\ \/ toClient' = toClient /\ back' = back
         \/ \E cell \in Wire : /\ toClient' = Append(toClient, cell) /\ cell.id = cell.call /\ cell.call = c
                               /\ Counted(cell, back, back')
  <2>0. back \in [Calls -> 0..MaxData]
    BY <1>1 DEF Typed
  <2>1. CASE sockTimeout(c)
    BY <2>0, <2>1 DEF sockTimeout
  <2>2. CASE sockConnect(c) \/ sockEnd(c)
    <3>1. PICK cmd \in {"CONNECTED", "END"} : toClient' = Append(toClient, Cell(cmd, c, 0))
      BY <2>2 DEF sockConnect, sockEnd
    <3>2. PICK cell : cell = Cell(cmd, c, 0)
      OBVIOUS
    <3>3. cell \in Wire /\ cell.id = cell.call /\ cell.call = c /\ cell.cmd # "DATA"
      BY <1>3, <3>2 DEF Cell, Wire
    <3>4. back' = back
      BY <2>2 DEF sockConnect, sockEnd
    <3> QED BY <2>0, <3>1, <3>2, <3>3, <3>4 DEF Counted
  <2>3. CASE sockData(c)
    <3>1. PICK cell : cell = Cell("DATA", c, back[c] + 1)
      OBVIOUS
    <3>2. back[c] + 1 \in 0..MaxData /\ back[c] + 1 \in Nat
      <4>1. Total(back) < MaxData
        BY <2>3 DEF sockData
      <4>2. back[c] + 1 \in 0..MaxData
        BY <2>0, <4>1, TotalBounds
      <4> QED BY <4>2, StreamBounds
    <3>3. /\ cell \in Wire /\ cell.id = cell.call /\ cell.call = c /\ cell.cmd = "DATA"
          /\ cell.n = back[c] + 1
      BY <1>3, <3>1, <3>2 DEF Cell, Wire
    <3>4. /\ back' = [back EXCEPT ![c] = back[c] + 1] /\ toClient' = Append(toClient, cell)
      BY <2>3, <3>1 DEF sockData
    <3>5. /\ back' \in [Calls -> 0..MaxData] /\ back'[c] = cell.n
          /\ \A d \in Calls : d # c => back'[d] = back[d]
      BY <2>0, <3>2, <3>3, <3>4
    <3> QED BY <3>3, <3>4, <3>5 DEF Counted
  <2> QED BY <2>1, <2>2, <2>3
<1>6. ClientLineKept /\ toClient' \in Seq(Wire)
  <2>1. CASE toClient' = toClient /\ back' = back
    BY <1>1, <1>3, <2>1, ClientLineSame DEF Typed
  <2>2. CASE toClient' # toClient \/ back' # back
    <3>1. PICK cell \in Wire : /\ toClient' = Append(toClient, cell) /\ cell.id = cell.call /\ cell.call = c
                               /\ Counted(cell, back, back')
      BY <1>5, <2>2
    <3> QED BY <1>1, <1>3, <1>5, <3>1, SentToClient DEF ClientLineKept
  <2> QED BY <2>1, <2>2
<1>7. Typed'
  BY <1>1, <1>2, <1>4, <1>5, <1>6 DEF Typed
<1>8. NoneOpened
  BY <1>1, <1>2, <1>3, <1>4 DEF NoneOpened
<1>9. \A d \in Calls : ended'[d] => streams'[d] = None
  BY <1>1, <1>2 DEF ClientSide
<1>10. \A d \in Calls : Begun(d) => sock'[d] = sock[d]
  BY <1>2, <1>4 DEF IInv, ExitSide
<1> QED BY <1>1, <1>2, <1>3, <1>4, <1>6, <1>7, <1>8, <1>9, <1>10, QuietStep, ExitLineSame

\* closeAll of the exit.
LEMMA CloseAllSocketsKeeps ==
    ASSUME IdsSuffice, IInv, closeAllSockets
    PROVE  IInv'
<1>1. Typed /\ Numbered /\ Lines /\ ClientSide
  BY DEF IInv
<1>2. /\ shut' = TRUE /\ sockets' = [i \in Ids |-> None]
      /\ sock' = [c \in Calls |-> IF \E i \in Ids : sockets[i] = c THEN "dead" ELSE sock[c]]
      /\ UNCHANGED <<nextStreamId, streams, idOf, promise, closed, timer, attached, sent, got, ended, refused>>
      /\ UNCHANGED <<half, back, put, toExit, toClient>>
  BY DEF closeAllSockets, client
<1>3. StillOpen /\ \A d \in Calls : Opened(d)' <=> Opened(d)
  BY <1>2 DEF StillOpen, Opened
<1>4. /\ sock' \in [Calls -> {"none", "connecting", "connected", "dead"}]
      /\ \A c \in Calls : sock'[c] \in {sock[c], "dead"}
  BY <1>1, <1>2 DEF Typed
<1>5. \A c \in Calls : Begun(c) \/ ~Opened(c) => sock'[c] = sock[c]
  <2> SUFFICES ASSUME NEW c \in Calls, Begun(c) \/ ~Opened(c)
               PROVE  ~\E i \in Ids : sockets[i] = c
    BY <1>2
  <2>1. c # None /\ c \in Ids
    BY StreamBounds DEF IdsSuffice, Calls, Ids, None
  <2>2. sockets[c] = None
    BY <1>1, <2>1 DEF IInv, ExitSide, Numbered
  <2> QED BY <1>1, <2>1, <2>2 DEF Numbered
<1>6. Typed'
  BY <1>1, <1>2, <1>4 DEF Typed
<1>7. NoneOpened
  BY <1>1, <1>2, <1>3, <1>5 DEF NoneOpened, Numbered
<1>8. \A d \in Calls : ended'[d] => streams'[d] = None
  BY <1>1, <1>2 DEF ClientSide
<1> QED BY <1>1, <1>2, <1>3, <1>4, <1>5, <1>6, <1>7, <1>8, QuietStep, ExitLineSame, ClientLineSame
\* The exit refuses a stream, or is told that one is over.
LEMMA ExitEndsKeeps ==
    ASSUME IdsSuffice, IInv, beginRefused \/ handleStreamEnd
    PROVE  IInv'
<1>1. Typed /\ Numbered /\ Lines /\ ClientSide
  BY DEF IInv
<1>2. /\ toExit # <<>> /\ toExit' = Tail(toExit) /\ Head(toExit).cmd \in {"BEGIN", "END"}
      /\ UNCHANGED <<nextStreamId, streams, idOf, promise, closed, timer, attached, sent, got, ended, refused>>
      /\ UNCHANGED <<sock, back, put, shut>>
  BY DEF beginRefused, handleStreamEnd, FromClient, client, exit
<1>3. StillOpen /\ \A d \in Calls : Opened(d)' <=> Opened(d)
  BY <1>2 DEF StillOpen, Opened
<1>4. /\ ExitLineKept /\ toExit' \in Seq(Wire)
      /\ Head(toExit) \in Wire /\ Head(toExit).id = Head(toExit).call /\ Opened(Head(toExit).call)
  BY <1>1, <1>2, <1>3, TakenByExit DEF ExitLineKept
<1>5. Head(toExit).id \in Ids /\ Head(toExit).call \in Calls /\ idOf[Head(toExit).call] = Head(toExit).call
  BY <1>1, <1>4, CellsTyped DEF Numbered
<1>6. /\ half' \in [Calls -> BOOLEAN] /\ sockets' \in [Ids -> Calls \cup {None}]
      /\ \A i \in Ids : sockets'[i] \in {sockets[i], None}
  <2>1. CASE beginRefused
    BY <1>1, <2>1 DEF beginRefused, exit, Typed
  <2>2. CASE handleStreamEnd
    <3>1. sockets' = [sockets EXCEPT ![Head(toExit).id] = None]
      BY <2>2 DEF handleStreamEnd
    <3>2. half' \in [Calls -> BOOLEAN]
      BY <1>1, <2>2 DEF handleStreamEnd, Typed
    <3> QED BY <1>1, <1>5, <3>1, <3>2 DEF Typed
  <2> QED BY <2>1, <2>2
<1>7. ClientLineKept /\ toClient' \in Seq(Wire)
  <2>1. CASE beginRefused
    <3>1. PICK cell : cell = Cell("END", Head(toExit).call, 0)
      OBVIOUS
    <3>2. cell \in Wire /\ cell.id = cell.call /\ cell.call = Head(toExit).call /\ cell.cmd = "END"
      BY <1>4, <1>5, <3>1 DEF Cell, Wire
    <3>3. toClient' = Append(toClient, cell)
      BY <2>1, <3>1 DEF beginRefused
    <3>4. Counted(cell, back, back') /\ back' \in [Calls -> 0..MaxData]
      BY <1>1, <1>2, <3>2 DEF Counted, Typed
    <3> QED BY <1>1, <1>3, <1>4, <3>2, <3>3, <3>4, SentToClient DEF ClientLineKept
  <2>2. CASE handleStreamEnd
    <3>1. UNCHANGED <<toClient, back>>
      BY <2>2 DEF handleStreamEnd
    <3> QED BY <1>1, <1>3, <3>1, ClientLineSame DEF Typed
  <2> QED BY <2>1, <2>2
<1>8. Typed'
  BY <1>1, <1>2, <1>4, <1>6, <1>7 DEF Typed
<1>9. NoneOpened
  BY <1>1, <1>2, <1>3, <1>6 DEF NoneOpened
<1>10. \A d \in Calls : ended'[d] => streams'[d] = None
  BY <1>1, <1>2 DEF ClientSide
<1> QED BY <1>1, <1>2, <1>3, <1>4, <1>6, <1>7, <1>8, <1>9, <1>10, QuietStep

-----------------------------------------------------------------------------
(* Steps that carry data, and that open                                    *)

\* RELAY_DATA for the client: nobody takes it, or the call it is of.
LEMMA DataKeeps ==
    ASSUME IdsSuffice, IInv, onData
    PROVE  IInv'
<1>1. Typed /\ Numbered /\ Lines /\ ClientSide /\ ExitSide
  BY DEF IInv
<1> DEFINE cell == Head(toClient)
<1>2. /\ toClient # <<>> /\ toClient' = Tail(toClient) /\ back' = back
      /\ cell.cmd = "DATA"
      /\ UNCHANGED <<nextStreamId, streams, idOf, promise, closed, timer, attached, sent, ended,
                     refused, toExit, shut>>
      /\ UNCHANGED <<sockets, sock, half, back, put>>
  BY DEF onData, FromExit, exit
<1>3. StillOpen /\ \A d \in Calls : Opened(d)' <=> Opened(d)
  BY <1>2 DEF StillOpen, Opened
<1>4. /\ toClient' \in Seq(Wire) /\ cell \in Wire /\ cell.id = cell.call /\ Opened(cell.call)
      /\ Carried(toClient)' /\ Ordered(toClient, back)'
      /\ \A c \in Calls, k \in Nat :
            AllFrom(toClient, c, k, back) /\ cell.call # c => AllFrom(toClient, c, k, back)'
      /\ AllFrom(toClient', cell.call, cell.n, back')
      /\ \A c \in Calls, k \in Nat :
            AllFrom(toClient, c, k, back) /\ cell.call = c => cell.n = k + 1
  BY <1>1, <1>2, <1>3, TakenByClient
<1>5. cell.call \in Calls /\ cell.n \in Nat /\ cell.id \in Ids
  BY <1>4, CellsTyped
<1>6. Entry \in {None, cell.call}
  BY <1>1, <1>4, <1>5 DEF Entry, Numbered
<1> HIDE DEF cell
<1>7. \/ got' = got
      \/ /\ streams[cell.call] = cell.call /\ attached[cell.call]
         /\ got' = [got EXCEPT ![cell.call] = Append(@, <<cell.call, cell.n>>)]
  BY <1>4, <1>6 DEF onData, Entry, cell
<1>8. got' \in [Calls -> Seq(Calls \X Nat)] /\ \A c \in Calls : c # cell.call => got'[c] = got[c]
  <2>1. \A c \in Calls : got[c] \in Seq(Calls \X Nat)
    BY <1>1 DEF Typed
  <2>2. Append(got[cell.call], <<cell.call, cell.n>>) \in Seq(Calls \X Nat)
    BY <1>5, <2>1
  <2>3. got \in [Calls -> Seq(Calls \X Nat)]
    BY <1>1 DEF Typed
  <2>4. CASE got' = got
    BY <2>3, <2>4
  <2>5. CASE got' = [got EXCEPT ![cell.call] = Append(@, <<cell.call, cell.n>>)]
    BY <1>5, <2>2, <2>3, <2>5
  <2> QED BY <1>7, <2>4, <2>5
<1>9. Typed'
  BY <1>1, <1>2, <1>4, <1>8 DEF Typed
<1>10. NoneOpened
  BY <1>1, <1>2, <1>3, <1>4, <1>8 DEF NoneOpened
<1>11. ExitSide' /\ ExitLineKept
  <2>1. ExitLineKept
    BY <1>1, <1>2, <1>3, ExitLineSame
  <2>2. ExitSide'
    BY <1>1, <1>2, <2>1, ExitStays DEF ExitLineKept
  <2> QED BY <2>1, <2>2
<1>12. Lines'
  BY <1>4, <1>11 DEF Lines, ExitLineKept
<1>13. ASSUME NEW c \in Calls
       PROVE  /\ \A k \in 1..Len(got'[c]) : got'[c][k] = <<c, got'[c][1][2] + k - 1>>
              /\ got'[c] # <<>> /\ streams'[c] = c => AllFrom(toClient, c, Last(got[c])[2], back)'
              /\ got'[c] # <<>> => attached'[c]
              /\ ended'[c] => streams'[c] = None
  <2>0. /\ \A k \in 1..Len(got[c]) : got[c][k] = <<c, got[c][1][2] + k - 1>>
        /\ got[c] # <<>> /\ streams[c] = c => AllFrom(toClient, c, Last(got[c])[2], back)
        /\ got[c] # <<>> => attached[c]
        /\ ended[c] => streams[c] = None
        /\ got[c] \in Seq(Calls \X Nat)
    BY <1>1 DEF ClientSide, Typed
  <2>1. got[c] # <<>> => Last(got[c])[2] \in Nat /\ got[c][1][2] \in Nat
    <3>1. got[c] # <<>> => got[c][Len(got[c])] \in Calls \X Nat /\ got[c][1] \in Calls \X Nat
      BY <2>0
    <3> QED BY <3>1 DEF Last
  <2>2. CASE c # cell.call
    <3>1. got'[c] = got[c]
      BY <1>8, <2>2
    <3>2. ASSUME got[c] # <<>>, streams[c] = c
          PROVE  AllFrom(toClient, c, Last(got[c])[2], back)'
      <4>1. PICK k \in Nat : k = Last(got[c])[2]
        BY <2>1, <3>2
      <4>2. AllFrom(toClient, c, k, back)'
        BY <1>4, <2>0, <2>2, <3>2, <4>1
      <4> QED BY <3>1, <4>1, <4>2
    <3> QED BY <1>2, <2>0, <3>1, <3>2
  <2>3. CASE c = cell.call /\ got' = got /\ streams[c] # c
    BY <1>2, <2>0, <2>3
  <2>4. CASE /\ c = cell.call /\ got' = [got EXCEPT ![c] = Append(@, <<c, cell.n>>)]
             /\ streams[c] = c /\ attached[c]
    <3>1. got'[c] = Append(got[c], <<c, cell.n>>)
      BY <1>1, <2>4 DEF Typed
    <3>2. /\ Len(got'[c]) = Len(got[c]) + 1 /\ Len(got[c]) \in Nat
          /\ \A k \in 1..Len(got[c]) : got'[c][k] = got[c][k]
          /\ got'[c][Len(got'[c])] = <<c, cell.n>>
      BY <2>0, <3>1
    <3>3. got[c] # <<>> => cell.n = got[c][1][2] + Len(got[c])
      <4>1. ASSUME got[c] # <<>>
            PROVE  cell.n = got[c][1][2] + Len(got[c])
        <5>1. PICK k \in Nat : k = Last(got[c])[2]
          BY <2>1, <4>1
        <5>2. cell.n = k + 1
          BY <1>4, <2>0, <2>4, <4>1, <5>1
        <5>3. Len(got[c]) \in 1..Len(got[c])
          BY <2>0, <4>1
        <5>4. Last(got[c]) = <<c, got[c][1][2] + Len(got[c]) - 1>>
          BY <2>0, <5>3 DEF Last
        <5>5. Last(got[c])[2] = got[c][1][2] + Len(got[c]) - 1
          BY <5>4
        <5> QED BY <2>1, <3>2, <4>1, <5>1, <5>2, <5>5
      <4> QED BY <4>1
    <3>4. got[c] = <<>> => Len(got[c]) = 0
      OBVIOUS
    <3>5. \A k \in 1..Len(got'[c]) : got'[c][k] = <<c, got'[c][1][2] + k - 1>>
      <4>1. CASE got[c] = <<>>
        <5>1. got'[c][1] = <<c, cell.n>> /\ Len(got'[c]) = 1
          BY <3>2, <3>4, <4>1
        <5>2. <<c, cell.n>>[2] + 1 - 1 = cell.n
          BY <1>5
        <5> QED BY <5>1, <5>2
      <4>2. CASE got[c] # <<>>
        <5>1. got'[c][1] = got[c][1]
          BY <2>0, <3>2, <4>2
        <5>2. \A k \in 1..Len(got[c]) : got'[c][k] = <<c, got'[c][1][2] + k - 1>>
          BY <2>0, <3>2, <5>1
        <5>3. got'[c][Len(got[c]) + 1] = <<c, got'[c][1][2] + (Len(got[c]) + 1) - 1>>
          BY <2>1, <3>2, <3>3, <4>2, <5>1
        <5> QED BY <3>2, <5>2, <5>3
      <4> QED BY <4>1, <4>2
    <3>6. Last(got'[c])[2] = cell.n
      BY <3>2 DEF Last
    <3>7. AllFrom(toClient, c, Last(got[c])[2], back)'
      BY <1>4, <2>4, <3>6
    <3> QED BY <1>2, <2>0, <2>4, <3>5, <3>7
  <2>5. CASE c = cell.call /\ got' = got /\ streams[c] = c
    <3>1. ~attached[c]
      <4>1. Entry = c
        BY <1>4, <2>5 DEF Entry, cell
      <4>2. c # None
        BY DEF Calls, None
      <4>3. ASSUME attached[c]
            PROVE  FALSE
        <5>1. got' = [got EXCEPT ![c] = Append(@, <<Head(toClient).call, Head(toClient).n>>)]
          BY <4>1, <4>2, <4>3 DEF onData
        <5>2. got'[c] = Append(got[c], <<Head(toClient).call, Head(toClient).n>>)
          BY <1>1, <5>1 DEF Typed
        <5>3. Len(got'[c]) = Len(got[c]) + 1 /\ Len(got[c]) \in Nat
          BY <2>0, <5>2
        <5> QED BY <2>5, <5>3
      <4> QED BY <4>3
    <3>2. got[c] = <<>>
      BY <2>0, <3>1
    <3> QED BY <1>2, <2>0, <2>5, <3>2
  <2> QED BY <1>7, <2>2, <2>3, <2>4, <2>5
<1>14. ClientSide'
  BY <1>13 DEF ClientSide
<1>15. Numbered'
  BY <1>1, <1>10, NumberedStays
<1> QED BY <1>9, <1>11, <1>12, <1>14, <1>15 DEF IInv
\* RELAY_DATA for the exit: nobody takes it, or the socket of its call.
LEMMA StreamDataKeeps ==
    ASSUME IdsSuffice, IInv, handleStreamData
    PROVE  IInv'
<1>1. Typed /\ Numbered /\ Lines /\ ClientSide /\ ExitSide
  BY DEF IInv
<1> DEFINE cell == Head(toExit)
<1>2. /\ toExit # <<>> /\ toExit' = Tail(toExit) /\ cell.cmd = "DATA"
      /\ UNCHANGED <<nextStreamId, streams, idOf, promise, closed, timer, attached, sent, got, ended, refused>>
      /\ UNCHANGED <<sockets, sock, half, back, toClient, shut>>
  BY DEF handleStreamData, FromClient, client
<1>3. StillOpen /\ \A d \in Calls : Opened(d)' <=> Opened(d)
  BY <1>2 DEF StillOpen, Opened
<1>4. /\ toExit' \in Seq(Wire) /\ cell \in Wire /\ cell.id = cell.call /\ Opened(cell.call)
      /\ Carried(toExit)' /\ Ordered(toExit, sent)' /\ BeginFirst(toExit)'
      /\ \A c \in Calls : Begun(c)' => Begun(c) /\ cell.call # c
      /\ \A c \in Calls, k \in Nat :
            AllFrom(toExit, c, k, sent) /\ cell.call # c => AllFrom(toExit, c, k, sent)'
      /\ AllFrom(toExit', cell.call, cell.n, sent')
      /\ \A c \in Calls, k \in Nat : AllFrom(toExit, c, k, sent) /\ cell.call = c => cell.n = k + 1
  BY <1>1, <1>2, <1>3, TakenByExit
<1>5. cell.call \in Calls /\ cell.n \in Nat /\ cell.id \in Ids /\ cell.call # None
  BY <1>4, CellsTyped DEF Calls, None
<1> HIDE DEF cell
<1>6. \/ put' = put /\ ~Takes(cell.call)
      \/ /\ Takes(cell.call) /\ put' = [put EXCEPT ![cell.call] = Append(@, <<cell.call, cell.n>>)]
  <2>1. sockets[cell.id] \in {None, cell.call}
    BY <1>1, <1>4, <1>5 DEF Numbered
  <2> QED BY <1>4, <1>5, <2>1 DEF handleStreamData, Takes, cell
<1>7. put' \in [Calls -> Seq(Calls \X Nat)] /\ \A c \in Calls : c # cell.call => put'[c] = put[c]
  <2>1. put \in [Calls -> Seq(Calls \X Nat)]
    BY <1>1 DEF Typed
  <2>2. Append(put[cell.call], <<cell.call, cell.n>>) \in Seq(Calls \X Nat)
    <3>1. put[cell.call] \in Seq(Calls \X Nat)
      BY <1>5, <2>1
    <3> QED BY <1>5, <3>1
  <2>3. CASE put' = put
    BY <2>1, <2>3
  <2>4. CASE put' = [put EXCEPT ![cell.call] = Append(@, <<cell.call, cell.n>>)]
    BY <1>5, <2>1, <2>2, <2>4
  <2> QED BY <1>6, <2>3, <2>4
<1>8. Typed'
  BY <1>1, <1>2, <1>4, <1>7 DEF Typed
<1>9. NoneOpened
  BY <1>1, <1>2, <1>3, <1>4, <1>7 DEF NoneOpened
<1>10. ClientSide' /\ ClientLineKept
  <2>1. ClientLineKept
    BY <1>1, <1>2, <1>3, ClientLineSame
  <2>2. ClientSide'
    BY <1>1, <1>2, <2>1, ClientStays DEF ClientLineKept, ClientSide
  <2> QED BY <2>1, <2>2
<1>11. Lines'
  BY <1>4, <1>10 DEF Lines, ClientLineKept
<1>12. ASSUME NEW c \in Calls
       PROVE  /\ Begun(c)' => sockets'[c] = None /\ sock'[c] = "none" /\ put'[c] = <<>>
              /\ Begun(c)' \/ Takes(c)' => AllFrom(toExit, c, Len(put[c]), sent)'
              /\ \A k \in 1..Len(put'[c]) : put'[c][k] = <<c, k>>
  <2>0. /\ Begun(c) => sockets[c] = None /\ sock[c] = "none" /\ put[c] = <<>>
        /\ Begun(c) \/ Takes(c) => AllFrom(toExit, c, Len(put[c]), sent)
        /\ \A k \in 1..Len(put[c]) : put[c][k] = <<c, k>>
        /\ put[c] \in Seq(Calls \X Nat) /\ Len(put[c]) \in Nat
    <3>1. put \in [Calls -> Seq(Calls \X Nat)]
      BY <1>1 DEF Typed
    <3>2. /\ Begun(c) => sockets[c] = None /\ sock[c] = "none" /\ put[c] = <<>>
          /\ Begun(c) \/ Takes(c) => AllFrom(toExit, c, Len(put[c]), sent)
          /\ \A k \in 1..Len(put[c]) : put[c][k] = <<c, k>>
      BY <1>1 DEF ExitSide
    <3> QED BY <3>1, <3>2
  <2>1. (Begun(c)' => Begun(c)) /\ (Takes(c)' <=> Takes(c))
    BY <1>2, <1>4 DEF Takes
  <2>2. CASE c # cell.call
    <3>1. put'[c] = put[c]
      BY <1>7, <2>2
    <3>2. ASSUME Begun(c)' \/ Takes(c)'
          PROVE  AllFrom(toExit, c, Len(put[c]), sent)'
      <4>1. PICK k \in Nat : k = Len(put[c])
        BY <2>0
      <4>2. AllFrom(toExit, c, k, sent)'
        BY <1>4, <2>0, <2>1, <2>2, <3>2, <4>1
      <4> QED BY <3>1, <4>1, <4>2
    <3> QED BY <1>2, <2>0, <2>1, <3>1, <3>2
  <2>3. CASE c = cell.call /\ put' = put /\ ~Takes(c)
    BY <1>2, <1>4, <2>0, <2>1, <2>3
  <2>4. CASE /\ c = cell.call /\ Takes(c) /\ put' = [put EXCEPT ![c] = Append(@, <<c, cell.n>>)]
    <3>1. put'[c] = Append(put[c], <<c, cell.n>>)
      BY <1>1, <2>4 DEF Typed
    <3>2. /\ Len(put'[c]) = Len(put[c]) + 1
          /\ \A k \in 1..Len(put[c]) : put'[c][k] = put[c][k]
          /\ put'[c][Len(put[c]) + 1] = <<c, cell.n>>
      BY <2>0, <3>1
    <3>3. cell.n = Len(put[c]) + 1
      <4>1. PICK k \in Nat : k = Len(put[c])
        BY <2>0
      <4>2. AllFrom(toExit, c, k, sent)
        BY <2>0, <2>4, <4>1
      <4> QED BY <1>4, <2>4, <4>1, <4>2
    <3>4. \A k \in 1..Len(put'[c]) : put'[c][k] = <<c, k>>
      BY <2>0, <3>2, <3>3, SMTT(30)
    <3>5. Len(put'[c]) = cell.n
      BY <3>2, <3>3
    <3>6. AllFrom(toExit, c, Len(put[c]), sent)'
      BY <1>4, <2>4, <3>5
    <3> QED BY <1>4, <2>4, <3>4, <3>6
  <2> QED BY <1>6, <2>2, <2>3, <2>4
<1>13. ExitSide'
  BY <1>12 DEF ExitSide
<1>14. Numbered'
  BY <1>1, <1>9, NumberedStays
<1> QED BY <1>8, <1>10, <1>11, <1>13, <1>14 DEF IInv

\* The exit takes a BEGIN: data of that call comes next.
LEMMA BeginAcceptedKeeps ==
    ASSUME IdsSuffice, IInv, beginAccepted
    PROVE  IInv'
<1>1. Typed /\ Numbered /\ Lines /\ ClientSide /\ ExitSide
  BY DEF IInv
<1> DEFINE b == Head(toExit).call
<1>2. /\ toExit # <<>> /\ toExit' = Tail(toExit) /\ Head(toExit).cmd = "BEGIN"
      /\ sockets' = [sockets EXCEPT ![Head(toExit).id] = b]
      /\ sock' = [sock EXCEPT ![b] = "connecting"]
      /\ UNCHANGED <<nextStreamId, streams, idOf, promise, closed, timer, attached, sent, got, ended, refused>>
      /\ UNCHANGED <<half, back, put, toClient, shut>>
  BY DEF beginAccepted, FromClient, client
<1>3. StillOpen /\ \A d \in Calls : Opened(d)' <=> Opened(d)
  BY <1>2 DEF StillOpen, Opened
<1>4. /\ toExit' \in Seq(Wire) /\ Head(toExit) \in Wire /\ Head(toExit).id = b /\ Opened(b)
      /\ Carried(toExit)' /\ Ordered(toExit, sent)' /\ BeginFirst(toExit)'
      /\ Begun(b) /\ \A c \in Calls : Begun(c)' => Begun(c) /\ c # b
      /\ \A c \in Calls, k \in Nat : AllFrom(toExit, c, k, sent) => AllFrom(toExit, c, k, sent)'
  BY <1>1, <1>2, <1>3, TakenByExit
<1>5. b \in Calls /\ b \in Ids /\ b # None
  BY <1>4, CellsTyped DEF Calls, None
<1> HIDE DEF b
<1>6. /\ sockets' \in [Ids -> Calls \cup {None}] /\ sockets'[b] = b
      /\ \A i \in Ids : i # b => sockets'[i] = sockets[i]
      /\ sock' \in [Calls -> {"none", "connecting", "connected", "dead"}] /\ sock'[b] = "connecting"
      /\ \A c \in Calls : c # b => sock'[c] = sock[c]
  BY <1>1, <1>2, <1>4, <1>5 DEF Typed
<1>7. Typed'
  BY <1>1, <1>2, <1>4, <1>6 DEF Typed
<1>8. NoneOpened
  BY <1>1, <1>2, <1>3, <1>4, <1>5, <1>6 DEF NoneOpened
<1>9. ClientSide' /\ ClientLineKept
  <2>1. ClientLineKept
    BY <1>1, <1>2, <1>3, ClientLineSame
  <2>2. ClientSide'
    BY <1>1, <1>2, <2>1, ClientStays DEF ClientLineKept, ClientSide
  <2> QED BY <2>1, <2>2
<1>10. Lines'
  BY <1>4, <1>9 DEF Lines, ClientLineKept
<1>11. ASSUME NEW c \in Calls
       PROVE  /\ Begun(c)' => sockets'[c] = None /\ sock'[c] = "none" /\ put'[c] = <<>>
              /\ Begun(c)' \/ Takes(c)' => AllFrom(toExit, c, Len(put[c]), sent)'
              /\ \A k \in 1..Len(put'[c]) : put'[c][k] = <<c, k>>
  <2>0. /\ Begun(c) => sockets[c] = None /\ sock[c] = "none" /\ put[c] = <<>>
        /\ Begun(c) \/ Takes(c) => AllFrom(toExit, c, Len(put[c]), sent)
        /\ \A k \in 1..Len(put[c]) : put[c][k] = <<c, k>>
        /\ Len(put[c]) \in Nat /\ c \in Ids
    <3>1. put \in [Calls -> Seq(Calls \X Nat)]
      BY <1>1 DEF Typed
    <3>2. /\ Begun(c) => sockets[c] = None /\ sock[c] = "none" /\ put[c] = <<>>
          /\ Begun(c) \/ Takes(c) => AllFrom(toExit, c, Len(put[c]), sent)
          /\ \A k \in 1..Len(put[c]) : put[c][k] = <<c, k>>
      BY <1>1 DEF ExitSide
    <3>3. c \in Ids
      BY StreamBounds DEF IdsSuffice, Calls, Ids
    <3> QED BY <3>1, <3>2, <3>3
  <2>1. Begun(c)' \/ Takes(c)' => Begun(c) \/ Takes(c)
    BY <1>4, <1>6, <2>0 DEF Takes
  <2>2. ASSUME Begun(c) \/ Takes(c)
        PROVE  AllFrom(toExit, c, Len(put[c]), sent)'
    <3>1. PICK k \in Nat : k = Len(put[c])
      BY <2>0
    <3>2. AllFrom(toExit, c, k, sent)'
      BY <1>4, <2>0, <2>2, <3>1
    <3> QED BY <1>2, <3>1, <3>2
  <2> QED BY <1>2, <1>4, <1>6, <2>0, <2>1, <2>2
<1>12. ExitSide'
  BY <1>11 DEF ExitSide
<1>13. Numbered'
  BY <1>1, <1>8, NumberedStays
<1> QED BY <1>7, <1>9, <1>10, <1>12, <1>13 DEF IInv

\* A stream is opened, under an id of its own.
LEMMA OpenKeeps ==
    ASSUME IdsSuffice, IInv, NEW c \in Calls, openStream(c)
    PROVE  IInv'
<1>1. Typed /\ Numbered /\ Lines /\ ClientSide /\ ExitSide
  BY DEF IInv
<1>2. /\ promise[c] = "none" /\ ~Opened(c) /\ \A d \in 1..(c - 1) : Opened(d)
      /\ nextStreamId' = allocStreamId(nextStreamId)
      /\ idOf' = [idOf EXCEPT ![c] = nextStreamId]
      /\ streams' = [streams EXCEPT ![nextStreamId] = c]
      /\ promise' = [promise EXCEPT ![c] = "pending"]
      /\ timer' = [timer EXCEPT ![c] = TRUE]
      /\ UNCHANGED <<closed, attached, sent, got, ended, refused, toClient, shut>>
      /\ UNCHANGED <<sockets, sock, half, back, put>>
  BY DEF openStream, Opened, exit
<1>3. nextStreamId = c
  BY <1>1, <1>2 DEF Numbered
<1>4. /\ Calls = 1..MaxCalls /\ Ids = 1..MaxId /\ MaxCalls \in Nat /\ MaxId \in Nat /\ MaxCalls <= MaxId
      /\ \A d \in Calls : d \in Ids /\ d # None
  BY StreamBounds DEF Calls, Ids, IdsSuffice, None
<1>5. PICK cell : cell = [cmd |-> "BEGIN", id |-> nextStreamId, call |-> c, n |-> 0]
  OBVIOUS
<1>6. toExit' = Append(toExit, cell)
  BY <1>5 DEF openStream
<1>7. cell \in Wire /\ cell.id = c /\ cell.call = c /\ cell.cmd = "BEGIN"
  BY <1>3, <1>4, <1>5 DEF Wire
<1>8. /\ Opened(c)' /\ \A d \in Calls : d # c => (Opened(d)' <=> Opened(d))
      /\ idOf'[c] = c /\ \A d \in Calls : d # c => idOf'[d] = idOf[d]
      /\ streams'[c] = c /\ \A i \in Ids : i # c => streams'[i] = streams[i]
      /\ \A d \in Calls : d # c => timer'[d] = timer[d]
  BY <1>1, <1>2, <1>3, <1>4 DEF Typed, Opened
<1>9. StillOpen
  BY <1>8 DEF StillOpen
<1>10. /\ sock[c] = "none" /\ sent[c] = 0 /\ got[c] = <<>> /\ put[c] = <<>> /\ ~ended[c]
       /\ sockets[c] = None /\ \A d \in Calls : Opened(d) => d < c
  <2>1. \A d \in Calls : Opened(d) => d < c
    <3> SUFFICES ASSUME NEW d \in Calls, Opened(d), ~(d < c)
                 PROVE  FALSE
      OBVIOUS
    <3>1. d = c \/ c \in 1..(d - 1)
      BY <1>4
    <3> QED BY <1>1, <1>2, <3>1 DEF Numbered
  <2> QED BY <1>1, <1>2, <1>4, <2>1 DEF Numbered
<1>11. Typed'
  <2>1. toExit' \in Seq(Wire)
    BY <1>1, <1>6, <1>7 DEF Typed
  <2>2. allocStreamId(c) \in Ids
    BY <1>4 DEF allocStreamId
  <2> QED BY <1>1, <1>2, <1>3, <1>4, <2>1, <2>2 DEF Typed
<1>12. Numbered'
  <2>1. ASSUME NEW d \in Calls, Opened(d)'
        PROVE  idOf'[d] = d /\ \A e \in 1..(d - 1) : Opened(e)'
    <3>1. \A e \in 1..(d - 1) : e \in Calls
      BY <1>4
    <3>2. d # c => Opened(d) /\ idOf[d] = d /\ \A e \in 1..(d - 1) : Opened(e)
      BY <1>1, <1>8, <2>1 DEF Numbered
    <3>3. \A e \in 1..(d - 1) : Opened(e)
      BY <1>2, <3>2
    <3> QED BY <1>8, <1>9, <3>1, <3>2, <3>3 DEF StillOpen
  <2>2. ASSUME NEW d \in Calls, ~Opened(d)', \A e \in 1..(d - 1) : Opened(e)'
        PROVE  nextStreamId' = d
    <3>1. d # c /\ ~Opened(d)
      BY <1>8, <2>2
    <3>2. ~(d < c)
      <4>1. d < c => d \in 1..(c - 1)
        BY <1>4
      <4> QED BY <1>2, <3>1, <4>1
    <3>3. ~(c + 1 < d)
      <4>1. c + 1 < d => c + 1 \in 1..(d - 1) /\ c + 1 \in Calls
        BY <1>4
      <4>2. c + 1 < d => ~(c + 1 < c) /\ c + 1 # c
        BY <1>4
      <4> QED BY <1>8, <1>10, <2>2, <4>1, <4>2
    <3>4. d = c + 1
      BY <1>4, <3>1, <3>2, <3>3
    <3> QED BY <1>2, <1>3, <1>4, <3>4 DEF allocStreamId
  <2>3. ASSUME NEW d \in Calls, ~Opened(d)'
        PROVE  /\ ~attached'[d] /\ ~timer'[d] /\ ~ended'[d]
               /\ sock'[d] = "none" /\ sent'[d] = 0 /\ got'[d] = <<>> /\ put'[d] = <<>>
    <3>1. d # c /\ ~Opened(d)
      BY <1>8, <2>3
    <3> QED BY <1>1, <1>2, <1>8, <3>1 DEF Numbered
  <2>4. \A i \in Ids : streams[i] # None => i \in Calls
    BY <1>1 DEF Numbered, Typed
  <2>5. \A i \in Ids : sockets[i] # None => i \in Calls
    BY <1>1 DEF Numbered, Typed
  <2>6. \A i \in Ids : streams'[i] # None => streams'[i] = i /\ Opened(i)'
    BY <1>1, <1>8, <1>9, <2>4 DEF Numbered, StillOpen
  <2>7. \A i \in Ids : sockets'[i] # None => sockets'[i] = i /\ Opened(i)'
    BY <1>1, <1>2, <1>9, <2>5 DEF Numbered, StillOpen
  <2> QED BY <2>1, <2>2, <2>3, <2>6, <2>7 DEF Numbered
<1>13. /\ toExit \in Seq(Wire) /\ sent \in [Calls -> 0..MaxData]
       /\ \A i \in 1..Len(toExit) : toExit[i].call # c
  BY <1>1, <1>2 DEF Typed, Lines, Carried
<1>14. /\ Len(toExit') = Len(toExit) + 1 /\ Len(toExit) \in Nat
       /\ \A i \in 1..Len(toExit) : toExit'[i] = toExit[i]
       /\ toExit'[Len(toExit')] = cell
       /\ \A i \in 1..Len(toExit') : i \in 1..Len(toExit) \/ i = Len(toExit')
  BY <1>6, <1>13
<1>15. /\ Ordered(toExit, sent)'
       /\ \A d \in Calls, k \in Nat : AllFrom(toExit, d, k, sent) => AllFrom(toExit, d, k, sent)'
  <2>1. PICK longer : longer = Append(toExit, cell)
    OBVIOUS
  <2>2. Counted(cell, sent, sent)
    BY <1>7 DEF Counted
  <2>3. /\ Ordered(longer, sent)
        /\ \A d \in Calls, k \in Nat : AllFrom(toExit, d, k, sent) => AllFrom(longer, d, k, sent)
    BY <1>1, <1>7, <1>13, <2>1, <2>2, LineAppend DEF Lines
  <2>4. toExit' = longer /\ sent' = sent
    BY <1>2, <1>6, <2>1
  <2> QED BY <2>3, <2>4 DEF Ordered
<1>16. BeginFirst(toExit)' /\ Carried(toExit)'
  <2>1. BeginFirst(toExit')
    BY <1>1, <1>7, <1>13, <1>14 DEF Lines, BeginFirst
  <2>2. ASSUME NEW i \in 1..Len(toExit')
        PROVE  (toExit[i].id = toExit[i].call /\ Opened(toExit[i].call))'
    <3>1. CASE i \in 1..Len(toExit)
      <4>1. toExit'[i] = toExit[i]
        BY <1>14, <3>1
      <4>2. PICK d \in Calls : d = toExit[i].call
        BY <1>13, <3>1, CellsTyped
      <4>3. toExit[i].id = d /\ Opened(d)
        BY <1>1, <3>1, <4>2 DEF Lines, Carried
      <4>4. Opened(d)'
        BY <1>9, <4>3 DEF StillOpen
      <4> QED BY <4>1, <4>2, <4>3, <4>4 DEF Opened
    <3>2. CASE i = Len(toExit')
      <4>1. toExit'[i] = cell
        BY <1>14, <3>2
      <4> QED BY <1>7, <1>8, <4>1 DEF Opened
    <3> QED BY <1>14, <3>1, <3>2
  <2>3. Carried(toExit)'
    BY <2>2 DEF Carried, Opened
  <2>4. BeginFirst(toExit)'
    BY <2>1 DEF BeginFirst
  <2> QED BY <2>3, <2>4
<1>17. ClientLineKept
  BY <1>1, <1>2, <1>9, ClientLineSame
<1>18. Lines'
  BY <1>15, <1>16, <1>17 DEF Lines, ClientLineKept
<1>19. ClientSide'
  <2>1. \A d \in Calls : streams'[d] = d => streams[d] = d \/ got[d] = <<>>
    BY <1>4, <1>8, <1>10
  <2>2. \A d \in Calls : ended'[d] => streams'[d] = None
    BY <1>1, <1>2, <1>4, <1>8, <1>10 DEF ClientSide
  <2> QED BY <1>1, <1>2, <1>17, <2>1, <2>2, ClientStays DEF ClientLineKept
<1>20. ASSUME NEW d \in Calls
       PROVE  /\ Begun(d)' => sockets'[d] = None /\ sock'[d] = "none" /\ put'[d] = <<>>
              /\ Begun(d)' \/ Takes(d)' => AllFrom(toExit, d, Len(put[d]), sent)'
              /\ \A k \in 1..Len(put'[d]) : put'[d][k] = <<d, k>>
  <2>0. /\ Begun(d) => sockets[d] = None /\ sock[d] = "none" /\ put[d] = <<>>
        /\ Begun(d) \/ Takes(d) => AllFrom(toExit, d, Len(put[d]), sent)
        /\ \A k \in 1..Len(put[d]) : put[d][k] = <<d, k>>
        /\ Len(put[d]) \in Nat
    <3>1. put \in [Calls -> Seq(Calls \X Nat)]
      BY <1>1 DEF Typed
    <3>2. /\ Begun(d) => sockets[d] = None /\ sock[d] = "none" /\ put[d] = <<>>
          /\ Begun(d) \/ Takes(d) => AllFrom(toExit, d, Len(put[d]), sent)
          /\ \A k \in 1..Len(put[d]) : put[d][k] = <<d, k>>
      BY <1>1 DEF ExitSide
    <3>3. Len(put[d]) \in Nat
      <4>1. put[d] \in Seq(Calls \X Nat)
        BY <3>1
      <4> QED BY <4>1
    <3> QED BY <3>2, <3>3
  <2>1. CASE d = c
    <3>1. Len(put[c]) = 0
      BY <1>10
    <3>2. AllFrom(toExit, c, 0, sent)
      BY <1>10, <1>13 DEF AllFrom
    <3>3. AllFrom(toExit, c, 0, sent)'
      BY <1>15, <3>2
    <3> QED BY <1>2, <1>10, <2>0, <2>1, <3>1, <3>3
  <2>2. CASE d # c
    <3>1. Begun(d)' => Begun(d)
      BY <1>7, <1>14, <2>2 DEF Begun
    <3>2. Takes(d)' <=> Takes(d)
      BY <1>2 DEF Takes
    <3>3. ASSUME Begun(d) \/ Takes(d)
          PROVE  AllFrom(toExit, d, Len(put[d]), sent)'
      <4>1. PICK k \in Nat : k = Len(put[d])
        BY <2>0
      <4>2. AllFrom(toExit, d, k, sent)'
        BY <1>15, <2>0, <3>3, <4>1
      <4> QED BY <1>2, <4>1, <4>2
    <3> QED BY <1>2, <2>0, <3>1, <3>2, <3>3
  <2> QED BY <2>1, <2>2
<1>21. ExitSide'
  BY <1>20 DEF ExitSide
<1> QED BY <1>11, <1>12, <1>18, <1>19, <1>21 DEF IInv
-----------------------------------------------------------------------------
(* The theorems                                                            *)

LEMMA InitHolds == IdsSuffice /\ Init => IInv
<1> SUFFICES ASSUME IdsSuffice, Init
             PROVE  IInv
  OBVIOUS
<1>1. /\ nextStreamId = 1 /\ shut = FALSE /\ toExit = <<>> /\ toClient = <<>>
      /\ streams = [i \in Ids |-> None] /\ sockets = [i \in Ids |-> None]
      /\ idOf = [c \in Calls |-> None]
      /\ sent = [c \in Calls |-> None] /\ back = [c \in Calls |-> None]
      /\ promise = [c \in Calls |-> "none"] /\ sock = [c \in Calls |-> "none"]
      /\ closed = [c \in Calls |-> FALSE] /\ timer = [c \in Calls |-> FALSE]
      /\ attached = [c \in Calls |-> FALSE] /\ ended = [c \in Calls |-> FALSE]
      /\ refused = [c \in Calls |-> FALSE] /\ half = [c \in Calls |-> FALSE]
      /\ got = [c \in Calls |-> <<>>] /\ put = [c \in Calls |-> <<>>]
  BY DEF Init
<1>2. /\ \A c \in Calls :
           /\ ~Opened(c) /\ got[c] = <<>> /\ put[c] = <<>> /\ sent[c] = 0
           /\ ~attached[c] /\ ~timer[c] /\ ~ended[c] /\ sock[c] = "none" /\ ~Begun(c)
      /\ \A i \in Ids : streams[i] = None /\ sockets[i] = None
  BY <1>1 DEF Opened, Begun, None
<1>3. /\ Calls = 1..MaxCalls /\ MaxCalls \in Nat /\ 1 \in Ids /\ None \in 0..MaxData
      /\ \A c \in Calls : c \in Ids /\ c # None
  BY StreamBounds DEF Calls, Ids, IdsSuffice, None
<1>4. Typed
  <2>1. got \in [Calls -> Seq(Calls \X Nat)] /\ put \in [Calls -> Seq(Calls \X Nat)]
    BY <1>1
  <2>2. toExit \in Seq(Wire) /\ toClient \in Seq(Wire)
    BY <1>1
  <2> QED BY <1>1, <1>3, <2>1, <2>2 DEF Typed
<1>5. Numbered
  <2>1. ASSUME NEW c \in Calls, \A d \in 1..(c - 1) : Opened(d)
        PROVE  c = 1
    <3>1. c # 1 => c - 1 \in 1..(c - 1) /\ c - 1 \in Calls
      BY <1>3
    <3> QED BY <1>2, <2>1, <3>1
  <2> QED BY <1>1, <1>2, <2>1 DEF Numbered
<1>6. Lines
  BY <1>1 DEF Lines, Carried, Ordered, Sorted, NoGap, BeginFirst
<1>7. ExitSide
  BY <1>2, <1>3 DEF ExitSide, Takes
<1>8. ClientSide
  BY <1>2 DEF ClientSide
<1> QED BY <1>4, <1>5, <1>6, <1>7, <1>8 DEF IInv

LEMMA NextKeeps == IdsSuffice /\ IInv /\ [Next]_vars => IInv'
<1> SUFFICES ASSUME IdsSuffice, IInv, [Next]_vars
             PROVE  IInv'
  OBVIOUS
<1>1. CASE ClientHandles
  BY <1>1, ConnectedKeeps, DataKeeps, EndKeeps DEF ClientHandles
<1>2. CASE ExitHandles
  BY <1>2, ExitEndsKeeps, BeginAcceptedKeeps, StreamDataKeeps DEF ExitHandles
<1>3. CASE closeAllStreams
  BY <1>3, CloseAllStreamsKeeps
<1>4. CASE closeAllSockets
  BY <1>4, CloseAllSocketsKeeps
<1>5. ASSUME NEW c \in Calls,
             \/ openStream(c) \/ connectTimeout(c) \/ attach(c) \/ send(c) \/ end(c)
             \/ sockConnect(c) \/ sockTimeout(c) \/ sockData(c) \/ sockEnd(c)
      PROVE  IInv'
  BY <1>5, OpenKeeps, TimeoutKeeps, AttachKeeps, SendKeeps, SockKeeps
<1>6. CASE UNCHANGED vars
  <2>1. Typed' /\ Numbered'
    BY <1>6 DEF IInv, vars, client, exit, Typed, Numbered, Opened
  <2>2. Lines'
    BY <1>6 DEF IInv, vars, client, exit, Lines, Carried, Ordered, Sorted, NoGap, Carries,
                BeginFirst, Opened
  <2>3. ExitSide'
    BY <1>6 DEF IInv, vars, client, exit, ExitSide, Begun, Takes, AllFrom, Carries
  <2>4. ClientSide'
    BY <1>6 DEF IInv, vars, client, exit, ClientSide, AllFrom, Carries, Last
  <2> QED BY <2>1, <2>2, <2>3, <2>4 DEF IInv
<1> QED BY <1>1, <1>2, <1>3, <1>4, <1>5, <1>6 DEF Next

LEMMA AlwaysIInv == IdsSuffice => (Spec => []IInv)
<1> SUFFICES ASSUME IdsSuffice
             PROVE  Spec => []IInv
  OBVIOUS
<1>1. Init => IInv
  BY InitHolds
<1>2. IInv /\ [Next]_vars => IInv'
  BY NextKeeps
<1> QED BY <1>1, <1>2, PTL DEF Spec

\* While no stream id has come round again, streams of one circuit do not
\* mix: what a caller receives (onData, after attach) is what its own socket
\* delivered, in order and without a gap, and what a socket is written
\* (handleStreamData) is what its own caller sent, from the first byte.
THEOREM StreamsAlwaysSound == IdsSuffice => (Spec => []StreamsSound)
<1> SUFFICES ASSUME IdsSuffice
             PROVE  Spec => []StreamsSound
  OBVIOUS
<1>1. IInv => StreamsSound
  <2> SUFFICES ASSUME IInv
               PROVE  StreamsSound
    OBVIOUS
  <2>1. TypeOK
    BY DEF IInv, Typed, TypeOK
  <2>2. ASSUME NEW c \in Calls
        PROVE  /\ InOrder(got[c], c)
               /\ InOrder(put[c], c) /\ (put[c] # <<>> => put[c][1][2] = 1)
    <3>1. got \in [Calls -> Seq(Calls \X Nat)] /\ put \in [Calls -> Seq(Calls \X Nat)]
      BY DEF IInv, Typed
    <3>2. got[c] \in Seq(Calls \X Nat) /\ put[c] \in Seq(Calls \X Nat)
      BY <3>1
    <3>3. /\ DOMAIN got[c] = 1..Len(got[c]) /\ DOMAIN put[c] = 1..Len(put[c])
          /\ put[c] # <<>> => 1 \in 1..Len(put[c])
      BY <3>2
    <3>4. \A k \in 1..Len(got[c]) : got[c][k] = <<c, got[c][1][2] + k - 1>>
      BY DEF IInv, ClientSide
    <3>5. \A k \in 1..Len(put[c]) : put[c][k] = <<c, k>>
      BY DEF IInv, ExitSide
    <3>6. put[c] # <<>> => put[c][1][2] = 1
      BY <3>3, <3>5
    <3>7. \A k \in 1..Len(put[c]) : put[c][k] = <<c, put[c][1][2] + k - 1>>
      <4> SUFFICES ASSUME NEW k \in 1..Len(put[c])
                   PROVE  put[c][k] = <<c, put[c][1][2] + k - 1>>
        OBVIOUS
      <4>1. put[c][1][2] = 1
        BY <3>2, <3>6
      <4>2. put[c][1][2] + k - 1 = k
        BY <4>1
      <4> QED BY <3>5, <4>2
    <3> QED BY <3>3, <3>4, <3>6, <3>7 DEF InOrder
  <2> QED BY <2>1, <2>2 DEF StreamsSound, StreamsIsolated
<1> QED BY <1>1, AlwaysIInv, PTL

\* Once a caller was told that its stream ended (onEnd, closeAll) it receives
\* nothing more, whatever was still on the line.
THEOREM NothingComesAfterEnd == IdsSuffice => (Spec => NothingAfterEnd)
<1> SUFFICES ASSUME IdsSuffice
             PROVE  Spec => NothingAfterEnd
  OBVIOUS
<1>1. IInv /\ [Next]_vars => [\A c \in Calls : ended[c] => got'[c] = got[c]]_vars
  <2> SUFFICES ASSUME IInv, Next, NEW c \in Calls, ended[c]
               PROVE  got'[c] = got[c]
    OBVIOUS
  <2>1. CASE onData
    <3>1. toClient \in Seq(Wire) /\ toClient # <<>> /\ got \in [Calls -> Seq(Calls \X Nat)]
      BY <2>1 DEF onData, FromExit, IInv, Typed
    <3>2. Head(toClient) \in Wire
      BY <3>1
    <3>3. Head(toClient).id \in Ids
      BY <3>2, CellsTyped
    <3>4. Entry # c
      <4>1. Entry # None => Entry = Head(toClient).id
        BY <3>3 DEF IInv, Numbered, Entry
      <4>2. streams[c] = None /\ c # None
        BY DEF IInv, ClientSide, Calls, None
      <4> QED BY <4>1, <4>2 DEF Entry
    <3> QED BY <2>1, <3>1, <3>4 DEF onData
  <2>2. CASE ~onData
    BY <2>2 DEF Next, ClientHandles, ExitHandles, onConnected, onEnd, beginRefused, beginAccepted,
                handleStreamData, handleStreamEnd, closeAllStreams, closeAllSockets,
                openStream, connectTimeout, attach, send, end, sockConnect, sockTimeout,
                sockData, sockEnd, client
  <2> QED BY <2>1, <2>2
<1>2. NothingAfterEnd <=> [][\A c \in Calls : ended[c] => got'[c] = got[c]]_vars
  BY DEF NothingAfterEnd
<1> QED BY <1>1, <1>2, AlwaysIInv, PTL DEF Spec
=============================================================================
