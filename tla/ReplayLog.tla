------------------------------ MODULE ReplayLog ------------------------------
(***************************************************************************)
(* The replay log of the v0.1 wire protocol (modules/wire/replay.mjs), as  *)
(* decodePacket uses it: a packet whose (ephPk, nonce) is in the log is a  *)
(* replay, any other is inserted, and each insertion evicts from the head  *)
(* of the insertion order.  `replay' has the log (a sequence of entries),  *)
(* the clock, and what was let through.                                    *)
(***************************************************************************)
EXTENDS Naturals, Sequences, FiniteSets, SequencesExt

CONSTANTS
    MinEntries, \* entries that are kept whatever their age
    MinSeconds, \* age up to which an entry is kept
    Keys44,     \* the (ephPk, nonce) pairs to try
    MaxPackets  \* packets received

ASSUME ReplayAssumption == {MinEntries, MinSeconds, MaxPackets} \subseteq Nat

VARIABLE replay

check(log, key) == \E i \in DOMAIN log : log[i].key = key

\* Mutant: an entry as old as the minimum age is still kept by the walk.
evictLate(log, now) ==
    LET old == {i \in DOMAIN log : Len(log) - (i - 1) > MinEntries /\ log[i].ts + MinSeconds < now}
    IN  SubSeq(log, Cardinality(old) + 1, Len(log))

\* evict: from the head, while the log is above its minimum and the head is as
\* old as the cutoff; `Gone' is how many entries that takes.
evictHead(log, now) ==
    LET Gone == CHOOSE d \in 0..Len(log) :
            /\ \A i \in 1..d : Len(log) - (i - 1) > MinEntries /\ log[i].ts + MinSeconds <= now
            /\ \/ Len(log) - d <= MinEntries
               \/ log[d + 1].ts + MinSeconds > now
    IN  SubSeq(log, Gone + 1, Len(log))

insert(log, key, now) == evictHead(Append(log, [key |-> key, ts |-> now]), now)

\* decodePacket, for a packet that comes dt seconds after the one before;
\* `seen' are the packets let through with their time.
receive(key, dt) ==
    LET now == replay.now + dt IN
    replay' = IF check(replay.log, key)
              THEN [replay EXCEPT !.now = now, !.packets = @ + 1]
              ELSE [log |-> insert(replay.log, key, now), now |-> now, packets |-> replay.packets + 1,
                    seen |-> Append(replay.seen, [key |-> key, ts |-> now])]

ReplayInit == replay = [log |-> <<>>, now |-> 0, packets |-> 0, seen |-> <<>>]

ReplayNext ==
    /\ replay.packets < MaxPackets
    /\ \E key \in Keys44, dt \in 0..MinSeconds : receive(key, dt)

\* What the log is for: under a clock that does not go back it holds exactly
\* the accepted packets that are among the MinEntries latest or were younger
\* than MinSeconds at the last insertion, so that a second copy of one of them
\* is refused and memory holds nothing else (replay.mjs evict).
ReplayWindow ==
    LET seen == replay.seen
        n == Len(seen)
        kept == {i \in 1..n : i > n - MinEntries \/ seen[i].ts + MinSeconds > seen[n].ts}
    IN  replay.log = SubSeq(seen, n - Cardinality(kept) + 1, n)
=============================================================================
