---------------------------- MODULE GossipRotation ----------------------------
(***************************************************************************)
(* Which peer the v0.1 node announces next to a recipient                  *)
(* (pickAnnouncementSubject of modules/peer/table.mjs, over the cadence of *)
(* planAnnounces in modules/peer/gossip.mjs): one that was never announced *)
(* to this recipient if there is any, otherwise one of those announced     *)
(* longest ago.                                                            *)
(***************************************************************************)
EXTENDS Naturals, Sequences, FiniteSets

CONSTANTS Candidates, \* the peers that are not connected
          Cadence,    \* seconds between announcements to one recipient
          MaxRounds   \* announcements

ASSUME GossipAssumption == Cadence \in Nat \ {0} /\ MaxRounds \in Nat

VARIABLE picks  \* the peers announced to the recipient so far

Never == 0   \* no record; times are from 1 on

\* The pool that pickAnnouncementSubject draws from at random.
pickPool(last) ==
    LET never == {s \in DOMAIN last : last[s] = Never} IN
    IF never # {} THEN never
    ELSE {s \in DOMAIN last : \A r \in DOMAIN last : last[s] <= last[r]}

\* The times of the last announcements, one a cadence.
LastAt ==
    [s \in Candidates |->
        LET rounds == {i \in DOMAIN picks : picks[i] = s} IN
        IF rounds = {} THEN Never ELSE 1 + Cadence * CHOOSE i \in rounds : \A j \in rounds : j <= i]

GossipInit == picks = <<>>

GossipNext ==
    /\ Len(picks) < MaxRounds
    /\ \E subject \in pickPool(LastAt) : picks' = Append(picks, subject)

\* No peer is left out for long: of any Cardinality(Candidates) consecutive
\* announcements to a recipient each is about a different peer, whatever the
\* random choices, as long as the same peers stay not connected.
EveryoneAnnounced ==
    LET k == Cardinality(Candidates)
        n == Len(picks)
    IN  n >= k => {picks[j] : j \in (n - k + 1)..n} = Candidates
=============================================================================
