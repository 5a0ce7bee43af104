---------------------------- MODULE MCOverlayNode ----------------------------
(***************************************************************************)
(* The v0.1 overlay node, one part of it at a time (`part' says which):    *)
(* the nodes with their connections, the replay log, the rate limiter, the *)
(* announcements to one recipient, and FORWARD packets.  The other parts   *)
(* rest in their initial state.                                            *)
(*                                                                         *)
(* Small instances of OverlayNode: A dials B, and B dials A or has no      *)
(* address for it (anon-chat starts only with its peer in the seed list).   *)
(* C never runs: A has it in its seed list, and so may B.                  *)
(***************************************************************************)
EXTENDS OverlayNode, ReplayLog, ForwardRateLimiter, GossipRotation, ForwardRelay, TLC

CONSTANTS A, B, C

VARIABLE part

OneDials == [seeds  |-> A :> {B, C} @@ B :> {A} @@ C :> {},
             target |-> A :> B @@ B :> None @@ C :> None]
BothDial == [seeds  |-> A :> {B, C} @@ B :> {A, C} @@ C :> {},
             target |-> A :> B @@ B :> A @@ C :> None]
Nobody == [seeds |-> A :> {} @@ B :> {} @@ C :> {}, target |-> A :> None @@ B :> None @@ C :> None]
SeedLists == {OneDials, BothDial, Nobody}

\* Forwarders: A and C have B between them.
Line == {<<A, B>>, <<B, A>>, <<B, C>>, <<C, B>>}

-----------------------------------------------------------------------------
OverlayInit ==
    /\ part \in {"node", "replay", "limiter", "gossip", "forward"}
    /\ NodeInit /\ (part = "node" <=> network # Nobody)
    /\ ReplayInit /\ LimiterInit /\ GossipInit /\ ForwardInit

OverlayNext ==
    /\ UNCHANGED part
    /\ \/ part = "node" /\ NodeNext /\ UNCHANGED <<replay, limiter, picks, forwardVars>>
       \/ part = "replay" /\ ReplayNext /\ UNCHANGED <<nodeVars, limiter, picks, forwardVars>>
       \/ part = "limiter" /\ LimiterNext /\ UNCHANGED <<nodeVars, replay, picks, forwardVars>>
       \/ part = "gossip" /\ GossipNext /\ UNCHANGED <<nodeVars, replay, limiter, forwardVars>>
       \/ part = "forward" /\ ForwardNext /\ UNCHANGED <<nodeVars, replay, limiter, picks>>

overlayVars == <<part, nodeVars, replay, limiter, picks, forwardVars>>

\* The fairness of OverlayNode, for the part it is about.
OverlayFairness ==
    /\ WF_overlayVars(part = "node" /\ Timer /\ UNCHANGED <<part, replay, limiter, picks, forwardVars>>)
    /\ WF_overlayVars(part = "node" /\ Event /\ UNCHANGED <<part, replay, limiter, picks, forwardVars>>)

OverlaySpec == OverlayInit /\ [][OverlayNext]_overlayVars /\ OverlayFairness
-----------------------------------------------------------------------------
\* The replay log, the rate limiter and the rotation of announcements keep just
\* what their whole history asks of them, however they trim it (evict of
\* replay.mjs, forward_rate_limit.mjs and the pool of gossip.mjs).
HistoriesExact == ReplayWindow /\ WindowsExact /\ EveryoneAnnounced
=============================================================================
