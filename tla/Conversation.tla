---------------------------- MODULE Conversation ----------------------------
(***************************************************************************)
(* What a persistent anon-site session promises its client                 *)
(* (docs/SITES-v0.1.md, 4.3): the requests are answered in the order they   *)
(* were sent, and the session ends only when all of them are, or with a    *)
(* refusal, or because the stream broke.  SiteSession implements it.       *)
(***************************************************************************)
EXTENDS Naturals, Sequences

VARIABLES
    asked,      \* number of requests
    replies,    \* the requests answered so far
    over,       \* the server wrote its last byte
    refused,    \* ... which ended a refusal
    broken      \* the stream broke

vars == <<asked, replies, over, refused, broken>>

Init ==
    /\ asked \in Nat \ {0} /\ replies = <<>>
    /\ over = FALSE /\ refused = FALSE /\ broken = FALSE

More(rs) == rs = replies \/ rs = Append(replies, Len(replies) + 1)

\* The next request is answered.
Reply == More(replies') /\ UNCHANGED <<over, refused, broken>>

\* A request is refused, perhaps right after the one before it was answered.
Refuse == More(replies') /\ over' = TRUE /\ refused' = TRUE /\ UNCHANGED broken

\* All is answered.
Finish ==
    /\ More(replies') /\ Len(replies') = asked
    /\ over' = TRUE /\ UNCHANGED <<refused, broken>>

\* The stream breaks.
Break == over' = TRUE /\ broken' = TRUE /\ UNCHANGED <<replies, refused>>

Next ==
    /\ ~over /\ UNCHANGED asked
    /\ Reply \/ Refuse \/ Finish \/ Break

Spec == Init /\ [][Next]_vars
=============================================================================
