--------------------------- MODULE BrowsingHistory ---------------------------
(***************************************************************************)
(* What the back and forward buttons of a browser promise: the pages       *)
(* visited are a list with a place in it, a new page cuts the list off     *)
(* after the place, and nothing else changes the list.                     *)
(***************************************************************************)
EXTENDS Naturals, Sequences

CONSTANT Urls

VARIABLES visits, place

vars == <<visits, place>>

Init == visits \in Seq(Urls) /\ place = Len(visits)

Visit(u) ==
    /\ visits' = Append(SubSeq(visits, 1, place), u)
    /\ place' = place + 1

Back == place > 1 /\ place' = place - 1 /\ UNCHANGED visits

Forward == place < Len(visits) /\ place' = place + 1 /\ UNCHANGED visits

Next == (\E u \in Urls : Visit(u)) \/ Back \/ Forward

Spec == Init /\ [][Next]_vars
=============================================================================
