------------------------ MODULE MCCircuitDispatcher ------------------------
(***************************************************************************)
(* Small instances of CircuitDispatcher: a client or predecessor peer pA   *)
(* that may reconnect (links l1 and then l3) and a successor peer pB (l2). *)
(***************************************************************************)
EXTENDS CircuitDispatcher, TLC

CONSTANTS l1, l2, l3, pA, pB

MCPeerOf == (l1 :> pA) @@ (l2 :> pB) @@ (l3 :> pA)

\* Circuit ids and circuit objects are only compared for equality.
Symmetry == Permutations(Cids) \cup Permutations(Objs)
\* got and sent describe the step that led to a state and no guard reads
\* them: states that differ only there have the same successors.
View == <<circuits, role, inb, outb, frags, created, dials, splice, linkState>>
=============================================================================
