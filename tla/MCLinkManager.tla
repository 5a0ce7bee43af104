---------------------------- MODULE MCLinkManager ----------------------------
(***************************************************************************)
(* Small instances of LinkManager.                                         *)
(***************************************************************************)
EXTENDS LinkManager, TLC

\* Connections, and nodes, are only compared for equality (invariants only).
Symmetry == Permutations(Conns) \cup Permutations(Nodes)
=============================================================================
