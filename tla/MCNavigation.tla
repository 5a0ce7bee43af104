---------------------------- MODULE MCNavigation ----------------------------
(***************************************************************************)
(* A small instance of Navigation: a page that was just loaded, or one     *)
(* with three moves behind it, so that one can go back twice.              *)
(***************************************************************************)
EXTENDS Navigation

CONSTANTS u1, u2

ThreeMoves == {<<u1, u2, u1>>}
=============================================================================
