----------------------------- MODULE MCConsensus -----------------------------
(***************************************************************************)
(* Small instances of Consensus and ConsensusRefresh: documents of two     *)
(* contents with up to two signatures, each made over any of them; two     *)
(* URLs.                                                                   *)
(***************************************************************************)
EXTENDS ConsensusRefresh

CONSTANTS da1, da2, da3

Bodies == {<<content, 0, 1, n>> : content \in {"one", "two"}, n \in {1, 2}}
Signatures == [by : {da1, da2, da3}, over : Bodies]
SmallDocuments ==
    [content : {"one", "two"}, validAfter : {0}, validUntil : {1},
     sigs : UNION {[1..n -> Signatures] : n \in 0..2}]
SmallTrustSets == {{da1}, {da1, da2}, {da1, da2, da3}}

OneAuthority == <<da1, da1>>
TwoAuthorities == <<da1, da2>>
=============================================================================
