------------------------------ MODULE Consensus ------------------------------
(***************************************************************************)
(* Consensus documents (modules/v2/consensus.mjs): what directory          *)
(* authorities sign and when a program takes a document for valid.         *)
(*                                                                         *)
(* The signed bytes are the content, the window of validity and the NUMBER *)
(* of signatures.  A signature verifies when it was made over the bytes of *)
(* the document it is found in.                                            *)
(***************************************************************************)
EXTENDS Naturals, Sequences, FiniteSets

CONSTANTS
    Documents,  \* the documents that a program may be given
    TrustSets,  \* sets of authorities that a da-trust.json may list
    Times       \* instants at which a document is looked at

ASSUME ConsensusAssumption == \A trust \in TrustSets : IsFiniteSet(trust)

VARIABLE document  \* a document that a program reads

signedBytes(doc) == <<doc.content, doc.validAfter, doc.validUntil, Len(doc.sigs)>>

\* buildConsensus: one program holds the keys of all the signers.
buildConsensus(content, validAfter, validUntil, daSigners) ==
    LET bytes == <<content, validAfter, validUntil, Len(daSigners)>> IN
    [content |-> content, validAfter |-> validAfter, validUntil |-> validUntil,
     sigs |-> [i \in 1..Len(daSigners) |-> [by |-> daSigners[i], over |-> bytes]]]

\* Mutant: a second signature of one authority counts again.
verifiedRepeated(doc, trust) ==
    {i \in 1..Len(doc.sigs) : doc.sigs[i].by \in trust /\ doc.sigs[i].over = signedBytes(doc)}

\* The authorities of the trust set whose signature counts: the first of each
\* is looked at and the others are ignored, whether it verifies or not.
verified(doc, trust) ==
    {a \in trust : \E i \in 1..Len(doc.sigs) :
        /\ doc.sigs[i].by = a
        /\ \A j \in 1..(i - 1) : doc.sigs[j].by # a
        /\ doc.sigs[i].over = signedBytes(doc)}

required(trust) == (Cardinality(trust) \div 2) + 1

\* parseConsensus returns a consensus.
parseConsensus(doc, trust, now) ==
    /\ doc.validAfter <= now /\ now <= doc.validUntil
    /\ Cardinality(verified(doc, trust)) >= required(trust)

Signed(doc, a) == \E i \in 1..Len(doc.sigs) : doc.sigs[i].by = a /\ doc.sigs[i].over = signedBytes(doc)

\* Two documents that programs with one trust set accept, at whatever times,
\* have a common signer: as long as no authority signs two different documents
\* for one period the network has one consensus (parseConsensus, its quorum
\* and its seenFps).
QuorumsMeet ==
    \A trust \in TrustSets, t \in Times :
        parseConsensus(document, trust, t) =>
            \A other \in Documents, u \in Times :
                parseConsensus(other, trust, u) => \E a \in trust : Signed(document, a) /\ Signed(other, a)
=============================================================================
