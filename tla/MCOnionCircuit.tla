--------------------------- MODULE MCOnionCircuit ---------------------------
(***************************************************************************)
(* One circuit from end to end (OnionCircuit), or the handshakes of        *)
(* several initiators (Handshake): `part' says which, and the other one    *)
(* rests in its initial state.  The fairness is that of the circuit: where *)
(* it rests no behaviour is fair, and only safety is checked.              *)
(***************************************************************************)
EXTENDS OnionCircuit, Handshake

VARIABLE part

CircuitInit ==
    /\ part \in {"circuit", "handshake"}
    /\ Init /\ (part = "handshake" => stale = {})
    /\ HandshakeInit /\ (part = "circuit" => shared /\ outdated = {})

CircuitNext ==
    /\ UNCHANGED part
    /\ \/ part = "circuit" /\ Next /\ UNCHANGED handshakeVars
       \/ part = "handshake" /\ HandshakeNext /\ UNCHANGED vars

CircuitSpec == CircuitInit /\ [][CircuitNext]_<<part, vars, handshakeVars>> /\ Fairness
=============================================================================
