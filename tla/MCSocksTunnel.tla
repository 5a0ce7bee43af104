---------------------------- MODULE MCSocksTunnel ----------------------------
(***************************************************************************)
(* A client, one part of it at a time (`part' says which): the consensus   *)
(* file with its start-up, the documents it may be given, the paths it     *)
(* picks, the policies of the exits, and the SOCKS proxy with its tunnel.  *)
(* The other parts rest in an initial state.                               *)
(***************************************************************************)
EXTENDS SocksTunnel, MCConsensus, PathSelection

CONSTANTS n1, n2

VARIABLE part

-----------------------------------------------------------------------------
(* Policies and paths                                                      *)

ShortAddresses == [ipv4 |-> 2, ipv6 |-> 1]
SomeRules == {r \in Rules : /\ <<r.portMin, r.portMax>> \in {<<0, 2>>, <<1, 1>>}
                            /\ r.net \in {<<>>, <<0, 0>>, <<1, 2>>, <<3, 3>>, <<2>>}}
SomePolicies == UNION {[1..n -> SomeRules] : n \in 0..2}

AcceptAll  == <<[action |-> "accept", type |-> "any", net |-> <<>>, maskLen |-> 0, portMin |-> 0, portMax |-> 2]>>
AcceptWeb  == <<[action |-> "accept", type |-> "any", net |-> <<>>, maskLen |-> 0, portMin |-> 1, portMax |-> 1]>>
SomeTargets == {[type |-> "ipv4", addr |-> <<1, 2>>, port |-> k] : k \in {1, 2}}

Relay(flags, v4, v6, exitPolicy) == [flags |-> flags, v4 |-> v4, v6 |-> v6, exitPolicy |-> exitPolicy]
Up == {"Running", "Valid"}
RelayKinds ==
    {Relay(Up \cup {"Guard"}, n1, NoNet, <<>>), Relay(Up \cup {"Guard", "Exit"}, n2, NoNet, AcceptAll),
     Relay(Up \cup {"Exit"}, n1, n1, AcceptWeb), Relay(Up \cup {"Exit", "Guard", "BadExit"}, n2, NoNet, AcceptAll),
     Relay(Up, NoNet, n1, <<>>), Relay(Up, NoNet, n2, <<>>), Relay({"Valid", "Guard", "Exit"}, n2, n2, AcceptAll)}
SomeConsensuses ==
    {{[fp |-> i, flags |-> kinds[i].flags, v4 |-> kinds[i].v4, v6 |-> kinds[i].v6,
       exitPolicy |-> kinds[i].exitPolicy] : i \in 1..4} : kinds \in [1..4 -> RelayKinds]}

NoDocument == [content |-> "one", validAfter |-> 0, validUntil |-> 0, sigs |-> <<>>]

-----------------------------------------------------------------------------
Part(p, PartInit, Rest) == IF part = p THEN PartInit ELSE Rest

ClientInit ==
    /\ part \in {"proxy", "start", "documents", "policies", "paths"}
    /\ Init
    /\ RefreshInit /\ (part # "start" => program = "relay")
    /\ Part("documents", document \in Documents, document = NoDocument)
    /\ Part("policies", PolicyInit, policy = <<>>)
    /\ Part("paths", PathInit, rses = {} /\ path = Unpicked)

ClientNext ==
    /\ UNCHANGED <<part, document, policy>>
    /\ \/ part = "proxy" /\ Next /\ UNCHANGED <<refreshVars, pathVars>>
       \/ part = "start" /\ RefreshNext /\ UNCHANGED <<vars, pathVars>>
       \/ part = "paths" /\ PathNext /\ UNCHANGED <<vars, refreshVars>>

clientVars == <<part, vars, document, refreshVars, policy, pathVars>>

ClientSpec == ClientInit /\ [][ClientNext]_clientVars /\ Fairness /\ RefreshFairness
=============================================================================
