----------------------------- MODULE ExitPolicy -----------------------------
(***************************************************************************)
(* Exit policies (modules/v2/exit_policy.mjs): rules over address blocks   *)
(* and port ranges, their wire format, and the decision for a destination. *)
(* An address is a sequence of bytes; on the wire each field is one        *)
(* element of a sequence.                                                  *)
(***************************************************************************)
EXTENDS Naturals, Sequences, SequencesExt

CONSTANTS
    ByteBits,   \* bits in a byte
    NetLen,     \* NetLen[t]: bytes in an address of type t
    Ports,      \* the ports
    Policies    \* the policies to look at

ASSUME PolicyAssumption ==
    /\ ByteBits \in Nat \ {0} /\ Ports \subseteq Nat
    /\ \A t \in DOMAIN NetLen : NetLen[t] \in Nat \ {0}

VARIABLE policy

AddrTypes == DOMAIN NetLen
Byte == 0..(2^ByteBits - 1)
Targets == UNION {[type : {t}, addr : [1..NetLen[t] -> Byte], port : Ports] : t \in AddrTypes}

MaskBits(t) == IF t \in AddrTypes THEN 0..(NetLen[t] * ByteBits) ELSE {0}
Nets(t) == IF t \in AddrTypes THEN [1..NetLen[t] -> Byte] ELSE {<<>>}

\* What makeIPv4Rule, makeIPv6Rule and makeAnyRule let through.
Rules ==
    UNION {[action : {"accept", "reject"}, type : {t}, net : Nets(t), maskLen : MaskBits(t),
            portMin : Ports, portMax : Ports] : t \in AddrTypes \cup {"any"}}

WellFormed(rules) == \A i \in DOMAIN rules : rules[i].portMin <= rules[i].portMax

-----------------------------------------------------------------------------
(* The wire format                                                         *)

ruleBytes(rule) ==
    <<rule.action, rule.type>>
    \o (IF rule.type = "any" THEN <<>> ELSE rule.net \o <<rule.maskLen>>)
    \o <<rule.portMin, rule.portMax>>

buildPolicy(rules) ==
    <<Len(rules)>> \o FoldLeft(LAMBDA out, rule : out \o ruleBytes(rule), <<>>, rules)

NoPolicy == [rules |-> <<>>, off |-> 0]

\* parseRule: the reader with the rule at `off', or NoPolicy.
parseRule(buf, p) ==
    LET at(k) == buf[p.off + k]
        room(k) == Len(buf) >= p.off + k
        type == at(2)
        n == IF type = "any" THEN 0 ELSE NetLen[type] + 1
        rule == [action |-> at(1), type |-> type,
                 net |-> IF n = 0 THEN <<>> ELSE SubSeq(buf, p.off + 3, p.off + 1 + n),
                 maskLen |-> IF n = 0 THEN 0 ELSE at(2 + n),
                 portMin |-> at(3 + n), portMax |-> at(4 + n)]
    IN  IF /\ p # NoPolicy /\ room(2)
           /\ at(1) \in {"accept", "reject"} /\ type \in AddrTypes \cup {"any"}
           /\ room(4 + n)
           /\ rule.maskLen \in MaskBits(type) /\ rule.portMin <= rule.portMax
        THEN [rules |-> Append(p.rules, rule), off |-> p.off + 4 + n]
        ELSE NoPolicy

\* parsePolicy: NoPolicy on any defect, trailing bytes included.
parsePolicy(buf) ==
    LET read == FoldLeft(LAMBDA p, i : parseRule(buf, p), [rules |-> <<>>, off |-> 1], [i \in 1..buf[1] |-> i])
    IN  IF buf = <<>> \/ read.off # Len(buf) THEN NoPolicy ELSE read

-----------------------------------------------------------------------------
(* The decision                                                            *)

\* Mutant: the mask keeps the low bits of the last byte.
prefixMatchesLow(rule, type, addr) ==
    LET fullBytes == rule.maskLen \div ByteBits
        tailBits  == rule.maskLen % ByteBits
    IN  \/ rule.type = "any"
        \/ /\ rule.type = type
           /\ \A i \in 1..fullBytes : rule.net[i] = addr[i]
           /\ tailBits > 0 => rule.net[fullBytes + 1] % 2^tailBits = addr[fullBytes + 1] % 2^tailBits

prefixMatches(rule, type, addr) ==
    LET fullBytes == rule.maskLen \div ByteBits
        tailBits  == rule.maskLen % ByteBits
        high(byte) == byte \div 2^(ByteBits - tailBits)
    IN  \/ rule.type = "any"
        \/ /\ rule.type = type
           /\ \A i \in 1..fullBytes : rule.net[i] = addr[i]
           /\ tailBits > 0 => high(rule.net[fullBytes + 1]) = high(addr[fullBytes + 1])

\* evaluate: the first rule that matches decides; none rejects.
evaluate(rules, d) ==
    LET matches == {i \in DOMAIN rules : /\ prefixMatches(rules[i], d.type, d.addr)
                                         /\ rules[i].portMin <= d.port /\ d.port <= rules[i].portMax}
    IN  IF matches = {} THEN "reject"
        ELSE rules[CHOOSE i \in matches : \A j \in matches : i <= j].action

PolicyInit == policy \in {p \in Policies : WellFormed(p)}

-----------------------------------------------------------------------------
(* Properties                                                              *)

\* The number an address is, and the block of numbers that a rule is about.
Number(addr) == FoldLeft(LAMBDA n, byte : n * 2^ByteBits + byte, 0, addr)
InBlock(rule, d) ==
    \/ rule.type = "any"
    \/ /\ rule.type = d.type
       /\ LET size == 2^(NetLen[d.type] * ByteBits - rule.maskLen)
          IN  Number(rule.net) \div size = Number(d.addr) \div size

\* A policy is an access list over blocks of addresses: a destination is
\* accepted when a rule accepts its block and port and no rule before it is
\* about them (prefixMatches with its whole bytes and its rest, and evaluate).
PolicyIsAccessList ==
    LET about(i, d) == InBlock(policy[i], d) /\ d.port \in policy[i].portMin..policy[i].portMax
    IN  \A d \in Targets :
            evaluate(policy, d) = "accept" <=>
                \E i \in DOMAIN policy : /\ policy[i].action = "accept" /\ about(i, d)
                                         /\ \A j \in 1..(i - 1) : ~about(j, d)

\* What an exit puts into its consensus entry is the policy that clients read
\* from it, and no cut or extended policy is taken for another one
\* (buildPolicy and parsePolicy).
PolicyRoundTrip ==
    LET bytes == buildPolicy(policy) IN
    /\ parsePolicy(bytes).rules = policy /\ parsePolicy(bytes) # NoPolicy
    /\ \A n \in 0..(Len(bytes) - 1) : parsePolicy(SubSeq(bytes, 1, n)) = NoPolicy
    /\ \A more \in Ports : parsePolicy(Append(bytes, more)) = NoPolicy

\* The client decides about a destination as the exit would: it reads the policy
\* the exit wrote, and both read it as an access list (buildPolicy,
\* parsePolicy and evaluate).
PolicyFaithful == PolicyIsAccessList /\ PolicyRoundTrip
=============================================================================
