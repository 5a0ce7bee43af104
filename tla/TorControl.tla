----------------------------- MODULE TorControl ------------------------------
(***************************************************************************)
(* One query of the tor control port (v2-runtime/tor_controller.mjs):      *)
(* which circuit serves a host?  The client authenticates, asks for the    *)
(* circuits, then for the streams, then for each relay of the circuit,     *)
(* over one connection whose answers carry no name; tor goes on changing   *)
(* meanwhile, and may close the connection at any point.                   *)
(*                                                                         *)
(* Tor is modelled from how tor_controller.mjs reads it.  A circuit is a   *)
(* number, its relays are those of CircuitPaths; there is one host.        *)
(***************************************************************************)
EXTENDS Naturals, Sequences, FiniteSets, SequencesExt

CONSTANTS CircuitPaths,   \* CircuitPaths[c]: the relays of circuit c
          MaxTorChanges   \* bound: changes of tor's circuits and streams

TorCircuits == DOMAIN CircuitPaths

ASSUME TorAssumption ==
    /\ MaxTorChanges \in Nat
    /\ TorCircuits \subseteq Nat \ {0} /\ IsFiniteSet(TorCircuits)
    /\ \A c \in TorCircuits : Len(CircuitPaths[c]) \in Nat

VARIABLES
    \* tor
    onion,       \* circuits made for the host, which is an onion service
    circuits,    \* circuits[c]: "none", "EXTENDED", "BUILT"
    hostStream,  \* the circuit of the host's stream, or 0
    served,      \* circuits that carried it
    torChanges,
    commandsDue, \* commands on their way to tor
    wire,        \* lines on their way to the client
    wireEnd,     \* tor closed the connection
    \* the client
    latest,      \* fallbackToLatest
    step,        \* "start", "write", "writing", "read", "block", "settled"
    command,     \* the command under way
    received,    \* lines
    endSeen,     \* where the end of the connection met it, "reset" or "no"
    reply,       \* value lines of the reply so far
    circuitLines,
    shown,       \* the circuit found, with the status it had: <<circuit, status>>
    hops,        \* what was found out of its relays
    outcome      \* "pending", "error", "none", "shown"

torSide == <<onion, circuits, hostStream, served, torChanges>>
found == <<circuitLines, shown, hops>>
torVars == <<torSide, commandsDue, wire, wireEnd, latest, step, command, received, endSeen,
             reply, found, outcome>>

NoCircuit == <<0, "none">>

TorInit ==
    /\ onion \in SUBSET TorCircuits
    /\ circuits = [c \in TorCircuits |-> "none"] /\ hostStream = 0 /\ served = {} /\ torChanges = 0
    /\ commandsDue = <<>> /\ wire = <<>> /\ wireEnd = FALSE
    /\ latest \in BOOLEAN /\ step = "start" /\ command = <<>> /\ received = <<>>
    /\ endSeen = "no" /\ reply = <<>> /\ circuitLines = <<>> /\ shown = NoCircuit /\ hops = <<>>
    /\ outcome = "pending"

-----------------------------------------------------------------------------
(* Tor                                                                     *)

torChange ==
    /\ torChanges < MaxTorChanges /\ torChanges' = torChanges + 1
    /\ \/ \E c \in TorCircuits, s \in {"none", "EXTENDED", "BUILT"} :
            /\ circuits[c] # s /\ circuits' = [circuits EXCEPT ![c] = s]
            /\ hostStream' = IF hostStream = c THEN 0 ELSE hostStream
            /\ UNCHANGED served
       \/ \E c \in TorCircuits :
            /\ circuits[c] = "BUILT" /\ (onion # {} => c \in onion)
            /\ hostStream' = c /\ served' = served \cup {c} /\ UNCHANGED circuits
    /\ UNCHANGED <<onion, commandsDue, wire, wireEnd, latest, step, command, received, endSeen,
                   reply, found, outcome>>

Line(form, item) == [form |-> form, item |-> item]
Ok == Line("ok", <<>>)

\* No value, one, or a block of them.
Values(items) ==
    CASE Len(items) = 0 -> <<Line("inline", <<>>), Ok>>
      [] Len(items) = 1 -> <<Line("inline", items[1]), Ok>>
      [] OTHER -> <<Line("block", <<>>)>> \o [i \in DOMAIN items |-> Line("data", items[i])]
                  \o <<Line("dot", <<>>), Ok>>

\* What tor answers to a command.
Answers(c) ==
    CASE c[1] = "AUTHENTICATE" -> {<<Ok>>, <<Line("error", <<>>)>>}
      [] c[1] = "circuit-status" ->
           LET known == SetToSeq({k \in TorCircuits : circuits[k] # "none"})
           IN  {Values([i \in DOMAIN known |-> <<"circuit", known[i], circuits[known[i]]>>])}
      [] c[1] = "stream-status" ->
           {Values(IF hostStream = 0 THEN <<>> ELSE <<<<"stream", hostStream>>>>)}
      [] OTHER -> {<<Line("error", <<>>)>>,
                   <<Line("block", <<>>), Line("data", c), Line("dot", <<>>), Ok>>}

torAnswers ==
    /\ commandsDue # <<>> /\ ~wireEnd /\ commandsDue' = Tail(commandsDue)
    /\ \E answer \in Answers(Head(commandsDue)) : wire' = wire \o answer
    /\ UNCHANGED <<torSide, wireEnd, latest, step, command, received, endSeen, reply, found, outcome>>

torCloses ==
    /\ step # "start" /\ ~wireEnd /\ wireEnd' = TRUE
    /\ UNCHANGED <<torSide, commandsDue, wire, latest, step, command, received, endSeen, reply,
                   found, outcome>>

-----------------------------------------------------------------------------
(* openControl                                                             *)

\* The files of tor are there and somebody listens, or not.
openControl ==
    /\ step = "start"
    /\ \/ step' = "write" /\ command' = <<"AUTHENTICATE">> /\ UNCHANGED outcome
       \/ step' = "settled" /\ outcome' = "error" /\ UNCHANGED command
    /\ UNCHANGED <<torSide, commandsDue, wire, wireEnd, latest, received, endSeen, reply, found>>

\* conn.on('data').
onControlData ==
    /\ wire # <<>>
    /\ \E k \in 1..Len(wire) : received' = received \o SubSeq(wire, 1, k)
                               /\ wire' = SubSeq(wire, k + 1, Len(wire))
    /\ UNCHANGED <<torSide, commandsDue, wireEnd, latest, step, command, endSeen, reply, found, outcome>>

-----------------------------------------------------------------------------
(* queryTorCircuitForHost                                                  *)

Settle(o) == outcome' = o /\ step' = "settled" /\ UNCHANGED <<command, found>>

Ask(c) == command' = c /\ step' = "write" /\ UNCHANGED outcome

\* resolveRelay for hop i, or the end of the loop over the path.
AskHop(i) ==
    IF i <= Len(CircuitPaths[shown'[1]])
           /\ ~(shown'[2] = "EXTENDED" /\ i > 1)    \* such a circuit has its first relay
    THEN Ask(<<"relay", CircuitPaths[shown'[1]][i], i>>)
    ELSE outcome' = "shown" /\ step' = "settled" /\ UNCHANGED command

\* The circuit of the host's stream, one made for the host, or the newest.
Candidates(known, streams) ==
    LET all == {known[i] : i \in DOMAIN known}
        ofStream == {c \in all : \E i \in DOMAIN streams : streams[i][2] = c[2]}
        ofHost == {c \in all : c[3] = "BUILT" /\ c[2] \in onion}
        newest == {c \in all : c[3] = "BUILT" /\ \A d \in all : d[3] = "BUILT" => d[2] <= c[2]}
    IN  CASE ofStream # {} -> ofStream
          [] ofStream = {} /\ ofHost # {} -> {CHOOSE c \in ofHost : \A d \in ofHost : c[2] <= d[2]}
          [] OTHER -> IF latest THEN newest ELSE {}

\* What follows the reply to the command.
Proceed(answer) ==
    CASE command[1] = "AUTHENTICATE" -> Ask(<<"circuit-status">>) /\ UNCHANGED found
      [] command[1] = "circuit-status" ->
           circuitLines' = answer /\ Ask(<<"stream-status">>) /\ UNCHANGED <<shown, hops>>
      [] command[1] = "stream-status" ->
           LET candidates == Candidates(circuitLines, answer) IN
           IF candidates = {} THEN Settle("none")
           ELSE \E c \in candidates : shown' = <<c[2], c[3]>> /\ AskHop(1) /\ UNCHANGED <<circuitLines, hops>>
      [] OTHER -> /\ hops' = Append(hops, answer) /\ UNCHANGED <<circuitLines, shown>>
                  /\ AskHop(command[3] + 1)

\* The command throws: a relay has no metadata then, anything else is an error.
Throw == IF command[1] = "relay" THEN Proceed(<<>>) ELSE Settle("error")

\* write(): the bytes are handed to the socket, which fails after the end, ...
writeCommand ==
    /\ step = "write"
    /\ IF endSeen # "no" THEN Throw /\ UNCHANGED commandsDue
       ELSE commandsDue' = Append(commandsDue, command) /\ step' = "writing"
            /\ UNCHANGED <<command, found, outcome>>
    /\ UNCHANGED <<torSide, wire, wireEnd, latest, received, endSeen, reply>>

\* ... and its callback comes.
written ==
    /\ step = "writing" /\ step' = "read" /\ reply' = <<>>
    /\ UNCHANGED <<torSide, commandsDue, wire, wireEnd, latest, command, received, endSeen, found, outcome>>

\* Mutant: the reply ends with its block.
getInfoHasty ==
    /\ step \in {"read", "block"} /\ received # <<>> /\ received' = Tail(received)
    /\ LET line == Head(received) IN
       CASE step = "block" /\ line.form = "dot" -> Proceed(reply) /\ UNCHANGED reply
         [] step = "block" /\ line.form # "dot" ->
              reply' = Append(reply, line.item) /\ UNCHANGED <<step, command, found, outcome>>
         [] step = "read" /\ line.form = "block" -> step' = "block" /\ UNCHANGED <<reply, command, found, outcome>>
         [] step = "read" /\ line.form = "inline" ->
              /\ reply' = IF line.item = <<>> THEN reply ELSE Append(reply, line.item)
              /\ UNCHANGED <<step, command, found, outcome>>
         [] step = "read" /\ line.form = "ok" -> Proceed(reply) /\ UNCHANGED reply
         [] step = "read" /\ line.form = "error" -> Throw /\ UNCHANGED reply
         [] OTHER -> UNCHANGED <<step, command, found, outcome, reply>>
    /\ UNCHANGED <<torSide, commandsDue, wire, wireEnd, latest, endSeen>>

\* getInfo takes a line: of a block up to its dot, a value, the end of the
\* reply, an error; anything else is passed over.
getInfo ==
    /\ step \in {"read", "block"} /\ received # <<>> /\ received' = Tail(received)
    /\ LET line == Head(received) IN
       CASE step = "block" /\ line.form = "dot" -> step' = "read" /\ UNCHANGED <<reply, command, found, outcome>>
         [] step = "block" /\ line.form # "dot" ->
              reply' = Append(reply, line.item) /\ UNCHANGED <<step, command, found, outcome>>
         [] step = "read" /\ line.form = "block" -> step' = "block" /\ UNCHANGED <<reply, command, found, outcome>>
         [] step = "read" /\ line.form = "inline" ->
              /\ reply' = IF line.item = <<>> THEN reply ELSE Append(reply, line.item)
              /\ UNCHANGED <<step, command, found, outcome>>
         [] step = "read" /\ line.form = "ok" -> Proceed(reply) /\ UNCHANGED reply
         [] step = "read" /\ line.form = "error" -> Throw /\ UNCHANGED reply
         [] OTHER -> UNCHANGED <<step, command, found, outcome, reply>>
    /\ UNCHANGED <<torSide, commandsDue, wire, wireEnd, latest, endSeen>>

\* conn.on('end'): a reader that waits gets null, which getInfo throws for.
\* One that comes later, because the callback of its write is still due, waits
\* for a line that never comes.
onControlEnd ==
    /\ wireEnd /\ wire = <<>> /\ endSeen = "no"
    /\ ~(step \in {"read", "block"} /\ received # <<>>)
    /\ endSeen' = step
    /\ IF step \in {"read", "block"} THEN Throw ELSE UNCHANGED <<step, command, found, outcome>>
    /\ UNCHANGED <<torSide, commandsDue, wire, wireEnd, latest, received, reply>>

\* conn.once('error') after the connection was made: a write that is due fails;
\* a reader that waits is told nothing, since there is no 'end'.
onControlError ==
    /\ step # "start" /\ endSeen = "no" /\ endSeen' = "reset"
    /\ wire' = <<>> /\ wireEnd' = TRUE
    /\ IF step = "writing" THEN Throw ELSE UNCHANGED <<step, command, found, outcome>>
    /\ UNCHANGED <<torSide, commandsDue, latest, received, reply>>

TorNext ==
    \/ torChange \/ torAnswers \/ torCloses
    \/ openControl \/ onControlData \/ writeCommand \/ written \/ getInfo \/ onControlEnd
    \/ onControlError

TorSpec == TorInit /\ [][TorNext]_torVars

\* Tor answers, and what it sent arrives.
TorProgress == torAnswers \/ openControl \/ onControlData \/ writeCommand \/ written
               \/ getInfo \/ onControlEnd

-----------------------------------------------------------------------------
\* The circuit shown carried the host's stream, or was made for the host, or is
\* the newest that was asked for instead; and each of its relays is shown with
\* its own address or none, although the answers are told apart by nothing but
\* their order (getInfo, resolveRelay), some are errors and the connection may
\* end among them.  A circuit that was BUILT when tor listed it is shown whole;
\* one that became so between the two questions is not.
ShownIsTrue ==
    outcome = "shown" =>
        LET path == CircuitPaths[shown[1]] IN
        /\ shown[1] \in served \cup onion \/ latest
        /\ Len(hops) <= Len(path) /\ (shown[2] = "BUILT" => Len(hops) = Len(path))
        /\ \A i \in DOMAIN hops : hops[i] = <<>> \/ hops[i] = <<<<"relay", path[i], i>>>>

\* The query settles, whenever tor ends the connection (onControlEnd), except
\* when the end came between a write and its callback, or the connection was
\* reset: then it may wait for ever, in the code as here.
QuerySettles == <>(step = "settled" \/ endSeen \in {"writing", "reset"})
=============================================================================
