------------------------------ MODULE Programs -------------------------------
(***************************************************************************)
(* The life of one long-running program: the steps it takes from its       *)
(* arguments until it serves, each of which may end it, and its shutdown.  *)
(*                                                                         *)
(* relay    anon-node-v2 run            proxy    anon-rendezvous-proxy     *)
(* socks    anon-socks                  bridge   anon-browse-gui           *)
(* service  anon-service publish        overlay  anon-node run             *)
(*                                      chat     anon-chat                 *)
(*                                                                         *)
(* What the parts do once they run is modelled by their own modules.       *)
(***************************************************************************)
EXTENDS Naturals, Sequences, FiniteSets

CONSTANT MaxHeld   \* bound: connections open at a time

ASSUME ProgramsAssumption == MaxHeld \in Nat

VARIABLES
    program,
    circuitsAsked, \* it is asked to build circuits: --consensus, --tunnel
                   \* anon-layer, rendezvous mode
    acked,         \* --i-understand-this-is-experimental
    done,          \* steps done
    has,           \* what it holds by them
    serving,       \* it takes connections
    handlers,      \* its handlers for SIGINT and SIGTERM are installed
    held,          \* connections that keep a shutdown waiting
    fate           \* "starting", "running", "stopping", "exited", "died", "killed"

programVars == <<program, circuitsAsked, acked, done, has, serving, handlers, held, fate>>

-----------------------------------------------------------------------------
(* The steps, in the order of the code.  The circuit programs load the     *)
(* consensus with the keys that must have signed it.                       *)

relayScript == <<"acknowledged", "identity", "policy", "consensus", "certificate", "serve", "handlers">>
socksScript == <<"acknowledged", "arguments", "identity", "consensus", "handlers", "serve">>
serviceScript == <<"acknowledged", "arguments", "onionIdentity", "descriptor", "consensus",
                   "identity", "introPoint", "serve", "handlers">>
proxyScript == <<"arguments", "consensus", "descriptor", "address", "identity", "handlers", "serve">>
bridgeScript == <<"arguments", "refresh", "consensus", "descriptors", "identity", "handlers", "serve">>
overlayScript == <<"arguments", "configuration", "identity", "seeds", "serve", "dial", "handlers">>
chatScript == <<"arguments", "configuration", "identity", "peer", "serve", "dial", "handlers">>

Scripts == [relay |-> relayScript, socks |-> socksScript, service |-> serviceScript,
            proxy |-> proxyScript, bridge |-> bridgeScript, overlay |-> overlayScript,
            chat |-> chatScript]

Script == Scripts[program]

\* Steps left out when no circuits are asked for.  The relay has an identity in
\* any case.
Skipped(s) ==
    /\ ~circuitsAsked
    /\ \/ s = "consensus"
       \/ s \in {"identity", "descriptors"} /\ program \in {"socks", "bridge"}

\* fetchConsensus resolves whatever happens; createNodeIdentity and the
\* installation of handlers cannot fail, and the dials of chat are to addresses
\* it has checked.
MayFail(s) ==
    CASE s = "acknowledged" -> ~acked
      [] s \in {"refresh", "handlers"} -> FALSE
      [] s = "identity" -> program \notin {"proxy", "bridge"}
      [] s = "dial" -> program = "overlay"
      [] OTHER -> TRUE

ProgramInit ==
    /\ program \in DOMAIN Scripts
    /\ circuitsAsked \in BOOLEAN /\ (program \notin {"relay", "socks", "bridge"} => circuitsAsked)
    /\ acked \in BOOLEAN
    /\ done = 0 /\ has = {} /\ serving = FALSE /\ handlers = FALSE /\ held = 0 /\ fate = "starting"

NextStep == Script[done + 1]

\* A step is done.  The last one leaves the program running.
stepDone ==
    /\ fate = "starting"
    /\ NextStep = "acknowledged" => acked
    /\ done' = done + 1
    /\ fate' = IF done' = Len(Script) THEN "running" ELSE "starting"
    /\ has' = IF Skipped(NextStep) THEN has ELSE has \cup {NextStep}
    /\ serving' = (serving \/ NextStep = "serve") /\ handlers' = (handlers \/ NextStep = "handlers")
    /\ UNCHANGED <<program, circuitsAsked, acked, held>>

\* Mutant: one that fails is passed over.
dieLater ==
    /\ fate = "starting" /\ MayFail(NextStep) /\ ~Skipped(NextStep)
    /\ done' = done + 1 /\ fate' = IF done' = Len(Script) THEN "running" ELSE "starting"
    /\ serving' = (serving \/ NextStep = "serve")
    /\ UNCHANGED <<program, circuitsAsked, acked, has, handlers, held>>

\* die, or an exception that main().catch gives to it.
dies ==
    /\ fate = "starting" /\ MayFail(NextStep) /\ ~Skipped(NextStep)
    /\ fate' = "died" /\ serving' = FALSE /\ held' = 0
    /\ UNCHANGED <<program, circuitsAsked, acked, done, has, handlers>>

-----------------------------------------------------------------------------
(* Connections that close() waits for, besides those it terminates: to the *)
(* relay, one that is not a WebSocket yet; SOCKS clients; requests to the  *)
(* bridge that are not answered.                                           *)

Waits == {"relay", "socks", "bridge"}

connects ==
    /\ serving /\ program \in Waits /\ held < MaxHeld /\ held' = held + 1
    /\ UNCHANGED <<program, circuitsAsked, acked, done, has, serving, handlers, fate>>

leaves ==
    /\ held > 0 /\ held' = held - 1
    /\ UNCHANGED <<program, circuitsAsked, acked, done, has, serving, handlers, fate>>

-----------------------------------------------------------------------------
(* Shutdown                                                                *)

\* SIGINT or SIGTERM.  Without handlers it kills; with them the program closes
\* what it has, and stops listening; a second one changes nothing, whether
\* shutdown guards against it or runs again.
shutdown ==
    /\ fate \in {"starting", "running", "stopping"} /\ fate' = IF handlers THEN "stopping" ELSE "killed"
    /\ serving' = FALSE /\ held' = IF handlers THEN held ELSE 0
    /\ UNCHANGED <<program, circuitsAsked, acked, done, has, handlers>>

\* process.exit, when the connections it waits for are gone.
exits ==
    /\ fate = "stopping" /\ held = 0 /\ fate' = "exited"
    /\ UNCHANGED <<program, circuitsAsked, acked, done, has, serving, handlers, held>>

ProgramNext == stepDone \/ dies \/ connects \/ leaves \/ shutdown \/ exits

ProgramSpec == ProgramInit /\ [][ProgramNext]_programVars

-----------------------------------------------------------------------------
\* What the handlers of connections, streams, introductions and requests use.
Uses == [identity |-> DOMAIN Scripts, policy |-> {"relay"}, certificate |-> {"relay"},
         acknowledged |-> {"relay", "socks", "service"}, address |-> {"proxy"},
         consensus |-> {"relay", "socks", "service", "proxy", "bridge"},
         onionIdentity |-> {"service"}, introPoint |-> {"service"},
         seeds |-> {"overlay"}, peer |-> {"chat"}]

Needs == {s \in DOMAIN Uses : program \in Uses[s] /\ ~Skipped(s)}

\* Whoever can connect finds everything his connection needs: the program has
\* its identity, the policy and the verified consensus it was asked to use, and
\* none of it was given up for a default when it could not be had.
ServesPrepared == serving => Needs \subseteq has

\* A program that was told to stop ends, once the connections it does not
\* terminate itself are gone, and no new ones keep it (shutdown closes the
\* listener first or last, but before it waits).
SignalEnds == fate = "stopping" ~> fate = "exited"
=============================================================================
