--------------------------- MODULE MCSiteSession ----------------------------
(***************************************************************************)
(* A site session, or one of three things around it (`part' says which):   *)
(* the life of a program, the files it keeps, and the query of the tor     *)
(* control port.  The others rest in an initial state.                     *)
(***************************************************************************)
EXTENDS SiteSession, Programs, DataDirectory, TorControl

VARIABLE part

\* Two circuits with a relay in common.
SharedRelay == <<<<"r1", "r2">>, <<"r2", "r3">>>>

others == <<programVars, dirVars, torVars>>

SumInit ==
    /\ part \in {"session", "program", "directory", "tor"}
    /\ Init /\ (part # "session" => ~once /\ kinds = <<"file">> /\ file = Absent)
    /\ ProgramInit /\ (part # "program" => program = "relay" /\ acked /\ circuitsAsked)
    /\ DirectoryInit /\ (part # "directory" => version = "v1")
    /\ TorInit /\ (part # "tor" => onion = {} /\ latest)

SumNext ==
    /\ UNCHANGED part
    /\ \/ part = "session" /\ Next /\ UNCHANGED others
       \/ part = "program" /\ ProgramNext /\ UNCHANGED <<vars, dirVars, torVars>>
       \/ part = "directory" /\ DirectoryNext /\ UNCHANGED <<vars, programVars, torVars>>
       \/ part = "tor" /\ TorNext /\ UNCHANGED <<vars, programVars, dirVars>>

sumVars == <<part, vars, others>>

\* The fairness of each part, while it is the one that runs.
SumFairness ==
    /\ WF_sumVars(part = "session" /\ (onData \/ onEnd) /\ UNCHANGED <<part, others>>)
    /\ WF_sumVars(part = "session" /\ (statFile \/ readFile) /\ UNCHANGED <<part, others>>)
    /\ WF_sumVars(part = "session" /\ fetchTimeout /\ UNCHANGED <<part, others>>)
    /\ WF_sumVars(part = "program" /\ leaves /\ UNCHANGED <<part, vars, dirVars, torVars>>)
    /\ WF_sumVars(part = "program" /\ exits /\ UNCHANGED <<part, vars, dirVars, torVars>>)
    /\ WF_sumVars(part = "tor" /\ TorProgress /\ UNCHANGED <<part, vars, programVars, dirVars>>)

SumSpec == SumInit /\ [][SumNext]_sumVars /\ SumFairness

\* The query of the control port settles, where there is one.
ControlQuerySettles == part = "tor" => QuerySettles

\* Whatever was started ends: a fetch, a session whose client has ended, a program
\* that was told to stop, a query of the control port (fetchOnce, maybeClose, shutdown,
\* onControlEnd).
PartsSettle == FetchSettles /\ SessionCloses /\ SignalEnds /\ ControlQuerySettles
=============================================================================
