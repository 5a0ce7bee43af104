---------------------------- MODULE SocksTunnel ----------------------------
(***************************************************************************)
(* The SOCKS5 proxy of anon-socks: handleSocksConnection of                *)
(* modules/v2/socks.mjs for each accepted connection, and the tunnel       *)
(* factory of modules/v2-runtime/anon_layer_tunnel.mjs with its one shared *)
(* standby circuit.                                                        *)
(*                                                                         *)
(* Circuits are numbered in the order in which their builds start.  What a *)
(* build and a stream open can do is what OnionCircuit and Streams show: a *)
(* build settles; the DESTROY of the circuit may be handled after          *)
(* buildCircuit's last continuation was queued and before it ran (one      *)
(* chunk); an open settles, except when the exit refuses the stream.       *)
(***************************************************************************)
EXTENDS Naturals, FiniteSets

CONSTANTS MaxConns,   \* bound: accepted connections
          MaxBuilds,  \* bound: circuit builds
          Coalesced,  \* may DESTROY come in one chunk with the last EXTENDED
          Closing     \* is the proxy shut down

ASSUME TunnelBounds == MaxConns \in Nat /\ MaxBuilds \in Nat
ASSUME TunnelSwitches == Coalesced \in BOOLEAN /\ Closing \in BOOLEAN

Conns == 1..MaxConns
Circuits == 1..MaxBuilds
None == 0

VARIABLES
    conn,      \* where handleSocksConnection is
    on,        \* the circuit the connection waits for or uses
    replied,   \* the SOCKS reply: "none", "success", "failure"
    hung,      \* its openStream will never settle
    standby,   \* the standby circuit, or None
    building,  \* buildPromise: the build in flight, or None
    life,      \* "none", "building", "resolved", "built", "failed"
    destroyed, \* circuits whose DESTROY was handled
    closing    \* closeStandby ran

socks == <<conn, on, replied, hung>>
tunnel == <<standby, building, life, destroyed, closing>>
vars == <<socks, tunnel>>

Init ==
    /\ conn = [r \in Conns |-> "none"]
    /\ on = [r \in Conns |-> None]
    /\ replied = [r \in Conns |-> "none"]
    /\ hung = {}
    /\ standby = None /\ building = None /\ closing = FALSE
    /\ life = [k \in Circuits |-> "none"]
    /\ destroyed = {}

-----------------------------------------------------------------------------
(* SOCKS                                                                   *)

accept(r) ==
    /\ conn[r] = "none" /\ \A q \in 1..(r - 1) : conn[q] # "none"
    /\ conn' = [conn EXCEPT ![r] = "greeting"]
    /\ UNCHANGED <<on, replied, hung, tunnel>>

\* The greeting offers AUTH_NONE.
greeting(r) ==
    /\ conn[r] = "greeting"
    /\ conn' = [conn EXCEPT ![r] = "request"]
    /\ UNCHANGED <<on, replied, hung, tunnel>>

\* Wrong version, no acceptable method, end of stream or the read timeout.
greetingRefused(r) ==
    /\ conn[r] = "greeting"
    /\ conn' = [conn EXCEPT ![r] = "done"]
    /\ UNCHANGED <<on, replied, hung, tunnel>>

\* A CONNECT request: tunnelFactory is called and resolves the host.
connectRequest(r) ==
    /\ conn[r] = "request"
    /\ conn' = [conn EXCEPT ![r] = "resolving"]
    /\ UNCHANGED <<on, replied, hung, tunnel>>

\* A malformed request or another command is answered; a stream that ends or
\* times out is closed without an answer.
requestRefused(r, answer) ==
    /\ conn[r] = "request"
    /\ conn' = [conn EXCEPT ![r] = "done"]
    /\ replied' = [replied EXCEPT ![r] = answer]
    /\ UNCHANGED <<on, hung, tunnel>>

\* The connections R get the failure reply and are closed.
Fail(R) ==
    /\ conn' = [r \in Conns |-> IF r \in R THEN "done" ELSE conn[r]]
    /\ replied' = [r \in Conns |-> IF r \in R THEN "failure" ELSE replied[r]]

resolveFails(r) ==
    /\ conn[r] = "resolving"
    /\ Fail({r})
    /\ UNCHANGED <<on, hung, tunnel>>

-----------------------------------------------------------------------------
(* The standby circuit                                                     *)

WaitFor(r, k) ==
    /\ conn' = [conn EXCEPT ![r] = "waiting"]
    /\ on' = [on EXCEPT ![r] = k]

\* ensureCircuit with a standby circuit: the stream is opened on it.
useStandby(r) ==
    /\ conn[r] = "resolving"
    /\ standby # None
    /\ conn' = [conn EXCEPT ![r] = "opening"]
    /\ on' = [on EXCEPT ![r] = standby]
    /\ UNCHANGED <<replied, hung, tunnel>>

\* ensureCircuit while a build is in flight: its promise is shared.
joinBuild(r) ==
    /\ conn[r] = "resolving"
    /\ standby = None /\ building # None
    /\ WaitFor(r, building)
    /\ UNCHANGED <<replied, hung, tunnel>>

\* The next build.
NextBuild(k) == life[k] = "none" /\ \A j \in 1..(k - 1) : life[j] # "none"

\* ensureCircuit with neither: a path is picked and a build begins.
startBuild(r, k) ==
    /\ conn[r] = "resolving"
    /\ standby = None /\ building = None /\ NextBuild(k)
    /\ building' = k
    /\ life' = [life EXCEPT ![k] = "building"]
    /\ WaitFor(r, k)
    /\ UNCHANGED <<replied, hung, standby, destroyed, closing>>

\* pickPath finds no usable path.
noPath(r) ==
    /\ conn[r] = "resolving"
    /\ standby = None /\ building = None
    /\ Fail({r})
    /\ UNCHANGED <<on, hung, tunnel>>

\* Mutant: a rejected build keeps the connections that share it waiting.
buildFailsKept(k) ==
    /\ life[k] = "building"
    /\ life' = [life EXCEPT ![k] = "failed"]
    /\ building' = None
    /\ UNCHANGED <<socks, standby, destroyed, closing>>

\* buildCircuit rejects: all that share the build fail, and it is forgotten.
buildFails(k) ==
    /\ life[k] = "building"
    /\ life' = [life EXCEPT ![k] = "failed"]
    /\ building' = None
    /\ Fail({r \in Conns : conn[r] = "waiting" /\ on[r] = k})
    /\ UNCHANGED <<on, hung, standby, destroyed, closing>>

\* The last EXTENDED was handled: buildCircuit's continuation is queued.
buildResolves(k) ==
    /\ life[k] = "building" /\ k \notin destroyed
    /\ life' = [life EXCEPT ![k] = "resolved"]
    /\ UNCHANGED <<socks, standby, building, destroyed, closing>>

\* ensureCircuit resumes: the circuit becomes the standby, and all that wait
\* open their streams.
buildDone(k) ==
    /\ life[k] = "resolved"
    /\ life' = [life EXCEPT ![k] = "built"]
    /\ standby' = k
    /\ building' = None
    /\ conn' = [r \in Conns |-> IF conn[r] = "waiting" /\ on[r] = k THEN "opening" ELSE conn[r]]
    /\ UNCHANGED <<on, replied, hung, destroyed, closing>>

\* Mutant: the callback only logs.
onDestroyLogged(k) ==
    /\ life[k] \in {"building", "built"} \cup (IF Coalesced THEN {"resolved"} ELSE {})
    /\ k \notin destroyed
    /\ destroyed' = destroyed \cup {k}
    /\ UNCHANGED <<socks, standby, building, life, closing>>

\* Mutant: a closed handler still reports DESTROY.
onDestroyRepeated(k) ==
    /\ life[k] \in {"building", "built"}
    /\ destroyed' = destroyed \cup {k}
    /\ standby' = None
    /\ UNCHANGED <<socks, building, life, closing>>

\* onDestroy of circuit k clears the standby, whichever circuit it is.
onDestroy(k) ==
    /\ life[k] \in {"building", "built"} \cup (IF Coalesced THEN {"resolved"} ELSE {})
    /\ k \notin destroyed
    /\ destroyed' = destroyed \cup {k}
    /\ standby' = None
    /\ UNCHANGED <<socks, building, life, closing>>

-----------------------------------------------------------------------------
(* Streams                                                                 *)

Opening(r) == conn[r] = "opening" /\ r \notin hung

openSucceeds(r) ==
    /\ Opening(r) /\ on[r] \notin destroyed
    /\ conn' = [conn EXCEPT ![r] = "piping"]
    /\ replied' = [replied EXCEPT ![r] = "success"]
    /\ UNCHANGED <<on, hung, tunnel>>

\* END before CONNECTED: openStream never settles.
openRefused(r) ==
    /\ Opening(r) /\ on[r] \notin destroyed
    /\ hung' = hung \cup {r}
    /\ UNCHANGED <<conn, on, replied, tunnel>>

openTimesOut(r) ==
    /\ Opening(r)
    /\ Fail({r})
    /\ UNCHANGED <<on, hung, tunnel>>

\* Either side of the pipe ends.
pipeEnds(r) ==
    /\ conn[r] = "piping"
    /\ conn' = [conn EXCEPT ![r] = "done"]
    /\ UNCHANGED <<on, replied, hung, tunnel>>

\* closeStandby at shutdown: the streams of the standby end locally.
closeStandby ==
    /\ Closing /\ ~closing
    /\ closing' = TRUE
    /\ standby' = None
    /\ LET mine == {r \in Conns : standby # None /\ on[r] = standby}
       IN  /\ hung' = hung \cup {r \in mine : conn[r] = "opening"}
           /\ conn' = [r \in Conns |-> IF r \in mine /\ conn[r] = "piping" THEN "done"
                                       ELSE conn[r]]
    /\ UNCHANGED <<on, replied, building, life, destroyed>>

-----------------------------------------------------------------------------
Next ==
    \/ \E r \in Conns :
         \/ accept(r) \/ greeting(r) \/ greetingRefused(r) \/ connectRequest(r)
         \/ \E answer \in {"none", "failure"} : requestRefused(r, answer)
         \/ resolveFails(r) \/ useStandby(r) \/ joinBuild(r) \/ noPath(r)
         \/ \E k \in Circuits : startBuild(r, k)
         \/ openSucceeds(r) \/ openRefused(r) \/ openTimesOut(r) \/ pipeEnds(r)
    \/ \E k \in Circuits :
         buildFails(k) \/ buildResolves(k) \/ buildDone(k) \/ onDestroy(k)
    \/ closeStandby

\* Builds settle (OnionCircuit: BuildSettles), continuations run, the connect
\* timer fires.
Fairness ==
    /\ \A k \in Circuits : WF_vars(buildFails(k) \/ buildResolves(k)) /\ WF_vars(buildDone(k))
    /\ \A r \in Conns : WF_vars(openTimesOut(r))

Spec == Init /\ [][Next]_vars
FairSpec == Spec /\ Fairness

-----------------------------------------------------------------------------
(* Properties                                                              *)

TypeOK ==
    /\ conn \in [Conns -> {"none", "greeting", "request", "resolving", "waiting",
                           "opening", "piping", "done"}]
    /\ on \in [Conns -> Circuits \cup {None}]
    /\ replied \in [Conns -> {"none", "success", "failure"}]
    /\ hung \subseteq Conns /\ destroyed \subseteq Circuits
    /\ standby \in Circuits \cup {None} /\ building \in Circuits \cup {None}
    /\ life \in [Circuits -> {"none", "building", "resolved", "built", "failed"}]
    /\ closing \in BOOLEAN

\* However many connections come at once, one circuit is built for them: the
\* build in flight is the one ensureCircuit knows of, and none is in flight
\* beside a standby circuit (a shutdown apart).
OneBuild ==
    /\ {k \in Circuits : life[k] \in {"building", "resolved"}} = {building} \ {None}
    /\ building # None => standby = None

\* Only the DESTROY of the standby circuit itself (or the shutdown) takes it
\* away: the callback of another circuit never discards a live standby.
StandbyKept ==
    [][(standby # None /\ standby' = None) => (standby \in destroyed' \/ closing')]_vars

\* "standby circuit destroyed; will rebuild on next request": no connection
\* is given a circuit whose DESTROY was already handled.
StandbyAlive == standby # None => standby \notin destroyed

\* A connection that waits for a circuit or for its stream gets on with it,
\* unless the exit refused the stream.
ConnectionSettles ==
    \A r \in Conns :
        (conn[r] \in {"waiting", "opening"}) ~> (conn[r] \in {"piping", "done"} \/ r \in hung)

\* The circuit that connections share is built once, is the one ensureCircuit
\* knows of, and is not a dead one (a DESTROY that is coalesced with the last
\* EXTENDED apart: with Coalesced = TRUE this does not hold).
StandbySound == TypeOK /\ OneBuild /\ StandbyAlive
=============================================================================
