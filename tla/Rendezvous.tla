----------------------------- MODULE Rendezvous -----------------------------
(***************************************************************************)
(* The rendezvous protocol between clients and one hidden service:         *)
(* rendezvous_client.mjs (openHiddenService), service_publisher.mjs,       *)
(* ip_role.mjs and rp_role.mjs, over circuits that are FIFO in each        *)
(* direction (OnionCircuit) and that may die without a word: none of the   *)
(* four passes onDestroy to buildCircuit, so no endpoint is told.          *)
(*                                                                         *)
(* A message that the code fragments is one message here: its fragments    *)
(* are sent in one synchronous loop on one circuit, so they arrive         *)
(* together and in order.  The random cookie of client x, and the          *)
(* handshake it belongs to, are x; "hs" names the handshake whose keys or  *)
(* answer a cell carries.                                                  *)
(***************************************************************************)
EXTENDS Naturals, Sequences, FiniteSets

CONSTANTS Clients,     \* calls of openHiddenService for the one service
          RetryLimit,  \* attempts of buildWithRetry (4 in the code)
          MaxDeaths    \* bound: circuits that die

ASSUME RendezvousBounds == RetryLimit \in Nat \ {0} /\ MaxDeaths \in Nat

\* A circuit: client to RP, client to IP, service to RP for a cookie, and
\* service to IP.
rp(x) == <<"client-rp", x>>
ip(x) == <<"client-ip", x>>
sr(x) == <<"service-rp", x>>
si == <<"service-ip">>
Circuits == {rp(x) : x \in Clients} \cup {ip(x) : x \in Clients}
                \cup {sr(x) : x \in Clients} \cup {si}
None == <<>>

VARIABLES
    phase,     \* where a call of openHiddenService is
    tries,     \* attempts of the running buildWithRetry
    stream,    \* a stream of the open connection: "none", "begun", "answered"
    svc,       \* the service: "starting", "wait", "running" or "down"
    building,  \* cookies whose beginRendezvous awaits its circuit
    active,    \* keys of activeRendezvous
    dialing,   \* cookies with a local socket that has not answered yet
    services,  \* the IP's registration: the service's circuit, or None
    cookies,   \* the RP's Map: cookie -> the client's circuit, or None
    splice,    \* the RP: circuit -> the circuit it is spliced with, or None
    circ,      \* "none", "up", "dead"
    net        \* cells under way: circuit -> [out, back]

client == <<phase, tries, stream>>
service == <<svc, building, active, dialing>>
relays == <<services, cookies, splice>>
vars == <<client, service, relays, circ, net>>

Init ==
    /\ phase = [x \in Clients |-> "idle"]
    /\ tries = [x \in Clients |-> 0]
    /\ stream = [x \in Clients |-> "none"]
    /\ svc = "starting" /\ building = {} /\ active = {} /\ dialing = {}
    /\ services = None
    /\ cookies = [x \in Clients |-> None]
    /\ splice = [c \in Circuits |-> None]
    /\ circ = [c \in Circuits |-> "none"]
    /\ net = [c \in Circuits |-> [out |-> <<>>, back |-> <<>>]]

-----------------------------------------------------------------------------
(* Circuits                                                                *)

Msg(cmd, hs, status) == [cmd |-> cmd, hs |-> hs, status |-> status]

\* A cell sent on a circuit that is gone is lost.
Put(n, c, d, m) ==
    IF c # None /\ circ[c] = "up" THEN [n EXCEPT ![c][d] = Append(@, m)] ELSE n

Arrives(c, d, cmd) == net[c][d] # <<>> /\ Head(net[c][d]).cmd = cmd
Taken(c, d) == [net EXCEPT ![c][d] = Tail(@)]

\* buildCircuit resolves: the circuit is up, and m its first cell.
Built(c, m) ==
    /\ circ' = [circ EXCEPT ![c] = "up"]
    /\ net' = [net EXCEPT ![c].out = <<m>>]

circuitDies(c) ==
    /\ circ[c] = "up"
    /\ Cardinality({d \in Circuits : circ[d] = "dead"}) < MaxDeaths
    /\ circ' = [circ EXCEPT ![c] = "dead"]
    /\ net' = [net EXCEPT ![c] = [out |-> <<>>, back |-> <<>>]]
    /\ UNCHANGED <<client, service, relays>>

-----------------------------------------------------------------------------
(* The client                                                              *)

\* The call, which throws at once when the descriptor names no usable
\* introduction point or the consensus offers no RP.
openHiddenService(x) ==
    /\ phase[x] = "idle"
    /\ \E p \in {"rp-build", "failed"} : phase' = [phase EXCEPT ![x] = p]
    /\ UNCHANGED <<tries, stream, service, relays, circ, net>>

\* A transient failure is retried with a fresh path, any other is thrown.
buildFails(x, transient) ==
    /\ phase[x] \in {"rp-build", "ip-build"}
    /\ IF transient /\ tries[x] + 1 < RetryLimit
       THEN tries' = [tries EXCEPT ![x] = @ + 1] /\ phase' = phase
       ELSE tries' = tries /\ phase' = [phase EXCEPT ![x] = "failed"]
    /\ UNCHANGED <<stream, service, relays, circ, net>>

\* Step 1: the RP circuit, ESTABLISH_RENDEZVOUS.
rpBuilt(x) ==
    /\ phase[x] = "rp-build"
    /\ Built(rp(x), Msg("ESTABLISH_RENDEZVOUS", x, 0))
    /\ phase' = [phase EXCEPT ![x] = "rp-wait"]
    /\ tries' = [tries EXCEPT ![x] = 0]
    /\ UNCHANGED <<stream, service, relays>>

onRendezvousEstablished(x) ==
    /\ Arrives(rp(x), "back", "RENDEZVOUS_ESTABLISHED")
    /\ phase' = IF phase[x] # "rp-wait" THEN phase
                ELSE [phase EXCEPT ![x] = IF Head(net[rp(x)].back).status = 0
                                          THEN "ip-build" ELSE "failed"]
    /\ net' = Taken(rp(x), "back")
    /\ UNCHANGED <<tries, stream, service, relays, circ>>

\* Step 2: the IP circuit, INTRODUCE1.
ipBuilt(x) ==
    /\ phase[x] = "ip-build"
    /\ Built(ip(x), Msg("INTRODUCE1", x, 0))
    /\ phase' = [phase EXCEPT ![x] = "ack-wait"]
    /\ UNCHANGED <<tries, stream, service, relays>>

onIntroduceAck(x) ==
    /\ Arrives(ip(x), "back", "INTRODUCE_ACK")
    /\ phase' = IF phase[x] # "ack-wait" THEN phase
                ELSE [phase EXCEPT ![x] = IF Head(net[ip(x)].back).status = 0
                                          THEN "r2-wait" ELSE "failed"]
    /\ net' = Taken(ip(x), "back")
    /\ UNCHANGED <<tries, stream, service, relays, circ>>

\* Step 3: RENDEZVOUS2.  Its resolver exists only once the INTRODUCE_ACK was
\* awaited: one that overtakes the ACK is reassembled and lost.
onRendezvous2(x) ==
    /\ Arrives(rp(x), "back", "RENDEZVOUS2")
    /\ phase' = IF phase[x] # "r2-wait" THEN phase
                ELSE [phase EXCEPT ![x] = IF Head(net[rp(x)].back).hs = x
                                          THEN "open" ELSE "unauthenticated"]
    /\ net' = Taken(rp(x), "back")
    /\ UNCHANGED <<tries, stream, service, relays, circ>>

Waits == {"rp-wait", "ack-wait", "r2-wait"}

\* Mutant: no timer for RENDEZVOUS2.
waitTimeoutTwo(x) ==
    /\ phase[x] \in {"rp-wait", "ack-wait"}
    /\ phase' = [phase EXCEPT ![x] = "failed"]
    /\ UNCHANGED <<tries, stream, service, relays, circ, net>>

\* The timers of the three waits.
waitTimeout(x) ==
    /\ phase[x] \in Waits
    /\ phase' = [phase EXCEPT ![x] = "failed"]
    /\ UNCHANGED <<tries, stream, service, relays, circ, net>>

\* Step 4: a stream of the open connection, and the answer to its BEGIN.
openStream(x) ==
    /\ phase[x] = "open" /\ stream[x] = "none"
    /\ stream' = [stream EXCEPT ![x] = "begun"]
    /\ net' = Put(net, rp(x), "out", Msg("BEGIN", x, 0))
    /\ UNCHANGED <<phase, tries, service, relays, circ>>

onStreamReply(x) ==
    /\ Arrives(rp(x), "back", "REPLY")
    /\ stream' = [stream EXCEPT ![x] = IF phase[x] = "open" THEN "answered" ELSE @]
    /\ net' = Taken(rp(x), "back")
    /\ UNCHANGED <<phase, tries, service, relays, circ>>

-----------------------------------------------------------------------------
(* The introduction point                                                  *)

\* ESTABLISH_INTRO; a timestamp outside the window or a bad signature is
\* refused.
handleEstablishIntro(ok) ==
    /\ Arrives(si, "out", "ESTABLISH_INTRO")
    /\ services' = IF ok THEN si ELSE services
    /\ net' = Put(Taken(si, "out"), si, "back",
                  Msg("INTRO_ESTABLISHED", 0, IF ok THEN 0 ELSE 1))
    /\ UNCHANGED <<client, service, cookies, splice, circ>>

\* INTRODUCE1: INTRODUCE2 to the registered circuit, alive or not, then the
\* ACK.
handleIntroduce1(x) ==
    /\ Arrives(ip(x), "out", "INTRODUCE1")
    /\ LET known == services # None
           fwd == Put(Taken(ip(x), "out"), services, "back", Msg("INTRODUCE2", x, 0))
       IN  net' = Put(fwd, ip(x), "back",
                      Msg("INTRODUCE_ACK", x, IF known THEN 0 ELSE 1))
    /\ UNCHANGED <<client, service, relays, circ>>

-----------------------------------------------------------------------------
(* The rendezvous point                                                    *)

handleEstablishRendezvous(x) ==
    /\ Arrives(rp(x), "out", "ESTABLISH_RENDEZVOUS")
    /\ LET k == Head(net[rp(x)].out).hs
           free == cookies[k] = None
       IN  /\ cookies' = IF free THEN [cookies EXCEPT ![k] = rp(x)] ELSE cookies
           /\ net' = Put(Taken(rp(x), "out"), rp(x), "back",
                         Msg("RENDEZVOUS_ESTABLISHED", x, IF free THEN 0 ELSE 1))
    /\ UNCHANGED <<client, service, services, splice, circ>>

\* spliceCircuits: each circuit's spliceHandler leads to the other one.
spliceCircuits(c, s) == splice' = [splice EXCEPT ![c] = s, ![s] = c]

\* Mutant: the first client that waits is taken, whatever the cookie.
clientEntryAny(k) ==
    IF \A j \in Clients : cookies[j] = None THEN None
    ELSE cookies[CHOOSE j \in Clients : cookies[j] # None]

\* The entry a cookie names.
clientEntry(k) == cookies[k]

\* RENDEZVOUS1: the cookie is used up, the circuits are spliced, RENDEZVOUS2
\* goes to the client.  An unknown cookie is ignored.
handleRendezvous1(y) ==
    /\ Arrives(sr(y), "out", "RENDEZVOUS1")
    /\ LET k == Head(net[sr(y)].out).hs
           entry == clientEntry(k)
       IN  IF entry = None
           THEN net' = Taken(sr(y), "out") /\ UNCHANGED <<cookies, splice>>
           ELSE /\ cookies' = [cookies EXCEPT ![k] = None]
                /\ spliceCircuits(entry, sr(y))
                /\ net' = Put(Taken(sr(y), "out"), entry, "back",
                              Msg("RENDEZVOUS2", k, 0))
    /\ UNCHANGED <<client, service, services, circ>>

\* A cell that is not for this hop goes to the spliceHandler, or nowhere.
throughSplice(c) ==
    /\ Arrives(c, "out", "BEGIN") \/ Arrives(c, "out", "REPLY")
    /\ net' = Put(Taken(c, "out"), splice[c], "back", Head(net[c].out))
    /\ UNCHANGED <<client, service, relays, circ>>

-----------------------------------------------------------------------------
(* The service                                                             *)

Running == svc \in {"wait", "running"}

\* start: the IP circuit, ESTABLISH_INTRO.
startBuilt ==
    /\ svc = "starting"
    /\ Built(si, Msg("ESTABLISH_INTRO", 0, 0))
    /\ svc' = "wait"
    /\ UNCHANGED <<client, building, active, dialing, relays>>

onIntroEstablished ==
    /\ Running /\ Arrives(si, "back", "INTRO_ESTABLISHED")
    /\ svc' = IF Head(net[si].back).status = 0 THEN "running" ELSE "down"
    /\ net' = Taken(si, "back")
    /\ UNCHANGED <<client, building, active, dialing, relays, circ>>

\* start throws (no circuit, or its timer), and the process ends; or a signal
\* stops it: stop forgets every rendezvous.
serviceStops ==
    /\ svc # "down"
    /\ svc' = "down"
    /\ building' = {} /\ active' = {} /\ dialing' = {}
    /\ UNCHANGED <<client, relays, circ, net>>

handleIntroduce2 ==
    /\ Running /\ Arrives(si, "back", "INTRODUCE2")
    /\ building' = building \cup {Head(net[si].back).hs}
    /\ net' = Taken(si, "back")
    /\ UNCHANGED <<client, svc, active, dialing, relays, circ>>

\* beginRendezvous, its circuit being up: RENDEZVOUS1, then the end-to-end
\* hop and the entry, in one step.
beginRendezvous(x) ==
    /\ x \in building
    /\ Built(sr(x), Msg("RENDEZVOUS1", x, 0))
    /\ building' = building \ {x}
    /\ active' = active \cup {x}
    /\ UNCHANGED <<client, svc, dialing, relays>>

\* The RP is not in the service's consensus, or the build fails: only logged.
beginRendezvousFails(x) ==
    /\ x \in building
    /\ building' = building \ {x}
    /\ UNCHANGED <<client, svc, active, dialing, relays, circ, net>>

\* BEGIN under the end-to-end keys of this rendezvous: a local connection.
handleRendezvousCircuitData(y) ==
    /\ Running /\ Arrives(sr(y), "back", "BEGIN")
    /\ dialing' = IF y \in active /\ Head(net[sr(y)].back).hs = y
                  THEN dialing \cup {y} ELSE dialing
    /\ net' = Taken(sr(y), "back")
    /\ UNCHANGED <<client, svc, building, active, relays, circ>>

\* The local socket connects (CONNECTED) or fails (END).
localSocket(y) ==
    /\ y \in dialing
    /\ dialing' = dialing \ {y}
    /\ net' = Put(net, sr(y), "out", Msg("REPLY", y, 0))
    /\ UNCHANGED <<client, svc, building, active, relays, circ>>

-----------------------------------------------------------------------------
ClientStep(x) ==
    \/ onRendezvousEstablished(x) \/ onIntroduceAck(x) \/ onRendezvous2(x)
    \/ onStreamReply(x)

BuildSettles(x) ==
    rpBuilt(x) \/ ipBuilt(x) \/ \E t \in BOOLEAN : buildFails(x, t)

RelayStep ==
    \/ \E ok \in BOOLEAN : handleEstablishIntro(ok)
    \/ \E x \in Clients :
         \/ handleIntroduce1(x) \/ handleEstablishRendezvous(x)
         \/ handleRendezvous1(x)
    \/ \E c \in Circuits : throughSplice(c)

ServiceStep ==
    \/ onIntroEstablished \/ handleIntroduce2
    \/ \E x \in Clients :
         \/ beginRendezvous(x) \/ beginRendezvousFails(x)
         \/ handleRendezvousCircuitData(x) \/ localSocket(x)

Next ==
    \/ RelayStep \/ ServiceStep \/ startBuilt \/ serviceStops
    \/ \E x \in Clients :
         \/ openHiddenService(x) \/ openStream(x)
         \/ ClientStep(x) \/ BuildSettles(x) \/ waitTimeout(x)
    \/ \E c \in Circuits : circuitDies(c)

\* Cells arrive, builds settle (BuildSettles of OnionCircuit), timers and
\* local sockets fire; nobody has to call, and nothing has to fail.
Fairness ==
    /\ WF_vars(RelayStep) /\ WF_vars(ServiceStep)
    /\ \A x \in Clients :
         WF_vars(ClientStep(x)) /\ WF_vars(BuildSettles(x)) /\ WF_vars(waitTimeout(x))

Spec == Init /\ [][Next]_vars
FairSpec == Spec /\ Fairness

-----------------------------------------------------------------------------
(* Properties                                                              *)

Settled == {"open", "failed", "unauthenticated"}

TypeOK ==
    /\ phase \in [Clients -> {"idle", "rp-build", "ip-build"} \cup Waits \cup Settled]
    /\ tries \in [Clients -> 0..(RetryLimit - 1)]
    /\ stream \in [Clients -> {"none", "begun", "answered"}]
    /\ svc \in {"starting", "wait", "running", "down"}
    /\ building \subseteq Clients /\ active \subseteq Clients /\ dialing \subseteq active
    /\ services \in {None, si}
    /\ cookies \in [Clients -> {rp(x) : x \in Clients} \cup {None}]
    /\ splice \in [Circuits -> Circuits \cup {None}]
    /\ circ \in [Circuits -> {"none", "up", "dead"}]

\* When openHiddenService returns, the client's circuit and the one the
\* service built for this very client are spliced both ways, and the
\* service, unless it is gone, has the rendezvous on record.
OpenIsEndToEnd ==
    \A x \in Clients : phase[x] = "open" =>
        /\ splice[rp(x)] = sr(x) /\ splice[sr(x)] = rp(x)
        /\ x \in active \/ svc = "down"

\* Two rendezvous never mix: whatever travels on the circuits of a
\* rendezvous belongs to its handshake, so that no honest client ever sees a
\* handshake that does not verify.
RendezvousIsolated ==
    \A x \in Clients :
        /\ phase[x] # "unauthenticated"
        /\ \A c \in {rp(x), sr(x)}, d \in {"out", "back"} :
             \A k \in DOMAIN net[c][d] : net[c][d][k].hs = x

\* openHiddenService settles, whatever is lost or refused.
CallSettles ==
    \A x \in Clients : (phase[x] # "idle") ~> (phase[x] \in Settled)

\* While circuits and service last, a stream of an open connection is
\* answered, through the splice and back.
StreamAnswered ==
    [](svc # "down" /\ \A c \in Circuits : circ[c] # "dead") =>
        \A x \in Clients : (stream[x] = "begun") ~> (stream[x] = "answered")

\* Whoever is told that his connection is open is spliced with the circuit that
\* the service built for him, and nothing of another rendezvous reaches him
\* (spliceCircuits, and the cookies of the rendezvous point).
RendezvousSound == TypeOK /\ OpenIsEndToEnd /\ RendezvousIsolated

\* openHiddenService settles, and streams of open connections are answered.
RendezvousAnswers == CallSettles /\ StreamAnswered
=============================================================================
