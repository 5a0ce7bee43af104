----------------------------- MODULE SiteProofs ------------------------------
(***************************************************************************)
(* Proofs about a site session and what is around it:                      *)
(*   - whoever can connect to a program finds it prepared (Programs);      *)
(*   - what an operator was shown is what the directory holds, wherever    *)
(*     programs were killed (DataDirectory);                               *)
(*   - what fetchOnce resolves with is the whole answer of the server, and *)
(*     a session is what its document promises (SiteSession, Conversation);*)
(*   - what the bridge shows of a tor circuit is true (TorControl).        *)
(***************************************************************************)
EXTENDS SiteSession, Programs, DataDirectory, TorControl, FiniteSetTheorems, TLAPS

-----------------------------------------------------------------------------
(* The life of a program                                                   *)

Program == {"relay", "socks", "service", "proxy", "bridge", "overlay", "chat"}

\* What the program p uses, whatever it was asked to do.
Used(p) == {s \in DOMAIN Uses : p \in Uses[s]}

\* Step n of the script of p, and the step that lets clients in.
IsStep(p, n, s) == n \in 1..Len(Scripts[p]) /\ Scripts[p][n] = s

\* Of what a program uses it serves nothing before it has it.
LEMMA UsedBeforeServing ==
    ASSUME NEW p \in Program, NEW s \in Used(p), NEW m, IsStep(p, m, "serve")
    PROVE  \E n \in 1..(m - 1) : IsStep(p, n, s)
<1> DEFINE script == Scripts[p]
<1>1. CASE p = "relay"
  <2>1. script = relayScript
    BY <1>1 DEF Scripts
  <2>2. s \in {"identity", "policy", "certificate", "acknowledged", "consensus"}
    BY <1>1 DEF Used, Uses, Scripts
  <2>3. m = 6
    BY <2>1 DEF IsStep, relayScript
  <2> QED BY <2>1, <2>2, <2>3 DEF IsStep, relayScript
<1>2. CASE p = "socks"
  <2>1. script = socksScript
    BY <1>2 DEF Scripts
  <2>2. s \in {"identity", "acknowledged", "consensus"}
    BY <1>2 DEF Used, Uses, Scripts
  <2>3. m = 6
    BY <2>1 DEF IsStep, socksScript
  <2> QED BY <2>1, <2>2, <2>3 DEF IsStep, socksScript
<1>3. CASE p = "service"
  <2>1. script = serviceScript
    BY <1>3 DEF Scripts
  <2>2. s \in {"identity", "acknowledged", "consensus", "onionIdentity", "introPoint"}
    BY <1>3 DEF Used, Uses, Scripts
  <2>3. m = 8
    BY <2>1 DEF IsStep, serviceScript
  <2> QED BY <2>1, <2>2, <2>3 DEF IsStep, serviceScript
<1>4. CASE p = "proxy"
  <2>1. script = proxyScript
    BY <1>4 DEF Scripts
  <2>2. s \in {"identity", "address", "consensus"}
    BY <1>4 DEF Used, Uses, Scripts
  <2>3. m = 7
    BY <2>1 DEF IsStep, proxyScript
  <2> QED BY <2>1, <2>2, <2>3 DEF IsStep, proxyScript
<1>5. CASE p = "bridge"
  <2>1. script = bridgeScript
    BY <1>5 DEF Scripts
  <2>2. s \in {"identity", "consensus"}
    BY <1>5 DEF Used, Uses, Scripts
  <2>3. m = 7
    BY <2>1 DEF IsStep, bridgeScript
  <2> QED BY <2>1, <2>2, <2>3 DEF IsStep, bridgeScript
<1>6. CASE p = "overlay"
  <2>1. script = overlayScript
    BY <1>6 DEF Scripts
  <2>2. s \in {"identity", "seeds"}
    BY <1>6 DEF Used, Uses, Scripts
  <2>3. m = 5
    BY <2>1 DEF IsStep, overlayScript
  <2> QED BY <2>1, <2>2, <2>3 DEF IsStep, overlayScript
<1>7. CASE p = "chat"
  <2>1. script = chatScript
    BY <1>7 DEF Scripts
  <2>2. s \in {"identity", "peer"}
    BY <1>7 DEF Used, Uses, Scripts
  <2>3. m = 5
    BY <2>1 DEF IsStep, chatScript
  <2> QED BY <2>1, <2>2, <2>3 DEF IsStep, chatScript
<1> QED BY <1>1, <1>2, <1>3, <1>4, <1>5, <1>6, <1>7 DEF Program

\* The inductive invariant: what is done is held, unless it is left out, and a
\* program that takes connections has taken the step to.
Prepared ==
    /\ program \in Program /\ done \in 0..Len(Script)
    /\ fate = "starting" => done < Len(Script)
    /\ \A n \in 1..done : ~Skipped(Script[n]) => Script[n] \in has
    /\ serving => \E m \in 1..done : Script[m] = "serve"

LEMMA ScriptsLong == \A p \in Program : Len(Scripts[p]) \in Nat \ {0}
<1>1. Len(Scripts["relay"]) \in Nat \ {0}
  BY DEF Scripts, relayScript
<1>2. Len(Scripts["socks"]) \in Nat \ {0}
  BY DEF Scripts, socksScript
<1>3. Len(Scripts["service"]) \in Nat \ {0}
  BY DEF Scripts, serviceScript
<1>4. Len(Scripts["proxy"]) \in Nat \ {0}
  BY DEF Scripts, proxyScript
<1>5. Len(Scripts["bridge"]) \in Nat \ {0}
  BY DEF Scripts, bridgeScript
<1>6. Len(Scripts["overlay"]) \in Nat \ {0}
  BY DEF Scripts, overlayScript
<1>7. Len(Scripts["chat"]) \in Nat \ {0}
  BY DEF Scripts, chatScript
<1> QED BY <1>1, <1>2, <1>3, <1>4, <1>5, <1>6, <1>7 DEF Program

LEMMA StepKeepsPrepared == Prepared /\ stepDone => Prepared'
<1> SUFFICES ASSUME Prepared, stepDone
             PROVE  Prepared'
  OBVIOUS
<1>1. /\ fate = "starting" /\ done' = done + 1 /\ UNCHANGED <<program, circuitsAsked>>
      /\ fate' = IF done' = Len(Script) THEN "running" ELSE "starting"
      /\ has' = IF Skipped(NextStep) THEN has ELSE has \cup {NextStep}
      /\ serving' = (serving \/ NextStep = "serve")
  BY DEF stepDone
<1>2. Len(Script) \in Nat /\ done \in 0..Len(Script) /\ done < Len(Script)
  BY <1>1, ScriptsLong DEF Prepared, Script
<1>3. Script' = Script /\ \A s : Skipped(s)' <=> Skipped(s)
  BY <1>1 DEF Script, Skipped
<1>4. done' \in 0..Len(Script) /\ (fate' = "starting" => done' < Len(Script))
  BY <1>1, <1>2
<1>5. ASSUME NEW n \in 1..done', ~Skipped(Script[n])
      PROVE  Script[n] \in has'
  <2>1. CASE n \in 1..done
    BY <1>1, <1>5, <2>1 DEF Prepared
  <2>2. CASE n = done + 1
    BY <1>1, <1>5, <2>2 DEF NextStep
  <2> QED BY <1>1, <1>2, <2>1, <2>2
<1>6. ASSUME serving'
      PROVE  \E m \in 1..done' : Script[m] = "serve"
  <2>1. CASE serving
    BY <1>1, <1>2, <2>1 DEF Prepared
  <2>2. CASE NextStep = "serve"
    BY <1>1, <1>2, <2>2 DEF NextStep
  <2> QED BY <1>1, <1>6, <2>1, <2>2
<1>7. program' \in Program
  BY <1>1 DEF Prepared
<1> QED BY <1>3, <1>4, <1>5, <1>6, <1>7 DEF Prepared

\* Whoever can connect to a program (serving) finds everything his connection
\* needs: no step that failed before was passed over, and nothing that a
\* handler uses is made after the listener is up.
THEOREM AlwaysServesPrepared == ProgramSpec => []ServesPrepared
<1>1. ProgramInit => Prepared
  <2> SUFFICES ASSUME ProgramInit
               PROVE  Prepared
    OBVIOUS
  <2>1. program \in Program
    BY DEF ProgramInit, Scripts, Program
  <2>2. Len(Script) \in Nat \ {0}
    BY <2>1, ScriptsLong DEF Script
  <2> QED BY <2>1, <2>2 DEF ProgramInit, Prepared
<1>2. Prepared /\ [ProgramNext]_programVars => Prepared'
  <2> SUFFICES ASSUME Prepared, ProgramNext \/ UNCHANGED programVars
               PROVE  Prepared'
    OBVIOUS
  <2>1. CASE stepDone
    BY <2>1, StepKeepsPrepared
  <2>2. ASSUME UNCHANGED <<program, circuitsAsked, done, has>>, fate' = "starting" => fate = "starting",
               serving' => serving
        PROVE  Prepared'
    BY <2>2 DEF Prepared, Script, Skipped
  <2>3. CASE dies
    BY <2>2, <2>3 DEF dies
  <2>4. CASE connects \/ leaves
    BY <2>2, <2>4 DEF connects, leaves
  <2>5. CASE shutdown
    BY <2>2, <2>5 DEF shutdown
  <2>6. CASE exits
    BY <2>2, <2>6 DEF exits
  <2>7. CASE UNCHANGED programVars
    BY <2>2, <2>7 DEF programVars
  <2> QED BY <2>1, <2>3, <2>4, <2>5, <2>6, <2>7 DEF ProgramNext
<1>3. Prepared => ServesPrepared
  <2> SUFFICES ASSUME Prepared, serving, NEW s \in Needs
               PROVE  s \in has
    BY DEF ServesPrepared
  <2>1. PICK m \in 1..done : Script[m] = "serve"
    BY DEF Prepared
  <2>2. Len(Script) \in Nat /\ done \in 0..Len(Script) /\ program \in Program
    BY ScriptsLong DEF Prepared, Script
  <2>3. IsStep(program, m, "serve") /\ s \in Used(program) /\ ~Skipped(s)
    BY <2>1, <2>2 DEF IsStep, Script, Needs, Used
  <2>4. PICK n \in 1..(m - 1) : IsStep(program, n, s)
    BY <2>2, <2>3, UsedBeforeServing
  <2>5. n \in 1..done /\ Script[n] = s
    BY <2>1, <2>2, <2>4 DEF IsStep, Script
  <2> QED BY <2>3, <2>5 DEF Prepared
<1> QED BY <1>1, <1>2, <1>3, PTL DEF ProgramSpec

-----------------------------------------------------------------------------
(* The files of a node                                                     *)

\* What a list holds: seeds, or the certificate and the key of a link.
Items == Seeds \cup Int

Places == {"idle", "probe", "config", "identity", "load", "open", "write", "rename", "newConfig",
           "writeConfig", "read", "openSeeds", "writeSeeds", "pair", "writeCert", "openKey",
           "writeKey", "running"}

WorkStates == [command : {"none", "init", "add", "create", "run"}, at : Places, made : Nat,
                  fd : {"none", "tmp", "file", "gone"}, list : Seq(Items)]

DirectoryTyped ==
    /\ version \in {"v1", "v2"} /\ work \in [Processes -> WorkStates] /\ commands \in Nat
    /\ identityFile \in Int /\ identityTmp \in Int /\ certFile \in Int /\ keyFile \in Int
    /\ configFile \in {NoFile, Torn, Whole}
    /\ seedFile \in [torn : BOOLEAN, list : Seq(Items)]
    /\ raced \in BOOLEAN /\ disturbed \in BOOLEAN /\ mixed \in BOOLEAN

SeedPlaces == {"config", "read", "newConfig", "writeConfig", "openSeeds", "writeSeeds"}

\* Where a program of each command may be, and what it has with it.
PlacedAt(p) ==
    /\ At(p, "idle") <=> work[p].command = "none"
    /\ ~At(p, "idle") => work[p].made > 0
    /\ version = "v2" => work[p].at \notin SeedPlaces
    /\ version = "v1" /\ work[p].at \in {"probe", "identity"} \cup Making => work[p].command = "init"
    /\ work[p].at \in {"newConfig", "writeConfig"} => work[p].command = "init"
    /\ work[p].at \in {"openSeeds", "writeSeeds"} => work[p].command \in {"init", "add"}
    /\ work[p].at \in {"pair", "writeCert", "openKey", "writeKey"} => work[p].command = "run"
    /\ work[p].command = "init" => work[p].list = <<>>
    /\ work[p].command = "add" =>
          /\ version = "v1" /\ work[p].at \in {"config", "read", "openSeeds", "writeSeeds"}
          /\ work[p].list # <<>>
          /\ ~At(p, "config") => configFile # NoFile

Placed == \A p \in Processes : PlacedAt(p)

\* One program at most is making an identity, and only where there is none.
IdentityKept ==
    /\ NoFile \notin announced
    /\ ~raced =>
         /\ announced \subseteq {identityFile} /\ identityFile # Torn
         /\ \A p \in Processes : work[p].at \in Making =>
               /\ identityFile = NoFile
               /\ \A q \in Processes \ {p} : work[q].at \notin Making
         /\ \A p \in Processes : At(p, "write") => work[p].fd = "tmp" /\ identityTmp = Torn
         /\ \A p \in Processes : At(p, "rename") => identityTmp = work[p].made

Listed(list) == {list[i] : i \in DOMAIN list}

\* p is about to write the list with a seed more.
Adding(p) == work[p].command = "add" /\ work[p].at \in {"openSeeds", "writeSeeds"}

\* p is about to write the first list.
Starting(p) == work[p].command = "init" /\ ~At(p, "probe")

\* Who adds a seed is alone in changing the list, and has all that was added.
ListKept ==
    /\ added # {} => configFile # NoFile /\ version = "v1"
    /\ ~disturbed =>
         /\ \A p \in Processes : Adding(p) => Changing(p) = {} /\ added \subseteq Listed(work[p].list)
         /\ \A p \in Processes : Starting(p) => added = {}
         /\ (\A p \in Processes : ~At(p, "writeSeeds")) =>
               ~seedFile.torn /\ added \subseteq Listed(seedFile.list)

PairPlaces == {"writeCert", "openKey", "writeKey"}

\* One relay at most is writing a certificate and its key, in this order.
PairKept ==
    ~mixed =>
      /\ \A p \in Processes : work[p].at \in PairPlaces =>
            \A q \in Processes \ {p} : work[q].at \notin PairPlaces
      /\ certFile # Torn /\ (keyFile # NoFile => certFile # NoFile)
      /\ \A p \in Processes : At(p, "writeCert") => keyFile = NoFile
      /\ \A p \in Processes : At(p, "openKey") => keyFile = NoFile /\ certFile = work[p].made
      /\ \A p \in Processes : At(p, "writeKey") => certFile = work[p].made
      /\ keyFile # NoFile /\ (\A p \in Processes : ~At(p, "writeKey")) => keyFile = certFile
      /\ \A p \in Processes : version = "v2" /\ At(p, "running") =>
            work[p].list[1] = work[p].list[2] /\ work[p].list[1] \notin {NoFile, Torn}

\* The inductive invariant.
DirectoryInv == DirectoryTyped /\ Placed /\ IdentityKept /\ ListKept /\ PairKept

-----------------------------------------------------------------------------
(* A step of one program                                                   *)

\* The others stay where they are; a rename moves the file they have open.
Others(p) ==
    \A q \in Processes \ {p} :
        /\ work'[q].command = work[q].command /\ work'[q].at = work[q].at
        /\ work'[q].made = work[q].made /\ work'[q].list = work[q].list

OthersFiles(p) == \A q \in Processes \ {p} : work'[q].fd = work[q].fd

Alone(p) == Others(p) /\ OthersFiles(p)

LEMMA WorkFields ==
    ASSUME DirectoryTyped, NEW p \in Processes
    PROVE  /\ work[p] \in WorkStates
           /\ work[p].command \in {"none", "init", "add", "create", "run"} /\ work[p].at \in Places
           /\ work[p].made \in Nat /\ work[p].fd \in {"none", "tmp", "file", "gone"}
           /\ work[p].list \in Seq(Items)
<1>1. work[p] \in WorkStates
  BY DEF DirectoryTyped
<1> QED BY <1>1 DEF WorkStates

\* p comes to w.
LEMMA Comes ==
    ASSUME DirectoryTyped, NEW p \in Processes, NEW w \in WorkStates,
           work' = [work EXCEPT ![p] = w]
    PROVE  work' \in [Processes -> WorkStates] /\ work'[p] = w /\ Alone(p)
<1>1. work \in [Processes -> WorkStates]
  BY DEF DirectoryTyped
<1> QED BY <1>1 DEF Alone, Others, OthersFiles

LEMMA GoesTo ==
    ASSUME DirectoryTyped, NEW p \in Processes, NEW place \in Places, GoTo(p, place)
    PROVE  /\ work' \in [Processes -> WorkStates] /\ Alone(p)
           /\ work'[p].at = place /\ work'[p].command = work[p].command
           /\ work'[p].made = work[p].made /\ work'[p].fd = work[p].fd /\ work'[p].list = work[p].list
<1>1. PICK w : w = [work[p] EXCEPT !.at = place]
  OBVIOUS
<1>2. work[p] \in WorkStates
  BY WorkFields
<1>3. /\ w \in WorkStates /\ w.at = place /\ w.command = work[p].command
      /\ w.made = work[p].made /\ w.fd = work[p].fd /\ w.list = work[p].list
  BY <1>1, <1>2 DEF WorkStates
<1>4. work' = [work EXCEPT ![p] = w]
  BY <1>1 DEF GoTo
<1> QED BY <1>3, <1>4, Comes

LEMMA Dies ==
    ASSUME DirectoryTyped, NEW p \in Processes, die(p)
    PROVE  /\ work' \in [Processes -> WorkStates] /\ Alone(p)
           /\ work'[p].at = "idle" /\ work'[p].command = "none" /\ work'[p].list = <<>>
<1>1. Resting \in WorkStates
  <2>1. <<>> \in Seq(Items)
    OBVIOUS
  <2> QED BY <2>1 DEF Resting, WorkStates, Places
<1>2. Resting.at = "idle" /\ Resting.command = "none" /\ Resting.list = <<>>
  BY DEF Resting
<1> QED BY <1>1, <1>2, Comes DEF die

\* p is elsewhere, and the others still fit where they are.
LEMMA PlacedStays ==
    ASSUME Placed, NEW p \in Processes, Others(p), version' = version,
           configFile # NoFile => configFile' # NoFile, PlacedAt(p)'
    PROVE  Placed'
<1> SUFFICES ASSUME NEW q \in Processes, q # p
             PROVE  PlacedAt(q)'
  BY DEF Placed
<1>1. PlacedAt(q)
  BY DEF Placed
<1>2. /\ work'[q].command = work[q].command /\ work'[q].at = work[q].at
      /\ work'[q].made = work[q].made /\ work'[q].list = work[q].list
  BY DEF Others
<1> QED BY <1>1, <1>2 DEF PlacedAt, At

\* No identity is being made by p.
LEMMA IdentityStays ==
    ASSUME IdentityKept, NEW p \in Processes, Alone(p),
           UNCHANGED <<identityFile, identityTmp>>, raced => raced',
           announced' = announced \/ (identityFile # NoFile /\ announced' = announced \cup {identityFile}),
           work'[p].at \notin Making
    PROVE  IdentityKept'
<1>1. \A q \in Processes : work'[q].at \in Making \/ At(q, "write")' \/ At(q, "rename")' => q # p
  BY DEF Making, At
<1>2. NoFile \notin announced'
  BY DEF IdentityKept
<1>3. ASSUME ~raced'
      PROVE  /\ announced' \subseteq {identityFile} /\ identityFile # Torn
             /\ \A q \in Processes : work'[q].at \in Making =>
                  /\ identityFile = NoFile
                  /\ \A r \in Processes \ {q} : work'[r].at \notin Making
             /\ \A q \in Processes : At(q, "write")' => work'[q].fd = "tmp" /\ identityTmp = Torn
             /\ \A q \in Processes : At(q, "rename")' => identityTmp = work'[q].made
  <2>1. /\ announced \subseteq {identityFile} /\ identityFile # Torn
        /\ \A q \in Processes : work[q].at \in Making =>
             /\ identityFile = NoFile
             /\ \A r \in Processes \ {q} : work[r].at \notin Making
        /\ \A q \in Processes : At(q, "write") => work[q].fd = "tmp" /\ identityTmp = Torn
        /\ \A q \in Processes : At(q, "rename") => identityTmp = work[q].made
    BY <1>3 DEF IdentityKept
  <2>2. ASSUME NEW q \in Processes, work'[q].at \in Making
        PROVE  /\ identityFile = NoFile
               /\ \A r \in Processes \ {q} : work'[r].at \notin Making
    <3>1. q # p /\ work[q].at \in Making
      BY <1>1, <2>2 DEF Alone, Others
    <3> QED BY <2>1, <3>1 DEF Alone, Others
  <2> QED BY <1>1, <2>1, <2>2 DEF Alone, Others, OthersFiles, At
<1> QED BY <1>2, <1>3 DEF IdentityKept

\* p writes, or is about to write, the list.
Changer(p) == work[p].at \in {"openSeeds", "writeSeeds"} \/ Starting(p)

LEMMA ChangingIs == \A p \in Processes : Changing(p) = {q \in Processes \ {p} : Changer(q)}
  BY DEF Changing, Changer, Starting, At

\* Nothing is added, and p is no nearer to writing the list than it was.
LEMMA ListStays ==
    ASSUME ListKept, Placed, NEW p \in Processes, Others(p),
           UNCHANGED <<version, seedFile, added>>, disturbed => disturbed',
           configFile # NoFile => configFile' # NoFile,
           Adding(p)' => Adding(p) /\ work'[p].list = work[p].list,
           Starting(p)' => Starting(p) \/ configFile = NoFile \/ version = "v2",
           work'[p].at \in {"openSeeds", "writeSeeds"} => Changer(p),
           ~disturbed' /\ At(p, "writeSeeds") => At(p, "writeSeeds")'
    PROVE  ListKept'
<1>1. added' # {} => configFile' # NoFile /\ version' = "v1"
  BY DEF ListKept
<1>2. \A q \in Processes \ {p} :
          /\ Adding(q)' <=> Adding(q)
          /\ Starting(q)' <=> Starting(q)
          /\ Changer(q)' <=> Changer(q)
          /\ At(q, "writeSeeds")' <=> At(q, "writeSeeds")
          /\ work'[q].list = work[q].list
  BY DEF Others, Adding, Starting, Changer, At
<1>3. Starting(p)' \/ Changer(p)' => Changer(p) \/ configFile = NoFile \/ version = "v2"
  BY DEF Changer
<1>4. ASSUME ~disturbed'
      PROVE  /\ \A q \in Processes : Adding(q)' =>
                   Changing(q)' = {} /\ added \subseteq Listed(work'[q].list)
             /\ \A q \in Processes : Starting(q)' => added = {}
             /\ (\A q \in Processes : ~At(q, "writeSeeds")') =>
                   ~seedFile.torn /\ added \subseteq Listed(seedFile.list)
  <2>1. /\ \A q \in Processes : Adding(q) => Changing(q) = {} /\ added \subseteq Listed(work[q].list)
        /\ \A q \in Processes : Starting(q) => added = {}
        /\ (\A q \in Processes : ~At(q, "writeSeeds")) =>
              ~seedFile.torn /\ added \subseteq Listed(seedFile.list)
    BY <1>4 DEF ListKept
  <2>2. ASSUME NEW q \in Processes, Adding(q)'
        PROVE  Changing(q)' = {} /\ added \subseteq Listed(work'[q].list)
    <3>1. Adding(q) /\ work'[q].list = work[q].list
      BY <1>2, <2>2
    <3>2. configFile # NoFile /\ version = "v1"
      BY <3>1 DEF Placed, PlacedAt, Adding, At
    <3>3. \A r \in Processes \ {q} : ~Changer(r)
      BY <2>1, <3>1, ChangingIs
    <3>4. \A r \in Processes \ {q} : ~Changer(r)'
      BY <1>2, <1>3, <3>2, <3>3
    <3>5. Changing(q)' = {r \in Processes \ {q} : Changer(r)'}
      BY DEF Changing, Changer, Starting, At
    <3> QED BY <2>1, <3>1, <3>4, <3>5
  <2>3. \A q \in Processes : Starting(q)' => added = {}
    <3>1. configFile = NoFile \/ version = "v2" => added = {}
      BY DEF ListKept
    <3> QED BY <1>2, <2>1, <3>1
  <2>4. (\A q \in Processes : ~At(q, "writeSeeds")') => (\A q \in Processes : ~At(q, "writeSeeds"))
    BY <1>2, <1>4
  <2> QED BY <2>1, <2>2, <2>3, <2>4
<1> QED BY <1>1, <1>4 DEF ListKept

\* No pair is being written by p.
LEMMA PairStays ==
    ASSUME PairKept, NEW p \in Processes, Others(p),
           UNCHANGED <<version, certFile, keyFile>>, mixed => mixed',
           ~mixed' => ~At(p, "writeKey"), work'[p].at \notin PairPlaces,
           version = "v2" => work'[p].at # "running"
    PROVE  PairKept'
<1> SUFFICES ASSUME ~mixed'
             PROVE  PairKept'
  BY DEF PairKept
<1>1. \A q \in Processes \ {p} : \A place \in Places : At(q, place)' <=> At(q, place)
  BY DEF Others, At
<1>2. \A place \in PairPlaces : ~At(p, place)'
  BY DEF At
<1>3. /\ \A q \in Processes : work'[q].at \in PairPlaces => q # p /\ work[q].at \in PairPlaces
      /\ \A q \in Processes : At(q, "writeCert")' => At(q, "writeCert")
      /\ \A q \in Processes : At(q, "openKey")' => At(q, "openKey") /\ work'[q].made = work[q].made
      /\ \A q \in Processes : At(q, "writeKey")' => At(q, "writeKey") /\ work'[q].made = work[q].made
      /\ \A q \in Processes : At(q, "writeKey") => At(q, "writeKey")'
      /\ \A q \in Processes : version' = "v2" /\ At(q, "running")' =>
            At(q, "running") /\ work'[q].list = work[q].list
  BY <1>1, <1>2 DEF Others, At, PairPlaces
<1>4. \A q \in Processes : work'[q].at \in PairPlaces =>
            \A r \in Processes \ {q} : work'[r].at \notin PairPlaces
  BY <1>3 DEF PairKept
<1> QED BY <1>3, <1>4 DEF PairKept

-----------------------------------------------------------------------------
(* The commands                                                            *)

LEMMA RunCommandKeeps ==
    ASSUME DirectoryInv, NEW p \in Processes, runCommand(p)
    PROVE  DirectoryInv'
<1>1. DirectoryTyped /\ Placed /\ IdentityKept /\ ListKept /\ PairKept
  BY DEF DirectoryInv
<1>2. /\ commands' = commands + 1 /\ version' = version
      /\ UNCHANGED <<identityFile, identityTmp, configFile, seedFile, certFile, keyFile, mixed>>
      /\ UNCHANGED <<announced, added, raced, disturbed>> /\ At(p, "idle")
  BY DEF runCommand, files, pairFiles, history
<1>3. PICK c \in Commands, s \in Seeds :
         work' = [work EXCEPT ![p] = [command |-> c, at |-> FirstStep(c), made |-> commands',
                                      fd |-> "none", list |-> IF c = "add" THEN <<s>> ELSE <<>>]]
  BY DEF runCommand
<1>4. PICK w : w = [command |-> c, at |-> FirstStep(c), made |-> commands',
                    fd |-> "none", list |-> IF c = "add" THEN <<s>> ELSE <<>>]
  OBVIOUS
<1>5. /\ c \in {"init", "add", "create", "run"} /\ (c = "add" => version = "v1")
      /\ FirstStep(c) \in {"probe", "config", "identity"}
      /\ FirstStep(c) = "config" => version = "v1" /\ c # "init"
      /\ version = "v1" /\ FirstStep(c) # "config" => c = "init"
      /\ c = "init" => FirstStep(c) = "probe"
      /\ c = "add" => FirstStep(c) = "config"
  <2>1. CASE version = "v1"
    BY <2>1 DEF Commands, FirstStep
  <2>2. CASE version = "v2"
    BY <2>2 DEF Commands, FirstStep
  <2> QED BY <1>1, <2>1, <2>2 DEF DirectoryTyped
<1>6. w \in WorkStates
  <2>1. (IF c = "add" THEN <<s>> ELSE <<>>) \in Seq(Items)
    <3>1. s \in Items
      BY DEF Items
    <3>2. <<s>> \in Seq(Items) /\ <<>> \in Seq(Items)
      BY <3>1
    <3> QED BY <3>2
  <2>2. commands' \in Nat
    BY <1>1, <1>2 DEF DirectoryTyped
  <2> QED BY <1>4, <1>5, <2>1, <2>2 DEF WorkStates, Places
<1>7. work' \in [Processes -> WorkStates] /\ work'[p] = w /\ Alone(p)
  BY <1>1, <1>3, <1>4, <1>6, Comes
<1>8. /\ work'[p].at = FirstStep(c) /\ work'[p].command = c /\ work'[p].made > 0
      /\ c = "init" => work'[p].list = <<>>
      /\ c = "add" => work'[p].list # <<>>
  <2>1. c = "add" => w.list = <<s>>
    BY <1>4
  <2>2. w.made > 0
    BY <1>1, <1>2, <1>4 DEF DirectoryTyped
  <2> QED BY <1>4, <1>7, <2>1, <2>2
<1>9. DirectoryTyped'
  BY <1>1, <1>2, <1>7 DEF DirectoryTyped
<1>10. PlacedAt(p)'
  BY <1>2, <1>5, <1>8 DEF PlacedAt, At, SeedPlaces, Making
<1>11. Placed'
  BY <1>1, <1>2, <1>7, <1>10, PlacedStays DEF Alone
<1>12. IdentityKept'
  BY <1>1, <1>2, <1>5, <1>7, <1>8, IdentityStays DEF Making
<1>13. ListKept'
  <2>1. ~Adding(p)' /\ ~Starting(p)' /\ work'[p].at \notin {"openSeeds", "writeSeeds"}
    BY <1>5, <1>8 DEF Adding, Starting, At
  <2> QED BY <1>1, <1>2, <1>7, <2>1, ListStays DEF Alone, At
<1>14. PairKept'
  BY <1>1, <1>2, <1>5, <1>7, <1>8, PairStays DEF Alone, At, PairPlaces
<1> QED BY <1>9, <1>11, <1>12, <1>13, <1>14 DEF DirectoryInv

\* A step that only moves a program on, or ends it, and does not come to where
\* something is made or written.
LEMMA MovesOn ==
    ASSUME DirectoryInv, NEW p \in Processes, UNCHANGED <<version, commands>>,
           UNCHANGED <<identityFile, identityTmp, configFile, seedFile, certFile, keyFile, mixed>>,
           UNCHANGED <<added, raced, disturbed>>,
           announced' = announced \/ (identityFile # NoFile /\ announced' = announced \cup {identityFile}),
           work' \in [Processes -> WorkStates], Alone(p), PlacedAt(p)',
           work'[p].at \notin Making \cup {"openSeeds", "writeSeeds"} \cup PairPlaces,
           Starting(p)' => Starting(p) \/ configFile = NoFile \/ version = "v2",
           version = "v2" => work'[p].at # "running",
           ~At(p, "writeSeeds") /\ ~At(p, "writeKey")
    PROVE  DirectoryInv'
<1>1. DirectoryTyped /\ Placed /\ IdentityKept /\ ListKept /\ PairKept
  BY DEF DirectoryInv
<1>2. DirectoryTyped'
  BY <1>1 DEF DirectoryTyped
<1>3. Placed'
  BY <1>1, PlacedStays DEF Alone
<1>4. IdentityKept'
  BY <1>1, IdentityStays
<1>5. ListKept'
  BY <1>1, ListStays DEF Alone, Adding
<1>6. PairKept'
  BY <1>1, PairStays DEF Alone
<1> QED BY <1>2, <1>3, <1>4, <1>5, <1>6 DEF DirectoryInv

LEMMA DeadPlaced ==
    ASSUME NEW p \in Processes, work'[p].at = "idle", work'[p].command = "none"
    PROVE  PlacedAt(p)' /\ ~Starting(p)'
BY DEF PlacedAt, At, SeedPlaces, Making, Starting

LEMMA ProbeKeeps ==
    ASSUME DirectoryInv, NEW p \in Processes, probe(p)
    PROVE  DirectoryInv'
<1>1. DirectoryTyped /\ Placed
  BY DEF DirectoryInv
<1>2. /\ UNCHANGED <<version, commands>>
      /\ UNCHANGED <<identityFile, identityTmp, configFile, seedFile, certFile, keyFile, mixed>>
      /\ UNCHANGED <<announced, added, raced, disturbed>> /\ work[p].at = "probe"
  BY DEF probe, files, pairFiles, history, At
<1>3. CASE die(p)
  BY <1>1, <1>2, <1>3, Dies, DeadPlaced, MovesOn DEF At, Making, PairPlaces
<1>4. CASE ~die(p)
  <2>1. PICK place \in {"load", "identity"} : GoTo(p, place)
    BY <1>4 DEF probe
  <2>2. PlacedAt(p) /\ place \in Places
    BY <1>1 DEF Placed, Places
  <2>3. /\ work' \in [Processes -> WorkStates] /\ Alone(p)
        /\ work'[p].at = place /\ work'[p].command = work[p].command
        /\ work'[p].made = work[p].made /\ work'[p].list = work[p].list
    BY <1>1, <2>1, <2>2, GoesTo
  <2>4. Starting(p)' => configFile = NoFile \/ version = "v2"
    BY <1>1, <1>2, <1>4, <2>3 DEF probe, Starting, DirectoryTyped
  <2>5. PlacedAt(p)'
    BY <1>2, <2>2, <2>3 DEF PlacedAt, At, SeedPlaces, Making
  <2> QED BY <1>2, <2>3, <2>4, <2>5, MovesOn DEF At, Making, PairPlaces
<1> QED BY <1>3, <1>4

LEMMA LoadConfigKeeps ==
    ASSUME DirectoryInv, NEW p \in Processes, loadConfig(p)
    PROVE  DirectoryInv'
<1>1. DirectoryTyped /\ Placed
  BY DEF DirectoryInv
<1>2. /\ UNCHANGED <<version, commands>>
      /\ UNCHANGED <<identityFile, identityTmp, configFile, seedFile, certFile, keyFile, mixed>>
      /\ UNCHANGED <<announced, added, raced, disturbed>> /\ work[p].at = "config"
  BY DEF loadConfig, files, pairFiles, history, At
<1>3. CASE die(p)
  BY <1>1, <1>2, <1>3, Dies, DeadPlaced, MovesOn DEF At, Making, PairPlaces
<1>4. CASE ~die(p)
  <2>1. PICK place : place = (IF work[p].command = "add" THEN "read" ELSE "load")
    OBVIOUS
  <2>2. GoTo(p, place) /\ configFile = Whole
    BY <1>4, <2>1 DEF loadConfig
  <2>3. PlacedAt(p) /\ place \in Places
    BY <1>1, <2>1 DEF Placed, Places
  <2>4. /\ work' \in [Processes -> WorkStates] /\ Alone(p)
        /\ work'[p].at = place /\ work'[p].command = work[p].command
        /\ work'[p].made = work[p].made /\ work'[p].list = work[p].list
    BY <1>1, <2>2, <2>3, GoesTo
  <2>5. Starting(p)' => Starting(p)
    BY <1>2, <2>4 DEF Starting, At
  <2>6. PlacedAt(p)'
    BY <1>2, <2>1, <2>2, <2>3, <2>4 DEF PlacedAt, At, SeedPlaces, Making, Whole, NoFile
  <2> QED BY <1>2, <2>1, <2>4, <2>5, <2>6, MovesOn DEF At, Making, PairPlaces
<1> QED BY <1>3, <1>4

-----------------------------------------------------------------------------
(* persistence.mjs                                                         *)

LEMMA LoadIdentityKeeps ==
    ASSUME DirectoryInv, NEW p \in Processes, loadIdentity(p)
    PROVE  DirectoryInv'
<1>1. DirectoryTyped /\ Placed
  BY DEF DirectoryInv
<1>2. /\ UNCHANGED <<version, commands>>
      /\ UNCHANGED <<identityFile, identityTmp, configFile, seedFile, certFile, keyFile, mixed>>
      /\ UNCHANGED <<added, raced, disturbed>> /\ work[p].at = "load"
  BY DEF loadIdentity, files, pairFiles, At
<1>3. announced' = announced \/ (identityFile # NoFile /\ announced' = announced \cup {identityFile})
  BY DEF loadIdentity, Holding
<1>4. CASE die(p)
  BY <1>1, <1>2, <1>3, <1>4, Dies, DeadPlaced, MovesOn DEF At, Making, PairPlaces
<1>5. CASE ~die(p)
  <2>1. PICK place \in {"pair", "newConfig", "read"} :
            /\ GoTo(p, place) /\ (version = "v2" => place = "pair")
            /\ place = "newConfig" => work[p].command = "init"
            /\ place = "pair" => work[p].command = "run"
    BY <1>5 DEF loadIdentity, Holding
  <2>2. PlacedAt(p) /\ place \in Places
    BY <1>1 DEF Placed, Places
  <2>3. /\ work' \in [Processes -> WorkStates] /\ Alone(p)
        /\ work'[p].at = place /\ work'[p].command = work[p].command
        /\ work'[p].made = work[p].made /\ work'[p].list = work[p].list
    BY <1>1, <2>1, <2>2, GoesTo
  <2>4. Starting(p)' => Starting(p)
    BY <1>2, <2>3 DEF Starting, At
  <2>5. PlacedAt(p)'
    BY <1>2, <2>1, <2>2, <2>3 DEF PlacedAt, At, SeedPlaces, Making
  <2> QED BY <1>2, <1>3, <2>1, <2>3, <2>4, <2>5, MovesOn DEF At, Making, PairPlaces
<1> QED BY <1>4, <1>5

\* A program that is about to make an identity goes on to the next of its steps.
LEMMA MakingPlaced ==
    ASSUME DirectoryInv, NEW p \in Processes, work[p].at \in {"identity"} \cup Making,
           work'[p].at \in Making, version' = version,
           work'[p].command = work[p].command, work'[p].made = work[p].made,
           work'[p].list = work[p].list
    PROVE  PlacedAt(p)'
<1>1. PlacedAt(p)
  BY DEF DirectoryInv, Placed
<1> QED BY <1>1 DEF PlacedAt, At, SeedPlaces, Making

\* ... and the list and the pair are as they were.
LEMMA MakingKeeps ==
    ASSUME DirectoryInv, NEW p \in Processes, work[p].at \in {"identity"} \cup Making,
           UNCHANGED <<version, configFile, seedFile, certFile, keyFile, mixed, added, disturbed>>,
           Others(p), work'[p].at \in {"load"} \cup Making, work'[p].command = work[p].command
    PROVE  ListKept' /\ PairKept'
<1>1. Placed /\ ListKept /\ PairKept
  BY DEF DirectoryInv
<1>2. ListKept'
  BY <1>1, ListStays DEF Making, Adding, Starting, At
<1>3. PairKept'
  BY <1>1, PairStays DEF Making, At, PairPlaces
<1> QED BY <1>2, <1>3

LEMMA LoadOrCreateKeeps ==
    ASSUME DirectoryInv, NEW p \in Processes, loadOrCreateIdentity(p)
    PROVE  DirectoryInv'
<1>1. DirectoryTyped /\ Placed /\ IdentityKept
  BY DEF DirectoryInv
<1>2. /\ UNCHANGED <<version, commands>>
      /\ UNCHANGED <<identityFile, identityTmp, configFile, seedFile, certFile, keyFile, mixed>>
      /\ UNCHANGED <<announced, added, disturbed>> /\ work[p].at = "identity"
      /\ raced' = (raced \/ (identityFile = NoFile /\ \E q \in Processes \ {p} : work[q].at \in Making))
  BY DEF loadOrCreateIdentity, files, pairFiles, At
<1>3. PICK place \in {"load", "open"} : GoTo(p, place) /\ (place = "open" => identityFile = NoFile)
  BY DEF loadOrCreateIdentity
<1>4. /\ work' \in [Processes -> WorkStates] /\ Alone(p)
      /\ work'[p].at = place /\ work'[p].command = work[p].command
      /\ work'[p].made = work[p].made /\ work'[p].list = work[p].list
  <2>1. place \in Places
    BY DEF Places
  <2> QED BY <1>1, <1>3, <2>1, GoesTo
<1>5. DirectoryTyped'
  BY <1>1, <1>2, <1>4 DEF DirectoryTyped
<1>6. PlacedAt(p)'
  BY <1>1, <1>2, <1>4 DEF Placed, PlacedAt, At, SeedPlaces, Making
<1>7. Placed'
  BY <1>1, <1>2, <1>4, <1>6, PlacedStays DEF Alone
<1>8. IdentityKept'
  <2>1. CASE place = "load"
    BY <1>1, <1>2, <1>4, <2>1, IdentityStays DEF Making
  <2>2. CASE place = "open" /\ ~raced'
    <3>1. /\ announced \subseteq {identityFile} /\ identityFile # Torn /\ NoFile \notin announced
          /\ identityFile = NoFile /\ \A q \in Processes \ {p} : work[q].at \notin Making
      BY <1>1, <1>2, <1>3, <2>2 DEF IdentityKept
    <3>2. \A q \in Processes : work'[q].at \in Making => q = p
      BY <1>4, <3>1 DEF Alone, Others
    <3>3. \A q \in Processes : ~At(q, "write")' /\ ~At(q, "rename")'
      BY <1>4, <2>2, <3>2 DEF At, Making
    <3> QED BY <1>2, <3>1, <3>2, <3>3 DEF IdentityKept
  <2>3. CASE raced'
    BY <1>1, <1>2, <2>3 DEF IdentityKept
  <2> QED BY <2>1, <2>2, <2>3
<1>9. ListKept' /\ PairKept'
  BY <1>2, <1>4, MakingKeeps DEF Alone, Making
<1> QED BY <1>5, <1>7, <1>8, <1>9 DEF DirectoryInv

LEMMA OpenTmpKeeps ==
    ASSUME DirectoryInv, NEW p \in Processes, openTmp(p)
    PROVE  DirectoryInv'
<1>1. DirectoryTyped /\ Placed /\ IdentityKept
  BY DEF DirectoryInv
<1>2. /\ UNCHANGED <<version, commands>>
      /\ UNCHANGED <<identityFile, configFile, seedFile, certFile, keyFile, mixed>>
      /\ UNCHANGED <<announced, added, raced, disturbed>> /\ work[p].at = "open"
      /\ identityTmp' = Torn
  BY DEF openTmp, pairFiles, history, At
<1>3. PICK w : w = [work[p] EXCEPT !.at = "write", !.fd = "tmp"]
  OBVIOUS
<1>4. /\ w \in WorkStates /\ w.at = "write" /\ w.fd = "tmp" /\ w.command = work[p].command
      /\ w.made = work[p].made /\ w.list = work[p].list
  <2>1. work[p] \in WorkStates
    BY <1>1, WorkFields
  <2> QED BY <1>3, <2>1 DEF WorkStates, Places
<1>5. work' \in [Processes -> WorkStates] /\ work'[p] = w /\ Alone(p)
  <2>1. work' = [work EXCEPT ![p] = w]
    BY <1>3 DEF openTmp
  <2> QED BY <1>1, <1>4, <2>1, Comes
<1>6. DirectoryTyped'
  BY <1>1, <1>2, <1>5 DEF DirectoryTyped, Torn
<1>7. PlacedAt(p)'
  BY <1>2, <1>4, <1>5, MakingPlaced DEF Making
<1>8. Placed'
  BY <1>1, <1>2, <1>5, <1>7, PlacedStays DEF Alone
<1>9. IdentityKept'
  <2>1. CASE ~raced
    <3>1. /\ announced \subseteq {identityFile} /\ identityFile # Torn /\ NoFile \notin announced
          /\ identityFile = NoFile /\ \A q \in Processes \ {p} : work[q].at \notin Making
      BY <1>1, <1>2, <2>1 DEF IdentityKept, Making
    <3>2. \A q \in Processes : work'[q].at \in Making => q = p
      BY <1>5, <3>1 DEF Alone, Others
    <3>3. \A q \in Processes : ~At(q, "rename")' /\ (At(q, "write")' => q = p)
      BY <1>4, <1>5, <3>2 DEF At, Making
    <3> QED BY <1>2, <1>4, <1>5, <3>1, <3>2, <3>3 DEF IdentityKept
  <2>2. CASE raced
    BY <1>1, <1>2, <2>2 DEF IdentityKept
  <2> QED BY <2>1, <2>2
<1>10. ListKept' /\ PairKept'
  BY <1>2, <1>4, <1>5, MakingKeeps DEF Alone, Making
<1> QED BY <1>6, <1>8, <1>9, <1>10 DEF DirectoryInv

LEMMA WriteTmpKeeps ==
    ASSUME DirectoryInv, NEW p \in Processes, writeTmp(p)
    PROVE  DirectoryInv'
<1>1. DirectoryTyped /\ Placed /\ IdentityKept /\ ListKept /\ PairKept
  BY DEF DirectoryInv
<1>2. /\ UNCHANGED <<version, commands>>
      /\ UNCHANGED <<configFile, seedFile, certFile, keyFile, mixed>>
      /\ UNCHANGED <<announced, added, raced, disturbed>> /\ work[p].at = "write"
      /\ identityTmp' = (IF work[p].fd = "tmp" THEN work[p].made ELSE identityTmp)
      /\ identityFile' = (IF work[p].fd = "file" THEN work[p].made ELSE identityFile)
      /\ IF identityTmp = NoFile THEN die(p) ELSE GoTo(p, "rename")
  BY DEF writeTmp, pairFiles, history, At
<1>3. work[p].made \in Nat
  BY <1>1, WorkFields
<1>4. identityTmp' \in Int /\ identityFile' \in Int
  BY <1>1, <1>2, <1>3 DEF DirectoryTyped
<1>5. NoFile \notin announced'
  BY <1>1, <1>2 DEF IdentityKept
<1>6. CASE die(p)
  <2>1. /\ work' \in [Processes -> WorkStates] /\ Alone(p)
        /\ work'[p].at = "idle" /\ work'[p].command = "none"
    BY <1>1, <1>6, Dies
  <2>2. raced
    BY <1>1, <1>2, <2>1, GoesTo DEF IdentityKept, At, Torn, NoFile, Places
  <2>3. DirectoryTyped'
    BY <1>1, <1>2, <1>4, <2>1 DEF DirectoryTyped
  <2>4. Placed'
    BY <1>1, <1>2, <2>1, DeadPlaced, PlacedStays DEF Alone
  <2>5. IdentityKept'
    BY <1>2, <1>5, <2>2 DEF IdentityKept
  <2>6. ListKept'
    BY <1>1, <1>2, <2>1, DeadPlaced, ListStays DEF Alone, Adding, At
  <2>7. PairKept'
    BY <1>1, <1>2, <2>1, PairStays DEF Alone, At, PairPlaces
  <2> QED BY <2>3, <2>4, <2>5, <2>6, <2>7 DEF DirectoryInv
<1>7. CASE GoTo(p, "rename")
  <2>1. /\ work' \in [Processes -> WorkStates] /\ Alone(p)
        /\ work'[p].at = "rename" /\ work'[p].command = work[p].command
        /\ work'[p].made = work[p].made /\ work'[p].list = work[p].list
    BY <1>1, <1>7, GoesTo DEF Places
  <2>2. DirectoryTyped'
    BY <1>1, <1>2, <1>4, <2>1 DEF DirectoryTyped
  <2>3. Placed'
    <3>1. PlacedAt(p)'
      BY <1>2, <2>1, MakingPlaced DEF Making
    <3> QED BY <1>1, <1>2, <2>1, <3>1, PlacedStays DEF Alone
  <2>4. IdentityKept'
    <3>1. CASE ~raced
      <4>1. /\ announced \subseteq {identityFile} /\ identityFile # Torn
            /\ identityFile = NoFile /\ \A q \in Processes \ {p} : work[q].at \notin Making
            /\ work[p].fd = "tmp"
        BY <1>1, <1>2, <3>1 DEF IdentityKept, Making, At
      <4>2. identityFile' = identityFile /\ identityTmp' = work[p].made
        BY <1>2, <4>1
      <4>3. \A q \in Processes : work'[q].at \in Making => q = p
        BY <2>1, <4>1 DEF Alone, Others
      <4>4. \A q \in Processes : ~At(q, "write")' /\ (At(q, "rename")' => q = p)
        BY <2>1, <4>3 DEF At, Making
      <4> QED BY <1>2, <1>5, <2>1, <4>1, <4>2, <4>3, <4>4 DEF IdentityKept
    <3>2. CASE raced
      BY <1>2, <1>5, <3>2 DEF IdentityKept
    <3> QED BY <3>1, <3>2
  <2>5. ListKept' /\ PairKept'
    BY <1>2, <2>1, MakingKeeps DEF Alone, Making
  <2> QED BY <2>2, <2>3, <2>4, <2>5 DEF DirectoryInv
<1> QED BY <1>2, <1>6, <1>7

LEMMA RenameKeeps ==
    ASSUME DirectoryInv, NEW p \in Processes, rename(p)
    PROVE  DirectoryInv'
<1>1. DirectoryTyped /\ Placed /\ IdentityKept /\ ListKept /\ PairKept
  BY DEF DirectoryInv
<1>2. /\ UNCHANGED <<version, commands>>
      /\ UNCHANGED <<configFile, seedFile, certFile, keyFile, mixed>>
      /\ UNCHANGED <<added, raced, disturbed>> /\ work[p].at = "rename"
  BY DEF rename, pairFiles, At
<1>3. CASE identityTmp = NoFile
  <2>1. die(p) /\ UNCHANGED <<identityFile, identityTmp, announced>>
    BY <1>3 DEF rename
  <2> QED BY <1>1, <1>2, <2>1, Dies, DeadPlaced, MovesOn DEF At, Making, PairPlaces
<1>4. CASE identityTmp # NoFile
  <2> DEFINE moved == [q \in Processes |->
                          [work[q] EXCEPT !.fd = CASE @ = "tmp" -> "file" [] @ = "file" -> "gone"
                                                   [] OTHER -> @]]
  <2>1. /\ identityFile' = identityTmp /\ identityTmp' = NoFile
        /\ announced' = announced \cup {work[p].made}
        /\ work' = [moved EXCEPT ![p] = IF version = "v2" THEN Resting
                                        ELSE [@ EXCEPT !.at = "newConfig"]]
    BY <1>4 DEF rename
  <2>2. \A q \in Processes : /\ moved[q] \in WorkStates /\ moved[q].command = work[q].command
                             /\ moved[q].at = work[q].at /\ moved[q].made = work[q].made
                             /\ moved[q].list = work[q].list
    <3> SUFFICES ASSUME NEW q \in Processes
                 PROVE  /\ moved[q] \in WorkStates /\ moved[q].command = work[q].command
                        /\ moved[q].at = work[q].at /\ moved[q].made = work[q].made
                        /\ moved[q].list = work[q].list
      OBVIOUS
    <3>1. PICK fd : fd = (CASE work[q].fd = "tmp" -> "file" [] work[q].fd = "file" -> "gone"
                             [] OTHER -> work[q].fd)
      OBVIOUS
    <3>2. work[q] \in WorkStates /\ fd \in {"none", "tmp", "file", "gone"}
      BY <1>1, <3>1, WorkFields
    <3>3. moved[q] = [work[q] EXCEPT !.fd = fd]
      BY <3>1, <3>2 DEF WorkStates
    <3> QED BY <3>2, <3>3 DEF WorkStates
  <2>3. moved = [q \in Processes |-> moved[q]]
    OBVIOUS
  <2> HIDE DEF moved
  <2>4. PICK w : w = IF version = "v2" THEN Resting ELSE [moved[p] EXCEPT !.at = "newConfig"]
    OBVIOUS
  <2>5. /\ w \in WorkStates
        /\ version = "v2" => w.at = "idle" /\ w.command = "none"
        /\ version = "v1" => /\ w.at = "newConfig" /\ w.command = work[p].command
                             /\ w.made = work[p].made /\ w.list = work[p].list
    <3>1. Resting \in WorkStates /\ Resting.at = "idle" /\ Resting.command = "none"
      <4>1. <<>> \in Seq(Items)
        OBVIOUS
      <4> QED BY <4>1 DEF Resting, WorkStates, Places
    <3>2. [moved[p] EXCEPT !.at = "newConfig"] \in WorkStates
      BY <2>2 DEF WorkStates, Places
    <3>3. version = "v1" => w = [moved[p] EXCEPT !.at = "newConfig"]
      BY <2>4
    <3>4. version = "v1" => /\ w.at = "newConfig" /\ w.command = moved[p].command
                            /\ w.made = moved[p].made /\ w.list = moved[p].list
      BY <2>2, <3>3 DEF WorkStates
    <3>5. w \in WorkStates /\ (version = "v2" => w.at = "idle" /\ w.command = "none")
      BY <2>4, <3>1, <3>2
    <3> QED BY <2>2, <3>4, <3>5
  <2>6. /\ work' \in [Processes -> WorkStates] /\ work'[p] = w /\ Others(p)
    <3>1. work' = [moved EXCEPT ![p] = w]
      BY <2>1, <2>3, <2>4
    <3>2. moved \in [Processes -> WorkStates]
      BY <2>2, <2>3
    <3> QED BY <2>2, <2>5, <3>1, <3>2 DEF Others
  <2>7. work[p].made \in Nat /\ work[p].made > 0 /\ version \in {"v1", "v2"}
    BY <1>1, <1>2, WorkFields DEF DirectoryTyped, Placed, PlacedAt, At
  <2>8. DirectoryTyped'
    BY <1>1, <1>2, <2>1, <2>6 DEF DirectoryTyped, NoFile
  <2>9. PlacedAt(p)'
    BY <1>1, <1>2, <2>5, <2>6, <2>7 DEF Placed, PlacedAt, At, SeedPlaces, Making
  <2>10. Placed'
    BY <1>1, <1>2, <2>6, <2>9, PlacedStays
  <2>11. IdentityKept'
    <3>1. NoFile \notin announced'
      BY <1>1, <2>1, <2>7 DEF IdentityKept, NoFile
    <3>2. CASE ~raced
      <4>1. /\ announced \subseteq {NoFile} /\ NoFile \notin announced
            /\ identityTmp = work[p].made /\ \A q \in Processes \ {p} : work[q].at \notin Making
        BY <1>1, <1>2, <3>2 DEF IdentityKept, Making, At
      <4>2. announced' \subseteq {identityFile'} /\ identityFile' # Torn
        BY <2>1, <2>7, <4>1 DEF Torn
      <4>3. \A q \in Processes : work'[q].at \notin Making
        BY <2>5, <2>6, <2>7, <4>1 DEF Others, Making
      <4>4. \A q \in Processes : ~At(q, "write")' /\ ~At(q, "rename")'
        BY <4>3 DEF At, Making
      <4> QED BY <1>2, <3>1, <4>2, <4>3, <4>4 DEF IdentityKept
    <3>3. CASE raced
      BY <1>2, <3>1, <3>3 DEF IdentityKept
    <3> QED BY <3>2, <3>3
  <2>12. ListKept'
    <3>1. Starting(p)' => Starting(p)
      BY <1>2, <2>5, <2>6, <2>7 DEF Starting, At
    <3>2. ~Adding(p)' /\ work'[p].at \notin {"openSeeds", "writeSeeds"}
      BY <2>5, <2>6, <2>7 DEF Adding
    <3> QED BY <1>1, <1>2, <2>6, <3>1, <3>2, ListStays DEF At
  <2>13. PairKept'
    BY <1>1, <1>2, <2>5, <2>6, <2>7, PairStays DEF At, PairPlaces
  <2> QED BY <2>8, <2>10, <2>11, <2>12, <2>13 DEF DirectoryInv
<1> QED BY <1>3, <1>4

-----------------------------------------------------------------------------
(* config.mjs                                                              *)

LEMMA WriteConfigKeeps ==
    ASSUME DirectoryInv, NEW p \in Processes, writeConfig(p)
    PROVE  DirectoryInv'
<1>1. DirectoryTyped /\ Placed /\ IdentityKept /\ ListKept /\ PairKept
  BY DEF DirectoryInv
<1>2. /\ UNCHANGED <<version, commands>>
      /\ UNCHANGED <<identityFile, identityTmp, seedFile, certFile, keyFile, mixed>>
      /\ UNCHANGED <<announced, added, raced, disturbed>>
  BY DEF writeConfig, pairFiles, history
<1>3. PICK place \in {"writeConfig", "openSeeds"} :
         /\ GoTo(p, place) /\ configFile' \in {Torn, Whole}
         /\ work[p].at \in {"newConfig", "writeConfig"}
  BY DEF writeConfig, At
<1>4. /\ work' \in [Processes -> WorkStates] /\ Alone(p)
      /\ work'[p].at = place /\ work'[p].command = work[p].command
      /\ work'[p].made = work[p].made /\ work'[p].list = work[p].list
  <2>1. place \in Places
    BY DEF Places
  <2> QED BY <1>1, <1>3, <2>1, GoesTo
<1>5. configFile' # NoFile
  BY <1>3 DEF Torn, Whole, NoFile
<1>6. work[p].command = "init" /\ Starting(p)
  BY <1>1, <1>3 DEF Placed, PlacedAt, Starting, At
<1>7. DirectoryTyped'
  BY <1>1, <1>2, <1>3, <1>4 DEF DirectoryTyped
<1>8. PlacedAt(p)'
  BY <1>1, <1>2, <1>3, <1>4, <1>5, <1>6 DEF Placed, PlacedAt, At, SeedPlaces, Making
<1>9. Placed'
  BY <1>1, <1>2, <1>4, <1>5, <1>8, PlacedStays DEF Alone
<1>10. IdentityKept'
  BY <1>1, <1>2, <1>4, IdentityStays DEF Making
<1>11. ListKept'
  <2>1. ~Adding(p)' /\ Changer(p) /\ ~At(p, "writeSeeds")
    BY <1>3, <1>4, <1>6 DEF Adding, Changer, At
  <2> QED BY <1>1, <1>2, <1>4, <1>5, <1>6, <2>1, ListStays DEF Alone
<1>12. PairKept'
  BY <1>1, <1>2, <1>3, <1>4, PairStays DEF Alone, At, PairPlaces
<1> QED BY <1>7, <1>9, <1>10, <1>11, <1>12 DEF DirectoryInv

LEMMA AddSeedKeeps ==
    ASSUME DirectoryInv, NEW p \in Processes, addSeed(p)
    PROVE  DirectoryInv'
<1>1. DirectoryTyped /\ Placed /\ IdentityKept /\ ListKept /\ PairKept
  BY DEF DirectoryInv
<1>2. /\ UNCHANGED <<version, commands>>
      /\ UNCHANGED <<identityFile, identityTmp, configFile, seedFile, certFile, keyFile, mixed>>
      /\ UNCHANGED <<announced, added, raced>> /\ work[p].at = "read" /\ work[p].command = "add"
  BY DEF addSeed, files, pairFiles, At
<1>3. PICK known : known = (IF seedFile.torn THEN <<>> ELSE seedFile.list)
  OBVIOUS
<1>4. CASE die(p) /\ UNCHANGED disturbed
  BY <1>1, <1>2, <1>4, Dies, DeadPlaced, MovesOn DEF At, Making, PairPlaces
<1>5. CASE ~(die(p) /\ UNCHANGED disturbed)
  <2>1. PICK new : new = work[p].list[1]
    OBVIOUS
  <2>2. /\ work' = [work EXCEPT ![p].at = "openSeeds", ![p].list = Append(known, new)]
        /\ disturbed' = (disturbed \/ Changing(p) # {})
    BY <1>3, <1>5, <2>1 DEF addSeed
  <2>3. new \in Items
    <3>1. work[p].list \in Seq(Items) /\ work[p].list # <<>>
      BY <1>1, <1>2, WorkFields DEF Placed, PlacedAt
    <3> QED BY <2>1, <3>1
  <2>4. known \in Seq(Items)
    <3>1. seedFile \in [torn : BOOLEAN, list : Seq(Items)]
      BY <1>1 DEF DirectoryTyped
    <3>2. seedFile.list \in Seq(Items) /\ <<>> \in Seq(Items)
      BY <3>1
    <3> QED BY <1>3, <3>2
  <2>5. PICK list : list = Append(known, new)
    OBVIOUS
  <2>6. list \in Seq(Items) /\ list # <<>> /\ Listed(known) \subseteq Listed(list)
    <3>1. /\ list \in Seq(Items) /\ Len(list) = Len(known) + 1 /\ Len(known) \in Nat
          /\ \A i \in 1..Len(known) : list[i] = known[i]
      BY <2>3, <2>4, <2>5
    <3>2. DOMAIN list = 1..Len(list) /\ DOMAIN known = 1..Len(known)
      BY <2>4, <3>1
    <3>3. \A i \in DOMAIN known : i \in DOMAIN list /\ list[i] = known[i]
      BY <3>1, <3>2
    <3> QED BY <3>1, <3>3 DEF Listed
  <2>7. PICK w : w = [work[p] EXCEPT !.at = "openSeeds", !.list = list]
    OBVIOUS
  <2>8. /\ w \in WorkStates /\ w.at = "openSeeds" /\ w.command = "add"
        /\ w.made = work[p].made /\ w.list = list
    <3>1. work[p] \in WorkStates
      BY <1>1, WorkFields
    <3> QED BY <1>2, <2>6, <2>7, <3>1 DEF WorkStates, Places
  <2>9. work' \in [Processes -> WorkStates] /\ work'[p] = w /\ Alone(p)
    <3>1. work' = [work EXCEPT ![p] = w]
      BY <2>2, <2>5, <2>7
    <3> QED BY <1>1, <2>8, <3>1, Comes
  <2>10. DirectoryTyped'
    BY <1>1, <1>2, <2>2, <2>9 DEF DirectoryTyped
  <2>11. PlacedAt(p)'
    BY <1>1, <1>2, <2>6, <2>8, <2>9 DEF Placed, PlacedAt, At, SeedPlaces, Making
  <2>12. Placed'
    BY <1>1, <1>2, <2>9, <2>11, PlacedStays DEF Alone
  <2>13. IdentityKept'
    BY <1>1, <1>2, <2>8, <2>9, IdentityStays DEF Making
  <2>14. PairKept'
    BY <1>1, <1>2, <2>8, <2>9, PairStays DEF Alone, At, PairPlaces
  <2>15. ListKept'
    <3>1. CASE disturbed'
      BY <1>1, <1>2, <3>1 DEF ListKept
    <3>2. CASE ~disturbed'
      <4>1. ~disturbed /\ \A q \in Processes \ {p} : ~Changer(q)
        BY <2>2, <3>2, ChangingIs
      <4>2. \A q \in Processes : ~At(q, "writeSeeds")
        BY <1>2, <4>1 DEF Changer, At
      <4>3. ~seedFile.torn /\ added \subseteq Listed(seedFile.list)
        BY <1>1, <4>1, <4>2 DEF ListKept
      <4>4. added \subseteq Listed(list)
        BY <1>3, <2>6, <4>3
      <4>5. \A q \in Processes \ {p} : ~Changer(q)' /\ ~Adding(q)' /\ ~Starting(q)' /\ ~At(q, "writeSeeds")'
        BY <2>9, <4>1 DEF Alone, Others, Changer, Adding, Starting, At
      <4>6. ~Starting(p)' /\ ~At(p, "writeSeeds")'
        BY <2>8, <2>9 DEF Starting, At
      <4>7. Changing(p)' = {}
        BY <4>5 DEF Changing, Changer, Starting, At
      <4> QED BY <1>1, <1>2, <2>8, <2>9, <4>3, <4>4, <4>5, <4>6, <4>7 DEF ListKept
    <3> QED BY <3>1, <3>2
  <2> QED BY <2>10, <2>12, <2>13, <2>14, <2>15 DEF DirectoryInv
<1> QED BY <1>4, <1>5

LEMMA LoadSeedsKeeps ==
    ASSUME DirectoryInv, NEW p \in Processes, loadSeeds(p)
    PROVE  DirectoryInv'
<1>1. DirectoryTyped /\ Placed
  BY DEF DirectoryInv
<1>2. /\ UNCHANGED <<version, commands>>
      /\ UNCHANGED <<identityFile, identityTmp, configFile, seedFile, certFile, keyFile, mixed>>
      /\ UNCHANGED <<announced, added, raced, disturbed>> /\ work[p].at = "read"
      /\ work[p].command = "run"
  BY DEF loadSeeds, files, pairFiles, history, At
<1>3. CASE die(p)
  BY <1>1, <1>2, <1>3, Dies, DeadPlaced, MovesOn DEF At, Making, PairPlaces
<1>4. CASE ~die(p)
  <2>1. PICK w : w = [work[p] EXCEPT !.at = "running", !.list = seedFile.list]
    OBVIOUS
  <2>2. /\ w \in WorkStates /\ w.at = "running" /\ w.command = "run" /\ w.made = work[p].made
    <3>1. work[p] \in WorkStates
      BY <1>1, WorkFields
    <3>2. seedFile.list \in Seq(Items)
      BY <1>1 DEF DirectoryTyped
    <3> QED BY <1>2, <2>1, <3>1, <3>2 DEF WorkStates, Places
  <2>3. work' \in [Processes -> WorkStates] /\ work'[p] = w /\ Alone(p)
    <3>1. work' = [work EXCEPT ![p] = w]
      BY <1>4, <2>1 DEF loadSeeds
    <3> QED BY <1>1, <2>2, <3>1, Comes
  <2>4. PlacedAt(p) /\ version # "v2"
    BY <1>1, <1>2 DEF Placed, PlacedAt, SeedPlaces
  <2>5. PlacedAt(p)' /\ ~Starting(p)'
    BY <1>2, <2>2, <2>3, <2>4 DEF PlacedAt, At, SeedPlaces, Making, Starting
  <2> QED BY <1>2, <2>2, <2>3, <2>4, <2>5, MovesOn DEF At, Making, PairPlaces
<1> QED BY <1>3, <1>4

LEMMA OpenSeedsKeeps ==
    ASSUME DirectoryInv, NEW p \in Processes, At(p, "openSeeds"), GoTo(p, "writeSeeds"),
           seedFile' = [torn |-> FALSE, list |-> <<>>],
           UNCHANGED <<version, commands, identityFile, identityTmp, configFile, certFile, keyFile, mixed>>,
           UNCHANGED <<announced, added, raced, disturbed>>
    PROVE  DirectoryInv'
<1>1. DirectoryTyped /\ Placed /\ IdentityKept /\ ListKept /\ PairKept
  BY DEF DirectoryInv
<1>2. /\ work' \in [Processes -> WorkStates] /\ Alone(p)
      /\ work'[p].at = "writeSeeds" /\ work'[p].command = work[p].command
      /\ work'[p].made = work[p].made /\ work'[p].list = work[p].list
  BY <1>1, GoesTo DEF Places
<1>3. DirectoryTyped'
  <2>1. <<>> \in Seq(Items)
    OBVIOUS
  <2>2. seedFile' \in [torn : BOOLEAN, list : Seq(Items)]
    BY <2>1
  <2> QED BY <1>1, <1>2, <2>2 DEF DirectoryTyped
<1>4. PlacedAt(p)'
  BY <1>1, <1>2 DEF Placed, PlacedAt, At, SeedPlaces, Making
<1>5. Placed'
  BY <1>1, <1>2, <1>4, PlacedStays DEF Alone
<1>6. IdentityKept'
  BY <1>1, <1>2, IdentityStays DEF Making
<1>7. PairKept'
  BY <1>1, <1>2, PairStays DEF Alone, At, PairPlaces
<1>8. ListKept'
  <2>1. \A q \in Processes : /\ Adding(q)' <=> Adding(q)
                             /\ Starting(q)' <=> Starting(q)
                             /\ Changer(q)' <=> Changer(q)
                             /\ work'[q].list = work[q].list
    BY <1>2 DEF Alone, Others, Adding, Starting, Changer, At
  <2>2. \A q \in Processes : Changing(q)' = {r \in Processes \ {q} : Changer(r)'}
    BY DEF Changing, Changer, Starting, At
  <2>3. \A q \in Processes : Changing(q)' = Changing(q)
    BY <2>1, <2>2, ChangingIs
  <2>4. At(p, "writeSeeds")'
    BY <1>2 DEF At
  <2> QED BY <1>1, <2>1, <2>3, <2>4 DEF ListKept
<1> QED BY <1>3, <1>5, <1>6, <1>7, <1>8 DEF DirectoryInv

LEMMA SeedsWrittenKeeps ==
    ASSUME DirectoryInv, NEW p \in Processes, At(p, "writeSeeds"), die(p),
           seedFile' = [torn |-> FALSE, list |-> work[p].list],
           added' = added \cup Listed(work[p].list),
           UNCHANGED <<version, commands, identityFile, identityTmp, configFile, certFile, keyFile, mixed>>,
           UNCHANGED <<announced, raced, disturbed>>
    PROVE  DirectoryInv'
<1>1. DirectoryTyped /\ Placed /\ IdentityKept /\ ListKept /\ PairKept
  BY DEF DirectoryInv
<1>2. /\ work' \in [Processes -> WorkStates] /\ Alone(p)
      /\ work'[p].at = "idle" /\ work'[p].command = "none"
  BY <1>1, Dies
<1>3. DirectoryTyped'
  <2>1. work[p].list \in Seq(Items)
    BY <1>1, WorkFields
  <2>2. seedFile' \in [torn : BOOLEAN, list : Seq(Items)]
    BY <2>1
  <2> QED BY <1>1, <1>2, <2>2 DEF DirectoryTyped
<1>4. Placed'
  BY <1>1, <1>2, DeadPlaced, PlacedStays DEF Alone
<1>5. IdentityKept'
  BY <1>1, <1>2, IdentityStays DEF Making
<1>6. PairKept'
  BY <1>1, <1>2, PairStays DEF Alone, At, PairPlaces
<1>7. \/ work[p].command = "init" /\ work[p].list = <<>> /\ added' = added /\ Starting(p)
      \/ work[p].command = "add" /\ Adding(p) /\ configFile # NoFile /\ version = "v1"
  BY <1>1 DEF Placed, PlacedAt, At, Adding, Starting, Listed
<1>8. ListKept'
  <2>1. added' # {} => configFile' # NoFile /\ version' = "v1"
    BY <1>1, <1>7 DEF ListKept
  <2>2. ~Adding(p)' /\ ~Starting(p)' /\ ~Changer(p)' /\ Changer(p)
    BY <1>2 DEF Adding, Starting, Changer, At
  <2>3. \A q \in Processes \ {p} : /\ Adding(q)' <=> Adding(q)
                                   /\ Starting(q)' <=> Starting(q)
                                   /\ Changer(q)' <=> Changer(q)
                                   /\ work'[q].list = work[q].list
    BY <1>2 DEF Alone, Others, Adding, Starting, Changer, At
  <2>4. ASSUME ~disturbed
        PROVE  /\ \A q \in Processes : ~Adding(q)'
               /\ \A q \in Processes : Starting(q)' => added' = {}
               /\ ~(seedFile').torn /\ added' \subseteq Listed((seedFile').list)
    <3>1. /\ \A q \in Processes : Adding(q) => Changing(q) = {} /\ added \subseteq Listed(work[q].list)
          /\ \A q \in Processes : Starting(q) => added = {}
      BY <1>1, <2>4 DEF ListKept
    <3>2. \A q \in Processes \ {p} : ~Adding(q)
      BY <2>2, <3>1, ChangingIs
    <3>3. Adding(p) => \A q \in Processes \ {p} : ~Starting(q)
      BY <3>1, ChangingIs DEF Changer
    <3>4. added' \subseteq Listed(work[p].list)
      BY <1>7, <3>1
    <3>5. (seedFile').torn = FALSE /\ (seedFile').list = work[p].list
      OBVIOUS
    <3> QED BY <1>7, <2>2, <2>3, <3>1, <3>2, <3>3, <3>4, <3>5
  <2> QED BY <2>1, <2>4 DEF ListKept
<1> QED BY <1>3, <1>4, <1>5, <1>6, <1>8 DEF DirectoryInv

LEMMA WriteSeedListKeeps ==
    ASSUME DirectoryInv, NEW p \in Processes, writeSeedList(p)
    PROVE  DirectoryInv'
<1>1. CASE /\ At(p, "openSeeds") /\ GoTo(p, "writeSeeds")
           /\ seedFile' = [torn |-> FALSE, list |-> <<>>]
           /\ UNCHANGED <<version, identityFile, identityTmp, configFile, pairFiles, commands, history>>
  BY <1>1, OpenSeedsKeeps DEF pairFiles, history
<1>2. CASE /\ At(p, "writeSeeds") /\ ~seedFile.torn /\ work[p].list # <<>>
           /\ seedFile' = [seedFile EXCEPT !.torn = TRUE]
           /\ UNCHANGED <<version, identityFile, identityTmp, configFile, pairFiles, work, commands, history>>
  <2>1. DirectoryTyped /\ Placed /\ IdentityKept /\ ListKept /\ PairKept
    BY DEF DirectoryInv
  <2>2. seedFile' \in [torn : BOOLEAN, list : Seq(Items)]
    <3>1. seedFile \in [torn : BOOLEAN, list : Seq(Items)]
      BY <2>1 DEF DirectoryTyped
    <3> QED BY <1>2, <3>1
  <2>3. DirectoryTyped'
    BY <1>2, <2>1, <2>2 DEF DirectoryTyped, pairFiles, history
  <2>4. Placed' /\ IdentityKept' /\ PairKept'
    BY <1>2, <2>1 DEF pairFiles, history, Placed, PlacedAt, IdentityKept, PairKept, At
  <2>5. ListKept'
    BY <1>2, <2>1 DEF history, ListKept, Adding, Starting, Changing, At
  <2> QED BY <2>3, <2>4, <2>5 DEF DirectoryInv
<1>3. CASE /\ At(p, "writeSeeds") /\ die(p)
           /\ seedFile' = [torn |-> FALSE, list |-> work[p].list]
           /\ added' = added \cup {work[p].list[i] : i \in DOMAIN work[p].list}
           /\ UNCHANGED <<version, identityFile, identityTmp, configFile, pairFiles, commands,
                          announced, raced, disturbed>>
  BY <1>3, SeedsWrittenKeeps DEF pairFiles, Listed
<1> QED BY <1>1, <1>2, <1>3 DEF writeSeedList

-----------------------------------------------------------------------------
(* self_signed_cert.mjs                                                    *)

LEMMA LoadLinkCertKeeps ==
    ASSUME DirectoryInv, NEW p \in Processes, loadLinkCert(p)
    PROVE  DirectoryInv'
<1>1. DirectoryTyped /\ Placed /\ IdentityKept /\ ListKept /\ PairKept
  BY DEF DirectoryInv
<1>2. /\ UNCHANGED <<version, commands>>
      /\ UNCHANGED <<identityFile, identityTmp, configFile, seedFile, certFile, keyFile>>
      /\ UNCHANGED <<announced, added, raced, disturbed>> /\ work[p].at = "pair"
      /\ mixed' = (mixed \/ PairInWork(p))
  BY DEF loadLinkCert, history, At
<1>3. PICK w : w = IF certFile # NoFile /\ keyFile # NoFile
                   THEN [work[p] EXCEPT !.at = "running", !.list = <<certFile, keyFile>>]
                   ELSE [work[p] EXCEPT !.at = "writeCert"]
  OBVIOUS
<1>4. /\ w \in WorkStates /\ w.command = work[p].command /\ w.made = work[p].made
      /\ \/ /\ certFile # NoFile /\ keyFile # NoFile /\ w.at = "running"
            /\ w.list[1] = certFile /\ w.list[2] = keyFile
         \/ /\ ~(certFile # NoFile /\ keyFile # NoFile)
            /\ w.at = "writeCert" /\ w.list = work[p].list
  <2>1. work[p] \in WorkStates
    BY <1>1, WorkFields
  <2>2. CASE certFile # NoFile /\ keyFile # NoFile
    <3>1. PICK list : list = <<certFile, keyFile>>
      OBVIOUS
    <3>2. list \in Seq(Items) /\ list[1] = certFile /\ list[2] = keyFile
      <4>1. certFile \in Items /\ keyFile \in Items
        BY <1>1 DEF DirectoryTyped, Items
      <4> QED BY <3>1, <4>1
    <3>3. w = [work[p] EXCEPT !.at = "running", !.list = list]
      BY <1>3, <2>2, <3>1
    <3> QED BY <2>1, <2>2, <3>2, <3>3 DEF WorkStates, Places
  <2>3. CASE ~(certFile # NoFile /\ keyFile # NoFile)
    <3>1. w = [work[p] EXCEPT !.at = "writeCert"]
      BY <1>3, <2>3
    <3> QED BY <2>1, <2>3, <3>1 DEF WorkStates, Places
  <2> QED BY <2>2, <2>3
<1>5. work' \in [Processes -> WorkStates] /\ work'[p] = w /\ Alone(p)
  <2>1. work' = [work EXCEPT ![p] = w]
    BY <1>3 DEF loadLinkCert
  <2> QED BY <1>1, <1>4, <2>1, Comes
<1>6. work[p].command = "run"
  BY <1>1, <1>2 DEF Placed, PlacedAt
<1>7. DirectoryTyped'
  BY <1>1, <1>2, <1>5 DEF DirectoryTyped
<1>8. PlacedAt(p)'
  BY <1>1, <1>2, <1>4, <1>5, <1>6 DEF Placed, PlacedAt, At, SeedPlaces, Making
<1>9. Placed'
  BY <1>1, <1>2, <1>5, <1>8, PlacedStays DEF Alone
<1>10. IdentityKept'
  BY <1>1, <1>2, <1>4, <1>5, IdentityStays DEF Making
<1>11. ListKept'
  BY <1>1, <1>2, <1>4, <1>5, ListStays DEF Alone, Adding, Starting, At
<1>12. PairKept'
  <2>1. CASE mixed'
    BY <2>1 DEF PairKept
  <2>2. CASE ~mixed'
    <3>1. /\ ~mixed /\ \A q \in Processes : work[q].at \notin PairPlaces
      BY <1>2, <2>2 DEF PairInWork, PairPlaces
    <3>2. /\ certFile # Torn /\ (keyFile # NoFile => certFile # NoFile /\ keyFile = certFile)
          /\ \A q \in Processes : version = "v2" /\ At(q, "running") =>
                work[q].list[1] = work[q].list[2] /\ work[q].list[1] \notin {NoFile, Torn}
      <4>1. \A q \in Processes : ~At(q, "writeKey")
        BY <3>1 DEF PairPlaces, At
      <4> QED BY <1>1, <3>1, <4>1 DEF PairKept
    <3>3. \A q \in Processes : work'[q].at \in PairPlaces => q = p /\ w.at = "writeCert"
      BY <1>4, <1>5, <3>1 DEF Alone, Others, PairPlaces
    <3>4. \A q \in Processes : ~At(q, "openKey")' /\ ~At(q, "writeKey")' /\ (At(q, "writeCert")' => keyFile = NoFile)
      BY <1>4, <1>5, <3>2, <3>3 DEF At, PairPlaces
    <3>5. \A q \in Processes : version = "v2" /\ At(q, "running")' =>
                work'[q].list[1] = work'[q].list[2] /\ work'[q].list[1] \notin {NoFile, Torn}
      <4>1. ASSUME NEW q \in Processes, q # p, version = "v2", At(q, "running")'
            PROVE  work'[q].list[1] = work'[q].list[2] /\ work'[q].list[1] \notin {NoFile, Torn}
        BY <1>5, <3>2, <4>1 DEF Alone, Others, At
      <4>2. At(p, "running")' => work'[p].list[1] = work'[p].list[2] /\ work'[p].list[1] \notin {NoFile, Torn}
        BY <1>4, <1>5, <3>2 DEF At
      <4> QED BY <4>1, <4>2
    <3> QED BY <1>2, <3>2, <3>3, <3>4, <3>5 DEF PairKept
  <2> QED BY <2>1, <2>2
<1> QED BY <1>7, <1>9, <1>10, <1>11, <1>12 DEF DirectoryInv

\* A relay that writes the pair comes to the next of its steps.
LEMMA CreateLinkCertKeeps ==
    ASSUME DirectoryInv, NEW p \in Processes, createLinkCert(p)
    PROVE  DirectoryInv'
<1>1. DirectoryTyped /\ Placed /\ IdentityKept /\ ListKept /\ PairKept
  BY DEF DirectoryInv
<1>2. /\ UNCHANGED <<version, commands>>
      /\ UNCHANGED <<identityFile, identityTmp, configFile, seedFile, mixed>>
      /\ UNCHANGED <<announced, added, raced, disturbed>> /\ work[p].at \in PairPlaces
  BY DEF createLinkCert, history, At, PairPlaces
<1>3. PICK n : n = work[p].made
  OBVIOUS
<1>4. n \in Nat /\ n > 0 /\ n \notin {NoFile, Torn} /\ work[p].command = "run"
  BY <1>1, <1>2, <1>3, WorkFields DEF Placed, PlacedAt, At, PairPlaces, NoFile, Torn
<1>5. /\ work' \in [Processes -> WorkStates] /\ Alone(p)
      /\ work'[p].command = work[p].command /\ work'[p].made = n
      /\ \/ /\ work[p].at = "writeCert" /\ certFile' = n /\ keyFile' = keyFile
            /\ work'[p].at = "openKey"
         \/ /\ work[p].at = "openKey" /\ certFile' = certFile /\ keyFile' = Torn
            /\ work'[p].at = "writeKey"
         \/ /\ work[p].at = "writeKey" /\ certFile' = certFile /\ keyFile' = n
            /\ work'[p].at = "running" /\ work'[p].list[1] = n /\ work'[p].list[2] = n
  <2>1. CASE At(p, "writeCert") /\ certFile' = work[p].made /\ GoTo(p, "openKey") /\ UNCHANGED keyFile
    BY <1>1, <1>3, <2>1, GoesTo DEF Places, At
  <2>2. CASE At(p, "openKey") /\ keyFile' = Torn /\ GoTo(p, "writeKey") /\ UNCHANGED certFile
    BY <1>1, <1>3, <2>2, GoesTo DEF Places, At
  <2>3. CASE /\ At(p, "writeKey") /\ keyFile' = work[p].made /\ UNCHANGED certFile
             /\ work' = [work EXCEPT ![p].at = "running", ![p].list = <<work[p].made, work[p].made>>]
    <3>1. PICK list : list = <<n, n>>
      OBVIOUS
    <3>2. list \in Seq(Items) /\ list[1] = n /\ list[2] = n
      <4>1. n \in Items
        BY <1>4 DEF Items
      <4> QED BY <3>1, <4>1
    <3>3. PICK w : w = [work[p] EXCEPT !.at = "running", !.list = list]
      OBVIOUS
    <3>4. /\ w \in WorkStates /\ w.at = "running" /\ w.command = work[p].command
          /\ w.made = work[p].made /\ w.list = list
      <4>1. work[p] \in WorkStates
        BY <1>1, WorkFields
      <4> QED BY <3>2, <3>3, <4>1 DEF WorkStates, Places
    <3>5. work' = [work EXCEPT ![p] = w]
      BY <1>3, <2>3, <3>1, <3>3
    <3>6. work' \in [Processes -> WorkStates] /\ work'[p] = w /\ Alone(p)
      BY <1>1, <3>4, <3>5, Comes
    <3> QED BY <1>3, <2>3, <3>2, <3>4, <3>6 DEF At
  <2> QED BY <2>1, <2>2, <2>3 DEF createLinkCert
<1>6. DirectoryTyped'
  <2>1. certFile' \in Int /\ keyFile' \in Int
    BY <1>1, <1>4, <1>5 DEF DirectoryTyped, Torn
  <2> QED BY <1>1, <1>2, <1>5, <2>1 DEF DirectoryTyped
<1>7. PlacedAt(p)'
  BY <1>1, <1>2, <1>4, <1>5 DEF Placed, PlacedAt, At, SeedPlaces, Making
<1>8. Placed'
  BY <1>1, <1>2, <1>5, <1>7, PlacedStays DEF Alone
<1>9. IdentityKept'
  BY <1>1, <1>2, <1>5, IdentityStays DEF Making
<1>10. ListKept'
  BY <1>1, <1>2, <1>4, <1>5, ListStays DEF Alone, Adding, Starting, At
<1>11. PairKept'
  <2> SUFFICES ASSUME ~mixed
               PROVE  PairKept'
    BY <1>2 DEF PairKept
  <2>1. /\ \A q \in Processes \ {p} : work[q].at \notin PairPlaces
        /\ certFile # Torn
        /\ At(p, "writeCert") => keyFile = NoFile
        /\ At(p, "openKey") => keyFile = NoFile /\ certFile = n
        /\ At(p, "writeKey") => certFile = n
        /\ \A q \in Processes : version = "v2" /\ At(q, "running") =>
              work[q].list[1] = work[q].list[2] /\ work[q].list[1] \notin {NoFile, Torn}
    BY <1>1, <1>2, <1>3 DEF PairKept
  <2>2. \A q \in Processes : work'[q].at \in PairPlaces => q = p
    BY <1>5, <2>1 DEF Alone, Others
  <2>3. \A q \in Processes : At(q, "openKey")' \/ At(q, "writeKey")' \/ At(q, "writeCert")' => q = p
    BY <2>2 DEF At, PairPlaces
  <2>4. ~At(p, "writeCert")' /\ certFile' # Torn /\ certFile' # NoFile
    BY <1>4, <1>5, <2>1 DEF At
  <2>5. At(p, "openKey")' => keyFile' = NoFile /\ certFile' = n
    BY <1>5, <2>1 DEF At
  <2>6. At(p, "writeKey")' => certFile' = n
    BY <1>5, <2>1 DEF At
  <2>7. keyFile' # NoFile /\ ~At(p, "writeKey")' => keyFile' = certFile'
    BY <1>5, <2>1 DEF At
  <2>8. \A q \in Processes : version = "v2" /\ At(q, "running")' =>
              work'[q].list[1] = work'[q].list[2] /\ work'[q].list[1] \notin {NoFile, Torn}
    <3>1. ASSUME NEW q \in Processes, q # p, version = "v2", At(q, "running")'
          PROVE  work'[q].list[1] = work'[q].list[2] /\ work'[q].list[1] \notin {NoFile, Torn}
      BY <1>5, <2>1, <3>1 DEF Alone, Others, At
    <3>2. At(p, "running")' => work'[p].list[1] = work'[p].list[2] /\ work'[p].list[1] \notin {NoFile, Torn}
      BY <1>4, <1>5 DEF At
    <3> QED BY <3>1, <3>2
  <2> QED BY <1>2, <1>5, <2>2, <2>3, <2>4, <2>5, <2>6, <2>7, <2>8 DEF PairKept
<1> QED BY <1>6, <1>8, <1>9, <1>10, <1>11 DEF DirectoryInv

-----------------------------------------------------------------------------
(* The theorem                                                             *)

LEMMA KilledKeeps ==
    ASSUME DirectoryInv, NEW p \in Processes, killed(p)
    PROVE  DirectoryInv'
<1>1. DirectoryTyped /\ Placed /\ IdentityKept /\ ListKept /\ PairKept
  BY DEF DirectoryInv
<1>2. /\ UNCHANGED <<version, commands, identityFile, identityTmp, configFile, seedFile, certFile, keyFile>>
      /\ UNCHANGED <<announced, added, raced>> /\ die(p)
      /\ disturbed' = (disturbed \/ At(p, "writeSeeds"))
      /\ mixed' = (mixed \/ At(p, "writeKey"))
  BY DEF killed
<1>3. /\ work' \in [Processes -> WorkStates] /\ Alone(p)
      /\ work'[p].at = "idle" /\ work'[p].command = "none"
  BY <1>1, <1>2, Dies
<1>4. DirectoryTyped'
  <2>1. disturbed' \in BOOLEAN /\ mixed' \in BOOLEAN
    BY <1>1, <1>2 DEF DirectoryTyped, At
  <2> QED BY <1>1, <1>2, <1>3, <2>1 DEF DirectoryTyped
<1>5. Placed'
  BY <1>1, <1>2, <1>3, DeadPlaced, PlacedStays DEF Alone
<1>6. IdentityKept'
  BY <1>1, <1>2, <1>3, IdentityStays DEF Making
<1>7. ListKept'
  BY <1>1, <1>2, <1>3, DeadPlaced, ListStays DEF Alone, Adding
<1>8. PairKept'
  BY <1>1, <1>2, <1>3, PairStays DEF Alone, PairPlaces
<1> QED BY <1>4, <1>5, <1>6, <1>7, <1>8 DEF DirectoryInv

LEMMA DirectoryNextKeeps == DirectoryInv /\ [DirectoryNext]_dirVars => DirectoryInv'
<1> SUFFICES ASSUME DirectoryInv, DirectoryNext \/ UNCHANGED dirVars
             PROVE  DirectoryInv'
  OBVIOUS
<1>1. ASSUME NEW p \in Processes,
             \/ runCommand(p) \/ probe(p) \/ loadConfig(p)
             \/ loadOrCreateIdentity(p) \/ loadIdentity(p) \/ openTmp(p) \/ writeTmp(p) \/ rename(p)
             \/ writeConfig(p) \/ addSeed(p) \/ writeSeedList(p) \/ loadSeeds(p)
             \/ loadLinkCert(p) \/ createLinkCert(p)
             \/ killed(p)
      PROVE  DirectoryInv'
  BY <1>1, RunCommandKeeps, ProbeKeeps, LoadConfigKeeps, LoadOrCreateKeeps, LoadIdentityKeeps,
     OpenTmpKeeps, WriteTmpKeeps, RenameKeeps, WriteConfigKeeps, AddSeedKeeps, WriteSeedListKeeps,
     LoadSeedsKeeps, LoadLinkCertKeeps, CreateLinkCertKeeps, KilledKeeps
<1>2. CASE UNCHANGED dirVars
  <2>1. DirectoryTyped' /\ Placed'
    BY <1>2 DEF DirectoryInv, dirVars, DirectoryTyped, Placed, PlacedAt, At
  <2>2. IdentityKept' /\ PairKept'
    BY <1>2 DEF DirectoryInv, dirVars, IdentityKept, PairKept, At
  <2>3. ListKept'
    BY <1>2 DEF DirectoryInv, dirVars, ListKept, Adding, Starting, Changing, At
  <2> QED BY <2>1, <2>2, <2>3 DEF DirectoryInv
<1> QED BY <1>1, <1>2 DEF DirectoryNext

\* What an operator was shown or told is what the directory holds: the identity
\* (saveIdentity renames), the seeds that add-seed reported (writeSeedList) and
\* the pair a relay serves its links with (loadOrCreateLinkCert), for any number
\* of programs, each stopped at any of its steps; the exceptions are those the
\* properties name, two programs at once and a write in place cut short.
THEOREM FilesAlwaysKept == DirectorySpec => []FilesKept
<1>1. DirectoryInit => DirectoryInv
  <2> SUFFICES ASSUME DirectoryInit
               PROVE  DirectoryInv
    OBVIOUS
  <2>1. /\ version \in {"v1", "v2"} /\ commands = 0
        /\ identityFile = NoFile /\ identityTmp = NoFile /\ configFile = NoFile
        /\ certFile = NoFile /\ keyFile = NoFile /\ announced = {} /\ added = {}
        /\ raced = FALSE /\ disturbed = FALSE /\ mixed = FALSE
        /\ seedFile = [torn |-> FALSE, list |-> <<>>]
        /\ work = [p \in Processes |-> Resting]
    BY DEF DirectoryInit
  <2>2. Resting \in WorkStates /\ Resting.at = "idle" /\ Resting.command = "none"
    <3>1. <<>> \in Seq(Items)
      OBVIOUS
    <3> QED BY <3>1 DEF Resting, WorkStates, Places
  <2>3. \A p \in Processes : work[p] = Resting /\ work[p].at = "idle" /\ work[p].command = "none"
    BY <2>1, <2>2
  <2>4. DirectoryTyped
    <3>1. seedFile \in [torn : BOOLEAN, list : Seq(Items)]
      <4>1. <<>> \in Seq(Items)
        OBVIOUS
      <4> QED BY <2>1, <4>1
    <3>2. work \in [Processes -> WorkStates]
      BY <2>1, <2>2
    <3>3. /\ identityFile \in Int /\ identityTmp \in Int /\ certFile \in Int /\ keyFile \in Int
          /\ configFile \in {NoFile, Torn, Whole} /\ commands \in Nat
      BY <2>1 DEF NoFile
    <3>4. raced \in BOOLEAN /\ disturbed \in BOOLEAN /\ mixed \in BOOLEAN
      BY <2>1
    <3> QED BY <2>1, <3>1, <3>2, <3>3, <3>4 DEF DirectoryTyped
  <2>5. Placed
    BY <2>3 DEF Placed, PlacedAt, At, SeedPlaces, Making
  <2>6. IdentityKept
    BY <2>1, <2>3 DEF IdentityKept, At, Making, NoFile, Torn
  <2>7. ListKept
    BY <2>1, <2>3 DEF ListKept, Adding, Starting, At
  <2>8. PairKept
    BY <2>1, <2>3 DEF PairKept, PairPlaces, At, NoFile, Torn
  <2> QED BY <2>4, <2>5, <2>6, <2>7, <2>8 DEF DirectoryInv
<1>2. DirectoryInv => FilesKept
  <2> SUFFICES ASSUME DirectoryInv
               PROVE  FilesKept
    OBVIOUS
  <2>1. AnnouncedIdentityKept
    BY DEF DirectoryInv, IdentityKept, AnnouncedIdentityKept
  <2>2. SeedsKept
    BY DEF DirectoryInv, ListKept, SeedsKept, Listed
  <2>3. LinkPairMatches
    BY DEF DirectoryInv, PairKept, LinkPairMatches
  <2> QED BY <2>1, <2>2, <2>3 DEF FilesKept
<1> QED BY <1>1, <1>2, DirectoryNextKeeps, PTL DEF DirectorySpec

-----------------------------------------------------------------------------
(* Requests and responses as units                                         *)

\* A set of numbers has a smallest one.
LEMMA SmallestNumber ==
    ASSUME NEW T, T \subseteq Nat, T # {}
    PROVE  \E t \in T : \A u \in T : t <= u
<1> DEFINE D == {0..t : t \in T}
           R == StrictSubsetOrdering(Nat)
<1>1. \A t \in T : 0..t \in FiniteSubsetsOf(Nat)
  BY FS_Interval DEF FiniteSubsetsOf
<1>2. D \subseteq FiniteSubsetsOf(Nat) /\ D # {}
  BY <1>1
<1>3. IsWellFoundedOn(R, FiniteSubsetsOf(Nat))
  BY FS_StrictSubsetOrderingWellFounded
<1> HIDE DEF D, R
<1>4. PICK d \in D : \A c \in D : ~ (<<c, d>> \in R)
  BY <1>2, <1>3, WFMin, Zenon
<1>5. PICK t \in T : d = 0..t
  BY <1>4 DEF D
<1>6. ASSUME NEW u \in T, u < t
      PROVE  FALSE
  <2>1. 0..u \in D /\ 0..u \subseteq d /\ 0..u # d
    BY <1>5, <1>6 DEF D
  <2>2. 0..u \in SUBSET Nat /\ d \in SUBSET Nat
    BY <1>5
  <2> QED BY <1>4, <2>1, <2>2 DEF R, StrictSubsetOrdering
<1> QED BY <1>6

\* The first n parts of a sequence, put together one after the other.
Together(f, n, seqs) == f = [i \in 1..n |-> IF i = 1 THEN seqs[i] ELSE f[i - 1] \o seqs[i]]

LEMMA TogetherExists ==
    ASSUME NEW n \in Nat, NEW seqs
    PROVE  \E f : Together(f, n, seqs)
<1> DEFINE T == {k \in 0..n : ~ \E f : Together(f, k, seqs)}
<1>1. SUFFICES ASSUME T # {}
               PROVE  FALSE
  BY DEF T
<1>2. PICK k \in T : \A j \in T : k <= j
  <2>1. T \subseteq Nat
    OBVIOUS
  <2> HIDE DEF T
  <2> QED BY <1>1, <2>1, SmallestNumber
<1>3. CASE k = 0
  <2>1. Together([i \in 1..0 |-> seqs[i]], 0, seqs)
    BY DEF Together
  <2> QED BY <1>3, <2>1
<1>4. CASE k # 0
  <2>1. k \in Nat /\ k - 1 \in 0..n /\ k - 1 \notin T
    BY <1>2, <1>4
  <2>2. PICK f : Together(f, k - 1, seqs)
    BY <2>1
  <2> DEFINE g == [i \in 1..k |-> IF i < k THEN f[i] ELSE IF k = 1 THEN seqs[k] ELSE f[k - 1] \o seqs[k]]
  <2>3. \A i \in 1..(k - 1) : f[i] = IF i = 1 THEN seqs[i] ELSE f[i - 1] \o seqs[i]
    BY <2>2 DEF Together
  <2>4. \A i \in 1..k : g[i] = IF i = 1 THEN seqs[i] ELSE g[i - 1] \o seqs[i]
    BY <2>1, <2>3
  <2>5. g = [i \in 1..k |-> g[i]]
    OBVIOUS
  <2>6. Together(g, k, seqs)
    <3> HIDE DEF g
    <3> QED BY <2>4, <2>5 DEF Together
  <2> QED BY <2>6
<1> QED BY <1>3, <1>4

\* FlattenSeq puts a sequence of sequences together.
LEMMA FlattenIs ==
    ASSUME NEW seqs, Len(seqs) \in Nat \ {0}
    PROVE  \E f : /\ FlattenSeq(seqs) = f[Len(seqs)]
                  /\ \A i \in 1..Len(seqs) : f[i] = IF i = 1 THEN seqs[i] ELSE f[i - 1] \o seqs[i]
<1> DEFINE f == CHOOSE f : Together(f, Len(seqs), seqs)
<1>1. Together(f, Len(seqs), seqs)
  BY TogetherExists
<1>2. FlattenSeq(seqs) = f[Len(seqs)]
  BY DEF FlattenSeq, Together
<1> HIDE DEF f
<1>3. \A i \in 1..Len(seqs) : f[i] = IF i = 1 THEN seqs[i] ELSE f[i - 1] \o seqs[i]
  BY <1>1 DEF Together
<1> QED BY <1>2, <1>3
-----------------------------------------------------------------------------
(* The session                                                             *)

UnitSet == [req : 1..MaxRequests, kind : Kinds, last : BOOLEAN]
SentSet == [unit : {"head", "body", "fin"}, status : {0, 20, 50, 51, 59}, len : Nat]

\* Responses with the length of their body in META, of which only a success has one.
AnswerSet ==
    {r \in [req : 1..MaxRequests, status : {20, 50, 51, 59}, len : Nat, size : Nat] :
        r.len = r.size /\ (r.status # 20 => r.size = 0)}

SessionTyped ==
    /\ kinds \in Seq(Kinds) /\ Len(kinds) \in 1..MaxRequests
    /\ once \in BOOLEAN /\ (once => Len(kinds) = 1)
    /\ toServer \in Seq(UnitSet) /\ buffer \in Seq(UnitSet)
    /\ answered \in Seq(AnswerSet) /\ toClient \in Seq(SentSet)
    /\ head \in [status : Nat, len : Nat] /\ bodySoFar \in Nat
    /\ TypeOK

\* The units q carry the requests from k + 1 to n, one after the other, and the
\* last unit of each but the n-th says so.
Carries(q, k, n) ==
    /\ q = <<>> => k = n
    /\ q # <<>> => q[1].req = k + 1 /\ q[Len(q)].req = n
    /\ \A i, j \in 1..Len(q) :
         i <= j => /\ q[i].req <= q[j].req
                   /\ (\A m \in i..(j - 1) : ~q[m].last) => q[i].req = q[j].req
    /\ \A i \in 1..(Len(q) - 1) : q[i].last => q[i + 1].req = q[i].req + 1

\* The number of requests the server took up.
Taken == IF busy = 0 THEN Len(answered) ELSE Len(answered) + 1

\* While the session is open, the requests were answered in their order, the handler is on
\* the next one, and the rest of them is in the buffer or under way.
InTurn ==
    /\ Len(answered) <= Len(kinds)
    /\ peerClosed => toServer = <<>>
    /\ ~closing =>
         /\ \A i \in 1..Len(answered) : answered[i].req = i /\ answered[i].status # 59
         /\ busy # 0 => busy = Len(answered) + 1
         /\ Carries(buffer \o toServer, Taken, Len(kinds))

\* Of the units c that are under way to the client, those before the end.
Open(c, ended) == IF ended THEN Len(c) - 1 ELSE Len(c)

HeadOf(r) == [status |-> r.status, len |-> r.len]

\* While fetchOnce waits, the one answer is under way to it, or the rest of it.
Awaited(c, ended, answers, h, n) ==
    LET m == Open(c, ended)
    IN  /\ ended => c # <<>> /\ c[Len(c)].unit = "fin"
        /\ answers = <<>> => m = 0 /\ h = NoHead /\ n = 0
        /\ answers # <<>> /\ h = NoHead =>
             /\ n = 0 /\ m <= answers[1].size + 1
             /\ m >= 1 => c[1].unit = "head" /\ c[1].status = answers[1].status
                          /\ c[1].len = answers[1].len
             /\ \A i \in 2..m : c[i].unit = "body"
        /\ answers # <<>> /\ h # NoHead =>
             /\ h = HeadOf(answers[1]) /\ n + m <= answers[1].size
             /\ \A i \in 1..m : c[i].unit = "body"

FetchAwaits ==
    once /\ result = "pending" => Awaited(toClient, closing, answered, head, bodySoFar)

SessionInv == SessionTyped /\ InTurn /\ FetchAwaits /\ FetchWhole

\* The first unit that ends a request.
FirstLast(b, e) == e \in 1..Len(b) /\ b[e].last /\ \A i \in 1..(e - 1) : ~b[i].last

LEMMA EndOfRequest ==
    ASSUME NEW b \in Seq(UnitSet)
    PROVE  LET e == SelectInSeq(b, LAMBDA u : u.last)
           IN  \/ e = 0 /\ \A i \in 1..Len(b) : ~b[i].last
               \/ FirstLast(b, e)
<1> DEFINE I == {i \in 1..Len(b) : b[i].last}
           e == SelectInSeq(b, LAMBDA u : u.last)
<1>1. e = IF I # {} THEN Min(I) ELSE 0
  BY DEF SelectInSeq
<1>2. CASE I = {}
  BY <1>1, <1>2
<1>3. CASE I # {}
  <2>1. I \subseteq Nat
    OBVIOUS
  <2>2. PICK t \in I : \A u \in I : t <= u
    <3> HIDE DEF I
    <3> QED BY <1>3, <2>1, SmallestNumber
  <2>3. Min(I) \in I /\ \A u \in I : Min(I) <= u
    BY <2>2 DEF Min
  <2>4. e \in I /\ \A u \in I : e <= u
    BY <1>1, <1>3, <2>3
  <2> HIDE DEF e
  <2>5. e \in 1..Len(b) /\ b[e].last
    BY <2>4
  <2>6. \A i \in 1..(e - 1) : ~b[i].last
    BY <2>4, <2>5
  <2> QED BY <2>5, <2>6 DEF FirstLast, e
<1> QED BY <1>2, <1>3

\* Without its first request, a chain of units carries the others.
LEMMA NextRequest ==
    ASSUME NEW q \in Seq(UnitSet), NEW p \in Seq(UnitSet), NEW e \in 1..Len(q),
           NEW k \in Nat, NEW n \in Nat,
           Carries(q, k, n), FirstLast(q, e),
           Len(p) = Len(q) - e, \A i \in 1..Len(p) : p[i] = q[e + i]
    PROVE  q[1].req = k + 1 /\ k + 1 <= n /\ Carries(p, k + 1, n)
<1>1. Len(q) \in Nat /\ Len(p) \in Nat /\ 1 \in 1..Len(q) /\ Len(q) \in 1..Len(q) /\ q # <<>>
  OBVIOUS
<1>2. \A i \in 1..Len(q) : q[i] \in UnitSet
  OBVIOUS
<1>3. \A i \in 1..Len(q) : q[i].req \in Nat
  BY <1>2 DEF UnitSet
<1>4. q[1].req = k + 1 /\ q[Len(q)].req = n /\ q[1].req <= q[Len(q)].req
  BY <1>1 DEF Carries
<1>5. q[e].req = k + 1
  <2>1. 1 <= e /\ \A m \in 1..(e - 1) : ~q[m].last
    BY DEF FirstLast
  <2>2. q[1].req = q[e].req
    BY <1>1, <2>1 DEF Carries
  <2> QED BY <1>4, <2>2
<1>6. p = <<>> => k + 1 = n
  BY <1>1, <1>4, <1>5
<1>7. p # <<>> => p[1].req = k + 2 /\ p[Len(p)].req = n
  <2> SUFFICES ASSUME p # <<>> PROVE p[1].req = k + 2 /\ p[Len(p)].req = n
    OBVIOUS
  <2>1. Len(p) >= 1
    BY <1>1
  <2>2. p[1] = q[e + 1] /\ p[Len(p)] = q[Len(q)]
    BY <1>1, <2>1
  <2>3. q[e + 1].req = q[e].req + 1
    BY <1>1, <2>1 DEF Carries, FirstLast
  <2> QED BY <1>4, <1>5, <2>2, <2>3
<1>8. ASSUME NEW i \in 1..Len(p), NEW j \in 1..Len(p), i <= j
      PROVE  /\ p[i].req <= p[j].req
             /\ (\A m \in i..(j - 1) : ~p[m].last) => p[i].req = p[j].req
  <2>1. p[i] = q[e + i] /\ p[j] = q[e + j] /\ e + i \in 1..Len(q) /\ e + j \in 1..Len(q)
    BY <1>1
  <2>2. p[i].req <= p[j].req
    BY <1>8, <2>1 DEF Carries
  <2>3. ASSUME \A m \in i..(j - 1) : ~p[m].last
        PROVE  p[i].req = p[j].req
    <3>1. ASSUME NEW m \in (e + i)..((e + j) - 1)
          PROVE  m - e \in i..(j - 1) /\ q[m] = p[m - e]
      <4>1. m \in Int /\ m - e \in i..(j - 1) /\ e + (m - e) = m /\ m - e \in 1..Len(p)
        BY <1>1
      <4> QED BY <4>1
    <3>2. \A m \in (e + i)..((e + j) - 1) : ~q[m].last
      BY <2>3, <3>1
    <3>3. e + i <= e + j
      BY <1>1, <1>8
    <3>4. q[e + i].req = q[e + j].req
      BY <2>1, <3>2, <3>3 DEF Carries
    <3> QED BY <2>1, <3>4
  <2> QED BY <2>2, <2>3
<1>9. ASSUME NEW i \in 1..(Len(p) - 1), p[i].last
      PROVE  p[i + 1].req = p[i].req + 1
  <2>1. i \in 1..Len(p) /\ i + 1 \in 1..Len(p) /\ e + (i + 1) = (e + i) + 1
    BY <1>1
  <2>2. p[i] = q[e + i] /\ p[i + 1] = q[(e + i) + 1] /\ e + i \in 1..(Len(q) - 1)
    BY <1>1, <2>1
  <2> QED BY <1>9, <2>2 DEF Carries
<1> QED BY <1>3, <1>4, <1>6, <1>7, <1>8, <1>9 DEF Carries

\* Two sequences, one after the other.
LEMMA Joined ==
    ASSUME NEW S, NEW s \in Seq(S), NEW t \in Seq(S)
    PROVE  /\ s \o t \in Seq(S) /\ Len(s \o t) = Len(s) + Len(t)
           /\ Len(s) \in Nat /\ Len(t) \in Nat
           /\ \A i \in 1..Len(s) : (s \o t)[i] = s[i]
           /\ \A i \in 1..Len(t) : (s \o t)[Len(s) + i] = t[i]
OBVIOUS

\* A chain goes on with the units of one more request.
LEMMA OneMoreRequest ==
    ASSUME NEW q \in Seq(UnitSet), q # <<>>, NEW n \in Nat, Carries(q, 0, n),
           q[Len(q)].last,
           NEW p \in Seq(UnitSet), p # <<>>,
           \A i \in 1..Len(p) : p[i].req = n + 1,
           \A i \in 1..(Len(p) - 1) : ~p[i].last
    PROVE  Carries(q \o p, 0, n + 1)
<1> DEFINE r == q \o p
           a == Len(q)
           b == Len(p)
<1>1. /\ r \in Seq(UnitSet) /\ Len(r) = a + b
      /\ \A i \in 1..a : r[i] = q[i]
      /\ \A i \in 1..b : r[a + i] = p[i]
  BY Joined
<1>2. a \in Nat \ {0} /\ b \in Nat \ {0}
  OBVIOUS
<1>3. \A i \in 1..Len(r) : r[i].req \in Nat
  <2> HIDE DEF r
  <2>1. \A i \in 1..Len(r) : r[i] \in UnitSet
    BY <1>1
  <2> QED BY <2>1 DEF UnitSet
<1> HIDE DEF r
<1>4. ASSUME NEW i \in (a + 1)..(a + b)
      PROVE  r[i] = p[i - a] /\ r[i].req = n + 1
  <2> DEFINE j == i - a
  <2> HIDE DEF a, b
  <2>1. j \in 1..b /\ a + j = i
    BY <1>2
  <2> HIDE DEF j
  <2>2. r[i] = p[j] /\ p[j].req = n + 1
    BY <1>1, <2>1 DEF b
  <2> QED BY <2>2 DEF j
<1>5. q[a].req = n /\ q[1].req = 1 /\ r[a].last
  <2>1. a \in 1..a /\ q # <<>>
    BY <1>2
  <2>2. q[a].req = n /\ q[1].req = 0 + 1
    BY <2>1 DEF Carries
  <2>3. r[a] = q[a] /\ q[a].last
    BY <1>1, <2>1
  <2> QED BY <2>2, <2>3
<1>6. ASSUME NEW i \in 1..a
      PROVE  r[i].req <= n
  <2>1. a \in 1..a /\ i <= a
    BY <1>2
  <2>2. q[i].req <= q[a].req
    BY <2>1 DEF Carries
  <2> QED BY <1>1, <1>5, <2>2
<1>7. r # <<>> /\ r[1].req = 1 /\ r[Len(r)].req = n + 1
  <2>1. 1 \in 1..a /\ Len(r) = a + b /\ a + b \in (a + 1)..(a + b) /\ Len(r) # 0
    <3> HIDE DEF a, b
    <3> QED BY <1>1, <1>2
  <2>2. r[1] = q[1]
    BY <1>1, <2>1
  <2>3. r[a + b].req = n + 1
    BY <1>4, <2>1
  <2>4. r # <<>>
    BY <2>1
  <2> QED BY <1>5, <2>1, <2>2, <2>3, <2>4
<1> HIDE DEF a, b
<1>8. ASSUME NEW i \in 1..Len(r), NEW j \in 1..Len(r), i <= j
      PROVE  /\ r[i].req <= r[j].req
             /\ (\A m \in i..(j - 1) : ~r[m].last) => r[i].req = r[j].req
  <2>0. i \in 1..(a + b) /\ j \in 1..(a + b) /\ i \in Nat /\ j \in Nat
    BY <1>1, <1>2
  <2>1. CASE j <= a
    <3>1. i \in 1..a /\ j \in 1..a /\ \A m \in i..(j - 1) : m \in 1..a
      BY <1>2, <1>8, <2>0, <2>1
    <3>2. r[i] = q[i] /\ r[j] = q[j] /\ \A m \in i..(j - 1) : r[m] = q[m]
      BY <1>1, <3>1
    <3>3. /\ q[i].req <= q[j].req
          /\ (\A m \in i..(j - 1) : ~q[m].last) => q[i].req = q[j].req
      BY <1>8, <3>1 DEF Carries, a
    <3> QED BY <3>2, <3>3
  <2>2. CASE i > a
    <3>1. i \in (a + 1)..(a + b) /\ j \in (a + 1)..(a + b)
      BY <1>2, <1>8, <2>0, <2>2
    <3>2. r[i].req = n + 1 /\ r[j].req = n + 1
      BY <1>4, <3>1
    <3> QED BY <3>2
  <2>3. CASE i <= a /\ j > a
    <3>1. i \in 1..a /\ j \in (a + 1)..(a + b) /\ a \in i..(j - 1)
      BY <1>2, <2>0, <2>3
    <3>2. r[i].req <= n /\ r[j].req = n + 1 /\ r[i].req \in Nat
      BY <1>3, <1>4, <1>6, <3>1
    <3>3. ~ \A m \in i..(j - 1) : ~r[m].last
      BY <1>5, <3>1
    <3>4. r[i].req <= r[j].req
      BY <3>2
    <3> QED BY <3>3, <3>4
  <2>4. j <= a \/ i > a \/ (i <= a /\ j > a)
    BY <1>2, <2>0
  <2> QED BY <2>1, <2>2, <2>3, <2>4
<1>9. ASSUME NEW i \in 1..(Len(r) - 1), r[i].last
      PROVE  r[i + 1].req = r[i].req + 1
  <2>0. i \in 1..(a + b - 1) /\ i \in Nat
    BY <1>1, <1>2
  <2>1. CASE i < a
    <3>1. i \in 1..a /\ i + 1 \in 1..a /\ i \in 1..(a - 1)
      BY <1>2, <2>0, <2>1
    <3>2. r[i] = q[i] /\ r[i + 1] = q[i + 1]
      BY <1>1, <3>1
    <3>3. q[i].last => q[i + 1].req = q[i].req + 1
      BY <3>1 DEF Carries, a
    <3> QED BY <1>9, <3>2, <3>3
  <2>2. CASE i = a
    <3>1. i \in 1..a /\ i + 1 \in (a + 1)..(a + b)
      BY <1>2, <2>0, <2>2
    <3>2. r[i] = q[a] /\ r[i + 1].req = n + 1
      BY <1>1, <1>4, <2>2, <3>1
    <3> QED BY <1>5, <3>2
  <2>3. CASE i > a
    <3>1. i \in (a + 1)..(a + b) /\ i - a \in 1..(b - 1)
      BY <1>2, <2>0, <2>3
    <3>2. r[i] = p[i - a] /\ ~p[i - a].last
      BY <1>4, <3>1 DEF b
    <3> QED BY <1>9, <3>2
  <2> QED BY <1>2, <2>0, <2>1, <2>2, <2>3
<1>10. Carries(r, 0, n + 1)
  <2>1. \A i, j \in 1..Len(r) :
          i <= j => /\ r[i].req <= r[j].req
                    /\ (\A m \in i..(j - 1) : ~r[m].last) => r[i].req = r[j].req
    BY <1>8
  <2>2. \A i \in 1..(Len(r) - 1) : r[i].last => r[i + 1].req = r[i].req + 1
    BY <1>9
  <2> QED BY <1>7, <2>1, <2>2 DEF Carries
<1> QED BY <1>10 DEF r

\* The units us are those of the i-th request, which is broken off or not.
RequestUnits(us, i, broken) ==
    /\ us \in Seq(UnitSet) /\ us # <<>>
    /\ \A j \in 1..Len(us) : us[j].req = i
    /\ \A j \in 1..(Len(us) - 1) : ~us[j].last
    /\ ~broken => us[Len(us)].last

LEMMA UnitsOfRequest ==
    ASSUME NEW i \in 1..MaxRequests, NEW kind \in Kinds
    PROVE  RequestUnits(Units(i, kind), i, kind = "partial")
<1> DEFINE unit(last) == [req |-> i, kind |-> kind, last |-> last]
           us == Units(i, kind)
<1>1. \A last \in BOOLEAN : unit(last) \in UnitSet /\ unit(last).req = i /\ unit(last).last = last
  BY DEF UnitSet
<1>2. CASE kind = "long"
  <2>1. us = [u \in 1..(MaxUnits + 1) |-> unit(u = MaxUnits + 1)]
    BY <1>2 DEF Units
  <2> HIDE DEF us, unit
  <2>2. MaxUnits + 1 \in Nat \ {0}
    BY SessionBounds
  <2>3. ASSUME NEW u \in 1..(MaxUnits + 1)
        PROVE  /\ us[u] \in UnitSet /\ us[u].req = i
               /\ u # MaxUnits + 1 => ~us[u].last
               /\ u = MaxUnits + 1 => us[u].last
    <3>1. us[u] = unit(u = MaxUnits + 1) /\ (u = MaxUnits + 1) \in BOOLEAN
      BY <2>1
    <3>2. CASE u = MaxUnits + 1
      <4>1. us[u] = unit(TRUE)
        BY <3>1, <3>2
      <4> QED BY <1>1, <3>2, <4>1
    <3>3. CASE u # MaxUnits + 1
      <4>1. us[u] = unit(FALSE)
        BY <3>1, <3>3
      <4> QED BY <1>1, <3>3, <4>1
    <3> QED BY <3>2, <3>3
  <2>4. us \in Seq(UnitSet) /\ Len(us) = MaxUnits + 1
    BY <2>1, <2>2, <2>3
  <2>5. us # <<>>
    BY <2>2, <2>4
  <2>6. \A j \in 1..(Len(us) - 1) : ~us[j].last
    BY <2>2, <2>3, <2>4
  <2>7. us[Len(us)].last
    BY <2>2, <2>3, <2>4
  <2>8. RequestUnits(us, i, kind = "partial")
    BY <2>3, <2>4, <2>5, <2>6, <2>7 DEF RequestUnits
  <2> QED BY <2>8 DEF us
<1>3. CASE kind = "partial"
  <2>1. us = <<unit(FALSE)>>
    BY <1>3 DEF Units
  <2> HIDE DEF us, unit
  <2> DEFINE u1 == unit(FALSE)
  <2>2. u1 \in UnitSet /\ u1.req = i
    BY <1>1
  <2> HIDE DEF u1
  <2>3. us = <<u1>>
    BY <2>1 DEF u1
  <2>4. RequestUnits(us, i, TRUE)
    BY <2>2, <2>3 DEF RequestUnits
  <2> QED BY <1>3, <2>4 DEF us
<1>4. CASE kind \notin {"long", "partial"}
  <2>1. us = <<unit(FALSE), unit(TRUE)>>
    BY <1>4 DEF Units
  <2> HIDE DEF us, unit
  <2> DEFINE u1 == unit(FALSE)
             u2 == unit(TRUE)
  <2>2. u1 \in UnitSet /\ u1.req = i /\ ~u1.last
    BY <1>1
  <2>3. u2 \in UnitSet /\ u2.req = i /\ u2.last
    BY <1>1
  <2> HIDE DEF u1, u2
  <2>4. us = <<u1, u2>>
    BY <2>1 DEF u1, u2
  <2>5. us \in Seq(UnitSet) /\ us # <<>> /\ Len(us) = 2 /\ us[1] = u1 /\ us[2] = u2
    BY <2>2, <2>3, <2>4
  <2>6. RequestUnits(us, i, FALSE)
    BY <2>2, <2>3, <2>5 DEF RequestUnits
  <2> QED BY <1>4, <2>6 DEF us
<1> QED BY <1>2, <1>3, <1>4


\* The requests of a client, as units: they come one after the other.
LEMMA RequestsInTurn ==
    ASSUME NEW ks \in Seq(Kinds), Len(ks) \in 1..MaxRequests,
           \A i \in 1..(Len(ks) - 1) : ks[i] # "partial"
    PROVE  LET all == FlattenSeq([i \in DOMAIN ks |-> Units(i, ks[i])])
           IN  all \in Seq(UnitSet) /\ Carries(all, 0, Len(ks))
<1> DEFINE seqs == [i \in DOMAIN ks |-> Units(i, ks[i])]
<1>1. Len(ks) \in Nat \ {0} /\ DOMAIN ks = 1..Len(ks) /\ \A i \in 1..Len(ks) : ks[i] \in Kinds
  OBVIOUS
<1>2. Len(seqs) = Len(ks) /\ \A i \in 1..Len(ks) : seqs[i] = Units(i, ks[i])
  BY <1>1
<1> HIDE DEF seqs
<1>3. ASSUME NEW i \in 1..Len(ks)
      PROVE  RequestUnits(seqs[i], i, ks[i] = "partial")
  <2>1. i \in 1..MaxRequests /\ ks[i] \in Kinds
    BY <1>1, SessionBounds
  <2> QED BY <1>2, <2>1, UnitsOfRequest
<1>4. PICK f : /\ FlattenSeq(seqs) = f[Len(seqs)]
               /\ \A i \in 1..Len(seqs) : f[i] = IF i = 1 THEN seqs[i] ELSE f[i - 1] \o seqs[i]
  BY <1>1, <1>2, FlattenIs
<1> DEFINE Good(j) == /\ f[j] \in Seq(UnitSet) /\ f[j] # <<>> /\ Carries(f[j], 0, j)
                      /\ ks[j] # "partial" => f[j][Len(f[j])].last
           T == {j \in 1..Len(ks) : ~Good(j)}
<1>5. T = {}
  <2> SUFFICES ASSUME T # {} PROVE FALSE
    OBVIOUS
  <2>1. T \subseteq Nat
    OBVIOUS
  <2> HIDE DEF T
  <2>2. PICK j \in T : \A i \in T : j <= i
    BY <2>1, SmallestNumber
  <2> USE DEF T
  <2>3. j \in 1..Len(ks) /\ ~Good(j)
    BY <2>2
  <2> DEFINE us == seqs[j]
  <2>4. RequestUnits(us, j, ks[j] = "partial")
    BY <1>3, <2>3
  <2> HIDE DEF us
  <2>5. us \in Seq(UnitSet) /\ us # <<>> /\ Len(us) \in Nat \ {0}
    BY <2>4 DEF RequestUnits
  <2>6. CASE j = 1
    <3>1. f[j] = us
      BY <1>1, <1>2, <1>4, <2>3, <2>6 DEF us
    <3>2. \A i \in 1..Len(us) : us[i].req = 1
      BY <2>4, <2>6 DEF RequestUnits
    <3>3. \A i \in 1..(Len(us) - 1) : ~us[i].last
      BY <2>4 DEF RequestUnits
    <3>4. Carries(us, 0, 1)
      BY <2>5, <3>2, <3>3 DEF Carries
    <3>5. ks[j] # "partial" => us[Len(us)].last
      BY <2>4 DEF RequestUnits
    <3> QED BY <2>3, <2>5, <2>6, <3>1, <3>4, <3>5
  <2>7. CASE j # 1
    <3>1. j - 1 \in 1..(Len(ks) - 1) /\ j - 1 \in 1..Len(ks) /\ j - 1 \in Nat /\ (j - 1) + 1 = j /\ ~(j <= j - 1)
      BY <2>3, <2>7
    <3>2. Good(j - 1)
      BY <2>2, <3>1
    <3>3. ks[j - 1] # "partial"
      BY <3>1
    <3> DEFINE q == f[j - 1]
    <3>4. f[j] = q \o us
      BY <1>1, <1>2, <1>4, <2>3, <2>7 DEF us
    <3>5. q \in Seq(UnitSet) /\ q # <<>> /\ Carries(q, 0, j - 1) /\ q[Len(q)].last
      BY <3>2, <3>3
    <3> HIDE DEF q
    <3>6. \A i \in 1..Len(us) : us[i].req = (j - 1) + 1
      BY <2>4, <3>1 DEF RequestUnits
    <3>7. \A i \in 1..(Len(us) - 1) : ~us[i].last
      BY <2>4 DEF RequestUnits
    <3>8. Carries(q \o us, 0, (j - 1) + 1)
      BY <2>5, <3>1, <3>5, <3>6, <3>7, OneMoreRequest
    <3>9. q \o us \in Seq(UnitSet) /\ q \o us # <<>> /\ (q \o us)[Len(q \o us)] = us[Len(us)]
      BY <2>5, <3>5
    <3>10. ks[j] # "partial" => us[Len(us)].last
      BY <2>4 DEF RequestUnits
    <3> DEFINE r == q \o us
    <3>11. r \in Seq(UnitSet) /\ r # <<>> /\ Carries(r, 0, j) /\ (ks[j] # "partial" => r[Len(r)].last)
      BY <3>1, <3>8, <3>9, <3>10
    <3>12. f[j] = r
      BY <3>4
    <3> HIDE DEF r
    <3> QED BY <2>3, <3>11, <3>12
  <2> QED BY <2>6, <2>7
<1>6. Good(Len(ks))
  <2>1. Len(ks) \in 1..Len(ks) /\ Len(ks) \notin T
    BY <1>1, <1>5
  <2> QED BY <2>1
<1>7. FlattenSeq(seqs) \in Seq(UnitSet) /\ Carries(FlattenSeq(seqs), 0, Len(ks))
  BY <1>2, <1>4, <1>6
<1> QED BY <1>7 DEF seqs

LEMMA SessionStarts == Init => SessionInv
<1> SUFFICES ASSUME Init PROVE SessionInv
  OBVIOUS
<1>1. PICK n \in 1..MaxRequests : kinds \in [1..n -> Kinds]
  BY DEF Init
<1>2. kinds \in Seq(Kinds) /\ Len(kinds) = n /\ DOMAIN kinds = 1..n
  BY <1>1, SessionBounds
<1>3. \A i \in 1..(Len(kinds) - 1) : kinds[i] # "partial"
  BY DEF Init
<1>4. toServer \in Seq(UnitSet) /\ Carries(toServer, 0, Len(kinds))
  BY <1>2, <1>3, RequestsInTurn DEF Init
<1>5. <<>> \o toServer = toServer
  BY <1>4
<1>6. SessionTyped
  <2>1. TypeOK
    <3>1. file \in FileStates /\ changes \in 0..MaxChanges /\ busy \in 0..MaxRequests
      BY SessionBounds DEF Init
    <3>2. Len(buffer) <= 2 * MaxUnits
      BY SessionBounds DEF Init
    <3> QED BY <3>1, <3>2 DEF Init, TypeOK
  <2>2. buffer \in Seq(UnitSet) /\ answered \in Seq(AnswerSet) /\ toClient \in Seq(SentSet)
    BY DEF Init
  <2>3. head \in [status : Nat, len : Nat] /\ bodySoFar \in Nat
    BY DEF Init, NoHead
  <2>4. once \in BOOLEAN /\ (once => Len(kinds) = 1)
    BY DEF Init
  <2> QED BY <1>1, <1>2, <1>4, <2>1, <2>2, <2>3, <2>4 DEF SessionTyped
<1>7. InTurn
  <2>1. buffer = <<>> /\ answered = <<>> /\ Len(answered) = 0 /\ busy = 0 /\ peerClosed = FALSE
    BY DEF Init
  <2>2. Taken = 0
    BY <2>1 DEF Taken
  <2> QED BY <1>2, <1>4, <1>5, <2>1, <2>2 DEF InTurn
<1>8. FetchAwaits
  BY DEF Init, FetchAwaits, Awaited, Open
<1>9. FetchWhole
  BY DEF Init, FetchWhole
<1> QED BY <1>6, <1>7, <1>8, <1>9 DEF SessionInv

\* What is written for the responses rs.
AllWritten(rs) == FlattenSeq([i \in DOMAIN rs |-> Written(rs[i])])

LEMMA WrittenIs ==
    ASSUME NEW r \in AnswerSet
    PROVE  LET w == Written(r)
           IN  /\ w \in Seq(SentSet) /\ Len(w) = r.size + 1 /\ r.size \in Nat
               /\ w[1].unit = "head" /\ w[1].status = r.status /\ w[1].len = r.len
               /\ \A i \in 2..Len(w) : w[i].unit = "body"
<1> DEFINE h == [unit |-> "head", status |-> r.status, len |-> r.len]
           u == [unit |-> "body", status |-> r.status, len |-> 0]
           body == [i \in 1..r.size |-> u]
<1>1. r.status \in {20, 50, 51, 59} /\ r.len \in Nat /\ r.size \in Nat
  BY DEF AnswerSet
<1>2. h \in SentSet /\ h.unit = "head" /\ h.status = r.status /\ h.len = r.len
  BY <1>1 DEF SentSet
<1>3. u \in SentSet /\ u.unit = "body"
  BY <1>1 DEF SentSet
<1>4. Written(r) = <<h>> \o body
  BY DEF Written
<1> HIDE DEF h, u
<1>5. body \in Seq(SentSet) /\ Len(body) = r.size /\ \A i \in 1..r.size : body[i] = u
  BY <1>1, <1>3
<1> HIDE DEF body
<1> DEFINE w == <<h>> \o body
<1>6. w \in Seq(SentSet) /\ Len(w) = r.size + 1 /\ w[1] = h /\ \A i \in 2..Len(w) : w[i] = body[i - 1]
  BY <1>1, <1>2, <1>5
<1>7. \A i \in 2..Len(w) : w[i].unit = "body"
  <2> HIDE DEF w
  <2>1. \A i \in 2..Len(w) : i - 1 \in 1..r.size
    BY <1>1, <1>6
  <2> QED BY <1>3, <1>5, <1>6, <2>1
<1> HIDE DEF w
<1> QED BY <1>1, <1>2, <1>4, <1>6, <1>7 DEF w

LEMMA AllWrittenTyped ==
    ASSUME NEW rs \in Seq(AnswerSet)
    PROVE  /\ AllWritten(rs) \in Seq(SentSet)
           /\ rs = <<>> => AllWritten(rs) = <<>>
           /\ Len(rs) = 1 => AllWritten(rs) = Written(rs[1])
<1> DEFINE seqs == [i \in DOMAIN rs |-> Written(rs[i])]
<1>1. Len(rs) \in Nat /\ DOMAIN rs = 1..Len(rs) /\ \A i \in 1..Len(rs) : rs[i] \in AnswerSet
  OBVIOUS
<1>2. Len(seqs) = Len(rs) /\ \A i \in 1..Len(rs) : seqs[i] = Written(rs[i])
  BY <1>1
<1>3. AllWritten(rs) = FlattenSeq(seqs)
  BY DEF AllWritten
<1>4. CASE rs = <<>>
  <2>1. seqs = <<>>
    BY <1>1, <1>4
  <2>2. FlattenSeq(seqs) = <<>>
    BY <1>2, <1>4, <2>1 DEF FlattenSeq
  <2>3. AllWritten(rs) = <<>>
    BY <1>3, <2>2
  <2>4. Len(rs) # 1
    BY <1>4
  <2> HIDE DEF seqs
  <2>5. <<>> \in Seq(SentSet)
    OBVIOUS
  <2> QED BY <1>4, <2>3, <2>4, <2>5
<1>5. CASE rs # <<>>
  <2> HIDE DEF seqs
  <2>1. Len(rs) # 0
    BY <1>1, <1>5
  <2>2. PICK f : /\ FlattenSeq(seqs) = f[Len(seqs)]
                 /\ \A i \in 1..Len(seqs) : f[i] = IF i = 1 THEN seqs[i] ELSE f[i - 1] \o seqs[i]
    BY <1>1, <1>2, <2>1, FlattenIs
  <2> DEFINE T == {j \in 1..Len(rs) : f[j] \notin Seq(SentSet)}
  <2>3. \A j \in 1..Len(rs) : seqs[j] \in Seq(SentSet)
    BY <1>1, <1>2, WrittenIs
  <2>4. T = {}
    <3> SUFFICES ASSUME T # {} PROVE FALSE
      OBVIOUS
    <3>1. T \subseteq Nat
      OBVIOUS
    <3> HIDE DEF T
    <3>2. PICK j \in T : \A i \in T : j <= i
      BY <3>1, SmallestNumber
    <3> USE DEF T
    <3>3. CASE j = 1
      BY <1>2, <2>2, <2>3, <3>2, <3>3
    <3>4. CASE j # 1
      <4>1. j - 1 \in 1..Len(rs) /\ ~(j <= j - 1)
        BY <1>1, <3>4
      <4>2. f[j - 1] \in Seq(SentSet)
        BY <3>2, <4>1
      <4>3. f[j] = f[j - 1] \o seqs[j]
        BY <1>2, <2>2, <3>4
      <4>4. seqs[j] \in Seq(SentSet)
        BY <2>3
      <4>5. f[j - 1] \o seqs[j] \in Seq(SentSet)
        BY <4>2, <4>4
      <4> QED BY <3>2, <4>3, <4>5
    <3> QED BY <3>3, <3>4
  <2>5. f[Len(rs)] \in Seq(SentSet)
    <3>1. Len(rs) \in 1..Len(rs) /\ Len(rs) \notin T
      BY <1>1, <2>1, <2>4
    <3> QED BY <3>1
  <2>6. Len(rs) = 1 => f[Len(rs)] = Written(rs[1])
    BY <1>2, <2>2
  <2> QED BY <1>2, <1>3, <1>5, <2>2, <2>5, <2>6
<1> QED BY <1>4, <1>5

\* What ends the stream to the client.
Ending(close) == IF close THEN <<Fin>> ELSE <<>>

LEMMA EndingIs ==
    ASSUME NEW close \in BOOLEAN
    PROVE  /\ Ending(close) \in Seq(SentSet)
           /\ close => Len(Ending(close)) = 1 /\ Ending(close)[1].unit = "fin"
           /\ ~close => Ending(close) = <<>>
<1> DEFINE f == Fin
<1>1. f \in SentSet /\ f.unit = "fin"
  BY DEF Fin, SentSet
<1> HIDE DEF f
<1>2. CASE close
  <2>1. Ending(close) = <<f>>
    BY <1>2 DEF Ending, f
  <2>2. <<f>> \in Seq(SentSet) /\ Len(<<f>>) = 1 /\ <<f>>[1].unit = "fin"
    BY <1>1
  <2> QED BY <1>2, <2>1, <2>2
<1>3. CASE ~close
  <2>1. Ending(close) = <<>>
    BY <1>3 DEF Ending
  <2>2. <<>> \in Seq(SentSet)
    OBVIOUS
  <2> QED BY <1>3, <2>1, <2>2
<1> QED BY <1>2, <1>3

LEMMA WriteTyped ==
    ASSUME SessionTyped, NEW rs \in Seq(AnswerSet), NEW close \in BOOLEAN, Write(rs, close)
    PROVE  /\ answered' = answered \o rs /\ answered' \in Seq(AnswerSet)
           /\ closing' = close
           /\ toClient' = toClient \o AllWritten(rs) \o Ending(close)
           /\ toClient' \in Seq(SentSet)
<1>1. answered \in Seq(AnswerSet) /\ toClient \in Seq(SentSet)
  BY DEF SessionTyped
<1>2. answered' = answered \o rs /\ closing' = close
  BY DEF Write
<1>3. toClient' = toClient \o AllWritten(rs) \o Ending(close)
  BY DEF Write, AllWritten, Ending
<1>4. AllWritten(rs) \in Seq(SentSet)
  BY AllWrittenTyped
<1>5. Ending(close) \in Seq(SentSet)
  BY EndingIs
<1>6. (toClient \o AllWritten(rs)) \o Ending(close) \in Seq(SentSet)
  BY <1>1, <1>4, <1>5
<1>7. answered \o rs \in Seq(AnswerSet)
  BY <1>1
<1> QED BY <1>2, <1>3, <1>6, <1>7

\* A client that has not heard anything waits for the one answer, or what it waited for is
\* still under way.
LEMMA WriteAwaited ==
    ASSUME SessionTyped, ~closing, NEW rs \in Seq(AnswerSet), NEW close \in BOOLEAN,
           Write(rs, close), Len(answered) + Len(rs) <= 1,
           Awaited(toClient, closing, answered, head, bodySoFar)
    PROVE  Awaited(toClient', closing', answered', head, bodySoFar)
<1> DEFINE all == AllWritten(rs)
           fin == Ending(close)
           c == toClient \o all \o fin
           m == Len(toClient \o all)
<1>1. answered \in Seq(AnswerSet) /\ toClient \in Seq(SentSet)
  BY DEF SessionTyped
<1>2. answered' = answered \o rs /\ closing' = close /\ toClient' = c
  BY WriteTyped
<1>3. all \in Seq(SentSet)
  BY AllWrittenTyped
<1>4. fin \in Seq(SentSet) /\ (close => Len(fin) = 1 /\ fin[1].unit = "fin") /\ (~close => fin = <<>>)
  BY EndingIs DEF fin
<1>5. Open(toClient, closing) = Len(toClient)
  BY DEF Open
<1> HIDE DEF all, fin
<1> DEFINE before == toClient \o all
<1>6. /\ c \in Seq(SentSet) /\ Len(c) = m + Len(fin) /\ m \in Nat
      /\ \A i \in 1..m : c[i] = (toClient \o all)[i]
      /\ \A i \in 1..Len(fin) : c[m + i] = fin[i]
  <2>1. before \in Seq(SentSet)
    BY <1>1, <1>3
  <2> HIDE DEF before
  <2>2. /\ before \o fin \in Seq(SentSet) /\ Len(before \o fin) = Len(before) + Len(fin)
        /\ Len(before) \in Nat
        /\ \A i \in 1..Len(before) : (before \o fin)[i] = before[i]
        /\ \A i \in 1..Len(fin) : (before \o fin)[Len(before) + i] = fin[i]
    BY <1>4, <2>1, Joined
  <2> QED BY <2>2 DEF before
<1>7. close => c # <<>> /\ c[Len(c)].unit = "fin"
  <2> HIDE DEF c, m
  <2> SUFFICES ASSUME close PROVE c # <<>> /\ c[Len(c)].unit = "fin"
    OBVIOUS
  <2>1. Len(fin) = 1 /\ fin[1].unit = "fin"
    BY <1>4
  <2>2. Len(c) = m + 1 /\ m \in Nat
    BY <1>6, <2>1
  <2>3. c[m + 1] = fin[1]
    BY <1>6, <2>1
  <2> QED BY <2>1, <2>2, <2>3
<1>8. Open(c, close) = m
  <2> HIDE DEF c, m
  <2>1. Len(c) = m + Len(fin) /\ m \in Nat
    BY <1>6
  <2>2. CASE close
    <3>1. Len(fin) = 1
      BY <1>4, <2>2
    <3>2. Len(c) - 1 = m
      BY <2>1, <3>1
    <3> QED BY <2>2, <3>2 DEF Open
  <2>3. CASE ~close
    <3>1. Len(fin) = 0
      BY <1>4, <2>3
    <3>2. Len(c) = m
      BY <2>1, <3>1
    <3> QED BY <2>3, <3>2 DEF Open
  <2> QED BY <2>2, <2>3
<1>9. CASE rs = <<>>
  <2>1. all = <<>> /\ answered \o rs = answered
    <3>1. all = <<>>
      BY <1>9, AllWrittenTyped DEF all
    <3> QED BY <1>1, <1>9, <3>1
  <2>2. m = Len(toClient) /\ \A i \in 1..m : c[i] = toClient[i]
    BY <1>1, <1>6, <2>1
  <2>3. Awaited(c, close, answered, head, bodySoFar)
    <3> HIDE DEF c, m
    <3>1. answered = <<>> => m = 0 /\ head = NoHead /\ bodySoFar = 0
      BY <1>5, <2>2 DEF Awaited
    <3>2. ASSUME answered # <<>>, head = NoHead
          PROVE  /\ bodySoFar = 0 /\ m <= answered[1].size + 1
                 /\ m >= 1 => c[1].unit = "head" /\ c[1].status = answered[1].status
                              /\ c[1].len = answered[1].len
                 /\ \A i \in 2..m : c[i].unit = "body"
      <4>1. /\ bodySoFar = 0 /\ m <= answered[1].size + 1
            /\ m >= 1 => toClient[1].unit = "head" /\ toClient[1].status = answered[1].status
                         /\ toClient[1].len = answered[1].len
            /\ \A i \in 2..m : toClient[i].unit = "body"
        BY <1>5, <2>2, <3>2 DEF Awaited
      <4>2. m \in Nat
        BY <1>6
      <4> QED BY <2>2, <4>1, <4>2
    <3>3. ASSUME answered # <<>>, head # NoHead
          PROVE  /\ head = HeadOf(answered[1]) /\ bodySoFar + m <= answered[1].size
                 /\ \A i \in 1..m : c[i].unit = "body"
      BY <1>5, <2>2, <3>3 DEF Awaited
    <3> QED BY <1>7, <1>8, <3>1, <3>2, <3>3 DEF Awaited
  <2> QED BY <1>2, <2>1, <2>3
<1>10. CASE rs # <<>>
  <2>1. Len(rs) = 1 /\ answered = <<>> /\ rs = <<rs[1]>>
    BY <1>1, <1>10
  <2>2. toClient = <<>> /\ head = NoHead /\ bodySoFar = 0
    BY <1>1, <1>5, <2>1 DEF Awaited
  <2> DEFINE r == rs[1]
             w == Written(r)
  <2>3. r \in AnswerSet
    <3>1. 1 \in 1..Len(rs)
      BY <2>1
    <3> QED BY <3>1
  <2>4. all = w
    BY <2>1, AllWrittenTyped DEF all
  <2>5. /\ w \in Seq(SentSet) /\ Len(w) = r.size + 1 /\ r.size \in Nat
        /\ w[1].unit = "head" /\ w[1].status = r.status /\ w[1].len = r.len
        /\ \A i \in 2..Len(w) : w[i].unit = "body"
    BY <2>3, WrittenIs
  <2> HIDE DEF w
  <2>6. m = r.size + 1 /\ \A i \in 1..m : c[i] = w[i]
    BY <1>1, <1>6, <2>2, <2>4, <2>5
  <2>7. answered \o rs = rs /\ rs # <<>>
    BY <1>10, <2>1
  <2>8. Awaited(c, close, rs, head, bodySoFar)
    <3> HIDE DEF c, m
    <3>1. c[1].unit = "head" /\ c[1].status = r.status /\ c[1].len = r.len
      BY <2>5, <2>6
    <3>2. \A i \in 2..m : c[i].unit = "body"
      BY <2>5, <2>6
    <3>3. m <= r.size + 1
      BY <2>5, <2>6
    <3> QED BY <1>7, <1>8, <2>2, <2>7, <3>1, <3>2, <3>3 DEF Awaited
  <2> QED BY <1>2, <2>7, <2>8
<1> QED BY <1>9, <1>10

\* What the client holds stays true of what the server wrote, whatever the server does.
LEMMA FetchHears ==
    ASSUME SessionInv, UNCHANGED <<once, client>>, Len(answered') <= Len(kinds),
           \/ UNCHANGED <<answered, closing, toClient>>
           \/ \E rs \in Seq(AnswerSet), close \in BOOLEAN : ~closing /\ Write(rs, close)
    PROVE  FetchAwaits' /\ FetchWhole'
<1>1. SessionTyped /\ FetchAwaits /\ FetchWhole
  BY DEF SessionInv
<1>2. once' = once /\ head' = head /\ bodySoFar' = bodySoFar /\ result' = result
  BY DEF client
<1>3. CASE UNCHANGED <<answered, closing, toClient>>
  BY <1>1, <1>2, <1>3 DEF FetchAwaits, FetchWhole
<1>4. ASSUME NEW rs \in Seq(AnswerSet), NEW close \in BOOLEAN, ~closing, Write(rs, close)
      PROVE  FetchAwaits' /\ FetchWhole'
  <2>1. answered' = answered \o rs /\ answered \in Seq(AnswerSet)
    BY <1>1, <1>4, WriteTyped DEF SessionTyped
  <2>2. FetchWhole'
    <3>1. answered # <<>> => answered' # <<>> /\ answered'[1] = answered[1]
      BY <2>1
    <3> QED BY <1>1, <1>2, <3>1 DEF FetchWhole
  <2>3. ASSUME once, result = "pending"
        PROVE  Awaited(toClient', closing', answered', head, bodySoFar)
    <3>1. Len(answered) + Len(rs) <= 1
      <4>1. Len(kinds) = 1
        BY <1>1, <2>3 DEF SessionTyped
      <4>2. Len(answered \o rs) = Len(answered) + Len(rs)
        BY <2>1
      <4> QED BY <2>1, <4>1, <4>2
    <3>2. Awaited(toClient, closing, answered, head, bodySoFar)
      BY <1>1, <2>3 DEF FetchAwaits
    <3> QED BY <1>1, <1>4, <3>1, <3>2, WriteAwaited
  <2> QED BY <1>2, <2>2, <2>3 DEF FetchAwaits
<1> QED BY <1>3, <1>4

\* What the server makes of its buffer b, k responses written or about to be: it refuses the
\* next request, takes it up, waits, or ends the session.
Refuses(b, rs, k) ==
    /\ Write(Append(rs, BadRequest(k + 1)), TRUE) /\ k + 1 <= Len(kinds)
    /\ buffer' = b /\ busy' = 0 /\ stage' = "none"

TakesUp(b, rs, ts, k) ==
    /\ Write(rs, FALSE) /\ busy' = k + 1 /\ k + 1 <= Len(kinds) /\ stage' = "stat"
    /\ buffer' \in Seq(UnitSet) /\ Len(buffer') <= Len(b)
    /\ Carries(buffer' \o ts, k + 1, Len(kinds))

Idles(b, rs) == Write(rs, FALSE) /\ buffer' = b /\ busy' = 0 /\ stage' = "none"

Finishes(b, rs, k) ==
    Write(rs, TRUE) /\ buffer' = b /\ busy' = 0 /\ stage' = "none" /\ k = Len(kinds)

LEMMA ParsedIs ==
    ASSUME NEW b \in Seq(UnitSet)
    PROVE  /\ parseRequest(b) \in {"incomplete", "error", "throws", "request"}
           /\ parseRequest(b) = "request" => FirstLast(b, SelectInSeq(b, LAMBDA u : u.last))
<1> DEFINE end == SelectInSeq(b, LAMBDA u : u.last)
<1>1. end = 0 \/ FirstLast(b, end)
  BY EndOfRequest
<1>2. parseRequest(b) =
        CASE end = 0 /\ Len(b) < MaxUnits -> "incomplete"
          [] end = 0 /\ Len(b) >= MaxUnits -> "error"
          [] end > MaxUnits -> "error"
          [] OTHER -> CASE b[end].kind = "bad" -> "error"
                        [] b[end].kind = "undecodable" -> "throws"
                        [] OTHER -> "request"
  BY DEF parseRequest
<1> HIDE DEF end
<1>3. Len(b) \in Nat /\ MaxUnits \in Nat
  BY SessionBounds
<1>4. CASE end = 0
  <2>1. parseRequest(b) \in {"incomplete", "error"}
    BY <1>2, <1>3, <1>4
  <2> QED BY <2>1
<1>5. CASE FirstLast(b, end)
  <2>1. end # 0
    BY <1>5 DEF FirstLast
  <2>2. parseRequest(b) \in {"error", "throws", "request"}
    BY <1>2, <2>1
  <2> QED BY <1>5, <2>2 DEF end
<1> QED BY <1>1, <1>4, <1>5

\* A chain of units starts with the next request.
LEMMA FirstUnit ==
    ASSUME NEW b \in Seq(UnitSet), NEW ts \in Seq(UnitSet), NEW k \in Nat, NEW n \in Nat,
           Carries(b \o ts, k, n), b # <<>>
    PROVE  b[1].req = k + 1 /\ k + 1 <= n
<1> DEFINE q == b \o ts
<1>1. /\ q \in Seq(UnitSet) /\ Len(q) = Len(b) + Len(ts) /\ Len(b) \in Nat /\ Len(ts) \in Nat
      /\ \A i \in 1..Len(b) : q[i] = b[i]
  BY Joined
<1>2. Carries(q, k, n)
  OBVIOUS
<1> HIDE DEF q
<1>3. 1 \in 1..Len(b) /\ 1 \in 1..Len(q) /\ Len(q) \in 1..Len(q) /\ q # <<>>
  BY <1>1
<1>4. q[1].req = k + 1 /\ q[Len(q)].req = n /\ q[1].req <= q[Len(q)].req
  BY <1>2, <1>3 DEF Carries
<1> QED BY <1>1, <1>3, <1>4

LEMMA BufferProcessed ==
    ASSUME SessionTyped, NEW b \in Seq(UnitSet), NEW rs \in Seq(AnswerSet),
           NEW ts \in Seq(UnitSet), NEW closed \in BOOLEAN, closed => ts = <<>>,
           NEW k \in Nat, Carries(b \o ts, k, Len(kinds)),
           processBuffer(b, rs, closed)
    PROVE  Refuses(b, rs, k) \/ TakesUp(b, rs, ts, k) \/ Idles(b, rs) \/ Finishes(b, rs, k)
<1> DEFINE parsed == parseRequest(b)
           end == SelectInSeq(b, LAMBDA u : u.last)
           n == Len(kinds)
           q == b \o ts
<1>1. parsed \in {"incomplete", "error", "throws", "request"} /\ (parsed = "request" => FirstLast(b, end))
  BY ParsedIs
<1>2. n \in Nat /\ Len(b) \in Nat /\ Len(ts) \in Nat
  BY DEF SessionTyped
<1>3. /\ q \in Seq(UnitSet) /\ Len(q) = Len(b) + Len(ts)
      /\ \A i \in 1..Len(b) : q[i] = b[i]
      /\ \A i \in 1..Len(ts) : q[Len(b) + i] = ts[i]
  BY Joined
<1>4. Carries(q, k, n)
  OBVIOUS
<1>5. b # <<>> => b[1].req = k + 1 /\ k + 1 <= n
  BY <1>2, FirstUnit
<1>6. CASE b # <<>> /\ parsed = "error"
  <2>1. Write(Append(rs, BadRequest(b[1].req)), TRUE) /\ buffer' = b /\ busy' = 0 /\ stage' = "none"
    BY <1>6 DEF processBuffer
  <2> QED BY <1>5, <1>6, <2>1 DEF Refuses
<1>7. CASE b # <<>> /\ parsed = "request"
  <2>1. Write(rs, FALSE) /\ busy' = b[1].req /\ stage' = "stat" /\ buffer' = SubSeq(b, end + 1, Len(b))
    BY <1>7 DEF processBuffer
  <2>2. FirstLast(b, end)
    BY <1>1, <1>7
  <2> HIDE DEF end, q
  <2>3. end \in 1..Len(b) /\ FirstLast(q, end)
    <3>1. end \in 1..Len(b) /\ b[end].last /\ \A i \in 1..(end - 1) : ~b[i].last
      BY <2>2 DEF FirstLast
    <3>2. end \in 1..Len(q) /\ q[end] = b[end]
      BY <1>2, <1>3, <3>1
    <3>3. \A i \in 1..(end - 1) : q[i] = b[i]
      BY <1>2, <1>3, <3>1
    <3> QED BY <3>1, <3>2, <3>3 DEF FirstLast
  <2> DEFINE rest == SubSeq(b, end + 1, Len(b))
             p == rest \o ts
  <2>4. rest \in Seq(UnitSet) /\ Len(rest) = Len(b) - end /\ \A i \in 1..Len(rest) : rest[i] = b[end + i]
    BY <1>2, <2>3
  <2> HIDE DEF rest
  <2>11. rest \in Seq(UnitSet)
    BY <2>4
  <2>5. /\ p \in Seq(UnitSet) /\ Len(p) = Len(rest) + Len(ts)
        /\ \A i \in 1..Len(rest) : p[i] = rest[i]
        /\ \A i \in 1..Len(ts) : p[Len(rest) + i] = ts[i]
    BY <2>11, Joined
  <2> HIDE DEF p
  <2>6. Len(p) = Len(q) - end /\ end \in 1..Len(q)
    BY <1>2, <1>3, <2>3, <2>4, <2>5
  <2>7. ASSUME NEW i \in 1..Len(p)
        PROVE  p[i] = q[end + i]
    <3>1. CASE i <= Len(rest)
      <4>1. i \in 1..Len(rest) /\ end + i \in 1..Len(b)
        BY <1>2, <2>3, <2>4, <2>5, <3>1
      <4> QED BY <1>3, <2>4, <2>5, <4>1
    <3>2. CASE i > Len(rest)
      <4>1. i - Len(rest) \in 1..Len(ts) /\ Len(rest) + (i - Len(rest)) = i
            /\ Len(b) + (i - Len(rest)) = end + i
        BY <1>2, <2>3, <2>4, <2>5, <3>2
      <4> QED BY <1>3, <2>5, <4>1
    <3> QED BY <1>2, <2>3, <2>4, <3>1, <3>2
  <2>8. Carries(p, k + 1, n)
    BY <1>2, <1>3, <1>4, <2>3, <2>5, <2>6, <2>7, NextRequest
  <2>9. buffer' = rest /\ Len(rest) <= Len(b)
    BY <1>2, <2>1, <2>3, <2>4 DEF rest
  <2>10. Carries(buffer' \o ts, k + 1, n)
    BY <2>8, <2>9 DEF p
  <2> QED BY <1>5, <1>7, <2>1, <2>4, <2>9, <2>10 DEF TakesUp
<1>8. CASE b # <<>> /\ parsed \in {"incomplete", "throws"}
  <2>1. Write(rs, FALSE) /\ buffer' = b /\ busy' = 0 /\ stage' = "none"
    BY <1>8 DEF processBuffer
  <2> QED BY <2>1 DEF Idles
<1>9. CASE b = <<>>
  <2>1. Write(rs, closed) /\ buffer' = b /\ busy' = 0 /\ stage' = "none"
    BY <1>9 DEF processBuffer
  <2>2. CASE closed
    <3>1. closed = TRUE /\ b = <<>> /\ ts = <<>>
      BY <1>9, <2>2
    <3>2. q = <<>>
      BY <3>1
    <3>3. k = n
      BY <1>4, <3>2 DEF Carries
    <3> QED BY <2>1, <3>1, <3>3 DEF Finishes
  <2>3. CASE ~closed
    <3>1. closed = FALSE
      BY <2>3
    <3> QED BY <2>1, <3>1 DEF Idles
  <2> QED BY <2>2, <2>3
<1>10. \/ b # <<>> /\ parsed = "error"
       \/ b # <<>> /\ parsed = "request"
       \/ b # <<>> /\ parsed \in {"incomplete", "throws"}
       \/ b = <<>>
  <2> HIDE DEF parsed, end
  <2> QED BY <1>1
<1> HIDE DEF parsed, end, q, n
<1>11. Refuses(b, rs, k) \/ TakesUp(b, rs, ts, k) \/ Idles(b, rs) \/ Finishes(b, rs, k)
  BY <1>6, <1>7, <1>8, <1>9, <1>10
<1> QED BY <1>11

LEMMA RefusalTyped ==
    ASSUME NEW i \in 1..MaxRequests
    PROVE  BadRequest(i) \in AnswerSet /\ BadRequest(i).req = i /\ BadRequest(i).status = 59
BY DEF BadRequest, Response, AnswerSet

\* The responses rs answer what comes next.
InOrder(rs) == \A i \in 1..Len(rs) : rs[i].req = Len(answered) + i /\ rs[i].status # 59

\* What a step is to the conversation: nothing, at most one answer, the end after the last of
\* them, a refusal, or the break of the stream.
ConversationStep ==
    /\ kinds' = kinds
    /\ \/ UNCHANGED <<answered, closing, lost>>
       \/ /\ ~closing /\ UNCHANGED lost
          /\ \E rs \in Seq(AnswerSet) :
               /\ Len(rs) <= 1 /\ InOrder(rs)
               /\ \/ answered' = answered \o rs /\ closing' = FALSE
                  \/ answered' = answered \o rs /\ closing' = TRUE /\ Len(answered) + Len(rs) = Len(kinds)
                  \/ \E r \in AnswerSet :
                       answered' = answered \o Append(rs, r) /\ r.status = 59 /\ closing' = TRUE
       \/ ~closing /\ closing' = TRUE /\ lost' = TRUE /\ UNCHANGED answered

\* What the server does with its buffer keeps the invariant.
LEMMA BufferKeeps ==
    ASSUME SessionInv, ~closing,
           NEW b \in Seq(UnitSet), NEW rs \in Seq(AnswerSet), NEW ts \in Seq(UnitSet),
           NEW closed \in BOOLEAN, closed => ts = <<>>,
           NEW k \in Nat, k = Len(answered) + Len(rs), Len(rs) <= 1, InOrder(rs),
           Carries(b \o ts, k, Len(kinds)), Len(b) <= 2 * MaxUnits,
           processBuffer(b, rs, closed), toServer' = ts,
           peerClosed' \in BOOLEAN, peerClosed' => ts = <<>>,
           UNCHANGED <<kinds, once, file, changes, finSent, lost, client>>
    PROVE  SessionInv' /\ ConversationStep
<1> DEFINE r == BadRequest(k + 1)
           more == Append(rs, r)
<1>1. SessionTyped /\ InTurn
  BY DEF SessionInv
<1>2. /\ kinds \in Seq(Kinds) /\ Len(kinds) \in 1..MaxRequests /\ answered \in Seq(AnswerSet)
      /\ Len(answered) \in Nat /\ Len(rs) \in Nat /\ MaxRequests \in Nat /\ Len(kinds) \in Nat
      /\ kinds' = kinds /\ Len(kinds') = Len(kinds)
  BY <1>1, SessionBounds DEF SessionTyped
<1>3. Refuses(b, rs, k) \/ TakesUp(b, rs, ts, k) \/ Idles(b, rs) \/ Finishes(b, rs, k)
  BY <1>1, BufferProcessed
<1>4. \A i \in 1..Len(answered) : answered[i].req = i /\ answered[i].status # 59
  BY <1>1 DEF InTurn
<1>5. /\ answered \o rs \in Seq(AnswerSet) /\ Len(answered \o rs) = k
      /\ \A i \in 1..Len(answered) : (answered \o rs)[i] = answered[i]
      /\ \A i \in 1..Len(rs) : (answered \o rs)[Len(answered) + i] = rs[i]
  BY <1>2, Joined
<1>6. ASSUME NEW i \in 1..k
      PROVE  (answered \o rs)[i].req = i /\ (answered \o rs)[i].status # 59
  <2>1. CASE i <= Len(answered)
    <3>1. i \in 1..Len(answered)
      BY <1>2, <2>1
    <3> QED BY <1>4, <1>5, <3>1
  <2>2. CASE i > Len(answered)
    <3>1. i - Len(answered) \in 1..Len(rs) /\ Len(answered) + (i - Len(answered)) = i
      BY <1>2, <2>2
    <3> QED BY <1>5, <3>1 DEF InOrder
  <2> QED BY <1>2, <2>1, <2>2
<1>7. k + 1 <= Len(kinds) => r \in AnswerSet /\ more \in Seq(AnswerSet) /\ Len(more) = Len(rs) + 1
  <2> SUFFICES ASSUME k + 1 <= Len(kinds)
               PROVE  r \in AnswerSet /\ more \in Seq(AnswerSet) /\ Len(more) = Len(rs) + 1
    OBVIOUS
  <2>1. k + 1 \in 1..MaxRequests
    BY <1>2
  <2>2. r \in AnswerSet
    BY <2>1, RefusalTyped
  <2> HIDE DEF r
  <2> QED BY <2>2
<1> HIDE DEF r, more
<1>8. /\ b \o ts \in Seq(UnitSet) /\ Len(b \o ts) = Len(b) + Len(ts)
  BY Joined
<1>9. k <= Len(kinds)
  <2> DEFINE q == b \o ts
  <2>1. q \in Seq(UnitSet) /\ Carries(q, k, Len(kinds))
    BY <1>8
  <2> HIDE DEF q
  <2>2. CASE q = <<>>
    BY <1>2, <2>1, <2>2 DEF Carries
  <2>3. CASE q # <<>>
    <3>1. Len(q) \in Nat \ {0} /\ 1 \in 1..Len(q) /\ Len(q) \in 1..Len(q)
      BY <2>1, <2>3
    <3>2. q[1].req = k + 1 /\ q[Len(q)].req = Len(kinds) /\ q[1].req <= q[Len(q)].req
      BY <2>1, <2>3, <3>1 DEF Carries
    <3> QED BY <1>2, <3>2
  <2> QED BY <2>2, <2>3
<1>10. PICK all \in Seq(AnswerSet), close \in BOOLEAN :
          /\ Write(all, close)
          /\ Len(answered) + Len(all) <= Len(kinds)
          /\ ~close => all = rs
  <2>1. CASE Refuses(b, rs, k)
    <3>1. Write(more, TRUE) /\ k + 1 <= Len(kinds)
      BY <2>1 DEF Refuses, more, r
    <3>2. more \in Seq(AnswerSet) /\ Len(answered) + Len(more) <= Len(kinds)
      BY <1>2, <1>7, <3>1
    <3> QED BY <3>1, <3>2
  <2>2. CASE TakesUp(b, rs, ts, k)
    <3>1. Write(rs, FALSE)
      BY <2>2 DEF TakesUp
    <3> QED BY <1>9, <3>1
  <2>3. CASE Idles(b, rs)
    <3>1. Write(rs, FALSE)
      BY <2>3 DEF Idles
    <3> QED BY <1>9, <3>1
  <2>4. CASE Finishes(b, rs, k)
    <3>1. Write(rs, TRUE)
      BY <2>4 DEF Finishes
    <3> QED BY <1>9, <3>1
  <2> QED BY <1>3, <2>1, <2>2, <2>3, <2>4
<1>11. /\ answered' = answered \o all /\ answered' \in Seq(AnswerSet)
       /\ closing' = close /\ toClient' \in Seq(SentSet)
  BY <1>1, <1>10, WriteTyped
<1>12. Len(answered') <= Len(kinds)
  <2>1. Len(answered \o all) = Len(answered) + Len(all)
    BY <1>2
  <2> QED BY <1>10, <1>11, <2>1
<1>13. buffer' \in Seq(UnitSet) /\ Len(buffer') <= 2 * MaxUnits
  <2>1. buffer' = b \/ (buffer' \in Seq(UnitSet) /\ Len(buffer') <= Len(b))
    BY <1>3 DEF Refuses, TakesUp, Idles, Finishes
  <2>2. Len(b) \in Nat /\ 2 * MaxUnits \in Nat
    BY SessionBounds
  <2>3. CASE buffer' = b
    BY <2>3
  <2>4. CASE buffer' \in Seq(UnitSet) /\ Len(buffer') <= Len(b)
    <3>1. Len(buffer') \in Nat
      BY <2>4
    <3> QED BY <2>2, <2>4, <3>1
  <2> QED BY <2>1, <2>3, <2>4
<1>14. busy' \in 0..MaxRequests /\ stage' \in {"none", "stat", "read"} /\ (busy' = 0 <=> stage' = "none")
  <2>1. (busy' = 0 /\ stage' = "none") \/ (busy' = k + 1 /\ k + 1 <= Len(kinds) /\ stage' = "stat")
    BY <1>3 DEF Refuses, TakesUp, Idles, Finishes
  <2> QED BY <1>2, <2>1
<1>15. SessionTyped'
  <2>1. TypeOK'
    <3>1. file' \in FileStates /\ changes' \in 0..MaxChanges /\ finSent' \in BOOLEAN
          /\ result' \in {"pending", "ok", "failed"} /\ closing' \in BOOLEAN /\ lost' \in BOOLEAN
      BY <1>1, <1>11 DEF SessionTyped, TypeOK, client
    <3> QED BY <1>13, <1>14, <3>1 DEF TypeOK
  <2>2. once' \in BOOLEAN /\ (once' => Len(kinds') = 1)
    BY <1>1 DEF SessionTyped
  <2>3. head' \in [status : Nat, len : Nat] /\ bodySoFar' \in Nat
    BY <1>1 DEF SessionTyped, client
  <2> QED BY <1>2, <1>11, <1>13, <2>1, <2>2, <2>3 DEF SessionTyped
<1>16. InTurn'
  <2>1. ASSUME ~close
        PROVE  /\ \A i \in 1..Len(answered') : answered'[i].req = i /\ answered'[i].status # 59
               /\ busy' # 0 => busy' = Len(answered') + 1
               /\ Carries(buffer' \o toServer', Taken', Len(kinds'))
    <3>1. answered' = answered \o rs /\ Len(answered') = k
      BY <1>5, <1>10, <1>11, <2>1
    <3>2. TakesUp(b, rs, ts, k) \/ Idles(b, rs)
      BY <1>3, <1>11, <2>1 DEF Refuses, Finishes, Write
    <3>3. busy' # 0 => busy' = k + 1
      BY <3>2 DEF TakesUp, Idles
    <3>4. Carries(buffer' \o ts, Taken', Len(kinds))
      <4>1. CASE TakesUp(b, rs, ts, k)
        <5>1. Taken' = k + 1
          BY <3>1, <4>1 DEF TakesUp, Taken
        <5> QED BY <4>1, <5>1 DEF TakesUp
      <4>2. CASE Idles(b, rs)
        <5>1. Taken' = k /\ buffer' = b
          BY <3>1, <4>2 DEF Idles, Taken
        <5> QED BY <5>1
      <4> QED BY <3>2, <4>1, <4>2
    <3>5. \A i \in 1..Len(answered') : answered'[i].req = i /\ answered'[i].status # 59
      BY <1>6, <3>1
    <3> QED BY <1>2, <3>1, <3>3, <3>4, <3>5
  <2> QED BY <1>2, <1>11, <1>12, <2>1 DEF InTurn
<1>17. FetchAwaits' /\ FetchWhole'
  <2>1. UNCHANGED <<once, client>>
    OBVIOUS
  <2> QED BY <1>10, <1>12, <2>1, FetchHears
<1>18. ConversationStep
  <2>1. UNCHANGED <<kinds, lost>> /\ ~closing /\ Len(rs) <= 1 /\ InOrder(rs)
    OBVIOUS
  <2>2. CASE Refuses(b, rs, k)
    <3>1. answered' = answered \o Append(rs, r) /\ closing' = TRUE /\ k + 1 <= Len(kinds)
      BY <2>2 DEF Refuses, r, Write
    <3>2. r.status = 59
      <4>1. k + 1 \in 1..MaxRequests
        BY <1>2, <3>1
      <4> QED BY <4>1, RefusalTyped DEF r
    <3> QED BY <1>7, <2>1, <3>1, <3>2 DEF ConversationStep
  <2>3. CASE TakesUp(b, rs, ts, k) \/ Idles(b, rs)
    <3>1. answered' = answered \o rs /\ closing' = FALSE
      BY <2>3 DEF TakesUp, Idles, Write
    <3> QED BY <2>1, <3>1 DEF ConversationStep
  <2>4. CASE Finishes(b, rs, k)
    <3>1. answered' = answered \o rs /\ closing' = TRUE /\ Len(answered) + Len(rs) = Len(kinds)
      BY <2>4 DEF Finishes, Write
    <3> QED BY <2>1, <3>1 DEF ConversationStep
  <2> QED BY <1>3, <2>2, <2>3, <2>4
<1> QED BY <1>15, <1>16, <1>17, <1>18 DEF SessionInv

\* A chunk leaves the stream and joins the buffer.
LEMMA Moved ==
    ASSUME NEW s \in Seq(UnitSet), NEW t \in Seq(UnitSet), NEW k \in 1..Len(t)
    PROVE  LET b == s \o SubSeq(t, 1, k)
               rest == SubSeq(t, k + 1, Len(t))
           IN  b \in Seq(UnitSet) /\ b # <<>> /\ rest \in Seq(UnitSet) /\ b \o rest = s \o t
<1> DEFINE t1 == SubSeq(t, 1, k)
           rest == SubSeq(t, k + 1, Len(t))
           b == s \o t1
<1>1. t1 \in Seq(UnitSet) /\ Len(t1) = k /\ \A i \in 1..k : t1[i] = t[i]
  OBVIOUS
<1>2. rest \in Seq(UnitSet) /\ Len(rest) = Len(t) - k /\ \A i \in 1..Len(rest) : rest[i] = t[k + i]
  OBVIOUS
<1> HIDE DEF t1, rest
<1>10. t1 \in Seq(UnitSet) /\ rest \in Seq(UnitSet)
  BY <1>1, <1>2
<1>3. /\ b \in Seq(UnitSet) /\ Len(b) = Len(s) + k /\ Len(s) \in Nat
      /\ \A i \in 1..Len(s) : b[i] = s[i]
      /\ \A i \in 1..k : b[Len(s) + i] = t1[i]
  <2>1. /\ b \in Seq(UnitSet) /\ Len(b) = Len(s) + Len(t1) /\ Len(s) \in Nat
        /\ \A i \in 1..Len(s) : b[i] = s[i]
        /\ \A i \in 1..Len(t1) : b[Len(s) + i] = t1[i]
    BY <1>10, Joined
  <2> QED BY <1>1, <2>1
<1> HIDE DEF b
<1>11. b \in Seq(UnitSet)
  BY <1>3
<1>4. /\ b \o rest \in Seq(UnitSet) /\ Len(b \o rest) = Len(b) + Len(rest)
      /\ \A i \in 1..Len(b) : (b \o rest)[i] = b[i]
      /\ \A i \in 1..Len(rest) : (b \o rest)[Len(b) + i] = rest[i]
  BY <1>10, <1>11, Joined
<1>5. /\ s \o t \in Seq(UnitSet) /\ Len(s \o t) = Len(s) + Len(t) /\ Len(t) \in Nat
      /\ \A i \in 1..Len(s) : (s \o t)[i] = s[i]
      /\ \A i \in 1..Len(t) : (s \o t)[Len(s) + i] = t[i]
  BY Joined
<1> DEFINE x == b \o rest
           y == s \o t
<1> HIDE DEF x, y
<1>6. x \in Seq(UnitSet) /\ y \in Seq(UnitSet) /\ Len(x) = Len(y)
  BY <1>2, <1>3, <1>4, <1>5 DEF x, y
<1>7. ASSUME NEW i \in 1..Len(x)
      PROVE  x[i] = y[i]
  <2>0. Len(x) = Len(b) + Len(rest) /\ Len(x) \in Nat
    BY <1>4, <1>6 DEF x
  <2>1. CASE i <= Len(s)
    <3>1. i \in 1..Len(s) /\ i \in 1..Len(b)
      BY <1>3, <2>1
    <3> QED BY <1>3, <1>4, <1>5, <3>1 DEF x, y
  <2>2. CASE i > Len(s) /\ i <= Len(b)
    <3> DEFINE j == i - Len(s)
    <3>1. j \in 1..k /\ j \in 1..Len(t) /\ Len(s) + j = i /\ i \in 1..Len(b)
      BY <1>3, <1>5, <2>2
    <3> HIDE DEF j
    <3>2. x[i] = b[i] /\ b[i] = t1[j] /\ t1[j] = t[j] /\ y[i] = t[j]
      BY <1>1, <1>3, <1>4, <1>5, <3>1 DEF x, y
    <3> QED BY <3>2
  <2>3. CASE i > Len(b)
    <3> DEFINE j == i - Len(b)
    <3>1. j \in 1..Len(rest) /\ Len(b) + j = i /\ k + j \in 1..Len(t) /\ Len(s) + (k + j) = i
      BY <1>2, <1>3, <1>5, <2>0, <2>3
    <3> HIDE DEF j
    <3>2. x[i] = rest[j] /\ rest[j] = t[k + j] /\ y[i] = t[k + j]
      BY <1>2, <1>4, <1>5, <3>1 DEF x, y
    <3> QED BY <3>2
  <2> QED BY <1>3, <2>1, <2>2, <2>3
<1>8. x = y
  BY <1>6, <1>7
<1>9. b # <<>>
  BY <1>3
<1> QED BY <1>2, <1>3, <1>8, <1>9 DEF x, y, b, rest, t1

\* When the server writes nothing and stays as open as it was, only what moved is to be shown.
LEMMA QuietServer ==
    ASSUME SessionInv, UNCHANGED <<kinds, once, answered, closing, lost, toClient, client>>, TypeOK',
           buffer' \in Seq(UnitSet), toServer' \in Seq(UnitSet), peerClosed' => toServer' = <<>>,
           ~closing => /\ UNCHANGED busy
                       /\ buffer' \o toServer' = buffer \o toServer
    PROVE  SessionInv' /\ ConversationStep
<1>1. SessionTyped /\ InTurn
  BY DEF SessionInv
<1>2. SessionTyped'
  BY <1>1 DEF SessionTyped, client
<1>3. InTurn'
  <2>1. Len(answered') <= Len(kinds')
    BY <1>1 DEF InTurn
  <2>2. ASSUME ~closing
        PROVE  /\ \A i \in 1..Len(answered') : answered'[i].req = i /\ answered'[i].status # 59
               /\ busy' # 0 => busy' = Len(answered') + 1
               /\ Carries(buffer' \o toServer', Taken', Len(kinds'))
    <3>1. Taken' = Taken
      BY <2>2 DEF Taken
    <3>2. Carries(buffer' \o toServer', Taken', Len(kinds'))
      BY <1>1, <2>2, <3>1 DEF InTurn
    <3> QED BY <1>1, <2>2, <3>2 DEF InTurn
  <2> QED BY <2>1, <2>2 DEF InTurn
<1>4. FetchAwaits' /\ FetchWhole'
  <2>1. UNCHANGED <<once, client>> /\ UNCHANGED <<answered, closing, toClient>>
    OBVIOUS
  <2>2. Len(answered') <= Len(kinds)
    BY <1>1 DEF InTurn
  <2> QED BY <2>1, <2>2, FetchHears
<1>5. ConversationStep
  BY DEF ConversationStep
<1> QED BY <1>2, <1>3, <1>4, <1>5 DEF SessionInv

LEMMA OnDataKeeps == ASSUME SessionInv, onData PROVE SessionInv' /\ ConversationStep
<1>1. SessionTyped /\ InTurn /\ TypeOK
  BY DEF SessionInv, SessionTyped
<1>2. PICK n \in 1..Len(toServer) :
         LET b == buffer \o SubSeq(toServer, 1, n)
         IN  /\ toServer' = SubSeq(toServer, n + 1, Len(toServer))
             /\ IF closing THEN UNCHANGED <<toClient, server>>
                ELSE IF Len(b) > 2 * MaxUnits
                THEN Write(<<BadRequest(b[1].req)>>, TRUE) /\ buffer' = b
                     /\ UNCHANGED <<busy, stage, peerClosed>>
                ELSE IF busy # 0
                THEN buffer' = b /\ UNCHANGED <<busy, closing, peerClosed, stage, answered, toClient>>
                ELSE processBuffer(b, <<>>, peerClosed) /\ UNCHANGED peerClosed
  BY DEF onData
<1>3. UNCHANGED <<kinds, once, lost, file, changes, finSent, client>> /\ toServer # <<>>
  BY DEF onData
<1> DEFINE b == buffer \o SubSeq(toServer, 1, n)
           ts == SubSeq(toServer, n + 1, Len(toServer))
<1>4. b \in Seq(UnitSet) /\ b # <<>> /\ ts \in Seq(UnitSet) /\ b \o ts = buffer \o toServer /\ toServer' = ts
  <2>1. buffer \in Seq(UnitSet) /\ toServer \in Seq(UnitSet)
    BY <1>1 DEF SessionTyped
  <2> QED BY <1>2, <2>1, Moved
<1>5. closing \in BOOLEAN /\ peerClosed = FALSE /\ Len(b) \in Nat /\ 2 * MaxUnits \in Nat
      /\ Len(kinds) \in Nat /\ Len(answered) \in Nat /\ busy \in Nat /\ answered \in Seq(AnswerSet)
      /\ Len(kinds) <= MaxRequests
  <2>1. peerClosed = FALSE
    BY <1>1, <1>3 DEF InTurn, TypeOK
  <2> QED BY <1>1, <1>4, <2>1, SessionBounds DEF SessionTyped, TypeOK
<1>6. ~closing => Carries(b \o ts, Taken, Len(kinds))
  BY <1>1, <1>4 DEF InTurn
<1>7. Taken \in Nat /\ Taken >= Len(answered)
  BY <1>5 DEF Taken
<1>8. CASE closing
  <2>1. UNCHANGED <<toClient, buffer, busy, closing, peerClosed, stage, answered>>
    BY <1>2, <1>8 DEF server
  <2>2. TypeOK'
    BY <1>1, <1>3, <2>1 DEF TypeOK, client
  <2>3. buffer' \in Seq(UnitSet)
    BY <1>1, <2>1 DEF SessionTyped
  <2> QED BY <1>3, <1>4, <1>5, <1>8, <2>1, <2>2, <2>3, QuietServer
<1>9. CASE ~closing /\ Len(b) > 2 * MaxUnits
  <2> DEFINE r == BadRequest(b[1].req)
             rs == <<r>>
  <2>1. Write(rs, TRUE) /\ buffer' = b /\ UNCHANGED <<busy, stage, peerClosed>>
    BY <1>2, <1>9
  <2>2. b[1].req = Taken + 1 /\ Taken + 1 <= Len(kinds)
    BY <1>4, <1>5, <1>6, <1>7, <1>9, FirstUnit
  <2>3. r \in AnswerSet
    <3>1. b[1].req \in 1..MaxRequests
      BY <1>5, <1>7, <2>2, SessionBounds
    <3> QED BY <3>1, RefusalTyped
  <2> HIDE DEF r
  <2>4. rs \in Seq(AnswerSet) /\ Len(rs) = 1
    BY <2>3
  <2> HIDE DEF rs
  <2>5. /\ answered' = answered \o rs /\ answered' \in Seq(AnswerSet)
        /\ closing' = TRUE /\ toClient' \in Seq(SentSet)
    BY <1>1, <2>1, <2>4, WriteTyped
  <2>6. Len(answered') <= Len(kinds)
    <3>1. Len(answered \o rs) = Len(answered) + 1
      <4>1. answered \in Seq(AnswerSet) /\ rs \in Seq(AnswerSet)
        BY <1>5, <2>4
      <4>2. Len(answered \o rs) = Len(answered) + Len(rs)
        BY <4>1
      <4> QED BY <2>4, <4>2
    <3> QED BY <1>5, <1>7, <2>2, <2>5, <3>1
  <2>7. FetchAwaits' /\ FetchWhole'
    <3>1. UNCHANGED <<once, client>>
      BY <1>3
    <3> QED BY <1>9, <2>1, <2>4, <2>6, <3>1, FetchHears
  <2>8. SessionTyped'
    <3>1. TypeOK'
      BY <1>1, <1>3, <2>1, <2>5 DEF TypeOK, client
    <3> QED BY <1>1, <1>3, <1>4, <2>1, <2>5, <3>1 DEF SessionTyped, client
  <2>9. InTurn'
    BY <1>3, <1>5, <2>1, <2>5, <2>6 DEF InTurn
  <2>10. ConversationStep
    <3> DEFINE none == <<>>
    <3>1. none \in Seq(AnswerSet) /\ Len(none) <= 1 /\ InOrder(none) /\ Append(none, r) = rs
      BY <2>3 DEF InOrder, rs
    <3>2. r.status = 59
      <4>1. b[1].req \in 1..MaxRequests
        BY <1>5, <1>7, <2>2, SessionBounds
      <4> QED BY <4>1, RefusalTyped DEF r
    <3> HIDE DEF none
    <3>3. kinds' = kinds /\ UNCHANGED lost /\ closing' = TRUE /\ answered' = answered \o Append(none, r)
      BY <1>3, <2>5, <3>1
    <3> QED BY <1>9, <2>3, <3>1, <3>2, <3>3 DEF ConversationStep
  <2> QED BY <2>7, <2>8, <2>9, <2>10 DEF SessionInv
<1>10. CASE ~closing /\ ~(Len(b) > 2 * MaxUnits) /\ busy # 0
  <2>1. buffer' = b /\ UNCHANGED <<busy, closing, peerClosed, stage, answered, toClient>>
    BY <1>2, <1>10
  <2>2. Len(b) <= 2 * MaxUnits
    BY <1>5, <1>10
  <2>3. TypeOK'
    BY <1>1, <1>3, <2>1, <2>2 DEF TypeOK, client
  <2> QED BY <1>3, <1>4, <1>5, <2>1, <2>3, QuietServer
<1>11. CASE ~closing /\ ~(Len(b) > 2 * MaxUnits) /\ busy = 0
  <2>1. processBuffer(b, <<>>, peerClosed) /\ peerClosed' = peerClosed
    BY <1>2, <1>11
  <2>2. Len(b) <= 2 * MaxUnits
    BY <1>5, <1>11
  <2> DEFINE rs == <<>>
             k == Len(answered)
  <2>3. rs \in Seq(AnswerSet) /\ Len(rs) <= 1 /\ InOrder(rs) /\ k \in Nat /\ k = Len(answered) + Len(rs)
    BY <1>5 DEF InOrder
  <2>4. Taken = k
    BY <1>11 DEF Taken
  <2>5. processBuffer(b, rs, FALSE)
    BY <1>5, <2>1
  <2> HIDE DEF rs, k, b, ts
  <2>6. peerClosed' \in BOOLEAN /\ (peerClosed' => ts = <<>>)
    BY <1>5, <2>1
  <2>7. Carries(b \o ts, k, Len(kinds))
    BY <1>6, <1>11, <2>4
  <2>8. UNCHANGED <<kinds, once, file, changes, finSent, lost, client>>
    BY <1>3
  <2> QED BY <1>4, <1>11, <2>2, <2>3, <2>5, <2>6, <2>7, <2>8, BufferKeeps
<1> QED BY <1>5, <1>8, <1>9, <1>10, <1>11

LEMMA OnEndKeeps == ASSUME SessionInv, onEnd PROVE SessionInv' /\ ConversationStep
<1>1. SessionTyped /\ InTurn /\ TypeOK
  BY DEF SessionInv, SessionTyped
<1>2. /\ finSent /\ toServer = <<>> /\ ~peerClosed /\ peerClosed' = TRUE
      /\ IF busy # 0 \/ closing
         THEN UNCHANGED <<buffer, busy, closing, stage, answered, toClient>>
         ELSE processBuffer(buffer, <<>>, TRUE)
  BY DEF onEnd
<1>3. UNCHANGED <<kinds, once, lost, file, changes, toServer, finSent, client>>
  BY DEF onEnd
<1>4. /\ buffer \in Seq(UnitSet) /\ toServer \in Seq(UnitSet) /\ toServer' = <<>>
      /\ Len(answered) \in Nat /\ busy \in Nat
  BY <1>1, <1>2, <1>3 DEF SessionTyped, TypeOK
<1>5. CASE busy # 0 \/ closing
  <2>1. UNCHANGED <<buffer, busy, closing, stage, answered, toClient>>
    BY <1>2, <1>5
  <2>2. TypeOK'
    BY <1>1, <1>2, <1>3, <2>1 DEF TypeOK, client
  <2> QED BY <1>3, <1>4, <2>1, <2>2, QuietServer
<1>6. CASE busy = 0 /\ ~closing
  <2> DEFINE b == buffer
             ts == toServer
             rs == <<>>
             k == Len(answered)
  <2>1. processBuffer(b, rs, TRUE)
    BY <1>2, <1>6
  <2>2. Len(b) <= 2 * MaxUnits
    BY <1>1, <1>6 DEF TypeOK
  <2>3. rs \in Seq(AnswerSet) /\ Len(rs) <= 1 /\ InOrder(rs) /\ k \in Nat /\ k = Len(answered) + Len(rs)
    BY <1>4 DEF InOrder
  <2>4. Carries(b \o ts, k, Len(kinds))
    BY <1>1, <1>6 DEF InTurn, Taken
  <2>5. b \in Seq(UnitSet) /\ ts \in Seq(UnitSet) /\ ts = <<>> /\ toServer' = ts
    BY <1>2, <1>4
  <2>6. peerClosed' \in BOOLEAN
    BY <1>2
  <2>7. UNCHANGED <<kinds, once, file, changes, finSent, lost, client>>
    BY <1>3
  <2> HIDE DEF b, ts, rs, k
  <2> QED BY <1>6, <2>1, <2>2, <2>3, <2>4, <2>5, <2>6, <2>7, BufferKeeps
<1> QED BY <1>5, <1>6

\* The handler answers the request it is on.
LEMMA AnswerKeeps ==
    ASSUME SessionInv, stage # "none", NEW status, NEW len, NEW size,
           status \in {20, 50, 51}, len \in Nat, len = size, status # 20 => size = 0,
           Answer(status, len, size)
    PROVE  SessionInv' /\ ConversationStep
<1>1. SessionTyped /\ InTurn /\ TypeOK
  BY DEF SessionInv, SessionTyped
<1>2. UNCHANGED <<kinds, once, lost, file, changes, toServer, finSent, client, peerClosed>>
  BY DEF Answer
<1>3. /\ buffer \in Seq(UnitSet) /\ toServer \in Seq(UnitSet) /\ Len(answered) \in Nat
      /\ busy \in 1..MaxRequests
  BY <1>1 DEF SessionTyped, TypeOK
<1>4. CASE closing
  <2>1. busy' = 0 /\ stage' = "none" /\ UNCHANGED <<buffer, closing, answered, toClient>>
    BY <1>4 DEF Answer
  <2>2. TypeOK'
    BY <1>1, <1>2, <2>1, SessionBounds DEF TypeOK, client
  <2>3. peerClosed' => toServer' = <<>>
    BY <1>1, <1>2 DEF InTurn
  <2> QED BY <1>2, <1>3, <1>4, <2>1, <2>2, <2>3, QuietServer
<1>5. CASE ~closing
  <2> DEFINE r == Response(busy, status, len, size)
             rs == <<r>>
             b == buffer
             ts == toServer
             k == Len(answered) + 1
  <2>1. processBuffer(b, rs, peerClosed)
    BY <1>5 DEF Answer
  <2>2. Len(b) <= 2 * MaxUnits
    BY <1>1, <1>5 DEF TypeOK
  <2>3. busy = Len(answered) + 1 /\ Taken = k
    BY <1>1, <1>3, <1>5 DEF InTurn, Taken
  <2>4. r \in AnswerSet /\ r.req = Len(answered) + 1 /\ r.status # 59
    BY <1>3, <2>3 DEF AnswerSet, Response
  <2> HIDE DEF r
  <2>5. rs \in Seq(AnswerSet) /\ Len(rs) = 1 /\ Len(rs) <= 1 /\ rs[1] = r
    BY <2>4
  <2> HIDE DEF rs
  <2>6. InOrder(rs) /\ k \in Nat /\ k = Len(answered) + Len(rs)
    BY <1>3, <2>4, <2>5 DEF InOrder
  <2>7. Carries(b \o ts, k, Len(kinds))
    BY <1>1, <1>5, <2>3 DEF InTurn
  <2>8. b \in Seq(UnitSet) /\ ts \in Seq(UnitSet) /\ toServer' = ts
    BY <1>2, <1>3
  <2>9. peerClosed \in BOOLEAN /\ peerClosed' = peerClosed /\ (peerClosed => ts = <<>>)
    BY <1>1, <1>2 DEF InTurn, TypeOK
  <2>10. UNCHANGED <<kinds, once, file, changes, finSent, lost, client>>
    BY <1>2
  <2> DEFINE closed == peerClosed
  <2>11. closed \in BOOLEAN /\ (closed => ts = <<>>) /\ processBuffer(b, rs, closed)
         /\ peerClosed' \in BOOLEAN /\ (peerClosed' => ts = <<>>)
    BY <2>1, <2>9
  <2> HIDE DEF b, ts, k, closed
  <2> QED BY <1>5, <2>2, <2>5, <2>6, <2>7, <2>8, <2>10, <2>11, BufferKeeps
<1> QED BY <1>4, <1>5

LEMMA HandlerKeeps == ASSUME SessionInv, statFile \/ readFile PROVE SessionInv' /\ ConversationStep
<1>1. SessionTyped /\ InTurn /\ TypeOK
  BY DEF SessionInv, SessionTyped
<1>2. CASE statFile
  <2>1. stage = "stat"
    BY <1>2 DEF statFile
  <2>2. CASE Answer(51, 0, 0)
    BY <2>1, <2>2, AnswerKeeps
  <2>3. CASE Answer(50, 0, 0)
    BY <2>1, <2>3, AnswerKeeps
  <2>4. CASE stage' = "read" /\ UNCHANGED <<kinds, once, lost, file, changes, transport, buffer, busy, closing,
                                             peerClosed, answered, client>>
    <3>1. UNCHANGED <<toServer, finSent, toClient>>
      BY <2>4 DEF transport
    <3>2. TypeOK'
      BY <1>1, <2>1, <2>4, <3>1 DEF TypeOK, client
    <3>3. buffer' \in Seq(UnitSet) /\ toServer' \in Seq(UnitSet) /\ (peerClosed' => toServer' = <<>>)
      BY <1>1, <2>4, <3>1 DEF SessionTyped, InTurn
    <3> QED BY <2>4, <3>1, <3>2, <3>3, QuietServer
  <2> QED BY <1>2, <2>2, <2>3, <2>4 DEF statFile
<1>3. CASE readFile
  <2>1. stage = "read"
    BY <1>3 DEF readFile
  <2>2. CASE Answer(50, 0, 0)
    BY <2>1, <2>2, AnswerKeeps
  <2>3. CASE file # Absent /\ Answer(20, file, file)
    <3>1. file \in Nat
      BY <1>1, <2>3, SessionBounds DEF TypeOK, FileStates
    <3> QED BY <2>1, <2>3, <3>1, AnswerKeeps
  <2> QED BY <1>3, <2>2, <2>3 DEF readFile
<1> QED BY <1>2, <1>3

LEMMA ChangeFileKeeps == ASSUME SessionInv, changeFile PROVE SessionInv' /\ ConversationStep
<1>1. SessionTyped /\ InTurn /\ TypeOK
  BY DEF SessionInv, SessionTyped
<1>2. UNCHANGED <<kinds, once, lost, toServer, finSent, toClient, client>> /\ UNCHANGED server
  BY DEF changeFile, transport
<1>3. UNCHANGED <<buffer, busy, closing, peerClosed, stage, answered>>
  BY <1>2 DEF server
<1>4. TypeOK'
  BY <1>1, <1>2, <1>3, SessionBounds DEF TypeOK, client, changeFile
<1>5. buffer' \in Seq(UnitSet) /\ toServer' \in Seq(UnitSet) /\ (peerClosed' => toServer' = <<>>)
  BY <1>1, <1>2, <1>3 DEF SessionTyped, InTurn
<1> QED BY <1>2, <1>3, <1>4, <1>5, QuietServer

LEMMA EndStreamKeeps == ASSUME SessionInv, endStream PROVE SessionInv' /\ ConversationStep
<1>1. SessionTyped /\ InTurn /\ TypeOK
  BY DEF SessionInv, SessionTyped
<1>2. UNCHANGED <<kinds, once, lost, file, changes, toServer, toClient, client>> /\ UNCHANGED server
      /\ finSent' = TRUE
  BY DEF endStream
<1>3. UNCHANGED <<buffer, busy, closing, peerClosed, stage, answered>>
  BY <1>2 DEF server
<1>4. TypeOK'
  BY <1>1, <1>2, <1>3 DEF TypeOK, client
<1>5. buffer' \in Seq(UnitSet) /\ toServer' \in Seq(UnitSet) /\ (peerClosed' => toServer' = <<>>)
  BY <1>1, <1>2, <1>3 DEF SessionTyped, InTurn
<1> QED BY <1>2, <1>3, <1>4, <1>5, QuietServer

\* The server and the stream to it are as they were: only what the client holds is to be shown.
LEMMA QuietClient ==
    ASSUME SessionInv, UNCHANGED <<kinds, once, file, changes, lost, toServer, finSent, server>>,
           toClient' \in Seq(SentSet), head' \in [status : Nat, len : Nat], bodySoFar' \in Nat,
           result' \in {"pending", "ok", "failed"}, FetchAwaits', FetchWhole'
    PROVE  SessionInv' /\ ConversationStep
<1>1. SessionTyped /\ InTurn /\ TypeOK
  BY DEF SessionInv, SessionTyped
<1>2. UNCHANGED <<buffer, busy, closing, peerClosed, stage, answered>>
  BY DEF server
<1>3. TypeOK'
  BY <1>1, <1>2 DEF TypeOK
<1>4. SessionTyped'
  BY <1>1, <1>2, <1>3 DEF SessionTyped
<1>5. InTurn'
  <2>1. Taken' = Taken
    BY <1>2 DEF Taken
  <2> QED BY <1>1, <1>2, <2>1 DEF InTurn
<1>6. ConversationStep
  BY <1>2 DEF ConversationStep
<1> QED BY <1>4, <1>5, <1>6 DEF SessionInv

LEMMA TimeoutKeeps == ASSUME SessionInv, fetchTimeout PROVE SessionInv' /\ ConversationStep
<1>1. SessionTyped /\ UNCHANGED <<toServer, finSent, toClient>> /\ result' = "failed"
      /\ UNCHANGED <<kinds, once, lost, file, changes, server, head, bodySoFar>>
  BY DEF SessionInv, fetchTimeout, transport
<1>2. FetchAwaits' /\ FetchWhole'
  BY <1>1 DEF FetchAwaits, FetchWhole
<1>3. toClient' \in Seq(SentSet) /\ head' \in [status : Nat, len : Nat] /\ bodySoFar' \in Nat
  BY <1>1 DEF SessionTyped
<1> QED BY <1>1, <1>2, <1>3, QuietClient

\* What fetchOnce makes of the unit u at the head of what is under way.
LEMMA FetchHearsUnit ==
    ASSUME SessionInv, once, result = "pending", toClient # <<>>,
           UNCHANGED <<once, answered, closing>>, toClient' = Tail(toClient),
           NEW u, u = toClient[1], u.unit # "fin",
           NEW h, h = parseResponseHead(u),
           NEW n, n = IF u.unit = "body" THEN bodySoFar + 1 ELSE bodySoFar,
           head' = h, bodySoFar' = n, result' = Advanced(h, n)
    PROVE  /\ FetchAwaits' /\ FetchWhole'
           /\ h \in [status : Nat, len : Nat] /\ n \in Nat /\ result' \in {"pending", "ok"}
<1> DEFINE m == Open(toClient, closing)
           c == Tail(toClient)
           a == answered[1]
<1>1. SessionTyped /\ closing \in BOOLEAN /\ Awaited(toClient, closing, answered, head, bodySoFar)
  BY DEF SessionInv, FetchAwaits, SessionTyped, TypeOK
<1>2. toClient \in Seq(SentSet) /\ answered \in Seq(AnswerSet) /\ bodySoFar \in Nat
      /\ head \in [status : Nat, len : Nat]
  BY <1>1 DEF SessionTyped
<1>3. Len(toClient) \in Nat \ {0} /\ c \in Seq(SentSet) /\ Len(c) = Len(toClient) - 1
      /\ \A i \in 1..Len(c) : c[i] = toClient[i + 1]
  BY <1>2
<1>4. m \in Nat \ {0} /\ m <= Len(toClient) /\ Open(c, closing) = m - 1
      /\ (closing => c # <<>> /\ c[Len(c)].unit = "fin")
  <2>1. CASE closing
    <3>1. toClient[Len(toClient)].unit = "fin"
      BY <1>1, <2>1 DEF Awaited
    <3>2. Len(toClient) # 1
      BY <3>1
    <3>3. Len(c) \in 1..Len(c) /\ Len(c) + 1 = Len(toClient)
      BY <1>3, <3>2
    <3>4. c[Len(c)] = toClient[Len(toClient)] /\ c # <<>>
      <4> HIDE DEF c
      <4>1. c[Len(c)] = toClient[Len(c) + 1]
        BY <1>3, <3>3
      <4> QED BY <3>3, <4>1
    <3>5. m = Len(toClient) - 1 /\ Open(c, closing) = Len(c) - 1
      BY <2>1 DEF Open
    <3> QED BY <1>3, <3>1, <3>2, <3>4, <3>5
  <2>2. CASE ~closing
    <3>1. m = Len(toClient) /\ Open(c, closing) = Len(c)
      BY <2>2 DEF Open
    <3> QED BY <1>3, <2>2, <3>1
  <2> QED BY <1>1, <2>1, <2>2
<1>5. answered # <<>>
  BY <1>1, <1>4 DEF Awaited
<1>6. a \in AnswerSet
  BY <1>2, <1>5
<1>7. /\ a.status \in {20, 50, 51, 59} /\ a.len \in Nat /\ a.size \in Nat /\ a.len = a.size
      /\ (a.status # 20 => a.size = 0)
  BY <1>6 DEF AnswerSet
<1>8. HeadOf(a) \in [status : Nat, len : Nat] /\ HeadOf(a) # NoHead
      /\ HeadOf(a).status = a.status /\ HeadOf(a).len = a.len
  BY <1>7 DEF HeadOf, NoHead
<1> HIDE DEF m, c, a
<1>9. h = HeadOf(a) /\ n \in Nat /\ n + (m - 1) <= a.size /\ \A i \in 2..m : toClient[i].unit = "body"
  <2>1. CASE head = NoHead
    <3>1. /\ bodySoFar = 0 /\ m <= a.size + 1
          /\ u.unit = "head" /\ u.status = a.status /\ u.len = a.len
          /\ \A i \in 2..m : toClient[i].unit = "body"
      BY <1>1, <1>4, <1>5, <2>1 DEF Awaited, m, a
    <3>2. h = HeadOf(a)
      BY <2>1, <3>1 DEF parseResponseHead, HeadOf
    <3>3. n = 0
      BY <3>1
    <3> QED BY <1>4, <1>7, <3>1, <3>2, <3>3
  <2>2. CASE head # NoHead
    <3>1. /\ head = HeadOf(a) /\ bodySoFar + m <= a.size
          /\ \A i \in 1..m : toClient[i].unit = "body"
      BY <1>1, <1>5, <2>2 DEF Awaited, m, a
    <3>2. u.unit = "body"
      BY <1>4, <3>1
    <3>3. n = bodySoFar + 1 /\ h = head
      BY <2>2, <3>2 DEF parseResponseHead
    <3> QED BY <1>2, <1>4, <1>7, <3>1, <3>3
  <2> QED BY <2>1, <2>2
<1>10. result' = IF a.status # 20 \/ n >= a.len THEN "ok" ELSE "pending"
  BY <1>8, <1>9 DEF Advanced
<1>11. n <= a.size
  BY <1>4, <1>7, <1>9
<1>12. FetchWhole'
  <2>1. ASSUME result' = "ok"
        PROVE  n = a.size
    BY <1>7, <1>9, <1>10, <1>11, <2>1
  <2>2. answered' = answered /\ head' = HeadOf(a) /\ bodySoFar' = n
    BY <1>9
  <2> QED BY <1>5, <2>1, <2>2 DEF FetchWhole, HeadOf, a
<1>13. FetchAwaits'
  <2>1. \A i \in 1..(m - 1) : c[i].unit = "body"
    <3> SUFFICES ASSUME NEW i \in 1..(m - 1) PROVE c[i].unit = "body"
      OBVIOUS
    <3>1. i \in 1..Len(c) /\ i + 1 \in 2..m
      BY <1>3, <1>4
    <3> QED BY <1>3, <1>9, <3>1
  <2>2. Awaited(c, closing, answered, h, n)
    BY <1>4, <1>5, <1>8, <1>9, <2>1 DEF Awaited, a
  <2> QED BY <2>2 DEF FetchAwaits, c
<1> QED BY <1>8, <1>9, <1>10, <1>12, <1>13

LEMMA ResponseDataKeeps == ASSUME SessionInv, onResponseData PROVE SessionInv' /\ ConversationStep
<1> DEFINE u == Head(toClient)
           h == parseResponseHead(u)
           n == IF u.unit = "body" THEN bodySoFar + 1 ELSE bodySoFar
<1>1. SessionTyped /\ FetchAwaits /\ FetchWhole /\ TypeOK
  BY DEF SessionInv, SessionTyped
<1>2. /\ toClient # <<>> /\ toClient' = Tail(toClient)
      /\ IF ~once \/ result # "pending" THEN UNCHANGED client
         ELSE IF u.unit = "fin" THEN result' = onStreamEnd /\ UNCHANGED <<head, bodySoFar>>
         ELSE head' = h /\ bodySoFar' = n /\ result' = Advanced(h, n)
      /\ UNCHANGED <<kinds, once, lost, file, changes, toServer, finSent, server>>
  BY DEF onResponseData
<1>3. toClient' \in Seq(SentSet) /\ u = toClient[1]
  BY <1>1, <1>2 DEF SessionTyped
<1>4. UNCHANGED <<once, answered, closing>>
  BY <1>2 DEF server
<1>5. head \in [status : Nat, len : Nat] /\ bodySoFar \in Nat /\ result \in {"pending", "ok", "failed"}
  BY <1>1 DEF SessionTyped, TypeOK
<1>6. CASE ~once \/ result # "pending"
  <2>1. UNCHANGED <<head, bodySoFar, result>>
    BY <1>2, <1>6 DEF client
  <2>2. FetchAwaits' /\ FetchWhole'
    BY <1>1, <1>4, <1>6, <2>1 DEF FetchAwaits, FetchWhole
  <2> QED BY <1>2, <1>3, <1>5, <2>1, <2>2, QuietClient
<1>7. CASE once /\ result = "pending" /\ u.unit = "fin"
  <2>1. result' = onStreamEnd /\ UNCHANGED <<head, bodySoFar>>
    BY <1>2, <1>7
  <2>2. Awaited(toClient, closing, answered, head, bodySoFar)
    BY <1>1, <1>7 DEF FetchAwaits
  <2>3. result' \in {"ok", "failed"}
    BY <2>1 DEF onStreamEnd
  <2>4. FetchAwaits'
    BY <2>3 DEF FetchAwaits
  <2>5. ASSUME result' = "ok"
        PROVE  /\ answered # <<>> /\ head = HeadOf(answered[1]) /\ bodySoFar = answered[1].size
    <3>1. head # NoHead /\ bodySoFar = head.len
      BY <2>1, <2>5 DEF onStreamEnd
    <3>2. answered # <<>> /\ head = HeadOf(answered[1])
      BY <2>2, <3>1 DEF Awaited
    <3>3. answered[1] \in AnswerSet
      BY <1>1, <3>2 DEF SessionTyped
    <3> QED BY <3>1, <3>2, <3>3 DEF AnswerSet, HeadOf
  <2>6. FetchWhole'
    BY <1>4, <2>1, <2>5 DEF FetchWhole, HeadOf
  <2> QED BY <1>2, <1>3, <1>5, <2>1, <2>3, <2>4, <2>6, QuietClient
<1>8. CASE once /\ result = "pending" /\ u.unit # "fin"
  <2>1. head' = h /\ bodySoFar' = n /\ result' = Advanced(h, n)
    BY <1>2, <1>8
  <2> HIDE DEF u
  <2>2. /\ FetchAwaits' /\ FetchWhole'
        /\ h \in [status : Nat, len : Nat] /\ n \in Nat /\ result' \in {"pending", "ok"}
    BY <1>2, <1>3, <1>4, <1>8, <2>1, FetchHearsUnit
  <2> QED BY <1>2, <1>3, <2>1, <2>2, QuietClient
<1> QED BY <1>6, <1>7, <1>8

\* The stream breaks: the client still gets the first k units, and an end.
LEMMA CutKeeps == ASSUME SessionInv, cut PROVE SessionInv' /\ ConversationStep
<1>1. SessionTyped /\ InTurn /\ FetchAwaits /\ FetchWhole /\ TypeOK
  BY DEF SessionInv, SessionTyped
<1>2. /\ ~closing /\ closing' = TRUE /\ lost' = TRUE /\ toServer' = <<>> /\ finSent' = TRUE
      /\ UNCHANGED <<kinds, once, file, changes, buffer, busy, peerClosed, stage, answered, client>>
  BY DEF cut
<1>3. UNCHANGED <<head, bodySoFar, result>>
  BY <1>2 DEF client
<1>4. PICK k \in 0..Len(toClient) : toClient' = SubSeq(toClient, 1, k) \o <<Fin>>
  BY DEF cut
<1> DEFINE kept == SubSeq(toClient, 1, k)
           fin == Ending(TRUE)
           c == kept \o fin
<1>5. toClient \in Seq(SentSet) /\ Len(toClient) \in Nat
  BY <1>1 DEF SessionTyped
<1>6. kept \in Seq(SentSet) /\ Len(kept) = k /\ \A i \in 1..k : kept[i] = toClient[i]
  BY <1>5
<1>7. fin \in Seq(SentSet) /\ Len(fin) = 1 /\ fin[1].unit = "fin" /\ toClient' = c
  BY <1>4, EndingIs DEF Ending
<1> HIDE DEF kept, fin
<1>8. /\ c \in Seq(SentSet) /\ Len(c) = Len(kept) + Len(fin)
      /\ \A i \in 1..Len(kept) : c[i] = kept[i]
      /\ \A i \in 1..Len(fin) : c[Len(kept) + i] = fin[i]
  <2>1. kept \in Seq(SentSet) /\ fin \in Seq(SentSet)
    BY <1>6, <1>7
  <2> QED BY <2>1, Joined
<1> HIDE DEF c
<1>9. Len(c) = k + 1 /\ c # <<>> /\ c[k + 1].unit = "fin" /\ \A i \in 1..k : c[i] = toClient[i]
  BY <1>6, <1>7, <1>8
<1>10. TypeOK'
  BY <1>1, <1>2, <1>3 DEF TypeOK
<1>11. SessionTyped'
  <2>1. toServer' \in Seq(UnitSet) /\ toClient' \in Seq(SentSet)
    BY <1>2, <1>7, <1>8
  <2> QED BY <1>1, <1>2, <1>3, <1>10, <2>1 DEF SessionTyped
<1>12. InTurn'
  BY <1>1, <1>2 DEF InTurn
<1>13. FetchWhole'
  BY <1>1, <1>2, <1>3 DEF FetchWhole
<1>14. ASSUME once, result = "pending"
       PROVE  Awaited(c, TRUE, answered, head, bodySoFar)
  <2> DEFINE m == Len(toClient)
  <2>1. Awaited(toClient, closing, answered, head, bodySoFar) /\ Open(toClient, closing) = m
    BY <1>1, <1>2, <1>14 DEF FetchAwaits, Open
  <2>2. Open(c, TRUE) = k /\ k \in Nat /\ k <= m /\ m \in Nat
    BY <1>5, <1>9 DEF Open
  <2> HIDE DEF m
  <2>3. answered = <<>> => k = 0 /\ head = NoHead /\ bodySoFar = 0
    BY <2>1, <2>2 DEF Awaited
  <2>4. ASSUME answered # <<>>
        PROVE  answered[1].size \in Nat
    <3>1. answered[1] \in AnswerSet
      BY <1>1, <2>4 DEF SessionTyped
    <3> QED BY <3>1 DEF AnswerSet
  <2>5. ASSUME answered # <<>>, head = NoHead
        PROVE  /\ bodySoFar = 0 /\ k <= answered[1].size + 1
               /\ k >= 1 => c[1].unit = "head" /\ c[1].status = answered[1].status
                            /\ c[1].len = answered[1].len
               /\ \A i \in 2..k : c[i].unit = "body"
    <3>1. /\ bodySoFar = 0 /\ m <= answered[1].size + 1
          /\ m >= 1 => toClient[1].unit = "head" /\ toClient[1].status = answered[1].status
                       /\ toClient[1].len = answered[1].len
          /\ \A i \in 2..m : toClient[i].unit = "body"
      BY <2>1, <2>5 DEF Awaited
    <3>2. k <= answered[1].size + 1
      BY <2>2, <2>4, <2>5, <3>1
    <3> QED BY <1>9, <2>2, <3>1, <3>2
  <2>6. ASSUME answered # <<>>, head # NoHead
        PROVE  /\ head = HeadOf(answered[1]) /\ bodySoFar + k <= answered[1].size
               /\ \A i \in 1..k : c[i].unit = "body"
    <3>1. /\ head = HeadOf(answered[1]) /\ bodySoFar + m <= answered[1].size
          /\ \A i \in 1..m : toClient[i].unit = "body"
      BY <2>1, <2>6 DEF Awaited
    <3>2. bodySoFar \in Nat
      BY <1>1 DEF SessionTyped
    <3>3. bodySoFar + k <= answered[1].size
      BY <2>2, <2>4, <2>6, <3>1, <3>2
    <3> QED BY <1>9, <2>2, <3>1, <3>3
  <2> QED BY <1>9, <2>2, <2>3, <2>5, <2>6 DEF Awaited
<1>15. FetchAwaits'
  BY <1>2, <1>3, <1>7, <1>14 DEF FetchAwaits
<1>16. ConversationStep
  BY <1>2 DEF ConversationStep
<1> QED BY <1>11, <1>12, <1>13, <1>15, <1>16 DEF SessionInv

LEMMA SessionSteps == SessionInv /\ [Next]_vars => SessionInv' /\ ConversationStep
<1> SUFFICES ASSUME SessionInv, [Next]_vars PROVE SessionInv' /\ ConversationStep
  OBVIOUS
<1>1. CASE UNCHANGED vars
  <2>1. UNCHANGED <<kinds, once, file, changes, lost, toServer, finSent, toClient, client, server>>
    BY <1>1 DEF vars, transport
  <2>2. UNCHANGED <<head, bodySoFar, result>> /\ UNCHANGED <<answered, closing>>
    BY <2>1 DEF client, server
  <2>3. FetchAwaits' /\ FetchWhole'
    BY <2>1, <2>2 DEF SessionInv, FetchAwaits, FetchWhole
  <2> QED BY <2>1, <2>2, <2>3, QuietClient DEF SessionInv, SessionTyped, TypeOK
<1>2. CASE Next
  BY <1>2, OnDataKeeps, OnEndKeeps, HandlerKeeps, ChangeFileKeeps, ResponseDataKeeps, TimeoutKeeps,
     EndStreamKeeps, CutKeeps DEF Next
<1> QED BY <1>1, <1>2

LEMMA SessionInvMeans == SessionInv => AnswersTrue
<1> SUFFICES ASSUME SessionInv PROVE AnswersTrue
  OBVIOUS
<1>1. ASSUME NEW i \in DOMAIN answered
      PROVE  answered[i].len = answered[i].size
  <2>1. answered[i] \in AnswerSet
    BY DEF SessionInv, SessionTyped
  <2> QED BY <2>1 DEF AnswerSet
<1> QED BY <1>1 DEF AnswersTrue, LengthsTrue, SessionInv, SessionTyped

\* What fetchOnce resolves with is the whole answer of the server, and every response is as
\* long as its head says, whatever happens to the file, the stream and the chunks.
THEOREM AnswersAlwaysTrue == Spec => []AnswersTrue
<1>1. Init => SessionInv
  BY SessionStarts
<1>2. SessionInv /\ [Next]_vars => SessionInv'
  BY SessionSteps
<1>3. SessionInv => AnswersTrue
  BY SessionInvMeans
<1> QED BY <1>1, <1>2, <1>3, PTL DEF Spec

-----------------------------------------------------------------------------
(* The session is a conversation                                           *)

\* The mapping of SiteSession, of a sequence of responses.
RefusedIn(s) == \E i \in DOMAIN s : s[i].status = 59
RepliesIn(s) == IF RefusedIn(s) THEN Front(s) ELSE s
RequestsOf(s) == [i \in DOMAIN s |-> s[i].req]

Numbered(n) == [i \in 1..n |-> i]

LEMMA NumberedGrows ==
    ASSUME NEW n \in Nat
    PROVE  Len(Numbered(n)) = n /\ Numbered(n + 1) = Append(Numbered(n), n + 1)
<1>1. Numbered(n) \in Seq(Nat) /\ Len(Numbered(n)) = n /\ \A i \in 1..n : Numbered(n)[i] = i
  BY DEF Numbered
<1>2. Numbered(n + 1) \in Seq(Nat) /\ Len(Numbered(n + 1)) = n + 1
      /\ \A i \in 1..(n + 1) : Numbered(n + 1)[i] = i
  BY DEF Numbered
<1> DEFINE x == Numbered(n)
           y == Numbered(n + 1)
<1> HIDE DEF x, y
<1>3. x \in Seq(Nat) /\ Len(x) = n /\ \A i \in 1..n : x[i] = i
  BY <1>1 DEF x
<1>4. y \in Seq(Nat) /\ Len(y) = n + 1 /\ \A i \in 1..(n + 1) : y[i] = i
  BY <1>2 DEF y
<1>5. y = Append(x, n + 1)
  <2> DEFINE z == Append(x, n + 1)
  <2>1. z \in Seq(Nat) /\ Len(z) = n + 1 /\ \A i \in 1..(n + 1) : z[i] = i
    BY <1>3
  <2> HIDE DEF z
  <2> QED BY <1>4, <2>1 DEF z
<1> QED BY <1>1, <1>5 DEF x, y

\* The responses s answer the requests from the first on.
Numbers(s) == \A i \in 1..Len(s) : s[i].req = i /\ s[i].status # 59

LEMMA RepliesAre ==
    ASSUME NEW s \in Seq(AnswerSet), Numbers(s)
    PROVE  ~RefusedIn(s) /\ RequestsOf(RepliesIn(s)) = Numbered(Len(s))
<1>1. DOMAIN s = 1..Len(s)
  OBVIOUS
<1>2. ~RefusedIn(s)
  BY <1>1 DEF RefusedIn, Numbers
<1>3. RepliesIn(s) = s
  BY <1>2 DEF RepliesIn
<1>4. RequestsOf(s) = Numbered(Len(s))
  BY <1>1 DEF RequestsOf, Numbered, Numbers
<1> QED BY <1>2, <1>3, <1>4

LEMMA RepliesBeforeRefusal ==
    ASSUME NEW s \in Seq(AnswerSet), Numbers(s), NEW r \in AnswerSet, r.status = 59
    PROVE  RefusedIn(Append(s, r)) /\ RequestsOf(RepliesIn(Append(s, r))) = Numbered(Len(s))
<1> DEFINE t == Append(s, r)
<1>1. t \in Seq(AnswerSet) /\ Len(t) = Len(s) + 1 /\ t[Len(s) + 1] = r /\ Len(s) \in Nat
      /\ DOMAIN t = 1..Len(t)
  OBVIOUS
<1>2. Front(t) = s
  BY DEF Front
<1> HIDE DEF t
<1>3. RefusedIn(t)
  <2>1. Len(s) + 1 \in DOMAIN t
    BY <1>1
  <2> QED BY <1>1, <2>1 DEF RefusedIn
<1>4. RepliesIn(t) = s
  BY <1>2, <1>3 DEF RepliesIn
<1>5. RequestsOf(s) = Numbered(Len(s))
  <2>1. DOMAIN s = 1..Len(s)
    OBVIOUS
  <2> QED BY <2>1 DEF RequestsOf, Numbered, Numbers
<1> QED BY <1>3, <1>4, <1>5 DEF t

\* Answering what comes next goes on with the numbers.
LEMMA NumbersGoOn ==
    ASSUME NEW s \in Seq(AnswerSet), Numbers(s), NEW rs \in Seq(AnswerSet), Len(rs) <= 1,
           \A i \in 1..Len(rs) : rs[i].req = Len(s) + i /\ rs[i].status # 59
    PROVE  /\ s \o rs \in Seq(AnswerSet) /\ Numbers(s \o rs) /\ Len(s \o rs) = Len(s) + Len(rs)
           /\ \/ Len(s \o rs) = Len(s) /\ Len(s) \in Nat
              \/ Len(s \o rs) = Len(s) + 1 /\ Len(s) \in Nat
           /\ \A r \in AnswerSet : s \o Append(rs, r) = Append(s \o rs, r)
<1> DEFINE t == s \o rs
<1>1. /\ t \in Seq(AnswerSet) /\ Len(t) = Len(s) + Len(rs) /\ Len(s) \in Nat /\ Len(rs) \in Nat
      /\ \A i \in 1..Len(s) : t[i] = s[i]
      /\ \A i \in 1..Len(rs) : t[Len(s) + i] = rs[i]
  BY Joined
<1>2. \A r \in AnswerSet : s \o Append(rs, r) = Append(s \o rs, r)
  OBVIOUS
<1> HIDE DEF t
<1>3. ASSUME NEW i \in 1..Len(t)
      PROVE  t[i].req = i /\ t[i].status # 59
  <2>1. CASE i <= Len(s)
    <3>1. i \in 1..Len(s)
      BY <1>1, <2>1
    <3> QED BY <1>1, <3>1 DEF Numbers
  <2>2. CASE i > Len(s)
    <3> DEFINE j == i - Len(s)
    <3>1. j \in 1..Len(rs) /\ Len(s) + j = i
      BY <1>1, <2>2
    <3> HIDE DEF j
    <3>2. t[i] = rs[j] /\ rs[j].req = Len(s) + j /\ rs[j].status # 59
      BY <1>1, <3>1
    <3> QED BY <3>1, <3>2
  <2> QED BY <1>1, <2>1, <2>2
<1>4. Numbers(t)
  BY <1>3 DEF Numbers
<1> QED BY <1>1, <1>2, <1>4 DEF t

\* The variables of the conversation.
Answering == [i \in DOMAIN Replies |-> Replies[i].req]

LEMMA MappingIs ==
    /\ Answering = RequestsOf(RepliesIn(answered)) /\ Refused = RefusedIn(answered)
    /\ Answering' = RequestsOf(RepliesIn(answered')) /\ Refused' = RefusedIn(answered')
BY DEF Answering, RequestsOf, RepliesIn, Replies, Refused, RefusedIn

LEMMA ConversationStarts == Init => Promise!Init
<1> SUFFICES ASSUME Init PROVE Promise!Init
  OBVIOUS
<1>1. SessionTyped /\ answered = <<>> /\ closing = FALSE /\ lost = FALSE
  BY SessionStarts DEF SessionInv, Init
<1>2. Numbers(answered) /\ answered \in Seq(AnswerSet)
  BY <1>1 DEF Numbers, SessionTyped
<1>3. ~Refused /\ Answering = Numbered(0)
  <2>1. ~RefusedIn(answered) /\ RequestsOf(RepliesIn(answered)) = Numbered(Len(answered))
    BY <1>2, RepliesAre
  <2>2. Len(answered) = 0
    BY <1>1
  <2> QED BY <2>1, <2>2, MappingIs
<1>4. Numbered(0) = <<>>
  BY DEF Numbered
<1>5. Len(kinds) \in Nat \ {0}
  BY <1>1, SessionBounds DEF SessionTyped
<1> QED BY <1>1, <1>3, <1>4, <1>5 DEF Promise!Init, Answering

LEMMA ConversationGoesOn ==
    ASSUME SessionInv, ConversationStep
    PROVE  [Promise!Next]_(Promise!vars)
<1>1. SessionTyped /\ InTurn /\ kinds' = kinds
  BY DEF SessionInv, ConversationStep
<1> DEFINE n == Len(answered)
<1>2. answered \in Seq(AnswerSet) /\ n \in Nat /\ Len(kinds) \in Nat /\ closing \in BOOLEAN
  BY <1>1 DEF SessionTyped, TypeOK
<1>3. ~closing => Numbers(answered)
  BY <1>1 DEF InTurn, Numbers
<1>4. ~closing => ~Refused /\ Answering = Numbered(n)
  <2> SUFFICES ASSUME ~closing PROVE ~RefusedIn(answered) /\ RequestsOf(RepliesIn(answered)) = Numbered(n)
    BY MappingIs
  <2> QED BY <1>2, <1>3, RepliesAre
<1>5. CASE UNCHANGED <<answered, closing, lost>>
  <2>1. Answering' = Answering /\ Refused' = Refused
    BY <1>5, MappingIs
  <2> QED BY <1>1, <1>5, <2>1 DEF Promise!vars, Answering
<1>6. ASSUME ~closing, UNCHANGED lost, NEW rs \in Seq(AnswerSet), Len(rs) <= 1, InOrder(rs)
      PROVE  /\ answered \o rs \in Seq(AnswerSet) /\ Numbers(answered \o rs)
             /\ \/ Numbered(Len(answered \o rs)) = Answering
                \/ Numbered(Len(answered \o rs)) = Append(Answering, Len(Answering) + 1)
             /\ Len(answered \o rs) = Len(answered) + Len(rs)
             /\ \A r \in AnswerSet : answered \o Append(rs, r) = Append(answered \o rs, r)
  <2> DEFINE t == answered \o rs
  <2>1. \A i \in 1..Len(rs) : rs[i].req = Len(answered) + i /\ rs[i].status # 59
    BY <1>6 DEF InOrder
  <2>2. /\ t \in Seq(AnswerSet) /\ Numbers(t) /\ Len(t) = Len(answered) + Len(rs)
        /\ (Len(t) = n /\ n \in Nat) \/ (Len(t) = n + 1 /\ n \in Nat)
        /\ \A r \in AnswerSet : answered \o Append(rs, r) = Append(t, r)
    BY <1>2, <1>3, <1>6, <2>1, NumbersGoOn
  <2>3. Answering = Numbered(n)
    BY <1>4, <1>6
  <2>4. Numbered(n + 1) = Append(Answering, Len(Answering) + 1)
    BY <1>2, <2>3, NumberedGrows
  <2> HIDE DEF t
  <2>5. Numbered(Len(t)) = Answering \/ Numbered(Len(t)) = Append(Answering, Len(Answering) + 1)
    BY <2>2, <2>3, <2>4
  <2> QED BY <2>2, <2>5 DEF t
<1>7. ASSUME ~closing, UNCHANGED lost, NEW rs \in Seq(AnswerSet), Len(rs) <= 1, InOrder(rs),
             answered' = answered \o rs
      PROVE  /\ ~Refused' /\ Answering' = Numbered(n + Len(rs)) /\ Len(Answering') = n + Len(rs)
             /\ Answering' = Answering \/ Answering' = Append(Answering, Len(Answering) + 1)
  <2> DEFINE t == answered \o rs
  <2>1. /\ t \in Seq(AnswerSet) /\ Numbers(t) /\ Len(t) = n + Len(rs)
        /\ Numbered(Len(t)) = Answering \/ Numbered(Len(t)) = Append(Answering, Len(Answering) + 1)
    BY <1>6, <1>7
  <2> HIDE DEF t
  <2>2. ~RefusedIn(t) /\ RequestsOf(RepliesIn(t)) = Numbered(Len(t))
    BY <2>1, RepliesAre
  <2>3. ~Refused' /\ Answering' = Numbered(Len(t))
    BY <1>7, <2>2, MappingIs DEF t
  <2>4. Len(t) \in Nat
    BY <2>1
  <2>5. Len(Numbered(Len(t))) = Len(t)
    BY <2>4, NumberedGrows
  <2> QED BY <2>1, <2>3, <2>5
<1>8. ASSUME ~closing, UNCHANGED lost, NEW rs \in Seq(AnswerSet), Len(rs) <= 1, InOrder(rs),
             answered' = answered \o rs, closing' = FALSE
      PROVE  Promise!Next
  <2>1. /\ ~Refused'
        /\ Answering' = Answering \/ Answering' = Append(Answering, Len(Answering) + 1)
    BY <1>7, <1>8
  <2>2. Promise!Reply
    <3>1. Refused' = Refused
      BY <1>4, <1>8, <2>1 DEF Refused
    <3>2. closing = FALSE
      BY <1>2, <1>8
    <3> QED BY <1>8, <2>1, <3>1, <3>2 DEF Promise!Reply, Promise!More, Answering
  <2> QED BY <1>1, <1>8, <2>2 DEF Promise!Next
<1>9. ASSUME ~closing, UNCHANGED lost, NEW rs \in Seq(AnswerSet), Len(rs) <= 1, InOrder(rs),
             answered' = answered \o rs, closing' = TRUE, n + Len(rs) = Len(kinds)
      PROVE  Promise!Next
  <2>1. /\ ~Refused' /\ Len(Answering') = Len(kinds)
        /\ Answering' = Answering \/ Answering' = Append(Answering, Len(Answering) + 1)
    BY <1>7, <1>9
  <2>2. Promise!Finish
    <3>1. Refused' = Refused
      BY <1>4, <1>9, <2>1 DEF Refused
    <3>2. closing = FALSE
      BY <1>2, <1>9
    <3> QED BY <1>9, <2>1, <3>1, <3>2 DEF Promise!Finish, Promise!More, Answering
  <2> QED BY <1>1, <1>9, <2>2 DEF Promise!Next
<1>10. ASSUME ~closing, UNCHANGED lost, NEW rs \in Seq(AnswerSet), Len(rs) <= 1, InOrder(rs),
              NEW r \in AnswerSet, answered' = answered \o Append(rs, r), r.status = 59, closing' = TRUE
       PROVE  Promise!Next
  <2> DEFINE t == answered \o rs
  <2>1. /\ t \in Seq(AnswerSet) /\ Numbers(t) /\ answered' = Append(t, r)
        /\ Numbered(Len(t)) = Answering \/ Numbered(Len(t)) = Append(Answering, Len(Answering) + 1)
    BY <1>6, <1>10
  <2> HIDE DEF t
  <2>2. RefusedIn(Append(t, r)) /\ RequestsOf(RepliesIn(Append(t, r))) = Numbered(Len(t))
    BY <1>10, <2>1, RepliesBeforeRefusal
  <2>3. Refused' /\ Answering' = Numbered(Len(t))
    BY <2>1, <2>2, MappingIs
  <2>4. Refused' = TRUE
    BY <2>3 DEF Refused
  <2>5. Promise!Refuse
    BY <1>10, <2>1, <2>3, <2>4 DEF Promise!Refuse, Promise!More, Answering
  <2> QED BY <1>1, <1>10, <2>5 DEF Promise!Next
<1>11. CASE ~closing /\ closing' = TRUE /\ lost' = TRUE /\ UNCHANGED answered
  <2>1. Answering' = Answering /\ Refused' = Refused
    BY <1>11, MappingIs
  <2>2. Promise!Break
    BY <1>11, <2>1 DEF Promise!Break, Answering
  <2> QED BY <1>1, <1>11, <2>2 DEF Promise!Next
<1> QED BY <1>5, <1>8, <1>9, <1>10, <1>11 DEF ConversationStep

\* A session is what docs/SITES-v0.1.md promises: the requests are answered in their order, and
\* the server ends the stream with all of them answered, with a refusal, or because it broke.
THEOREM SessionIsConversation == Spec => ImplementsConversation
<1>1. Init => SessionInv /\ Promise!Init
  BY SessionStarts, ConversationStarts
<1>2. SessionInv /\ [Next]_vars => SessionInv' /\ [Promise!Next]_(Promise!vars)
  BY SessionSteps, ConversationGoesOn
<1> QED BY <1>1, <1>2, PTL DEF Spec, ImplementsConversation, Promise!Spec

-----------------------------------------------------------------------------
(* A query of the tor control port                                         *)

Statuses == {"none", "EXTENDED", "BUILT"}
Listing == {<<"circuit", k, s>> : k \in TorCircuits, s \in Statuses}

\* The values that the answer to the command c consists of, when the streams
\* of the host were carried by the circuits S.
ItemsOf(c, S) ==
    CASE c[1] = "circuit-status" -> Listing
      [] c[1] = "stream-status" -> {<<"stream", k>> : k \in S}
      [] OTHER -> {c}

LinesFor(c, S) ==
    [form : {"ok", "error", "inline", "block", "data", "dot"}, item : ItemsOf(c, S) \cup {<<>>}]

InBlock(line) == line.form \in {"data", "dot"}
Opens(line) == line.form \in {"block", "data"}

\* The lines are those of the answer to c, or the rest of them: nothing comes
\* after its end, a block has its dot, and a relay is described once.
LinesOf(q, c, S) ==
    /\ q \in Seq(LinesFor(c, S))
    /\ \A i \in 1..Len(q) :
         /\ q[i].form = "data" => q[i].item \in ItemsOf(c, S)
         /\ q[i].form \in {"ok", "error"} => i = Len(q)
    /\ \A i \in 1..(Len(q) - 1) : Opens(q[i]) <=> InBlock(q[i + 1])
    /\ c[1] = "relay" =>
         /\ \A i \in 1..Len(q) : q[i].form # "inline"
         /\ \A i, j \in 1..Len(q) : q[i].form = "data" /\ q[j].form = "data" => i = j

\* The circuits of tor, of which one carries the stream of the host, and where
\* the query is.
TorTyped ==
    /\ circuits \in [TorCircuits -> Statuses] /\ onion \subseteq TorCircuits
    /\ hostStream = 0 \/ hostStream \in served
    /\ step \in {"start", "write", "writing", "read", "block", "settled"}
    /\ step = "start" => outcome = "pending" /\ hops = <<>> /\ command = <<>>

\* What is still to be read.
Due == received \o wire

\* What can be read is the rest of the answer to the command under way.
ReadingInTurn ==
    step \in {"writing", "read", "block"} =>
        /\ commandsDue = <<>> \/ (commandsDue = <<command>> /\ Due = <<>> /\ step # "block")
        /\ step = "read" /\ commandsDue # <<>> => reply = <<>>
        /\ received \in Seq(LinesFor(command, served)) /\ wire \in Seq(LinesFor(command, served))
        /\ LinesOf(Due, command, served)
        /\ Due # <<>> => (step = "block" <=> InBlock(Due[1]))
        /\ step # "writing" =>
             /\ reply \in Seq(ItemsOf(command, served))
             /\ command[1] = "relay" =>
                  /\ Len(reply) <= 1
                  /\ reply # <<>> => \A i \in 1..Len(Due) : Due[i].form # "data"

\* Before a command is written nothing is left of the one before.
NothingLeft ==
    step \in {"start", "write"} /\ endSeen = "no" =>
        commandsDue = <<>> /\ received = <<>> /\ wire = <<>>

Asked == {<<"AUTHENTICATE">>, <<"circuit-status">>, <<"stream-status">>}
Path == CircuitPaths[shown[1]]
HopIs(i) == {<<>>, <<<<"relay", Path[i], i>>>>}

\* The commands come in the order of queryTorCircuitForHost.
CommandInTurn ==
    step \in {"write", "writing", "read", "block"} =>
        /\ outcome = "pending"
        /\ \/ /\ command \in Asked /\ hops = <<>>
              /\ command[1] = "stream-status" => circuitLines \in Seq(Listing)
           \/ /\ command = <<"relay", Path[Len(hops) + 1], Len(hops) + 1>>
              /\ Len(hops) + 1 <= Len(Path)

\* A circuit was found.
Found == outcome = "shown" \/ (outcome = "pending" /\ command # <<>> /\ command[1] = "relay")

FoundIsTrue ==
    Found => /\ shown[1] \in TorCircuits /\ (shown[1] \in served \cup onion \/ latest)
             /\ hops \in Seq(UNION {HopIs(i) : i \in 1..Len(Path)}) /\ Len(hops) <= Len(Path)
             /\ \A i \in 1..Len(hops) : hops[i] \in HopIs(i)

\* The inductive invariant.
QueryInv == TorTyped /\ ReadingInTurn /\ NothingLeft /\ CommandInTurn /\ FoundIsTrue /\ ShownIsTrue

-----------------------------------------------------------------------------
\* An answer that is cut short.
LEMMA LinesCut ==
    ASSUME NEW c, NEW S, NEW s \in Seq(LinesFor(c, S)), NEW t \in Seq(LinesFor(c, S)),
           LinesOf(s \o t, c, S)
    PROVE  LinesOf(s, c, S) /\ (s # <<>> => (s \o t)[1] = s[1] /\ s \o t # <<>>)
<1>1. /\ Len(s \o t) = Len(s) + Len(t) /\ Len(s) \in Nat /\ Len(t) \in Nat
      /\ \A i \in 1..Len(s) : (s \o t)[i] = s[i] /\ i \in 1..Len(s \o t)
      /\ \A i \in 1..Len(s) : i = Len(s \o t) => i = Len(s)
      /\ \A i \in 1..(Len(s) - 1) : i \in 1..(Len(s \o t) - 1) /\ i \in 1..Len(s) /\ i + 1 \in 1..Len(s)
  BY Joined
<1>2. s # <<>> => 1 \in 1..Len(s) /\ s \o t # <<>>
  BY <1>1
<1> DEFINE q == s \o t
<1> HIDE DEF q
<1>3. LinesOf(q, c, S) /\ \A i \in 1..Len(s) : q[i] = s[i] /\ i \in 1..Len(q)
  BY <1>1 DEF q
<1>4. \A i \in 1..Len(s) : i = Len(q) => i = Len(s)
  BY <1>1 DEF q
<1>5. \A i \in 1..(Len(s) - 1) : i \in 1..(Len(q) - 1) /\ i \in 1..Len(s) /\ i + 1 \in 1..Len(s)
  BY <1>1 DEF q
<1>6. LinesOf(s, c, S)
  BY <1>3, <1>4, <1>5, ZenonT(30) DEF LinesOf
<1> QED BY <1>1, <1>2, <1>6

\* The answer after its first line.
LEMMA LinesTail ==
    ASSUME NEW c, NEW S, NEW q, LinesOf(q, c, S), q # <<>>
    PROVE  /\ LinesOf(Tail(q), c, S)
           /\ Tail(q) # <<>> => (Opens(q[1]) <=> InBlock(Tail(q)[1]))
           /\ q[1].form \in {"ok", "error"} => Tail(q) = <<>>
           /\ \A i \in 1..Len(Tail(q)) : Tail(q)[i] = q[i + 1] /\ i + 1 \in 1..Len(q)
<1>0. q \in Seq(LinesFor(c, S))
  BY DEF LinesOf
<1>1. /\ Tail(q) \in Seq(LinesFor(c, S)) /\ Len(Tail(q)) = Len(q) - 1 /\ Len(q) \in Nat \ {0}
      /\ \A i \in 1..Len(Tail(q)) : Tail(q)[i] = q[i + 1]
  BY <1>0
<1> DEFINE r == Tail(q)
<1>2. r \in Seq(LinesFor(c, S)) /\ Len(r) = Len(q) - 1 /\ \A i \in 1..Len(r) : r[i] = q[i + 1]
  BY <1>1
<1>3. r # <<>> => 1 \in 1..Len(r) /\ 1 \in 1..(Len(q) - 1)
  BY <1>1, <1>2
<1>4. Len(q) = 1 => r = <<>>
  <2>1. Len(q) = 1 => Len(r) = 0
    BY <1>2
  <2>2. \A s \in Seq(LinesFor(c, S)) : Len(s) = 0 => s = <<>>
    OBVIOUS
  <2> QED BY <2>1, <2>2, <1>2
<1> HIDE DEF r
<1> DEFINE m == Len(r)
           n == Len(q)
<1>a. m \in Nat /\ n \in Nat /\ m + 1 = n
  BY <1>1, <1>2
<1> HIDE DEF m, n
<1>b. \A i \in 1..m : i + 1 \in 1..n /\ (i + 1 = n => i = m)
  BY <1>a
<1>c. \A i \in 1..(m - 1) : i \in 1..m /\ i + 1 \in 1..m /\ i + 1 \in 1..(n - 1) /\ (i + 1) + 1 \in 1..n
  BY <1>a
<1>5. \A i \in 1..Len(r) : i + 1 \in 1..Len(q) /\ (i + 1 = Len(q) => i = Len(r))
  BY <1>b DEF m, n
<1>6. \A i \in 1..(Len(r) - 1) : /\ i \in 1..Len(r) /\ i + 1 \in 1..Len(r)
                                 /\ i + 1 \in 1..(Len(q) - 1) /\ (i + 1) + 1 \in 1..Len(q)
  BY <1>c DEF m, n
<1>7. 1 \in 1..Len(q)
  BY <1>1
<1>8. LinesOf(r, c, S)
  <2>1. \A i \in 1..Len(r) : /\ r[i].form = "data" => r[i].item \in ItemsOf(c, S)
                             /\ r[i].form \in {"ok", "error"} => i = Len(r)
    BY <1>2, <1>5 DEF LinesOf
  <2>2. \A i \in 1..(Len(r) - 1) : Opens(r[i]) <=> InBlock(r[i + 1])
    <3> TAKE i \in 1..(Len(r) - 1)
    <3>1. r[i] = q[i + 1] /\ r[i + 1] = q[(i + 1) + 1]
      BY <1>2, <1>6
    <3>2. Opens(q[i + 1]) <=> InBlock(q[(i + 1) + 1])
      BY <1>6 DEF LinesOf
    <3> QED BY <3>1, <3>2
  <2>3. c[1] = "relay" => \A i \in 1..Len(r) : r[i].form # "inline"
    BY <1>2, <1>5 DEF LinesOf
  <2>4. c[1] = "relay" =>
          \A i, j \in 1..Len(r) : r[i].form = "data" /\ r[j].form = "data" => i = j
    <3> SUFFICES ASSUME c[1] = "relay", NEW i \in 1..Len(r), NEW j \in 1..Len(r),
                        r[i].form = "data", r[j].form = "data"
                 PROVE  i = j
      OBVIOUS
    <3>1. i + 1 = j + 1
      BY <1>2, <1>5 DEF LinesOf
    <3> QED BY <3>1
  <2> QED BY <1>2, <2>1, <2>2, <2>3, <2>4 DEF LinesOf
<1>9. r # <<>> => (Opens(q[1]) <=> InBlock(r[1]))
  <2> SUFFICES ASSUME r # <<>>
               PROVE  Opens(q[1]) <=> InBlock(r[1])
    OBVIOUS
  <2>1. r[1] = q[1 + 1] /\ (Opens(q[1]) <=> InBlock(q[1 + 1]))
    BY <1>2, <1>3 DEF LinesOf
  <2> QED BY <2>1
<1>10. q[1].form \in {"ok", "error"} => r = <<>>
  BY <1>4, <1>7 DEF LinesOf
<1> QED BY <1>2, <1>5, <1>8, <1>9, <1>10 DEF r

\* More streams of the host, and the lines are still those of an answer.
LEMMA LinesStay ==
    ASSUME NEW c, NEW S, NEW T, S \subseteq T
    PROVE  /\ ItemsOf(c, S) \subseteq ItemsOf(c, T) /\ LinesFor(c, S) \subseteq LinesFor(c, T)
           /\ Seq(LinesFor(c, S)) \subseteq Seq(LinesFor(c, T))
           /\ Seq(ItemsOf(c, S)) \subseteq Seq(ItemsOf(c, T))
           /\ \A q : LinesOf(q, c, S) => LinesOf(q, c, T)
<1>1. ItemsOf(c, S) \subseteq ItemsOf(c, T)
  BY DEF ItemsOf
<1>2. LinesFor(c, S) \subseteq LinesFor(c, T)
  BY <1>1 DEF LinesFor
<1>3. Seq(LinesFor(c, S)) \subseteq Seq(LinesFor(c, T))
  BY <1>2
<1>4. Seq(ItemsOf(c, S)) \subseteq Seq(ItemsOf(c, T))
  BY <1>1
<1>5. \A q : LinesOf(q, c, S) => LinesOf(q, c, T)
  BY <1>1, <1>3 DEF LinesOf
<1> QED BY <1>1, <1>2, <1>3, <1>4, <1>5

\* A sequence by its elements.
LEMMA FunctionIsSeq ==
    ASSUME NEW S, NEW n \in Nat, NEW f \in [1..n -> S]
    PROVE  f \in Seq(S) /\ Len(f) = n
OBVIOUS

\* A sequence of the elements of a finite set.
LEMMA SetToSeqIs ==
    ASSUME NEW S, IsFiniteSet(S)
    PROVE  SetToSeq(S) \in Seq(S)
<1>1. PICK f : Cardinality(S) \in Nat /\ f \in Bijection(1..Cardinality(S), S)
  BY FS_CardinalityType DEF ExistsBijection
<1>2. f \in [1..Cardinality(S) -> S] /\ IsInjective(f)
  BY <1>1 DEF Bijection, Injection, IsInjective
<1>3. SetToSeq(S) \in [1..Cardinality(S) -> S]
  BY <1>2 DEF SetToSeq
<1> QED BY <1>1, <1>3, FunctionIsSeq

\* Values(items) is a whole answer, and a sequence of lines.
LEMMA ValuesAre ==
    ASSUME NEW c, NEW S, c[1] # "relay", NEW items \in Seq(ItemsOf(c, S))
    PROVE  LinesOf(Values(items), c, S) /\ Values(items) # <<>> /\ ~InBlock(Values(items)[1])
<1>0. Len(items) \in Nat /\ DOMAIN items = 1..Len(items)
  OBVIOUS
<1>1. CASE Len(items) = 0
  <2>1. Values(items) = <<Line("inline", <<>>), Ok>>
    BY <1>1 DEF Values
  <2> QED BY <2>1 DEF LinesOf, LinesFor, Line, Ok, InBlock, Opens
<1>2. CASE Len(items) = 1
  <2>1. Values(items) = <<Line("inline", items[1]), Ok>> /\ items[1] \in ItemsOf(c, S)
    BY <1>2 DEF Values
  <2> QED BY <2>1 DEF LinesOf, LinesFor, Line, Ok, InBlock, Opens
<1>3. CASE Len(items) # 0 /\ Len(items) # 1
  <2> DEFINE n == Len(items)
             data == [i \in DOMAIN items |-> Line("data", items[i])]
             first == <<Line("block", <<>>)>>
             last == <<Line("dot", <<>>), Ok>>
             L == LinesFor(c, S)
             q == first \o data \o last
  <2>1. Values(items) = q
    BY <1>3 DEF Values
  <2>2. data \in Seq(L) /\ Len(data) = n /\ \A i \in 1..n : data[i] = Line("data", items[i])
    <3>1. data \in [1..n -> L]
      BY <1>0 DEF Line, LinesFor
    <3>2. \A i \in 1..n : data[i] = Line("data", items[i])
      BY <1>0
    <3> HIDE DEF data, L
    <3> QED BY <3>1, <3>2, <1>0, FunctionIsSeq
  <2>3. first \in Seq(L) /\ last \in Seq(L)
    BY DEF Line, Ok, LinesFor
  <2>4. Len(first) = 1 /\ first[1] = Line("block", <<>>) /\ Len(last) = 2
        /\ last[1] = Line("dot", <<>>) /\ last[2] = Ok
    OBVIOUS
  <2> HIDE DEF data, first, last, L
  <2>5. first \o data \in Seq(L) /\ Len(first \o data) = n + 1
        /\ (first \o data)[1] = first[1]
        /\ \A i \in 1..n : (first \o data)[1 + i] = data[i]
    BY <2>2, <2>3, <2>4, <1>0, Joined
  <2>6. q \in Seq(L) /\ Len(q) = n + 3
        /\ (\A i \in 1..(n + 1) : q[i] = (first \o data)[i])
        /\ \A i \in 1..2 : q[n + 1 + i] = last[i]
    <3> DEFINE f == first \o data
    <3>1. f \in Seq(L) /\ Len(f) = n + 1
      BY <2>5
    <3> HIDE DEF f
    <3>2. /\ f \o last \in Seq(L) /\ Len(f \o last) = (n + 1) + 2
          /\ \A i \in 1..(n + 1) : (f \o last)[i] = f[i]
          /\ \A i \in 1..2 : (f \o last)[n + 1 + i] = last[i]
      <4>1. /\ f \o last \in Seq(L) /\ Len(f \o last) = Len(f) + Len(last)
            /\ \A i \in 1..Len(f) : (f \o last)[i] = f[i]
            /\ \A i \in 1..Len(last) : (f \o last)[Len(f) + i] = last[i]
        <5>1. f \in Seq(L) /\ last \in Seq(L)
          BY <3>1, <2>3
        <5> HIDE DEF n, q
        <5>2. f \o last \in Seq(L) /\ Len(f \o last) = Len(f) + Len(last)
          BY <5>1
        <5>3. \A i \in 1..Len(f) : (f \o last)[i] = f[i]
          BY <5>1
        <5>4. \A i \in 1..Len(last) : (f \o last)[Len(f) + i] = last[i]
          BY <5>1
        <5> QED BY <5>2, <5>3, <5>4
      <4>2. Len(f) = n + 1 /\ Len(last) = 2
        BY <3>1, <2>4
      <4> QED BY <4>1, <4>2
    <3>3. (n + 1) + 2 = n + 3
      BY <1>0
    <3> QED BY <3>2, <3>3 DEF f
  <2> HIDE DEF q
  <2>7. q[1] = Line("block", <<>>)
    BY <2>4, <2>5, <2>6, <1>0
  <2>8. \A i \in 2..(n + 1) : q[i] = Line("data", items[i - 1])
    <3> TAKE i \in 2..(n + 1)
    <3>1. i \in 1..(n + 1) /\ i - 1 \in 1..n /\ 1 + (i - 1) = i
      BY <1>0
    <3> QED BY <3>1, <2>2, <2>5, <2>6
  <2>9. q[n + 2] = Line("dot", <<>>) /\ q[n + 3] = Ok
    <3>1. 1 \in 1..2 /\ 2 \in 1..2 /\ (n + 1) + 1 = n + 2 /\ (n + 1) + 2 = n + 3
      BY <1>0
    <3> QED BY <3>1, <2>4, <2>6
  <2> HIDE DEF n
  <2>10. \A i \in 1..Len(q) : i = 1 \/ i \in 2..(n + 1) \/ i = n + 2 \/ i = n + 3
    BY <2>6, <1>0 DEF n
  <2>11. \A i \in 1..Len(q) : /\ q[i].form = "data" => q[i].item \in ItemsOf(c, S)
                              /\ q[i].form \in {"ok", "error"} => i = Len(q)
    <3> TAKE i \in 1..Len(q)
    <3>1. CASE i = 1
      BY <3>1, <2>7 DEF Line
    <3>2. CASE i \in 2..(n + 1)
      <4>1. items[i - 1] \in ItemsOf(c, S)
        BY <3>2, <1>0 DEF n
      <4>2. q[i] = [form |-> "data", item |-> items[i - 1]]
        BY <3>2, <2>8 DEF Line
      <4>3. q[i].form = "data" /\ q[i].item = items[i - 1]
        BY <4>2
      <4> QED BY <4>1, <4>3
    <3>3. CASE i = n + 2
      BY <3>3, <2>9 DEF Line
    <3>4. CASE i = n + 3
      BY <3>4, <2>6, <2>9 DEF Ok, Line
    <3> QED BY <3>1, <3>2, <3>3, <3>4, <2>10
  <2>12. \A i \in 1..(Len(q) - 1) : Opens(q[i]) <=> InBlock(q[i + 1])
    <3> TAKE i \in 1..(Len(q) - 1)
    <3>0. i = 1 \/ i \in 2..n \/ (i = n + 1 /\ i \in 2..(n + 1)) \/ i = n + 2
      BY <2>6, <1>0, <1>3 DEF n
    <3>1. CASE i = 1
      <4>1. i + 1 \in 2..(n + 1)
        BY <3>1, <1>0, <1>3 DEF n
      <4>2. q[i] = Line("block", <<>>) /\ q[i + 1] = Line("data", items[(i + 1) - 1])
        BY <4>1, <3>1, <2>7, <2>8
      <4> QED BY <4>2 DEF Line, Opens, InBlock
    <3>2. CASE i \in 2..n
      <4>1. i \in 2..(n + 1) /\ i + 1 \in 2..(n + 1)
        BY <3>2, <1>0 DEF n
      <4>2. q[i] = Line("data", items[i - 1]) /\ q[i + 1] = Line("data", items[(i + 1) - 1])
        BY <4>1, <2>8
      <4> QED BY <4>2 DEF Line, Opens, InBlock
    <3>3. CASE i = n + 1 /\ i \in 2..(n + 1)
      <4>1. i + 1 = n + 2
        BY <3>3, <1>0 DEF n
      <4>2. q[i] = Line("data", items[i - 1]) /\ q[i + 1] = Line("dot", <<>>)
        BY <4>1, <3>3, <2>8, <2>9
      <4> QED BY <4>2 DEF Line, Opens, InBlock
    <3>4. CASE i = n + 2
      <4>1. i + 1 = n + 3
        BY <3>4, <1>0 DEF n
      <4>2. q[i] = Line("dot", <<>>) /\ q[i + 1] = Ok
        BY <4>1, <3>4, <2>9
      <4> QED BY <4>2 DEF Line, Ok, Opens, InBlock
    <3> QED BY <3>0, <3>1, <3>2, <3>3, <3>4
  <2>13. LinesOf(q, c, S)
    BY <2>6, <2>11, <2>12 DEF LinesOf, L
  <2>14. q # <<>> /\ ~InBlock(q[1])
    <3>1. q # <<>>
      BY <2>6, <1>0 DEF n
    <3> QED BY <3>1, <2>7 DEF InBlock, Line
  <2> QED BY <2>1, <2>13, <2>14
<1> QED BY <1>1, <1>2, <1>3

\* What tor answers is a whole answer.
LEMMA AnswersAre ==
    ASSUME NEW c, c \in Asked \/ c[1] = "relay", hostStream = 0 \/ hostStream \in served,
           circuits \in [TorCircuits -> Statuses],
           NEW answer \in Answers(c)
    PROVE  LinesOf(answer, c, served) /\ answer # <<>> /\ ~InBlock(answer[1])
<1>1. CASE c = <<"AUTHENTICATE">>
  <2>1. answer = <<Ok>> \/ answer = <<Line("error", <<>>)>>
    BY <1>1 DEF Answers
  <2>2. CASE answer = <<Ok>>
    BY <2>2, <1>1 DEF LinesOf, LinesFor, Line, Ok, InBlock, Opens
  <2>3. CASE answer = <<Line("error", <<>>)>>
    BY <2>3, <1>1 DEF LinesOf, LinesFor, Line, Ok, InBlock, Opens
  <2> QED BY <2>1, <2>2, <2>3
<1>2. CASE c = <<"circuit-status">>
  <2> DEFINE open == {k \in TorCircuits : circuits[k] # "none"}
             known == SetToSeq(open)
             items == [i \in DOMAIN known |-> <<"circuit", known[i], circuits[known[i]]>>]
  <2>1. answer = Values(items)
    BY <1>2 DEF Answers
  <2>2. IsFiniteSet(open)
    BY TorAssumption, FS_Subset
  <2>3. known \in Seq(open)
    <3> HIDE DEF open
    <3> QED BY <2>2, SetToSeqIs
  <2>4. \A i \in 1..Len(known) : known[i] \in TorCircuits /\ circuits[known[i]] \in Statuses
    BY <2>3
  <2>5. Len(known) \in Nat /\ DOMAIN known = 1..Len(known)
    BY <2>3
  <2> HIDE DEF known
  <2>6. items \in [1..Len(known) -> Listing]
    BY <2>4, <2>5 DEF Listing
  <2>7. items \in Seq(Listing)
    <3> HIDE DEF items
    <3> QED BY <2>5, <2>6, FunctionIsSeq
  <2>8. ItemsOf(c, served) = Listing /\ c[1] # "relay"
    BY <1>2 DEF ItemsOf
  <2> HIDE DEF items
  <2> QED BY <2>1, <2>7, <2>8, ValuesAre
<1>3. CASE c = <<"stream-status">>
  <2>1. ItemsOf(c, served) = {<<"stream", k>> : k \in served} /\ c[1] # "relay"
    BY <1>3 DEF ItemsOf
  <2>2. CASE hostStream = 0
    <3>1. answer = Values(<<>>)
      BY <1>3, <2>2 DEF Answers
    <3>2. <<>> \in Seq(ItemsOf(c, served))
      OBVIOUS
    <3> QED BY <2>1, <3>1, <3>2, ValuesAre
  <2>3. CASE hostStream # 0
    <3>1. answer = Values(<<<<"stream", hostStream>>>>)
      BY <1>3, <2>3 DEF Answers
    <3>2. <<"stream", hostStream>> \in ItemsOf(c, served)
      BY <2>1, <2>3
    <3>3. <<<<"stream", hostStream>>>> \in Seq(ItemsOf(c, served))
      BY <3>2
    <3> QED BY <2>1, <3>1, <3>3, ValuesAre
  <2> QED BY <2>2, <2>3
<1>4. CASE c[1] = "relay"
  <2>1. \/ answer = <<Line("error", <<>>)>>
        \/ answer = <<Line("block", <<>>), Line("data", c), Line("dot", <<>>), Ok>>
    BY <1>4 DEF Answers
  <2>2. ItemsOf(c, served) = {c}
    BY <1>4 DEF ItemsOf
  <2>3. CASE answer = <<Line("error", <<>>)>>
    BY <2>3 DEF LinesOf, LinesFor, Line, Ok, InBlock, Opens
  <2>4. CASE answer = <<Line("block", <<>>), Line("data", c), Line("dot", <<>>), Ok>>
    <3>1. answer \in Seq(LinesFor(c, served)) /\ Len(answer) = 4
      BY <2>2, <2>4 DEF LinesFor, Line, Ok
    <3>2. /\ answer[1] = [form |-> "block", item |-> <<>>] /\ answer[2] = [form |-> "data", item |-> c]
          /\ answer[3] = [form |-> "dot", item |-> <<>>] /\ answer[4] = [form |-> "ok", item |-> <<>>]
      BY <2>4 DEF Line, Ok
    <3>3. /\ answer[1].form = "block" /\ answer[2].form = "data" /\ answer[2].item = c
          /\ answer[3].form = "dot" /\ answer[4].form = "ok"
      BY <3>2
    <3>4. \A i \in 1..4 : i = 1 \/ i = 2 \/ i = 3 \/ i = 4
      OBVIOUS
    <3>5. \A i \in 1..(4 - 1) : i = 1 \/ i = 2 \/ i = 3
      OBVIOUS
    <3>6. 1 + 1 = 2 /\ 2 + 1 = 3 /\ 3 + 1 = 4
      OBVIOUS
    <3>7. \A i \in 1..Len(answer) : /\ answer[i].form = "data" => answer[i].item \in ItemsOf(c, served)
                                    /\ answer[i].form \in {"ok", "error"} => i = Len(answer)
                                    /\ answer[i].form # "inline"
                                    /\ answer[i].form = "data" => i = 2
      BY <2>2, <3>1, <3>3, <3>4
    <3>8. \A i \in 1..(Len(answer) - 1) : Opens(answer[i]) <=> InBlock(answer[i + 1])
      BY <3>1, <3>3, <3>5, <3>6 DEF Opens, InBlock
    <3>9. LinesOf(answer, c, served)
      BY <3>1, <3>7, <3>8 DEF LinesOf
    <3>10. answer # <<>> /\ ~InBlock(answer[1])
      <4>1. answer # <<>>
        BY <2>4
      <4> QED BY <4>1, <3>3 DEF InBlock
    <3> QED BY <3>9, <3>10
  <2> QED BY <2>1, <2>3, <2>4
<1> QED BY <1>1, <1>2, <1>3, <1>4 DEF Asked

\* The circuit is one that tor listed, and the host's own, unless the newest
\* was asked for instead.
LEMMA CandidatesAre ==
    ASSUME NEW known \in Seq(Listing), NEW streams \in Seq({<<"stream", k>> : k \in served}),
           NEW c \in Candidates(known, streams)
    PROVE  c[2] \in TorCircuits /\ (c[2] \in served \cup onion \/ latest)
<1> DEFINE all == {known[i] : i \in DOMAIN known}
           ofStream == {d \in all : \E i \in DOMAIN streams : streams[i][2] = d[2]}
           ofHost == {d \in all : d[3] = "BUILT" /\ d[2] \in onion}
           newest == {d \in all : d[3] = "BUILT" /\ \A e \in all : e[3] = "BUILT" => e[2] <= d[2]}
<1>1. \A d \in all : d \in Listing /\ d[2] \in TorCircuits /\ d[2] \in Nat
  <2>1. \A d \in all : d \in Listing
    OBVIOUS
  <2> HIDE DEF all
  <2>2. \A d \in Listing : d[2] \in TorCircuits
    BY DEF Listing
  <2> QED BY <2>1, <2>2, TorAssumption
<1>2. \A d \in ofStream : d \in all /\ d[2] \in served
  <2>1. \A i \in DOMAIN streams : streams[i] \in {<<"stream", k>> : k \in served}
    OBVIOUS
  <2>2. \A i \in DOMAIN streams : streams[i][2] \in served
    BY <2>1
  <2> QED BY <2>2
<1>3. ofHost # {} => (CHOOSE d \in ofHost : \A e \in ofHost : d[2] <= e[2]) \in ofHost
  <2> SUFFICES ASSUME ofHost # {}
               PROVE  \E d \in ofHost : \A e \in ofHost : d[2] <= e[2]
    OBVIOUS
  <2> DEFINE T == {d[2] : d \in ofHost}
  <2>1. T \subseteq Nat /\ T # {}
    BY <1>1
  <2>2. PICK t \in T : \A u \in T : t <= u
    <3> HIDE DEF T
    <3> QED BY <2>1, SmallestNumber
  <2> QED BY <2>2
<1>4. /\ ofStream # {} => c \in ofStream
      /\ ofStream = {} /\ ofHost # {} => c \in ofHost
      /\ ofStream = {} /\ ofHost = {} => latest /\ c \in newest
  <2> HIDE DEF all
  <2>1. c \in CASE ofStream # {} -> ofStream
             [] ofStream = {} /\ ofHost # {} -> {CHOOSE d \in ofHost : \A e \in ofHost : d[2] <= e[2]}
             [] OTHER -> IF latest THEN newest ELSE {}
    BY DEF Candidates, all
  <2> HIDE DEF ofStream, ofHost, newest
  <2>2. CASE ofStream # {}
    BY <2>1, <2>2
  <2>3. CASE ofStream = {} /\ ofHost # {}
    BY <2>1, <2>3, <1>3
  <2>4. CASE ofStream = {} /\ ofHost = {}
    BY <2>1, <2>4
  <2> QED BY <2>2, <2>3, <2>4
<1>5. \A d \in ofHost : d \in all /\ d[2] \in onion
  OBVIOUS
<1>6. \A d \in newest : d \in all
  OBVIOUS
<1> HIDE DEF all, ofStream, ofHost, newest
<1> QED BY <1>1, <1>2, <1>4, <1>5, <1>6

Steps == {"write", "writing", "read", "block"}

\* The next relay is asked for, or the circuit is shown.
LEMMA AskHopKeeps ==
    ASSUME step \in Steps, outcome = "pending", UNCHANGED <<onion, latest, served>>,
           shown'[1] \in TorCircuits, shown'[1] \in served \cup onion \/ latest,
           hops' \in Seq(UNION {HopIs(i)' : i \in 1..Len(Path')}),
           Len(hops') <= Len(Path'), \A i \in 1..Len(hops') : hops'[i] \in HopIs(i)',
           AskHop(Len(hops') + 1)
    PROVE  step' \in {"write", "settled"} /\ CommandInTurn' /\ FoundIsTrue' /\ ShownIsTrue'
<1>1. Len(hops') \in Nat /\ Len(Path') \in Nat /\ DOMAIN hops' = 1..Len(hops')
  BY TorAssumption DEF Path
<1>2. FoundIsTrue'
  BY DEF FoundIsTrue
<1> DEFINE h == Len(hops')
           n == Len(Path')
           go == h + 1 <= n /\ ~(shown'[2] = "EXTENDED" /\ h + 1 > 1)
<1>3. CASE go
  <2>1. /\ command' = <<"relay", Path'[h + 1], h + 1>> /\ step' = "write" /\ outcome' = "pending"
    BY <1>3 DEF AskHop, Ask, Path
  <2>2. CommandInTurn'
    BY <2>1, <1>3 DEF CommandInTurn
  <2>3. ShownIsTrue'
    BY <2>1 DEF ShownIsTrue
  <2> QED BY <2>1, <2>2, <2>3, <1>2
<1>4. CASE ~go
  <2>1. outcome' = "shown" /\ step' = "settled"
    <3>1. ~(h + 1 <= Len(CircuitPaths[shown'[1]]) /\ ~(shown'[2] = "EXTENDED" /\ h + 1 > 1))
      BY <1>4 DEF Path
    <3> QED BY <3>1 DEF AskHop
  <2>2. CommandInTurn'
    BY <2>1 DEF CommandInTurn
  <2>3. shown'[2] = "BUILT" => Len(hops') = Len(Path')
    BY <1>1, <1>4
  <2>4. \A i \in DOMAIN hops' :
          hops'[i] = <<>> \/ hops'[i] = <<<<"relay", Path'[i], i>>>>
    BY <1>1 DEF HopIs
  <2>5. ShownIsTrue'
    BY <1>1, <2>3, <2>4 DEF ShownIsTrue, Path
  <2> QED BY <2>1, <2>2, <2>5, <1>2
<1> QED BY <1>3, <1>4

\* The reply to a command, and what queryTorCircuitForHost does with it.
LEMMA ProceedKeeps ==
    ASSUME QueryInv, step \in Steps, UNCHANGED <<onion, latest, served>>, NEW answer,
           command[1] = "circuit-status" => answer \in Seq(Listing),
           command[1] = "stream-status" => answer \in Seq({<<"stream", k>> : k \in served}),
           command[1] = "relay" => answer \in {<<>>, <<command>>},
           Proceed(answer)
    PROVE  step' \in {"write", "settled"} /\ CommandInTurn' /\ FoundIsTrue' /\ ShownIsTrue'
<1>0. /\ outcome = "pending"
      /\ \/ command \in Asked /\ hops = <<>>
            /\ (command[1] = "stream-status" => circuitLines \in Seq(Listing))
         \/ /\ command = <<"relay", Path[Len(hops) + 1], Len(hops) + 1>>
            /\ Len(hops) + 1 <= Len(Path)
  BY DEF QueryInv, CommandInTurn, Steps
<1>1. CASE command = <<"AUTHENTICATE">>
  <2>1. command' = <<"circuit-status">> /\ step' = "write" /\ outcome' = "pending" /\ hops' = <<>>
    BY <1>0, <1>1 DEF Proceed, Ask, found
  <2> QED BY <2>1 DEF CommandInTurn, FoundIsTrue, ShownIsTrue, Found, Asked
<1>2. CASE command = <<"circuit-status">>
  <2>1. /\ command' = <<"stream-status">> /\ step' = "write" /\ outcome' = "pending" /\ hops' = <<>>
        /\ circuitLines' \in Seq(Listing)
    BY <1>0, <1>2 DEF Proceed, Ask
  <2> QED BY <2>1 DEF CommandInTurn, FoundIsTrue, ShownIsTrue, Found, Asked
<1>3. CASE command = <<"stream-status">>
  <2> DEFINE C == Candidates(circuitLines, answer)
  <2>0. hops = <<>> /\ circuitLines \in Seq(Listing)
    BY <1>0, <1>3
  <2>1. IF C = {} THEN Settle("none")
        ELSE \E c \in C : shown' = <<c[2], c[3]>> /\ AskHop(1) /\ UNCHANGED <<circuitLines, hops>>
    BY <1>3 DEF Proceed
  <2>2. CASE C = {}
    <3>1. step' = "settled" /\ outcome' = "none"
      BY <2>1, <2>2 DEF Settle
    <3> QED BY <3>1 DEF CommandInTurn, FoundIsTrue, ShownIsTrue, Found
  <2>3. CASE C # {}
    <3>1. PICK c \in C : shown' = <<c[2], c[3]>> /\ AskHop(1) /\ UNCHANGED <<circuitLines, hops>>
      BY <2>1, <2>3
    <3>2. c[2] \in TorCircuits /\ (c[2] \in served \cup onion \/ latest)
      BY <1>3, <2>0, CandidatesAre
    <3> HIDE DEF C
    <3>3. shown'[1] \in TorCircuits /\ (shown'[1] \in served \cup onion \/ latest)
      BY <3>1, <3>2
    <3>4. hops' = <<>> /\ Len(hops') = 0 /\ Len(Path') \in Nat
      BY <2>0, <3>1, <3>3, TorAssumption DEF Path
    <3>5. AskHop(Len(hops') + 1)
      BY <3>1, <3>4
    <3>6. /\ hops' \in Seq(UNION {HopIs(i)' : i \in 1..Len(Path')}) /\ Len(hops') <= Len(Path')
          /\ \A i \in 1..Len(hops') : hops'[i] \in HopIs(i)'
      BY <3>4
    <3> QED BY <1>0, <3>3, <3>4, <3>5, <3>6, AskHopKeeps
  <2> QED BY <2>2, <2>3
<1>4. CASE /\ command = <<"relay", Path[Len(hops) + 1], Len(hops) + 1>> /\ Len(hops) + 1 <= Len(Path)
  <2> DEFINE h == Len(hops) + 1
  <2>1. command[1] = "relay" /\ command[3] = h /\ command # <<>>
    BY <1>4
  <2>2. /\ shown[1] \in TorCircuits /\ (shown[1] \in served \cup onion \/ latest)
        /\ hops \in Seq(UNION {HopIs(i) : i \in 1..Len(Path)}) /\ Len(hops) <= Len(Path)
        /\ \A i \in 1..Len(hops) : hops[i] \in HopIs(i)
    BY <2>1, <1>0 DEF QueryInv, FoundIsTrue, Found
  <2>3. hops' = Append(hops, answer) /\ UNCHANGED shown /\ AskHop(h + 1)
    BY <2>1 DEF Proceed
  <2>4. Len(hops) \in Nat /\ Len(Path) \in Nat /\ h \in 1..Len(Path)
    BY <2>2, <1>4, TorAssumption DEF Path
  <2>5. answer \in HopIs(h)
    BY <2>1, <1>4 DEF HopIs
  <2>6. /\ Len(hops') = h /\ hops' \in Seq(UNION {HopIs(i) : i \in 1..Len(Path)})
        /\ \A i \in 1..Len(hops') : hops'[i] = IF i <= Len(hops) THEN hops[i] ELSE answer
    BY <2>2, <2>3, <2>4, <2>5
  <2>7. \A i \in 1..Len(hops') : hops'[i] \in HopIs(i)
    BY <2>2, <2>4, <2>5, <2>6
  <2>8. Path' = Path /\ \A i \in 1..Len(Path) : HopIs(i)' = HopIs(i)
    BY <2>3 DEF Path, HopIs
  <2>9. \A i \in 1..Len(hops') : hops'[i] \in HopIs(i)'
    BY <2>3, <2>7 DEF Path, HopIs
  <2>10. hops' \in Seq(UNION {HopIs(i)' : i \in 1..Len(Path')})
    BY <2>3, <2>6 DEF Path, HopIs
  <2>11. shown'[1] \in TorCircuits /\ (shown'[1] \in served \cup onion \/ latest)
    BY <2>2, <2>3
  <2>12. Len(hops') <= Len(Path') /\ AskHop(Len(hops') + 1)
    BY <2>3, <2>4, <2>6, <2>8
  <2> QED BY <1>0, <2>9, <2>10, <2>11, <2>12, AskHopKeeps
<1> QED BY <1>0, <1>1, <1>2, <1>3, <1>4 DEF Asked

LEMMA ThrowKeeps ==
    ASSUME QueryInv, step \in Steps, UNCHANGED <<onion, latest, served>>, Throw
    PROVE  step' \in {"write", "settled"} /\ CommandInTurn' /\ FoundIsTrue' /\ ShownIsTrue'
<1>1. CASE command[1] = "relay"
  <2>1. Proceed(<<>>)
    BY <1>1 DEF Throw
  <2>2. <<>> \in {<<>>, <<command>>}
    OBVIOUS
  <2> QED BY <1>1, <2>1, <2>2, ProceedKeeps
<1>2. CASE command[1] # "relay"
  <2>1. step' = "settled" /\ outcome' = "error"
    BY <1>2 DEF Throw, Settle
  <2> QED BY <2>1 DEF CommandInTurn, FoundIsTrue, ShownIsTrue, Found
<1> QED BY <1>1, <1>2

\* Nothing is found out meanwhile.
LEMMA SameQuery ==
    ASSUME QueryInv, UNCHANGED <<command, found, outcome, latest, onion>>, served \subseteq served',
           step' = step \/ (step \in Steps /\ step' \in Steps)
    PROVE  CommandInTurn' /\ FoundIsTrue' /\ ShownIsTrue'
<1>1. UNCHANGED <<circuitLines, shown, hops>>
  BY DEF found
<1>2. CommandInTurn'
  BY <1>1 DEF QueryInv, CommandInTurn, Steps, Path
<1>3. FoundIsTrue'
  <2>1. (Found <=> Found') /\ Path' = Path /\ \A i \in 1..Len(Path) : HopIs(i)' = HopIs(i)
    BY <1>1 DEF Found, Path, HopIs
  <2>2. FoundIsTrue
    BY DEF QueryInv
  <2> QED BY <1>1, <2>1, <2>2 DEF FoundIsTrue, HopIs, Path
<1>4. ShownIsTrue'
  <2>1. ShownIsTrue
    BY DEF QueryInv
  <2> QED BY <1>1, <2>1 DEF ShownIsTrue
<1> QED BY <1>2, <1>3, <1>4

\* The reading goes on as before, or is over.
LEMMA SameReading ==
    ASSUME QueryInv, served \subseteq served', UNCHANGED <<step, command, reply, received, wire, commandsDue>>
    PROVE  ReadingInTurn'
<1>1. ReadingInTurn /\ Due' = Due
  BY DEF QueryInv, Due
<1>2. /\ Seq(LinesFor(command, served)) \subseteq Seq(LinesFor(command, served'))
      /\ Seq(ItemsOf(command, served)) \subseteq Seq(ItemsOf(command, served'))
      /\ LinesOf(Due, command, served) => LinesOf(Due, command, served')
  BY LinesStay
<1> QED BY <1>1, <1>2 DEF ReadingInTurn

LEMMA TorChangeKeeps == ASSUME QueryInv, torChange PROVE QueryInv'
<1>1. /\ UNCHANGED <<onion, commandsDue, wire, wireEnd, latest, step, command, received, endSeen,
                     reply, found, outcome>>
      /\ served \subseteq served'
  BY DEF torChange
<1>2. TorTyped'
  <2>1. TorTyped /\ UNCHANGED hops
    BY <1>1 DEF QueryInv, found
  <2>2. CASE \E c \in TorCircuits, s \in {"none", "EXTENDED", "BUILT"} :
                /\ circuits[c] # s /\ circuits' = [circuits EXCEPT ![c] = s]
                /\ hostStream' = IF hostStream = c THEN 0 ELSE hostStream
                /\ UNCHANGED served
    BY <1>1, <2>1, <2>2 DEF TorTyped, Statuses
  <2>3. CASE \E c \in TorCircuits :
                /\ circuits[c] = "BUILT" /\ (onion # {} => c \in onion)
                /\ hostStream' = c /\ served' = served \cup {c} /\ UNCHANGED circuits
    BY <1>1, <2>1, <2>3 DEF TorTyped
  <2> QED BY <2>2, <2>3 DEF torChange
<1>3. NothingLeft'
  BY <1>1 DEF QueryInv, NothingLeft
<1> QED BY <1>1, <1>2, <1>3, SameQuery, SameReading DEF QueryInv

LEMMA TorAnswersKeeps == ASSUME QueryInv, torAnswers PROVE QueryInv'
<1>1. /\ UNCHANGED <<torSide, wireEnd, latest, step, command, received, endSeen, reply, found, outcome>>
      /\ commandsDue # <<>> /\ commandsDue' = Tail(commandsDue)
  BY DEF torAnswers
<1>2. UNCHANGED <<onion, circuits, hostStream, served, hops>>
  BY <1>1 DEF torSide, found
<1>3. TorTyped'
  BY <1>1, <1>2 DEF QueryInv, TorTyped
<1>4. NothingLeft'
  BY <1>1 DEF QueryInv, NothingLeft
<1>5. ReadingInTurn'
  <2> SUFFICES ASSUME step \in {"writing", "read", "block"}
               PROVE  ReadingInTurn'
    BY <1>1 DEF ReadingInTurn
  <2>1. /\ commandsDue = <<command>> /\ Due = <<>> /\ step # "block" /\ (step = "read" => reply = <<>>)
        /\ received \in Seq(LinesFor(command, served)) /\ wire \in Seq(LinesFor(command, served))
    BY <1>1 DEF QueryInv, ReadingInTurn
  <2>2. received = <<>> /\ wire = <<>>
    BY <2>1 DEF Due
  <2>3. PICK answer \in Answers(command) : wire' = <<>> \o answer
    BY <2>1, <2>2 DEF torAnswers
  <2>4. command \in Asked \/ command[1] = "relay"
    BY DEF QueryInv, CommandInTurn
  <2>5. LinesOf(answer, command, served) /\ answer # <<>> /\ ~InBlock(answer[1])
    BY <2>4, AnswersAre DEF QueryInv, TorTyped
  <2>6. answer \in Seq(LinesFor(command, served))
    BY <2>5 DEF LinesOf
  <2>7. wire' = answer /\ Due' = answer
    BY <1>1, <2>2, <2>3, <2>6 DEF Due
  <2>8. commandsDue' = <<>>
    BY <1>1, <2>1
  <2>9. step # "writing" => reply = <<>>
    BY <2>1
  <2>10. received' = <<>> /\ command' = command /\ step' = step /\ reply' = reply /\ served' = served
    BY <1>1, <1>2, <2>2
  <2>11. /\ received' \in Seq(LinesFor(command', served')) /\ wire' \in Seq(LinesFor(command', served'))
         /\ LinesOf(Due', command', served') /\ ~InBlock(Due'[1])
    BY <2>5, <2>6, <2>7, <2>10
  <2>12. step' # "writing" => reply' = <<>> /\ reply' \in Seq(ItemsOf(command', served')) /\ Len(reply') <= 1
    BY <2>9, <2>10
  <2> QED BY <2>1, <2>8, <2>10, <2>11, <2>12 DEF ReadingInTurn
<1> QED BY <1>1, <1>2, <1>3, <1>4, <1>5, SameQuery DEF QueryInv

LEMMA TorClosesKeeps == ASSUME QueryInv, torCloses PROVE QueryInv'
<1>1. UNCHANGED <<onion, circuits, hostStream, served, commandsDue, wire, latest, step, command,
                  received, endSeen, reply, hops, outcome>> /\ UNCHANGED found
  BY DEF torCloses, torSide, found
<1>2. TorTyped' /\ NothingLeft'
  BY <1>1 DEF QueryInv, TorTyped, NothingLeft
<1> QED BY <1>1, <1>2, SameQuery, SameReading DEF QueryInv

LEMMA OpenControlKeeps == ASSUME QueryInv, openControl PROVE QueryInv'
<1>1. /\ UNCHANGED <<onion, circuits, hostStream, served, commandsDue, wire, latest,
                     received, endSeen, reply, hops>>
      /\ step = "start"
      /\ \/ step' = "write" /\ command' = <<"AUTHENTICATE">> /\ UNCHANGED outcome
         \/ step' = "settled" /\ outcome' = "error" /\ UNCHANGED command
  BY DEF openControl, torSide, found
<1>2. TorTyped /\ outcome = "pending" /\ hops = <<>> /\ NothingLeft
  BY <1>1 DEF QueryInv, TorTyped
<1>3. TorTyped'
  BY <1>1, <1>2 DEF TorTyped
<1>4. NothingLeft' /\ ReadingInTurn'
  BY <1>1, <1>2 DEF NothingLeft, ReadingInTurn
<1>5. CommandInTurn' /\ FoundIsTrue' /\ ShownIsTrue'
  BY <1>1, <1>2 DEF CommandInTurn, FoundIsTrue, ShownIsTrue, Found, Asked
<1> QED BY <1>3, <1>4, <1>5 DEF QueryInv

\* Lines that arrive are lines that are due.
LEMMA Arrived ==
    ASSUME NEW S, NEW s \in Seq(S), NEW t \in Seq(S), NEW k \in 1..Len(t)
    PROVE  /\ s \o SubSeq(t, 1, k) \in Seq(S) /\ SubSeq(t, k + 1, Len(t)) \in Seq(S)
           /\ (s \o SubSeq(t, 1, k)) \o SubSeq(t, k + 1, Len(t)) = s \o t
<1>0. k \in Nat /\ Len(t) \in Nat /\ k <= Len(t) /\ k + 1 \in Nat
  OBVIOUS
<1> DEFINE a == SubSeq(t, 1, k)
           b == SubSeq(t, k + 1, Len(t))
<1>1. a \in Seq(S) /\ Len(a) = k /\ \A i \in 1..k : a[i] = t[i]
  BY <1>0
<1>2. b \in Seq(S) /\ Len(b) = Len(t) - k /\ \A i \in 1..(Len(t) - k) : b[i] = t[k + i]
  BY <1>0
<1>3. a \o b = t
  <2> HIDE DEF a, b
  <2>1. /\ a \o b \in Seq(S) /\ Len(a \o b) = Len(t)
        /\ \A i \in 1..Len(a \o b) : (a \o b)[i] = t[i]
    <3>1. a \o b \in Seq(S) /\ Len(a \o b) = k + (Len(t) - k) /\ k + (Len(t) - k) = Len(t)
      <4>1. a \o b \in Seq(S) /\ Len(a \o b) = Len(a) + Len(b)
        <5>1. a \in Seq(S) /\ b \in Seq(S)
          BY <1>1, <1>2
        <5> QED BY <5>1
      <4>2. k + (Len(t) - k) = Len(t)
        BY <1>0
      <4> QED BY <4>1, <4>2, <1>1, <1>2
    <3>2. ASSUME NEW i \in 1..Len(t)
          PROVE  (a \o b)[i] = t[i]
      <4>1. CASE i <= k
        BY <4>1, <1>0, <1>1, <1>2
      <4>2. CASE ~(i <= k)
        <5>1. i - k \in 1..(Len(t) - k) /\ k + (i - k) = i
          BY <4>2, <1>0
        <5>2. (a \o b)[i] = b[i - k]
          BY <5>1, <4>2, <1>0, <1>1, <1>2
        <5> QED BY <5>1, <5>2, <1>2
      <4> QED BY <4>1, <4>2
    <3> QED BY <3>1, <3>2
  <2> DEFINE c == a \o b
  <2>2. c \in Seq(S) /\ Len(c) = Len(t) /\ \A i \in 1..Len(c) : c[i] = t[i]
    BY <2>1
  <2> HIDE DEF c
  <2>3. c = t
    BY <2>2
  <2> QED BY <2>3 DEF c
<1>4. (s \o a) \o b = s \o (a \o b)
  <2> HIDE DEF a, b
  <2> QED BY <1>1, <1>2
<1>5. s \o a \in Seq(S)
  <2> HIDE DEF a
  <2> QED BY <1>1
<1> QED BY <1>2, <1>3, <1>4, <1>5

LEMMA OnControlDataKeeps == ASSUME QueryInv, onControlData PROVE QueryInv'
<1>1. /\ UNCHANGED <<onion, circuits, hostStream, served, commandsDue, latest, step, command,
                     endSeen, reply, hops, outcome>>
      /\ UNCHANGED found /\ wire # <<>>
  BY DEF onControlData, torSide, found
<1>2. PICK k \in 1..Len(wire) : received' = received \o SubSeq(wire, 1, k)
                               /\ wire' = SubSeq(wire, k + 1, Len(wire))
  BY DEF onControlData
<1>3. TorTyped' /\ NothingLeft'
  BY <1>1 DEF QueryInv, TorTyped, NothingLeft
<1>4. ReadingInTurn'
  <2> SUFFICES ASSUME step \in {"writing", "read", "block"}
               PROVE  ReadingInTurn'
    BY <1>1 DEF ReadingInTurn
  <2> DEFINE L == LinesFor(command, served)
  <2>1. ReadingInTurn /\ received \in Seq(L) /\ wire \in Seq(L)
    BY DEF QueryInv, ReadingInTurn
  <2>2. received' \in Seq(L) /\ wire' \in Seq(L) /\ received' \o wire' = received \o wire
    <3> HIDE DEF L
    <3> QED BY <1>2, <2>1, Arrived, ZenonT(30)
  <2>3. Due' = Due
    BY <2>2 DEF Due
  <2> QED BY <1>1, <2>1, <2>2, <2>3 DEF ReadingInTurn
<1> QED BY <1>1, <1>3, <1>4, SameQuery DEF QueryInv

LEMMA WriteCommandKeeps == ASSUME QueryInv, writeCommand PROVE QueryInv'
<1>1. /\ UNCHANGED <<onion, circuits, hostStream, served, wire, latest, received, endSeen, reply>>
      /\ step = "write" /\ step \in Steps
  BY DEF writeCommand, torSide, Steps
<1>2. CASE endSeen # "no"
  <2>1. Throw
    BY <1>2 DEF writeCommand
  <2>2. step' \in {"write", "settled"} /\ CommandInTurn' /\ FoundIsTrue' /\ ShownIsTrue'
    BY <1>1, <2>1, ThrowKeeps
  <2>3. TorTyped' /\ NothingLeft' /\ ReadingInTurn'
    BY <1>1, <1>2, <2>2 DEF QueryInv, TorTyped, NothingLeft, ReadingInTurn
  <2> QED BY <2>2, <2>3 DEF QueryInv
<1>3. CASE endSeen = "no"
  <2>1. /\ commandsDue' = Append(commandsDue, command) /\ step' = "writing" /\ step' \in Steps
        /\ UNCHANGED <<command, found, hops, outcome>>
    BY <1>3 DEF writeCommand, found, Steps
  <2>2. commandsDue = <<>> /\ received = <<>> /\ wire = <<>>
    BY <1>1, <1>3 DEF QueryInv, NothingLeft
  <2>3. commandsDue' = <<command'>> /\ received' = <<>> /\ wire' = <<>> /\ Due' = <<>>
    BY <1>1, <2>1, <2>2 DEF Due
  <2>4. LinesOf(<<>>, command', served')
    BY DEF LinesOf
  <2>5. ReadingInTurn'
    BY <2>1, <2>3, <2>4 DEF ReadingInTurn
  <2>6. TorTyped' /\ NothingLeft'
    BY <1>1, <2>1 DEF QueryInv, TorTyped, NothingLeft
  <2> QED BY <1>1, <2>1, <2>5, <2>6, SameQuery DEF QueryInv
<1> QED BY <1>2, <1>3

LEMMA WrittenKeeps == ASSUME QueryInv, written PROVE QueryInv'
<1>1. /\ UNCHANGED <<onion, circuits, hostStream, served, commandsDue, wire, latest, command, received,
                     endSeen, hops, outcome>> /\ UNCHANGED found
      /\ step = "writing" /\ step' = "read" /\ reply' = <<>> /\ step \in Steps /\ step' \in Steps
  BY DEF written, torSide, found, Steps
<1>2. TorTyped' /\ NothingLeft'
  BY <1>1 DEF QueryInv, TorTyped, NothingLeft
<1>3. ReadingInTurn'
  <2>1. ReadingInTurn /\ Due' = Due
    BY <1>1 DEF QueryInv, Due
  <2> QED BY <1>1, <2>1 DEF ReadingInTurn
<1> QED BY <1>1, <1>2, <1>3, SameQuery DEF QueryInv

\* The reading is over when the answer is.
LEMMA AnswerEnds ==
    ASSUME QueryInv, step \in {"read", "block"},
           UNCHANGED <<onion, circuits, hostStream, served, latest, endSeen, commandsDue, wire>>,
           commandsDue = <<>>, wire = <<>>, received' = <<>>,
           NEW answer, Throw \/ Proceed(answer),
           command[1] = "circuit-status" => answer \in Seq(Listing),
           command[1] = "stream-status" => answer \in Seq({<<"stream", k>> : k \in served}),
           command[1] = "relay" => answer \in {<<>>, <<command>>}
    PROVE  QueryInv'
<1>1. step \in Steps
  BY DEF Steps
<1>2. step' \in {"write", "settled"} /\ CommandInTurn' /\ FoundIsTrue' /\ ShownIsTrue'
  <2>0. UNCHANGED <<onion, latest, served>>
    OBVIOUS
  <2>1. CASE Throw
    BY <1>1, <2>0, <2>1, ThrowKeeps
  <2>2. CASE Proceed(answer)
    BY <1>1, <2>0, <2>2, ProceedKeeps
  <2> QED BY <2>1, <2>2
<1>3. TorTyped' /\ NothingLeft' /\ ReadingInTurn'
  BY <1>2 DEF QueryInv, TorTyped, NothingLeft, ReadingInTurn
<1> QED BY <1>2, <1>3 DEF QueryInv

\* A sequence that has one element at most.
LEMMA AtMostOnce ==
    ASSUME NEW c, NEW q \in Seq({c}), Len(q) <= 1
    PROVE  q \in {<<>>, <<c>>}
<1>1. Len(q) = 0 \/ Len(q) = 1
  <2> DEFINE n == Len(q)
  <2>1. n \in Nat /\ n <= 1
    OBVIOUS
  <2> HIDE DEF n
  <2>2. n = 0 \/ n = 1
    BY <2>1
  <2> QED BY <2>2 DEF n
<1>2. CASE Len(q) = 0
  BY <1>2
<1>3. CASE Len(q) = 1
  <2>1. q[1] = c
    BY <1>3
  <2> QED BY <1>3, <2>1
<1> QED BY <1>1, <1>2, <1>3

LEMMA GetInfoKeeps == ASSUME QueryInv, getInfo PROVE QueryInv'
<1> DEFINE line == Head(received)
           rest == Tail(received)
           L == LinesFor(command, served)
<1>1. /\ UNCHANGED <<onion, circuits, hostStream, served, commandsDue, wire, wireEnd, latest, endSeen>>
      /\ step \in {"read", "block"} /\ received # <<>> /\ received' = rest
  BY DEF getInfo, torSide
<1>2. /\ received \in Seq(L) /\ wire \in Seq(L)
      /\ commandsDue = <<>> \/ Due = <<>>
      /\ LinesOf(Due, command, served)
      /\ Due # <<>> => (step = "block" <=> InBlock(Due[1]))
      /\ reply \in Seq(ItemsOf(command, served))
      /\ command[1] = "relay" =>
           /\ Len(reply) <= 1
           /\ reply # <<>> => \A i \in 1..Len(Due) : Due[i].form # "data"
  BY <1>1 DEF QueryInv, ReadingInTurn
<1>3. /\ rest \in Seq(L) /\ Due # <<>> /\ Due[1] = line /\ rest \o wire = Tail(Due) /\ line \in L
      /\ 1 \in 1..Len(Due)
  <2> HIDE DEF L
  <2>1. rest \in Seq(L) /\ line \in L /\ Len(received) \in Nat \ {0} /\ received[1] = line
    BY <1>1, <1>2
  <2>2. Len(Due) = Len(received) + Len(wire) /\ Due \in Seq(L) /\ Due[1] = received[1] /\ Len(wire) \in Nat
    BY <1>1, <1>2, <2>1 DEF Due
  <2>3. Due # <<>> /\ 1 \in 1..Len(Due)
    BY <2>1, <2>2
  <2>4. rest \o wire = Tail(Due)
    BY <1>1, <1>2 DEF Due
  <2> QED BY <2>1, <2>2, <2>3, <2>4
<1>4. commandsDue = <<>> /\ (step = "block" <=> InBlock(line))
  BY <1>2, <1>3
<1>5. /\ LinesOf(Tail(Due), command, served)
      /\ Tail(Due) # <<>> => (Opens(line) <=> InBlock(Tail(Due)[1]))
      /\ line.form \in {"ok", "error"} => Tail(Due) = <<>>
      /\ \A i \in 1..Len(Tail(Due)) : Tail(Due)[i] = Due[i + 1] /\ i + 1 \in 1..Len(Due)
  BY <1>2, <1>3, LinesTail
<1>6. line.form = "data" => line.item \in ItemsOf(command, served)
  BY <1>2, <1>3 DEF LinesOf
<1>7. command[1] = "relay" => line.form # "inline"
  BY <1>2, <1>3 DEF LinesOf
<1>8. TorTyped
  BY DEF QueryInv
<1>9. Due' = Tail(Due)
  BY <1>1, <1>3 DEF Due
<1>10. line.form \in {"ok", "error", "inline", "block", "data", "dot"}
  <2> HIDE DEF line
  <2> QED BY <1>3 DEF LinesFor
<1>11. command[1] = "relay" /\ line.form = "data" =>
         reply = <<>> /\ \A i \in 1..Len(Tail(Due)) : Tail(Due)[i].form # "data"
  <2> SUFFICES ASSUME command[1] = "relay", line.form = "data"
               PROVE  reply = <<>> /\ \A i \in 1..Len(Tail(Due)) : Tail(Due)[i].form # "data"
    OBVIOUS
  <2>1. reply = <<>>
    BY <1>2, <1>3
  <2>2. \A i \in 1..Len(Tail(Due)) : Due[i + 1].form # "data"
    <3> SUFFICES ASSUME NEW i \in 1..Len(Tail(Due)), Due[i + 1].form = "data"
                 PROVE  FALSE
      OBVIOUS
    <3>1. i + 1 \in 1..Len(Due) /\ Due[1].form = "data"
      BY <1>3, <1>5
    <3>2. i + 1 = 1
      BY <1>2, <1>3, <3>1 DEF LinesOf
    <3>3. i \in Nat /\ i >= 1
      OBVIOUS
    <3> QED BY <3>2, <3>3
  <2> QED BY <2>1, <2>2, <1>5
<1>12. \A i \in 1..Len(Tail(Due)) : Due[i + 1].form # "data" => Tail(Due)[i].form # "data"
  BY <1>5
\* The answer goes on.
<1>13. ASSUME step' \in {"read", "block"}, UNCHANGED <<command, found, outcome>>,
              step' = "block" <=> Opens(line),
              \/ reply' = reply
              \/ /\ reply' = Append(reply, line.item) /\ line.item \in ItemsOf(command, served)
                 /\ command[1] = "relay" => line.form = "data"
       PROVE  QueryInv'
  <2> HIDE DEF line, rest, L
  <2>1. UNCHANGED hops /\ step \in Steps /\ step' \in Steps
    BY <1>1, <1>13 DEF found, Steps
  <2>2. TorTyped' /\ NothingLeft'
    BY <1>1, <1>8, <1>13, <2>1 DEF TorTyped, NothingLeft
  <2>3. reply' \in Seq(ItemsOf(command, served))
    BY <1>2, <1>13
  <2>4. ASSUME command[1] = "relay"
        PROVE  /\ Len(reply') <= 1
               /\ reply' # <<>> => \A i \in 1..Len(Tail(Due)) : Tail(Due)[i].form # "data"
    <3>1. CASE reply' = reply
      <4>1. reply # <<>> => \A i \in 1..Len(Tail(Due)) : Due[i + 1].form # "data"
        BY <1>2, <1>5, <2>4
      <4> QED BY <4>1, <3>1, <1>2, <1>12, <2>4
    <3>2. CASE reply' = Append(reply, line.item) /\ line.form = "data"
      <4>1. reply = <<>>
        BY <3>2, <2>4, <1>11
      <4>2. reply' = <<line.item>>
        BY <3>2, <4>1
      <4> QED BY <4>2, <3>2, <2>4, <1>11
    <3> QED BY <3>1, <3>2, <1>13, <2>4
  <2>5. wire' \in Seq(L) /\ received' \in Seq(L) /\ commandsDue' = <<>>
    BY <1>1, <1>2, <1>3, <1>4
  <2>6. /\ LinesOf(Due', command', served') /\ Seq(LinesFor(command', served')) = Seq(L)
        /\ Seq(ItemsOf(command', served')) = Seq(ItemsOf(command, served))
    BY <1>1, <1>5, <1>9, <1>13 DEF L
  <2>7. Due' # <<>> => (step' = "block" <=> InBlock(Due'[1]))
    BY <1>5, <1>9, <1>13
  <2>8. command'[1] = "relay" =>
           /\ Len(reply') <= 1
           /\ reply' # <<>> => \A i \in 1..Len(Due') : Due'[i].form # "data"
    BY <1>9, <1>13, <2>4
  <2>9. ReadingInTurn'
    BY <2>3, <2>5, <2>6, <2>7, <2>8, <1>13 DEF ReadingInTurn
  <2> QED BY <1>1, <1>13, <2>1, <2>2, <2>9, SameQuery DEF QueryInv
\* The answer is over.
<1>14. ASSUME step = "read", line.form \in {"ok", "error"},
              Throw \/ Proceed(reply)
       PROVE  QueryInv'
  <2>1. received' = <<>> /\ wire = <<>>
    <3>1. rest \o wire = <<>>
      BY <1>3, <1>5, <1>14
    <3> HIDE DEF rest, line, L
    <3>2. rest \in Seq(L) /\ wire \in Seq(L)
      BY <1>2, <1>3
    <3>3. rest = <<>> /\ wire = <<>>
      BY <3>1, <3>2
    <3> QED BY <3>3, <1>1
  <2>2. /\ command[1] = "circuit-status" => reply \in Seq(Listing)
        /\ command[1] = "stream-status" => reply \in Seq({<<"stream", k>> : k \in served})
    BY <1>2 DEF ItemsOf
  <2>3. command[1] = "relay" => reply \in {<<>>, <<command>>}
    <3> SUFFICES ASSUME command[1] = "relay"
                 PROVE  reply \in {<<>>, <<command>>}
      OBVIOUS
    <3>1. ItemsOf(command, served) = {command}
      BY DEF ItemsOf
    <3>2. reply \in Seq({command}) /\ Len(reply) <= 1
      BY <1>2, <3>1
    <3> QED BY <3>2, AtMostOnce
  <2> QED BY <1>1, <1>4, <1>14, <2>1, <2>2, <2>3, AnswerEnds
<1>15. CASE step = "block" /\ line.form = "dot"
  <2>1. step' = "read" /\ UNCHANGED <<reply, command, found, outcome>>
    BY <1>15 DEF getInfo
  <2> QED BY <2>1, <1>13, <1>15 DEF Opens
<1>16. CASE step = "block" /\ line.form # "dot"
  <2>1. reply' = Append(reply, line.item) /\ UNCHANGED <<step, command, found, outcome>>
    BY <1>16 DEF getInfo
  <2>2. line.form = "data"
    BY <1>4, <1>16 DEF InBlock
  <2> QED BY <2>1, <2>2, <1>6, <1>13, <1>16 DEF Opens
<1>17. CASE step = "read" /\ line.form = "block"
  <2>1. step' = "block" /\ UNCHANGED <<reply, command, found, outcome>>
    BY <1>17 DEF getInfo
  <2> QED BY <2>1, <1>13, <1>17 DEF Opens
<1>18. CASE step = "read" /\ line.form = "inline"
  <2>1. /\ reply' = IF line.item = <<>> THEN reply ELSE Append(reply, line.item)
        /\ UNCHANGED <<step, command, found, outcome>>
    BY <1>18 DEF getInfo
  <2>2. line.item = <<>> \/ line.item \in ItemsOf(command, served)
    <3> HIDE DEF line
    <3> QED BY <1>3 DEF LinesFor
  <2> QED BY <2>1, <2>2, <1>7, <1>13, <1>18 DEF Opens
<1>19. CASE step = "read" /\ line.form = "ok"
  <2>1. Proceed(reply)
    BY <1>19 DEF getInfo
  <2> QED BY <2>1, <1>14, <1>19
<1>20. CASE step = "read" /\ line.form = "error"
  <2>1. Throw
    BY <1>20 DEF getInfo
  <2> QED BY <2>1, <1>14, <1>20
<1> HIDE DEF line
<1>21. ~InBlock(line) \/ step = "block"
  BY <1>4
<1> QED BY <1>1, <1>10, <1>15, <1>16, <1>17, <1>18, <1>19, <1>20, <1>21 DEF InBlock

LEMMA OnControlEndKeeps == ASSUME QueryInv, onControlEnd PROVE QueryInv'
<1>1. /\ UNCHANGED <<onion, circuits, hostStream, served, commandsDue, wire, latest, received, reply>>
      /\ endSeen' = step /\ step # "no"
  BY DEF onControlEnd, torSide, QueryInv, TorTyped
<1>2. CASE step \in {"read", "block"}
  <2>1. Throw /\ step \in Steps
    BY <1>2 DEF onControlEnd, Steps
  <2>2. step' \in {"write", "settled"} /\ CommandInTurn' /\ FoundIsTrue' /\ ShownIsTrue'
    BY <1>1, <2>1, ThrowKeeps
  <2>3. TorTyped' /\ NothingLeft' /\ ReadingInTurn'
    BY <1>1, <2>2 DEF QueryInv, TorTyped, NothingLeft, ReadingInTurn
  <2> QED BY <2>2, <2>3 DEF QueryInv
<1>3. CASE step \notin {"read", "block"}
  <2>1. UNCHANGED <<step, command, found, hops, outcome>>
    BY <1>3 DEF onControlEnd, found
  <2>2. TorTyped' /\ NothingLeft'
    BY <1>1, <2>1 DEF QueryInv, TorTyped, NothingLeft
  <2> QED BY <1>1, <2>1, <2>2, SameQuery, SameReading DEF QueryInv
<1> QED BY <1>2, <1>3

LEMMA OnControlErrorKeeps == ASSUME QueryInv, onControlError PROVE QueryInv'
<1>1. /\ UNCHANGED <<onion, circuits, hostStream, served, commandsDue, latest, received, reply>>
      /\ endSeen' = "reset" /\ wire' = <<>>
  BY DEF onControlError, torSide
<1>2. CASE step = "writing"
  <2>1. Throw /\ step \in Steps
    BY <1>2 DEF onControlError, Steps
  <2>2. step' \in {"write", "settled"} /\ CommandInTurn' /\ FoundIsTrue' /\ ShownIsTrue'
    BY <1>1, <2>1, ThrowKeeps
  <2>3. TorTyped' /\ NothingLeft' /\ ReadingInTurn'
    BY <1>1, <2>2 DEF QueryInv, TorTyped, NothingLeft, ReadingInTurn
  <2> QED BY <2>2, <2>3 DEF QueryInv
<1>3. CASE step # "writing"
  <2>1. UNCHANGED <<step, command, found, hops, outcome>>
    BY <1>3 DEF onControlError, found
  <2>2. TorTyped' /\ NothingLeft'
    BY <1>1, <2>1 DEF QueryInv, TorTyped, NothingLeft
  <2>3. ReadingInTurn'
    <3> SUFFICES ASSUME step \in {"read", "block"}
                 PROVE  ReadingInTurn'
      BY <1>3, <2>1 DEF ReadingInTurn
    <3> DEFINE L == LinesFor(command, served)
    <3>1. ReadingInTurn
      BY DEF QueryInv
    <3>2. received \in Seq(L) /\ wire \in Seq(L) /\ LinesOf(received \o wire, command, served)
      BY <3>1 DEF ReadingInTurn, Due
    <3>3. /\ LinesOf(received, command, served)
          /\ received # <<>> => (received \o wire)[1] = received[1] /\ received \o wire # <<>>
      BY <3>2, LinesCut
    <3>4. Due' = received
      <4> HIDE DEF L
      <4>1. received \o <<>> = received
        BY <3>2
      <4> QED BY <4>1, <1>1 DEF Due
    <3>5. /\ received' = received /\ wire' = <<>> /\ wire' \in Seq(L) /\ command' = command
          /\ served' = served /\ reply' = reply /\ step' = step /\ commandsDue' = commandsDue
      BY <1>1, <2>1
    <3>6. received # <<>> => (step = "block" <=> InBlock(received[1]))
      BY <3>1, <3>3 DEF ReadingInTurn, Due
    <3>7. Due = <<>> => received = <<>>
      BY <3>3 DEF Due
    <3>8. /\ reply \in Seq(ItemsOf(command, served))
          /\ command[1] = "relay" =>
               /\ Len(reply) <= 1
               /\ reply # <<>> => \A i \in 1..Len(received) : received[i].form # "data"
      <4>1. \A i \in 1..Len(received) : i \in 1..Len(Due) /\ Due[i] = received[i]
        <5> HIDE DEF L
        <5> QED BY <3>2 DEF Due
      <4> QED BY <3>1, <4>1 DEF ReadingInTurn
    <3>9. /\ commandsDue = <<>> \/ (commandsDue = <<command>> /\ received = <<>> /\ step # "block")
          /\ step = "read" /\ commandsDue # <<>> => reply = <<>>
      BY <3>1, <3>7 DEF ReadingInTurn
    <3> QED BY <3>2, <3>3, <3>4, <3>5, <3>6, <3>8, <3>9 DEF ReadingInTurn
  <2> QED BY <1>1, <2>1, <2>2, <2>3, SameQuery DEF QueryInv
<1> QED BY <1>2, <1>3

LEMMA QueryNextKeeps == QueryInv /\ [TorNext]_torVars => QueryInv'
<1> SUFFICES ASSUME QueryInv, [TorNext]_torVars
             PROVE  QueryInv'
  OBVIOUS
<1>1. CASE TorNext
  BY <1>1, TorChangeKeeps, TorAnswersKeeps, TorClosesKeeps, OpenControlKeeps, OnControlDataKeeps,
     WriteCommandKeeps, WrittenKeeps, GetInfoKeeps, OnControlEndKeeps, OnControlErrorKeeps DEF TorNext
<1>2. CASE UNCHANGED torVars
  <2>1. UNCHANGED <<onion, circuits, hostStream, served, commandsDue, wire, latest, step, command,
                    received, endSeen, reply, hops, outcome>> /\ UNCHANGED found
    BY <1>2 DEF torVars, torSide, found
  <2>2. TorTyped' /\ NothingLeft'
    BY <2>1 DEF QueryInv, TorTyped, NothingLeft
  <2> QED BY <2>1, <2>2, SameQuery, SameReading DEF QueryInv
<1> QED BY <1>1, <1>2

\* Whatever tor does meanwhile, and wherever the connection ends: what the
\* query of the control port shows is true.
THEOREM ShownIsAlwaysTrue == TorSpec => []ShownIsTrue
<1>1. TorInit => QueryInv
  <2> SUFFICES ASSUME TorInit
               PROVE  QueryInv
    OBVIOUS
  <2>1. TorTyped /\ NothingLeft
    BY DEF TorInit, TorTyped, NothingLeft, Statuses
  <2>2. ReadingInTurn /\ CommandInTurn /\ FoundIsTrue /\ ShownIsTrue
    BY DEF TorInit, ReadingInTurn, CommandInTurn, FoundIsTrue, ShownIsTrue, Found
  <2> QED BY <2>1, <2>2 DEF QueryInv
<1>2. QueryInv => ShownIsTrue
  BY DEF QueryInv
<1> QED BY <1>1, <1>2, QueryNextKeeps, PTL DEF TorSpec
=============================================================================
