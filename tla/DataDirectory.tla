---------------------------- MODULE DataDirectory ----------------------------
(***************************************************************************)
(* The files a node keeps, and the programs that make and read them, each  *)
(* await a step and a crash between any two.                               *)
(*                                                                         *)
(* "v1" is the overlay node: anon-node init, add-seed and run, with an     *)
(* identity, a configuration and a seed list.  "v2" is the relay:          *)
(* anon-node-v2 init and run, with an identity and the certificate of its  *)
(* links, and the clients that make an identity on demand in the same      *)
(* default directory.  The two persistence.mjs hold the same code, but for *)
(* the names of the keys.                                                  *)
(*                                                                         *)
(* An identity is the number of the command that made it.  Modes of files  *)
(* and malformed arguments are left out.                                   *)
(***************************************************************************)
EXTENDS Integers, Sequences, FiniteSets

CONSTANTS Processes,   \* programs that may run at once
          Seeds,       \* seed records an operator adds
          MaxCommands  \* bound: commands run in all

ASSUME DirectoryAssumption == MaxCommands \in Nat

NoFile == 0
Torn == -1       \* opened for writing, and not written yet
Whole == 1       \* of the configuration

VARIABLES
    version,
    identityFile, identityTmp,  \* identity.key and identity.key.tmp
    configFile,
    seedFile,                   \* [torn, list]
    certFile, keyFile,          \* link-cert.pem and link-key.pem
    work,                       \* work[p]: what program p is doing
    commands,                   \* commands run so far
    announced,                  \* identities printed, or served under
    added,                      \* seeds that add-seed reported
    raced,                      \* two programs made an identity at once
    disturbed,                  \* a change of the seed list was cut short, or met another one
    mixed                       \* ... or of the certificate and its key

dirVars == <<version, identityFile, identityTmp, configFile, seedFile, certFile, keyFile,
             work, commands, announced, added, raced, disturbed, mixed>>
pairFiles == <<certFile, keyFile, mixed>>
files == <<identityFile, identityTmp, configFile, seedFile, pairFiles>>
history == <<announced, added, raced, disturbed>>

Commands == IF version = "v1" THEN {"init", "add", "run"} ELSE {"init", "create", "run"}

Resting == [command |-> "none", at |-> "idle", made |-> 0, fd |-> "none", list |-> <<>>]

DirectoryInit ==
    /\ version \in {"v1", "v2"}
    /\ identityFile = NoFile /\ identityTmp = NoFile /\ configFile = NoFile
    /\ seedFile = [torn |-> FALSE, list |-> <<>>]
    /\ work = [p \in Processes |-> Resting] /\ commands = 0
    /\ announced = {} /\ added = {} /\ raced = FALSE /\ disturbed = FALSE
    /\ certFile = NoFile /\ keyFile = NoFile /\ mixed = FALSE

At(p, place) == work[p].at = place
GoTo(p, place) == work' = [work EXCEPT ![p].at = place]
die(p) == work' = [work EXCEPT ![p] = Resting]


-----------------------------------------------------------------------------
(* Commands                                                                *)

\* The first thing a command does.
FirstStep(c) == IF version = "v2" THEN IF c = "create" THEN "identity" ELSE "probe"
                ELSE IF c = "init" THEN "probe" ELSE "config"

runCommand(p) ==
    /\ At(p, "idle") /\ commands < MaxCommands /\ commands' = commands + 1
    /\ \E c \in Commands, s \in Seeds :
         work' = [work EXCEPT ![p] = [command |-> c, at |-> FirstStep(c), made |-> commands',
                                      fd |-> "none", list |-> IF c = "add" THEN <<s>> ELSE <<>>]]
    /\ UNCHANGED <<version, files, history>>

\* cmdInit refuses what exists: the configuration of an overlay node, the
\* identity of a relay; run wants it.
probe(p) ==
    /\ At(p, "probe")
    /\ LET found == (IF version = "v1" THEN configFile ELSE identityFile) # NoFile
       IN  IF found = (work[p].command = "run")
           THEN GoTo(p, IF found THEN "load" ELSE "identity") ELSE die(p)
    /\ UNCHANGED <<version, files, commands, history>>

\* loadConfig: bytes that are no JSON, or no file, end the program.
loadConfig(p) ==
    /\ At(p, "config")
    /\ IF configFile # Whole THEN die(p)
       ELSE GoTo(p, IF work[p].command = "add" THEN "read" ELSE "load")
    /\ UNCHANGED <<version, files, commands, history>>

\* The program has its identity: it prints it, or goes on with it.
Holding(p, id) ==
    /\ announced' = announced \cup {id}
    /\ CASE version = "v2" /\ work[p].command = "run" -> GoTo(p, "pair")
         [] version = "v2" /\ work[p].command # "run" -> die(p)
         [] OTHER -> GoTo(p, IF work[p].command = "init" THEN "newConfig" ELSE "read")

-----------------------------------------------------------------------------
(* persistence.mjs                                                         *)

Making == {"open", "write", "rename"}

\* loadOrCreateIdentity: is there one?
loadOrCreateIdentity(p) ==
    /\ At(p, "identity")
    /\ GoTo(p, IF identityFile # NoFile THEN "load" ELSE "open")
    /\ raced' = (raced \/ (identityFile = NoFile /\ \E q \in Processes \ {p} : work[q].at \in Making))
    /\ UNCHANGED <<version, files, commands, announced, added, disturbed>>

\* loadIdentity throws for a file of another length.
loadIdentity(p) ==
    /\ At(p, "load")
    /\ IF identityFile \in {NoFile, Torn} THEN die(p) /\ UNCHANGED announced
       ELSE Holding(p, identityFile)
    /\ UNCHANGED <<version, files, commands, added, raced, disturbed>>

\* saveIdentity opens identity.key.tmp, the same name for every program, ...
openTmp(p) ==
    /\ At(p, "open")
    /\ work' = [work EXCEPT ![p].at = "write", ![p].fd = "tmp"]
    /\ identityTmp' = Torn
    /\ UNCHANGED <<version, identityFile, configFile, seedFile, pairFiles, commands, history>>

\* ... writes it, wherever the file it opened is now, and changes the mode of
\* the file under that name, ...
writeTmp(p) ==
    /\ At(p, "write")
    /\ identityTmp' = IF work[p].fd = "tmp" THEN work[p].made ELSE identityTmp
    /\ identityFile' = IF work[p].fd = "file" THEN work[p].made ELSE identityFile
    /\ IF identityTmp = NoFile THEN die(p) ELSE GoTo(p, "rename")
    /\ UNCHANGED <<version, configFile, seedFile, pairFiles, commands, history>>

\* ... and renames it.  Another program may have done so before, or have
\* opened it again.
rename(p) ==
    /\ At(p, "rename")
    /\ IF identityTmp = NoFile
       THEN die(p) /\ UNCHANGED <<identityFile, identityTmp, announced>>
       ELSE /\ identityFile' = identityTmp /\ identityTmp' = NoFile
            /\ announced' = announced \cup {work[p].made}
            /\ LET moved == [q \in Processes |->
                               [work[q] EXCEPT !.fd = CASE @ = "tmp" -> "file" [] @ = "file" -> "gone"
                                                        [] OTHER -> @]]
               IN  work' = [moved EXCEPT ![p] = IF version = "v2" THEN Resting
                                                ELSE [@ EXCEPT !.at = "newConfig"]]
    /\ UNCHANGED <<version, configFile, seedFile, pairFiles, commands, added, raced, disturbed>>

-----------------------------------------------------------------------------
(* config.mjs                                                              *)

\* writeConfig: opened, then written.
writeConfig(p) ==
    \/ At(p, "newConfig") /\ configFile' = Torn /\ GoTo(p, "writeConfig")
       /\ UNCHANGED <<version, identityFile, identityTmp, seedFile, pairFiles, commands, history>>
    \/ At(p, "writeConfig") /\ configFile' = Whole /\ GoTo(p, "openSeeds")
       /\ UNCHANGED <<version, identityFile, identityTmp, seedFile, pairFiles, commands, history>>

\* The programs other than p that are about to write the list: add-seed from
\* when it has read it, init from its start.
Changing(p) == {q \in Processes \ {p} : \/ At(q, "openSeeds") \/ At(q, "writeSeeds")
                                       \/ (work[q].command = "init" /\ ~At(q, "probe"))}

\* Mutant: the new record only.
addSeedAlone(p) ==
    /\ At(p, "read") /\ work[p].command = "add"
    /\ GoTo(p, "openSeeds")
    /\ disturbed' = (disturbed \/ Changing(p) # {})
    /\ UNCHANGED <<version, files, commands, announced, added, raced>>

\* cmdAddSeed reads the list: none, one that parseSeedList refuses and an empty
\* one are the same to it; a record of that fingerprint ends it.
addSeed(p) ==
    /\ At(p, "read") /\ work[p].command = "add"
    /\ LET known == IF seedFile.torn THEN <<>> ELSE seedFile.list
           new == work[p].list[1]
       IN  IF \E i \in DOMAIN known : known[i] = new THEN die(p) /\ UNCHANGED disturbed
           ELSE /\ work' = [work EXCEPT ![p].at = "openSeeds", ![p].list = Append(known, new)]
                /\ disturbed' = (disturbed \/ Changing(p) # {})
    /\ UNCHANGED <<version, files, commands, announced, added, raced>>

\* writeSeedList: the file is opened, which empties it (an empty list is a list),
\* then written, perhaps in several pieces.
writeSeedList(p) ==
    \/ /\ At(p, "openSeeds") /\ GoTo(p, "writeSeeds")
       /\ seedFile' = [torn |-> FALSE, list |-> <<>>]
       /\ UNCHANGED <<version, identityFile, identityTmp, configFile, pairFiles, commands, history>>
    \/ /\ At(p, "writeSeeds") /\ ~seedFile.torn /\ work[p].list # <<>>
       /\ seedFile' = [seedFile EXCEPT !.torn = TRUE]
       /\ UNCHANGED <<version, identityFile, identityTmp, configFile, pairFiles, work, commands, history>>
    \/ /\ At(p, "writeSeeds") /\ die(p)
       /\ seedFile' = [torn |-> FALSE, list |-> work[p].list]
       /\ added' = added \cup {work[p].list[i] : i \in DOMAIN work[p].list}
       /\ UNCHANGED <<version, identityFile, identityTmp, configFile, pairFiles, commands,
                      announced, raced, disturbed>>

\* cmdRun reads the list it will dial; a malformed one ends it, none is an
\* empty one.
loadSeeds(p) ==
    /\ At(p, "read") /\ work[p].command = "run"
    /\ IF seedFile.torn THEN die(p)
       ELSE work' = [work EXCEPT ![p].at = "running", ![p].list = seedFile.list]
    /\ UNCHANGED <<version, files, commands, history>>

-----------------------------------------------------------------------------
(* self_signed_cert.mjs                                                    *)

PairInWork(p) == \E q \in Processes \ {p} : work[q].at \in {"writeCert", "openKey", "writeKey"}

\* loadOrCreateLinkCert: the pair that is there, or a new one.
loadLinkCert(p) ==
    /\ At(p, "pair")
    /\ work' = [work EXCEPT ![p] = IF certFile # NoFile /\ keyFile # NoFile
                                   THEN [@ EXCEPT !.at = "running", !.list = <<certFile, keyFile>>]
                                   ELSE [@ EXCEPT !.at = "writeCert"]]
    /\ mixed' = (mixed \/ PairInWork(p))
    /\ UNCHANGED <<version, identityFile, identityTmp, configFile, seedFile, certFile, keyFile,
                   commands, history>>

\* Two files are written, one after the other, in place.
createLinkCert(p) ==
    /\ \/ At(p, "writeCert") /\ certFile' = work[p].made /\ GoTo(p, "openKey") /\ UNCHANGED keyFile
       \/ At(p, "openKey") /\ keyFile' = Torn /\ GoTo(p, "writeKey") /\ UNCHANGED certFile
       \/ /\ At(p, "writeKey") /\ keyFile' = work[p].made /\ UNCHANGED certFile
          /\ work' = [work EXCEPT ![p].at = "running", ![p].list = <<work[p].made, work[p].made>>]
    /\ UNCHANGED <<version, identityFile, identityTmp, configFile, seedFile, mixed, commands, history>>

-----------------------------------------------------------------------------
\* A program ends, or is killed at any of its steps.
killed(p) ==
    /\ ~At(p, "idle") /\ die(p)
    /\ disturbed' = (disturbed \/ At(p, "writeSeeds"))
    /\ mixed' = (mixed \/ At(p, "writeKey"))
    /\ UNCHANGED <<version, identityFile, identityTmp, configFile, seedFile, certFile, keyFile, commands, announced, added, raced>>

DirectoryNext ==
    \E p \in Processes :
       \/ runCommand(p) \/ probe(p) \/ loadConfig(p)
       \/ loadOrCreateIdentity(p) \/ loadIdentity(p) \/ openTmp(p) \/ writeTmp(p) \/ rename(p)
       \/ writeConfig(p) \/ addSeed(p) \/ writeSeedList(p) \/ loadSeeds(p)
       \/ loadLinkCert(p) \/ createLinkCert(p)
       \/ killed(p)

DirectorySpec == DirectoryInit /\ [][DirectoryNext]_dirVars

-----------------------------------------------------------------------------
\* The identity an operator was shown, or a program served under, is the one
\* the directory holds, and the file is never half written, wherever programs
\* were killed (saveIdentity renames): except after two programs made one at
\* the same time, with one temporary file between them.
AnnouncedIdentityKept ==
    ~raced => announced \subseteq {identityFile} /\ identityFile # Torn

\* Every seed that add-seed reported is in the list, as long as no two programs
\* changed the list at once and none was killed while it wrote it: cmdAddSeed
\* reads the list, and writeSeedList writes it in place.
SeedsKept ==
    LET inList == {seedFile.list[i] : i \in DOMAIN seedFile.list}
    IN  ~disturbed /\ ~(\E p \in Processes : At(p, "writeSeeds")) =>
            ~seedFile.torn /\ added \subseteq inList

\* A relay serves its links with a certificate and the key that belongs to it,
\* whenever relays were killed and started again before: the two files are
\* written one after the other, and read when both are there.  Except after two
\* relays started in one directory while a pair was made, or one was killed
\* while it wrote the key: then no later one can start (loadOrCreateLinkCert).
LinkPairMatches ==
    ~mixed => \A p \in Processes : version = "v2" /\ At(p, "running") =>
                 work[p].list[1] = work[p].list[2] /\ work[p].list[1] \notin {NoFile, Torn}

\* What an operator was shown or told is what the directory holds, wherever
\* programs were killed (persistence.mjs, config.mjs, self_signed_cert.mjs).
FilesKept == AnnouncedIdentityKept /\ SeedsKept /\ LinkPairMatches
=============================================================================
