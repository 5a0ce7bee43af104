---------------------------- MODULE ServiceHost -----------------------------
(***************************************************************************)
(* The publisher's host: `anon-service init` and `publish`                 *)
(* (bin/anon-service.mjs) over the files of a data directory               *)
(* (v2-runtime/service_persistence.mjs, v2-runtime/persistence.mjs).       *)
(*                                                                         *)
(* init loads or creates the service identity and writes a descriptor for  *)
(* it; publish loads both.  The identity goes through a temporary file and *)
(* a rename, the descriptor is written in place.  Nothing is synced, so a  *)
(* power loss may truncate what was written last; a killed process leaves  *)
(* the file it was writing.  A file is Absent, Torn (wrong length) or      *)
(* holds a value.  An identity is a number: identities are minted in order *)
(* and the onion address of an identity is the identity itself.            *)
(***************************************************************************)
EXTENDS Integers, FiniteSets

CONSTANTS Inits,       \* processes that run `anon-service init`
          Absent, Torn,\* contents of a file
          MaxTime,     \* bound: the clock, in seconds
          MaxMinted,   \* bound: identities that are created
          MaxCrash,    \* bound: power losses and kills
          Lifetime     \* --lifetime-seconds

ASSUME HostBounds == MaxTime \in Nat /\ MaxMinted \in Nat /\ MaxCrash \in Nat /\ Lifetime \in Nat
ASSUME FileMarks == Absent # Torn /\ Absent \notin Int /\ Torn \notin Int

Identities == 1..MaxMinted
Descriptor == [addr : 0..MaxMinted, epoch : 0..MaxTime]

VARIABLES now,
          idFile, tmp,   \* identity.bin and identity.bin.tmp
          descFile,      \* descriptor.bin
          unsynced,      \* the files whose bytes may still be lost
          minted, crashes,
          init           \* p -> where the init run is, and the identity it holds

host == <<now, idFile, tmp, descFile, unsynced, minted, crashes, init>>

Idle == [pc |-> "idle", id |-> 0]

HostInit ==
    /\ now = 0 /\ minted = 0 /\ crashes = 0
    /\ idFile = Absent /\ tmp = Absent /\ descFile = Absent /\ unsynced = {}
    /\ init = [p \in Inits |-> Idle]

\* The wall clock.
tick ==
    /\ now < MaxTime /\ now' = now + 1
    /\ UNCHANGED <<idFile, tmp, descFile, unsynced, minted, crashes, init>>

Goto(p, pc, id) == init' = [init EXCEPT ![p] = [pc |-> pc, id |-> id]]

-----------------------------------------------------------------------------
(* anon-service init                                                       *)

\* Mutant: a file that cannot be loaded is taken for a missing one.
loadOrCreateServiceIdentityAnew(p) ==
    /\ init[p].pc = "idle"
    /\ IF idFile \notin {Absent, Torn} THEN Goto(p, "describe", idFile) /\ UNCHANGED minted
       ELSE /\ minted < MaxMinted /\ minted' = minted + 1
            /\ Goto(p, "write", minted + 1)
    /\ UNCHANGED <<now, idFile, tmp, descFile, unsynced, crashes>>

\* loadOrCreateServiceIdentity: a file that is there is loaded, and one of
\* the wrong length makes init fail; otherwise an identity is minted.
loadOrCreateServiceIdentity(p) ==
    /\ init[p].pc = "idle"
    /\ idFile # Torn
    /\ IF idFile # Absent THEN Goto(p, "describe", idFile) /\ UNCHANGED minted
       ELSE /\ minted < MaxMinted /\ minted' = minted + 1
            /\ Goto(p, "write", minted + 1)
    /\ UNCHANGED <<now, idFile, tmp, descFile, unsynced, crashes>>

\* saveServiceIdentity writes the temporary file...
writeIdentity(p) ==
    /\ init[p].pc = "write"
    /\ tmp' = init[p].id /\ Goto(p, "rename", init[p].id)
    /\ UNCHANGED <<now, idFile, descFile, unsynced, minted, crashes>>

\* ... and renames it, which fails when another init renamed it before.
renameIdentity(p) ==
    /\ init[p].pc = "rename"
    /\ IF tmp = Absent
       THEN init' = [init EXCEPT ![p] = Idle] /\ UNCHANGED <<idFile, tmp, unsynced>>
       ELSE /\ idFile' = tmp /\ tmp' = Absent /\ unsynced' = unsynced \cup {"id"}
            /\ Goto(p, "describe", init[p].id)
    /\ UNCHANGED <<now, descFile, minted, crashes>>

\* cmdInit writes descriptor.bin in place: it is truncated first.
openDescriptor(p) ==
    /\ init[p].pc = "describe"
    /\ descFile' = Torn /\ Goto(p, "fill", init[p].id)
    /\ UNCHANGED <<now, idFile, tmp, unsynced, minted, crashes>>

\* buildServiceDescriptorV3: signed by the identity init holds, epoch now.
fillDescriptor(p) ==
    /\ init[p].pc = "fill"
    /\ descFile' = [addr |-> init[p].id, epoch |-> now]
    /\ unsynced' = unsynced \cup {"desc"}
    /\ init' = [init EXCEPT ![p] = Idle]
    /\ UNCHANGED <<now, idFile, tmp, minted, crashes>>

-----------------------------------------------------------------------------
(* anon-service publish                                                    *)

\* cmdPublish: what the process that serves the descriptor works with; it dies
\* unless both files load (a torn descriptor does not parse).
publishLoads ==
    IF idFile \in Identities /\ descFile \in Descriptor
    THEN [id |-> idFile, addr |-> descFile.addr] ELSE Torn

-----------------------------------------------------------------------------
(* Kills and power losses                                                  *)

\* An init run is killed: the file it was writing stays as it is.
killInit(p) ==
    /\ init[p].pc # "idle" /\ crashes < MaxCrash
    /\ init' = [init EXCEPT ![p] = Idle] /\ crashes' = crashes + 1
    /\ UNCHANGED <<now, idFile, tmp, descFile, unsynced, minted>>

\* The operating system writes everything back.
writeBack ==
    /\ unsynced # {} /\ unsynced' = {}
    /\ UNCHANGED <<now, idFile, tmp, descFile, minted, crashes, init>>

\* A power loss ends all processes.  Unsynced files may be truncated, or the
\* rename of identity.bin, and with it what was written later, undone.
powerLoss ==
    /\ crashes < MaxCrash /\ crashes' = crashes + 1
    /\ \/ \E lost \in SUBSET unsynced :
            /\ idFile' = IF "id" \in lost THEN Torn ELSE idFile
            /\ descFile' = IF "desc" \in lost THEN Torn ELSE descFile
       \/ /\ "id" \in unsynced /\ idFile' = Absent
          /\ descFile' = IF "desc" \in unsynced THEN Absent ELSE descFile
    /\ unsynced' = {} /\ tmp' = IF tmp = Absent THEN Absent ELSE Torn
    /\ init' = [p \in Inits |-> Idle]
    /\ UNCHANGED <<now, minted>>

HostNext ==
    \/ tick \/ writeBack \/ powerLoss
    \/ \E p \in Inits : \/ loadOrCreateServiceIdentity(p) \/ writeIdentity(p)
                        \/ renameIdentity(p) \/ openDescriptor(p)
                        \/ fillDescriptor(p) \/ killInit(p)

-----------------------------------------------------------------------------
HostTypeOK ==
    /\ now \in 0..MaxTime /\ minted \in 0..MaxMinted /\ crashes \in 0..MaxCrash
    /\ idFile \in Identities \cup {Absent, Torn} /\ tmp \in Identities \cup {Absent, Torn}
    /\ descFile \in Descriptor \cup {Absent, Torn}
    /\ unsynced \subseteq {"id", "desc"}
    /\ init \in [Inits -> [pc : {"idle", "write", "rename", "describe", "fill"},
                           id : 0..MaxMinted]]

\* An onion address outlives kills and power losses: an identity that is in
\* identity.bin is replaced by none, and is lost only by a power loss before it
\* was written back (saveServiceIdentity does not sync); a torn file is refused
\* and never taken for a missing one.
IdentityKept ==
    [][ /\ idFile \in Identities =>
             \/ idFile' = idFile
             \/ "id" \in unsynced /\ crashes' > crashes /\ idFile' \in {Absent, Torn}
        /\ idFile = Torn => idFile' = Torn ]_host

\* What publish serves, at whatever moment it starts, is a descriptor signed by
\* the identity in identity.bin: the address that clients know is the one whose
\* introduction keys the service holds.
DescriptorOfIdentity ==
    publishLoads # Torn => publishLoads.addr = publishLoads.id

\* The address of a service is one for good: its identity is never replaced, and
\* what it publishes is signed by that identity (cmdInit and cmdPublish).
AddressKept == []DescriptorOfIdentity /\ IdentityKept
=============================================================================
