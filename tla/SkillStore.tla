----------------------------- MODULE SkillStore ----------------------------
(***************************************************************************)
(* Versions of one Skill: packages in directories named by their digest,   *)
(* and a registry of the versions, the active one and the one before it.   *)
(* Gateways share both; every change loads the registry and replaces it    *)
(* under the lock of the store, and may fail or die on the way.  Reads     *)
(* take no lock and change nothing: they look up a version and verify its  *)
(* package against the digest before and after.                            *)
(***************************************************************************)
EXTENDS FiniteSets

CONSTANTS
    Calls,              \* slots for concurrent calls, of any Gateway
    Digests,            \* contents of the packages that are offered
    Declared,           \* Declared[d]: the version the package d declares, or None
    None

VARIABLES
    registry,           \* versions, active version, previous active version
    package,            \* package[d]: the directory of version d
    lock,               \* the call that holds .skills.lock, or None
    call                \* call[c]: operation, step and locals

vars == <<registry, package, lock, call>>

SkillAssumption == None \notin Calls \cup Digests

Versions == Digests \cup {None}
Registry == [versions : SUBSET Digests, active : Versions, previous : Versions]
Empty == [versions |-> {}, active |-> None, previous |-> None]

Call == [op : {None, "install", "activate", "rollback"}, digest : Versions,
         activate : BOOLEAN, pc : {"idle", "locked", "loaded", "moved", "cleanup"},
         loaded : Registry]
Idle == [op |-> None, digest |-> None, activate |-> FALSE, pc |-> "idle", loaded |-> Empty]

TypeOK ==
    /\ registry \in Registry
    /\ package \in [Digests -> {"absent", "whole", "changed"}]
    /\ lock \in Calls \cup {None}
    /\ call \in [Calls -> Call]
    /\ \A c \in Calls : lock = c <=> call[c].pc # "idle"

Init ==
    /\ registry = Empty
    /\ package = [d \in Digests |-> "absent"]
    /\ lock = None
    /\ call = [c \in Calls |-> Idle]

At(c, op, step) == call[c].op = op /\ call[c].pc = step
Step(c, step) == call' = [call EXCEPT ![c].pc = step] /\ UNCHANGED lock
Return(c) == call' = [call EXCEPT ![c] = Idle] /\ lock' = None

(* assertVersionIntegrity: the package is what was installed.              *)
Intact(d) == package[d] = "whole"

Acquire(c, op, d, activate) ==
    /\ call[c].pc = "idle"
    /\ lock = None
    /\ lock' = c
    /\ call' = [call EXCEPT ![c] = [Idle EXCEPT !.op = op, !.digest = d,
                                       !.activate = activate, !.pc = "locked"]]
    /\ UNCHANGED <<registry, package>>

(* install loads once the package was fetched, copied and validated.       *)
Load(c) ==
    /\ call[c].pc = "locked"
    /\ call' = [call EXCEPT ![c].loaded = registry, ![c].pc = "loaded"]
    /\ UNCHANGED <<registry, package, lock>>

(* The registry with v active, and the version that was active remembered. *)
WithActive(r, v) ==
    [r EXCEPT !.active = v, !.previous = IF r.active = None THEN @ ELSE r.active]

-----------------------------------------------------------------------------
(* Installing a package.                                                   *)

Conflict(r, d) ==
    Declared[d] # None /\ \E v \in r.versions : v # d /\ Declared[v] = Declared[d]

InstallKnown(c) ==
    /\ At(c, "install", "loaded")
    /\ call[c].digest \in call[c].loaded.versions
    /\ Intact(call[c].digest)
    /\ call[c].activate /\ call[c].loaded.active # call[c].digest
    /\ registry' = WithActive(call[c].loaded, call[c].digest)
    /\ Return(c)
    /\ UNCHANGED package

(* Mutant: the declared version is compared with the active one's only.   *)
MovePackageUnchecked(c) ==
    /\ At(c, "install", "loaded")
    /\ call[c].digest \notin call[c].loaded.versions
    /\ ~Conflict([call[c].loaded EXCEPT !.versions = @ \cap {call[c].loaded.active}],
                 call[c].digest)
    /\ package[call[c].digest] = "absent"
    /\ package' = [package EXCEPT ![call[c].digest] = "whole"]
    /\ Step(c, "moved")
    /\ UNCHANGED registry

(* A version that declares what another digest declared is refused, and so *)
(* is one whose directory exists: an earlier installation died here.       *)
MovePackage(c) ==
    /\ At(c, "install", "loaded")
    /\ call[c].digest \notin call[c].loaded.versions
    /\ ~Conflict(call[c].loaded, call[c].digest)
    /\ package[call[c].digest] = "absent"
    /\ package' = [package EXCEPT ![call[c].digest] = "whole"]
    /\ Step(c, "moved")
    /\ UNCHANGED registry

RegisterVersion(c) ==
    /\ At(c, "install", "moved")
    /\ LET r == [call[c].loaded EXCEPT !.versions = @ \cup {call[c].digest}] IN
       registry' = IF call[c].activate THEN WithActive(r, call[c].digest) ELSE r
    /\ Return(c)
    /\ UNCHANGED package

RegistrationFails(c) ==
    /\ At(c, "install", "moved")
    /\ Step(c, "cleanup")
    /\ UNCHANGED <<registry, package>>

(* The package is removed again, or in part: an error is swallowed.        *)
RemovePackage(c) ==
    /\ call[c].pc = "cleanup"
    /\ \E left \in {"absent", "changed", package[call[c].digest]} :
          package' = [package EXCEPT ![call[c].digest] = left]
    /\ Return(c)
    /\ UNCHANGED registry

-----------------------------------------------------------------------------
(* Activating a version, or the one that was active before.                *)

Activate(c) ==
    /\ At(c, "activate", "loaded")
    /\ call[c].digest \in call[c].loaded.versions
    /\ Intact(call[c].digest)
    /\ call[c].loaded.active # call[c].digest
    /\ registry' = WithActive(call[c].loaded, call[c].digest)
    /\ Return(c)
    /\ UNCHANGED package

Rollback(c) ==
    /\ At(c, "rollback", "loaded")
    /\ LET previous == call[c].loaded.previous IN
       /\ previous # None
       /\ Intact(previous)
       /\ registry' = WithActive(call[c].loaded, previous)
    /\ Return(c)
    /\ UNCHANGED package

(* A check refuses, nothing is left to do, or the registry is not saved.   *)
Fails(c) ==
    /\ call[c].pc \in {"locked", "loaded"}
    /\ Return(c)
    /\ UNCHANGED <<registry, package>>

(* The Gateway dies; its lock is stale and taken from it.                  *)
Dies(c) ==
    /\ call[c].pc # "idle"
    /\ Return(c)
    /\ UNCHANGED <<registry, package>>

(* Somebody edits an installed package.                                    *)
Edit(d) ==
    /\ package[d] = "whole"
    /\ package' = [package EXCEPT ![d] = "changed"]
    /\ UNCHANGED <<registry, lock, call>>

Next ==
    \/ \E c \in Calls :
          \/ \E d \in Digests, activate \in BOOLEAN : Acquire(c, "install", d, activate)
          \/ \E d \in Digests : Acquire(c, "activate", d, FALSE)
          \/ Acquire(c, "rollback", None, FALSE)
          \/ Load(c) \/ InstallKnown(c) \/ MovePackage(c) \/ RegisterVersion(c)
          \/ RegistrationFails(c) \/ RemovePackage(c)
          \/ Activate(c) \/ Rollback(c) \/ Fails(c) \/ Dies(c)
    \/ \E d \in Digests : Edit(d)

Spec == Init /\ [][Next]_vars

-----------------------------------------------------------------------------
(* However installations fail or die: a registered version has a package,  *)
(* a declared version means one content for ever, and a rollback leads to  *)
(* another registered version.                                             *)
RegistryIsSound ==
    /\ \A v \in registry.versions :
          package[v] # "absent" /\ ~Conflict(registry, v)
    /\ {registry.active, registry.previous} \subseteq registry.versions \cup {None}
    /\ registry.previous # None => registry.active \notin {registry.previous, None}
=============================================================================
