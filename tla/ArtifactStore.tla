--------------------------- MODULE ArtifactStore ---------------------------
(***************************************************************************)
(* Artifacts: directories with a payload and its metadata, within a budget *)
(* of bytes.  Publications, deletions and cleanups of all Gateways take    *)
(* the lock of the store; a publication first cleans up, adds up what is   *)
(* stored, and then makes the directory, copies the payload and writes the *)
(* metadata, any of which may fail or be cut short by a death.  A cleanup  *)
(* removes whatever has expired or has no metadata.  Reads and downloads   *)
(* take no lock and change nothing.                                        *)
(***************************************************************************)
EXTENDS Naturals, FiniteSetsExt

CONSTANTS
    Calls,              \* slots for concurrent calls, of any Gateway
    Artifacts,          \* artifact ids
    MaxBytes,           \* maxStoreBytes
    Sizes,              \* sizes of the files that are published
    None

VARIABLES
    entry,              \* entry[a]: stage, bytes of the payload, expired
    lock,               \* the call that holds .artifact-store.lock, or None
    call                \* call[c]: operation, step and locals

vars == <<entry, lock, call>>

ArtifactAssumption ==
    /\ MaxBytes \in Nat \ {0}
    /\ Sizes \subseteq Nat \ {0}
    /\ None \notin Calls \cup Artifacts

Entry == [stage : {"absent", "directory", "copied", "published"}, bytes : Sizes \cup {0},
          expired : BOOLEAN]
Absent == [stage |-> "absent", bytes |-> 0, expired |-> FALSE]

Call == [op : {None, "publish", "delete", "cleanup"},
         pc : {"idle", "cleaning", "cleaned", "admitted", "made", "copied", "abandon"},
         left : SUBSET Artifacts, artifact : Artifacts \cup {None}, bytes : Sizes \cup {0}]
Idle == [op |-> None, pc |-> "idle", left |-> {}, artifact |-> None, bytes |-> 0]

TypeOK ==
    /\ entry \in [Artifacts -> Entry]
    /\ lock \in Calls \cup {None}
    /\ call \in [Calls -> Call]
    /\ \A c \in Calls : lock = c <=> call[c].pc # "idle"

Init ==
    /\ entry = [a \in Artifacts |-> Absent]
    /\ lock = None
    /\ call = [c \in Calls |-> Idle]

Step(c, step) == call' = [call EXCEPT ![c].pc = step] /\ UNCHANGED lock
Return(c) == call' = [call EXCEPT ![c] = Idle] /\ lock' = None

Present == {a \in Artifacts : entry[a].stage # "absent"}
Bytes(as) == MapThenSumSet(LAMBDA a : entry[a].bytes, as)

(* publishFromPath, publishBytes, and the cleanup of init and list.        *)
Acquire(c, op, bytes) ==
    /\ call[c].pc = "idle"
    /\ lock = None
    /\ lock' = c
    /\ call' = [call EXCEPT ![c] = [Idle EXCEPT !.op = op, !.pc = "cleaning",
                                       !.left = Present, !.bytes = bytes]]
    /\ UNCHANGED entry

(* A removal takes everything, or fails with any part still there.         *)
Removals(a) ==
    {entry, [entry EXCEPT ![a] = Absent], [entry EXCEPT ![a].bytes = 0],
     [entry EXCEPT ![a].stage = IF @ = "published" THEN "copied" ELSE @]}

(* An entry that expired or has no metadata goes; what cannot be removed   *)
(* stays for a later pass.                                                 *)
Clean(c, a) ==
    /\ call[c].pc = "cleaning"
    /\ a \in call[c].left
    /\ call' = [call EXCEPT ![c].left = @ \ {a}]
    /\ \/ /\ entry[a].stage # "published" \/ entry[a].expired
          /\ entry' \in Removals(a)
       \/ entry[a].stage = "published" /\ ~entry[a].expired /\ UNCHANGED entry
    /\ UNCHANGED lock

Cleaned(c) ==
    /\ call[c].pc = "cleaning"
    /\ call[c].left = {}
    /\ IF call[c].op = "cleanup" THEN Return(c) ELSE Step(c, "cleaned")
    /\ UNCHANGED entry

(* Mutant: the payload about to be stored is not added.                    *)
AdmitUncounted(c) ==
    /\ call[c].pc = "cleaned"
    /\ Bytes(Present) <= MaxBytes
    /\ Step(c, "admitted")
    /\ UNCHANGED entry

(* assertCapacity counts every payload that is on the disk.                *)
Admit(c) ==
    /\ call[c].pc = "cleaned"
    /\ Bytes(Present) + call[c].bytes <= MaxBytes
    /\ Step(c, "admitted")
    /\ UNCHANGED entry

MakeDirectory(c, a) ==
    /\ call[c].pc = "admitted"
    /\ entry[a].stage = "absent"
    /\ entry' = [entry EXCEPT ![a].stage = "directory"]
    /\ call' = [call EXCEPT ![c].pc = "made", ![c].artifact = a]
    /\ UNCHANGED lock

(* The source may have changed since its size was taken.                   *)
CopyPayload(c, bytes) ==
    /\ call[c].pc = "made"
    /\ entry' = [entry EXCEPT ![call[c].artifact].stage = "copied",
                              ![call[c].artifact].bytes = bytes]
    /\ Step(c, IF bytes = call[c].bytes THEN "copied" ELSE "abandon")

WriteMetadata(c) ==
    /\ call[c].pc = "copied"
    /\ entry' = [entry EXCEPT ![call[c].artifact].stage = "published"]
    /\ Return(c)

PublishFails(c) ==
    /\ call[c].pc \in {"made", "copied"}
    /\ Step(c, "abandon")
    /\ UNCHANGED entry

(* The directory is removed; an error while doing so is swallowed.         *)
Abandon(c) ==
    /\ call[c].pc = "abandon"
    /\ entry' \in Removals(call[c].artifact)
    /\ Return(c)

Delete(c, a) ==
    /\ call[c].pc = "idle"
    /\ lock = None
    /\ entry[a].stage # "absent"
    /\ entry' \in Removals(a)
    /\ UNCHANGED <<lock, call>>

Fails(c) ==
    /\ call[c].pc \in {"cleaned", "admitted"}
    /\ Return(c)
    /\ UNCHANGED entry

(* The Gateway dies; its lock is stale and taken from it.                  *)
Dies(c) ==
    /\ call[c].pc # "idle"
    /\ Return(c)
    /\ UNCHANGED entry

Expire(a) ==
    /\ entry[a].stage = "published"
    /\ entry' = [entry EXCEPT ![a].expired = TRUE]
    /\ UNCHANGED <<lock, call>>

Next ==
    \/ \E c \in Calls :
          \/ Acquire(c, "cleanup", 0)
          \/ \E bytes \in Sizes : Acquire(c, "publish", bytes) \/ CopyPayload(c, bytes)
          \/ \E a \in Artifacts : Clean(c, a) \/ MakeDirectory(c, a) \/ Delete(c, a)
          \/ Cleaned(c) \/ Admit(c) \/ WriteMetadata(c) \/ PublishFails(c) \/ Abandon(c)
          \/ Fails(c) \/ Dies(c)
    \/ \E a \in Artifacts : Expire(a)

Spec == Init /\ [][Next]_vars

-----------------------------------------------------------------------------
(* What is published never exceeds the budget, although sources change     *)
(* while they are copied and dead or failed publications leave payloads.   *)
WithinBudget == Bytes({a \in Artifacts : entry[a].stage = "published"}) <= MaxBytes

(* No other call removes the directory a publication fills, which looks to *)
(* a cleanup like one that was left behind.                                *)
PublicationUndisturbed ==
    \A c \in Calls :
        call[c].pc \in {"made", "copied"} =>
            entry[call[c].artifact].stage = (IF call[c].pc = "made" THEN "directory" ELSE "copied")
=============================================================================
