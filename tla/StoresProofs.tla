---------------------------- MODULE StoresProofs ----------------------------
(***************************************************************************)
(* Proofs about the files and the stores that the Gateways share.  First   *)
(* FileTools: no lost update, and no file overwritten by a guarded move,   *)
(* for any number of Gateways, calls and paths, guarded or unlocked.  Then *)
(* SkillStore, whatever the packages declare, TaskRooms, for all sets of   *)
(* rooms, workspaces and steps and all limits, and ArtifactStore, for all  *)
(* budgets and sizes.                                                      *)
(***************************************************************************)
EXTENDS FileTools, TLAPS, FiniteSetTheorems, SequenceTheorems, WellFoundedInduction

CONSTANTS
    Calls, Digests, Declared, NoValue,
    Rooms, Workspaces, Steps, PhaseOf, MaxContexts, MaxCapabilities, MaxHandles,
    Artifacts, MaxBytes, Sizes

VARIABLES
    registry, package, skillLock, skillCall,
    room, handlesIssued, task, contextsLock, tasksLock, roomCall,
    entry, artifactLock, artifactCall

Skills == INSTANCE SkillStore WITH call <- skillCall, lock <- skillLock, None <- NoValue
T == INSTANCE TaskRooms WITH call <- roomCall, issued <- handlesIssued, None <- NoValue
A == INSTANCE ArtifactStore WITH call <- artifactCall, lock <- artifactLock, None <- NoValue

-----------------------------------------------------------------------------
(* FileTools.                                                              *)

(* TypeOK in parts.                                                         *)
DiskTyped == disk \in [File -> Version \cup {Gone}] /\ clock \in Nat

CapsTyped ==
  /\ issued \in Nat
  /\ caps \in [Gateway -> SUBSET Capability]
  /\ \A g \in Gateway : IsFiniteSet(caps[g]) /\ Cardinality(caps[g]) <= MaxEntries
  /\ \A g, h \in Gateway : \A k \in caps[g], l \in caps[h] :
       k.id <= issued /\ (k.id = l.id => g = h /\ k = l)

CallsTyped == call \in [Call -> Record]

LocksTyped == lock \in [File -> Call \cup Gateway \cup {None}]

QueuesTyped == queue \in [Gateway -> [File -> Seq(Call)]]

Counted == started \in Nat /\ faults \in Nat /\ crashes \in Nat

(* Which operation gets where, and what it knows there.                     *)
ToolsFit ==
  \A c \in Call :
    /\ call[c].tool = "read" => call[c].pc \in {"idle", "stat", "load", "verify", "show"}
    /\ call[c].tool # "read" => call[c].pc \notin {"idle", "show"}
    /\ call[c].pc = "exists" => call[c].tool \in {"write", "append"}
    /\ call[c].tool = "move" => call[c].src # call[c].dst
    /\ call[c].tool # "read" /\ call[c].pc \in {"stat", "load", "verify"} =>
         call[c].seen \in Data

(* A call that has a lock is past its queue, and the lock is one it needs.  *)
(* While it takes its locks one is still missing.                           *)
OwnLocks ==
  /\ \A c \in Call, f \in File :
       lock[f] = c => f \in Keys(c) /\ call[c].tool # "read" /\ call[c].pc # "queue"
  /\ \A c \in Call : call[c].pc = "lock" => \E f \in Keys(c) : lock[f] # c

(* A mutation that is under way holds the locks of all its paths.           *)
HoldsLocks == \A c \in Call : Mutating(c) => \A f \in Keys(c) : lock[f] = c

(* What a capture has loaded for a mutation is what the file still holds.   *)
CaptureStands ==
  \A c \in Call : call[c].pc = "verify" =>
    /\ call[c].data \in Data
    /\ call[c].tool # "read" => DataAt(call[c].src) = call[c].data

IInv ==
  /\ TypeOK /\ ToolsFit /\ OwnLocks /\ HoldsLocks
  /\ CaptureStands /\ NoLostUpdate /\ GuardedMoveFindsNoFile

LEMMA TypeParts ==
  TypeOK <=> DiskTyped /\ CapsTyped /\ CallsTyped /\ LocksTyped /\ QueuesTyped /\ Counted
  BY DEF TypeOK, DiskTyped, CapsTyped, CallsTyped, LocksTyped, QueuesTyped, Counted

(* The first and the last of one or two paths is one of them.               *)
LEMMA PairMin ==
  ASSUME NEW a \in Nat, NEW b \in Nat, NEW S \in SUBSET {a, b}, S # {}
  PROVE  Min(S) \in S /\ Max(S) \in S
<1>1. (\E x \in S : \A y \in S : x <= y) /\ (\E x \in S : \A y \in S : x >= y)
  <2>1. CASE a \in S /\ b \in S
    BY <2>1
  <2>2. CASE ~(a \in S /\ b \in S)
    <3>1. PICK x \in S : \A y \in S : y = x
      BY <2>2
    <3>2. x <= x /\ x >= x
      OBVIOUS
    <3>3. QED
      BY <3>1, <3>2
  <2>3. QED
    BY <2>1, <2>2
<1>2. QED
  BY <1>1 DEF Min, Max

LEMMA KeysAreFiles ==
  ASSUME CallsTyped, NEW c \in Call
  PROVE  call[c] \in Record /\ call[c].src \in File /\ call[c].dst \in File /\ Keys(c) \subseteq File
BY DEF CallsTyped, Record, Keys

LEMMA InitInvariant == ASSUME Parameters, Init PROVE IInv
<1>1. Idle \in Record /\ Idle.pc = "idle" /\ Idle.tool = "read"
  BY DEF Idle, Record, Parameters, File, Tool
<1>2. DiskTyped
  BY DEF Init, DiskTyped, Version, Data, Parameters
<1>3. CapsTyped
  BY FS_EmptySet DEF Init, CapsTyped, Parameters
<1>4. CallsTyped /\ LocksTyped /\ QueuesTyped /\ Counted
  BY <1>1 DEF Init, CallsTyped, LocksTyped, QueuesTyped, Counted
<1>5. ToolsFit /\ HoldsLocks /\ CaptureStands /\ NoLostUpdate /\ GuardedMoveFindsNoFile
  BY <1>1 DEF Init, ToolsFit, HoldsLocks, CaptureStands, NoLostUpdate, GuardedMoveFindsNoFile,
     Mutating, Checked, Overwrites
<1>6. OwnLocks
  BY <1>1 DEF Init, OwnLocks, Parameters
<1>7. QED
  BY <1>2, <1>3, <1>4, <1>5, <1>6, TypeParts DEF IInv

-----------------------------------------------------------------------------
(* What a step makes of the call that takes it.                             *)

Keeps(c) ==
  /\ call'[c].tool = call[c].tool /\ call'[c].src = call[c].src /\ call'[c].dst = call[c].dst

(* The call returns, or fails and will give up what it has.                 *)
Ends(c) ==
  \/ call'[c] = Idle /\ (call[c].tool = "read" \/ Locked(c) = {})
  \/ Keeps(c) /\ call[c].tool # "read" /\ call'[c].pc = "unlock"

Begins(c) ==
  /\ call[c].pc = "idle"
  /\ \/ call'[c].tool = "read" /\ call'[c].pc = "stat"
     \/ /\ call'[c].tool # "read" /\ call'[c].pc = "queue"
        /\ call'[c].tool = "move" => call'[c].src # call'[c].dst

(* A capture, and the comparison of the capability with it.                 *)
Captures(c) ==
  \/ call[c].pc = "stat" /\ call'[c].pc = "load" /\ call'[c].seen = call[c].seen
  \/ /\ call[c].pc = "load" /\ call'[c].pc = "verify" /\ call'[c].seen = call[c].seen
     /\ disk[call[c].src] # Gone /\ call'[c].data = disk[call[c].src].data
  \/ call[c].pc = "verify" /\ call'[c].pc = "show" /\ call[c].seen = None
  \/ call[c].pc = "show" /\ call'[c].pc = "stat"
  \/ /\ call[c].pc = "verify" /\ call'[c].pc \in {"dest", "act"}
     /\ call[c].tool # "read" /\ call'[c].seen = call[c].seen /\ call[c].seen = call[c].data
     /\ call'[c].pc = "act" => call[c].tool # "move"

(* The ways in, up to the operation.                                        *)
Enters(c) ==
  \/ call[c].pc = "queue" /\ call'[c].pc = "lock"
  \/ call[c].pc = "lock" /\ call'[c].pc = Entered(c) /\ Lock(c)
  \/ call[c].pc = "exists" /\ call'[c].pc = "take"
  \/ /\ call[c].pc = "exists" /\ call'[c].pc = "act"
     /\ disk[call[c].src] = Gone /\ call'[c].seen = Gone
  \/ call[c].pc = "take" /\ call'[c].pc = "stat" /\ call'[c].seen \in Data
  \/ /\ call[c].pc = "dest" /\ call'[c].pc = "act" /\ call'[c].seen = call[c].seen
     /\ disk[call[c].dst] = Gone

Acts(c) ==
  /\ call'[c].seen = call[c].seen
  /\ \/ call[c].pc = "act" /\ call'[c].pc = "matched"
     \/ call[c].pc \in {"act", "matched"} /\ call'[c].pc = "fill"
     \/ call[c].pc = "act" /\ call'[c].pc = "unlink"

LEMMA GotoForm ==
  ASSUME CallsTyped, NEW c \in Call, NEW p, Goto(c, p)
  PROVE  /\ \A d \in Call \ {c} : call'[d] = call[d]
         /\ Keeps(c) /\ call'[c].pc = p /\ call'[c].seen = call[c].seen
         /\ call'[c].data = call[c].data
BY DEF CallsTyped, Goto, Keeps, Record

LEMMA FailForm ==
  ASSUME CallsTyped, NEW c \in Call, Fail(c)
  PROVE  (\A d \in Call \ {c} : call'[d] = call[d]) /\ Ends(c)
<1>1. call' = [call EXCEPT ![c] = Failed(c)]
  BY DEF Fail
<1>2. (\A d \in Call \ {c} : call'[d] = call[d]) /\ call'[c] = Failed(c)
  BY <1>1 DEF CallsTyped
<1>3. call[c].tool = "read" => Ends(c)
  BY <1>2 DEF Failed, Ends
<1>4. ASSUME call[c].tool # "read" PROVE Ends(c)
  <2>1. call'[c] = [call[c] EXCEPT !.pc = "unlock"]
    BY <1>2, <1>4 DEF Failed
  <2>2. QED
    BY <2>1, <1>4, KeysAreFiles DEF Record, Ends, Keeps
<1>5. QED
  BY <1>2, <1>3, <1>4

LEMMA CallStep ==
  ASSUME Parameters, CallsTyped, CapsTyped, ToolsFit,
         NEW c \in Call, Start(c) \/ Progress(c) \/ UnlockFails(c) \/ Fault(c)
  PROVE  /\ \A d \in Call \ {c} : call'[d] = call[d]
         /\ \/ call'[c] = call[c] \/ Ends(c) \/ Begins(c)
            \/ Keeps(c) /\ (Captures(c) \/ Enters(c) \/ Acts(c))
<1> USE DEF CallsTyped
<1>1. call[c] \in Record
  BY KeysAreFiles
<1>2. ASSUME NEW f \in File, Read(c, f)
      PROVE  (\A d \in Call \ {c} : call'[d] = call[d]) /\ Begins(c)
  BY <1>2 DEF Read, Idle, Begins
<1>3. ASSUME NEW tool \in Tool \ {"read"}, NEW src \in File, NEW dst \in File, NEW token,
             Mutate(c, tool, src, dst, token)
      PROVE  (\A d \in Call \ {c} : call'[d] = call[d]) /\ Begins(c)
  <2>1. call'[c].tool = tool /\ call'[c].pc = "queue" /\ call'[c].src = src /\ call'[c].dst = dst
    BY <1>3 DEF Mutate, Idle
  <2>2. tool = "move" => src # dst
    BY <1>3 DEF Mutate
  <2>3. QED
    BY <2>1, <2>2, <1>3 DEF Mutate, Begins
<1>4. ASSUME Stat(c) \/ Load(c)
      PROVE  (\A d \in Call \ {c} : call'[d] = call[d]) /\ Keeps(c) /\ Captures(c)
  <2>1. CASE Stat(c)
    BY <1>1, <2>1 DEF Stat, Keeps, Captures, Record
  <2>2. CASE Load(c)
    BY <1>1, <2>2 DEF Load, Keeps, Captures, Record
  <2>3. QED
    BY <1>4, <2>1, <2>2
<1>5. ASSUME FirstCapture(c) \/ Show(c)
      PROVE  (\A d \in Call \ {c} : call'[d] = call[d]) /\ Keeps(c) /\ Captures(c)
  <2>1. CASE FirstCapture(c)
    BY <1>1, <2>1 DEF FirstCapture, Captured, Keeps, Captures, Record
  <2>2. CASE Show(c)
    BY <1>1, <2>2 DEF Show, Keeps, Captures, Record
  <2>3. QED
    BY <1>5, <2>1, <2>2
<1>6. ASSUME CaptureFails(c) \/ Stale(c) \/ LockTimeout(c) \/ MoveFails(c) \/ Fault(c)
      PROVE  (\A d \in Call \ {c} : call'[d] = call[d]) /\ Ends(c)
  BY <1>6, FailForm DEF CaptureFails, Stale, LockTimeout, MoveFails, Fault
<1>7. ASSUME Issue(c) \/ Leave(c)
      PROVE  (\A d \in Call \ {c} : call'[d] = call[d]) /\ Ends(c)
  BY <1>7 DEF Issue, Leave, Ends
<1>8. ASSUME Admitted(c)
      PROVE  /\ \A d \in Call \ {c} : call'[d] = call[d]
             /\ call'[c] = call[c] \/ (Keeps(c) /\ Enters(c))
  BY <1>8, GotoForm DEF Admitted, Enters
<1>9. ASSUME Lock(c)
      PROVE  /\ \A d \in Call \ {c} : call'[d] = call[d]
             /\ call'[c] = call[c] \/ (Keeps(c) /\ Enters(c))
  <2>1. call[c].pc = "lock" /\ (Goto(c, Entered(c)) \/ UNCHANGED call)
    BY <1>9 DEF Lock
  <2>2. QED
    BY <1>9, <2>1, GotoForm DEF Enters
<1>10. ASSUME Exists(c)
       PROVE  /\ \A d \in Call \ {c} : call'[d] = call[d]
              /\ Ends(c) \/ (Keeps(c) /\ Enters(c))
  <2>1. call[c].pc = "exists" /\ call[c].tool # "read"
    BY <1>10 DEF Exists, ToolsFit
  <2>2. CASE disk[call[c].src] # Gone
    <3>1. call' = [call EXCEPT ![c] = [call[c] EXCEPT !.pc = "take"]]
      BY <1>10, <2>2 DEF Exists
    <3>2. QED
      BY <3>1, <2>1, <1>1 DEF Keeps, Enters, Record
  <2>3. CASE disk[call[c].src] = Gone /\ call[c].token = None
    <3>1. call' = [call EXCEPT ![c] = [call[c] EXCEPT !.pc = "act", !.seen = Gone]]
      BY <1>10, <2>3 DEF Exists
    <3>2. QED
      BY <3>1, <2>1, <2>3, <1>1 DEF Keeps, Enters, Record
  <2>4. CASE disk[call[c].src] = Gone /\ call[c].token # None
    <3>1. Fail(c)
      BY <1>10, <2>4 DEF Exists, Fail
    <3>2. QED
      BY <3>1, FailForm
  <2>5. QED
    BY <2>2, <2>3, <2>4
<1>11. ASSUME Take(c)
       PROVE  /\ \A d \in Call \ {c} : call'[d] = call[d]
              /\ Ends(c) \/ (Keeps(c) /\ Enters(c))
  <2>1. CASE Fail(c)
    BY <2>1, FailForm
  <2>2. CASE ~Fail(c)
    <3>1. PICK k \in {x \in caps[GatewayOf[c]] : x.id = call[c].token} :
              call' = [call EXCEPT ![c].pc = "stat", ![c].seen = k.data]
      BY <1>11, <2>2 DEF Take
    <3>2. k.data \in Data
      BY DEF CapsTyped, Capability, Parameters
    <3>3. QED
      BY <3>1, <3>2, <1>1, <1>11 DEF Take, Keeps, Enters, Record
  <2>3. QED
    BY <2>1, <2>2
<1>12. ASSUME Fresh(c)
       PROVE  (\A d \in Call \ {c} : call'[d] = call[d]) /\ Keeps(c) /\ Captures(c)
  <2>1. /\ call[c].pc = "verify" /\ call[c].tool # "read" /\ call[c].seen = call[c].data
        /\ Goto(c, IF call[c].tool = "move" THEN "dest" ELSE "act")
    BY <1>12 DEF Fresh, Captured, SameVersion
  <2>2. QED
    BY <2>1, GotoForm DEF Captures
<1>13. ASSUME Destination(c)
       PROVE  /\ \A d \in Call \ {c} : call'[d] = call[d]
              /\ Ends(c) \/ (Keeps(c) /\ Enters(c))
  BY <1>13, GotoForm, FailForm DEF Destination, Enters
<1>14. ASSUME NEW data, AppendTo(c, data) \/ Fill(c, data)
       PROVE  (\A d \in Call \ {c} : call'[d] = call[d]) /\ Ends(c)
  BY <1>14, GotoForm DEF AppendTo, Fill, Ends, ToolsFit
<1>15. ASSUME Match(c)
       PROVE  /\ \A d \in Call \ {c} : call'[d] = call[d]
              /\ Ends(c) \/ (Keeps(c) /\ Acts(c))
  BY <1>15, GotoForm, FailForm DEF Match, Acts
<1>16. ASSUME Truncate(c)
       PROVE  (\A d \in Call \ {c} : call'[d] = call[d]) /\ Keeps(c) /\ Acts(c)
  BY <1>16, GotoForm DEF Truncate, Acts
<1>17. ASSUME Rename(c)
       PROVE  /\ \A d \in Call \ {c} : call'[d] = call[d]
              /\ Ends(c) \/ (Keeps(c) /\ Acts(c))
  <2>1. /\ call[c].pc = "act" /\ call[c].tool = "move"
        /\ Goto(c, "unlink") \/ Goto(c, "unlock")
    BY <1>17 DEF Rename
  <2>2. QED
    BY <2>1, GotoForm DEF Acts, Ends
<1>18. ASSUME Unlink(c)
       PROVE  (\A d \in Call \ {c} : call'[d] = call[d]) /\ Ends(c)
  BY <1>18, GotoForm DEF Unlink, Ends, ToolsFit
<1>19. ASSUME Unlock(c) \/ UnlockFails(c) PROVE \A d \in Call : call'[d] = call[d]
  BY <1>19 DEF Unlock, UnlockFails
<1>20. QED
  BY <1>2, <1>3, <1>4, <1>5, <1>6, <1>7, <1>8, <1>9, <1>10, <1>11, <1>12, <1>13, <1>14, <1>15,
     <1>16, <1>17, <1>18, <1>19 DEF Start, Progress

(* A step of the whole: of one call, the death of a Gateway, or none.       *)
LEMMA StepForms ==
  ASSUME Parameters, CallsTyped, CapsTyped, ToolsFit, [Next]_vars
  PROVE  \A c \in Call :
           \/ call'[c] = call[c] \/ Ends(c) \/ Begins(c)
           \/ Keeps(c) /\ (Captures(c) \/ Enters(c) \/ Acts(c))
           \/ call'[c] = Idle /\ (\A f \in File : lock'[f] # c)
<1>1. CASE UNCHANGED vars
  BY <1>1 DEF vars
<1>2. ASSUME NEW g \in Gateway, Crash(g)
      PROVE  \A c \in Call : \/ call'[c] = call[c]
                             \/ call'[c] = Idle /\ (\A f \in File : lock'[f] # c)
  BY <1>2 DEF Crash, Parameters
<1>3. QED
  BY <1>1, <1>2, CallStep DEF Next

LEMMA IdleFields == Idle.pc = "idle" /\ Idle.tool = "read" /\ Idle.src = Idle.dst
  BY DEF Idle

-----------------------------------------------------------------------------
(* Calls, locks and files.                                                  *)

LEMMA ToolsFitStep ==
  ASSUME Parameters, CallsTyped, CapsTyped, ToolsFit, [Next]_vars
  PROVE  ToolsFit'
<1> DEFINE Fits(c) ==
      /\ call[c].tool = "read" => call[c].pc \in {"idle", "stat", "load", "verify", "show"}
      /\ call[c].tool # "read" => call[c].pc \notin {"idle", "show"}
      /\ call[c].pc = "exists" => call[c].tool \in {"write", "append"}
      /\ call[c].tool = "move" => call[c].src # call[c].dst
      /\ call[c].tool # "read" /\ call[c].pc \in {"stat", "load", "verify"} =>
           call[c].seen \in Data
<1>1. SUFFICES ASSUME NEW c \in Call PROVE Fits(c)'
  BY DEF ToolsFit
<1>2. Fits(c)
  BY DEF ToolsFit
<1>3. CASE call'[c] = call[c] \/ call'[c] = Idle
  BY <1>2, <1>3, IdleFields
<1>4. CASE Ends(c) \/ Begins(c)
  BY <1>2, <1>4, IdleFields DEF Ends, Begins, Keeps
<1>5. CASE Keeps(c) /\ Captures(c)
  BY <1>2, <1>5 DEF Keeps, Captures, Parameters
<1>6. CASE Keeps(c) /\ Enters(c)
  <2>1. CASE call[c].pc = "lock"
    <3>1. call'[c].pc = Entered(c) /\ call[c].tool # "read"
      BY <1>2, <1>6, <2>1 DEF Enters
    <3>2. \/ Entered(c) \in {"act", "take"}
          \/ Entered(c) = "exists" /\ call[c].tool \in {"write", "append"}
      BY DEF Entered
    <3>3. QED
      BY <1>2, <1>6, <3>1, <3>2 DEF Keeps
  <2>2. CASE call[c].pc # "lock"
    BY <1>2, <1>6, <2>2 DEF Keeps, Enters
  <2>3. QED
    BY <2>1, <2>2
<1>7. CASE Keeps(c) /\ Acts(c)
  BY <1>2, <1>7 DEF Keeps, Acts
<1>8. QED
  BY <1>3, <1>4, <1>5, <1>6, <1>7, StepForms

(* A lock is taken when free, given up by its holder, or lost with it.      *)
LEMMA LockStep ==
  ASSUME Parameters, CallsTyped, LocksTyped, OwnLocks, [Next]_vars, NEW f \in File, lock'[f] # lock[f]
  PROVE  \/ \E c \in Call : Lock(c) /\ lock[f] = None /\ lock'[f] = c
         \/ /\ lock'[f] \notin Call /\ UNCHANGED call
            /\ \E c \in Call : lock[f] = c /\ call[c].pc = "unlock"
         \/ /\ lock'[f] \notin Call
            /\ \A c \in Call : lock[f] = c => call'[c] = Idle
<1>1. ASSUME NEW c \in Call, Start(c) \/ Progress(c) \/ UnlockFails(c) \/ Fault(c)
      PROVE  Lock(c) \/ Unlock(c) \/ UnlockFails(c)
  BY <1>1 DEF Start, Progress, Fault, Read, Mutate, Stat, Load, CaptureFails, FirstCapture, Show,
     Issue, Stale, Admitted, LockTimeout, Exists, Take, Fresh, Destination, AppendTo, Fill,
     Match, Truncate, Rename, Unlink, MoveFails, Leave
<1>2. ASSUME NEW c \in Call, Lock(c)
      PROVE  lock[f] = None /\ lock'[f] = c
  <2>1. PICK k : lock[k] = None /\ lock' = [lock EXCEPT ![k] = c]
    BY <1>2 DEF Lock
  <2>2. QED
    BY <2>1
<1>3. ASSUME NEW c \in Call, Unlock(c) \/ UnlockFails(c)
      PROVE  /\ lock'[f] \notin Call /\ UNCHANGED call
             /\ lock[f] = c /\ call[c].pc = "unlock"
  <2>1. /\ call[c].pc = "unlock" /\ Locked(c) # {} /\ UNCHANGED call
        /\ \/ lock' = [lock EXCEPT ![Max(Locked(c))] = None]
           \/ lock' = [lock EXCEPT ![Max(Locked(c))] = GatewayOf[c]]
    BY <1>3 DEF Unlock, UnlockFails
  <2>2. Locked(c) \subseteq {call[c].src, call[c].dst}
    BY DEF Locked, OwnLocks, Keys
  <2>3. call[c].src \in Nat /\ call[c].dst \in Nat
    BY KeysAreFiles DEF File
  <2>4. Max(Locked(c)) \in Locked(c)
    BY <2>1, <2>2, <2>3, PairMin
  <2>5. Max(Locked(c)) = f
    BY <2>1 DEF LocksTyped
  <2>6. GatewayOf[c] \notin Call /\ None \notin Call
    BY DEF Parameters
  <2>7. QED
    BY <2>1, <2>4, <2>5, <2>6 DEF Locked, LocksTyped
<1>4. ASSUME NEW g \in Gateway, Crash(g)
      PROVE  /\ lock'[f] \notin Call
             /\ \A c \in Call : lock[f] = c => call'[c] = Idle
  BY <1>4 DEF Crash, Parameters
<1>5. QED
  BY <1>1, <1>2, <1>3, <1>4 DEF Next, vars

LEMMA OwnLocksStep ==
  ASSUME Parameters, CallsTyped, CapsTyped, LocksTyped, ToolsFit, OwnLocks, [Next]_vars
  PROVE  OwnLocks'
<1>1. ASSUME NEW c \in Call, NEW f \in File, lock'[f] = c
      PROVE  f \in Keys(c)' /\ call'[c].tool # "read" /\ call'[c].pc # "queue"
  <2>1. CASE lock[f] = c
    <3>1. f \in Keys(c) /\ call[c].tool # "read" /\ call[c].pc \notin {"queue", "idle"}
      BY <2>1 DEF OwnLocks, ToolsFit
    <3>2. call'[c] # Idle
      <4>1. f \in Locked(c)
        BY <2>1 DEF Locked
      <4>2. Ends(c) \/ Begins(c) => call'[c] # Idle
        BY <3>1, <4>1, IdleFields DEF Ends, Begins
      <4>3. Keeps(c) => call'[c] # Idle
        BY <3>1, IdleFields DEF Keeps
      <4>4. call[c] # Idle
        BY <3>1, IdleFields
      <4>5. QED
        BY <1>1, <4>2, <4>3, <4>4, StepForms
    <3>3. CASE call'[c] = call[c]
      BY <3>1, <3>3 DEF Keys
    <3>4. CASE Ends(c) \/ (Keeps(c) /\ (Captures(c) \/ Acts(c)))
      BY <3>1, <3>2, <3>4 DEF Keys, Ends, Keeps, Captures, Acts
    <3>5. CASE Keeps(c) /\ Enters(c)
      <4>1. Entered(c) # "queue"
        BY DEF Entered
      <4>2. QED
        BY <3>1, <3>5, <4>1 DEF Keys, Keeps, Enters
    <3>6. QED
      BY <3>1, <3>2, <3>3, <3>4, <3>5, StepForms DEF Begins
  <2>2. CASE lock[f] # c
    <3>1. Lock(c)
      BY <1>1, <2>2, LockStep
    <3>2. /\ call[c].pc = "lock" /\ lock' = [lock EXCEPT ![Min(Keys(c) \ Locked(c))] = c]
          /\ Goto(c, Entered(c)) \/ UNCHANGED call
      BY <3>1 DEF Lock
    <3>3. Min(Keys(c) \ Locked(c)) = f
      BY <1>1, <2>2, <3>2 DEF LocksTyped
    <3>4. Keys(c) \ Locked(c) # {}
      BY <3>2 DEF OwnLocks, Locked
    <3>5. Min(Keys(c) \ Locked(c)) \in Keys(c)
      <4>1. call[c].src \in Nat /\ call[c].dst \in Nat
        BY KeysAreFiles DEF File
      <4>2. Keys(c) \ Locked(c) \in SUBSET {call[c].src, call[c].dst}
        BY DEF Keys
      <4>3. Min(Keys(c) \ Locked(c)) \in Keys(c) \ Locked(c)
        BY <3>4, <4>1, <4>2, PairMin
      <4>4. QED
        BY <4>3
    <3>6. Keys(c)' = Keys(c) /\ call'[c].tool = call[c].tool
      BY <3>2, GotoForm DEF Keys, Keeps
    <3>7. call'[c].pc # "queue"
      BY <3>2, GotoForm DEF Entered
    <3>8. call[c].tool # "read"
      BY <3>2 DEF ToolsFit
    <3>9. QED
      BY <3>3, <3>5, <3>6, <3>7, <3>8
  <2>3. QED
    BY <2>1, <2>2
<1>2. ASSUME NEW c \in Call, call'[c].pc = "lock" PROVE \E f \in Keys(c)' : lock'[f] # c
  <2>1. CASE call'[c] = call[c]
    <3>1. PICK f \in Keys(c) : lock[f] # c
      BY <1>2, <2>1 DEF OwnLocks
    <3>2. CASE \A k \in Keys(c) : lock'[k] = c
      <4>1. f \in File /\ lock'[f] = c
        BY <3>1, <3>2, KeysAreFiles
      <4>2. Lock(c)
        BY <3>1, <4>1, LockStep
      <4>3. ~Goto(c, Entered(c))
        BY <1>2, <2>1, GotoForm DEF Entered
      <4>4. ~(Keys(c) \subseteq Locked(c) \cup {Min(Keys(c) \ Locked(c))})
        BY <4>2, <4>3 DEF Lock
      <4>5. PICK k \in Keys(c) : lock[k] # c /\ k # Min(Keys(c) \ Locked(c))
        BY <4>4, KeysAreFiles DEF Locked
      <4>6. lock'[k] = lock[k]
        BY <4>2, <4>5, KeysAreFiles DEF Lock, LocksTyped
      <4>7. QED
        BY <3>2, <4>5, <4>6
    <3>3. Keys(c)' = Keys(c)
      BY <2>1 DEF Keys
    <3>4. QED
      BY <3>2, <3>3
  <2>2. CASE call'[c] # call[c]
    <3>1. Keeps(c) /\ call[c].pc = "queue"
      <4>1. ~Ends(c) /\ ~Begins(c) /\ call'[c] # Idle
        BY <1>2, IdleFields DEF Ends, Begins
      <4>2. ~Captures(c) /\ ~Acts(c)
        BY <1>2 DEF Captures, Acts
      <4>3. Entered(c) # "lock"
        BY DEF Entered
      <4>4. QED
        BY <1>2, <2>2, <4>1, <4>2, <4>3, StepForms DEF Enters
    <3>2. call[c].src \in Keys(c)' /\ call[c].src \in File
      BY <3>1, KeysAreFiles DEF Keeps, Keys
    <3>3. lock[call[c].src] # c
      BY <3>1, <3>2 DEF OwnLocks
    <3>4. CASE lock'[call[c].src] = c
      <4>1. Lock(c)
        BY <3>2, <3>3, <3>4, LockStep
      <4>2. QED
        BY <3>1, <4>1 DEF Lock
    <3>5. QED
      BY <3>2, <3>4
  <2>3. QED
    BY <2>1, <2>2
<1>3. QED
  BY <1>1, <1>2 DEF OwnLocks

LEMMA HoldsLocksStep ==
  ASSUME Parameters, CallsTyped, CapsTyped, LocksTyped, ToolsFit, OwnLocks, HoldsLocks, [Next]_vars
  PROVE  HoldsLocks'
<1>1. SUFFICES ASSUME NEW c \in Call, Mutating(c)', NEW f \in Keys(c)' PROVE lock'[f] = c
  BY DEF HoldsLocks
<1>2. call'[c] # Idle
  BY <1>1, IdleFields DEF Mutating
<1>3. CASE Mutating(c) /\ Keys(c)' = Keys(c)
  <2>1. f \in File /\ lock[f] = c /\ call[c].pc # "unlock"
    BY <1>1, <1>3, KeysAreFiles DEF HoldsLocks, Mutating
  <2>2. ~\E d \in Call : Lock(d) /\ lock[f] = None
    BY <2>1 DEF Parameters
  <2>3. QED
    BY <2>1, <2>2, <1>2, LockStep
<1>4. CASE Keeps(c) /\ Enters(c) /\ call[c].pc = "lock"
  <2>1. Lock(c) /\ Keys(c)' = Keys(c)
    BY <1>4 DEF Enters, Keeps, Keys
  <2>2. call'[c] # call[c]
    BY <1>1, <1>4 DEF Mutating
  <2>3. Keys(c) \subseteq Locked(c) \cup {Min(Keys(c) \ Locked(c))}
    BY <2>1, <2>2 DEF Lock
  <2>4. f \in File /\ (lock[f] = c \/ f = Min(Keys(c) \ Locked(c)))
    BY <1>1, <2>1, <2>3, KeysAreFiles DEF Locked
  <2>5. QED
    BY <2>1, <2>4 DEF Lock, LocksTyped
<1>5. \/ Mutating(c) /\ Keys(c)' = Keys(c)
      \/ Keeps(c) /\ Enters(c) /\ call[c].pc = "lock"
  <2>1. CASE call'[c] = call[c]
    BY <1>1, <2>1 DEF Mutating, Keys
  <2>2. CASE Ends(c) \/ Begins(c)
    BY <1>1, <1>2, <2>2 DEF Mutating, Ends, Begins
  <2>3. CASE Keeps(c) /\ (Captures(c) \/ Enters(c) \/ Acts(c))
    BY <1>1, <2>3 DEF Mutating, Keeps, Keys, Captures, Enters, Acts, ToolsFit
  <2>4. QED
    BY <1>2, <2>1, <2>2, <2>3, StepForms
<1>6. QED
  BY <1>3, <1>4, <1>5

(* Only the holder of a path's lock changes the file there, and a move      *)
(* across devices changes the destination first.                            *)
LEMMA DiskStep ==
  ASSUME Parameters, CallsTyped, DiskTyped, ToolsFit, HoldsLocks, [Next]_vars,
         NEW c \in Call, Mutating(c)
  PROVE  \/ \A f \in Keys(c) : disk'[f] = disk[f]
         \/ call'[c].pc \in {"fill", "unlock"}
         \/ call'[c].pc = "unlink" /\ disk'[call[c].src] = disk[call[c].src]
<1>1. Keys(c) \subseteq File /\ \A f \in Keys(c) : lock[f] = c
  BY KeysAreFiles DEF HoldsLocks
<1>2. ASSUME NEW d \in Call, NEW data,
             AppendTo(d, data) \/ Fill(d, data) \/ Truncate(d) \/ Rename(d) \/ Unlink(d)
      PROVE  /\ Mutating(d)
             /\ \A f \in File \ Keys(d) : disk'[f] = disk[f]
             /\ \/ call'[d].pc \in {"fill", "unlock"}
                \/ call'[d].pc = "unlink" /\ disk'[call[d].src] = disk[call[d].src]
  <2>1. Mutating(d)
    BY <1>2 DEF AppendTo, Fill, Truncate, Rename, Unlink, Mutating, ToolsFit
  <2>2. ASSUME NEW k \in Keys(d), NEW x, Write(k, x)
        PROVE  \A f \in File \ {k} : disk'[f] = disk[f]
    BY <2>2 DEF Write, DiskTyped
  <2>3. CASE AppendTo(d, data) \/ Fill(d, data) \/ Truncate(d)
    <3>1. (\E x : Write(call[d].src, x)) /\ (Goto(d, "unlock") \/ Goto(d, "fill"))
      BY <2>3 DEF AppendTo, Fill, Truncate
    <3>2. QED
      BY <2>1, <2>2, <3>1, GotoForm DEF Keys
  <2>4. CASE Rename(d) /\ CrossDevice
    <3>1. /\ \E x : Write(call[d].dst, x)
          /\ Goto(d, "unlink") /\ call[d].src # call[d].dst
      BY <2>4 DEF Rename, ToolsFit
    <3>2. QED
      BY <2>1, <2>2, <3>1, GotoForm, KeysAreFiles DEF Keys
  <2>5. CASE Rename(d) /\ ~CrossDevice
    <3>1. /\ disk' = [disk EXCEPT ![call[d].dst] = disk[call[d].src], ![call[d].src] = Gone]
          /\ Goto(d, "unlock")
      BY <2>5 DEF Rename
    <3>2. QED
      BY <2>1, <3>1, GotoForm DEF Keys, DiskTyped
  <2>6. CASE Unlink(d)
    BY <2>1, <2>6, GotoForm DEF Unlink, Keys, DiskTyped
  <2>7. QED
    BY <1>2, <2>3, <2>4, <2>5, <2>6
<1>3. ASSUME NEW d \in Call, NEW data,
             AppendTo(d, data) \/ Fill(d, data) \/ Truncate(d) \/ Rename(d) \/ Unlink(d)
      PROVE  \/ \A f \in Keys(c) : disk'[f] = disk[f]
             \/ call'[c].pc \in {"fill", "unlock"}
             \/ call'[c].pc = "unlink" /\ disk'[call[c].src] = disk[call[c].src]
  <2>1. CASE d = c
    BY <1>2, <1>3, <2>1
  <2>2. CASE d # c
    <3>1. \A f \in Keys(d) : lock[f] = d
      BY <1>2, <1>3 DEF HoldsLocks
    <3>2. QED
      BY <1>1, <1>2, <1>3, <2>2, <3>1
  <2>3. QED
    BY <2>1, <2>2
<1>4. ASSUME NEW d \in Call, Start(d) \/ Progress(d) \/ UnlockFails(d) \/ Fault(d)
      PROVE  \/ disk' = disk
             \/ Truncate(d) \/ Rename(d) \/ Unlink(d)
             \/ \E data \in Content : AppendTo(d, data) \/ Fill(d, data)
  <2>1. Start(d) \/ UnlockFails(d) \/ Fault(d) => disk' = disk
    BY DEF Start, UnlockFails, Fault, Read, Mutate
  <2>2. ASSUME Progress(d)
        PROVE  \/ disk' = disk
               \/ Truncate(d) \/ Rename(d) \/ Unlink(d)
               \/ \E data \in Content : AppendTo(d, data) \/ Fill(d, data)
    BY <2>2 DEF Progress, Stat, Load, CaptureFails, FirstCapture, Show, Issue, Stale, Admitted,
       Lock, LockTimeout, Exists, Take, Fresh, Destination, Match, MoveFails, Unlock, Leave
  <2>3. QED
    BY <1>4, <2>1, <2>2
<1>5. QED
  BY <1>3, <1>4 DEF Next, Crash, vars

(* A mutation that goes on before its operation finds its files unchanged.  *)
LEMMA GoesOn ==
  ASSUME Parameters, CallsTyped, CapsTyped, DiskTyped, ToolsFit, HoldsLocks, [Next]_vars,
         NEW c \in Call, Mutating(c), Mutating(c)', call'[c].pc # "fill"
  PROVE  /\ Keeps(c)
         /\ disk'[call[c].src] = disk[call[c].src]
         /\ call'[c].pc # "unlink" => disk'[call[c].dst] = disk[call[c].dst]
<1>1. call'[c] # Idle /\ call'[c].pc # "unlock" /\ call[c].pc # "idle"
  BY IdleFields DEF Mutating
<1>2. Keeps(c)
  BY <1>1, StepForms DEF Ends, Begins, Keeps
<1>3. QED
  BY <1>1, <1>2, DiskStep DEF Keys

LEMMA CaptureStandsStep ==
  ASSUME Parameters, CallsTyped, CapsTyped, DiskTyped, ToolsFit, HoldsLocks,
         CaptureStands, [Next]_vars
  PROVE  CaptureStands'
<1>1. SUFFICES ASSUME NEW c \in Call, call'[c].pc = "verify"
               PROVE  /\ call'[c].data \in Data
                      /\ call'[c].tool # "read" => DataAt(call[c].src)' = call'[c].data
                      /\ Keeps(c)
  BY DEF CaptureStands, DataAt, Keeps
<1>2. \/ call'[c] = call[c]
      \/ /\ Keeps(c) /\ call[c].pc = "load" /\ disk[call[c].src] # Gone
         /\ call'[c].data = disk[call[c].src].data
  <2>1. ~Ends(c) /\ ~Begins(c) /\ call'[c] # Idle /\ ~Acts(c)
    BY <1>1, IdleFields DEF Ends, Begins, Acts
  <2>2. ~Enters(c)
    BY <1>1 DEF Enters, Entered
  <2>3. Captures(c) => /\ call[c].pc = "load" /\ disk[call[c].src] # Gone
                       /\ call'[c].data = disk[call[c].src].data
    BY <1>1 DEF Captures
  <2>4. QED
    BY <2>1, <2>2, <2>3, StepForms
<1>3. Keeps(c)
  BY <1>2 DEF Keeps
<1>4. call'[c].data \in Data
  <2>1. CASE call'[c] = call[c]
    BY <1>1, <2>1 DEF CaptureStands
  <2>2. CASE call'[c] # call[c]
    <3>1. disk[call[c].src] \in Version
      BY <1>2, <2>2, KeysAreFiles DEF DiskTyped
    <3>2. QED
      BY <1>2, <2>2, <3>1 DEF Version
  <2>3. QED
    BY <2>1, <2>2
<1>5. ASSUME call'[c].tool # "read" PROVE DataAt(call[c].src)' = call'[c].data
  <2>1. Mutating(c) /\ Mutating(c)' /\ call'[c].pc # "fill"
    BY <1>1, <1>2, <1>5 DEF Mutating, Keeps
  <2>2. disk'[call[c].src] = disk[call[c].src]
    BY <2>1, GoesOn
  <2>3. CASE call'[c] = call[c]
    BY <1>1, <1>5, <2>2, <2>3 DEF CaptureStands, DataAt
  <2>4. CASE call'[c] # call[c]
    BY <1>2, <2>2, <2>4 DEF DataAt, Keeps
  <2>5. QED
    BY <2>3, <2>4
<1>6. QED
  BY <1>3, <1>4, <1>5

LEMMA NoLostUpdateStep ==
  ASSUME Parameters, CallsTyped, CapsTyped, DiskTyped, ToolsFit, HoldsLocks,
         CaptureStands, NoLostUpdate, [Next]_vars
  PROVE  NoLostUpdate'
<1>1. SUFFICES ASSUME NEW c \in Call, Checked(c)'
               PROVE  DataAt(call[c].src)' = call'[c].seen
  BY DEF NoLostUpdate, DataAt
<1>2. /\ Guarded(c) /\ call'[c].tool # "read"
      /\ call'[c].pc \in {"dest", "act", "matched", "unlink"}
  BY <1>1 DEF Checked, Guarded, Mutating
<1>3. call'[c] # Idle /\ ~Ends(c) /\ ~Begins(c)
  BY <1>2, IdleFields DEF Ends, Begins
<1>4. Entered(c) \in {"exists", "take"}
  BY <1>2 DEF Entered
<1>5. /\ Mutating(c) /\ Keeps(c)
      /\ \/ call'[c].seen = call[c].seen /\ DataAt(call[c].src) = call[c].seen
         \/ call'[c].seen = Gone /\ DataAt(call[c].src) = Gone
  <2>1. CASE call'[c] = call[c]
    BY <1>1, <2>1 DEF NoLostUpdate, Checked, Mutating, Guarded, Keeps
  <2>2. CASE Keeps(c) /\ Captures(c)
    BY <1>2, <2>2 DEF Captures, Mutating, CaptureStands, Keeps
  <2>3. CASE Keeps(c) /\ Enters(c)
    <3>1. CASE call[c].pc = "exists"
      BY <1>2, <2>3, <3>1 DEF Enters, Mutating, Keeps, DataAt
    <3>2. CASE call[c].pc = "dest"
      BY <1>2, <2>3, <3>2 DEF Enters, Mutating, Keeps, NoLostUpdate, Checked
    <3>3. QED
      BY <1>2, <1>4, <2>3, <3>1, <3>2 DEF Enters
  <2>4. CASE Keeps(c) /\ Acts(c)
    BY <1>2, <2>4 DEF Acts, Mutating, Keeps, NoLostUpdate, Checked
  <2>5. QED
    BY <1>3, <2>1, <2>2, <2>3, <2>4, StepForms
<1>6. disk'[call[c].src] = disk[call[c].src]
  BY <1>1, <1>2, <1>5, GoesOn DEF Checked
<1>7. QED
  BY <1>5, <1>6 DEF Keeps, DataAt

LEMMA GuardedMoveStep ==
  ASSUME Parameters, CallsTyped, CapsTyped, DiskTyped, ToolsFit, HoldsLocks,
         GuardedMoveFindsNoFile, [Next]_vars
  PROVE  GuardedMoveFindsNoFile'
<1>1. SUFFICES ASSUME NEW c \in Call, Guarded(c), call'[c].tool = "move", call'[c].pc = "act"
               PROVE  disk'[call'[c].dst] = Gone
  BY DEF GuardedMoveFindsNoFile, Overwrites, Guarded
<1>2. call'[c] # Idle /\ ~Ends(c) /\ ~Begins(c) /\ ~Acts(c)
  BY <1>1, IdleFields DEF Ends, Begins, Acts
<1>3. Entered(c) \in {"exists", "take"}
  BY <1>1 DEF Entered
<1>4. Mutating(c) /\ Keeps(c) /\ disk[call[c].dst] = Gone
  <2>1. CASE call'[c] = call[c]
    BY <1>1, <2>1 DEF GuardedMoveFindsNoFile, Overwrites, Mutating, Keeps
  <2>2. CASE Keeps(c) /\ Captures(c)
    BY <1>1, <2>2 DEF Captures, Keeps
  <2>3. CASE Keeps(c) /\ Enters(c)
    BY <1>1, <1>3, <2>3 DEF Enters, Keeps, Mutating, ToolsFit
  <2>4. QED
    BY <1>2, <2>1, <2>2, <2>3, StepForms
<1>5. Mutating(c)'
  BY <1>1 DEF Mutating
<1>6. QED
  BY <1>1, <1>4, <1>5, GoesOn DEF Keeps

-----------------------------------------------------------------------------
(* Types.                                                                   *)

LEMMA CallsTypedStep ==
  ASSUME Parameters, CallsTyped, CapsTyped, DiskTyped, ToolsFit, CaptureStands, [Next]_vars
  PROVE  CallsTyped'
<1> USE DEF CallsTyped
<1> DEFINE Places == {"idle", "stat", "load", "verify", "show", "queue", "lock", "exists",
                      "take", "dest", "act", "matched", "fill", "unlink", "unlock"}
<1>1. ASSUME NEW c \in Call, NEW r \in Record, call' = [call EXCEPT ![c] = r]
      PROVE  CallsTyped'
  BY <1>1
<1>2. Idle \in Record /\ 1 \in File
  BY DEF Idle, Record, Parameters, File, Tool
<1>3. \A r \in Record : \A p \in Places : [r EXCEPT !.pc = p] \in Record
  BY DEF Record
<1>4. \A c \in Call : Failed(c) \in Record
  BY <1>2, <1>3 DEF Failed
<1>5. ASSUME NEW c \in Call, NEW p \in Places, Goto(c, p) PROVE CallsTyped'
  <2>1. call' = [call EXCEPT ![c] = [call[c] EXCEPT !.pc = p]]
    BY <1>5 DEF Goto
  <2>2. QED
    BY <2>1, <1>1, <1>3
<1>6. ASSUME NEW c \in Call, Fail(c) PROVE CallsTyped'
  BY <1>1, <1>4, <1>6 DEF Fail
<1>7. \A c \in Call : /\ disk[call[c].src] # Gone => disk[call[c].src] \in Version
                      /\ disk[call[c].src] \in Version => /\ disk[call[c].src].data \in Data
                                                          /\ disk[call[c].src].stamp \in Nat
  BY KeysAreFiles DEF DiskTyped, Version
<1>8. ASSUME NEW c \in Call, NEW f \in File, Read(c, f) PROVE CallsTyped'
  <2>1. [Idle EXCEPT !.pc = "stat", !.src = f, !.dst = f] \in Record
    BY <1>2 DEF Record
  <2>2. QED
    BY <2>1, <1>1, <1>8 DEF Read
<1>9. ASSUME NEW c \in Call, NEW tool \in Tool, NEW src \in File, NEW dst \in File,
             NEW token \in 0..issued \cup {None}, Mutate(c, tool, src, dst, token)
      PROVE  CallsTyped'
  <2>1. token \in Nat \cup {None}
    BY DEF CapsTyped
  <2>2. [Idle EXCEPT !.pc = "queue", !.tool = tool, !.src = src, !.dst = dst,
                     !.token = token] \in Record
    BY <2>1, <1>2 DEF Record
  <2>3. QED
    BY <2>2, <1>1, <1>9 DEF Mutate
<1>10. ASSUME NEW c \in Call, Stat(c) PROVE CallsTyped'
  <2>1. call' = [call EXCEPT ![c] = [call[c] EXCEPT !.pc = "load",
                                                    !.stat = disk[call[c].src].stamp]]
    BY <1>10 DEF Stat
  <2>2. disk[call[c].src].stamp \in Nat
    BY <1>7, <1>10 DEF Stat
  <2>3. [call[c] EXCEPT !.pc = "load", !.stat = disk[call[c].src].stamp] \in Record
    BY <2>2 DEF Record
  <2>4. QED
    BY <2>1, <2>3, <1>1
<1>11. ASSUME NEW c \in Call, Load(c) PROVE CallsTyped'
  <2>1. call' = [call EXCEPT ![c] = [call[c] EXCEPT !.pc = "verify",
                                                    !.data = disk[call[c].src].data]]
    BY <1>11 DEF Load
  <2>2. disk[call[c].src].data \in Data
    BY <1>7, <1>11 DEF Load
  <2>3. [call[c] EXCEPT !.pc = "verify", !.data = disk[call[c].src].data] \in Record
    BY <2>2 DEF Record
  <2>4. QED
    BY <2>1, <2>3, <1>1
<1>12. ASSUME NEW c \in Call, NEW p \in Places, NEW x \in Data \cup {Gone, None},
              call' = [call EXCEPT ![c] = [call[c] EXCEPT !.pc = p, !.seen = x]]
       PROVE  CallsTyped'
  <2>1. [call[c] EXCEPT !.pc = p, !.seen = x] \in Record
    BY DEF Record
  <2>2. QED
    BY <2>1, <1>1, <1>12
<1>13. ASSUME NEW c \in Call, FirstCapture(c) PROVE CallsTyped'
  <2>1. call' = [call EXCEPT ![c] = [call[c] EXCEPT !.pc = "show", !.seen = call[c].data]]
    BY <1>13 DEF FirstCapture
  <2>2. call[c].data \in Data
    BY <1>13 DEF FirstCapture, Captured, CaptureStands
  <2>3. QED
    BY <2>1, <2>2, <1>12
<1>14. ASSUME NEW c \in Call, Exists(c) PROVE CallsTyped'
  <2>1. CASE disk[call[c].src] # Gone
    <3>1. Goto(c, "take")
      BY <1>14, <2>1 DEF Exists, Goto
    <3>2. QED
      BY <3>1, <1>5
  <2>2. CASE disk[call[c].src] = Gone /\ call[c].token = None
    <3>1. call' = [call EXCEPT ![c] = [call[c] EXCEPT !.pc = "act", !.seen = Gone]]
      BY <1>14, <2>2 DEF Exists
    <3>2. QED
      BY <3>1, <1>12
  <2>3. CASE disk[call[c].src] = Gone /\ call[c].token # None
    BY <1>14, <2>3, <1>6 DEF Exists, Fail
  <2>4. QED
    BY <2>1, <2>2, <2>3
<1>15. ASSUME NEW c \in Call, Take(c) PROVE CallsTyped'
  <2>1. CASE Fail(c)
    BY <2>1, <1>6
  <2>2. CASE ~Fail(c)
    <3>1. PICK k \in {x \in caps[GatewayOf[c]] : x.id = call[c].token} :
              call' = [call EXCEPT ![c].pc = "stat", ![c].seen = k.data]
      BY <1>15, <2>2 DEF Take
    <3>2. k.data \in Data
      BY DEF CapsTyped, Capability, Parameters
    <3>3. call' = [call EXCEPT ![c] = [call[c] EXCEPT !.pc = "stat", !.seen = k.data]]
      BY <3>1
    <3>4. QED
      BY <3>2, <3>3, <1>12
  <2>3. QED
    BY <2>1, <2>2
<1>16. ASSUME NEW c \in Call,
              \/ CaptureFails(c) \/ Stale(c) \/ LockTimeout(c) \/ MoveFails(c) \/ Fault(c)
              \/ Issue(c) \/ Leave(c) \/ Unlock(c) \/ UnlockFails(c)
       PROVE  CallsTyped'
  BY <1>16, <1>1, <1>2, <1>6 DEF CaptureFails, Stale, LockTimeout, MoveFails, Fault, Issue, Leave,
     Unlock, UnlockFails
<1>17. ASSUME NEW c \in Call, NEW data,
              \/ Show(c) \/ Admitted(c) \/ Lock(c) \/ Fresh(c) \/ Destination(c)
              \/ AppendTo(c, data) \/ Fill(c, data) \/ Match(c) \/ Truncate(c)
              \/ Rename(c) \/ Unlink(c)
       PROVE  CallsTyped'
  <2>1. Entered(c) \in Places
    BY DEF Entered
  <2>2. UNCHANGED call \/ Fail(c) \/ \E p \in Places : Goto(c, p)
    BY <1>17, <2>1 DEF Show, Admitted, Lock, Fresh, Destination, AppendTo, Fill, Match, Truncate,
       Rename, Unlink, Goto
  <2>3. QED
    BY <2>2, <1>5, <1>6
<1>18. ASSUME NEW g \in Gateway, Crash(g) PROVE CallsTyped'
  BY <1>18, <1>2 DEF Crash
<1>19. CASE UNCHANGED vars
  BY <1>19 DEF vars
<1>20. QED
  BY <1>8, <1>9, <1>10, <1>11, <1>13, <1>14, <1>15, <1>16, <1>17, <1>18, <1>19
  DEF Next, Start, Progress

LEMMA DiskTypedStep ==
  ASSUME Parameters, CallsTyped, CapsTyped, DiskTyped, ToolsFit, [Next]_vars
  PROVE  DiskTyped'
<1>1. ASSUME NEW f, NEW x \in Data, Write(f, x) PROVE DiskTyped'
  <2>1. [data |-> x, stamp |-> clock + 1] \in Version /\ clock + 1 \in Nat
    BY DEF Version, DiskTyped
  <2>2. QED
    BY <2>1, <1>1 DEF Write, DiskTyped
<1>2. ASSUME NEW c \in Call, NEW x \in Content,
             AppendTo(c, x) \/ Fill(c, x) \/ Truncate(c)
      PROVE  DiskTyped'
  <2>1. \E y \in Data : Write(call[c].src, y)
    BY <1>2 DEF AppendTo, Fill, Truncate, Data
  <2>2. QED
    BY <2>1, <1>1
<1>3. ASSUME NEW c \in Call, Truncate(c) PROVE DiskTyped'
  BY <1>1, <1>3 DEF Truncate, Data
<1>4. ASSUME NEW c \in Call, Rename(c) PROVE DiskTyped'
  <2>1. disk[call[c].src] \in Version
    BY <1>4, KeysAreFiles DEF Rename, DiskTyped
  <2>2. disk[call[c].src].data \in Data
    BY <2>1 DEF Version
  <2>3. CASE CrossDevice
    BY <1>1, <1>4, <2>2, <2>3 DEF Rename
  <2>4. CASE ~CrossDevice
    BY <1>4, <2>1, <2>4 DEF Rename, DiskTyped
  <2>5. QED
    BY <2>3, <2>4
<1>5. ASSUME NEW c \in Call, Unlink(c) PROVE DiskTyped'
  BY <1>5 DEF Unlink, DiskTyped
<1>6. UNCHANGED <<disk, clock>> => DiskTyped'
  BY DEF DiskTyped
<1>7. ASSUME NEW c \in Call, Start(c) \/ UnlockFails(c) \/ Fault(c)
      PROVE  UNCHANGED <<disk, clock>>
  BY <1>7 DEF Start, UnlockFails, Fault, Read, Mutate
<1>8. ASSUME NEW c \in Call,
             \/ Stat(c) \/ Load(c) \/ CaptureFails(c) \/ FirstCapture(c) \/ Show(c)
             \/ Issue(c) \/ Stale(c) \/ Admitted(c) \/ Lock(c) \/ LockTimeout(c) \/ Exists(c)
             \/ Take(c) \/ Fresh(c) \/ Destination(c) \/ Match(c) \/ MoveFails(c)
             \/ Unlock(c) \/ Leave(c)
      PROVE  UNCHANGED <<disk, clock>>
  BY <1>8 DEF Stat, Load, CaptureFails, FirstCapture, Show, Issue, Stale, Admitted,
     Lock, LockTimeout, Exists, Take, Fresh, Destination, Match, MoveFails, Unlock, Leave
<1>9. ASSUME NEW g \in Gateway, Crash(g) PROVE UNCHANGED <<disk, clock>>
  BY <1>9 DEF Crash
<1>10. QED
  BY <1>2, <1>3, <1>4, <1>5, <1>6, <1>7, <1>8, <1>9 DEF Next, Progress, vars

(* A set of numbers has a least one.                                        *)
LEMMA LeastNatural ==
  ASSUME NEW S \in SUBSET Nat, S # {}
  PROVE  \E n \in S : \A m \in S : n <= m
<1> DEFINE R == OpToRel(<, Nat)
<1>1. IsWellFoundedOn(R, Nat)
  BY NatLessThanWellFounded
<1>2. \A m, n \in Nat : m < n => <<m, n>> \in R
  BY DEF OpToRel
<1> HIDE DEF R
<1>3. PICK n \in S : \A m \in S : <<m, n>> \notin R
  BY <1>1, WFMin
<1>4. \A m \in S : ~(m < n)
  BY <1>2, <1>3
<1>5. QED
  BY <1>4

(* A store past its limit loses its oldest capability, and only that.       *)
LEMMA BoundedStore ==
  ASSUME Parameters, NEW S \in SUBSET Capability, IsFiniteSet(S), Cardinality(S) <= MaxEntries + 1
  PROVE  /\ Bounded(S) \subseteq S
         /\ IsFiniteSet(Bounded(S)) /\ Cardinality(Bounded(S)) <= MaxEntries
<1>1. Cardinality(S) \in Nat /\ MaxEntries \in Nat
  BY FS_CardinalityType DEF Parameters
<1>2. CASE Cardinality(S) <= MaxEntries
  BY <1>2 DEF Bounded
<1>3. CASE ~(Cardinality(S) <= MaxEntries)
  <2> DEFINE oldest == CHOOSE k \in S : \A l \in S : k.id <= l.id
             ids == {k.id : k \in S}
  <2>1. S # {}
    BY <1>1, <1>3, FS_EmptySet
  <2>2. ids \in SUBSET Nat /\ ids # {}
    BY <2>1 DEF Capability
  <2> HIDE DEF ids
  <2>3. PICK n \in ids : \A m \in ids : n <= m
    BY <2>2, LeastNatural
  <2>4. \E k \in S : \A l \in S : k.id <= l.id
    BY <2>3 DEF ids
  <2>5. oldest \in S
    BY <2>4
  <2>6. Bounded(S) = S \ {oldest}
    BY <1>3 DEF Bounded
  <2> HIDE DEF oldest
  <2>7. IsFiniteSet(S \ {oldest}) /\ Cardinality(S \ {oldest}) = Cardinality(S) - 1
    BY <2>5, FS_RemoveElement
  <2>8. QED
    BY <1>1, <2>6, <2>7
<1>4. QED
  BY <1>2, <1>3

LEMMA CapsTypedStep ==
  ASSUME Parameters, CallsTyped, CapsTyped, CaptureStands, [Next]_vars
  PROVE  CapsTyped'
<1>1. ASSUME issued' = issued, NEW g \in Gateway, NEW S \in SUBSET caps[g],
             caps' = [caps EXCEPT ![g] = S]
      PROVE  CapsTyped'
  <2>1. IsFiniteSet(S) /\ Cardinality(S) <= Cardinality(caps[g])
    BY FS_Subset DEF CapsTyped
  <2>2. Cardinality(S) <= MaxEntries
    BY <2>1, FS_CardinalityType DEF CapsTyped, Parameters
  <2>3. \A h \in Gateway : caps'[h] \subseteq caps[h] /\ caps'[h] \in {S, caps[h]}
                           /\ (caps'[h] # caps[h] => h = g)
    BY <1>1 DEF CapsTyped
  <2>4. caps' \in [Gateway -> SUBSET Capability]
    BY <1>1 DEF CapsTyped
  <2>5. QED
    BY <1>1, <2>1, <2>2, <2>3, <2>4 DEF CapsTyped
<1>2. ASSUME NEW c \in Call, Issue(c) PROVE CapsTyped'
  <2> DEFINE g == GatewayOf[c]
             new == Issued(c)
             store == Bounded(caps[g] \cup {new})
             old == caps[g]
  <2>1. g \in Gateway /\ issued \in Nat
    BY DEF Parameters, CapsTyped
  <2>2. new \in Capability /\ new.id = issued + 1
    BY <1>2, <2>1, KeysAreFiles DEF Issue, Captured, CaptureStands, Issued, Capability
  <2>3. caps' = [caps EXCEPT ![g] = store] /\ issued' = issued + 1
    BY <1>2 DEF Issue
  <2>4. /\ caps[g] \cup {new} \in SUBSET Capability
        /\ IsFiniteSet(caps[g] \cup {new}) /\ Cardinality(caps[g] \cup {new}) <= MaxEntries + 1
    <3>1. /\ IsFiniteSet(old) /\ Cardinality(old) \in Nat /\ MaxEntries \in Nat
          /\ Cardinality(old) <= MaxEntries /\ old \subseteq Capability
      BY <2>1, FS_CardinalityType DEF CapsTyped, Parameters
    <3> HIDE DEF old, new
    <3>2. /\ IsFiniteSet(old \cup {new})
          /\ Cardinality(old \cup {new}) \in {Cardinality(old), Cardinality(old) + 1}
      BY <3>1, FS_AddElement
    <3>3. /\ old \cup {new} \in SUBSET Capability
          /\ Cardinality(old \cup {new}) <= MaxEntries + 1
      BY <2>2, <3>1, <3>2
    <3>4. QED
      BY <3>2, <3>3 DEF old
  <2>5. /\ store \subseteq caps[g] \cup {new}
        /\ IsFiniteSet(store) /\ Cardinality(store) <= MaxEntries
    BY <2>4, BoundedStore
  <2> HIDE DEF store, new, g
  <2>6. caps' \in [Gateway -> SUBSET Capability]
    BY <2>1, <2>3, <2>4, <2>5 DEF CapsTyped
  <2>7. \A h \in Gateway : IsFiniteSet(caps'[h]) /\ Cardinality(caps'[h]) <= MaxEntries
    BY <2>1, <2>3, <2>5 DEF CapsTyped
  <2>8. \A h \in Gateway : \A k \in caps'[h] : (k \in caps[h] \/ (k = new /\ h = g))
    BY <2>1, <2>3, <2>5 DEF CapsTyped
  <2>9. \A h \in Gateway : \A k \in caps[h] : k.id \in Nat /\ k.id <= issued
    BY DEF CapsTyped, Capability
  <2>10. ASSUME NEW h \in Gateway, NEW i \in Gateway, NEW k \in caps'[h], NEW l \in caps'[i]
         PROVE  k.id <= issued' /\ (k.id = l.id => h = i /\ k = l)
    <3>1. k.id <= issued'
      BY <2>1, <2>2, <2>3, <2>8, <2>9
    <3>2. CASE k \in caps[h] /\ l \in caps[i]
      BY <3>1, <3>2 DEF CapsTyped
    <3>3. CASE k \in caps[h] /\ l = new
      BY <2>1, <2>2, <2>9, <3>1, <3>3
    <3>4. CASE k = new /\ l \in caps[i]
      BY <2>1, <2>2, <2>9, <3>1, <3>4
    <3>5. CASE k = new /\ h = g /\ l = new /\ i = g
      BY <3>1, <3>5
    <3>6. QED
      BY <2>8, <3>2, <3>3, <3>4, <3>5
  <2>11. QED
    BY <2>1, <2>3, <2>6, <2>7, <2>10 DEF CapsTyped
<1>3. UNCHANGED <<caps, issued>> => CapsTyped'
  BY DEF CapsTyped
<1>4. ASSUME NEW c \in Call, Exists(c) \/ Take(c) PROVE CapsTyped'
  <2>1. GatewayOf[c] \in Gateway /\ Without(GatewayOf[c], call[c].token) \subseteq caps[GatewayOf[c]]
    BY DEF Parameters, Without
  <2>2. /\ issued' = issued
        /\ caps' = caps
           \/ caps' = [caps EXCEPT ![GatewayOf[c]] = Without(GatewayOf[c], call[c].token)]
    BY <1>4 DEF Exists, Take
  <2>3. QED
    BY <2>1, <2>2, <1>1, <1>3
<1>5. ASSUME NEW g \in Gateway, Crash(g) PROVE CapsTyped'
  BY <1>1, <1>5 DEF Crash
<1>6. ASSUME NEW c \in Call, Start(c) \/ UnlockFails(c) \/ Fault(c)
      PROVE  UNCHANGED <<caps, issued>>
  BY <1>6 DEF Start, UnlockFails, Fault, Read, Mutate
<1>7. ASSUME NEW c \in Call, Progress(c), ~Issue(c), ~Exists(c), ~Take(c)
      PROVE  UNCHANGED <<caps, issued>>
  BY <1>7 DEF Progress, Stat, Load, CaptureFails, FirstCapture, Show, Stale, Admitted,
     Lock, LockTimeout, Fresh, Destination, AppendTo, Fill, Match, Truncate, Rename, Unlink,
     MoveFails, Unlock, Leave
<1>8. QED
  BY <1>2, <1>3, <1>4, <1>5, <1>6, <1>7 DEF Next, vars

LEMMA QueuesTypedStep ==
  ASSUME Parameters, CallsTyped, QueuesTyped, [Next]_vars
  PROVE  QueuesTyped'
<1>1. ASSUME NEW c \in Call, NEW f, Enqueue(c, f) PROVE QueuesTyped'
  <2>1. GatewayOf[c] \in Gateway
    BY DEF Parameters
  <2> DEFINE chains == queue[GatewayOf[c]]
  <2>2. chains \in [File -> Seq(Call)]
    BY <2>1 DEF QueuesTyped
  <2>3. queue' = [queue EXCEPT ![GatewayOf[c]] = [chains EXCEPT ![f] = Append(chains[f], c)]]
    BY <1>1 DEF Enqueue
  <2> HIDE DEF chains
  <2>4. f \in File => Append(chains[f], c) \in Seq(Call)
    BY <2>2
  <2>5. [chains EXCEPT ![f] = Append(chains[f], c)] \in [File -> Seq(Call)]
    BY <2>2, <2>4
  <2>6. QED
    BY <2>1, <2>3, <2>5 DEF QueuesTyped
<1>2. ASSUME NEW c \in Call, Leave(c) PROVE QueuesTyped'
  <2>1. GatewayOf[c] \in Gateway
    BY DEF Parameters
  <2>2. ASSUME NEW f \in Queued(c) PROVE Tail(queue[GatewayOf[c]][f]) \in Seq(Call)
    <3>1. f \in File /\ Contains(queue[GatewayOf[c]][f], c)
      BY DEF Queued, Chain
    <3>2. queue[GatewayOf[c]][f] \in Seq(Call)
      BY <2>1, <3>1 DEF QueuesTyped
    <3>3. queue[GatewayOf[c]][f] # <<>>
      BY <3>1, <3>2 DEF Contains
    <3>4. QED
      BY <3>2, <3>3
  <2>3. [f \in File |-> IF f \in Queued(c) THEN Tail(queue[GatewayOf[c]][f])
                        ELSE queue[GatewayOf[c]][f]] \in [File -> Seq(Call)]
    BY <2>1, <2>2 DEF QueuesTyped
  <2>4. QED
    BY <1>2, <2>1, <2>3 DEF Leave, QueuesTyped
<1>3. ASSUME NEW g \in Gateway, Crash(g) PROVE QueuesTyped'
  BY <1>3 DEF Crash, QueuesTyped
<1>4. queue' = queue => QueuesTyped'
  BY DEF QueuesTyped
<1>5. ASSUME NEW c \in Call, Start(c) \/ UnlockFails(c) \/ Fault(c)
      PROVE  QueuesTyped'
  BY <1>1, <1>4, <1>5 DEF Start, UnlockFails, Fault, Read, Mutate
<1>6. ASSUME NEW c \in Call, Progress(c), ~Leave(c) PROVE queue' = queue \/ \E f : Enqueue(c, f)
  BY <1>6 DEF Progress, Stat, Load, CaptureFails, FirstCapture, Show, Issue, Stale, Admitted,
     Lock, LockTimeout, Exists, Take, Fresh, Destination, AppendTo, Fill, Match, Truncate, Rename,
     Unlink, MoveFails, Unlock
<1>7. QED
  BY <1>1, <1>2, <1>3, <1>4, <1>5, <1>6 DEF Next, vars

LEMMA LocksTypedStep ==
  ASSUME Parameters, CallsTyped, LocksTyped, [Next]_vars
  PROVE  LocksTyped'
<1>1. ASSUME NEW f, NEW x \in Call \cup Gateway \cup {None}, lock' = [lock EXCEPT ![f] = x]
      PROVE  LocksTyped'
  BY <1>1 DEF LocksTyped
<1>2. lock' = lock => LocksTyped'
  BY DEF LocksTyped
<1>3. ASSUME NEW c \in Call, Lock(c) \/ Unlock(c) \/ UnlockFails(c) PROVE LocksTyped'
  <2>1. GatewayOf[c] \in Gateway
    BY DEF Parameters
  <2>2. QED
    BY <1>1, <1>3, <2>1 DEF Lock, Unlock, UnlockFails
<1>4. ASSUME NEW g \in Gateway, Crash(g) PROVE LocksTyped'
  BY <1>4 DEF Crash, LocksTyped
<1>5. ASSUME NEW c \in Call, Start(c) \/ Fault(c) PROVE lock' = lock
  BY <1>5 DEF Start, Fault, Read, Mutate
<1>6. ASSUME NEW c \in Call, Progress(c), ~Lock(c), ~Unlock(c) PROVE lock' = lock
  BY <1>6 DEF Progress, Stat, Load, CaptureFails, FirstCapture, Show, Issue, Stale, Admitted,
     LockTimeout, Exists, Take, Fresh, Destination, AppendTo, Fill, Match, Truncate, Rename,
     Unlink, MoveFails, Leave
<1>7. QED
  BY <1>2, <1>3, <1>4, <1>5, <1>6 DEF Next, vars

LEMMA CountedStep == ASSUME Counted, [Next]_vars PROVE Counted'
<1>1. ASSUME NEW c \in Call, Start(c) \/ UnlockFails(c) \/ Fault(c) PROVE Counted'
  <2>1. ASSUME Start(c) PROVE started' = started + 1 /\ UNCHANGED <<faults, crashes>>
    BY <2>1 DEF Start, Read, Mutate
  <2>2. ASSUME UnlockFails(c) \/ Fault(c)
        PROVE  faults' = faults + 1 /\ UNCHANGED <<started, crashes>>
    BY <2>2 DEF UnlockFails, Fault
  <2>3. QED
    BY <1>1, <2>1, <2>2 DEF Counted
<1>2. ASSUME NEW c \in Call, Progress(c) PROVE UNCHANGED <<started, faults, crashes>>
  BY <1>2 DEF Progress, Stat, Load, CaptureFails, FirstCapture, Show, Issue, Stale, Admitted,
     Lock, LockTimeout, Exists, Take, Fresh, Destination, AppendTo, Fill, Match, Truncate, Rename,
     Unlink, MoveFails, Unlock, Leave
<1>3. ASSUME NEW g \in Gateway, Crash(g) PROVE Counted'
  BY <1>3 DEF Crash, Counted
<1>4. QED
  BY <1>1, <1>2, <1>3 DEF Next, Counted, vars

-----------------------------------------------------------------------------
LEMMA StepInvariant == ASSUME Parameters, IInv, [Next]_vars PROVE IInv'
<1>1. DiskTyped /\ CapsTyped /\ CallsTyped /\ LocksTyped /\ QueuesTyped /\ Counted
  BY TypeParts DEF IInv
<1>2. DiskTyped' /\ CapsTyped' /\ CallsTyped' /\ LocksTyped' /\ QueuesTyped' /\ Counted'
  BY <1>1, DiskTypedStep, CapsTypedStep, CallsTypedStep, LocksTypedStep, QueuesTypedStep,
     CountedStep DEF IInv
<1>3. TypeOK'
  BY <1>2 DEF TypeOK, DiskTyped, CapsTyped, CallsTyped, LocksTyped, QueuesTyped, Counted
<1>4. ToolsFit' /\ OwnLocks' /\ HoldsLocks' /\ CaptureStands' /\ NoLostUpdate'
      /\ GuardedMoveFindsNoFile'
  BY <1>1, ToolsFitStep, OwnLocksStep, HoldsLocksStep, CaptureStandsStep, NoLostUpdateStep,
     GuardedMoveStep DEF IInv
<1>5. QED
  BY <1>3, <1>4 DEF IInv

(* A mutation that is under way holds the machine-wide locks of all its     *)
(* paths, so from the first byte of its capture to its operation no other   *)
(* call, guarded or not, changes them.                                      *)
THEOREM FilesInvariance == ASSUME Parameters PROVE Spec => []IInv
<1>1. Init => IInv
  BY InitInvariant
<1>2. IInv /\ [Next]_vars => IInv'
  BY StepInvariant
<1>3. QED
  BY <1>1, <1>2, PTL DEF Spec

(* Types, and: no store exceeds its limit, no capability is issued twice.   *)
THEOREM FilesTypes == ASSUME Parameters PROVE Spec => []TypeOK
<1>1. IInv => TypeOK
  BY DEF IInv
<1>2. QED
  BY <1>1, FilesInvariance, PTL

(* No lost update, and no file overwritten by a guarded move, although the  *)
(* locks are only those of the paths a call names: whatever fails, dies or  *)
(* times out, a guarded mutation acts on the version its client observed.   *)
THEOREM FilesNoLostUpdate ==
  ASSUME Parameters PROVE Spec => [](NoLostUpdate /\ GuardedMoveFindsNoFile)
<1>1. IInv => NoLostUpdate /\ GuardedMoveFindsNoFile
  BY DEF IInv
<1>2. QED
  BY <1>1, FilesInvariance, PTL

-----------------------------------------------------------------------------
(* SkillStore.                                                             *)

(* The holder of the lock has loaded what the registry still is.           *)
LoadedIsCurrent ==
    \A c \in Calls :
        skillCall[c].pc \in {"loaded", "moved", "cleanup"} => skillCall[c].loaded = registry

(* An installation that has moved its package registers a new version that *)
(* contradicts no other, or removes what nobody registered.                *)
MovedIsNew ==
    \A c \in Calls :
        skillCall[c].pc \in {"moved", "cleanup"} =>
            /\ skillCall[c].digest \in Digests
            /\ skillCall[c].digest \notin registry.versions
            /\ ~Skills!Conflict(registry, skillCall[c].digest)
            /\ skillCall[c].pc = "moved" => package[skillCall[c].digest] # "absent"

(* Installations and activations under way name a package.                 *)
NamesPackage ==
    \A c \in Calls :
        skillCall[c].pc # "idle" /\ skillCall[c].op \in {"install", "activate"} =>
            skillCall[c].digest \in Digests

SkillInv == Skills!TypeOK /\ LoadedIsCurrent /\ MovedIsNew /\ NamesPackage /\ Skills!RegistryIsSound

-----------------------------------------------------------------------------
(* The operators.                                                          *)

(* A call that returns leaves every call well typed and frees the lock.    *)
LEMMA ReturnTypes ==
    ASSUME NEW c \in Calls, Skills!TypeOK, Skills!Return(c)
    PROVE  /\ skillCall' \in [Calls -> Skills!Call] /\ skillLock' = NoValue
           /\ skillCall'[c] = Skills!Idle
           /\ \A d \in Calls \ {c} : skillCall'[d] = skillCall[d]
<1>1. Skills!Idle \in Skills!Call
  BY DEF Skills!Idle, Skills!Call, Skills!Empty, Skills!Registry, Skills!Versions
<1>2. QED
  BY <1>1 DEF Skills!Return, Skills!TypeOK

(* Only the holder of the lock is not idle.                                *)
LEMMA OthersIdle ==
    ASSUME Skills!TypeOK, NEW c \in Calls, skillCall[c].pc # "idle"
    PROVE  \A d \in Calls \ {c} : skillCall[d].pc = "idle"
  BY DEF Skills!TypeOK

(* After a return of the holder every call is idle.                        *)
LEMMA AllIdle ==
    ASSUME Skills!SkillAssumption, Skills!TypeOK,
           NEW c \in Calls, skillCall[c].pc # "idle", Skills!Return(c)
    PROVE  /\ \A d \in Calls : skillCall'[d].pc = "idle"
           /\ \A d \in Calls : skillLock' = d <=> skillCall'[d].pc # "idle"
<1>1. \A d \in Calls : skillCall'[d].pc = "idle"
  BY ReturnTypes, OthersIdle DEF Skills!Idle
<1>2. QED
  BY <1>1, ReturnTypes DEF Skills!SkillAssumption

(* The invariants about calls hold trivially when every call is idle.      *)
LEMMA IdleInvariants ==
    ASSUME Skills!SkillAssumption, Skills!TypeOK, NamesPackage,
           NEW c \in Calls, skillCall[c].pc # "idle", Skills!Return(c),
           registry' \in Skills!Registry, package' \in [Digests -> {"absent", "whole", "changed"}]
    PROVE  (Skills!TypeOK /\ LoadedIsCurrent /\ MovedIsNew /\ NamesPackage)'
<1>1. Skills!TypeOK'
  BY ReturnTypes, AllIdle DEF Skills!TypeOK
<1>2. LoadedIsCurrent' /\ MovedIsNew'
  BY AllIdle DEF LoadedIsCurrent, MovedIsNew
<1>3. NamesPackage'
  BY AllIdle DEF NamesPackage
<1>4. QED
  BY <1>1, <1>2, <1>3

(* A version in place becomes active and the active one is remembered.     *)
LEMMA WithActiveSound ==
    ASSUME Skills!SkillAssumption, NEW r \in Skills!Registry, NEW v \in r.versions,
           r.active \in r.versions \cup {NoValue}, r.previous \in r.versions \cup {NoValue},
           r.previous # NoValue => r.active \notin {r.previous, NoValue}, r.active # v
    PROVE  LET w == Skills!WithActive(r, v) IN
           /\ w \in Skills!Registry /\ w.versions = r.versions
           /\ w.active \in w.versions \cup {NoValue} /\ w.previous \in w.versions \cup {NoValue}
           /\ w.previous # NoValue => w.active \notin {w.previous, NoValue}
  BY DEF Skills!WithActive, Skills!Registry, Skills!Versions, Skills!SkillAssumption

-----------------------------------------------------------------------------
(* The inductive invariant.                                                *)

LEMMA SkillInit ==
    ASSUME Skills!SkillAssumption, Skills!Init PROVE SkillInv
<1>1. Skills!Empty \in Skills!Registry /\ Skills!Idle \in Skills!Call
  BY DEF Skills!Idle, Skills!Call, Skills!Empty, Skills!Registry, Skills!Versions
<1>2. Skills!TypeOK
  BY <1>1 DEF Skills!Init, Skills!TypeOK, Skills!Idle, Skills!SkillAssumption
<1>3. LoadedIsCurrent /\ MovedIsNew /\ NamesPackage
  BY DEF Skills!Init, LoadedIsCurrent, MovedIsNew, NamesPackage, Skills!Idle
<1>4. Skills!RegistryIsSound
  BY DEF Skills!Init, Skills!RegistryIsSound, Skills!Empty
<1>5. QED
  BY <1>2, <1>3, <1>4 DEF SkillInv

(* Every step keeps it: changes of the registry happen in a step that      *)
(* returns, and all others leave the registry alone.                       *)
LEMMA SkillStep ==
    ASSUME Skills!SkillAssumption, SkillInv, [Skills!Next]_Skills!vars PROVE SkillInv'
<1> USE Skills!SkillAssumption
<1>a. Skills!TypeOK /\ LoadedIsCurrent /\ MovedIsNew /\ NamesPackage /\ Skills!RegistryIsSound
  BY DEF SkillInv
<1>b. registry \in Skills!Registry /\ skillCall \in [Calls -> Skills!Call]
      /\ package \in [Digests -> {"absent", "whole", "changed"}]
  BY <1>a DEF Skills!TypeOK
<1>1. ASSUME NEW c \in Calls, NEW op \in {"install", "activate", "rollback"},
             NEW d \in Skills!Versions, NEW activate \in BOOLEAN,
             op # "rollback" => d \in Digests, Skills!Acquire(c, op, d, activate)
      PROVE  SkillInv'
  <2> DEFINE new == [Skills!Idle EXCEPT !.op = op, !.digest = d, !.activate = activate,
                                !.pc = "locked"]
  <2>1. new \in Skills!Call /\ new.pc = "locked" /\ new.op = op /\ new.digest = d
    BY <1>1 DEF Skills!Idle, Skills!Call, Skills!Empty, Skills!Registry, Skills!Versions
  <2>2. /\ skillCall' = [skillCall EXCEPT ![c] = new] /\ skillLock' = c /\ skillLock = NoValue
        /\ registry' = registry /\ package' = package
    BY <1>1 DEF Skills!Acquire
  <2>3. \A e \in Calls : skillCall[e].pc = "idle"
    BY <2>2, <1>a DEF Skills!TypeOK, Skills!SkillAssumption
  <2>4. Skills!TypeOK'
    BY <2>1, <2>2, <2>3, <1>a, <1>b DEF Skills!TypeOK
  <2>5. LoadedIsCurrent' /\ MovedIsNew'
    BY <2>1, <2>2, <2>3, <1>b DEF LoadedIsCurrent, MovedIsNew
  <2>6. NamesPackage'
    BY <1>1, <2>1, <2>2, <1>a, <1>b DEF NamesPackage
  <2>7. Skills!RegistryIsSound'
    BY <2>2, <1>a DEF Skills!RegistryIsSound, Skills!Conflict
  <2>8. QED
    BY <2>4, <2>5, <2>6, <2>7 DEF SkillInv
<1>2. ASSUME NEW c \in Calls, Skills!Load(c) PROVE SkillInv'
  <2>1. /\ skillCall' = [skillCall EXCEPT ![c].loaded = registry, ![c].pc = "loaded"]
        /\ skillCall[c].pc = "locked"
        /\ registry' = registry /\ package' = package /\ skillLock' = skillLock
    BY <1>2 DEF Skills!Load
  <2>2. /\ skillCall' \in [Calls -> Skills!Call]
        /\ skillCall'[c].pc = "loaded" /\ skillCall'[c].loaded = registry
        /\ skillCall'[c].op = skillCall[c].op /\ skillCall'[c].digest = skillCall[c].digest
        /\ \A d \in Calls \ {c} : skillCall'[d] = skillCall[d]
    BY <2>1, <1>b DEF Skills!Call
  <2>3. Skills!TypeOK'
    BY <2>1, <2>2, <1>a DEF Skills!TypeOK
  <2>4. LoadedIsCurrent' /\ MovedIsNew' /\ NamesPackage'
    BY <2>1, <2>2, <1>a DEF LoadedIsCurrent, MovedIsNew, NamesPackage, Skills!Conflict
  <2>5. Skills!RegistryIsSound'
    BY <2>1, <1>a DEF Skills!RegistryIsSound, Skills!Conflict
  <2>6. QED
    BY <2>3, <2>4, <2>5 DEF SkillInv
<1>3. ASSUME NEW c \in Calls, NEW v \in registry.versions,
             skillCall[c].pc # "idle", registry.active # v,
             registry' = Skills!WithActive(registry, v), package' = package, Skills!Return(c)
      PROVE  SkillInv'
  <2>1. LET w == Skills!WithActive(registry, v) IN
        /\ w \in Skills!Registry /\ w.versions = registry.versions
        /\ w.active \in w.versions \cup {NoValue} /\ w.previous \in w.versions \cup {NoValue}
        /\ w.previous # NoValue => w.active \notin {w.previous, NoValue}
    BY <1>a, <1>b, <1>3, WithActiveSound DEF Skills!RegistryIsSound
  <2>2. (Skills!TypeOK /\ LoadedIsCurrent /\ MovedIsNew /\ NamesPackage)'
    BY <2>1, <1>a, <1>b, <1>3, IdleInvariants
  <2>3. Skills!RegistryIsSound'
    BY <2>1, <1>a, <1>3 DEF Skills!RegistryIsSound, Skills!Conflict
  <2>4. QED
    BY <2>2, <2>3 DEF SkillInv
<1>4. ASSUME NEW c \in Calls, Skills!InstallKnown(c) PROVE SkillInv'
  BY <1>4, <1>3, <1>a DEF Skills!InstallKnown, Skills!At, LoadedIsCurrent
<1>5. ASSUME NEW c \in Calls, Skills!MovePackage(c) PROVE SkillInv'
  <2>1. /\ skillCall' = [skillCall EXCEPT ![c].pc = "moved"] /\ skillLock' = skillLock
        /\ package' = [package EXCEPT ![skillCall[c].digest] = "whole"]
        /\ registry' = registry /\ skillCall[c].pc = "loaded" /\ skillCall[c].op = "install"
        /\ skillCall[c].digest \notin registry.versions /\ ~Skills!Conflict(registry, skillCall[c].digest)
    BY <1>5, <1>a DEF Skills!MovePackage, Skills!At, Skills!Step, LoadedIsCurrent
  <2>2. skillCall[c].digest \in Digests
    BY <2>1, <1>a DEF NamesPackage
  <2>3. /\ skillCall' \in [Calls -> Skills!Call] /\ skillCall'[c].pc = "moved"
        /\ skillCall'[c].loaded = skillCall[c].loaded
        /\ skillCall'[c].op = skillCall[c].op /\ skillCall'[c].digest = skillCall[c].digest
        /\ \A d \in Calls \ {c} : skillCall'[d] = skillCall[d]
    BY <2>1, <1>b DEF Skills!Call
  <2>4. /\ package' \in [Digests -> {"absent", "whole", "changed"}]
        /\ \A d \in Digests : package[d] # "absent" => package'[d] # "absent"
        /\ package'[skillCall[c].digest] # "absent"
    BY <2>1, <2>2, <1>b
  <2>5. Skills!TypeOK'
    BY <2>1, <2>3, <2>4, <1>a DEF Skills!TypeOK
  <2>6. LoadedIsCurrent' /\ NamesPackage'
    BY <2>1, <2>3, <1>a DEF LoadedIsCurrent, NamesPackage
  <2>7. MovedIsNew'
    <3>1. \A d \in Calls \ {c} : skillCall'[d].pc = "idle"
      BY <2>1, <2>3, <1>a, OthersIdle
    <3>2. QED
      BY <2>1, <2>2, <2>3, <2>4, <3>1 DEF MovedIsNew, Skills!Conflict
  <2>8. Skills!RegistryIsSound'
    BY <2>1, <2>4, <1>a, <1>b DEF Skills!RegistryIsSound, Skills!Conflict, Skills!Registry
  <2>9. QED
    BY <2>5, <2>6, <2>7, <2>8 DEF SkillInv
<1>6. ASSUME NEW c \in Calls, Skills!RegisterVersion(c) PROVE SkillInv'
  <2> DEFINE d == skillCall[c].digest
             r == [registry EXCEPT !.versions = @ \cup {d}]
  <2>1. /\ skillCall[c].pc = "moved" /\ Skills!Return(c) /\ package' = package
        /\ registry' = IF skillCall[c].activate THEN Skills!WithActive(r, d) ELSE r
    BY <1>6, <1>a DEF Skills!RegisterVersion, Skills!At, LoadedIsCurrent
  <2>2. /\ d \in Digests /\ d \notin registry.versions
        /\ ~Skills!Conflict(registry, d) /\ package[d] # "absent"
    BY <2>1, <1>a DEF MovedIsNew
  <2>3. /\ r \in Skills!Registry /\ r.versions = registry.versions \cup {d}
        /\ r.active = registry.active /\ r.previous = registry.previous
    BY <2>2, <1>b DEF Skills!Registry, Skills!Versions
  <2>4. /\ r.active \in r.versions \cup {NoValue} /\ r.previous \in r.versions \cup {NoValue}
        /\ r.previous # NoValue => r.active \notin {r.previous, NoValue}
        /\ r.active # d
    BY <2>2, <2>3, <1>a DEF Skills!RegistryIsSound, Skills!SkillAssumption
  <2>5. /\ registry' \in Skills!Registry /\ registry'.versions = registry.versions \cup {d}
        /\ registry'.active \in registry'.versions \cup {NoValue}
        /\ registry'.previous \in registry'.versions \cup {NoValue}
        /\ registry'.previous # NoValue => registry'.active \notin {registry'.previous, NoValue}
    <3>1. CASE skillCall[c].activate
      <4>1. LET w == Skills!WithActive(r, d) IN
            /\ w \in Skills!Registry /\ w.versions = r.versions
            /\ w.active \in w.versions \cup {NoValue} /\ w.previous \in w.versions \cup {NoValue}
            /\ w.previous # NoValue => w.active \notin {w.previous, NoValue}
        BY <2>3, <2>4, WithActiveSound
      <4>2. QED
        BY <4>1, <3>1, <2>1, <2>3
    <3>2. CASE ~skillCall[c].activate
      BY <3>2, <2>1, <2>3, <2>4
    <3>3. QED
      BY <3>1, <3>2
  <2>6. (Skills!TypeOK /\ LoadedIsCurrent /\ MovedIsNew /\ NamesPackage)'
    BY <2>1, <2>5, <1>a, <1>b, IdleInvariants
  <2>7. \A v \in registry'.versions : package'[v] # "absent" /\ ~Skills!Conflict(registry', v)
    BY <2>1, <2>2, <2>5, <1>a DEF Skills!RegistryIsSound, Skills!Conflict
  <2>8. QED
    BY <2>5, <2>6, <2>7 DEF SkillInv, Skills!RegistryIsSound
<1>7. ASSUME NEW c \in Calls, Skills!RegistrationFails(c) PROVE SkillInv'
  <2>1. /\ skillCall' = [skillCall EXCEPT ![c].pc = "cleanup"] /\ skillLock' = skillLock
        /\ registry' = registry /\ package' = package /\ skillCall[c].pc = "moved"
    BY <1>7 DEF Skills!RegistrationFails, Skills!At, Skills!Step
  <2>2. /\ skillCall' \in [Calls -> Skills!Call] /\ skillCall'[c].pc = "cleanup"
        /\ skillCall'[c].loaded = skillCall[c].loaded
        /\ skillCall'[c].op = skillCall[c].op /\ skillCall'[c].digest = skillCall[c].digest
        /\ \A d \in Calls \ {c} : skillCall'[d] = skillCall[d]
    BY <2>1, <1>b DEF Skills!Call
  <2>3. Skills!TypeOK'
    BY <2>1, <2>2, <1>a DEF Skills!TypeOK
  <2>4. LoadedIsCurrent' /\ MovedIsNew' /\ NamesPackage'
    BY <2>1, <2>2, <1>a DEF LoadedIsCurrent, MovedIsNew, NamesPackage, Skills!Conflict
  <2>5. Skills!RegistryIsSound'
    BY <2>1, <1>a DEF Skills!RegistryIsSound, Skills!Conflict
  <2>6. QED
    BY <2>3, <2>4, <2>5 DEF SkillInv
<1>8. ASSUME NEW c \in Calls, Skills!RemovePackage(c) PROVE SkillInv'
  <2>1. PICK left \in {"absent", "changed", package[skillCall[c].digest]} :
           package' = [package EXCEPT ![skillCall[c].digest] = left]
    BY <1>8 DEF Skills!RemovePackage
  <2>2. /\ skillCall[c].pc = "cleanup" /\ Skills!Return(c) /\ registry' = registry
        /\ skillCall[c].digest \in Digests /\ skillCall[c].digest \notin registry.versions
    BY <1>8, <1>a DEF Skills!RemovePackage, MovedIsNew
  <2>3. /\ package' \in [Digests -> {"absent", "whole", "changed"}]
        /\ \A d \in Digests \ {skillCall[c].digest} : package'[d] = package[d]
    BY <2>1, <2>2, <1>b
  <2>4. (Skills!TypeOK /\ LoadedIsCurrent /\ MovedIsNew /\ NamesPackage)'
    BY <2>2, <2>3, <1>a, <1>b, IdleInvariants
  <2>5. Skills!RegistryIsSound'
    BY <2>2, <2>3, <1>a, <1>b DEF Skills!RegistryIsSound, Skills!Conflict, Skills!Registry
  <2>6. QED
    BY <2>4, <2>5 DEF SkillInv
<1>9. ASSUME NEW c \in Calls, Skills!Activate(c) PROVE SkillInv'
  BY <1>9, <1>3, <1>a DEF Skills!Activate, Skills!At, LoadedIsCurrent
<1>10. ASSUME NEW c \in Calls, Skills!Rollback(c) PROVE SkillInv'
  <2>1. /\ registry.previous # NoValue /\ skillCall[c].pc # "idle"
        /\ registry' = Skills!WithActive(registry, registry.previous)
        /\ package' = package /\ Skills!Return(c)
    BY <1>10, <1>a DEF Skills!Rollback, Skills!At, LoadedIsCurrent
  <2>2. registry.previous \in registry.versions /\ registry.active # registry.previous
    BY <2>1, <1>a DEF Skills!RegistryIsSound
  <2>3. QED
    BY <2>1, <2>2, <1>3
<1>11. ASSUME NEW c \in Calls, Skills!Fails(c) \/ Skills!Dies(c) PROVE SkillInv'
  <2>1. skillCall[c].pc # "idle" /\ Skills!Return(c) /\ registry' = registry /\ package' = package
    BY <1>11 DEF Skills!Fails, Skills!Dies
  <2>2. (Skills!TypeOK /\ LoadedIsCurrent /\ MovedIsNew /\ NamesPackage)'
    BY <2>1, <1>a, <1>b, IdleInvariants
  <2>3. Skills!RegistryIsSound'
    BY <2>1, <1>a DEF Skills!RegistryIsSound, Skills!Conflict
  <2>4. QED
    BY <2>2, <2>3 DEF SkillInv
<1>12. ASSUME NEW d \in Digests, Skills!Edit(d) PROVE SkillInv'
  <2>1. /\ package' = [package EXCEPT ![d] = "changed"]
        /\ registry' = registry /\ skillLock' = skillLock /\ skillCall' = skillCall
    BY <1>12 DEF Skills!Edit
  <2>2. /\ package' \in [Digests -> {"absent", "whole", "changed"}]
        /\ \A e \in Digests : package[e] # "absent" => package'[e] # "absent"
    BY <2>1, <1>b
  <2>3. Skills!TypeOK'
    BY <2>1, <2>2, <1>a DEF Skills!TypeOK
  <2>4. LoadedIsCurrent' /\ MovedIsNew' /\ NamesPackage'
    BY <2>1, <2>2, <1>a DEF LoadedIsCurrent, MovedIsNew, NamesPackage, Skills!Conflict
  <2>5. Skills!RegistryIsSound'
    BY <2>1, <2>2, <1>a, <1>b DEF Skills!RegistryIsSound, Skills!Conflict, Skills!Registry
  <2>6. QED
    BY <2>3, <2>4, <2>5 DEF SkillInv
<1>13. CASE UNCHANGED Skills!vars
  BY <1>13, <1>a DEF Skills!vars, SkillInv, Skills!TypeOK, LoadedIsCurrent, MovedIsNew, NamesPackage,
     Skills!RegistryIsSound, Skills!Conflict
<1>14. ASSUME NEW c \in Calls, NEW d \in Digests, NEW activate \in BOOLEAN,
              Skills!Acquire(c, "install", d, activate) \/ Skills!Acquire(c, "activate", d, FALSE)
       PROVE  SkillInv'
  BY <1>14, <1>1 DEF Skills!Versions
<1>15. ASSUME NEW c \in Calls, Skills!Acquire(c, "rollback", NoValue, FALSE) PROVE SkillInv'
  BY <1>15, <1>1 DEF Skills!Versions
<1>16. QED
  BY <1>2, <1>4, <1>5, <1>6, <1>7, <1>8, <1>9, <1>10, <1>11, <1>12, <1>13, <1>14, <1>15
  DEF Skills!Next

-----------------------------------------------------------------------------
(* The inductive invariant holds in every state.                           *)
THEOREM SkillInvariance ==
    ASSUME Skills!SkillAssumption PROVE Skills!Spec => []SkillInv
<1>1. Skills!Init => SkillInv
  BY SkillInit
<1>2. SkillInv /\ [Skills!Next]_Skills!vars => SkillInv'
  BY SkillStep
<1>3. QED
  BY <1>1, <1>2, PTL DEF Skills!Spec

(* Types, and the lock is held by the one call that is under way.          *)
THEOREM SkillTypes ==
    ASSUME Skills!SkillAssumption PROVE Skills!Spec => []Skills!TypeOK
<1>1. SkillInv => Skills!TypeOK
  BY DEF SkillInv
<1>2. QED
  BY <1>1, SkillInvariance, PTL

(* However installations interleave, fail or die: every registered version *)
(* has a package, a declared version means one content, and a rollback     *)
(* leads to another registered version (skill-store.ts, install, activate  *)
(* and rollback).                                                          *)
THEOREM SkillRegistryIsSound ==
    ASSUME Skills!SkillAssumption PROVE Skills!Spec => []Skills!RegistryIsSound
<1>1. SkillInv => Skills!RegistryIsSound
  BY DEF SkillInv
<1>2. QED
  BY <1>1, SkillInvariance, PTL

-----------------------------------------------------------------------------
(* TaskRooms.                                                              *)

(* The rooms are within the limit of the list.                             *)
RoomsFit == IsFiniteSet(T!Directories) /\ Cardinality(T!Directories) <= MaxContexts

(* A room keeps its latest handles, and none before its first save.        *)
HandlesAreLatest ==
    \A r \in Rooms :
        LET s == room[r].capabilities IN
        /\ Len(s) = IF handlesIssued[r] <= MaxCapabilities THEN handlesIssued[r] ELSE MaxCapabilities
        /\ \A i \in 1 .. Len(s) : s[i] = handlesIssued[r] - Len(s) + i
        /\ room[r].stage # "ready" => handlesIssued[r] = 0

(* What the holder of the lock of the contexts knows: there is space for   *)
(* its directory, and the handles it has loaded are those of its room.     *)
ContextsKnown ==
    \A c \in Calls :
        /\ roomCall[c].pc = "making" =>
              /\ Cardinality(T!Directories) < MaxContexts
              /\ roomCall[c].context.capabilities = <<>>
        /\ roomCall[c].pc = "saving" =>
              /\ room[roomCall[c].room].stage # "absent"
              /\ roomCall[c].context.capabilities = room[roomCall[c].room].capabilities

(* Calls under way name a room; a task that was loaded is the one on disk. *)
TasksKnown ==
    \A c \in Calls :
        /\ roomCall[c].pc \in {"saving", "admitted", "loaded"} => roomCall[c].room \in Rooms
        /\ roomCall[c].pc = "loaded" =>
              /\ roomCall[c].task = task[roomCall[c].room]
              /\ roomCall[c].op = "create" <=> roomCall[c].task = NoValue

RoomsInv ==
    /\ T!TypeOK /\ RoomsFit /\ HandlesAreLatest
    /\ ContextsKnown /\ TasksKnown /\ T!CompletionIsEarned

(* Reading for a change, and the change of what was loaded.                *)
Loads(c) ==
    \/ \E w \in Workspaces, r \in Rooms, h \in 1 .. MaxHandles, op \in T!Changes :
          T!Access(c, w, r, h, op)
    \/ T!Load(c)

SavesLoaded(c) ==
    \/ \E p \in T!Phases : T!CreateTask(c, p)
    \/ \E s \in Steps, to \in T!Progress : T!CheckpointStep(c, s, to)
    \/ \E done \in SUBSET Steps, last \in Steps, s \in Steps \cup {NoValue} :
          T!CheckpointBatch(c, done, last, s)
    \/ T!Block(c) \/ T!Resume(c) \/ T!Complete(c)
    \/ \E v \in {"pass", "failed"} : T!FinalReview(c, v)

-----------------------------------------------------------------------------
(* The operators.                                                          *)

(* FiniteSets is the same module wherever it is extended.                  *)
LEMMA SameCardinality == \A S : T!Cardinality(S) = Cardinality(S)
  BY DEF T!Cardinality, Cardinality

LEMMA IdleTypes == T!Absent \in T!Room /\ T!Idle \in T!Call
  BY DEF T!Absent, T!Idle, T!Room, T!Call

(* What one call's record becomes, the others keep theirs.                 *)
LEMMA CallBecomes ==
    ASSUME T!TypeOK, NEW c \in Calls, NEW new \in T!Call, roomCall' = [roomCall EXCEPT ![c] = new]
    PROVE  /\ roomCall' \in [Calls -> T!Call] /\ roomCall'[c] = new
           /\ \A d \in Calls \ {c} : roomCall'[d] = roomCall[d]
  BY DEF T!TypeOK

(* The end of a sequence from its m-th element on.                         *)
LEMMA SuffixOf ==
    ASSUME NEW s \in Seq(Nat), NEW m \in Int, NEW n \in Int, \A i \in m .. n : s[i] \in Nat
    PROVE  /\ SubSeq(s, m, n) \in Seq(Nat)
           /\ Len(SubSeq(s, m, n)) = IF m <= n THEN n - m + 1 ELSE 0
           /\ \A i \in 1 .. n - m + 1 : SubSeq(s, m, n)[i] = s[m + i - 1]
  BY SubSeqProperties, SMT

(* A new handle is added at the end; at most MaxCapabilities stay.         *)
LEMMA LatestAppended ==
    ASSUME T!RoomsAssumption, NEW s \in Seq(Nat), NEW n \in Nat,
           Len(s) = IF n <= MaxCapabilities THEN n ELSE MaxCapabilities,
           \A i \in 1 .. Len(s) : s[i] = n - Len(s) + i
    PROVE  LET t == T!LatestHandles(Append(s, n + 1)) IN
           /\ t \in Seq(Nat)
           /\ Len(t) = IF n + 1 <= MaxCapabilities THEN n + 1 ELSE MaxCapabilities
           /\ \A i \in 1 .. Len(t) : t[i] = (n + 1) - Len(t) + i
<1> DEFINE a == Append(s, n + 1)
           m == IF Len(a) > MaxCapabilities THEN Len(a) - MaxCapabilities + 1 ELSE 1
           t == T!LatestHandles(a)
<1>1. /\ a \in Seq(Nat) /\ Len(a) = Len(s) + 1 /\ Len(s) \in Nat
      /\ \A i \in 1 .. Len(s) : a[i] = s[i]
      /\ a[Len(s) + 1] = n + 1
  OBVIOUS
<1>2. t = SubSeq(a, m, Len(a))
  BY DEF T!LatestHandles
<1>3. MaxCapabilities \in Nat \ {0}
  BY DEF T!RoomsAssumption
<1> HIDE DEF a, t
<1>4. ASSUME NEW i \in 1 .. Len(a) PROVE a[i] = (n + 1) - Len(a) + i /\ a[i] \in Nat
  <2>1. CASE i = Len(s) + 1
    BY <1>1, <2>1
  <2>2. CASE i # Len(s) + 1
    <3>1. i \in 1 .. Len(s) /\ a[i] = s[i] /\ s[i] = n - Len(s) + i
      BY <1>1, <2>2
    <3>2. a[i] \in Nat
      BY <1>1, ElementOfSeq
    <3>3. Len(s) \in Nat /\ Len(a) = Len(s) + 1
      BY <1>1
    <3>4. n - Len(s) + i = (n + 1) - Len(a) + i
      BY ONLY n \in Nat, i \in Int, <3>3
    <3>5. QED
      BY <3>1, <3>2, <3>4
  <2>3. QED
    BY <2>1, <2>2
<1>5. /\ m \in Nat \ {0} /\ m <= Len(a)
      /\ Len(a) - m + 1 = IF n + 1 <= MaxCapabilities THEN n + 1 ELSE MaxCapabilities
  BY <1>1, <1>3
<1> HIDE DEF m
<1>6. \A i \in m .. Len(a) : a[i] \in Nat
  BY <1>1, <1>4, <1>5
<1>7. /\ t \in Seq(Nat) /\ Len(t) = Len(a) - m + 1
      /\ \A i \in 1 .. Len(a) - m + 1 : t[i] = a[m + i - 1]
  <2>1. m \in Int /\ Len(a) \in Int
    BY <1>1, <1>5
  <2>2. /\ SubSeq(a, m, Len(a)) \in Seq(Nat)
        /\ Len(SubSeq(a, m, Len(a))) = IF m <= Len(a) THEN Len(a) - m + 1 ELSE 0
        /\ \A i \in 1 .. Len(a) - m + 1 : SubSeq(a, m, Len(a))[i] = a[m + i - 1]
    BY <1>1, <1>6, <2>1, SuffixOf
  <2>3. QED
    BY <1>2, <1>5, <2>2
<1>8. ASSUME NEW i \in 1 .. Len(t) PROVE t[i] = (n + 1) - Len(t) + i
  <2> DEFINE j == m + i - 1
  <2>1. i \in 1 .. Len(a) - m + 1 /\ t[i] = a[j]
    BY <1>7
  <2>2. j \in 1 .. Len(a)
    BY <1>1, <1>5, <2>1
  <2>3. a[j] = (n + 1) - Len(a) + j
    BY <1>4, <2>2
  <2>4. Len(a) \in Nat /\ Len(t) \in Nat
    BY <1>1, <1>7
  <2>5. QED
    BY <1>5, <1>7, <2>1, <2>2, <2>3, <2>4
<1>9. QED
  BY <1>5, <1>7, <1>8 DEF t, a

(* The handles of a room are those from the first one kept to the last.    *)
LEMMA LatestAreOpen ==
    ASSUME T!RoomsAssumption, T!TypeOK, HandlesAreLatest, NEW r \in Rooms,
           NEW h \in 1 .. handlesIssued[r], h + MaxCapabilities > handlesIssued[r]
    PROVE  \E i \in DOMAIN room[r].capabilities : room[r].capabilities[i] = h
<1> DEFINE s == room[r].capabilities
           i == h - handlesIssued[r] + Len(s)
<1>1. s \in Seq(Nat) /\ Len(s) \in Nat /\ DOMAIN s = 1 .. Len(s)
  BY DEF T!TypeOK, T!Room
<1>2. handlesIssued[r] \in Nat /\ MaxCapabilities \in Nat
  BY DEF T!TypeOK, T!RoomsAssumption
<1>3. i \in 1 .. Len(s)
  <2>1. Len(s) = IF handlesIssued[r] <= MaxCapabilities THEN handlesIssued[r] ELSE MaxCapabilities
    BY DEF HandlesAreLatest
  <2>2. QED
    BY <1>1, <1>2, <2>1
<1>4. s[i] = h
  <2>1. s[i] = handlesIssued[r] - Len(s) + i
    BY <1>3 DEF HandlesAreLatest
  <2>2. QED
    BY <1>1, <1>2, <2>1
<1>5. QED
  BY <1>1, <1>3, <1>4

(* A task as CompletionIsEarned wants it.                                  *)
Earned(t) ==
    /\ t.status = "completed" => t.review = "pass"
    /\ t.review = "pass" => /\ t.status # "blocked"
                            /\ t.phase = "closeout"
                            /\ \A s \in Steps : t.steps[s] = "completed"
    /\ \A s, o \in Steps : t.steps[s] = "in_progress" /\ t.steps[o] = "in_progress" => s = o

(* A call that returns is idle and holds no lock; the others stay as they  *)
(* are and hold what they held.                                            *)
LEMMA LeaveForm ==
    ASSUME T!RoomsAssumption, T!TypeOK, NEW c \in Calls, T!Leave(c)
    PROVE  /\ roomCall' \in [Calls -> T!Call] /\ roomCall'[c] = T!Idle
           /\ \A d \in Calls \ {c} : roomCall'[d] = roomCall[d]
           /\ contextsLock' \in Calls \cup {NoValue}
           /\ tasksLock' \in [Rooms -> Calls \cup {NoValue}]
           /\ \A d \in Calls : contextsLock' = d <=> roomCall'[d].pc \in {"making", "saving"}
           /\ \A d \in Calls, r \in Rooms :
                 tasksLock'[r] = d <=> roomCall'[d].pc = "loaded" /\ roomCall'[d].room = r
<1>1. /\ roomCall' \in [Calls -> T!Call] /\ roomCall'[c] = T!Idle
      /\ \A d \in Calls \ {c} : roomCall'[d] = roomCall[d]
  BY IdleTypes, CallBecomes DEF T!Leave, T!Return
<1>2. /\ contextsLock' = IF contextsLock = c THEN NoValue ELSE contextsLock
      /\ tasksLock' = [r \in Rooms |-> IF tasksLock[r] = c THEN NoValue ELSE tasksLock[r]]
  BY DEF T!Leave
<1>3. contextsLock' \in Calls \cup {NoValue} /\ tasksLock' \in [Rooms -> Calls \cup {NoValue}]
  BY <1>2 DEF T!TypeOK
<1>4. NoValue \notin Calls /\ T!Idle.pc = "idle"
  BY DEF T!RoomsAssumption, T!Idle
<1>5. \A d \in Calls : contextsLock' = d <=> roomCall'[d].pc \in {"making", "saving"}
  BY <1>1, <1>2, <1>4 DEF T!TypeOK
<1>6. \A d \in Calls, r \in Rooms :
         tasksLock'[r] = d <=> roomCall'[d].pc = "loaded" /\ roomCall'[d].room = r
  BY <1>1, <1>2, <1>4 DEF T!TypeOK
<1>7. QED
  BY <1>1, <1>3, <1>5, <1>6

(* A return that leaves rooms and the loaded tasks of others alone.        *)
LEMMA LeaveKeeps ==
    ASSUME T!RoomsAssumption, T!TypeOK, ContextsKnown, TasksKnown, NEW c \in Calls, T!Leave(c),
           room' = room, handlesIssued' = handlesIssued, task' \in [Rooms -> T!Task \cup {NoValue}],
           \A d \in Calls \ {c} :
              roomCall[d].pc = "loaded" => task'[roomCall[d].room] = task[roomCall[d].room]
    PROVE  T!TypeOK' /\ ContextsKnown' /\ TasksKnown'
<1>1. T!TypeOK'
  BY LeaveForm DEF T!TypeOK
<1>2. ContextsKnown'
  <2>1. T!Directories' = T!Directories
    BY DEF T!Directories
  <2>2. QED
    BY <2>1, LeaveForm DEF ContextsKnown, T!Idle
<1>3. TasksKnown'
  BY LeaveForm DEF TasksKnown, T!Idle
<1>4. QED
  BY <1>1, <1>2, <1>3

(* Rooms that stay keep what is known of them.                             *)
LEMMA SameRooms ==
    ASSUME RoomsFit, HandlesAreLatest, room' = room, handlesIssued' = handlesIssued
    PROVE  RoomsFit' /\ HandlesAreLatest'
  BY DEF RoomsFit, HandlesAreLatest, T!Directories

(* Every change of a task saves one that is earned and keeps the work of   *)
(* the one that was loaded.                                                *)
LEMMA ChangeSaves ==
    ASSUME T!RoomsAssumption, RoomsInv, NEW c \in Calls, SavesLoaded(c)
    PROVE  /\ T!At(c, "loaded")
           /\ \E t \in T!Task : /\ T!Save(c, t) /\ Earned(t)
                                /\ roomCall[c].task # NoValue => T!Kept(roomCall[c].task, t)
<1> DEFINE t == roomCall[c].task
           Good(u) == /\ u \in T!Task /\ T!Save(c, u) /\ Earned(u)
                      /\ t # NoValue => T!Kept(t, u)
<1>1. NoValue \notin T!Task /\ NoValue \notin Steps /\ NoValue # "pass" /\ NoValue # "failed"
      /\ PhaseOf \in [Steps -> T!Phases]
  BY DEF T!RoomsAssumption
<1>2. ASSUME T!At(c, "loaded"), roomCall[c].op # "create"
      PROVE  t \in T!Task /\ Earned(t) /\ t # NoValue
  <2>1. roomCall[c].room \in Rooms /\ t = task[roomCall[c].room] /\ t # NoValue
    BY <1>2 DEF RoomsInv, TasksKnown, T!At
  <2>2. t \in T!Task
    BY <2>1 DEF RoomsInv, T!TypeOK
  <2>3. Earned(t)
    BY <2>1 DEF RoomsInv, T!CompletionIsEarned, Earned
  <2>4. QED
    BY <2>1, <2>2, <2>3
<1>3. ASSUME NEW p \in T!Phases, T!CreateTask(c, p)
      PROVE  T!At(c, "loaded") /\ \E u \in T!Task : Good(u)
  <2> DEFINE u == [status |-> "active", phase |-> p,
                   steps |-> [s \in Steps |-> "pending"], review |-> NoValue]
  <2>1. T!At(c, "loaded") /\ roomCall[c].op = "create" /\ T!Save(c, u)
    BY <1>3 DEF T!CreateTask, T!Loaded
  <2>2. u \in T!Task /\ Earned(u)
    BY <1>1 DEF T!Task, T!Progress, Earned
  <2>3. t = NoValue
    BY <2>1 DEF RoomsInv, TasksKnown, T!At
  <2>4. QED
    BY <2>1, <2>2, <2>3
<1>4. ASSUME NEW s \in Steps, NEW to \in T!Progress, T!CheckpointStep(c, s, to)
      PROVE  T!At(c, "loaded") /\ \E u \in T!Task : Good(u)
  <2> DEFINE steps == [t.steps EXCEPT ![s] = to]
             u == T!Checkpointed(t, steps, PhaseOf[s])
  <2>1. /\ T!At(c, "loaded") /\ roomCall[c].op # "create" /\ T!Save(c, u)
        /\ t.status = "active" /\ t.review # "pass" /\ T!ValidStepTransition(t.steps[s], to)
        /\ to = "in_progress" => \A o \in Steps \ {s} : t.steps[o] # "in_progress"
    BY <1>4 DEF T!CheckpointStep, T!CheckpointOpen, T!Loaded
  <2>2. t \in T!Task /\ Earned(t) /\ t # NoValue
    BY <1>2, <2>1
  <2>3. /\ steps \in [Steps -> T!Progress] /\ steps[s] = to
        /\ \A o \in Steps \ {s} : steps[o] = t.steps[o]
    BY <2>2 DEF T!Task
  <2> HIDE DEF steps
  <2>4. /\ u \in T!Task /\ u.steps = steps /\ u.status = "active" /\ u.review # "pass"
    BY <1>1, <2>1, <2>2, <2>3 DEF T!Checkpointed, T!Task
  <2>5. Earned(u)
    BY <2>1, <2>2, <2>3, <2>4 DEF Earned
  <2>6. T!Kept(t, u)
    BY <1>1, <2>1, <2>2, <2>3, <2>4 DEF T!Kept, T!ValidStepTransition
  <2>7. QED
    BY <2>1, <2>4, <2>5, <2>6
<1>5. ASSUME NEW done \in SUBSET Steps, NEW last \in Steps, NEW current \in Steps \cup {NoValue},
             T!CheckpointBatch(c, done, last, current)
      PROVE  T!At(c, "loaded") /\ \E u \in T!Task : Good(u)
  <2> DEFINE steps == [s \in Steps |-> IF s \in done THEN "completed"
                                       ELSE IF s = current THEN "in_progress" ELSE t.steps[s]]
             u == T!Checkpointed(t, steps, PhaseOf[last])
  <2>1. /\ T!At(c, "loaded") /\ roomCall[c].op # "create" /\ T!Save(c, u)
        /\ t.status = "active" /\ t.review # "pass" /\ current \notin done
        /\ current # NoValue =>
              /\ T!ValidStepTransition(t.steps[current], "in_progress")
              /\ \A o \in Steps \ (done \cup {current}) : t.steps[o] # "in_progress"
    BY <1>5 DEF T!CheckpointBatch, T!CheckpointOpen, T!Loaded
  <2>2. t \in T!Task /\ Earned(t) /\ t # NoValue
    BY <1>2, <2>1
  <2>3. steps \in [Steps -> T!Progress]
    BY <2>2 DEF T!Task, T!Progress
  <2>4. \A s \in Steps : steps[s] = IF s \in done THEN "completed"
                                    ELSE IF s = current THEN "in_progress" ELSE t.steps[s]
    OBVIOUS
  <2> HIDE DEF steps
  <2>5. /\ u \in T!Task /\ u.steps = steps /\ u.status = "active" /\ u.review # "pass"
    BY <1>1, <2>1, <2>2, <2>3 DEF T!Checkpointed, T!Task
  <2>6. \A s, o \in Steps : steps[s] = "in_progress" /\ steps[o] = "in_progress" => s = o
    BY <1>1, <2>1, <2>2, <2>4 DEF Earned
  <2>7. Earned(u)
    BY <2>5, <2>6 DEF Earned
  <2>8. \A s \in Steps : T!ValidStepTransition(t.steps[s], steps[s])
    <3>1. \A s \in Steps : t.steps[s] \in {"pending", "in_progress", "completed"}
      BY <2>2 DEF T!Task, T!Progress
    <3>2. QED
      BY <1>1, <2>1, <2>4, <3>1 DEF T!ValidStepTransition
  <2>9. T!Kept(t, u)
    BY <1>1, <2>1, <2>5, <2>8 DEF T!Kept
  <2>10. QED
    BY <2>1, <2>5, <2>7, <2>9
<1>6. ASSUME T!Block(c) \/ T!Resume(c) \/ T!Complete(c)
      PROVE  T!At(c, "loaded") /\ \E u \in T!Task : Good(u)
  <2>1. PICK status \in {"active", "blocked", "completed"} :
           /\ T!At(c, "loaded") /\ roomCall[c].op # "create"
           /\ T!Save(c, [t EXCEPT !.status = status]) /\ t.status # "completed"
           /\ status = "completed" => t.review = "pass"
           /\ status = "blocked" => t.review # "pass"
    BY <1>6 DEF T!Block, T!Resume, T!Complete, T!Loaded
  <2> DEFINE u == [t EXCEPT !.status = status]
  <2>2. t \in T!Task /\ Earned(t) /\ t # NoValue
    BY <1>2, <2>1
  <2>3. /\ u \in T!Task /\ u.status = status /\ u.steps = t.steps /\ u.review = t.review
        /\ u.phase = t.phase
    BY <2>2 DEF T!Task
  <2>4. Earned(u)
    BY <2>1, <2>2, <2>3 DEF Earned
  <2>5. T!Kept(t, u)
    BY <1>1, <2>1, <2>2, <2>3 DEF T!Kept, T!ValidStepTransition
  <2>6. QED
    BY <2>1, <2>3, <2>4, <2>5
<1>7. ASSUME NEW v \in {"pass", "failed"}, T!FinalReview(c, v)
      PROVE  T!At(c, "loaded") /\ \E u \in T!Task : Good(u)
  <2> DEFINE u == [t EXCEPT !.review = v, !.phase = IF v = "pass" THEN "closeout" ELSE @]
  <2>1. /\ T!At(c, "loaded") /\ roomCall[c].op # "create" /\ T!Save(c, u)
        /\ t.status = "active" /\ t.review # "pass"
        /\ v = "pass" => \A s \in Steps : t.steps[s] = "completed"
    BY <1>7 DEF T!FinalReview, T!Loaded
  <2>2. t \in T!Task /\ Earned(t) /\ t # NoValue
    BY <1>2, <2>1
  <2>3. /\ u \in T!Task /\ u.status = "active" /\ u.steps = t.steps /\ u.review = v
        /\ v = "pass" => u.phase = "closeout"
    BY <2>1, <2>2 DEF T!Task, T!Phases
  <2>4. Earned(u)
    BY <2>1, <2>2, <2>3 DEF Earned
  <2>5. T!Kept(t, u)
    BY <1>1, <2>1, <2>2, <2>3 DEF T!Kept, T!ValidStepTransition
  <2>6. QED
    BY <2>1, <2>3, <2>4, <2>5
<1>8. T!At(c, "loaded") /\ \E u \in T!Task : Good(u)
  BY <1>3, <1>4, <1>5, <1>6, <1>7 DEF SavesLoaded
<1>9. QED
  BY <1>8

(* What is loaded, known or held stays true of calls that do not change.   *)
LEMMA RoomsInit ==
    ASSUME T!RoomsAssumption, T!Init PROVE RoomsInv
<1>1. NoValue \notin Calls
  BY DEF T!RoomsAssumption
<1>2. T!TypeOK
  BY <1>1, IdleTypes DEF T!Init, T!TypeOK, T!Idle, T!RoomsAssumption
<1>3. T!Directories = {}
  BY DEF T!Init, T!Directories, T!Absent
<1>4. RoomsFit
  BY <1>3, FS_EmptySet DEF RoomsFit, T!RoomsAssumption
<1>5. HandlesAreLatest
  BY DEF T!Init, HandlesAreLatest, T!Absent, T!RoomsAssumption
<1>6. ContextsKnown /\ TasksKnown
  BY DEF T!Init, ContextsKnown, TasksKnown, T!Idle
<1>7. T!CompletionIsEarned
  BY DEF T!Init, T!CompletionIsEarned
<1>8. QED
  BY <1>2, <1>4, <1>5, <1>6, <1>7 DEF RoomsInv

(* Contexts: only the holder of their lock makes a directory or saves.     *)
LEMMA ContextsStep ==
    ASSUME T!RoomsAssumption, RoomsInv, NEW c \in Calls, T!ChangeContexts(c)
    PROVE  RoomsInv'
<1> USE T!RoomsAssumption DEF RoomsInv
<1>0. /\ NoValue \notin Calls /\ roomCall \in [Calls -> T!Call]
      /\ room \in [Rooms -> T!Room] /\ handlesIssued \in [Rooms -> 0 .. MaxHandles]
      /\ IsFiniteSet(T!Directories) /\ Cardinality(T!Directories) \in Nat
      /\ MaxContexts \in Nat /\ MaxHandles \in Nat
  BY FS_CardinalityType DEF T!TypeOK, RoomsFit, T!RoomsAssumption
<1>1. ASSUME NEW w \in Workspaces, T!CreateContext(c, w) PROVE RoomsInv'
  <2> DEFINE context == [T!Absent EXCEPT !.workspace = w]
             new == [roomCall[c] EXCEPT !.op = "context_create", !.pc = "making",
                                        !.context = context]
  <2>1. /\ roomCall[c].pc = "idle" /\ contextsLock = NoValue /\ contextsLock' = c
        /\ Cardinality(T!Directories) < MaxContexts
        /\ roomCall' = [roomCall EXCEPT ![c] = new]
        /\ room' = room /\ handlesIssued' = handlesIssued /\ task' = task /\ tasksLock' = tasksLock
    BY <1>1, SameCardinality DEF T!CreateContext, T!At
  <2>2. context \in T!Room /\ context.capabilities = <<>>
    <3>1. context = [stage |-> "absent", workspace |-> w, capabilities |-> <<>>]
      BY DEF T!Absent
    <3>2. <<>> \in Seq(Nat)
      OBVIOUS
    <3>3. QED
      BY <3>1, <3>2 DEF T!Room
  <2>3. new \in T!Call /\ new.pc = "making" /\ new.context.capabilities = <<>>
    BY <1>0, <2>2 DEF T!Call
  <2> HIDE DEF new
  <2>4. /\ roomCall' \in [Calls -> T!Call] /\ roomCall'[c] = new
        /\ \A d \in Calls \ {c} : roomCall'[d] = roomCall[d]
    BY <2>1, <2>3, CallBecomes
  <2>5. T!Directories' = T!Directories
    BY <2>1 DEF T!Directories
  <2>6. T!TypeOK'
    BY <1>0, <2>1, <2>3, <2>4 DEF T!TypeOK
  <2>7. ContextsKnown' /\ TasksKnown'
    BY <2>1, <2>3, <2>4, <2>5 DEF ContextsKnown, TasksKnown
  <2>8. RoomsFit' /\ HandlesAreLatest' /\ T!CompletionIsEarned'
    BY <2>1, SameRooms DEF T!CompletionIsEarned
  <2>9. QED
    BY <2>6, <2>7, <2>8
<1>2. ASSUME NEW r \in Rooms, T!MakeDirectory(c, r) PROVE RoomsInv'
  <2> DEFINE new == [roomCall[c] EXCEPT !.pc = "saving", !.room = r]
             made == [room[r] EXCEPT !.stage = "directory"]
  <2>1. /\ roomCall[c].pc = "making" /\ room[r].stage = "absent"
        /\ room' = [room EXCEPT ![r] = made] /\ roomCall' = [roomCall EXCEPT ![c] = new]
        /\ contextsLock' = contextsLock
        /\ handlesIssued' = handlesIssued /\ task' = task /\ tasksLock' = tasksLock
    BY <1>2 DEF T!MakeDirectory, T!At
  <2>2. /\ made \in T!Room /\ made.stage = "directory"
        /\ made.capabilities = room[r].capabilities
    BY <1>0 DEF T!Room
  <2>3. new \in T!Call /\ new.pc = "saving" /\ new.room = r /\ new.context = roomCall[c].context
    BY <1>0 DEF T!Call
  <2> HIDE DEF new, made
  <2>4. /\ roomCall' \in [Calls -> T!Call] /\ roomCall'[c] = new
        /\ \A d \in Calls \ {c} : roomCall'[d] = roomCall[d]
    BY <2>1, <2>3, CallBecomes
  <2>5. /\ room' \in [Rooms -> T!Room] /\ room'[r] = made
        /\ \A q \in Rooms \ {r} : room'[q] = room[q]
    BY <1>0, <2>1, <2>2
  <2>6. \A d \in Calls \ {c} : roomCall[d].pc \notin {"making", "saving"}
    BY <2>1 DEF T!TypeOK
  <2>7. T!TypeOK'
    BY <1>0, <2>1, <2>3, <2>4, <2>5 DEF T!TypeOK
  <2>8. RoomsFit'
    <3>1. T!Directories' = T!Directories \cup {r} /\ r \notin T!Directories
      BY <2>1, <2>2, <2>5 DEF T!Directories
    <3>2. /\ IsFiniteSet(T!Directories \cup {r})
          /\ Cardinality(T!Directories \cup {r}) = Cardinality(T!Directories) + 1
      BY <1>0, <3>1, FS_AddElement
    <3>3. Cardinality(T!Directories) < MaxContexts
      BY <2>1 DEF ContextsKnown
    <3>4. QED
      BY <1>0, <3>1, <3>2, <3>3 DEF RoomsFit
  <2>9. HandlesAreLatest'
    BY <2>1, <2>2, <2>5 DEF HandlesAreLatest
  <2>10. ContextsKnown'
    <3>1. room[r].capabilities = <<>>
      <4>1. handlesIssued[r] = 0 /\ Len(room[r].capabilities) = 0
        BY <1>0, <2>1 DEF HandlesAreLatest, T!RoomsAssumption
      <4>2. room[r].capabilities \in Seq(Nat)
        BY <1>0 DEF T!Room
      <4>3. QED
        BY <4>1, <4>2
    <3>2. roomCall[c].context.capabilities = <<>>
      BY <2>1 DEF ContextsKnown
    <3>3. QED
      BY <2>2, <2>3, <2>4, <2>5, <2>6, <3>1, <3>2 DEF ContextsKnown
  <2>11. TasksKnown' /\ T!CompletionIsEarned'
    BY <2>1, <2>3, <2>4 DEF TasksKnown, T!CompletionIsEarned
  <2>12. QED
    BY <2>7, <2>8, <2>9, <2>10, <2>11
<1>3. ASSUME NEW w \in Workspaces, NEW r \in Rooms, NEW b \in BOOLEAN,
             T!ReattachContext(c, w, r, b)
      PROVE  RoomsInv'
  <2> DEFINE new == [roomCall[c] EXCEPT !.op = "context_reattach", !.pc = "saving", !.room = r,
                                    !.context = room[r]]
  <2>1. /\ roomCall[c].pc = "idle" /\ contextsLock = NoValue /\ contextsLock' = c
        /\ room[r].stage = "ready" /\ roomCall' = [roomCall EXCEPT ![c] = new]
        /\ room' = room /\ handlesIssued' = handlesIssued /\ task' = task /\ tasksLock' = tasksLock
    BY <1>3 DEF T!ReattachContext, T!At
  <2>2. new \in T!Call /\ new.pc = "saving" /\ new.room = r /\ new.context = room[r]
    BY <1>0 DEF T!Call
  <2> HIDE DEF new
  <2>3. /\ roomCall' \in [Calls -> T!Call] /\ roomCall'[c] = new
        /\ \A d \in Calls \ {c} : roomCall'[d] = roomCall[d]
    BY <2>1, <2>2, CallBecomes
  <2>4. T!Directories' = T!Directories
    BY <2>1 DEF T!Directories
  <2>5. T!TypeOK'
    BY <1>0, <2>1, <2>2, <2>3 DEF T!TypeOK
  <2>6. ContextsKnown' /\ TasksKnown'
    BY <2>1, <2>2, <2>3, <2>4 DEF ContextsKnown, TasksKnown
  <2>7. RoomsFit' /\ HandlesAreLatest' /\ T!CompletionIsEarned'
    BY <2>1, SameRooms DEF T!CompletionIsEarned
  <2>8. QED
    BY <2>5, <2>6, <2>7
<1>4. CASE T!SaveContext(c)
  <2> DEFINE r == roomCall[c].room
             handles == T!LatestHandles(Append(room[r].capabilities, handlesIssued[r] + 1))
             saved == [roomCall[c].context EXCEPT !.stage = "ready", !.capabilities = handles]
  <2>1. /\ roomCall[c].pc = "saving" /\ handlesIssued[r] < MaxHandles
        /\ handlesIssued' = [handlesIssued EXCEPT ![r] = handlesIssued[r] + 1]
        /\ contextsLock' = NoValue /\ T!Return(c) /\ task' = task /\ tasksLock' = tasksLock
    BY <1>4 DEF T!SaveContext, T!At
  <2>2. /\ r \in Rooms /\ room[r].stage # "absent"
        /\ roomCall[c].context.capabilities = room[r].capabilities
    BY <2>1 DEF ContextsKnown, TasksKnown
  <2>3. room' = [room EXCEPT ![r] = saved]
    BY <1>4, <2>2 DEF T!SaveContext
  <2>4. handlesIssued[r] \in Nat /\ room[r].capabilities \in Seq(Nat)
    BY <1>0, <2>2 DEF T!Room
  <2>5. /\ handles \in Seq(Nat)
        /\ Len(handles) = IF handlesIssued[r] + 1 <= MaxCapabilities THEN handlesIssued[r] + 1
                          ELSE MaxCapabilities
        /\ \A i \in 1 .. Len(handles) : handles[i] = (handlesIssued[r] + 1) - Len(handles) + i
    BY <2>2, <2>4, LatestAppended DEF HandlesAreLatest
  <2> HIDE DEF handles
  <2>6. saved \in T!Room /\ saved.stage = "ready" /\ saved.capabilities = handles
    <3>1. roomCall[c].context \in T!Room
      BY <1>0 DEF T!Call
    <3>2. QED
      BY <2>5, <3>1 DEF T!Room
  <2> HIDE DEF saved
  <2>7. /\ roomCall' \in [Calls -> T!Call] /\ roomCall'[c] = T!Idle /\ T!Idle.pc = "idle"
        /\ \A d \in Calls \ {c} : roomCall'[d] = roomCall[d]
    BY <2>1, IdleTypes, CallBecomes DEF T!Return, T!Idle
  <2>8. /\ room' \in [Rooms -> T!Room] /\ room'[r] = saved
        /\ \A q \in Rooms \ {r} : room'[q] = room[q]
    BY <1>0, <2>2, <2>3, <2>6
  <2>9. /\ handlesIssued' \in [Rooms -> 0 .. MaxHandles] /\ handlesIssued'[r] = handlesIssued[r] + 1
        /\ \A q \in Rooms \ {r} : handlesIssued'[q] = handlesIssued[q]
    BY <1>0, <2>1, <2>2, <2>4
  <2>10. \A d \in Calls \ {c} : roomCall[d].pc \notin {"making", "saving"}
    BY <2>1 DEF T!TypeOK
  <2> HIDE DEF r
  <2>11. T!TypeOK'
    BY <1>0, <2>1, <2>7, <2>8, <2>9, <2>10 DEF T!TypeOK
  <2>12. RoomsFit'
    <3>1. T!Directories' = T!Directories
      BY <2>2, <2>6, <2>8 DEF T!Directories
    <3>2. QED
      BY <3>1 DEF RoomsFit
  <2>13. HandlesAreLatest'
    <3> DEFINE Latest(context, n) ==
          /\ Len(context.capabilities) = IF n <= MaxCapabilities THEN n ELSE MaxCapabilities
          /\ \A i \in 1 .. Len(context.capabilities) :
                context.capabilities[i] = n - Len(context.capabilities) + i
          /\ context.stage # "ready" => n = 0
    <3>1. Latest(saved, handlesIssued[r] + 1)
      BY <2>5, <2>6
    <3>2. \A q \in Rooms : Latest(room[q], handlesIssued[q])
      BY DEF HandlesAreLatest
    <3> HIDE DEF Latest
    <3>3. \A q \in Rooms : Latest(room'[q], handlesIssued'[q])
      BY <2>8, <2>9, <3>1, <3>2
    <3> USE DEF Latest
    <3>4. QED
      BY <3>3 DEF HandlesAreLatest
  <2>14. ContextsKnown' /\ TasksKnown' /\ T!CompletionIsEarned'
    BY <2>1, <2>7, <2>10 DEF ContextsKnown, TasksKnown, T!CompletionIsEarned
  <2>15. QED
    BY <2>11, <2>12, <2>13, <2>14
<1>5. QED
  BY <1>1, <1>2, <1>3, <1>4 DEF T!ChangeContexts

(* A saved task is on disk under the lock of its room.                     *)
LEMMA SaveStep ==
    ASSUME T!RoomsAssumption, RoomsInv, NEW c \in Calls, NEW t \in T!Task,
           T!At(c, "loaded"), T!Save(c, t), Earned(t)
    PROVE  RoomsInv'
<1> USE DEF RoomsInv
<1> DEFINE r == roomCall[c].room
<1>1. /\ task' = [task EXCEPT ![r] = t] /\ T!Leave(c)
      /\ room' = room /\ handlesIssued' = handlesIssued
      /\ r \in Rooms
  BY DEF T!Save, TasksKnown, T!At
<1>2. /\ task' \in [Rooms -> T!Task \cup {NoValue}] /\ task'[r] = t
      /\ \A q \in Rooms \ {r} : task'[q] = task[q]
  BY <1>1 DEF T!TypeOK
<1>3. \A d \in Calls \ {c} : roomCall[d].pc = "loaded" => roomCall[d].room \in Rooms \ {r}
  BY DEF T!TypeOK, TasksKnown, T!At
<1>4. T!TypeOK' /\ ContextsKnown' /\ TasksKnown'
  BY <1>1, <1>2, <1>3, LeaveKeeps
<1>5. RoomsFit' /\ HandlesAreLatest'
  BY <1>1, SameRooms
<1>6. T!CompletionIsEarned'
  BY <1>2 DEF T!CompletionIsEarned, Earned
<1>7. QED
  BY <1>4, <1>5, <1>6

(* Access and load: what is loaded is what the lock protects.              *)
LEMMA LoadStep ==
    ASSUME T!RoomsAssumption, RoomsInv, NEW c \in Calls, Loads(c)
    PROVE  RoomsInv'
<1> USE DEF RoomsInv
<1>0. roomCall \in [Calls -> T!Call] /\ NoValue \notin Calls
  BY DEF T!TypeOK, T!RoomsAssumption
<1>1. room' = room /\ handlesIssued' = handlesIssued /\ task' = task /\ contextsLock' = contextsLock
  BY DEF Loads, T!Access, T!Load
<1>2. RoomsFit' /\ HandlesAreLatest' /\ T!CompletionIsEarned' /\ T!Directories' = T!Directories
  BY <1>1, SameRooms DEF T!CompletionIsEarned, T!Directories
<1>3. ASSUME NEW r \in Rooms, NEW op \in T!Changes,
             roomCall' = [roomCall EXCEPT ![c].op = op, ![c].pc = "admitted", ![c].room = r],
             roomCall[c].pc = "idle", tasksLock' = tasksLock
      PROVE  RoomsInv'
  <2> DEFINE new == [roomCall[c] EXCEPT !.op = op, !.pc = "admitted", !.room = r]
  <2>1. new \in T!Call /\ new.pc = "admitted" /\ new.room = r
    BY <1>0 DEF T!Call
  <2>2. roomCall' = [roomCall EXCEPT ![c] = new]
    BY <1>3
  <2> HIDE DEF new
  <2>3. /\ roomCall' \in [Calls -> T!Call] /\ roomCall'[c] = new
        /\ \A d \in Calls \ {c} : roomCall'[d] = roomCall[d]
    BY <2>1, <2>2, CallBecomes
  <2>4. T!TypeOK'
    BY <1>0, <1>1, <1>3, <2>1, <2>3 DEF T!TypeOK
  <2>5. ContextsKnown' /\ TasksKnown'
    BY <1>1, <1>2, <2>1, <2>3 DEF ContextsKnown, TasksKnown
  <2>6. QED
    BY <1>2, <2>4, <2>5
<1>4. CASE T!Load(c)
  <2> DEFINE r == roomCall[c].room
             new == [roomCall[c] EXCEPT !.pc = "loaded", !.task = task[r]]
  <2>1. /\ roomCall[c].pc = "admitted" /\ tasksLock[r] = NoValue
        /\ roomCall[c].op = "create" <=> task[r] = NoValue
        /\ tasksLock' = [tasksLock EXCEPT ![r] = c] /\ roomCall' = [roomCall EXCEPT ![c] = new]
    BY <1>4 DEF T!Load, T!At
  <2>2. r \in Rooms /\ task[r] \in T!Task \cup {NoValue}
    BY <2>1 DEF TasksKnown, T!TypeOK
  <2>3. /\ new \in T!Call /\ new.pc = "loaded" /\ new.room = r /\ new.task = task[r]
        /\ new.op = roomCall[c].op
    BY <1>0, <2>2 DEF T!Call
  <2> HIDE DEF new
  <2>4. /\ roomCall' \in [Calls -> T!Call] /\ roomCall'[c] = new
        /\ \A d \in Calls \ {c} : roomCall'[d] = roomCall[d]
    BY <2>1, <2>3, CallBecomes
  <2>5. \A d \in Calls \ {c} : ~(roomCall[d].pc = "loaded" /\ roomCall[d].room = r)
    BY <1>0, <2>1, <2>2 DEF T!TypeOK
  <2> HIDE DEF r
  <2>6. /\ tasksLock' \in [Rooms -> Calls \cup {NoValue}] /\ tasksLock'[r] = c
        /\ \A q \in Rooms \ {r} : tasksLock'[q] = tasksLock[q]
    BY <2>1, <2>2 DEF T!TypeOK
  <2>7. \A d \in Calls, q \in Rooms :
           tasksLock'[q] = d <=> roomCall'[d].pc = "loaded" /\ roomCall'[d].room = q
    <3> SUFFICES ASSUME NEW d \in Calls, NEW q \in Rooms
                 PROVE  tasksLock'[q] = d <=> roomCall'[d].pc = "loaded" /\ roomCall'[d].room = q
      OBVIOUS
    <3>1. tasksLock[q] = d <=> roomCall[d].pc = "loaded" /\ roomCall[d].room = q
      BY DEF T!TypeOK
    <3>2. CASE q = r
      BY <2>3, <2>4, <2>5, <2>6, <3>2
    <3>3. CASE q # r
      BY <2>1, <2>3, <2>4, <2>6, <3>1, <3>3
    <3>4. QED
      BY <3>2, <3>3
  <2>8. T!TypeOK'
    BY <1>1, <2>1, <2>3, <2>4, <2>6, <2>7 DEF T!TypeOK
  <2>9. ContextsKnown' /\ TasksKnown'
    BY <1>1, <1>2, <2>1, <2>2, <2>3, <2>4 DEF ContextsKnown, TasksKnown
  <2>10. QED
    BY <1>2, <2>8, <2>9
<1>5. QED
  BY <1>3, <1>4 DEF Loads, T!Access, T!At

(* Every step keeps the invariant.                                         *)
LEMMA RoomsStep ==
    ASSUME T!RoomsAssumption, RoomsInv, [T!Next]_(T!vars) PROVE RoomsInv'
<1>1. ASSUME NEW c \in Calls, T!ChangeContexts(c) PROVE RoomsInv'
  BY <1>1, ContextsStep
<1>2. ASSUME NEW c \in Calls, T!ChangeTask(c) PROVE RoomsInv'
  <2>1. CASE Loads(c)
    BY <2>1, LoadStep
  <2>2. CASE SavesLoaded(c)
    BY <2>2, ChangeSaves, SaveStep
  <2>3. QED
    BY <1>2, <2>1, <2>2 DEF T!ChangeTask, Loads, SavesLoaded
<1>3. ASSUME NEW c \in Calls, T!Fails(c) PROVE RoomsInv'
  <2>1. T!Leave(c) /\ room' = room /\ handlesIssued' = handlesIssued /\ task' = task
    BY <1>3 DEF T!Fails
  <2>2. T!TypeOK' /\ ContextsKnown' /\ TasksKnown'
    BY <2>1, LeaveKeeps DEF RoomsInv, T!TypeOK
  <2>3. RoomsFit' /\ HandlesAreLatest' /\ T!CompletionIsEarned'
    BY <2>1, SameRooms DEF RoomsInv, T!CompletionIsEarned
  <2>4. QED
    BY <2>2, <2>3 DEF RoomsInv
<1>4. CASE UNCHANGED T!vars
  <2>1. /\ room' = room /\ handlesIssued' = handlesIssued /\ task' = task /\ roomCall' = roomCall
        /\ contextsLock' = contextsLock /\ tasksLock' = tasksLock
    BY <1>4 DEF T!vars
  <2>2. RoomsFit' /\ HandlesAreLatest' /\ T!Directories' = T!Directories
    BY <2>1, SameRooms DEF RoomsInv, T!Directories
  <2>3. QED
    BY <2>1, <2>2 DEF RoomsInv, T!TypeOK, ContextsKnown, TasksKnown, T!CompletionIsEarned
<1>5. QED
  BY <1>1, <1>2, <1>3, <1>4 DEF T!Next

(* However calls of all Gateways create, reattach and change rooms, fail   *)
(* and die, the inductive invariant of the rooms holds.                    *)
THEOREM RoomsInvariance ==
    ASSUME T!RoomsAssumption PROVE T!Spec => []RoomsInv
<1>1. T!Init => RoomsInv
  BY RoomsInit
<1>2. RoomsInv /\ [T!Next]_(T!vars) => RoomsInv'
  BY RoomsStep
<1>3. QED
  BY <1>1, <1>2, PTL DEF T!Spec

(* What the invariant says of rooms: they fit, and the latest handles open.*)
LEMMA RoomsOpen ==
    ASSUME T!RoomsAssumption, RoomsInv PROVE T!RoomsReachable
  BY LatestAreOpen, SameCardinality DEF RoomsInv, RoomsFit, T!RoomsReachable

(* There are never more rooms than their list accepts, and a room opens    *)
(* with each of its latest handles (task-context.ts, create and reattach). *)
THEOREM RoomsStayReachable ==
    ASSUME T!RoomsAssumption PROVE T!Spec => []T!RoomsReachable
<1>1. RoomsInv => T!RoomsReachable
  BY RoomsOpen
<1>2. QED
  BY <1>1, RoomsInvariance, PTL

(* A task completes only with a passed review and every step completed,    *)
(* and has at most one step in progress (task-state.ts).                   *)
THEOREM TasksAreEarned ==
    ASSUME T!RoomsAssumption PROVE T!Spec => []T!CompletionIsEarned
<1>1. RoomsInv => T!CompletionIsEarned
  BY DEF RoomsInv
<1>2. QED
  BY <1>1, RoomsInvariance, PTL

(* Every step keeps the recorded work of every task.                       *)
LEMMA RoomsKeepWork ==
    ASSUME T!RoomsAssumption, RoomsInv, [T!Next]_(T!vars)
    PROVE  \A r \in Rooms : task[r] # NoValue => T!Kept(task[r], task'[r])
<1> DEFINE AllKept == \A r \in Rooms : task[r] # NoValue => T!Kept(task[r], task'[r])
<1>1. ASSUME UNCHANGED task PROVE AllKept
  <2> SUFFICES ASSUME NEW r \in Rooms, task[r] # NoValue PROVE T!Kept(task[r], task'[r])
    OBVIOUS
  <2>1. task[r] \in T!Task /\ task'[r] = task[r]
    BY <1>1 DEF RoomsInv, T!TypeOK
  <2>2. QED
    BY <2>1 DEF T!Kept, T!ValidStepTransition
<1>2. ASSUME NEW c \in Calls, T!At(c, "loaded"), NEW t \in T!Task, T!Save(c, t),
             roomCall[c].task # NoValue => T!Kept(roomCall[c].task, t)
      PROVE  AllKept
  <2> SUFFICES ASSUME NEW r \in Rooms, task[r] # NoValue PROVE T!Kept(task[r], task'[r])
    OBVIOUS
  <2>1. task' = [task EXCEPT ![roomCall[c].room] = t] /\ roomCall[c].room \in Rooms
    BY <1>2 DEF T!Save, RoomsInv, TasksKnown, T!At
  <2>2. CASE r = roomCall[c].room
    BY <1>2, <2>1, <2>2 DEF RoomsInv, T!TypeOK, TasksKnown, T!At
  <2>3. CASE r # roomCall[c].room
    <3>1. task[r] \in T!Task /\ task'[r] = task[r]
      BY <2>1, <2>3, <1>2 DEF RoomsInv, T!TypeOK
    <3>2. QED
      BY <3>1 DEF T!Kept, T!ValidStepTransition
  <2>4. QED
    BY <2>2, <2>3
<1>3. ASSUME NEW c \in Calls, T!ChangeContexts(c) \/ T!Fails(c) PROVE UNCHANGED task
  BY <1>3 DEF T!ChangeContexts, T!CreateContext, T!MakeDirectory, T!ReattachContext,
              T!SaveContext, T!Fails
<1>4. ASSUME NEW c \in Calls, T!ChangeTask(c) PROVE AllKept
  <2>1. CASE Loads(c)
    BY <1>1, <2>1 DEF Loads, T!Access, T!Load
  <2>2. CASE SavesLoaded(c)
    <3>1. /\ T!At(c, "loaded")
          /\ \E t \in T!Task :
                T!Save(c, t) /\ (roomCall[c].task # NoValue => T!Kept(roomCall[c].task, t))
      BY <2>2, ChangeSaves
    <3>2. PICK t \in T!Task :
             T!Save(c, t) /\ (roomCall[c].task # NoValue => T!Kept(roomCall[c].task, t))
      BY <3>1
    <3>3. QED
      BY <1>2, <3>1, <3>2
  <2>3. QED
    BY <1>4, <2>1, <2>2 DEF T!ChangeTask, Loads, SavesLoaded
<1>5. CASE UNCHANGED T!vars
  BY <1>1, <1>5 DEF T!vars
<1>6. QED
  BY <1>1, <1>3, <1>4, <1>5 DEF T!Next

(* No step loses a recorded step, review or completion of a task, because  *)
(* the task that a call changes is still the one on disk.                  *)
THEOREM TasksKeepWork ==
    ASSUME T!RoomsAssumption PROVE T!Spec => T!WorkIsKept
<1> DEFINE AllKept == \A r \in Rooms : task[r] # NoValue => T!Kept(task[r], task'[r])
<1>1. RoomsInv /\ [T!Next]_(T!vars) => [AllKept]_(T!vars)
  BY RoomsKeepWork
<1>2. QED
  BY <1>1, RoomsInvariance, PTL DEF T!Spec, T!WorkIsKept

-----------------------------------------------------------------------------
(* Sums over finite sets.  The library's induction theorems cannot be      *)
(* applied, so each proof takes a least counterexample (WFMin).            *)

(* The equation of the fold's function on the parts of S, for g.           *)
Adds(g, e, s) == IF s = {} THEN 0
                 ELSE LET x == CHOOSE x \in s : TRUE IN e[x].bytes + g[s \ {x}]

(* Induction by a set of numbers.                                          *)
LEMMA AllNumbers ==
  ASSUME NEW N \in SUBSET Nat, 0 \in N, \A n \in N : n + 1 \in N
  PROVE  N = Nat
<1> SUFFICES ASSUME Nat \ N # {} PROVE FALSE
  OBVIOUS
<1>1. PICK n \in Nat \ N : \A m \in Nat \ N : n <= m
  BY LeastNatural
<1>2. n - 1 \in Nat /\ n - 1 \notin Nat \ N
  BY <1>1
<1>3. QED
  BY <1>1, <1>2

Upto(n, g, e, S) ==
  /\ g = [s \in SUBSET S |-> g[s]]
  /\ \A s \in SUBSET S : Cardinality(s) <= n => g[s] = Adds(g, e, s)

(* Such a function exists.                                                 *)
LEMMA FoldExists ==
  ASSUME NEW e, NEW S, IsFiniteSet(S)
  PROVE  \E g : g = [s \in SUBSET S |-> Adds(g, e, s)]
<1> DEFINE N == {n \in Nat : \E g : Upto(n, g, e, S)}
<1>1. \A s \in SUBSET S : IsFiniteSet(s) /\ Cardinality(s) \in Nat
                          /\ Cardinality(s) <= Cardinality(S)
  BY FS_Subset, FS_CardinalityType
<1>2. \A s \in SUBSET S : \A x \in s : s \ {x} \in SUBSET S
                                   /\ Cardinality(s \ {x}) = Cardinality(s) - 1
  BY <1>1, FS_RemoveElement
<1>3. 0 \in N
  <2> DEFINE zero == [s \in SUBSET S |-> 0]
  <2>1. \A s \in SUBSET S : Cardinality(s) <= 0 => s = {}
    BY <1>1, FS_EmptySet
  <2>2. Upto(0, zero, e, S)
    BY <2>1 DEF Adds, Upto
  <2>3. QED
    BY <2>2
<1>4. ASSUME NEW n \in N PROVE n + 1 \in N
  <2>1. PICK g : Upto(n, g, e, S)
    OBVIOUS
  <2> DEFINE h == [t \in SUBSET S |-> IF Cardinality(t) <= n THEN g[t] ELSE Adds(g, e, t)]
  <2>2. ASSUME NEW s \in SUBSET S, Cardinality(s) <= n + 1 PROVE Adds(h, e, s) = Adds(g, e, s)
    <3>1. CASE s = {}
      BY <3>1 DEF Adds
    <3>2. CASE s # {}
      <4> DEFINE x == CHOOSE x \in s : TRUE
      <4>1. x \in s
        BY <3>2
      <4> HIDE DEF x
      <4>2. s \ {x} \in SUBSET S /\ Cardinality(s \ {x}) <= n
        BY <1>1, <1>2, <2>2, <4>1
      <4>3. h[s \ {x}] = g[s \ {x}]
        BY <4>2
      <4> HIDE DEF h
      <4>4. QED
        BY <3>2, <4>3 DEF Adds, x
    <3>3. QED
      BY <3>1, <3>2
  <2>3. ASSUME NEW s \in SUBSET S, Cardinality(s) <= n + 1 PROVE h[s] = Adds(h, e, s)
    <3>1. h[s] = Adds(g, e, s)
      BY <2>1 DEF Upto
    <3> HIDE DEF h
    <3>2. QED
      BY <3>1, <2>2, <2>3
  <2>4. h = [s \in SUBSET S |-> h[s]]
    OBVIOUS
  <2> HIDE DEF h
  <2>5. Upto(n + 1, h, e, S)
    BY <2>3, <2>4 DEF Upto
  <2>6. QED
    BY <2>5
<1> HIDE DEF N
<1>5. Cardinality(S) \in N
  <2>1. N \in SUBSET Nat
    BY DEF N
  <2>2. QED
    BY <1>1, <1>3, <1>4, <2>1, AllNumbers
<1>6. PICK g : Upto(Cardinality(S), g, e, S)
  BY <1>5 DEF N
<1>7. \A s \in SUBSET S : g[s] = Adds(g, e, s)
  BY <1>1, <1>6 DEF Upto
<1>8. g = [s \in SUBSET S |-> Adds(g, e, s)]
  BY <1>6, <1>7 DEF Upto
<1>9. QED
  BY <1>8

(* The function g solves the equation on the parts of S.                   *)
Solves(g, e, S) == \A s \in SUBSET S : g[s] = Adds(g, e, s)

(* The function of a part of S agrees with that of S.                      *)
LEMMA FoldUnique ==
  ASSUME NEW e, NEW S, IsFiniteSet(S), NEW P \in SUBSET S, NEW g, NEW h,
         Solves(g, e, S), Solves(h, e, P)
  PROVE  \A s \in SUBSET P : g[s] = h[s]
<1> DEFINE Differ == {s \in SUBSET P : g[s] # h[s]}
           N == {Cardinality(s) : s \in Differ}
<1> SUFFICES ASSUME Differ # {} PROVE FALSE
  OBVIOUS
<1>1. \A s \in SUBSET P : IsFiniteSet(s) /\ Cardinality(s) \in Nat
  BY FS_Subset, FS_CardinalityType
<1>2. N \in SUBSET Nat /\ N # {}
  BY <1>1
<1>3. PICK n \in N : \A m \in N : n <= m
  BY <1>2, LeastNatural
<1>4. PICK s \in Differ : \A t \in Differ : Cardinality(s) <= Cardinality(t)
  BY <1>3
<1>5. s \in SUBSET P /\ s \in SUBSET S /\ g[s] = Adds(g, e, s) /\ h[s] = Adds(h, e, s)
      /\ g[s] # h[s]
  BY DEF Solves
<1>6. CASE s = {}
  BY <1>5, <1>6 DEF Adds
<1>7. CASE s # {}
  <2> DEFINE x == CHOOSE x \in s : TRUE
  <2>1. x \in s
    BY <1>7
  <2> HIDE DEF x
  <2>2. s \ {x} \in SUBSET P /\ Cardinality(s \ {x}) = Cardinality(s) - 1
    BY <1>1, <1>5, <2>1, FS_RemoveElement
  <2>3. s \ {x} \notin Differ
    BY <1>1, <1>4, <1>5, <2>2
  <2>4. g[s \ {x}] = h[s \ {x}]
    BY <2>2, <2>3
  <2>5. QED
    BY <1>5, <1>7, <2>4 DEF Adds, x
<1>8. QED
  BY <1>6, <1>7

(* The sum of the bytes of S, by the function that ArtifactStore's fold is. *)
Sum(e, S) == (CHOOSE g : g = [s \in SUBSET S |-> Adds(g, e, s)])[S]

(* A sum is that of all but some element, and the bytes of that.           *)
LEMMA SumUnfolds ==
  ASSUME NEW e, NEW S, IsFiniteSet(S)
  PROVE  /\ S = {} => Sum(e, S) = 0
         /\ S # {} => \E x \in S : Sum(e, S) = e[x].bytes + Sum(e, S \ {x})
<1> DEFINE Fold(P) == CHOOSE g : g = [s \in SUBSET P |-> Adds(g, e, s)]
<1>1. ASSUME NEW P \in SUBSET S PROVE Solves(Fold(P), e, P)
  <2>0. IsFiniteSet(P)
    BY FS_Subset
  <2>1. \E g : g = [s \in SUBSET P |-> Adds(g, e, s)]
    BY <2>0, FoldExists
  <2>2. Fold(P) = [s \in SUBSET P |-> Adds(Fold(P), e, s)]
    BY <2>1
  <2> HIDE DEF Fold
  <2>3. QED
    BY <2>2 DEF Solves
<1>2. \A P : Sum(e, P) = Fold(P)[P]
  BY DEF Sum
<1> HIDE DEF Fold
<1>3. CASE S = {}
  BY <1>1, <1>2, <1>3 DEF Adds, Solves
<1>4. CASE S # {}
  <2> DEFINE x == CHOOSE x \in S : TRUE
             P == S \ {x}
  <2>1. x \in S
    BY <1>4
  <2>2. Fold(S)[S] = e[x].bytes + Fold(S)[P]
    BY <1>1, <1>4 DEF Adds, Solves
  <2> HIDE DEF x
  <2>3. P \in SUBSET S /\ P \in SUBSET P
    OBVIOUS
  <2> HIDE DEF P
  <2>4. Fold(S)[P] = Fold(P)[P]
    BY <1>1, <2>3, FoldUnique
  <2>5. QED
    BY <1>2, <1>4, <2>1, <2>2, <2>4 DEF P
<1>5. QED
  BY <1>3, <1>4

(* Induction on the number of elements of a finite set, by its least       *)
(* counterexample.                                                         *)
LEMMA SmallestPart ==
  ASSUME NEW S, IsFiniteSet(S), NEW Parts \in SUBSET SUBSET S, Parts # {}
  PROVE  \E s \in Parts : \A x \in s : s \ {x} \notin Parts
<1> DEFINE N == {Cardinality(s) : s \in Parts}
<1>1. \A s \in SUBSET S : IsFiniteSet(s) /\ Cardinality(s) \in Nat
  BY FS_Subset, FS_CardinalityType
<1>2. N \in SUBSET Nat /\ N # {}
  BY <1>1
<1>3. PICK n \in N : \A m \in N : n <= m
  BY <1>2, LeastNatural
<1>4. PICK s \in Parts : \A t \in Parts : Cardinality(s) <= Cardinality(t)
  BY <1>3
<1>5. ASSUME NEW x \in s, s \ {x} \in Parts PROVE FALSE
  <2>1. Cardinality(s \ {x}) = Cardinality(s) - 1
    BY <1>1, FS_RemoveElement
  <2>2. QED
    BY <1>1, <1>4, <1>5, <2>1
<1>6. QED
  BY <1>5

(* A sum of sizes is a size.                                               *)
LEMMA SumType ==
  ASSUME NEW e, NEW S, IsFiniteSet(S), \A a \in S : e[a].bytes \in Nat
  PROVE  Sum(e, S) \in Nat
<1> DEFINE Parts == {s \in SUBSET S : Sum(e, s) \notin Nat}
<1> SUFFICES ASSUME Parts # {} PROVE FALSE
  OBVIOUS
<1>1. PICK s \in Parts : \A x \in s : s \ {x} \notin Parts
  <2> HIDE DEF Parts
  <2>1. Parts \in SUBSET SUBSET S
    BY DEF Parts
  <2>2. QED
    BY <2>1, SmallestPart
<1>2. IsFiniteSet(s)
  BY FS_Subset
<1>3. s # {}
  BY <1>2, SumUnfolds
<1>4. PICK x \in s : Sum(e, s) = e[x].bytes + Sum(e, s \ {x})
  BY <1>2, <1>3, SumUnfolds
<1>5. Sum(e, s \ {x}) \in Nat
  BY <1>1, <1>4
<1>6. QED
  BY <1>4, <1>5

(* Any element can be taken out of a sum.                                  *)
LEMMA SumSplits ==
  ASSUME NEW e, NEW S, IsFiniteSet(S), \A a \in S : e[a].bytes \in Nat, NEW a \in S
  PROVE  Sum(e, S) = e[a].bytes + Sum(e, S \ {a})
<1> DEFINE Splits(s, b) == Sum(e, s) = e[b].bytes + Sum(e, s \ {b})
           Parts == {s \in SUBSET S : \E b \in s : ~Splits(s, b)}
<1> SUFFICES ASSUME Parts # {} PROVE FALSE
  OBVIOUS
<1>1. PICK s \in Parts : \A x \in s : s \ {x} \notin Parts
  <2> HIDE DEF Parts
  <2>1. Parts \in SUBSET SUBSET S
    BY DEF Parts
  <2>2. QED
    BY <2>1, SmallestPart
<1>2. \A t \in SUBSET S : IsFiniteSet(t)
  BY FS_Subset
<1>3. PICK b \in s : ~Splits(s, b)
  OBVIOUS
<1>4. PICK x \in s : Splits(s, x)
  BY <1>2, <1>3, SumUnfolds
<1>5. b # x
  BY <1>3, <1>4
<1>6. Splits(s \ {x}, b) /\ Splits(s \ {b}, x)
  BY <1>1, <1>3, <1>4, <1>5
<1>7. (s \ {x}) \ {b} = (s \ {b}) \ {x}
  OBVIOUS
<1>8. \A t \in SUBSET S : Sum(e, t) \in Nat
  BY <1>2, SumType
<1>9. e[b].bytes \in Nat /\ e[x].bytes \in Nat
  OBVIOUS
<1>10. /\ Sum(e, s) \in Nat /\ Sum(e, s \ {x}) \in Nat /\ Sum(e, s \ {b}) \in Nat
       /\ Sum(e, (s \ {b}) \ {x}) \in Nat
  BY <1>8
<1>11. /\ Sum(e, s) = e[x].bytes + Sum(e, s \ {x})
       /\ Sum(e, s \ {x}) = e[b].bytes + Sum(e, (s \ {b}) \ {x})
       /\ Sum(e, s \ {b}) = e[x].bytes + Sum(e, (s \ {b}) \ {x})
  BY <1>4, <1>6, <1>7
<1> HIDE DEF Parts
<1>12. Sum(e, s) = e[b].bytes + Sum(e, s \ {b})
  BY <1>9, <1>10, <1>11
<1>13. QED
  BY <1>3, <1>12

(* A sum over less, of no more each, is no more.                           *)
LEMMA SumGrows ==
  ASSUME NEW e, NEW f, NEW S, IsFiniteSet(S), NEW P \in SUBSET S,
         \A a \in S : e[a].bytes \in Nat,
         \A a \in P : f[a].bytes \in Nat /\ f[a].bytes <= e[a].bytes
  PROVE  Sum(f, P) <= Sum(e, S)
<1> DEFINE Parts == {s \in SUBSET S : ~(Sum(f, P \cap s) <= Sum(e, s))}
<1> SUFFICES ASSUME Parts # {} PROVE FALSE
  <2>1. P \cap S = P /\ S \in SUBSET S
    OBVIOUS
  <2>2. QED
    BY <2>1
<1>1. PICK s \in Parts : \A x \in s : s \ {x} \notin Parts
  <2> HIDE DEF Parts
  <2>1. Parts \in SUBSET SUBSET S
    BY DEF Parts
  <2>2. QED
    BY <2>1, SmallestPart
<1>2. \A t \in SUBSET S : IsFiniteSet(t)
  BY FS_Subset
<1>3. CASE s = {}
  BY <1>2, <1>3, SumUnfolds
<1>4. CASE s # {}
  <2>1. PICK x \in s : Sum(e, s) = e[x].bytes + Sum(e, s \ {x})
    BY <1>2, <1>4, SumUnfolds
  <2>2. Sum(f, P \cap (s \ {x})) <= Sum(e, s \ {x})
    BY <1>1, <2>1
  <2>3. Sum(e, s \ {x}) \in Nat /\ e[x].bytes \in Nat
    BY <1>2, SumType
  <2>4. Sum(f, P \cap (s \ {x})) \in Nat
    <3>1. IsFiniteSet(P \cap (s \ {x}))
      BY <1>2
    <3>2. QED
      BY <3>1, SumType
  <2>5. Sum(f, P \cap s) <= Sum(e, s)
    <3>1. CASE x \in P
      <4>1. IsFiniteSet(P \cap s) /\ x \in P \cap s
        BY <1>2, <2>1, <3>1
      <4>2. Sum(f, P \cap s) = f[x].bytes + Sum(f, (P \cap s) \ {x})
        BY <4>1, SumSplits
      <4>3. (P \cap s) \ {x} = P \cap (s \ {x})
        OBVIOUS
      <4>4. Sum(f, P \cap s) = f[x].bytes + Sum(f, P \cap (s \ {x}))
        BY <4>2, <4>3
      <4>5. f[x].bytes \in Nat /\ f[x].bytes <= e[x].bytes
        BY <3>1
      <4>6. QED
        BY <2>1, <2>2, <2>3, <2>4, <4>4, <4>5
    <3>2. CASE x \notin P
      <4>1. P \cap s = P \cap (s \ {x})
        BY <3>2
      <4>2. Sum(f, P \cap s) = Sum(f, P \cap (s \ {x}))
        BY <4>1
      <4>3. QED
        BY <2>1, <2>2, <2>3, <2>4, <4>2
    <3>3. QED
      BY <3>1, <3>2
  <2>6. QED
    BY <2>5
<1>5. QED
  BY <1>3, <1>4

-----------------------------------------------------------------------------
(* ArtifactStore.                                                          *)

(* A publication has its own directory, as far as it has filled it.        *)
Fills(e, k) ==
    /\ k.pc \in {"made", "copied", "abandon"} => k.artifact \in Artifacts
    /\ k.pc = "made" => e[k.artifact].stage = "directory"
    /\ k.pc = "copied" => e[k.artifact].stage = "copied"

ArtifactsInv == A!TypeOK /\ \A c \in Calls : Fills(entry, artifactCall[c])

(* A removal leaves well formed entries.                                   *)
LEMMA RemovalsTypes ==
    ASSUME A!TypeOK, NEW a \in Artifacts, NEW e \in A!Removals(a)
    PROVE  e \in [Artifacts -> A!Entry]
<1>1. entry[a] \in A!Entry /\ A!Absent \in A!Entry
  BY DEF A!TypeOK, A!Entry, A!Absent
<1>2. [entry[a] EXCEPT !.bytes = 0] \in A!Entry
  BY <1>1 DEF A!Entry
<1>3. \A s \in {"absent", "directory", "copied", "published"} :
         [entry[a] EXCEPT !.stage = s] \in A!Entry
  BY <1>1 DEF A!Entry
<1>4. entry[a].stage \in {"absent", "directory", "copied", "published"}
  BY <1>1 DEF A!Entry
<1>5. e = entry \/ \E new \in A!Entry : e = [entry EXCEPT ![a] = new]
  <2>1. \/ e = entry
        \/ e = [entry EXCEPT ![a] = A!Absent]
        \/ e = [entry EXCEPT ![a] = [entry[a] EXCEPT !.bytes = 0]]
        \/ e = [entry EXCEPT ![a] = [entry[a] EXCEPT !.stage =
                  IF entry[a].stage = "published" THEN "copied" ELSE entry[a].stage]]
    BY DEF A!Removals
  <2>2. (IF entry[a].stage = "published" THEN "copied" ELSE entry[a].stage)
           \in {"absent", "directory", "copied", "published"}
    BY <1>4
  <2>3. QED
    BY <1>1, <1>2, <1>3, <2>1, <2>2
<1>6. QED
  BY <1>5 DEF A!TypeOK

(* The holder of the lock, or a call that takes it, moves on alone.        *)
LEMMA HolderMoves ==
    ASSUME A!ArtifactAssumption, ArtifactsInv, NEW c \in Calls, NEW new \in A!Call,
           artifactCall[c].pc # "idle" \/ artifactLock = NoValue,
           artifactCall' = [artifactCall EXCEPT ![c] = new],
           artifactLock' = IF new.pc = "idle" THEN NoValue ELSE c,
           entry' \in [Artifacts -> A!Entry], Fills(entry', new)
    PROVE  ArtifactsInv'
<1>1. NoValue \notin Calls
  BY DEF A!ArtifactAssumption
<1>2. /\ artifactCall' \in [Calls -> A!Call] /\ artifactCall'[c] = new
      /\ \A d \in Calls \ {c} : artifactCall'[d] = artifactCall[d]
  BY DEF ArtifactsInv, A!TypeOK
<1>3. \A d \in Calls \ {c} : artifactCall[d].pc = "idle"
  BY <1>1 DEF ArtifactsInv, A!TypeOK
<1>4. A!TypeOK'
  BY <1>1, <1>2, <1>3 DEF A!TypeOK
<1>5. \A d \in Calls : Fills(entry', artifactCall'[d])
  BY <1>2, <1>3 DEF Fills
<1>6. QED
  BY <1>4, <1>5 DEF ArtifactsInv, Fills

(* An entry changes while no publication is under way, or in a way that no *)
(* publication notices.                                                    *)
LEMMA EntriesChange ==
    ASSUME A!ArtifactAssumption, ArtifactsInv, entry' \in [Artifacts -> A!Entry],
           UNCHANGED <<artifactLock, artifactCall>>,
           \/ artifactLock = NoValue
           \/ \A a \in Artifacts : entry[a].stage \in {"directory", "copied"} =>
                 entry'[a].stage = entry[a].stage
    PROVE  ArtifactsInv'
<1>1. A!TypeOK'
  BY DEF ArtifactsInv, A!TypeOK
<1>2. ASSUME NEW c \in Calls PROVE Fills(entry', artifactCall[c])
  <2>1. CASE artifactLock = NoValue
    BY <2>1 DEF ArtifactsInv, Fills, A!TypeOK, A!ArtifactAssumption
  <2>2. CASE \A a \in Artifacts : entry[a].stage \in {"directory", "copied"} =>
                entry'[a].stage = entry[a].stage
    BY <2>2 DEF ArtifactsInv, Fills
  <2>3. QED
    BY <2>1, <2>2
<1>3. QED
  BY <1>1, <1>2 DEF ArtifactsInv, Fills

(* No call has begun, and nothing is stored.                               *)
LEMMA ArtifactsInit ==
    ASSUME A!ArtifactAssumption, A!Init PROVE ArtifactsInv
<1>1. A!Absent \in A!Entry /\ A!Idle \in A!Call /\ A!Idle.pc = "idle"
  BY DEF A!Absent, A!Entry, A!Idle, A!Call
<1>2. QED
  BY <1>1 DEF A!Init, ArtifactsInv, A!TypeOK, Fills, A!ArtifactAssumption

LEMMA ArtifactsStep ==
    ASSUME A!ArtifactAssumption, ArtifactsInv, [A!Next]_(A!vars) PROVE ArtifactsInv'
<1>0. /\ entry \in [Artifacts -> A!Entry] /\ artifactCall \in [Calls -> A!Call]
      /\ A!TypeOK /\ NoValue \notin Calls
      /\ \A c \in Calls : artifactLock = c <=> artifactCall[c].pc # "idle"
  BY DEF ArtifactsInv, A!TypeOK, A!ArtifactAssumption
<1>1. A!Idle \in A!Call /\ A!Idle.pc = "idle"
  BY DEF A!Idle, A!Call
<1>2. ASSUME NEW c \in Calls, artifactCall[c].pc # "idle", A!Return(c),
             entry' \in [Artifacts -> A!Entry]
      PROVE  ArtifactsInv'
  <2>1. /\ artifactCall' = [artifactCall EXCEPT ![c] = A!Idle] /\ artifactLock' = NoValue
        /\ Fills(entry', A!Idle)
    BY <1>1, <1>2 DEF A!Return, Fills
  <2>2. QED
    BY <1>1, <1>2, <2>1, HolderMoves
<1>3. ASSUME NEW c \in Calls, NEW step \in {"cleaned", "admitted", "abandon", "copied"},
             artifactCall[c].pc # "idle", A!Step(c, step), entry' \in [Artifacts -> A!Entry],
             step \in {"abandon", "copied"} => artifactCall[c].pc \in {"made", "copied"},
             step = "copied" => entry'[artifactCall[c].artifact].stage = "copied"
      PROVE  ArtifactsInv'
  <2> DEFINE new == [artifactCall[c] EXCEPT !.pc = step]
  <2>1. artifactCall[c] \in A!Call
    BY <1>0
  <2>2. new \in A!Call /\ new.pc = step /\ new.artifact = artifactCall[c].artifact
    BY <2>1 DEF A!Call
  <2>3. artifactCall' = [artifactCall EXCEPT ![c] = new] /\ artifactLock' = c
    BY <1>0, <1>3 DEF A!Step
  <2> HIDE DEF new
  <2>4. Fills(entry', new)
    BY <1>3, <2>2 DEF Fills, ArtifactsInv
  <2>5. QED
    BY <1>3, <2>2, <2>3, <2>4, HolderMoves
<1>4. ASSUME NEW c \in Calls, NEW op \in {"publish", "cleanup"}, NEW bytes \in Sizes \cup {0},
             A!Acquire(c, op, bytes)
      PROVE  ArtifactsInv'
  <2> DEFINE new == [A!Idle EXCEPT !.op = op, !.pc = "cleaning", !.left = A!Present,
                                   !.bytes = bytes]
  <2>1. A!Present \subseteq Artifacts
    BY DEF A!Present
  <2>2. new \in A!Call /\ new.pc = "cleaning"
    BY <2>1 DEF A!Call, A!Idle
  <2>3. /\ artifactCall' = [artifactCall EXCEPT ![c] = new] /\ artifactLock' = c
        /\ artifactLock = NoValue /\ entry' = entry
    BY <1>4 DEF A!Acquire
  <2> HIDE DEF new
  <2>4. QED
    BY <1>0, <2>2, <2>3, HolderMoves DEF Fills
<1>5. ASSUME NEW c \in Calls, NEW a \in Artifacts, A!Clean(c, a) PROVE ArtifactsInv'
  <2> DEFINE new == [artifactCall[c] EXCEPT !.left = artifactCall[c].left \ {a}]
  <2>1. artifactCall[c] \in A!Call /\ artifactCall[c].pc = "cleaning"
    BY <1>0, <1>5 DEF A!Clean
  <2>2. new \in A!Call /\ new.pc = "cleaning"
    BY <2>1 DEF A!Call
  <2>3. artifactCall' = [artifactCall EXCEPT ![c] = new] /\ artifactLock' = c
    BY <1>0, <1>5, <2>1 DEF A!Clean
  <2>4. entry' \in [Artifacts -> A!Entry]
    BY <1>0, <1>5, RemovalsTypes DEF A!Clean
  <2> HIDE DEF new
  <2>5. QED
    BY <2>1, <2>2, <2>3, <2>4, HolderMoves DEF Fills
<1>6. ASSUME NEW c \in Calls, A!Cleaned(c) \/ A!Admit(c) \/ A!PublishFails(c)
      PROVE  ArtifactsInv'
  <2>1. entry' = entry /\ artifactCall[c].pc # "idle"
    BY <1>6 DEF A!Cleaned, A!Admit, A!PublishFails
  <2>2. \/ A!Return(c)
        \/ A!Step(c, "cleaned") \/ A!Step(c, "admitted")
        \/ A!Step(c, "abandon") /\ artifactCall[c].pc \in {"made", "copied"}
    BY <1>6 DEF A!Cleaned, A!Admit, A!PublishFails
  <2>3. QED
    BY <1>0, <1>2, <1>3, <2>1, <2>2
<1>7. ASSUME NEW c \in Calls, NEW a \in Artifacts, A!MakeDirectory(c, a) PROVE ArtifactsInv'
  <2> DEFINE new == [artifactCall[c] EXCEPT !.pc = "made", !.artifact = a]
  <2>1. artifactCall[c] \in A!Call /\ artifactCall[c].pc = "admitted"
    BY <1>0, <1>7 DEF A!MakeDirectory
  <2>2. new \in A!Call /\ new.pc = "made" /\ new.artifact = a
    BY <2>1 DEF A!Call
  <2>3. artifactCall' = [artifactCall EXCEPT ![c] = new] /\ artifactLock' = c
    BY <1>0, <1>7, <2>1 DEF A!MakeDirectory
  <2>4. entry' \in [Artifacts -> A!Entry] /\ entry'[a].stage = "directory"
    BY <1>0, <1>7 DEF A!MakeDirectory, A!Entry
  <2> HIDE DEF new
  <2>5. QED
    BY <2>1, <2>2, <2>3, <2>4, HolderMoves DEF Fills
<1>8. ASSUME NEW c \in Calls, NEW bytes \in Sizes, A!CopyPayload(c, bytes) PROVE ArtifactsInv'
  <2> DEFINE a == artifactCall[c].artifact
             step == IF bytes = artifactCall[c].bytes THEN "copied" ELSE "abandon"
  <2>1. artifactCall[c].pc = "made" /\ a \in Artifacts
    BY <1>8 DEF A!CopyPayload, ArtifactsInv, Fills
  <2>2. /\ entry' = [entry EXCEPT ![a].stage = "copied", ![a].bytes = bytes]
        /\ A!Step(c, step)
    BY <1>8 DEF A!CopyPayload
  <2>3. entry' \in [Artifacts -> A!Entry] /\ entry'[a].stage = "copied"
    BY <1>0, <2>1, <2>2 DEF A!Entry
  <2>4. step \in {"abandon", "copied"}
    OBVIOUS
  <2> HIDE DEF step
  <2>5. QED
    BY <1>3, <2>1, <2>2, <2>3, <2>4
<1>9. ASSUME NEW c \in Calls,
             A!WriteMetadata(c) \/ A!Abandon(c) \/ A!Fails(c) \/ A!Dies(c)
      PROVE  ArtifactsInv'
  <2>1. A!Return(c) /\ artifactCall[c].pc # "idle"
    BY <1>9 DEF A!WriteMetadata, A!Abandon, A!Fails, A!Dies
  <2>2. artifactCall[c].pc \in {"copied", "abandon"} => artifactCall[c].artifact \in Artifacts
    BY DEF ArtifactsInv, Fills
  <2>3. entry' \in [Artifacts -> A!Entry]
    <3>1. CASE A!WriteMetadata(c)
      BY <1>0, <2>2, <3>1 DEF A!WriteMetadata, A!Entry
    <3>2. CASE A!Abandon(c)
      BY <1>0, <2>2, <3>2, RemovalsTypes DEF A!Abandon
    <3>3. CASE A!Fails(c) \/ A!Dies(c)
      BY <1>0, <3>3 DEF A!Fails, A!Dies
    <3>4. QED
      BY <1>9, <3>1, <3>2, <3>3
  <2>4. QED
    BY <1>2, <2>1, <2>3
<1>10. ASSUME NEW c \in Calls, NEW a \in Artifacts, A!Delete(c, a) PROVE ArtifactsInv'
  <2>1. entry' \in [Artifacts -> A!Entry]
    BY <1>0, <1>10, RemovalsTypes DEF A!Delete
  <2>2. QED
    BY <1>10, <2>1, EntriesChange DEF A!Delete
<1>11. ASSUME NEW a \in Artifacts, A!Expire(a) PROVE ArtifactsInv'
  <2>1. /\ entry' \in [Artifacts -> A!Entry]
        /\ \A b \in Artifacts : entry'[b].stage = entry[b].stage
    BY <1>0, <1>11 DEF A!Expire, A!Entry
  <2>2. QED
    BY <1>11, <2>1, EntriesChange DEF A!Expire
<1>12. CASE UNCHANGED A!vars
  <2>1. entry' = entry /\ UNCHANGED <<artifactLock, artifactCall>>
    BY <1>12 DEF A!vars
  <2>2. QED
    BY <1>0, <2>1, EntriesChange
<1>13. QED
  <2>1. ASSUME A!Next PROVE ArtifactsInv'
    BY <1>4, <1>5, <1>6, <1>7, <1>8, <1>9, <1>10, <1>11, <2>1 DEF A!Next
  <2>2. QED
    BY <1>12, <2>1

(* However publications, cleanups, deletions, failures and deaths of all   *)
(* Gateways interleave, the inductive invariant holds.                     *)
THEOREM ArtifactsInvariance ==
    ASSUME A!ArtifactAssumption PROVE A!Spec => []ArtifactsInv
<1>1. A!Init => ArtifactsInv
  BY ArtifactsInit
<1>2. ArtifactsInv /\ [A!Next]_(A!vars) => ArtifactsInv'
  BY ArtifactsStep
<1>3. QED
  BY <1>1, <1>2, PTL DEF A!Spec

(* No cleanup or deletion of any Gateway removes the directory that a      *)
(* publication is filling, however many there are.                         *)
THEOREM PublicationsUndisturbed ==
    ASSUME A!ArtifactAssumption PROVE A!Spec => []A!PublicationUndisturbed
<1>1. ArtifactsInv => A!PublicationUndisturbed
  BY DEF ArtifactsInv, Fills, A!PublicationUndisturbed
<1>2. QED
  BY <1>1, ArtifactsInvariance, PTL

(* The budget counts what the fold of ArtifactStore adds up.               *)
LEMMA BytesAreSum == \A S : A!Bytes(S) = Sum(entry, S)
  BY DEF A!Bytes, A!MapThenSumSet, A!MapThenFoldSet, Sum, Adds

(* What is published, and what is on the disk at all, in the entries e.    *)
Published(e) == {a \in Artifacts : e[a].stage = "published"}
Stored(e) == {a \in Artifacts : e[a].stage # "absent"}

(* The bytes that were admitted for a publication under way.               *)
AdmittedBytes(k) == IF k.pc \in {"admitted", "made", "copied"} THEN k.bytes ELSE 0

(* What is published leaves space for the publication under way, and the   *)
(* payload of one that is about to be published has the size that was      *)
(* admitted.                                                               *)
BudgetInv ==
    /\ IsFiniteSet(Stored(entry))
    /\ Sum(entry, Published(entry)) <= MaxBytes
    /\ \A c \in Calls :
          Sum(entry, Published(entry)) + AdmittedBytes(artifactCall[c]) <= MaxBytes
    /\ \A c \in Calls : artifactCall[c].pc = "copied" =>
          entry[artifactCall[c].artifact].bytes = artifactCall[c].bytes

(* Nothing is published, and what is published takes no more space.        *)
Shrinks ==
    \A a \in Artifacts : entry'[a].stage = "published" =>
        entry[a].stage = "published" /\ entry'[a].bytes <= entry[a].bytes

(* What is stored has a size.                                              *)
LEMMA EntryBytes ==
    ASSUME A!ArtifactAssumption, NEW e \in [Artifacts -> A!Entry]
    PROVE  \A a \in Artifacts : e[a].bytes \in Nat
<1>1. Sizes \cup {0} \subseteq Nat
  BY DEF A!ArtifactAssumption
<1>2. \A a \in Artifacts : e[a].bytes \in Sizes \cup {0}
  BY DEF A!Entry
<1>3. QED
  BY <1>1, <1>2

(* A removal, complete or not, publishes nothing and adds no bytes.        *)
LEMMA RemovalsShrink ==
    ASSUME A!ArtifactAssumption, ArtifactsInv, NEW a \in Artifacts, entry' \in A!Removals(a)
    PROVE  Shrinks /\ \A b \in Artifacts \ {a} : entry'[b] = entry[b]
<1>1. entry \in [Artifacts -> A!Entry] /\ \A b \in Artifacts : entry[b].bytes \in Nat
  BY EntryBytes DEF ArtifactsInv, A!TypeOK
<1>2. entry[a] = [stage |-> entry[a].stage, bytes |-> entry[a].bytes, expired |-> entry[a].expired]
  BY <1>1 DEF A!Entry
<1>3. CASE entry' = entry
  BY <1>1, <1>3 DEF Shrinks
<1>4. ASSUME NEW new, entry' = [entry EXCEPT ![a] = new],
             new.stage = "published" =>
                 entry[a].stage = "published" /\ new.bytes <= entry[a].bytes
      PROVE  Shrinks /\ \A b \in Artifacts \ {a} : entry'[b] = entry[b]
  BY <1>1, <1>4 DEF Shrinks
<1>5. CASE entry' = [entry EXCEPT ![a] = A!Absent]
  <2>1. A!Absent.stage # "published"
    BY DEF A!Absent
  <2>2. QED
    BY <1>4, <1>5, <2>1
<1>6. CASE entry' = [entry EXCEPT ![a].bytes = 0]
  <2> DEFINE new == [entry[a] EXCEPT !.bytes = 0]
  <2>1. entry' = [entry EXCEPT ![a] = new]
    BY <1>1, <1>6
  <2>2. new.stage = entry[a].stage /\ new.bytes = 0 /\ 0 <= entry[a].bytes
    BY <1>1, <1>2
  <2> HIDE DEF new
  <2>3. QED
    BY <1>4, <2>1, <2>2
<1>7. CASE entry' = [entry EXCEPT ![a].stage = IF @ = "published" THEN "copied" ELSE @]
  BY <1>1, <1>2, <1>4, <1>7
<1>8. QED
  BY <1>3, <1>5, <1>6, <1>7 DEF A!Removals

(* Every step but the writing of metadata only shrinks what is published,  *)
(* and it changes at most one entry.                                       *)
LEMMA EntriesShrink ==
    ASSUME A!ArtifactAssumption, ArtifactsInv, [A!Next]_(A!vars),
           \A c \in Calls : ~A!WriteMetadata(c)
    PROVE  Shrinks /\ \E x : \A a \in Artifacts \ {x} : entry'[a] = entry[a]
<1>0. /\ entry \in [Artifacts -> A!Entry] /\ \A b \in Artifacts : entry[b].bytes \in Nat
      /\ \A c \in Calls : Fills(entry, artifactCall[c])
  BY EntryBytes DEF ArtifactsInv, A!TypeOK
<1>1. entry' = entry => Shrinks /\ \E x : \A a \in Artifacts \ {x} : entry'[a] = entry[a]
  BY <1>0 DEF Shrinks
<1>2. ASSUME NEW x \in Artifacts, NEW new, entry' = [entry EXCEPT ![x] = new],
             new.stage = "published" =>
                 entry[x].stage = "published" /\ new.bytes <= entry[x].bytes
      PROVE  Shrinks /\ \A a \in Artifacts \ {x} : entry'[a] = entry[a]
  BY <1>0, <1>2 DEF Shrinks
<1>3. ASSUME NEW c \in Calls, NEW a \in Artifacts, A!MakeDirectory(c, a)
      PROVE  Shrinks /\ \A b \in Artifacts \ {a} : entry'[b] = entry[b]
  BY <1>0, <1>2, <1>3 DEF A!MakeDirectory, A!Entry
<1>4. ASSUME NEW c \in Calls, NEW bytes \in Sizes, A!CopyPayload(c, bytes)
      PROVE  \E x \in Artifacts : Shrinks /\ \A b \in Artifacts \ {x} : entry'[b] = entry[b]
  <2> DEFINE x == artifactCall[c].artifact
             new == [entry[x] EXCEPT !.stage = "copied", !.bytes = bytes]
  <2>1. x \in Artifacts
    BY <1>0, <1>4 DEF Fills, A!CopyPayload
  <2>2. entry' = [entry EXCEPT ![x] = new] /\ new.stage = "copied"
    BY <1>0, <1>4, <2>1 DEF A!CopyPayload, A!Entry
  <2> HIDE DEF new, x
  <2>3. QED
    BY <1>2, <2>1, <2>2
<1>5. ASSUME NEW a \in Artifacts, A!Expire(a)
      PROVE  Shrinks /\ \A b \in Artifacts \ {a} : entry'[b] = entry[b]
  <2>1. entry[a].bytes <= entry[a].bytes
    BY <1>0
  <2>2. QED
    BY <1>0, <1>2, <1>5, <2>1 DEF A!Expire, A!Entry
<1>6. ASSUME NEW a \in Artifacts, entry' \in A!Removals(a)
      PROVE  Shrinks /\ \A b \in Artifacts \ {a} : entry'[b] = entry[b]
  BY <1>6, RemovalsShrink
<1>7. ASSUME NEW c \in Calls, NEW a \in Artifacts, A!Clean(c, a) \/ A!Delete(c, a)
      PROVE  entry' = entry \/ entry' \in A!Removals(a)
  BY <1>7 DEF A!Clean, A!Delete
<1>8. ASSUME NEW c \in Calls, A!Abandon(c) PROVE \E a \in Artifacts : entry' \in A!Removals(a)
  BY <1>0, <1>8 DEF A!Abandon, Fills
<1>9. ASSUME NEW c \in Calls,
             \/ A!Cleaned(c) \/ A!Admit(c) \/ A!PublishFails(c) \/ A!Fails(c) \/ A!Dies(c)
             \/ A!Acquire(c, "cleanup", 0)
             \/ \E bytes \in Sizes : A!Acquire(c, "publish", bytes)
      PROVE  entry' = entry
  BY <1>9 DEF A!Cleaned, A!Admit, A!PublishFails, A!Fails, A!Dies, A!Acquire
<1>10. CASE UNCHANGED A!vars
  BY <1>1, <1>10 DEF A!vars
<1>11. QED
  BY <1>1, <1>3, <1>4, <1>5, <1>6, <1>7, <1>8, <1>9, <1>10 DEF A!Next

(* Every step but an admission keeps or drops what was admitted; payloads  *)
(* that were copied stay as they are.                                      *)
LEMMA CallsSpendNoMore ==
    ASSUME A!ArtifactAssumption, ArtifactsInv, [A!Next]_(A!vars),
           \A c \in Calls : artifactCall[c].pc = "copied" =>
               entry[artifactCall[c].artifact].bytes = artifactCall[c].bytes
    PROVE  \A d \in Calls :
              /\ \/ AdmittedBytes(artifactCall'[d]) = AdmittedBytes(artifactCall[d])
                 \/ AdmittedBytes(artifactCall'[d]) = 0
                 \/ A!Admit(d) /\ artifactCall'[d].bytes = artifactCall[d].bytes
              /\ artifactCall'[d].pc = "copied" =>
                    entry'[artifactCall'[d].artifact].bytes = artifactCall'[d].bytes
<1>0. /\ artifactCall \in [Calls -> A!Call]
      /\ entry \in [Artifacts -> A!Entry]
      /\ \A c \in Calls : Fills(entry, artifactCall[c])
      /\ \A c \in Calls : artifactLock = c <=> artifactCall[c].pc # "idle"
      /\ NoValue \notin Calls
  BY DEF ArtifactsInv, A!TypeOK, A!ArtifactAssumption
<1> SUFFICES ASSUME NEW d \in Calls
             PROVE  /\ \/ AdmittedBytes(artifactCall'[d]) = AdmittedBytes(artifactCall[d])
                       \/ AdmittedBytes(artifactCall'[d]) = 0
                       \/ A!Admit(d) /\ artifactCall'[d].bytes = artifactCall[d].bytes
                    /\ artifactCall'[d].pc = "copied" =>
                          entry'[artifactCall'[d].artifact].bytes = artifactCall'[d].bytes
  OBVIOUS
<1> DEFINE Goal == /\ \/ AdmittedBytes(artifactCall'[d]) = AdmittedBytes(artifactCall[d])
                      \/ AdmittedBytes(artifactCall'[d]) = 0
                      \/ A!Admit(d) /\ artifactCall'[d].bytes = artifactCall[d].bytes
                   /\ artifactCall'[d].pc = "copied" =>
                         entry'[artifactCall'[d].artifact].bytes = artifactCall'[d].bytes
<1>1. ASSUME artifactCall'[d].pc \notin {"admitted", "made", "copied"} PROVE Goal
  BY <1>1 DEF AdmittedBytes
<1>2. ASSUME artifactCall'[d] = artifactCall[d],
             artifactCall[d].pc = "copied" =>
                 entry'[artifactCall[d].artifact].bytes = entry[artifactCall[d].artifact].bytes
      PROVE  Goal
  BY <1>2
<1>3. ASSUME NEW c \in Calls, c # d, artifactCall[c].pc # "idle" \/ artifactLock = NoValue,
             \A b \in Calls \ {c} : artifactCall'[b] = artifactCall[b]
      PROVE  Goal
  BY <1>0, <1>2, <1>3
<1>4. ASSUME NEW c \in Calls, A!Return(c) \/ \E step : A!Step(c, step)
      PROVE  \A b \in Calls \ {c} : artifactCall'[b] = artifactCall[b]
  BY <1>0, <1>4 DEF A!Return, A!Step
<1>5. ASSUME NEW c \in Calls, A!Return(c), artifactCall[c].pc # "idle" PROVE Goal
  <2>1. c = d => artifactCall'[d].pc = "idle"
    BY <1>0, <1>5 DEF A!Return, A!Idle
  <2>2. QED
    BY <1>1, <1>3, <1>4, <1>5, <2>1
<1>6. ASSUME NEW c \in Calls, NEW step, A!Step(c, step), artifactCall[c].pc # "idle",
             step \in {"cleaned", "abandon"}
      PROVE  Goal
  <2>1. c = d => artifactCall'[d].pc = step
    BY <1>0, <1>6 DEF A!Step, A!Call
  <2>2. QED
    BY <1>1, <1>3, <1>4, <1>6, <2>1
<1>7. ASSUME NEW c \in Calls, NEW op, NEW bytes, A!Acquire(c, op, bytes) PROVE Goal
  <2>1. /\ c = d => artifactCall'[d].pc = "cleaning"
        /\ \A b \in Calls \ {c} : artifactCall'[b] = artifactCall[b]
    BY <1>0, <1>7 DEF A!Acquire, A!Idle
  <2>2. QED
    BY <1>1, <1>3, <1>7, <2>1 DEF A!Acquire
<1>8. ASSUME NEW c \in Calls, NEW a \in Artifacts, A!Clean(c, a) PROVE Goal
  <2>1. /\ c = d => artifactCall'[d].pc = "cleaning"
        /\ \A b \in Calls \ {c} : artifactCall'[b] = artifactCall[b]
    BY <1>0, <1>8 DEF A!Clean, A!Call
  <2>2. QED
    BY <1>1, <1>3, <1>8, <2>1 DEF A!Clean
<1>9. ASSUME NEW c \in Calls, A!Cleaned(c) \/ A!PublishFails(c) PROVE Goal
  <2>1. artifactCall[c].pc # "idle"
    BY <1>9 DEF A!Cleaned, A!PublishFails
  <2>2. A!Return(c) \/ A!Step(c, "cleaned") \/ A!Step(c, "abandon")
    BY <1>9 DEF A!Cleaned, A!PublishFails
  <2>3. QED
    BY <1>5, <1>6, <2>1, <2>2
<1>10. ASSUME NEW c \in Calls, A!Admit(c) PROVE Goal
  <2>1. /\ c = d => /\ artifactCall'[d].bytes = artifactCall[d].bytes
                    /\ artifactCall'[d].pc = "admitted"
        /\ artifactCall[c].pc # "idle"
        /\ \A b \in Calls \ {c} : artifactCall'[b] = artifactCall[b]
    BY <1>0, <1>10 DEF A!Admit, A!Step, A!Call
  <2>2. QED
    BY <1>3, <1>10, <2>1
<1>11. ASSUME NEW c \in Calls, NEW a \in Artifacts, A!MakeDirectory(c, a) PROVE Goal
  <2>1. /\ artifactCall[c].pc = "admitted"
        /\ c = d => artifactCall'[d].bytes = artifactCall[d].bytes /\ artifactCall'[d].pc = "made"
        /\ \A b \in Calls \ {c} : artifactCall'[b] = artifactCall[b]
    BY <1>0, <1>11 DEF A!MakeDirectory, A!Call
  <2>2. c = d => AdmittedBytes(artifactCall'[d]) = AdmittedBytes(artifactCall[d])
    BY <2>1 DEF AdmittedBytes
  <2>3. QED
    BY <1>3, <2>1, <2>2
<1>12. ASSUME NEW c \in Calls, NEW bytes \in Sizes, A!CopyPayload(c, bytes) PROVE Goal
  <2> DEFINE step == IF bytes = artifactCall[c].bytes THEN "copied" ELSE "abandon"
  <2>1. artifactCall[c].pc = "made" /\ A!Step(c, step)
        /\ entry' = [entry EXCEPT ![artifactCall[c].artifact].stage = "copied",
                                  ![artifactCall[c].artifact].bytes = bytes]
    BY <1>12 DEF A!CopyPayload
  <2>2. CASE c # d
    BY <1>3, <1>4, <2>1, <2>2
  <2>3. CASE c = d /\ bytes # artifactCall[c].bytes
    BY <1>6, <2>1, <2>3
  <2>4. CASE c = d /\ bytes = artifactCall[c].bytes
    <3>1. artifactCall'[d] = [artifactCall[d] EXCEPT !.pc = "copied"]
      BY <1>0, <2>1, <2>4 DEF A!Step
    <3>2. artifactCall'[d].pc = "copied" /\ artifactCall'[d].bytes = bytes
          /\ artifactCall'[d].artifact = artifactCall[d].artifact
      BY <1>0, <2>4, <3>1 DEF A!Call
    <3>3. artifactCall[d].artifact \in Artifacts
      BY <1>0, <2>1, <2>4 DEF Fills
    <3>4. entry'[artifactCall[d].artifact].bytes = bytes
      BY <1>0, <2>1, <2>4, <3>3 DEF A!Entry
    <3>5. AdmittedBytes(artifactCall'[d]) = AdmittedBytes(artifactCall[d])
      BY <2>1, <2>4, <3>2 DEF AdmittedBytes
    <3>6. QED
      BY <3>2, <3>4, <3>5
  <2>5. QED
    BY <2>2, <2>3, <2>4
<1>13. ASSUME NEW c \in Calls, A!WriteMetadata(c) \/ A!Abandon(c) \/ A!Fails(c) \/ A!Dies(c)
       PROVE  Goal
  BY <1>5, <1>13 DEF A!WriteMetadata, A!Abandon, A!Fails, A!Dies
<1>14. ASSUME NEW c \in Calls, NEW a \in Artifacts, A!Delete(c, a) PROVE Goal
  <2>1. artifactCall[d].pc = "idle" /\ artifactCall'[d] = artifactCall[d]
    BY <1>0, <1>14 DEF A!Delete
  <2>2. QED
    BY <1>1, <2>1
<1>15. ASSUME NEW a \in Artifacts, A!Expire(a) PROVE Goal
  <2>1. artifactCall'[d] = artifactCall[d] /\ \A b \in Artifacts : entry'[b].bytes = entry[b].bytes
    BY <1>0, <1>15 DEF A!Expire, A!Entry
  <2>2. artifactCall[d].pc = "copied" => artifactCall[d].artifact \in Artifacts
    BY <1>0 DEF Fills
  <2>3. QED
    BY <1>2, <2>1, <2>2
<1>16. CASE UNCHANGED A!vars
  BY <1>2, <1>16 DEF A!vars
<1> HIDE DEF Goal
<1>17. ASSUME A!Next PROVE Goal
  BY <1>7, <1>8, <1>9, <1>10, <1>11, <1>12, <1>13, <1>14, <1>15, <1>17 DEF A!Next
<1>18. QED
  BY <1>16, <1>17 DEF Goal

(* The sum of what is published, when nothing is published and nothing     *)
(* grows.                                                                  *)
LEMMA PublishedShrinks ==
    ASSUME A!ArtifactAssumption, NEW e \in [Artifacts -> A!Entry], NEW f \in [Artifacts -> A!Entry],
           IsFiniteSet(Stored(e)), Published(f) \subseteq Published(e),
           \A a \in Published(f) : f[a].bytes <= e[a].bytes
    PROVE  /\ Sum(f, Published(f)) \in Nat /\ Sum(e, Published(e)) \in Nat
           /\ Sum(f, Published(f)) <= Sum(e, Published(e))
<1>1. IsFiniteSet(Published(e)) /\ IsFiniteSet(Published(f))
  <2>1. Published(e) \subseteq Stored(e) /\ Published(f) \subseteq Stored(e)
    BY DEF Published, Stored
  <2>2. QED
    BY <2>1, FS_Subset
<1>2. Published(e) \subseteq Artifacts /\ Published(f) \subseteq Artifacts
  BY DEF Published
<1>3. \A a \in Artifacts : e[a].bytes \in Nat /\ f[a].bytes \in Nat
  BY EntryBytes
<1>4. Sum(f, Published(f)) \in Nat /\ Sum(e, Published(e)) \in Nat
  BY <1>1, <1>2, <1>3, SumType
<1>5. Sum(f, Published(f)) <= Sum(e, Published(e))
  BY <1>1, <1>2, <1>3, SumGrows
<1>6. QED
  BY <1>4, <1>5

(* An admission counted all that is stored; after it, only what was        *)
(* admitted is added to what is published.                                 *)
LEMMA BudgetStep ==
    ASSUME A!ArtifactAssumption, ArtifactsInv, BudgetInv, [A!Next]_(A!vars)
    PROVE  BudgetInv'
<1> DEFINE old == Sum(entry, Published(entry))
           new == Sum(entry', Published(entry'))
<1>0. /\ entry \in [Artifacts -> A!Entry] /\ entry' \in [Artifacts -> A!Entry]
      /\ artifactCall \in [Calls -> A!Call] /\ artifactCall' \in [Calls -> A!Call]
      /\ MaxBytes \in Nat /\ Sizes \cup {0} \subseteq Nat
  BY ArtifactsStep DEF ArtifactsInv, A!TypeOK, A!ArtifactAssumption
<1>1. \A d \in Calls :
         /\ \/ AdmittedBytes(artifactCall'[d]) = AdmittedBytes(artifactCall[d])
            \/ AdmittedBytes(artifactCall'[d]) = 0
            \/ A!Admit(d) /\ artifactCall'[d].bytes = artifactCall[d].bytes
         /\ artifactCall'[d].pc = "copied" =>
               entry'[artifactCall'[d].artifact].bytes = artifactCall'[d].bytes
  BY CallsSpendNoMore DEF BudgetInv
<1>2. \A d \in Calls : /\ artifactCall'[d].bytes \in Nat
                       /\ AdmittedBytes(artifactCall[d]) \in Nat
                       /\ AdmittedBytes(artifactCall'[d]) \in {artifactCall'[d].bytes, 0}
  <2>1. \A d \in Calls : artifactCall[d].bytes \in Sizes \cup {0}
                         /\ artifactCall'[d].bytes \in Sizes \cup {0}
    BY <1>0 DEF A!Call
  <2>2. QED
    BY <1>0, <2>1 DEF AdmittedBytes
<1>3. old \in Nat
  <2>1. \A a \in Published(entry) : entry[a].bytes <= entry[a].bytes
    BY <1>0, EntryBytes DEF Published
  <2>2. IsFiniteSet(Stored(entry))
    BY DEF BudgetInv
  <2>3. QED
    BY <1>0, <2>1, <2>2, PublishedShrinks
<1>4. old <= MaxBytes /\ \A d \in Calls : old + AdmittedBytes(artifactCall[d]) <= MaxBytes
  BY DEF BudgetInv
<1>5. ASSUME NEW c \in Calls, A!WriteMetadata(c) PROVE BudgetInv'
  <2> DEFINE a == artifactCall[c].artifact
  <2>1. /\ artifactCall[c].pc = "copied" /\ a \in Artifacts /\ entry[a].stage = "copied"
        /\ entry[a].bytes = artifactCall[c].bytes
    BY <1>5 DEF A!WriteMetadata, ArtifactsInv, Fills, BudgetInv
  <2>2. entry' = [entry EXCEPT ![a].stage = "published"]
    BY <1>5 DEF A!WriteMetadata
  <2>3. \A d \in Calls : artifactCall'[d].pc = "idle"
    <3>1. \A d \in Calls \ {c} : artifactCall[d].pc = "idle"
      BY <2>1 DEF ArtifactsInv, A!TypeOK
    <3>2. artifactCall' = [artifactCall EXCEPT ![c] = A!Idle]
      BY <1>5 DEF A!WriteMetadata, A!Return
    <3>3. QED
      BY <1>0, <3>1, <3>2 DEF A!Idle
  <2>4. \A b \in Artifacts : entry'[b].bytes = entry[b].bytes
                             /\ (b # a => entry'[b] = entry[b])
    BY <1>0, <2>1, <2>2 DEF A!Entry
  <2>5. entry'[a].stage = "published"
    BY <1>0, <2>1, <2>2 DEF A!Entry
  <2> HIDE DEF a
  <2>6. /\ Published(entry') = Published(entry) \cup {a} /\ a \notin Published(entry)
        /\ Stored(entry') = Stored(entry) /\ Published(entry) \subseteq Stored(entry)
        /\ a \in Stored(entry)
    BY <2>1, <2>4, <2>5 DEF Published, Stored
  <2>7. IsFiniteSet(Published(entry)) /\ IsFiniteSet(Published(entry'))
    <3>1. IsFiniteSet(Stored(entry))
      BY DEF BudgetInv
    <3>2. Published(entry') \subseteq Stored(entry)
      BY <2>6
    <3>3. QED
      BY <2>6, <3>1, <3>2, FS_Subset
  <2>8. \A b \in Artifacts : entry[b].bytes \in Nat /\ entry'[b].bytes \in Nat
    BY <1>0, EntryBytes
  <2>9. Published(entry) \subseteq Artifacts /\ Published(entry') \subseteq Artifacts
    BY DEF Published
  <2>10. new = entry'[a].bytes + Sum(entry', Published(entry') \ {a})
    BY <2>6, <2>7, <2>8, <2>9, SumSplits
  <2>11. Published(entry') \ {a} = Published(entry)
    BY <2>6
  <2>12. Sum(entry', Published(entry)) \in Nat
    BY <2>7, <2>8, <2>9, SumType
  <2>13. Sum(entry', Published(entry)) <= old
    <3>1. \A b \in Published(entry) :
             entry'[b].bytes \in Nat /\ entry'[b].bytes <= entry[b].bytes
      BY <2>4, <2>8, <2>9
    <3>2. QED
      BY <2>7, <2>8, <2>9, <3>1, SumGrows
  <2>14. new = entry[a].bytes + Sum(entry', Published(entry))
    BY <2>1, <2>4, <2>10, <2>11
  <2>15. AdmittedBytes(artifactCall[c]) = entry[a].bytes
    BY <2>1 DEF AdmittedBytes, a
  <2>16. entry[a].bytes \in Nat
    BY <2>1, <2>8
  <2> HIDE DEF old, new
  <2>17. new <= MaxBytes /\ new \in Nat
    BY <1>0, <1>3, <1>4, <2>12, <2>13, <2>14, <2>15, <2>16
  <2>18. \A d \in Calls : AdmittedBytes(artifactCall'[d]) = 0
    BY <2>3 DEF AdmittedBytes
  <2>19. IsFiniteSet(Stored(entry'))
    BY <2>6 DEF BudgetInv
  <2>20. \A d \in Calls : new + AdmittedBytes(artifactCall'[d]) <= MaxBytes
    BY <2>17, <2>18
  <2>21. QED
    BY <1>1, <2>17, <2>19, <2>20 DEF BudgetInv, new
<1>6. ASSUME \A c \in Calls : ~A!WriteMetadata(c) PROVE BudgetInv'
  <2>1. Shrinks /\ \E x : \A a \in Artifacts \ {x} : entry'[a] = entry[a]
    BY <1>6, EntriesShrink
  <2>2. IsFiniteSet(Stored(entry'))
    <3>1. PICK x : \A a \in Artifacts \ {x} : entry'[a] = entry[a]
      BY <2>1
    <3>2. Stored(entry') \subseteq Stored(entry) \cup {x}
      BY <3>1 DEF Stored
    <3>3. IsFiniteSet(Stored(entry) \cup {x})
      BY FS_AddElement DEF BudgetInv
    <3>4. QED
      BY <3>2, <3>3, FS_Subset
  <2>3. new \in Nat /\ new <= old
    <3>1. /\ Published(entry') \subseteq Published(entry)
          /\ \A a \in Published(entry') : entry'[a].bytes <= entry[a].bytes
      BY <2>1 DEF Shrinks, Published
    <3>2. IsFiniteSet(Stored(entry))
      BY DEF BudgetInv
    <3>3. QED
      BY <1>0, <3>1, <3>2, PublishedShrinks
  <2>4. ASSUME NEW d \in Calls PROVE new + AdmittedBytes(artifactCall'[d]) <= MaxBytes
    <3>1. CASE A!Admit(d) /\ artifactCall'[d].bytes = artifactCall[d].bytes
      <4>1. /\ entry' = entry /\ A!Present = Stored(entry)
            /\ A!Bytes(A!Present) + artifactCall[d].bytes <= MaxBytes
        BY <3>1 DEF A!Admit, A!Present, Stored
      <4>2. A!Bytes(A!Present) = Sum(entry, Stored(entry))
        BY <4>1, BytesAreSum
      <4>3. \A b \in Artifacts : entry[b].bytes \in Nat
        BY <1>0, EntryBytes
      <4>4. /\ IsFiniteSet(Stored(entry)) /\ Published(entry) \in SUBSET Stored(entry)
            /\ Stored(entry) \subseteq Artifacts
        BY DEF BudgetInv, Published, Stored
      <4>5. \A b \in Published(entry) : entry[b].bytes \in Nat /\ entry[b].bytes <= entry[b].bytes
        BY <4>3, <4>4
      <4>6. old <= Sum(entry, Stored(entry)) /\ Sum(entry, Stored(entry)) \in Nat
        BY <4>3, <4>4, <4>5, SumGrows, SumType
      <4> HIDE DEF old, new
      <4>7. QED
        BY <1>0, <1>2, <1>3, <2>3, <3>1, <4>1, <4>2, <4>6
    <3>2. CASE \/ AdmittedBytes(artifactCall'[d]) = AdmittedBytes(artifactCall[d])
               \/ AdmittedBytes(artifactCall'[d]) = 0
      <4>1. AdmittedBytes(artifactCall[d]) \in Nat /\ old + AdmittedBytes(artifactCall[d]) <= MaxBytes
        BY <1>2, <1>4
      <4> HIDE DEF old, new
      <4>2. QED
        BY <1>0, <1>3, <1>4, <2>3, <3>2, <4>1
    <3>3. QED
      BY <1>1, <3>1, <3>2
  <2>5. new <= MaxBytes
    <3> HIDE DEF old, new
    <3>1. QED
      BY <1>0, <1>3, <1>4, <2>3
  <2>6. QED
    BY <1>1, <2>2, <2>4, <2>5 DEF BudgetInv
<1>7. QED
  BY <1>5, <1>6

(* Nothing is stored, nothing was admitted.                                *)
LEMMA BudgetInit ==
    ASSUME A!ArtifactAssumption, A!Init PROVE BudgetInv
<1>1. Published(entry) = {} /\ Stored(entry) = {}
  BY DEF A!Init, A!Absent, Published, Stored
<1>2. IsFiniteSet({}) /\ Sum(entry, {}) = 0
  BY FS_EmptySet, SumUnfolds
<1>3. \A c \in Calls : artifactCall[c].pc = "idle" /\ AdmittedBytes(artifactCall[c]) = 0
  BY DEF A!Init, A!Idle, AdmittedBytes
<1>4. MaxBytes \in Nat
  BY DEF A!ArtifactAssumption
<1>5. QED
  BY <1>1, <1>2, <1>3, <1>4 DEF BudgetInv

(* What is published is within the budget.                                 *)
LEMMA BudgetBounds == ASSUME BudgetInv PROVE A!WithinBudget
<1>1. A!WithinBudget <=> Sum(entry, Published(entry)) <= MaxBytes
  BY BytesAreSum DEF A!WithinBudget, Published
<1>2. QED
  BY <1>1 DEF BudgetInv

(* Whatever changes while it is copied, fails or dies: what is published   *)
(* never exceeds the budget (artifact-store.ts, assertCapacity).           *)
THEOREM ArtifactsWithinBudget ==
    ASSUME A!ArtifactAssumption PROVE A!Spec => []A!WithinBudget
<1>1. A!Init => BudgetInv
  BY BudgetInit
<1>2. ArtifactsInv /\ BudgetInv /\ [A!Next]_(A!vars) => BudgetInv'
  BY BudgetStep
<1>3. BudgetInv => A!WithinBudget
  BY BudgetBounds
<1>4. QED
  BY <1>1, <1>2, <1>3, ArtifactsInvariance, PTL DEF A!Spec
=============================================================================
