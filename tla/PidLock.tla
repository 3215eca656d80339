------------------------------ MODULE PidLock ------------------------------
(***************************************************************************)
(* The cross-process PID directory lock, as the Gateways implement it in   *)
(* src/src/cross-process-lock.ts and the control panel implements it in    *)
(* src/control-panel/wpf/CrossProcessDirectoryLock.cs (callers in Panel).  *)
(* Callers in several operating-system processes share two directories:    *)
(* the canonical lock directory (base), whose owner.json names the holder, *)
(* and the transition marker beside it (marker), which serialises every    *)
(* removal of the canonical directory: a release by the holder, or the     *)
(* reclamation of a directory whose owner died.  One action is one         *)
(* filesystem call and the code up to the next one.                        *)
(*                                                                         *)
(* A UUID token is the pair (by, gen) of the caller that drew it and the   *)
(* caller's count of tokens; gen = 0 is a directory whose owner.json is    *)
(* not there.  A deadline, the age of a directory and the outcome of a     *)
(* call that may fail are nondeterministic choices.                        *)
(***************************************************************************)
EXTENDS Naturals

CONSTANTS Client,    \* callers that acquire the lock
          Panel,     \* those of them in the WPF control panel
          Proc,      \* processes, named by their pid
          ProcOf,    \* the process each caller runs in
          Nobody,    \* owner of a directory that does not exist
          MaxCalls,  \* bound: acquisitions begun by one caller
          MaxFault,  \* bound: failing filesystem calls in a behaviour
          MaxCrash   \* bound: process deaths in a behaviour

ASSUME ProcOfAssumption == ProcOf \in [Client -> Proc]
ASSUME PanelAssumption  == Panel \subseteq Client
ASSUME NobodyAssumption == Nobody \notin Client
ASSUME BoundAssumption  == MaxCalls \in Nat /\ MaxFault \in Nat /\ MaxCrash \in Nat

VARIABLES
  base,     \* the canonical lock directory: who made it, the token inside
  marker,   \* the transition marker: who made it, the token inside
  retired,  \* renamed directories (.release-*, .reclaim-*) not yet removed
  up,       \* the processes that run
  pc,       \* the next filesystem call of each caller
  lease,    \* gen of the lease a caller holds, 0 when it has none
  target,   \* the owner a caller is about to retire (expectedOwner, staleOwner)
  mark,     \* gen of the caller's transition lease, 0 when it has none
  retiredByMe, \* canonicalRetired of the caller's lease
  after,    \* where the caller goes once it has removed its marker
  gen,      \* tokens drawn so far by each caller
  calls, faults, crashes   \* counters for the three bounds

disk == <<base, marker, retired>>
own  == <<lease, target, mark, retiredByMe, after, gen>>
vars == <<base, marker, retired, up, pc, lease, target, mark, retiredByMe,
          after, gen, calls, faults, crashes>>

----------------------------------------------------------------------------
Owner   == [by : Client \cup {Nobody}, gen : Nat]
Missing == [by |-> Nobody, gen |-> 0]
Bare(c) == [by |-> c, gen |-> 0]

\* Calls that acquire, and calls that retire a directory (release or reclaim).
AcquirePc == {"gate", "mkdir", "gateAfterMkdir", "rmLockDir", "writeOwner",
              "gateAfterConflict", "lstat", "readOwner", "wait"}
PublishPc == {"gateAfterPublish", "abandonVerify", "abandonRename", "abandonRm"}
RetirePc  == {"mkdirMarker", "writeMarker", "recheck", "verify", "rename",
              "rmRetired", "checkMarker", "rmMarker", "rmdirMarker"}
ReleasePc == {"releaseGate", "releaseWait", "retry"}
Pc == AcquirePc \cup PublishPc \cup RetirePc \cup ReleasePc
        \cup {"idle", "held", "releaseFailed", "down"}

\* A caller with a lease is releasing, one without is reclaiming.
Releasing(c) == lease[c] # 0
MyToken(c)   == [by |-> c, gen |-> lease[c]]
MyMarker(c)  == mark[c] # 0 /\ marker = [by |-> c, gen |-> mark[c]]

\* The lease is in force: its directory has not been renamed away.
Holding(c) == lease[c] # 0 /\ ~retiredByMe[c]

\* pidAlive: a restarted process has the pid of its earlier incarnation.
PidAlive(c) == up[ProcOf[c]]

\* observeTransition of a marker that is there: without owner.json it is
\* initializing or invalid by its age, with one invalid if its process is dead.
MarkerActive  == marker # Missing /\ (marker.gen = 0 \/ PidAlive(marker.by))
MarkerInvalid == marker # Missing /\ (marker.gen = 0 \/ ~PidAlive(marker.by))

\* Mutants of SameOwner: the state is checked, not the identity; a dead owner is
\* never the one that was seen.
SameOwnerAnyToken(c) == /\ base.gen # 0 /\ target[c].gen # 0
                        /\ PidAlive(base.by) <=> Releasing(c)
SameOwnerAlive(c) == base = target[c] /\ target[c].gen # 0 /\ PidAlive(target[c].by)

\* The base lock is the one the caller means to retire, and in the state that
\* allows it: stale for a reclaimer, active for the holder itself.
SameOwner(c) == /\ base = target[c]
                /\ target[c].gen # 0
                /\ PidAlive(target[c].by) <=> Releasing(c)

Failed(c) == IF Releasing(c) THEN "releaseFailed" ELSE "idle"

Goto(c, l) == pc' = [pc EXCEPT ![c] = l]
Fault      == faults < MaxFault /\ faults' = faults + 1
NoFault    == faults' = faults

Init ==
  /\ base = Missing /\ marker = Missing /\ retired = {}
  /\ up = [p \in Proc |-> TRUE]
  /\ pc = [c \in Client |-> "idle"]
  /\ lease = [c \in Client |-> 0]
  /\ target = [c \in Client |-> Missing]
  /\ mark = [c \in Client |-> 0]
  /\ retiredByMe = [c \in Client |-> FALSE]
  /\ after = [c \in Client |-> "idle"]
  /\ gen = [c \in Client |-> 0]
  /\ calls = [c \in Client |-> 0] /\ faults = 0 /\ crashes = 0

----------------------------------------------------------------------------
(* acquirePidDirectoryLock *)

Acquire(c) ==
  /\ pc[c] = "idle" /\ calls[c] < MaxCalls
  /\ calls' = [calls EXCEPT ![c] = @ + 1]
  /\ Goto(c, "gate")
  /\ UNCHANGED <<disk, up, own, faults, crashes>>

\* transitionPresence before a call that needs the marker to be absent.
Gate(c) ==
  /\ c \notin Panel
  /\ \/ pc[c] = "gate" /\ Goto(c, IF marker = Missing THEN "mkdir" ELSE "wait")
     \/ /\ pc[c] = "gateAfterMkdir"
        /\ Goto(c, IF marker = Missing THEN "writeOwner" ELSE "rmLockDir")
     \/ /\ pc[c] = "gateAfterConflict"
        /\ Goto(c, IF marker = Missing THEN "lstat" ELSE "wait")
  /\ UNCHANGED <<disk, up, own, calls, faults, crashes>>

\* Mutant: mkdir(lockDir, { recursive: true }).
MkdirRecursive(c) ==
  /\ c \notin Panel /\ pc[c] = "mkdir"
  /\ base' = Bare(c) /\ Goto(c, "gateAfterMkdir")
  /\ UNCHANGED <<marker, retired, up, own, calls, faults, crashes>>

\* mkdir(lockDir): EEXIST when the directory is there.
Mkdir(c) ==
  /\ c \notin Panel /\ pc[c] = "mkdir"
  /\ IF base = Missing
     THEN base' = Bare(c) /\ Goto(c, "gateAfterMkdir")
     ELSE base' = base /\ Goto(c, "gateAfterConflict")
  /\ UNCHANGED <<marker, retired, up, own, calls, faults, crashes>>

\* Mutant: the contender backs off and leaves its directory.
RmLockDirForgotten(c) ==
  /\ pc[c] = "rmLockDir" /\ Goto(c, "wait")
  /\ UNCHANGED <<disk, up, own, calls, faults, crashes>>

\* rm(lockDir) after a marker appeared; when it fails the call throws and the
\* directory stays without an owner.
RmLockDir(c) ==
  /\ pc[c] = "rmLockDir"
  /\ \/ NoFault /\ base' = Missing /\ Goto(c, "wait")
     \/ Fault /\ base' = base /\ Goto(c, "idle")
  /\ UNCHANGED <<marker, retired, up, own, calls, crashes>>

\* writeJsonAtomically(lockDir, owner): the lease is returned.  A failed write
\* removes the directory, as far as that succeeds, and throws.
WriteOwner(c) ==
  /\ pc[c] = "writeOwner"
  /\ \/ /\ NoFault
        /\ gen' = [gen EXCEPT ![c] = @ + 1]
        /\ lease' = [lease EXCEPT ![c] = gen'[c]]
        /\ retiredByMe' = [retiredByMe EXCEPT ![c] = FALSE]
        /\ base' = [by |-> c, gen |-> gen'[c]]
        /\ Goto(c, "held")
     \/ /\ Fault
        /\ base' \in {Missing, base}
        /\ Goto(c, "idle")
        /\ UNCHANGED <<gen, lease, retiredByMe>>
  /\ UNCHANGED <<marker, retired, up, target, mark, after, calls, crashes>>

\* observeBaseLock, first call.
Lstat(c) ==
  /\ pc[c] = "lstat"
  /\ Goto(c, IF base = Missing THEN "gate" ELSE "readOwner")
  /\ UNCHANGED <<disk, up, own, calls, faults, crashes>>

\* Mutant: a directory without owner.json is stale as well.
ReadOwnerReclaimsBare(c) ==
  /\ pc[c] = "readOwner" /\ base # Missing
  /\ IF base.gen # 0 /\ PidAlive(base.by)
     THEN Goto(c, "wait") /\ target' = target
     ELSE Goto(c, "mkdirMarker") /\ target' = [target EXCEPT ![c] = base]
  /\ UNCHANGED <<disk, up, lease, mark, retiredByMe, after, gen, calls, faults, crashes>>

\* observeBaseLock, second call: without owner.json the directory seen by lstat
\* is initializing or, when older than the grace period, invalid (throw); the
\* panel tells a directory that is gone from one without owner.json.
ReadOwner(c) ==
  /\ pc[c] = "readOwner"
  /\ IF base = Missing /\ c \in Panel
     THEN Goto(c, "gate") /\ target' = target
     ELSE IF base.gen = 0
     THEN (Goto(c, "wait") \/ Goto(c, "idle")) /\ target' = target
     ELSE IF PidAlive(base.by)
     THEN Goto(c, "wait") /\ target' = target
     ELSE Goto(c, "mkdirMarker") /\ target' = [target EXCEPT ![c] = base]
  /\ UNCHANGED <<disk, up, lease, mark, retiredByMe, after, gen, calls, faults, crashes>>

\* Before the deadline: sleep and try again.
Wait(c) ==
  /\ \/ pc[c] = "wait" /\ Goto(c, "gate")
     \/ pc[c] = "releaseWait" /\ Goto(c, "releaseGate")
  /\ UNCHANGED <<disk, up, own, calls, faults, crashes>>

\* Mutants: no deadline in acquire, none in release.
GiveUpReleaseOnly(c) ==
  /\ pc[c] = "releaseWait"
  /\ Goto(c, Failed(c))
  /\ UNCHANGED <<disk, up, own, calls, faults, crashes>>
GiveUpAcquireOnly(c) ==
  /\ pc[c] = "wait"
  /\ Goto(c, Failed(c))
  /\ UNCHANGED <<disk, up, own, calls, faults, crashes>>

\* After the deadline: throw "busy", or "abandoned" when the marker is invalid.
GiveUp(c) ==
  /\ pc[c] \in {"wait", "releaseWait"}
  /\ Goto(c, Failed(c))
  /\ UNCHANGED <<disk, up, own, calls, faults, crashes>>

----------------------------------------------------------------------------
(* CrossProcessDirectoryLock.Acquire of the panel, where it differs *)

\* ObserveTransition throws on an invalid marker at once.
PanelGate(c) ==
  /\ c \in Panel /\ pc[c] = "gate"
  /\ \/ marker = Missing /\ Goto(c, "mkdir")
     \/ MarkerActive /\ Goto(c, "wait")
     \/ MarkerInvalid /\ Goto(c, "idle")
  /\ UNCHANGED <<disk, up, own, calls, faults, crashes>>

\* TryPublishDirectory moves a directory with its owner.json into place.
Publish(c) ==
  /\ c \in Panel /\ pc[c] = "mkdir"
  /\ \/ /\ base = Missing /\ NoFault
        /\ gen' = [gen EXCEPT ![c] = @ + 1]
        /\ lease' = [lease EXCEPT ![c] = gen'[c]]
        /\ base' = [by |-> c, gen |-> gen'[c]]
        /\ Goto(c, "gateAfterPublish")
     \/ /\ base # Missing /\ NoFault /\ Goto(c, "lstat")
        /\ UNCHANGED <<base, gen, lease>>
     \/ Fault /\ Goto(c, "idle") /\ UNCHANGED <<base, gen, lease>>
  /\ UNCHANGED <<marker, retired, up, target, mark, retiredByMe, after, calls, crashes>>

\* A marker beside the published directory: poll until it is gone, or retire
\* the directory again at the deadline or when the marker is invalid.
GateAfterPublish(c) ==
  /\ pc[c] = "gateAfterPublish"
  /\ Goto(c, IF marker = Missing THEN "held" ELSE "abandonVerify")
  /\ UNCHANGED <<disk, up, own, calls, faults, crashes>>

\* The panel's call ends without a lease, whatever is left on the disk.
DropLease(c) ==
  /\ Goto(c, "idle")
  /\ lease' = [lease EXCEPT ![c] = 0]
  /\ retiredByMe' = [retiredByMe EXCEPT ![c] = FALSE]

\* RetirePublishedOwnerWithoutTransition, and the exception that ends Acquire.
Abandon(c) ==
  /\ \/ /\ pc[c] = "abandonVerify" /\ NoFault
        /\ IF base = MyToken(c)
           THEN Goto(c, "abandonRename") /\ UNCHANGED <<lease, retiredByMe>>
           ELSE DropLease(c)
        /\ UNCHANGED <<base, retired>>
     \/ /\ pc[c] = "abandonRename" /\ NoFault /\ base # Missing
        /\ retired' = retired \cup {base}
        /\ base' = Missing
        /\ retiredByMe' = [retiredByMe EXCEPT ![c] = TRUE]
        /\ Goto(c, "abandonRm") /\ lease' = lease
     \/ /\ pc[c] = "abandonRename"
        /\ Fault \/ (base = Missing /\ NoFault)
        /\ DropLease(c) /\ UNCHANGED <<base, retired>>
     \/ /\ pc[c] = "abandonRm"
        /\ \/ NoFault /\ retired' = retired \ {MyToken(c)}
           \/ Fault /\ retired' = retired
        /\ DropLease(c) /\ base' = base
  /\ UNCHANGED <<marker, up, target, mark, after, gen, calls, crashes>>

----------------------------------------------------------------------------
(* tryCreateTransition, reclaimObservedStaleLock and the body of release() *)

\* Mutant: mkdir(marker, { recursive: true }).
MkdirMarkerRecursive(c) ==
  /\ c \notin Panel /\ pc[c] = "mkdirMarker"
  /\ marker' = Bare(c) /\ Goto(c, "writeMarker")
  /\ UNCHANGED <<base, retired, up, own, calls, faults, crashes>>

\* mkdir(marker): EEXIST returns undefined and both callers then wait.
MkdirMarker(c) ==
  /\ c \notin Panel /\ pc[c] = "mkdirMarker"
  /\ IF marker = Missing
     THEN marker' = Bare(c) /\ Goto(c, "writeMarker")
     ELSE marker' = marker /\ Goto(c, IF Releasing(c) THEN "releaseWait" ELSE "wait")
  /\ UNCHANGED <<base, retired, up, own, calls, faults, crashes>>

WriteMarker(c) ==
  /\ pc[c] = "writeMarker"
  /\ \/ /\ NoFault
        /\ gen' = [gen EXCEPT ![c] = @ + 1]
        /\ mark' = [mark EXCEPT ![c] = gen'[c]]
        /\ marker' = [by |-> c, gen |-> gen'[c]]
        /\ Goto(c, IF Releasing(c) THEN "verify" ELSE "recheck")
     \/ /\ Fault
        /\ marker' \in {Missing, marker}
        /\ Goto(c, Failed(c))
        /\ UNCHANGED <<gen, mark>>
  /\ UNCHANGED <<base, retired, up, lease, target, retiredByMe, after, calls, crashes>>

\* The panel moves the marker into place with its owner.json.
PublishMarker(c) ==
  /\ c \in Panel /\ pc[c] = "mkdirMarker"
  /\ \/ /\ marker = Missing /\ NoFault
        /\ gen' = [gen EXCEPT ![c] = @ + 1]
        /\ mark' = [mark EXCEPT ![c] = gen'[c]]
        /\ marker' = [by |-> c, gen |-> gen'[c]]
        /\ Goto(c, IF Releasing(c) THEN "verify" ELSE "recheck")
     \/ /\ marker # Missing /\ NoFault
        /\ Goto(c, IF Releasing(c) THEN "releaseWait" ELSE "wait")
        /\ UNCHANGED <<marker, gen, mark>>
     \/ Fault /\ Goto(c, Failed(c)) /\ UNCHANGED <<marker, gen, mark>>
  /\ UNCHANGED <<base, retired, up, lease, target, retiredByMe, after, calls, crashes>>

\* A reclaimer looks at the base lock again now that it holds the marker; when
\* the stale owner is gone it lets go and retries (at once if nothing is there).
Recheck(c) ==
  /\ pc[c] = "recheck"
  /\ IF SameOwner(c)
     THEN Goto(c, "verify") /\ after' = after
     ELSE /\ Goto(c, "checkMarker")
          /\ after' = [after EXCEPT ![c] = IF base = Missing THEN "gate" ELSE "wait"]
  /\ UNCHANGED <<disk, up, lease, target, mark, retiredByMe, gen, calls, faults, crashes>>

\* retireOwnedDirectory: verifyOwnership.
Verify(c) ==
  /\ pc[c] = "verify"
  /\ IF SameOwner(c) /\ MyMarker(c)
     THEN Goto(c, "rename") /\ after' = after
     ELSE Goto(c, "checkMarker") /\ after' = [after EXCEPT ![c] = Failed(c)]
  /\ UNCHANGED <<disk, up, lease, target, mark, retiredByMe, gen, calls, faults, crashes>>

\* retireOwnedDirectory: rename.  A transient error verifies again, any other
\* (or the eighth) gives the marker back and throws.
Rename(c) ==
  /\ pc[c] = "rename"
  /\ \/ /\ NoFault /\ base # Missing
        /\ retired' = retired \cup {base}
        /\ base' = Missing
        /\ retiredByMe' = [retiredByMe EXCEPT ![c] = Releasing(c)]
        /\ Goto(c, "rmRetired") /\ after' = after
     \/ /\ Fault /\ Goto(c, "verify")
        /\ UNCHANGED <<base, retired, retiredByMe, after>>
     \/ /\ \/ Fault
           \/ base = Missing /\ NoFault
        /\ Goto(c, "checkMarker")
        /\ after' = [after EXCEPT ![c] = Failed(c)]
        /\ UNCHANGED <<base, retired, retiredByMe>>
  /\ UNCHANGED <<marker, up, lease, target, mark, gen, calls, crashes>>

\* Mutant: a reclaimer retries mkdir without looking at the marker again.
RmRetiredSkipsGate(c) ==
  /\ pc[c] = "rmRetired" /\ NoFault
  /\ retired' = retired \ {target[c]}
  /\ after' = [after EXCEPT ![c] = IF Releasing(c) THEN "idle" ELSE "mkdir"]
  /\ Goto(c, "checkMarker")
  /\ UNCHANGED <<base, marker, up, lease, target, mark, retiredByMe, gen, calls, crashes>>

\* rm(retiredPath).
RmRetired(c) ==
  /\ pc[c] = "rmRetired"
  /\ \/ /\ NoFault
        /\ retired' = retired \ {target[c]}
        /\ after' = [after EXCEPT ![c] = IF Releasing(c) THEN "idle" ELSE "gate"]
     \/ /\ Fault
        /\ retired' = retired
        /\ after' = [after EXCEPT ![c] = Failed(c)]
  /\ Goto(c, "checkMarker")
  /\ UNCHANGED <<base, marker, up, lease, target, mark, retiredByMe, gen, calls, crashes>>

\* The lease is over (released = true); a reclaimer forgets its transition.
Finish(c, l) ==
  /\ Goto(c, l)
  /\ mark' = [mark EXCEPT ![c] = 0]
  /\ target' = [target EXCEPT ![c] = Missing]
  /\ lease' = [lease EXCEPT ![c] = IF l = "idle" THEN 0 ELSE @]
  /\ retiredByMe' = [retiredByMe EXCEPT ![c] = @ /\ l # "idle"]
  /\ after' = [after EXCEPT ![c] = "idle"]

KeepLease == UNCHANGED <<lease, target, mark, retiredByMe, after>>

\* releaseTransition: observeTransition.  A marker that is gone or another's
\* throws and pendingTransition stays set.
CheckMarker(c) ==
  /\ pc[c] = "checkMarker"
  /\ IF MyMarker(c)
     THEN Goto(c, "rmMarker") /\ KeepLease
     ELSE IF Releasing(c) THEN Goto(c, "releaseFailed") /\ KeepLease
     ELSE Finish(c, "idle")
  /\ UNCHANGED <<disk, up, gen, calls, faults, crashes>>

\* releaseTransition: rm(marker) removes the owner.json and then the directory,
\* and may fail at either.
RmMarker(c) ==
  /\ \/ /\ pc[c] = "rmMarker" /\ NoFault
        /\ marker' = Bare(c) /\ Goto(c, "rmdirMarker") /\ KeepLease
     \/ pc[c] = "rmdirMarker" /\ NoFault /\ marker' = Missing /\ Finish(c, after[c])
     \/ /\ pc[c] \in {"rmMarker", "rmdirMarker"} /\ Fault /\ marker' = marker
        /\ IF Releasing(c) THEN Goto(c, "releaseFailed") /\ KeepLease
                           ELSE Finish(c, "idle")
  /\ UNCHANGED <<base, retired, up, gen, calls, crashes>>

----------------------------------------------------------------------------
(* release(): entered by the holder, and again after it failed *)

Release(c) ==
  /\ pc[c] \in {"held", "releaseFailed"}
  /\ target' = [target EXCEPT ![c] = MyToken(c)]
  /\ Goto(c, IF retiredByMe[c] \/ mark[c] # 0 THEN "retry" ELSE "releaseGate")
  /\ UNCHANGED <<disk, up, lease, mark, retiredByMe, after, gen, calls, faults, crashes>>

\* A missing marker is created next; the panel throws on an invalid one.
ReleaseGate(c) ==
  /\ pc[c] = "releaseGate"
  /\ \/ marker = Missing /\ Goto(c, "mkdirMarker")
     \/ /\ IF c \in Panel THEN MarkerActive ELSE marker # Missing
        /\ Goto(c, "releaseWait")
     \/ c \in Panel /\ MarkerInvalid /\ Goto(c, "releaseFailed")
  /\ UNCHANGED <<disk, up, own, calls, faults, crashes>>

\* transitionMatchesOwnedRelease says "owned", "missing" or "changed"; a bare
\* or foreign marker is "changed".
MarkerState(c) == CASE MyMarker(c)                        -> "owned"
                    [] ~MyMarker(c) /\ marker = Missing  -> "missing"
                    [] ~MyMarker(c) /\ marker # Missing  -> "changed"

\* A release that failed after the rename: remove the retired directory, then
\* the marker if it is still this lease's own.  The Gateway ends the lease when
\* its marker changed, the panel throws.
RetryRetired(c) ==
  /\ pc[c] = "retry" /\ retiredByMe[c]
  /\ \/ /\ NoFault
        /\ retired' = retired \ {target[c]}
        /\ \/ /\ MarkerState(c) = "owned" /\ Goto(c, "checkMarker")
              /\ after' = [after EXCEPT ![c] = "idle"]
              /\ UNCHANGED <<mark, target, lease, retiredByMe>>
           \/ /\ MarkerState(c) = "changed" /\ c \in Panel /\ mark[c] # 0
              /\ Goto(c, "releaseFailed") /\ KeepLease
           \/ /\ \/ MarkerState(c) = "missing" \/ mark[c] = 0
                 \/ MarkerState(c) = "changed" /\ c \notin Panel
              /\ Finish(c, "idle")
     \/ /\ Fault /\ Goto(c, "releaseFailed")
        /\ retired' = retired /\ KeepLease
  /\ UNCHANGED <<base, marker, up, gen, calls, crashes>>

\* A release that failed before the rename with its transition still pending;
\* the panel goes on to verify it, the Gateway looks at it first.
RetryPending(c) ==
  /\ pc[c] = "retry" /\ ~retiredByMe[c]
  /\ Goto(c, IF c \in Panel \/ MarkerState(c) = "owned" THEN "verify"
             ELSE IF MarkerState(c) = "missing" THEN "releaseGate"
             ELSE "releaseFailed")
  /\ mark' = [mark EXCEPT ![c] =
               IF c \notin Panel /\ MarkerState(c) = "missing" THEN 0 ELSE @]
  /\ UNCHANGED <<disk, up, lease, target, retiredByMe, after, gen, calls, faults, crashes>>

----------------------------------------------------------------------------
(* The environment *)

\* Process p dies: its callers stop where they are, the disk stays.
Crash(p) ==
  /\ up[p] /\ crashes < MaxCrash
  /\ crashes' = crashes + 1
  /\ up' = [up EXCEPT ![p] = FALSE]
  /\ pc' = [c \in Client |-> IF ProcOf[c] = p THEN "down" ELSE pc[c]]
  /\ lease' = [c \in Client |-> IF ProcOf[c] = p THEN 0 ELSE lease[c]]
  /\ mark' = [c \in Client |-> IF ProcOf[c] = p THEN 0 ELSE mark[c]]
  /\ target' = [c \in Client |-> IF ProcOf[c] = p THEN Missing ELSE target[c]]
  /\ retiredByMe' = [c \in Client |-> ProcOf[c] # p /\ retiredByMe[c]]
  /\ after' = [c \in Client |-> IF ProcOf[c] = p THEN "idle" ELSE after[c]]
  /\ UNCHANGED <<disk, gen, calls, faults>>

\* A new process that the system gives the same pid.
Restart(p) ==
  /\ ~up[p]
  /\ up' = [up EXCEPT ![p] = TRUE]
  /\ pc' = [c \in Client |-> IF ProcOf[c] = p THEN "idle" ELSE pc[c]]
  /\ UNCHANGED <<disk, own, calls, faults, crashes>>

\* The code never takes over a directory or marker without a live operation;
\* the user removes it by hand.
Cleanup ==
  /\ \/ /\ marker # Missing
        /\ pc[marker.by] \notin RetirePc
        /\ marker' = Missing /\ base' = base
     \/ /\ base # Missing /\ base.gen = 0
        /\ pc[base.by] \notin {"gateAfterMkdir", "rmLockDir", "writeOwner"}
        /\ base' = Missing /\ marker' = marker
  /\ UNCHANGED <<retired, up, pc, own, calls, faults, crashes>>

\* Every step of caller c that its process's event loop takes by itself.
Step(c) ==
  \/ Gate(c) \/ Mkdir(c) \/ RmLockDir(c) \/ WriteOwner(c)
  \/ Lstat(c) \/ ReadOwner(c) \/ Wait(c) \/ GiveUp(c)
  \/ PanelGate(c) \/ Publish(c) \/ GateAfterPublish(c) \/ Abandon(c)
  \/ MkdirMarker(c) \/ PublishMarker(c) \/ WriteMarker(c) \/ Recheck(c) \/ Verify(c)
  \/ Rename(c) \/ RmRetired(c) \/ CheckMarker(c) \/ RmMarker(c)
  \/ ReleaseGate(c) \/ RetryRetired(c) \/ RetryPending(c)

Next == \/ \E c \in Client : Acquire(c) \/ Step(c) \/ Release(c)
        \/ \E p \in Proc : Crash(p) \/ Restart(p)
        \/ Cleanup

Spec == Init /\ [][Next]_vars

\* The event loop runs every pending call, a holder releases (the callers do it
\* in a finally block) and time passes every deadline.
Fairness == \A c \in Client : /\ WF_vars(Step(c))
                              /\ SF_vars(GiveUp(c))
                              /\ WF_vars(pc[c] = "held" /\ Release(c))

FairSpec == Spec /\ Fairness

----------------------------------------------------------------------------
(* Properties *)

\* The values the variables take.
TypeOK ==
  /\ base \in Owner /\ marker \in Owner /\ retired \subseteq Owner
  /\ up \in [Proc -> BOOLEAN]
  /\ pc \in [Client -> Pc]
  /\ lease \in [Client -> Nat] /\ mark \in [Client -> Nat] /\ gen \in [Client -> Nat]
  /\ target \in [Client -> Owner]
  /\ retiredByMe \in [Client -> BOOLEAN]
  /\ after \in [Client -> {"idle", "gate", "wait", "releaseFailed"}]
  /\ calls \in [Client -> Nat] /\ faults \in Nat /\ crashes \in Nat

\* Two leases are never in force together (50 contenders never overlap, in the
\* words of tests/cross-process-lock.test.ts), however slow a reclaimer is.
MutualExclusion == \A c, d \in Client : Holding(c) /\ Holding(d) => c = d

\* The directory of a lease in force stays in place with its own token: no
\* delayed reclaimer, retried release or losing mkdir removes it.
HolderKeepsDirectory == \A c \in Client : Holding(c) => base = MyToken(c)

\* A transition marker changes only by the operation that created it (a retried
\* release never deletes a replacement), or by hand when that operation is over.
MarkerOfItsCreator ==
  [][ marker # Missing /\ marker' # marker =>
        \/ pc' = pc
        \/ /\ pc[marker.by] \in {"writeMarker", "rmMarker", "rmdirMarker"}
           /\ pc'[marker.by] # pc[marker.by]
           /\ marker.gen \in {0, mark[marker.by]} ]_vars

\* Without faults and deaths an idle caller left nothing on the disk.
NothingLeftBehind ==
  faults = 0 /\ crashes = 0 =>
    \A c \in Client : pc[c] = "idle" =>
      base.by # c /\ marker.by # c /\ \A r \in retired : r.by # c

\* Every acquisition returns a lease or an error; every release returns.
CallsReturn == \A c \in Client :
  /\ pc[c] = "gate" ~> pc[c] \in {"held", "idle", "down"}
  /\ pc[c] \in ReleasePc ~> pc[c] \in {"idle", "releaseFailed", "down"}

\* A lock whose owner died in process p is taken over by a caller that contends
\* alone, unless the pid is given to a new process meanwhile.
Alone(c) == \A d \in Client \ {c} : pc[d] \in {"idle", "down"}
StaleBase(p) == base.gen # 0 /\ ProcOf[base.by] = p /\ ~up[p]
StaleLockRecovered == \A c \in Client, p \in Proc :
  (pc[c] = "gate" /\ Alone(c) /\ faults = MaxFault /\ marker = Missing /\ StaleBase(p))
    ~> (pc[c] \in {"held", "down"} \/ ~Alone(c) \/ up[p])

\* The lock implements the promise its callers rely on.
Lock == INSTANCE Mutex WITH holders <- {c \in Client : Holding(c)}
Refinement == Lock!Spec
----------------------------------------------------------------------------
(* The inductive invariant behind MutualExclusion and the refinement.      *)

\* A dead process has no caller in flight; a restarted one starts afresh.
DownInv == \A c \in Client : pc[c] = "down" <=> ~up[ProcOf[c]]

\* Where a caller has a lease.
LeaseInv == \A c \in Client :
  /\ pc[c] \in AcquirePc \cup {"idle", "down", "recheck"} => lease[c] = 0
  /\ pc[c] \in PublishPc \cup ReleasePc \cup {"held", "releaseFailed"} => lease[c] # 0

\* Where the directory of a lease is still in place and where it is renamed.
RetireInv == \A c \in Client :
  /\ lease[c] = 0 => ~retiredByMe[c]
  /\ pc[c] \in {"gateAfterPublish", "abandonVerify", "abandonRename", "held", "releaseGate",
                "releaseWait", "mkdirMarker", "writeMarker", "verify", "rename"}
       => ~retiredByMe[c]
  /\ pc[c] = "abandonRm" => retiredByMe[c]

\* A release retires its own directory and ends only when that is renamed.
ReleaseInv == \A c \in Client : Releasing(c) =>
  /\ pc[c] \in RetirePc \cup ReleasePc => target[c] = MyToken(c)
  /\ pc[c] = "rmRetired" => retiredByMe[c]
  /\ pc[c] \in {"checkMarker", "rmMarker", "rmdirMarker"} /\ after[c] = "idle"
       => retiredByMe[c]

\* Where a caller goes after it has removed its marker.
AfterInv == \A c \in Client :
  pc[c] \in {"checkMarker", "rmMarker", "rmdirMarker"} =>
    after[c] \in IF Releasing(c) THEN {"idle", "releaseFailed"}
                                 ELSE {"idle", "gate", "wait"}

\* Tokens on the disk and in memory were drawn before.
TokenInv ==
  /\ base.by = Nobody => base.gen = 0
  /\ marker.by = Nobody => marker.gen = 0
  /\ base.by \in Client => base.gen <= gen[base.by]
  /\ \A c \in Client : lease[c] <= gen[c] /\ mark[c] <= gen[c]

\* Between mkdir and writeOwner the directory is the caller's own and bare.
MakerInv == \A c \in Client :
  pc[c] \in {"gateAfterMkdir", "rmLockDir", "writeOwner"} => base = Bare(c)

\* The transition marker belongs to the one operation that retires.
MarkerInv == \A c \in Client :
  /\ pc[c] \in {"writeMarker", "rmdirMarker"} => marker = Bare(c)
  /\ pc[c] \in {"recheck", "rename", "rmMarker"} => MyMarker(c)

\* A reclaimer's stale owner never comes back, and once it is verified it is
\* still the canonical directory when the rename happens.
StaleKnown == {"mkdirMarker", "writeMarker", "recheck", "verify", "rename", "rmRetired"}
ReclaimInv == \A c \in Client : ~Releasing(c) =>
  /\ pc[c] \in StaleKnown =>
       /\ target[c].gen # 0 /\ target[c].by \in Client
       /\ target[c].gen <= gen[target[c].by]
       /\ target[c].gen # lease[target[c].by]
  /\ pc[c] = "rename" => base = target[c]

\* A directory without owner.json is never retired.
RetiredInv == \A r \in retired : r.by \in Client /\ r.gen # 0

IInv == /\ TypeOK /\ DownInv /\ LeaseInv /\ RetireInv /\ ReleaseInv /\ AfterInv /\ TokenInv
        /\ MakerInv /\ MarkerInv /\ ReclaimInv /\ RetiredInv /\ HolderKeepsDirectory

(* The invariant behind NothingLeftBehind: without faults and deaths nobody    *)
(* reclaims, a release always ends, and whatever is on the disk has a caller   *)
(* that is about to remove it or that holds it.                                *)
MarkedPc == {"verify", "rename", "rmRetired", "checkMarker", "rmMarker"}
Undisturbed == faults = 0 /\ crashes = 0

\* A marker is a release on its way, which reaches its end at the first attempt.
MarkedInv == \A c \in Client :
  /\ pc[c] # "retry"
  /\ pc[c] \in RetirePc => Releasing(c)
  /\ mark[c] # 0 => pc[c] \in MarkedPc \cup {"rmdirMarker"}
  /\ pc[c] \in MarkedPc => MyMarker(c)
  /\ pc[c] \in {"checkMarker", "rmMarker", "rmdirMarker"} => after[c] = "idle"
  /\ marker.by = c => pc[c] \in MarkedPc \cup {"writeMarker", "rmdirMarker"}

\* The canonical directory has its maker or its holder, a retired one the caller
\* that removes it next.
DirectoriesInv == \A c \in Client :
  /\ retiredByMe[c] =>
       pc[c] \in {"abandonRm", "rmRetired", "checkMarker", "rmMarker", "rmdirMarker"}
  /\ base.by = c => \/ pc[c] \in {"gateAfterMkdir", "rmLockDir", "writeOwner"}
                    \/ Holding(c)
  /\ \A r \in retired : r.by = c =>
       pc[c] \in {"abandonRm", "rmRetired"} /\ r = MyToken(c)

CleanInv == Undisturbed => (\A p \in Proc : up[p]) /\ MarkedInv /\ DirectoriesInv
=============================================================================
