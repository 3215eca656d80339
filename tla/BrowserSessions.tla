-------------------------- MODULE BrowserSessions --------------------------
(***************************************************************************)
(* The browsers a Gateway owns.  Starts, closes, operations on pages,      *)
(* deletions of profiles, the reaper and the shutdown follow each other on *)
(* one chain of promises; lists, snapshots and acts do not wait for it.    *)
(* Both kinds first reconcile the registered sessions with the processes   *)
(* that run, so that a session may be dropped while the chain disposes of  *)
(* it, or after its profile was opened again.                              *)
(*                                                                         *)
(* Another Gateway takes and returns the locks of profiles.  The chain is  *)
(* a lock any waiting call may take next; each session has one page, whose *)
(* state is a version; leases of an Agent desktop are left out, but a      *)
(* placement may fail a call and the reaper may dispose of any session.    *)
(***************************************************************************)
EXTENDS Naturals, FiniteSets

CONSTANTS
    Sessions,           \* session ids; each also names its ephemeral profile
    Clients,            \* calls under way other than starts
    Profiles,           \* persistent profiles
    Operations,         \* what the clients may call
    Reaper, Closer,     \* the interval of the reaper, the call of closeAll
    OtherGateway,
    Nobody,
    MaxFaults,          \* bound: terminations, removals, probes, locks that fail
    MaxVersion,         \* bound: changes of a page
    MaxObservations     \* bound: observations issued

VARIABLES
    sessions,           \* the registered sessions
    profile,            \* profile[s]: the profile session s was started with
    running,            \* the sessions whose browser process runs
    profilesInUse,
    lock,               \* lock[p]: who holds the lock of profile p
    directory,          \* directory[s]: the ephemeral directory of s, "left" when
                        \* no call will remove it any more
    chain,              \* the call that holds mutationChain
    call,               \* call[a]: operation, step and locals
    page,               \* page[s]: version of what the page of s shows
    observations,       \* the unused observations
    issued,             \* observations issued so far
    acted,              \* ghost: acted[o], acts observation o has authorized
    faults

vars == <<sessions, profile, running, profilesInUse, lock, directory, chain, call,
          page, observations, issued, acted, faults>>
records == <<sessions, profilesInUse, observations>>
pages == <<page, issued, acted>>

Chained == {"start", "close", "page", "delete", "reap", "closeAll"}
Unchained == {"list", "snapshot", "act"}
Actors == Sessions \cup Clients \cup {Reaper, Closer}
AllProfiles == Profiles \cup Sessions
Ids == 1 .. MaxObservations

BrowserAssumption ==
    /\ Operations \subseteq (Chained \cup Unchained) \ {"start", "reap", "closeAll"}
    /\ Sessions \cap Profiles = {}
    /\ (Clients \cup {Reaper, Closer}) \cap Sessions = {}
    /\ {Reaper, Closer} \cap Clients = {} /\ Reaper # Closer
    /\ {OtherGateway, Nobody} \cap (Actors \cup AllProfiles) = {} /\ OtherGateway # Nobody
    /\ Nobody \notin Chained \cup Unchained
    /\ {MaxFaults, MaxVersion, MaxObservations} \subseteq Nat

Observation == [id : Ids, session : Sessions, version : 0 .. MaxVersion]
Seen == [id : Ids \cup {0}, session : Sessions \cup {Nobody}, version : 0 .. MaxVersion]
NoObservation == [id |-> 0, session |-> Nobody, version |-> 0]

Places ==
    {"off", "idle", "queued", "reconcile", "unlock", "sweep", "lock", "launch", "ready",
     "kill", "abandon", "clean", "next", "terminate", "remove", "release", "forget", "maintain",
     "check", "act", "issue", "over"}

Call == [op : Chained \cup Unchained \cup {Nobody}, pc : Places,
         left : SUBSET Sessions, target : Sessions \cup Profiles \cup {Nobody},
         dead : Sessions \cup {Nobody}, seen : Seen]

(* A call that has begun, or goes on with another target.                  *)
Begun(op, step, left, t) ==
    [op |-> op, pc |-> step, left |-> left, target |-> t, dead |-> Nobody,
     seen |-> NoObservation]
Idle == Begun(Nobody, "idle", {}, Nobody)

TypeOK ==
    /\ sessions \subseteq Sessions
    /\ profile \in [Sessions -> AllProfiles]
    /\ running \subseteq Sessions
    /\ profilesInUse \subseteq AllProfiles
    /\ lock \in [AllProfiles -> Actors \cup {OtherGateway, Nobody}]
    /\ directory \in [Sessions -> {"none", "present", "left"}]
    /\ chain \in Actors \cup {Nobody}
    /\ call \in [Actors -> Call]
    /\ page \in [Sessions -> 0 .. MaxVersion]
    /\ observations \subseteq Observation
    /\ issued \in 0 .. MaxObservations
    /\ acted \in [Ids -> Nat]
    /\ faults \in 0 .. MaxFaults
    /\ \A a \in Actors : call[a].op \in Chained /\ call[a].pc # "queued" => chain = a

Init ==
    /\ sessions = {}
    /\ profile = [s \in Sessions |-> s]
    /\ running = {}
    /\ profilesInUse = {}
    /\ lock = [p \in AllProfiles |-> Nobody]
    /\ directory = [s \in Sessions |-> "none"]
    /\ chain = Nobody
    /\ call = [a \in Actors |-> IF a = Reaper THEN [Idle EXCEPT !.pc = "off"] ELSE Idle]
    /\ page = [s \in Sessions |-> 0]
    /\ observations = {}
    /\ issued = 0
    /\ acted = [o \in Ids |-> 0]
    /\ faults = 0

At(a, op, step) == call[a].op = op /\ call[a].pc = step
Step(a, step) == call' = [call EXCEPT ![a].pc = step]

(* A call returns or throws; starts and the shutdown happen once.          *)
Return(a) ==
    /\ call' = [call EXCEPT ![a] =
          IF a \in Sessions \cup {Closer} THEN [Idle EXCEPT !.pc = "over"] ELSE Idle]
    /\ chain' = IF chain = a THEN Nobody ELSE chain

Fault == faults < MaxFaults /\ faults' = faults + 1

OfOthers(s) == {o \in observations : o.session # s}
Ephemeral(s) == profile[s] = s

-----------------------------------------------------------------------------
(* The chain, and the reconciliation most calls begin with.                *)

Invoke(a, op, t) ==
    /\ call[a].pc = "idle"
    /\ call' = [call EXCEPT ![a] =
          IF op \in Chained THEN Begun(op, "queued", {}, t)
          ELSE Begun(op, "reconcile", sessions, t)]
    /\ UNCHANGED <<records, pages, profile, running, lock, directory, chain, faults>>

Start(s, p) ==
    /\ call[s].pc = "idle"
    /\ call' = [call EXCEPT ![s] = Begun("start", "queued", {}, s)]
    /\ profile' = [profile EXCEPT ![s] = p]
    /\ UNCHANGED <<records, pages, running, lock, directory, chain, faults>>

(* The reaper chooses the sessions that are idle, or whose placement on    *)
(* their desktop throws; closeAll takes every session and ends the reaper. *)
Enter(a) ==
    /\ call[a].pc = "queued"
    /\ chain = Nobody
    /\ chain' = a
    /\ \E left \in SUBSET sessions :
          /\ call[a].op # "reap" => left = sessions
          /\ call' = [call EXCEPT ![a].left = left,
                ![a].pc = IF a \in {Reaper, Closer} THEN "next" ELSE "reconcile"]
    /\ UNCHANGED <<records, pages, profile, running, lock, directory, faults>>

(* A process that ended, or could not be asked for, counts as closed.      *)
Probe(a, s) ==
    /\ call[a].pc = "reconcile"
    /\ s \in call[a].left
    /\ \/ /\ s \in running
          /\ call' = [call EXCEPT ![a].left = @ \ {s}]
          /\ UNCHANGED <<records, faults>>
       \/ /\ (s \notin running /\ UNCHANGED faults) \/ Fault
          /\ call' = [call EXCEPT ![a] =
                  [Begun(call[a].op, "unlock", call[a].left \ {s}, call[a].target)
                      EXCEPT !.dead = s]]
          /\ sessions' = sessions \ {s}
          /\ profilesInUse' = profilesInUse \ {profile[s]}
          /\ observations' = OfOthers(s)
    /\ UNCHANGED <<pages, profile, running, lock, directory, chain>>

(* A lease is released once, and only the lock it was granted.             *)
Released(s) ==
    [lock EXCEPT ![profile[s]] = IF @ = s THEN Nobody ELSE @]

(* Mutant: the lock is removed by the name of its profile.                 *)
UnlockByName(a) ==
    /\ call[a].pc = "unlock"
    /\ lock' = [lock EXCEPT ![profile[call[a].dead]] = Nobody]
    /\ Step(a, "sweep")
    /\ UNCHANGED <<records, pages, profile, running, directory, chain, faults>>

Unlock(a) ==
    /\ call[a].pc = "unlock"
    /\ lock' = Released(call[a].dead)
    /\ Step(a, "sweep")
    /\ UNCHANGED <<records, pages, profile, running, directory, chain, faults>>

(* The removal of an ephemeral directory, whose failure nobody hears of.   *)
Swept(s) ==
    \/ directory' = [directory EXCEPT ![s] = IF Ephemeral(s) THEN "none" ELSE @]
       /\ UNCHANGED faults
    \/ Ephemeral(s) /\ Fault
       /\ directory' = [directory EXCEPT ![s] = IF @ = "none" THEN @ ELSE "left"]

Sweep(a) ==
    /\ call[a].pc = "sweep"
    /\ Swept(call[a].dead)
    /\ call' = [call EXCEPT ![a].pc = "reconcile", ![a].dead = Nobody]
    /\ UNCHANGED <<records, pages, profile, running, lock, chain>>

Reconciled(a, op) == At(a, op, "reconcile") /\ call[a].left = {}

-----------------------------------------------------------------------------
(* Starting a browser.                                                     *)

(* An ephemeral profile has a directory before it has a lock.              *)
MakeDirectory(s) ==
    /\ Reconciled(s, "start")
    /\ profile[s] \notin profilesInUse
    /\ directory' = [directory EXCEPT ![s] = IF Ephemeral(s) THEN "present" ELSE @]
    /\ Step(s, "lock")
    /\ UNCHANGED <<records, pages, profile, running, lock, chain, faults>>

(* The profile is in use here, an argument or the lease is refused, or the *)
(* directory could not be made.                                            *)
OpenFails(s) ==
    /\ Reconciled(s, "start")
    /\ Return(s)
    /\ UNCHANGED <<records, pages, profile, running, lock, directory, faults>>

Open(s) ==
    /\ At(s, "start", "lock")
    /\ lock[profile[s]] = Nobody
    /\ lock' = [lock EXCEPT ![profile[s]] = s]
    /\ profilesInUse' = profilesInUse \cup {profile[s]}
    /\ Step(s, "launch")
    /\ UNCHANGED <<sessions, observations, pages, profile, running, directory, chain, faults>>

(* The profile stayed locked until the timeout, or the lock could not be   *)
(* taken; nothing removes the directory that was made for it.              *)
LockFails(s) ==
    /\ At(s, "start", "lock")
    /\ (lock[profile[s]] # Nobody /\ UNCHANGED faults) \/ Fault
    /\ directory' = [directory EXCEPT ![s] = IF Ephemeral(s) THEN "left" ELSE @]
    /\ Return(s)
    /\ UNCHANGED <<records, pages, profile, running, lock>>

Launch(s) ==
    /\ At(s, "start", "launch")
    /\ running' = running \cup {s}
    /\ Step(s, "ready")
    /\ UNCHANGED <<records, pages, profile, lock, directory, chain, faults>>

Register(s) ==
    /\ At(s, "start", "ready")
    /\ s \in running
    /\ sessions' = sessions \cup {s}
    /\ call' = [call EXCEPT ![s] = [Idle EXCEPT !.pc = "over"],
                            ![Reaper].pc = IF @ = "off" THEN "idle" ELSE @]
    /\ chain' = Nobody
    /\ UNCHANGED <<profilesInUse, observations, pages, profile, running, lock, directory,
                   faults>>

StartFails(s) ==
    /\ call[s].op = "start" /\ call[s].pc \in {"launch", "ready"}
    /\ profilesInUse' = profilesInUse \ {profile[s]}
    /\ Step(s, IF call[s].pc = "launch" THEN "abandon" ELSE "kill")
    /\ UNCHANGED <<sessions, observations, pages, profile, running, lock, directory, chain,
                   faults>>

(* Mutant: a failed termination ends the call.                             *)
KillUncaught(s) ==
    /\ At(s, "start", "kill")
    /\ \/ running' = running \ {s} /\ Step(s, "abandon") /\ UNCHANGED <<chain, faults>>
       \/ s \in running /\ Fault /\ Return(s) /\ UNCHANGED running
    /\ UNCHANGED <<records, pages, profile, lock, directory>>

(* The browser is terminated, or still runs and the error is swallowed.    *)
Kill(s) ==
    /\ At(s, "start", "kill")
    /\ \/ running' = running \ {s} /\ UNCHANGED faults
       \/ s \in running /\ Fault /\ UNCHANGED running
    /\ Step(s, "abandon")
    /\ UNCHANGED <<records, pages, profile, lock, directory, chain>>

Abandon(s) ==
    /\ At(s, "start", "abandon")
    /\ lock' = Released(s)
    /\ Step(s, "clean")
    /\ UNCHANGED <<records, pages, profile, running, directory, chain, faults>>

Clean(s) ==
    /\ At(s, "start", "clean")
    /\ Swept(s)
    /\ Return(s)
    /\ UNCHANGED <<records, pages, profile, running, lock>>

-----------------------------------------------------------------------------
(* disposeRecord, for close, the reaper and closeAll.                      *)

Disposing(a, step) == call[a].op \in {"close", "reap", "closeAll"} /\ call[a].pc = step

Close(c) ==
    /\ Reconciled(c, "close")
    /\ IF call[c].target \in sessions
       THEN Step(c, "terminate") /\ UNCHANGED chain
       ELSE Return(c)
    /\ UNCHANGED <<records, pages, profile, running, lock, directory, faults>>

(* Mutant: the chain goes on once the last record is under way.            *)
NextUnchained(a) ==
    /\ Disposing(a, "next")
    /\ \/ \E s \in call[a].left :
             /\ call' = [call EXCEPT ![a] =
                            Begun(call[a].op, "terminate", call[a].left \ {s}, s)]
             /\ chain' = IF call[a].left = {s} THEN Nobody ELSE chain
       \/ call[a].left = {} /\ Return(a)
    /\ UNCHANGED <<records, pages, profile, running, lock, directory, faults>>

NextRecord(a) ==
    /\ Disposing(a, "next")
    /\ \/ \E s \in call[a].left :
             /\ call' = [call EXCEPT ![a] =
                            Begun(call[a].op, "terminate", call[a].left \ {s}, s)]
             /\ UNCHANGED chain
       \/ call[a].left = {} /\ Return(a)
    /\ UNCHANGED <<records, pages, profile, running, lock, directory, faults>>

(* A failed disposal ends close and closeAll; the reaper goes on with the  *)
(* next idle session, but ends its pass at one whose placement threw.      *)
DisposeFails(a) ==
    /\ Fault
    /\ \/ Return(a)
       \/ a = Reaper /\ Step(a, "next") /\ UNCHANGED chain

Terminate(a) ==
    /\ Disposing(a, "terminate")
    /\ \/ /\ running' = running \ {call[a].target}
          /\ Step(a, "remove")
          /\ UNCHANGED <<chain, faults>>
       \/ call[a].target \in running /\ DisposeFails(a) /\ UNCHANGED running
    /\ UNCHANGED <<records, pages, profile, lock, directory>>

Remove(a) ==
    /\ Disposing(a, "remove")
    /\ \/ /\ directory' = [directory EXCEPT ![call[a].target] =
                              IF Ephemeral(call[a].target) THEN "none" ELSE @]
          /\ Step(a, "release")
          /\ UNCHANGED <<chain, faults>>
       \/ Ephemeral(call[a].target) /\ DisposeFails(a) /\ UNCHANGED directory
    /\ UNCHANGED <<records, pages, profile, running, lock>>

Release(a) ==
    /\ Disposing(a, "release")
    /\ lock' = Released(call[a].target)
    /\ Step(a, "forget")
    /\ UNCHANGED <<records, pages, profile, running, directory, chain, faults>>

Forget(a) ==
    /\ Disposing(a, "forget")
    /\ sessions' = sessions \ {call[a].target}
    /\ profilesInUse' = profilesInUse \ {profile[call[a].target]}
    /\ observations' = OfOthers(call[a].target)
    /\ IF call[a].op = "close" THEN Return(a) ELSE Step(a, "next") /\ UNCHANGED chain
    /\ UNCHANGED <<pages, profile, running, lock, directory, faults>>

(* The interval of the reaper, until closeAll clears it.                   *)
Reap == call[Reaper].pc = "idle" /\ Invoke(Reaper, "reap", Nobody)

CloseAll ==
    /\ call[Closer].pc = "idle"
    /\ call' = [call EXCEPT ![Closer] = Begun("closeAll", "queued", {}, Nobody),
                            ![Reaper].pc = IF @ = "idle" THEN "off" ELSE @]
    /\ UNCHANGED <<records, pages, profile, running, lock, directory, chain, faults>>

-----------------------------------------------------------------------------
(* Profiles, pages and lists.                                              *)

LockForDeletion(c) ==
    /\ Reconciled(c, "delete")
    /\ IF lock[call[c].target] = Nobody
       THEN /\ lock' = [lock EXCEPT ![call[c].target] = c]
            /\ Step(c, "maintain")
            /\ UNCHANGED chain
       ELSE Return(c) /\ UNCHANGED lock
    /\ UNCHANGED <<records, pages, profile, running, directory, faults>>

DeleteProfile(c) ==
    /\ At(c, "delete", "maintain")
    /\ lock' = [lock EXCEPT ![call[c].target] = Nobody]
    /\ Return(c)
    /\ UNCHANGED <<records, pages, profile, running, directory, faults>>

(* A page is made, selected or closed, or its dialog handled; the driver   *)
(* fails when the browser is gone, and a placement may fail the call.      *)
PageOperation(c) ==
    /\ Reconciled(c, "page")
    /\ \/ /\ call[c].target \in sessions \cap running
          /\ page[call[c].target] < MaxVersion
          /\ page' = [page EXCEPT ![call[c].target] = @ + 1]
          /\ observations' = OfOthers(call[c].target)
       \/ UNCHANGED <<page, observations>>
    /\ Return(c)
    /\ UNCHANGED <<sessions, profilesInUse, issued, acted, profile, running, lock, directory,
                   faults>>

List(c) ==
    /\ Reconciled(c, "list")
    /\ Return(c)
    /\ UNCHANGED <<records, pages, profile, running, lock, directory, faults>>

-----------------------------------------------------------------------------
(* Observations: what a snapshot or a search saw, good for one act.        *)

(* find and snapshot read the page, then issue an observation of it.       *)
ReadPage(c) ==
    /\ Reconciled(c, "snapshot")
    /\ IF call[c].target \in sessions \cap running /\ issued < MaxObservations
       THEN /\ call' = [call EXCEPT ![c].pc = "issue",
                           ![c].seen = [NoObservation EXCEPT !.version = page[call[c].target]]]
            /\ UNCHANGED chain
       ELSE Return(c)
    /\ UNCHANGED <<records, pages, profile, running, lock, directory, faults>>

IssueObservation(c) ==
    /\ At(c, "snapshot", "issue")
    /\ issued < MaxObservations
    /\ issued' = issued + 1
    /\ observations' = observations \cup
          {[id |-> issued + 1, session |-> call[c].target, version |-> call[c].seen.version]}
    /\ Return(c)
    /\ UNCHANGED <<sessions, profilesInUse, page, acted, profile, running, lock, directory,
                   faults>>

(* Mutant: the observation is deleted once the page has been checked.      *)
ConsumeLater(c, o) ==
    /\ Reconciled(c, "act")
    /\ call[c].target \in sessions
    /\ o \in observations
    /\ call' = [call EXCEPT ![c].pc = "check", ![c].seen = o]
    /\ UNCHANGED <<records, pages, profile, running, lock, directory, chain, faults>>

ConsumeObservation(c, o) ==
    /\ Reconciled(c, "act")
    /\ call[c].target \in sessions
    /\ o \in observations
    /\ IF o.session = call[c].target
       THEN /\ call' = [call EXCEPT ![c].pc = "check", ![c].seen = o]
            /\ observations' = OfOthers(o.session)
            /\ UNCHANGED chain
       ELSE observations' = observations \ {o} /\ Return(c)
    /\ UNCHANGED <<sessions, profilesInUse, pages, profile, running, lock, directory, faults>>

(* The session is gone, or the observation used or expired.                *)
ActRefused(c) ==
    /\ Reconciled(c, "act")
    /\ Return(c)
    /\ UNCHANGED <<records, pages, profile, running, lock, directory, faults>>

CheckState(c) ==
    /\ At(c, "act", "check")
    /\ IF call[c].target \in running /\ page[call[c].target] = call[c].seen.version
       THEN Step(c, "act") /\ UNCHANGED chain
       ELSE Return(c)
    /\ UNCHANGED <<records, pages, profile, running, lock, directory, faults>>

(* One action that changes the page, or waits and downloads that do not;   *)
(* a snapshot follows, unless the driver or the placement fails.           *)
Act(c) ==
    /\ At(c, "act", "act")
    /\ \/ /\ call[c].target \in running
          /\ \/ page' = page
             \/ /\ page[call[c].target] < MaxVersion
                /\ page' = [page EXCEPT ![call[c].target] = @ + 1]
          /\ acted' = [acted EXCEPT ![call[c].seen.id] = @ + 1]
          /\ call' = [call EXCEPT ![c] =
                         Begun("snapshot", "reconcile", sessions, call[c].target)]
          /\ UNCHANGED chain
       \/ Return(c) /\ UNCHANGED <<page, acted>>
    /\ UNCHANGED <<records, issued, profile, running, lock, directory, faults>>

Expire(o) ==
    /\ observations' = observations \ {o}
    /\ UNCHANGED <<sessions, profilesInUse, pages, profile, running, lock, directory, chain,
                   call, faults>>

-----------------------------------------------------------------------------
(* The browser ends by itself, or its page changes; the other Gateway.     *)

Exit(s) ==
    /\ running' = running \ {s}
    /\ UNCHANGED <<records, pages, profile, lock, directory, chain, call, faults>>

PageChanges(s) ==
    /\ page[s] < MaxVersion
    /\ page' = [page EXCEPT ![s] = @ + 1]
    /\ UNCHANGED <<records, issued, acted, profile, running, lock, directory, chain, call,
                   faults>>

OtherTakes(p) ==
    /\ lock[p] = Nobody
    /\ lock' = [lock EXCEPT ![p] = OtherGateway]
    /\ UNCHANGED <<records, pages, profile, running, directory, chain, call, faults>>

OtherReleases(p) ==
    /\ lock[p] = OtherGateway
    /\ lock' = [lock EXCEPT ![p] = Nobody]
    /\ UNCHANGED <<records, pages, profile, running, directory, chain, call, faults>>

Starting(s) ==
    \/ \E p \in Profiles \cup {s} : Start(s, p)
    \/ MakeDirectory(s) \/ OpenFails(s) \/ Open(s) \/ LockFails(s) \/ Launch(s) \/ Register(s)
    \/ StartFails(s) \/ Kill(s) \/ Abandon(s) \/ Clean(s)

Client(c) ==
    \/ \E op \in Operations \cap {"list"} : Invoke(c, op, Nobody)
    \/ \E op \in Operations \cap {"delete"}, p \in Profiles : Invoke(c, op, p)
    \/ \E op \in Operations \ {"list", "delete"}, s \in Sessions : Invoke(c, op, s)
    \/ Close(c) \/ LockForDeletion(c) \/ DeleteProfile(c) \/ PageOperation(c) \/ List(c)
    \/ ReadPage(c) \/ IssueObservation(c) \/ ActRefused(c) \/ CheckState(c) \/ Act(c)
    \/ \E o \in observations : ConsumeObservation(c, o)

Dispose(a) ==
    NextRecord(a) \/ Terminate(a) \/ Remove(a) \/ Release(a) \/ Forget(a)

Next ==
    \/ \E s \in Sessions : Starting(s)
    \/ \E c \in Clients : Client(c)
    \/ \E a \in Actors : Enter(a) \/ Unlock(a) \/ Sweep(a) \/ \E s \in Sessions : Probe(a, s)
    \/ \E a \in Clients \cup {Reaper, Closer} : Dispose(a)
    \/ Reap \/ CloseAll
    \/ \E o \in observations : Expire(o)
    \/ \E s \in running : Exit(s) \/ PageChanges(s)
    \/ \E p \in Profiles : OtherTakes(p) \/ OtherReleases(p)

Spec == Init /\ [][Next]_vars

-----------------------------------------------------------------------------
(* A registered session whose browser runs holds the lock of its profile,  *)
(* although reconciliations that saw an earlier session of that profile    *)
(* end, and return the lock of that session, at any later time.            *)
RegisteredOwnsProfile ==
    \A s \in sessions \cap running : lock[profile[s]] = s

(* Some call still answers for s.                                          *)
Attended(s) ==
    \/ s \in sessions
    \/ call[s].op = "start"
    \/ \E a \in Actors : call[a].dead = s

(* No lock and no ephemeral directory outlives its session, whichever call *)
(* dropped the session and however it ended: a later close or reaper pass  *)
(* could not find it.  Two directories are left all the same: one whose    *)
(* removal failed unheard, and one whose lock could not be taken.          *)
NothingOrphaned ==
    \A s \in Sessions :
        lock[profile[s]] = s \/ directory[s] = "present" => Attended(s)

(* An observation authorizes one act at most, however many calls present   *)
(* it at the same time.                                                    *)
OneActPerObservation == \A o \in Ids : acted[o] <= 1
=============================================================================
