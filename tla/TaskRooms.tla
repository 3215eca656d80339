----------------------------- MODULE TaskRooms -----------------------------
(***************************************************************************)
(* Task Rooms: contexts on disk that agents open with capability handles,  *)
(* and the recoverable task each room keeps.  Gateways share the files; a  *)
(* call checks its handle without a lock, then changes the task under the  *)
(* lock of the room's task store.  Rooms are created, and handles issued,  *)
(* under one lock of the context store.  Both locks are the one PidLock    *)
(* specifies, behind a chain of promises in each Gateway.                  *)
(*                                                                         *)
(* One task is modelled in each room: the tasks of a room share only the   *)
(* lock.  Handles are numbered in the order the room issued them.          *)
(***************************************************************************)
EXTENDS Naturals, Sequences, FiniteSets

CONSTANTS
    Calls,              \* slots for concurrent calls, of any Gateway
    Rooms,              \* context ids
    Workspaces,         \* fingerprints of the allowed roots
    Steps,              \* the steps a task is created with
    PhaseOf,            \* the phase of each step
    MaxContexts,        \* MAX_CONTEXTS
    MaxCapabilities,    \* MAX_CAPABILITIES
    MaxHandles,         \* bound: handles issued for a room
    None                \* no task, no review, no step, no holder, no room

VARIABLES
    room,               \* room[r]: no directory, one without context.json, or ready
    issued,             \* ghost: issued[r], how many handles were saved
    task,               \* task[r]: the task file of the room, or None
    contextsLock,       \* the call that holds .contexts.lock, or None
    tasksLock,          \* tasksLock[r]: the call that holds .tasks.lock, or None
    call                \* call[c]: operation, step and locals of the call

vars == <<room, issued, task, contextsLock, tasksLock, call>>

Phases == {"check", "execute", "verify", "closeout"}
Progress == {"pending", "in_progress", "completed"}
Changes == {"create", "checkpoint", "block", "resume", "final_review", "complete"}

Room == [stage : {"absent", "directory", "ready"},
         workspace : Workspaces \cup {None}, capabilities : Seq(Nat)]

Task == [status : {"active", "blocked", "completed"}, phase : Phases,
         steps : [Steps -> Progress], review : {None, "pass", "failed"}]

Call == [op : Changes \cup {None, "context_create", "context_reattach"},
         pc : {"idle", "making", "saving", "admitted", "loaded"},
         room : Rooms \cup {None}, context : Room, task : Task \cup {None}]

RoomsAssumption ==
    /\ PhaseOf \in [Steps -> Phases]
    /\ MaxContexts \in Nat \ {0}
    /\ MaxCapabilities \in Nat \ {0}
    /\ MaxHandles \in Nat
    /\ None \notin Calls \cup Rooms \cup Steps \cup Workspaces \cup {"pass", "failed"}
    /\ None \notin Task

Absent == [stage |-> "absent", workspace |-> None, capabilities |-> <<>>]
Idle == [op |-> None, pc |-> "idle", room |-> None, context |-> Absent, task |-> None]

(* The rooms listContextIds counts: their directory is enough.             *)
Directories == {r \in Rooms : room[r].stage # "absent"}

LatestHandles(s) ==
    SubSeq(s, IF Len(s) > MaxCapabilities THEN Len(s) - MaxCapabilities + 1 ELSE 1, Len(s))

TypeOK ==
    /\ room \in [Rooms -> Room]
    /\ issued \in [Rooms -> 0 .. MaxHandles]
    /\ task \in [Rooms -> Task \cup {None}]
    /\ contextsLock \in Calls \cup {None}
    /\ tasksLock \in [Rooms -> Calls \cup {None}]
    /\ call \in [Calls -> Call]
    /\ \A c \in Calls : contextsLock = c <=> call[c].pc \in {"making", "saving"}
    /\ \A c \in Calls, r \in Rooms :
          tasksLock[r] = c <=> call[c].pc = "loaded" /\ call[c].room = r

Init ==
    /\ room = [r \in Rooms |-> Absent]
    /\ issued = [r \in Rooms |-> 0]
    /\ task = [r \in Rooms |-> None]
    /\ contextsLock = None
    /\ tasksLock = [r \in Rooms |-> None]
    /\ call = [c \in Calls |-> Idle]

At(c, step) == call[c].pc = step
Return(c) == call' = [call EXCEPT ![c] = Idle]

-----------------------------------------------------------------------------
(* Contexts: the room's directory, then its context.json.                  *)

CreateContext(c, w) ==
    /\ At(c, "idle")
    /\ contextsLock = None
    /\ Cardinality(Directories) < MaxContexts
    /\ contextsLock' = c
    /\ call' = [call EXCEPT ![c].op = "context_create", ![c].pc = "making",
                            ![c].context = [Absent EXCEPT !.workspace = w]]
    /\ UNCHANGED <<room, issued, task, tasksLock>>

MakeDirectory(c, r) ==
    /\ At(c, "making")
    /\ room[r].stage = "absent"
    /\ room' = [room EXCEPT ![r].stage = "directory"]
    /\ call' = [call EXCEPT ![c].pc = "saving", ![c].room = r]
    /\ UNCHANGED <<issued, task, contextsLock, tasksLock>>

(* Mutant: the room is loaded before the lock is free.                     *)
ReattachUnlocked(c, w, r, byTask) ==
    /\ At(c, "idle")
    /\ room[r].stage = "ready"
    /\ room[r].workspace = w
    /\ byTask => task[r] # None /\ Cardinality(Directories) <= MaxContexts
    /\ contextsLock' = c
    /\ call' = [call EXCEPT ![c].op = "context_reattach", ![c].pc = "saving",
                            ![c].room = r, ![c].context = room[r]]
    /\ UNCHANGED <<room, issued, task, tasksLock>>

(* Reattachment by the id of a task goes through the list of rooms, which  *)
(* fails beyond the limit; by context id and label it loads one room.      *)
ReattachContext(c, w, r, byTask) ==
    /\ At(c, "idle")
    /\ contextsLock = None
    /\ room[r].stage = "ready"
    /\ room[r].workspace = w
    /\ byTask => task[r] # None /\ Cardinality(Directories) <= MaxContexts
    /\ contextsLock' = c
    /\ call' = [call EXCEPT ![c].op = "context_reattach", ![c].pc = "saving",
                            ![c].room = r, ![c].context = room[r]]
    /\ UNCHANGED <<room, issued, task, tasksLock>>

(* The new handle is added to the ones loaded; the latest ones are kept.   *)
SaveContext(c) ==
    LET r == call[c].room
        saved == call[c].context
    IN  /\ At(c, "saving")
        /\ issued[r] < MaxHandles
        /\ issued' = [issued EXCEPT ![r] = @ + 1]
        /\ room' = [room EXCEPT ![r] =
              [saved EXCEPT !.stage = "ready",
                            !.capabilities = LatestHandles(Append(@, issued[r] + 1))]]
        /\ contextsLock' = None
        /\ Return(c)
        /\ UNCHANGED <<task, tasksLock>>

-----------------------------------------------------------------------------
(* A change of a task: access without a lock, then load, check and save    *)
(* under the lock of the room's task store.                                *)

Access(c, w, r, h, op) ==
    /\ At(c, "idle")
    /\ room[r].stage = "ready"
    /\ room[r].workspace = w
    /\ \E i \in DOMAIN room[r].capabilities : room[r].capabilities[i] = h
    /\ call' = [call EXCEPT ![c].op = op, ![c].pc = "admitted", ![c].room = r]
    /\ UNCHANGED <<room, issued, task, contextsLock, tasksLock>>

(* Mutant: the task is loaded before the lock is free.                     *)
LoadUnlocked(c) ==
    LET r == call[c].room
    IN  /\ At(c, "admitted")
        /\ call[c].op = "create" <=> task[r] = None
        /\ tasksLock' = [tasksLock EXCEPT ![r] = c]
        /\ call' = [call EXCEPT ![c].pc = "loaded", ![c].task = task[r]]
        /\ UNCHANGED <<room, issued, task, contextsLock>>

(* Bound: a room's task is created once.                                   *)
Load(c) ==
    LET r == call[c].room
    IN  /\ At(c, "admitted")
        /\ tasksLock[r] = None
        /\ call[c].op = "create" <=> task[r] = None
        /\ tasksLock' = [tasksLock EXCEPT ![r] = c]
        /\ call' = [call EXCEPT ![c].pc = "loaded", ![c].task = task[r]]
        /\ UNCHANGED <<room, issued, task, contextsLock>>

(* The call returns; what it did not save is lost, its locks are free.     *)
Leave(c) ==
    /\ contextsLock' = IF contextsLock = c THEN None ELSE contextsLock
    /\ tasksLock' = [r \in Rooms |-> IF tasksLock[r] = c THEN None ELSE tasksLock[r]]
    /\ Return(c)

Save(c, t) ==
    /\ task' = [task EXCEPT ![call[c].room] = t]
    /\ Leave(c)
    /\ UNCHANGED <<room, issued>>

Loaded(c, op) == At(c, "loaded") /\ call[c].op = op

(* A task created without steps starts in the phase check.                 *)
CreateTask(c, phase) ==
    /\ Loaded(c, "create")
    /\ phase \in IF Steps = {} THEN {"check"} ELSE {PhaseOf[s] : s \in Steps}
    /\ Save(c, [status |-> "active", phase |-> phase,
                steps |-> [s \in Steps |-> "pending"], review |-> None])

ValidStepTransition(from, to) ==
    \/ from = to
    \/ from = "pending"
    \/ from = "in_progress" /\ to = "completed"

(* A checkpoint deletes a failed review.                                   *)
Checkpointed(t, steps, phase) ==
    [t EXCEPT !.steps = steps, !.phase = phase,
              !.review = IF @ = "failed" THEN None ELSE @]

CheckpointOpen(c) ==
    /\ Loaded(c, "checkpoint")
    /\ call[c].task.status = "active"
    /\ call[c].task.review # "pass"

CheckpointStep(c, s, to) ==
    LET t == call[c].task
    IN  /\ CheckpointOpen(c)
        /\ ValidStepTransition(t.steps[s], to)
        /\ to = "in_progress" => \A o \in Steps \ {s} : t.steps[o] # "in_progress"
        /\ Save(c, Checkpointed(t, [t.steps EXCEPT ![s] = to], PhaseOf[s]))

(* A batch completes the steps done and moves on to current; last is the   *)
(* one named last.                                                         *)
CheckpointBatch(c, done, last, current) ==
    LET t == call[c].task
    IN  /\ CheckpointOpen(c)
        /\ current \notin done
        /\ current # None =>
              /\ ValidStepTransition(t.steps[current], "in_progress")
              /\ \A o \in Steps \ (done \cup {current}) : t.steps[o] # "in_progress"
        /\ \/ current # None /\ last = current
           \/ current = None /\ last \in done
        /\ Save(c, Checkpointed(t, [s \in Steps |->
                 IF s \in done THEN "completed"
                 ELSE IF s = current THEN "in_progress" ELSE t.steps[s]], PhaseOf[last]))

Block(c) ==
    /\ Loaded(c, "block")
    /\ call[c].task.status # "completed"
    /\ call[c].task.review # "pass"
    /\ Save(c, [call[c].task EXCEPT !.status = "blocked"])

Resume(c) ==
    /\ Loaded(c, "resume")
    /\ call[c].task.status = "blocked"
    /\ Save(c, [call[c].task EXCEPT !.status = "active"])

(* Mutant: a review passes while steps are open.                           *)
FinalReviewOpenSteps(c, verdict) ==
    LET t == call[c].task
    IN  /\ Loaded(c, "final_review")
        /\ t.status = "active"
        /\ t.review # "pass"
        /\ Save(c, [t EXCEPT !.review = verdict,
                             !.phase = IF verdict = "pass" THEN "closeout" ELSE @])

FinalReview(c, verdict) ==
    LET t == call[c].task
    IN  /\ Loaded(c, "final_review")
        /\ t.status = "active"
        /\ t.review # "pass"
        /\ verdict = "pass" => \A s \in Steps : t.steps[s] = "completed"
        /\ Save(c, [t EXCEPT !.review = verdict,
                             !.phase = IF verdict = "pass" THEN "closeout" ELSE @])

Complete(c) ==
    LET t == call[c].task
    IN  /\ Loaded(c, "complete")
        /\ t.status = "active"
        /\ t.review = "pass"
        /\ t.phase = "closeout"
        /\ Save(c, [t EXCEPT !.status = "completed"])

(* Mutant: a call that fails leaves its lock directory behind.             *)
FailsLocked(c) ==
    /\ ~At(c, "idle")
    /\ Return(c)
    /\ UNCHANGED <<room, issued, task, contextsLock, tasksLock>>

(* A refusal, an error of the file system, a time limit of the lock, or    *)
(* the death of the Gateway, whose locks are reclaimed.                    *)
Fails(c) ==
    /\ ~At(c, "idle")
    /\ Leave(c)
    /\ UNCHANGED <<room, issued, task>>

-----------------------------------------------------------------------------
ChangeContexts(c) ==
    \/ \E w \in Workspaces : CreateContext(c, w)
    \/ \E r \in Rooms : MakeDirectory(c, r)
    \/ \E w \in Workspaces, r \in Rooms, b \in BOOLEAN : ReattachContext(c, w, r, b)
    \/ SaveContext(c)

ChangeTask(c) ==
    \/ \E w \in Workspaces, r \in Rooms, h \in 1 .. MaxHandles, op \in Changes :
          Access(c, w, r, h, op)
    \/ Load(c)
    \/ \E p \in Phases : CreateTask(c, p)
    \/ \E s \in Steps, to \in Progress : CheckpointStep(c, s, to)
    \/ \E done \in SUBSET Steps, last \in Steps, s \in Steps \cup {None} :
          CheckpointBatch(c, done, last, s)
    \/ Block(c)
    \/ Resume(c)
    \/ \E v \in {"pass", "failed"} : FinalReview(c, v)
    \/ Complete(c)

Next == \E c \in Calls : ChangeContexts(c) \/ ChangeTask(c) \/ Fails(c)

Spec == Init /\ [][Next]_vars

-----------------------------------------------------------------------------
(* Every room can be opened again: however creations and reattachments     *)
(* interleave and fail, there are never more rooms than the list accepts,  *)
(* and a handle is open until MaxCapabilities later ones were issued.      *)
RoomsReachable ==
    /\ Cardinality(Directories) <= MaxContexts
    /\ \A r \in Rooms : room[r].stage = "ready" =>
          \A h \in 1 .. issued[r] : h + MaxCapabilities > issued[r] =>
             \E i \in DOMAIN room[r].capabilities : room[r].capabilities[i] = h

(* A review passes, and a task completes, only with every step completed:  *)
(* no order of checkpoints, blocks, reviews and completions of two agents  *)
(* completes a task whose review did not pass, reopens a step of a passed  *)
(* one, or has two steps in progress.                                      *)
CompletionIsEarned ==
    \A r \in Rooms : task[r] # None =>
       /\ task[r].status = "completed" => task[r].review = "pass"
       /\ task[r].review = "pass" => /\ task[r].status # "blocked"
                                     /\ task[r].phase = "closeout"
                                     /\ \A s \in Steps : task[r].steps[s] = "completed"
       /\ \A s, o \in Steps : task[r].steps[s] = "in_progress"
                              /\ task[r].steps[o] = "in_progress" => s = o

(* Work recorded in a task is never lost to a concurrent call, a failure   *)
(* or a death: no step goes back, a passed review stands, and a completed  *)
(* task never changes again.                                               *)
Kept(before, after) ==
    /\ after # None
    /\ \A s \in Steps : ValidStepTransition(before.steps[s], after.steps[s])
    /\ before.review = "pass" => after.review = "pass"
    /\ before.status = "completed" => after = before

WorkIsKept == [][\A r \in Rooms : task[r] # None => Kept(task[r], task'[r])]_vars
=============================================================================
