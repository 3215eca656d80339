------------------------------ MODULE MCStores ------------------------------
(* What many clients share behind one lock or one queue: three stores of    *)
(* all Gateways, and the desktop of one.  A behaviour changes one of these  *)
(* and leaves the others as they began.                                     *)
(*   skills: three packages, two of which declare the same version          *)
(*   tasks: one room whose task has two steps                               *)
(*   rooms: three ids for at most two rooms, two workspaces, tasks without  *)
(*     steps, and more handles than a room keeps                            *)
(*   artifacts: a budget that two of three payloads may exceed              *)
(*   desktop: two windows, one call at a time                               *)
(*   leased: two calls, one window, which may be on an Agent Desktop        *)
EXTENDS SkillStore, Naturals, Sequences, TLC

CONSTANTS c1, c2, r0, r1, r2, r3, w1, w2, s1, s2, d1, d2, d3, a1, a2, a3, x1, x2, l1

VARIABLES
    instance, call2, lock2, room, issued, task, contextsLock, tasksLock, entry,
    shown, idOf, ids, generation, globalGeneration, record, observations, queue, started,
    changes, inputs

rooms == <<room, issued, task, contextsLock, tasksLock>>
desktop ==
    <<shown, idOf, ids, generation, globalGeneration, record, observations, queue, started,
      changes, inputs>>

T == INSTANCE TaskRooms WITH
        call <- call2, Rooms <- {r0}, Workspaces <- {w1}, Steps <- {s1, s2},
        PhaseOf <- (s1 :> "execute" @@ s2 :> "closeout"),
        MaxContexts <- 1, MaxCapabilities <- 1, MaxHandles <- 2

R == INSTANCE TaskRooms WITH
        call <- call2, Rooms <- {r1, r2, r3}, Workspaces <- {w1, w2}, Steps <- {},
        PhaseOf <- <<>>,
        MaxContexts <- 2, MaxCapabilities <- 2, MaxHandles <- 3

A == INSTANCE ArtifactStore WITH
        call <- call2, lock <- lock2, Artifacts <- {a1, a2, a3},
        MaxBytes <- 3, Sizes <- {1, 2, 3}

D == INSTANCE ComputerUse WITH
        call <- call2, Calls <- {c1}, Windows <- {x1, x2}, HeldLeases <- {},
        MaxIds <- 2, MaxObservations <- 2, MaxCalls <- 4

L == INSTANCE ComputerUse WITH
        call <- call2, Windows <- {x1}, HeldLeases <- {l1},
        MaxIds <- 1, MaxObservations <- 2, MaxCalls <- 4

ASSUME StoresParameters ==
    /\ SkillAssumption /\ T!RoomsAssumption /\ R!RoomsAssumption
    /\ A!ArtifactAssumption /\ D!ComputerAssumption /\ L!ComputerAssumption

declared == d1 :> None @@ d2 :> 1 @@ d3 :> 1

NoRooms == room = None /\ issued = None /\ task = <<>> /\ contextsLock = None /\ tasksLock = None
NoDesktop ==
    /\ shown = None /\ idOf = None /\ ids = None /\ generation = None /\ globalGeneration = None
    /\ record = None /\ observations = None /\ queue = None /\ started = None
    /\ changes = None /\ inputs = None

MCInit ==
    /\ Init
    /\ \/ /\ instance = "skills" /\ call2 = None /\ lock2 = None
          /\ NoRooms /\ entry = None /\ NoDesktop
       \/ /\ (instance = "tasks" /\ T!Init) \/ (instance = "rooms" /\ R!Init)
          /\ lock2 = None /\ entry = None /\ NoDesktop
       \/ instance = "artifacts" /\ A!Init /\ NoRooms /\ NoDesktop
       \/ /\ (instance = "desktop" /\ D!Init) \/ (instance = "leased" /\ L!Init)
          /\ lock2 = None /\ NoRooms /\ entry = None

MCNext ==
    /\ UNCHANGED instance
    /\ \/ instance = "skills" /\ Next /\ UNCHANGED <<call2, lock2, rooms, entry, desktop>>
       \/ instance = "tasks" /\ T!Next /\ UNCHANGED <<vars, lock2, entry, desktop>>
       \/ instance = "rooms" /\ R!Next /\ UNCHANGED <<vars, lock2, entry, desktop>>
       \/ instance = "artifacts" /\ A!Next /\ UNCHANGED <<vars, rooms, desktop>>
       \/ instance = "desktop" /\ D!Next /\ UNCHANGED <<vars, lock2, rooms, entry>>
       \/ instance = "leased" /\ L!Next /\ UNCHANGED <<vars, lock2, rooms, entry>>

MCSpec == MCInit /\ [][MCNext]_<<instance, vars, call2, lock2, rooms, entry, desktop>>

(* Of the calls and the ids of rooms, which save the most.                  *)
symmetry == Permutations({c1, c2}) \cup Permutations({r1, r2, r3})

(* The type invariants of all stores.                                       *)
TypesOK ==
    /\ TypeOK
    /\ instance = "tasks" => T!TypeOK
    /\ instance = "rooms" => R!TypeOK
    /\ instance = "artifacts" => A!TypeOK
    /\ instance = "desktop" => D!TypeOK
    /\ instance = "leased" => L!TypeOK

(* Rooms stay within the limit of the list, and the latest handles open.    *)
RoomsReachable ==
    /\ instance = "tasks" => T!RoomsReachable
    /\ instance = "rooms" => R!RoomsReachable

(* A task completes only with a passed review and every step completed.     *)
CompletionIsEarned ==
    /\ instance = "tasks" => T!CompletionIsEarned
    /\ instance = "rooms" => R!CompletionIsEarned

(* No step, review or completion that was recorded is lost.                 *)
WorkIsKept ==
    [][\A r \in DOMAIN task : task[r] # None =>
          IF instance = "tasks" THEN T!Kept(task[r], task'[r])
          ELSE R!Kept(task[r], task'[r])]_<<instance, T!vars>>

(* Published artifacts stay within the budget, and no other call removes a  *)
(* directory that a publication fills.                                      *)
ArtifactsAreSound ==
    instance = "artifacts" => A!WithinBudget /\ A!PublicationUndisturbed

(* An act on a window follows an observation made after everything that was *)
(* attempted on the window and after all global input.                      *)
ActsOnWhatWasSeen ==
    /\ instance = "desktop" => D!ActsOnWhatWasSeen
    /\ instance = "leased" => L!ActsOnWhatWasSeen
=============================================================================
