------------------------------ MODULE MCProofs ------------------------------
(***************************************************************************)
(* What the runs MCStores, MCFileTools and MCProcessSessions check, proved *)
(* of the same specifications.  Each of their instances is one of the      *)
(* modules that StoresProofs, DesktopProofs and ProcessProofs are about,   *)
(* with the values of a run for its constants, so each proof has three     *)
(* parts:                                                                  *)
(*   - an instance of the proof module with these values and the run's     *)
(*     variables, whose lemmas then speak of this instance;                *)
(*   - a lemma ...Agrees: the two copies of the module, the run's and the  *)
(*     proof module's, define the same (a name is expanded in both);       *)
(*   - the run's invariant: in each instance the inductive invariant of    *)
(*     its module holds, and no step leaves the instance it began in.      *)
(* What is here proved for c1, c2, ... holds for every value of these      *)
(* constants that a run may choose; the sizes are those of the runs, and   *)
(* the theorems of the proof modules hold for every other.                 *)
(***************************************************************************)
EXTENDS MCStores, MCFileTools, MCProcessSessions, TLAPS

(* The stores and file tools: one room whose task has steps and Gateways    *)
(* that share a file; many rooms and moves.                                *)
S1 == INSTANCE StoresProofs WITH
        None <- Nothing, queue <- mutexes, lock <- fileLock, call <- fileCall,
        issued <- issuedCaps, started <- begun, faults <- failed,
        NoValue <- None, skillLock <- lock, skillCall <- call, handlesIssued <- issued,
        roomCall <- call2, artifactLock <- lock2, artifactCall <- call2,
        Artifacts <- {a1, a2, a3}, MaxBytes <- 3, Sizes <- {1, 2, 3},
        Rooms <- {r0}, Workspaces <- {w1}, Steps <- {s1, s2},
        PhaseOf <- (s1 :> "execute" @@ s2 :> "closeout"),
        MaxContexts <- 1, MaxCapabilities <- 1, MaxHandles <- 2,
        Gateway <- {g1, g2}, Call <- {f1, f2}, GatewayOf <- f1 :> g1 @@ f2 :> g2,
        Unlocked <- {}, NFiles <- 1, Content <- {text1, text2}, Initially <- <<text1>>,
        CrossDevice <- FALSE, MaxEntries <- 2, MaxCalls <- 4, MaxFaults <- 1,
        MaxCrashes <- 1

S2 == INSTANCE StoresProofs WITH
        None <- Nothing, queue <- mutexes, lock <- fileLock, call <- fileCall,
        issued <- issuedCaps, started <- begun, faults <- failed,
        NoValue <- None, skillLock <- lock, skillCall <- call, handlesIssued <- issued,
        roomCall <- call2, artifactLock <- lock2, artifactCall <- call2,
        Artifacts <- {a1, a2, a3}, MaxBytes <- 3, Sizes <- {1, 2, 3},
        Rooms <- {r1, r2, r3}, Workspaces <- {w1, w2}, Steps <- {}, PhaseOf <- <<>>,
        MaxContexts <- 2, MaxCapabilities <- 2, MaxHandles <- 3,
        Gateway <- {g1, g2}, Call <- {f1, f2, f3},
        GatewayOf <- f1 :> g1 @@ f2 :> g1 @@ f3 :> g2,
        Unlocked <- {g2}, NFiles <- 2, Content <- {text1}, Initially <- <<text1, Gone>>,
        CrossDevice <- FALSE, MaxEntries <- 2, MaxCalls <- 3, MaxFaults <- 0,
        MaxCrashes <- 0

(* The desktops; the part about AgentDesktop is not used.                  *)
U1 == INSTANCE DesktopProofs WITH
        tool <- call2, Calls <- {c1}, Windows <- {x1, x2}, HeldLeases <- {},
        MaxIds <- 2, MaxObservations <- 2, MaxCalls <- 4,
        Desktops <- {}, MaxNumber <- 0, MaxLeases <- 0, MaxRenumberings <- 0,
        number <- 0, bindings <- 0, control <- 0, hud <- 0, panel <- 0, next <- 0,
        displaced <- 0, unheld <- 0, renumberings <- 0

U2 == INSTANCE DesktopProofs WITH
        tool <- call2, Windows <- {x1}, HeldLeases <- {l1},
        MaxIds <- 1, MaxObservations <- 2, MaxCalls <- 4,
        Desktops <- {}, MaxNumber <- 0, MaxLeases <- 0, MaxRenumberings <- 0,
        number <- 0, bindings <- 0, control <- 0, hud <- 0, panel <- 0, next <- 0,
        displaced <- 0, unheld <- 0, renumberings <- 0

-----------------------------------------------------------------------------
(* MCStores.                                                               *)

(* The skill store.                                                        *)
LEMMA SkillsAgree ==
    /\ S1!Skills!SkillAssumption
    /\ Init => S1!Skills!Init
    /\ Next => S1!Skills!Next
    /\ S1!Skills!TypeOK => TypeOK
    /\ S1!Skills!RegistryIsSound => RegistryIsSound
  BY StoresParameters, Zenon
  DEF
    vars, SkillAssumption, Versions, Registry, Empty, Call, Idle, TypeOK, Init, At,
    Step, Return, Intact, Acquire, Load, WithActive, Conflict, InstallKnown,
    MovePackage, RegisterVersion, RegistrationFails, RemovePackage, Activate, Rollback,
    Fails, Dies, Edit, Next, RegistryIsSound, S1!Skills!vars, S1!Skills!SkillAssumption,
    S1!Skills!Versions, S1!Skills!Registry, S1!Skills!Empty, S1!Skills!Call,
    S1!Skills!Idle, S1!Skills!TypeOK, S1!Skills!Init, S1!Skills!At, S1!Skills!Step,
    S1!Skills!Return, S1!Skills!Intact, S1!Skills!Acquire, S1!Skills!Load,
    S1!Skills!WithActive, S1!Skills!Conflict, S1!Skills!InstallKnown,
    S1!Skills!MovePackage, S1!Skills!RegisterVersion, S1!Skills!RegistrationFails,
    S1!Skills!RemovePackage, S1!Skills!Activate, S1!Skills!Rollback, S1!Skills!Fails,
    S1!Skills!Dies, S1!Skills!Edit, S1!Skills!Next, S1!Skills!RegistryIsSound

(* The room whose task has two steps.                                      *)
LEMMA TasksAgree ==
    /\ S1!T!RoomsAssumption
    /\ T!Init => S1!T!Init
    /\ T!Next => S1!T!Next
    /\ S1!T!TypeOK => T!TypeOK
    /\ S1!T!RoomsReachable => T!RoomsReachable
    /\ S1!T!CompletionIsEarned => T!CompletionIsEarned
    /\ \A before, after : S1!T!Kept(before, after) => T!Kept(before, after)
  BY StoresParameters, Zenon
  DEF
    T!vars, T!Phases, T!Progress, T!Changes, T!Room, T!Task, T!Call, T!RoomsAssumption,
    T!Absent, T!Idle, T!Directories, T!LatestHandles, T!TypeOK, T!Init, T!At, T!Return,
    T!CreateContext, T!MakeDirectory, T!ReattachContext, T!SaveContext, T!Access,
    T!Load, T!Leave, T!Save, T!Loaded, T!CreateTask, T!ValidStepTransition,
    T!Checkpointed, T!CheckpointOpen, T!CheckpointStep, T!CheckpointBatch, T!Block,
    T!Resume, T!FinalReview, T!Complete, T!Fails, T!ChangeContexts, T!ChangeTask,
    T!Next, T!RoomsReachable, T!CompletionIsEarned, T!Kept, T!Cardinality, S1!T!vars,
    S1!T!Phases, S1!T!Progress, S1!T!Changes, S1!T!Room, S1!T!Task, S1!T!Call,
    S1!T!RoomsAssumption, S1!T!Absent, S1!T!Idle, S1!T!Directories, S1!T!LatestHandles,
    S1!T!TypeOK, S1!T!Init, S1!T!At, S1!T!Return, S1!T!CreateContext,
    S1!T!MakeDirectory, S1!T!ReattachContext, S1!T!SaveContext, S1!T!Access, S1!T!Load,
    S1!T!Leave, S1!T!Save, S1!T!Loaded, S1!T!CreateTask, S1!T!ValidStepTransition,
    S1!T!Checkpointed, S1!T!CheckpointOpen, S1!T!CheckpointStep, S1!T!CheckpointBatch,
    S1!T!Block, S1!T!Resume, S1!T!FinalReview, S1!T!Complete, S1!T!Fails,
    S1!T!ChangeContexts, S1!T!ChangeTask, S1!T!Next, S1!T!RoomsReachable,
    S1!T!CompletionIsEarned, S1!T!Kept, S1!T!Cardinality

(* Three ids for at most two rooms.                                        *)
LEMMA RoomsAgree ==
    /\ S2!T!RoomsAssumption
    /\ R!Init => S2!T!Init
    /\ R!Next => S2!T!Next
    /\ S2!T!TypeOK => R!TypeOK
    /\ S2!T!RoomsReachable => R!RoomsReachable
    /\ S2!T!CompletionIsEarned => R!CompletionIsEarned
    /\ \A before, after : S2!T!Kept(before, after) => R!Kept(before, after)
  BY StoresParameters, Zenon
  DEF
    R!vars, R!Phases, R!Progress, R!Changes, R!Room, R!Task, R!Call, R!RoomsAssumption,
    R!Absent, R!Idle, R!Directories, R!LatestHandles, R!TypeOK, R!Init, R!At, R!Return,
    R!CreateContext, R!MakeDirectory, R!ReattachContext, R!SaveContext, R!Access,
    R!Load, R!Leave, R!Save, R!Loaded, R!CreateTask, R!ValidStepTransition,
    R!Checkpointed, R!CheckpointOpen, R!CheckpointStep, R!CheckpointBatch, R!Block,
    R!Resume, R!FinalReview, R!Complete, R!Fails, R!ChangeContexts, R!ChangeTask,
    R!Next, R!RoomsReachable, R!CompletionIsEarned, R!Kept, R!Cardinality, S2!T!vars,
    S2!T!Phases, S2!T!Progress, S2!T!Changes, S2!T!Room, S2!T!Task, S2!T!Call,
    S2!T!RoomsAssumption, S2!T!Absent, S2!T!Idle, S2!T!Directories, S2!T!LatestHandles,
    S2!T!TypeOK, S2!T!Init, S2!T!At, S2!T!Return, S2!T!CreateContext,
    S2!T!MakeDirectory, S2!T!ReattachContext, S2!T!SaveContext, S2!T!Access, S2!T!Load,
    S2!T!Leave, S2!T!Save, S2!T!Loaded, S2!T!CreateTask, S2!T!ValidStepTransition,
    S2!T!Checkpointed, S2!T!CheckpointOpen, S2!T!CheckpointStep, S2!T!CheckpointBatch,
    S2!T!Block, S2!T!Resume, S2!T!FinalReview, S2!T!Complete, S2!T!Fails,
    S2!T!ChangeContexts, S2!T!ChangeTask, S2!T!Next, S2!T!RoomsReachable,
    S2!T!CompletionIsEarned, S2!T!Kept, S2!T!Cardinality

(* The artifact store.                                                     *)
LEMMA ArtifactsAgree ==
    /\ S1!A!ArtifactAssumption
    /\ A!Init => S1!A!Init
    /\ A!Next => S1!A!Next
    /\ S1!A!TypeOK => A!TypeOK
    /\ S1!A!WithinBudget => A!WithinBudget
    /\ S1!A!PublicationUndisturbed => A!PublicationUndisturbed
  BY StoresParameters, Zenon
  DEF
    A!vars, A!ArtifactAssumption, A!Entry, A!Absent, A!Call, A!Idle, A!TypeOK, A!Init,
    A!Step, A!Return, A!Present, A!Bytes, A!Acquire, A!Removals, A!Clean, A!Cleaned,
    A!Admit, A!MakeDirectory, A!CopyPayload, A!WriteMetadata, A!PublishFails, A!Abandon,
    A!Delete, A!Fails, A!Dies, A!Expire, A!Next, A!WithinBudget,
    A!PublicationUndisturbed, A!MapThenSumSet, A!MapThenFoldSet, S1!A!vars,
    S1!A!ArtifactAssumption, S1!A!Entry, S1!A!Absent, S1!A!Call, S1!A!Idle, S1!A!TypeOK,
    S1!A!Init, S1!A!Step, S1!A!Return, S1!A!Present, S1!A!Bytes, S1!A!Acquire,
    S1!A!Removals, S1!A!Clean, S1!A!Cleaned, S1!A!Admit, S1!A!MakeDirectory,
    S1!A!CopyPayload, S1!A!WriteMetadata, S1!A!PublishFails, S1!A!Abandon, S1!A!Delete,
    S1!A!Fails, S1!A!Dies, S1!A!Expire, S1!A!Next, S1!A!WithinBudget,
    S1!A!PublicationUndisturbed, S1!A!MapThenSumSet, S1!A!MapThenFoldSet

(* The desktop with two windows.                                           *)
LEMMA DesktopAgrees ==
    /\ U1!U!ComputerAssumption
    /\ D!Init => U1!U!Init
    /\ D!Next => U1!U!Next
    /\ U1!U!TypeOK => D!TypeOK
    /\ U1!U!ActsOnWhatWasSeen => D!ActsOnWhatWasSeen
  BY StoresParameters, Zenon
  DEF
    D!known, D!observed, D!generations, D!calls, D!history, D!vars,
    D!ComputerAssumption, D!Ids, D!Observations, D!Saw, D!Record, D!Call, D!Unseen,
    D!Idle, D!Running, D!TypeOK, D!Init, D!Step, D!Return, D!Invoke, D!ListWindows,
    D!IssueIds, D!Offer, D!Named, D!Unresolved, D!Observe, D!Snapshot, D!Inspected,
    D!Fits, D!Advanced, D!Refuse, D!Consume, D!OnLease, D!Attempted, D!Act, D!ActFails,
    D!ForgetWindow, D!ObserveAfter, D!ObserveNothing, D!Fails, D!Prune, D!ScreenChanges,
    D!Next, D!ActsOnWhatWasSeen, U1!U!known, U1!U!observed, U1!U!generations,
    U1!U!calls, U1!U!history, U1!U!vars, U1!U!ComputerAssumption, U1!U!Ids,
    U1!U!Observations, U1!U!Saw, U1!U!Record, U1!U!Call, U1!U!Unseen, U1!U!Idle,
    U1!U!Running, U1!U!TypeOK, U1!U!Init, U1!U!Step, U1!U!Return, U1!U!Invoke,
    U1!U!ListWindows, U1!U!IssueIds, U1!U!Offer, U1!U!Named, U1!U!Unresolved,
    U1!U!Observe, U1!U!Snapshot, U1!U!Inspected, U1!U!Fits, U1!U!Advanced, U1!U!Refuse,
    U1!U!Consume, U1!U!OnLease, U1!U!Attempted, U1!U!Act, U1!U!ActFails,
    U1!U!ForgetWindow, U1!U!ObserveAfter, U1!U!ObserveNothing, U1!U!Fails, U1!U!Prune,
    U1!U!ScreenChanges, U1!U!Next, U1!U!ActsOnWhatWasSeen

(* The desktop with leases.                                                *)
LEMMA LeasedAgrees ==
    /\ U2!U!ComputerAssumption
    /\ L!Init => U2!U!Init
    /\ L!Next => U2!U!Next
    /\ U2!U!TypeOK => L!TypeOK
    /\ U2!U!ActsOnWhatWasSeen => L!ActsOnWhatWasSeen
  BY StoresParameters, Zenon
  DEF
    L!known, L!observed, L!generations, L!calls, L!history, L!vars,
    L!ComputerAssumption, L!Ids, L!Observations, L!Saw, L!Record, L!Call, L!Unseen,
    L!Idle, L!Running, L!TypeOK, L!Init, L!Step, L!Return, L!Invoke, L!ListWindows,
    L!IssueIds, L!Offer, L!Named, L!Unresolved, L!Observe, L!Snapshot, L!Inspected,
    L!Fits, L!Advanced, L!Refuse, L!Consume, L!OnLease, L!Attempted, L!Act, L!ActFails,
    L!ForgetWindow, L!ObserveAfter, L!ObserveNothing, L!Fails, L!Prune, L!ScreenChanges,
    L!Next, L!ActsOnWhatWasSeen, U2!U!known, U2!U!observed, U2!U!generations,
    U2!U!calls, U2!U!history, U2!U!vars, U2!U!ComputerAssumption, U2!U!Ids,
    U2!U!Observations, U2!U!Saw, U2!U!Record, U2!U!Call, U2!U!Unseen, U2!U!Idle,
    U2!U!Running, U2!U!TypeOK, U2!U!Init, U2!U!Step, U2!U!Return, U2!U!Invoke,
    U2!U!ListWindows, U2!U!IssueIds, U2!U!Offer, U2!U!Named, U2!U!Unresolved,
    U2!U!Observe, U2!U!Snapshot, U2!U!Inspected, U2!U!Fits, U2!U!Advanced, U2!U!Refuse,
    U2!U!Consume, U2!U!OnLease, U2!U!Attempted, U2!U!Act, U2!U!ActFails,
    U2!U!ForgetWindow, U2!U!ObserveAfter, U2!U!ObserveNothing, U2!U!Fails, U2!U!Prune,
    U2!U!ScreenChanges, U2!U!Next, U2!U!ActsOnWhatWasSeen

(* The invariant of MCStores: of skills in every instance, whose store it  *)
(* leaves alone, and of each other store in its own.                       *)
StoresInv ==
    /\ S1!SkillInv
    /\ instance = "tasks" => S1!RoomsInv
    /\ instance = "rooms" => S2!RoomsInv
    /\ instance = "artifacts" => S1!ArtifactsInv /\ S1!BudgetInv
    /\ instance = "desktop" => U1!U!IInv
    /\ instance = "leased" => U2!U!IInv
    /\ instance \notin {"tasks", "rooms"} => task = <<>>

(* MCStores begins with it.                                                *)
LEMMA StoresInit == MCInit => StoresInv
<1> SUFFICES ASSUME MCInit PROVE StoresInv
  OBVIOUS
<1>1. S1!SkillInv
  BY SkillsAgree, S1!SkillInit DEF MCInit
<1>2. instance = "tasks" => S1!RoomsInv
  BY TasksAgree, S1!RoomsInit DEF MCInit
<1>3. instance = "rooms" => S2!RoomsInv
  BY RoomsAgree, S2!RoomsInit DEF MCInit
<1>4. instance = "artifacts" => S1!ArtifactsInv /\ S1!BudgetInv
  BY ArtifactsAgree, S1!ArtifactsInit, S1!BudgetInit DEF MCInit
<1>5. instance = "desktop" => U1!U!IInv
  BY DesktopAgrees, U1!ComputerInit DEF MCInit
<1>6. instance = "leased" => U2!U!IInv
  BY LeasedAgrees, U2!ComputerInit DEF MCInit
<1>7. instance \notin {"tasks", "rooms"} => task = <<>>
  BY DEF MCInit, NoRooms
<1> QED BY <1>1, <1>2, <1>3, <1>4, <1>5, <1>6, <1>7 DEF StoresInv

(* The subscript of MCSpec.                                                *)
storesVars == <<instance, vars, call2, lock2, rooms, entry, desktop>>

(* Every step keeps it.                                                    *)
LEMMA StoresStep == StoresInv /\ [MCNext]_storesVars => StoresInv'
<1> SUFFICES ASSUME StoresInv, [MCNext]_storesVars PROVE StoresInv'
  OBVIOUS
<1>0. instance' = instance
  BY DEF MCNext, storesVars
<1>1. S1!SkillInv'
  <2>1. [S1!Skills!Next]_(S1!Skills!vars)
    BY SkillsAgree DEF MCNext, storesVars, vars, S1!Skills!vars
  <2> QED BY <2>1, SkillsAgree, S1!SkillStep DEF StoresInv
<1>2. ASSUME instance = "tasks" PROVE S1!RoomsInv'
  <2>1. [S1!T!Next]_(S1!T!vars)
    BY <1>2, TasksAgree DEF MCNext, storesVars, rooms, S1!T!vars
  <2> QED BY <1>2, <2>1, TasksAgree, S1!RoomsStep DEF StoresInv
<1>3. ASSUME instance = "rooms" PROVE S2!RoomsInv'
  <2>1. [S2!T!Next]_(S2!T!vars)
    BY <1>3, RoomsAgree DEF MCNext, storesVars, rooms, S2!T!vars
  <2> QED BY <1>3, <2>1, RoomsAgree, S2!RoomsStep DEF StoresInv
<1>4. ASSUME instance = "artifacts" PROVE S1!ArtifactsInv' /\ S1!BudgetInv'
  <2>1. [S1!A!Next]_(S1!A!vars)
    BY <1>4, ArtifactsAgree DEF MCNext, storesVars, S1!A!vars
  <2> QED BY <1>4, <2>1, ArtifactsAgree, S1!ArtifactsStep, S1!BudgetStep DEF StoresInv
<1>5. ASSUME instance = "desktop" PROVE U1!U!IInv'
  <2>1. [U1!U!Next]_(U1!U!vars)
    BY <1>5, DesktopAgrees
       DEF MCNext, storesVars, desktop, U1!U!vars, U1!U!known, U1!U!generations,
           U1!U!observed, U1!U!calls, U1!U!history
  <2> QED BY <1>5, <2>1, DesktopAgrees, U1!ComputerStep DEF StoresInv
<1>6. ASSUME instance = "leased" PROVE U2!U!IInv'
  <2>1. [U2!U!Next]_(U2!U!vars)
    BY <1>6, LeasedAgrees
       DEF MCNext, storesVars, desktop, U2!U!vars, U2!U!known, U2!U!generations,
           U2!U!observed, U2!U!calls, U2!U!history
  <2> QED BY <1>6, <2>1, LeasedAgrees, U2!ComputerStep DEF StoresInv
<1>7. instance \notin {"tasks", "rooms"} => task' = task
  BY DEF MCNext, storesVars, rooms
<1> QED BY <1>0, <1>1, <1>2, <1>3, <1>4, <1>5, <1>6, <1>7 DEF StoresInv

(* Every reachable state of MCStores has the invariants of its stores.     *)
LEMMA StoresInvariant == MCSpec => []StoresInv
  BY StoresInit, StoresStep, PTL DEF MCSpec, storesVars

(* The stores, their locks and calls keep their types: a lock is held by   *)
(* the one call that is under way with it, no two windows share a          *)
(* capability, and no store exceeds what it is allowed (skill-store.ts,    *)
(* task-context.ts, artifact-store.ts, computer-use-registry.ts).          *)
THEOREM StoresTypes == MCSpec => []TypesOK
<1>1. StoresInv => TypeOK
  BY SkillsAgree DEF StoresInv, S1!SkillInv
<1>2. StoresInv /\ instance = "tasks" => T!TypeOK
  BY TasksAgree DEF StoresInv, S1!RoomsInv
<1>3. StoresInv /\ instance = "rooms" => R!TypeOK
  BY RoomsAgree DEF StoresInv, S2!RoomsInv
<1>4. StoresInv /\ instance = "artifacts" => A!TypeOK
  BY ArtifactsAgree DEF StoresInv, S1!ArtifactsInv
<1>5. StoresInv /\ instance = "desktop" => D!TypeOK
  BY DesktopAgrees DEF StoresInv, U1!U!IInv
<1>6. StoresInv /\ instance = "leased" => L!TypeOK
  BY LeasedAgrees DEF StoresInv, U2!U!IInv
<1>7. StoresInv => TypesOK
  BY <1>1, <1>2, <1>3, <1>4, <1>5, <1>6 DEF TypesOK
<1> QED BY <1>7, StoresInvariant, PTL

(* The skill registry that MCStores checks names only versions with a      *)
(* package, whatever fails or dies (skill-store.ts, install, activate and  *)
(* rollback).                                                              *)
THEOREM StoresRegistryIsSound == MCSpec => []RegistryIsSound
<1>1. StoresInv => RegistryIsSound
  BY SkillsAgree DEF StoresInv, S1!SkillInv
<1> QED BY <1>1, StoresInvariant, PTL

(* The list of rooms stays within MAX_CONTEXTS, and the latest handles of  *)
(* a room open it, although calls of all Gateways create and reattach      *)
(* (task-context.ts, createContext and reattachContext).                   *)
THEOREM StoresRoomsReachable == MCSpec => []RoomsReachable
<1>1. StoresInv /\ instance = "tasks" => T!RoomsReachable
  BY TasksAgree, S1!RoomsOpen DEF StoresInv
<1>2. StoresInv /\ instance = "rooms" => R!RoomsReachable
  BY RoomsAgree, S2!RoomsOpen DEF StoresInv
<1>3. StoresInv => RoomsReachable
  BY <1>1, <1>2 DEF RoomsReachable
<1> QED BY <1>3, StoresInvariant, PTL

(* A completed task has a passed review and every step completed, whatever *)
(* batches, reviews and blocks of concurrent calls came before             *)
(* (task-state.ts, checkpoint and complete).                               *)
THEOREM StoresCompletionIsEarned == MCSpec => []CompletionIsEarned
<1>1. StoresInv /\ instance = "tasks" => T!CompletionIsEarned
  BY TasksAgree DEF StoresInv, S1!RoomsInv
<1>2. StoresInv /\ instance = "rooms" => R!CompletionIsEarned
  BY RoomsAgree DEF StoresInv, S2!RoomsInv
<1>3. StoresInv => CompletionIsEarned
  BY <1>1, <1>2 DEF CompletionIsEarned
<1> QED BY <1>3, StoresInvariant, PTL

(* No step of any call takes back a recorded step, review or completion of *)
(* a task: the task that a call saves was loaded under the lock that it    *)
(* still holds (task-state.ts, mutate).                                    *)
THEOREM StoresKeepWork == MCSpec => WorkIsKept
<1> DEFINE KeptNow == \A r \in DOMAIN task : task[r] # None =>
              IF instance = "tasks" THEN T!Kept(task[r], task'[r])
              ELSE R!Kept(task[r], task'[r])
<1>1. StoresInv /\ [MCNext]_storesVars => KeptNow
  <2> SUFFICES ASSUME StoresInv, [MCNext]_storesVars, NEW r \in DOMAIN task, task[r] # None
               PROVE  IF instance = "tasks" THEN T!Kept(task[r], task'[r])
                      ELSE R!Kept(task[r], task'[r])
    OBVIOUS
  <2>1. CASE instance = "tasks"
    <3>1. [S1!T!Next]_(S1!T!vars)
      BY <2>1, TasksAgree DEF MCNext, storesVars, rooms, S1!T!vars
    <3>2. r \in {r0}
      BY <2>1 DEF StoresInv, S1!RoomsInv, S1!T!TypeOK
    <3>3. S1!T!Kept(task[r], task'[r])
      BY <2>1, <3>1, <3>2, TasksAgree, S1!RoomsKeepWork DEF StoresInv
    <3> QED BY <2>1, <3>3, TasksAgree
  <2>2. CASE instance = "rooms"
    <3>1. [S2!T!Next]_(S2!T!vars)
      BY <2>2, RoomsAgree DEF MCNext, storesVars, rooms, S2!T!vars
    <3>2. r \in {r1, r2, r3}
      BY <2>2 DEF StoresInv, S2!RoomsInv, S2!T!TypeOK
    <3>3. S2!T!Kept(task[r], task'[r])
      BY <2>2, <3>1, <3>2, RoomsAgree, S2!RoomsKeepWork DEF StoresInv
    <3> QED BY <2>2, <3>3, RoomsAgree
  <2>3. CASE instance \notin {"tasks", "rooms"}
    BY <2>3 DEF StoresInv
  <2> QED BY <2>1, <2>2, <2>3
<1>2. StoresInv /\ [MCNext]_storesVars => [KeptNow]_<<instance, T!vars>>
  BY <1>1
<1> QED BY <1>2, StoresInvariant, PTL DEF MCSpec, storesVars, WorkIsKept

(* What is published stays within maxStoreBytes, and no cleanup or         *)
(* deletion by another call removes the directory that a publication is    *)
(* filling (artifact-store.ts, assertCapacityLocked, publishFromPath and   *)
(* cleanup).                                                               *)
THEOREM StoresArtifactsAreSound == MCSpec => []ArtifactsAreSound
<1>1. StoresInv /\ instance = "artifacts" => A!WithinBudget /\ A!PublicationUndisturbed
  BY ArtifactsAgree, S1!BudgetBounds
     DEF StoresInv, S1!ArtifactsInv, S1!Fills, S1!A!PublicationUndisturbed
<1>2. StoresInv => ArtifactsAreSound
  BY <1>1 DEF ArtifactsAreSound
<1> QED BY <1>2, StoresInvariant, PTL

(* An act on a window follows an observation that its client made after    *)
(* everything attempted on the window and after all global input, with or  *)
(* without an Agent Desktop (computer-use-tools.ts, desktop_ui_action;     *)
(* computer-use-registry.ts, exclusive).                                   *)
THEOREM StoresActOnWhatWasSeen == MCSpec => []ActsOnWhatWasSeen
<1>1. StoresInv /\ instance = "desktop" => D!ActsOnWhatWasSeen
  BY DesktopAgrees
     DEF StoresInv, U1!U!IInv, U1!U!ActsSound, U1!U!ActsOnWhatWasSeen, U1!U!Sees
<1>2. StoresInv /\ instance = "leased" => L!ActsOnWhatWasSeen
  BY LeasedAgrees
     DEF StoresInv, U2!U!IInv, U2!U!ActsSound, U2!U!ActsOnWhatWasSeen, U2!U!Sees
<1>3. StoresInv => ActsOnWhatWasSeen
  BY <1>1, <1>2 DEF ActsOnWhatWasSeen
<1> QED BY <1>3, StoresInvariant, PTL

-----------------------------------------------------------------------------
(* MCFileTools.                                                            *)

(* Two Gateways that share a file.                                         *)
LEMMA GatewaysAgree ==
    /\ S1!Parameters
    /\ Gateways!Init => S1!Init
    /\ Gateways!Next => S1!Next
    /\ S1!TypeOK => Gateways!TypeOK
    /\ S1!NoLostUpdate => Gateways!NoLostUpdate
  BY FileParameters, Zenon
  DEF
    Gateways!File, Gateways!Data, Gateways!Parameters, Gateways!vars, Gateways!Version,
    Gateways!Capability, Gateways!Spent, Gateways!Tool, Gateways!Idle, Gateways!DataAt,
    Gateways!Guarded, Gateways!Keys, Gateways!Chain, Gateways!Queued, Gateways!Locked,
    Gateways!Goto, Gateways!Failed, Gateways!Fail, Gateways!Enqueue, Gateways!Write,
    Gateways!Init, Gateways!Read, Gateways!Stat, Gateways!Load, Gateways!Captured,
    Gateways!CaptureFails, Gateways!FirstCapture, Gateways!Show, Gateways!SameVersion,
    Gateways!Issued, Gateways!Bounded, Gateways!Issue, Gateways!Stale,
    Gateways!FirstKey, Gateways!Mutate, Gateways!Admitted, Gateways!Entered,
    Gateways!Lock, Gateways!LockTimeout, Gateways!Without, Gateways!Exists,
    Gateways!Take, Gateways!Fresh, Gateways!Destination, Gateways!AppendTo,
    Gateways!Match, Gateways!Truncate, Gateways!Fill, Gateways!Rename, Gateways!Unlink,
    Gateways!MoveFails, Gateways!Unlock, Gateways!UnlockFails, Gateways!Leave,
    Gateways!Fault, Gateways!Crash, Gateways!Start, Gateways!Progress, Gateways!Next,
    Gateways!Record, Gateways!TypeOK, Gateways!Mutating, Gateways!Checked,
    Gateways!NoLostUpdate, Gateways!Cardinality, Gateways!IsFiniteSet, Gateways!Max,
    Gateways!Min, Gateways!Contains, S1!File, S1!Data, S1!Parameters, S1!vars,
    S1!Version, S1!Capability, S1!Spent, S1!Tool, S1!Idle, S1!DataAt, S1!Guarded,
    S1!Keys, S1!Chain, S1!Queued, S1!Locked, S1!Goto, S1!Failed, S1!Fail, S1!Enqueue,
    S1!Write, S1!Init, S1!Read, S1!Stat, S1!Load, S1!Captured, S1!CaptureFails,
    S1!FirstCapture, S1!Show, S1!SameVersion, S1!Issued, S1!Bounded, S1!Issue, S1!Stale,
    S1!FirstKey, S1!Mutate, S1!Admitted, S1!Entered, S1!Lock, S1!LockTimeout,
    S1!Without, S1!Exists, S1!Take, S1!Fresh, S1!Destination, S1!AppendTo, S1!Match,
    S1!Truncate, S1!Fill, S1!Rename, S1!Unlink, S1!MoveFails, S1!Unlock, S1!UnlockFails,
    S1!Leave, S1!Fault, S1!Crash, S1!Start, S1!Progress, S1!Next, S1!Record, S1!TypeOK,
    S1!Mutating, S1!Checked, S1!NoLostUpdate, S1!Cardinality, S1!IsFiniteSet, S1!Max,
    S1!Min, S1!Contains

(* Moves between two paths.                                                *)
LEMMA MovesAgree ==
    /\ S2!Parameters
    /\ Moves!Init => S2!Init
    /\ Moves!Next => S2!Next
    /\ S2!NoLostUpdate => Moves!NoLostUpdate
    /\ S2!GuardedMoveFindsNoFile => Moves!GuardedMoveFindsNoFile
  BY FileParameters, Zenon
  DEF
    Moves!File, Moves!Data, Moves!Parameters, Moves!vars, Moves!Spent, Moves!Tool,
    Moves!Idle, Moves!DataAt, Moves!Guarded, Moves!Keys, Moves!Chain, Moves!Queued,
    Moves!Locked, Moves!Goto, Moves!Failed, Moves!Fail, Moves!Enqueue, Moves!Write,
    Moves!Init, Moves!Read, Moves!Stat, Moves!Load, Moves!Captured, Moves!CaptureFails,
    Moves!FirstCapture, Moves!Show, Moves!SameVersion, Moves!Issued, Moves!Bounded,
    Moves!Issue, Moves!Stale, Moves!FirstKey, Moves!Mutate, Moves!Admitted,
    Moves!Entered, Moves!Lock, Moves!LockTimeout, Moves!Without, Moves!Exists,
    Moves!Take, Moves!Fresh, Moves!Destination, Moves!AppendTo, Moves!Match,
    Moves!Truncate, Moves!Fill, Moves!Rename, Moves!Unlink, Moves!MoveFails,
    Moves!Unlock, Moves!UnlockFails, Moves!Leave, Moves!Fault, Moves!Crash, Moves!Start,
    Moves!Progress, Moves!Next, Moves!Mutating, Moves!Checked, Moves!NoLostUpdate,
    Moves!Overwrites, Moves!GuardedMoveFindsNoFile, Moves!Cardinality, Moves!Max,
    Moves!Min, Moves!Contains, S2!File, S2!Data, S2!Parameters, S2!vars, S2!Spent,
    S2!Tool, S2!Idle, S2!DataAt, S2!Guarded, S2!Keys, S2!Chain, S2!Queued, S2!Locked,
    S2!Goto, S2!Failed, S2!Fail, S2!Enqueue, S2!Write, S2!Init, S2!Read, S2!Stat,
    S2!Load, S2!Captured, S2!CaptureFails, S2!FirstCapture, S2!Show, S2!SameVersion,
    S2!Issued, S2!Bounded, S2!Issue, S2!Stale, S2!FirstKey, S2!Mutate, S2!Admitted,
    S2!Entered, S2!Lock, S2!LockTimeout, S2!Without, S2!Exists, S2!Take, S2!Fresh,
    S2!Destination, S2!AppendTo, S2!Match, S2!Truncate, S2!Fill, S2!Rename, S2!Unlink,
    S2!MoveFails, S2!Unlock, S2!UnlockFails, S2!Leave, S2!Fault, S2!Crash, S2!Start,
    S2!Progress, S2!Next, S2!Mutating, S2!Checked, S2!NoLostUpdate, S2!Overwrites,
    S2!GuardedMoveFindsNoFile, S2!Cardinality, S2!Max, S2!Min, S2!Contains

(* The invariant of MCFileTools; "live" is the instance for liveness.      *)
FilesInv ==
    /\ fileInstance = "gateways" => S1!IInv
    /\ fileInstance = "moves" => S2!IInv

(* MCFileTools begins with it.                                             *)
LEMMA FilesInit == FileInit => FilesInv
<1> SUFFICES ASSUME FileInit PROVE FilesInv
  OBVIOUS
<1>1. fileInstance = "gateways" => S1!IInv
  BY GatewaysAgree, S1!InitInvariant DEF FileInit
<1>2. fileInstance = "moves" => S2!IInv
  BY MovesAgree, S2!InitInvariant DEF FileInit
<1> QED BY <1>1, <1>2 DEF FilesInv

(* Every step keeps it.                                                    *)
LEMMA FilesStep == FilesInv /\ [FileNext]_<<fileInstance, fileVars>> => FilesInv'
<1> SUFFICES ASSUME FilesInv, [FileNext]_<<fileInstance, fileVars>> PROVE FilesInv'
  OBVIOUS
<1>0. fileInstance' = fileInstance
  BY DEF FileNext
<1>1. ASSUME fileInstance = "gateways" PROVE S1!IInv'
  <2>1. [S1!Next]_(S1!vars)
    BY <1>1, GatewaysAgree DEF FileNext, fileVars, S1!vars
  <2> QED BY <1>1, <2>1, GatewaysAgree, S1!StepInvariant DEF FilesInv
<1>2. ASSUME fileInstance = "moves" PROVE S2!IInv'
  <2>1. [S2!Next]_(S2!vars)
    BY <1>2, MovesAgree DEF FileNext, fileVars, S2!vars
  <2> QED BY <1>2, <2>1, MovesAgree, S2!StepInvariant DEF FilesInv
<1> QED BY <1>0, <1>1, <1>2 DEF FilesInv

(* Every reachable state of MCFileTools has the invariant of its instance. *)
LEMMA FilesInvariant == FileSpec => []FilesInv
  BY FilesInit, FilesStep, PTL DEF FileSpec

(* The capability stores, mutexes and locks of two Gateways keep their     *)
(* types; no store exceeds its limit and no capability is issued twice     *)
(* (observation-store.ts).                                                 *)
THEOREM FileToolsTyped == FileSpec => []FilesTyped
<1>1. FilesInv => FilesTyped
  BY GatewaysAgree DEF FilesInv, FilesTyped, S1!IInv
<1> QED BY <1>1, FilesInvariant, PTL

(* A guarded mutation acts on the version that its client observed and a   *)
(* guarded move overwrites no file, whatever other Gateways, unlocked      *)
(* calls, failures and deaths do meanwhile (observation-store.ts,          *)
(* withObservedMutation, withWriteMutation and withMoveMutation).          *)
THEOREM FileToolsNoLostUpdate == FileSpec => []NoLostUpdate
<1>1. FilesInv /\ fileInstance = "gateways" => Gateways!NoLostUpdate
  BY GatewaysAgree DEF FilesInv, S1!IInv
<1>2. FilesInv /\ fileInstance = "moves" =>
          Moves!NoLostUpdate /\ Moves!GuardedMoveFindsNoFile
  BY MovesAgree DEF FilesInv, S2!IInv
<1>3. FilesInv => NoLostUpdate
  BY <1>1, <1>2 DEF NoLostUpdate
<1> QED BY <1>3, FilesInvariant, PTL

-----------------------------------------------------------------------------
(* MCProcessSessions.                                                      *)

(* What a Gateway starts and must end.                                     *)
P1 == INSTANCE ProcessProofs WITH
        entry <- procEntry, call <- clientCall, None <- Absent,
        Req <- {req1, req2}, Pid <- {pid1, pid2}, Reuse <- "afterClose",
        MayHang <- FALSE, MaySpoof <- FALSE, MayLeave <- FALSE,
        MaxSessions <- 2, MaxTracked <- 2, MaxStarts <- 3,
        Calls <- {req1, req2}, Peers <- {pid1}, Unix <- FALSE,
        MaxConnections <- 2, MaxFaults <- 0

P2 == INSTANCE ProcessProofs WITH
        entry <- procEntry, call <- clientCall, None <- Absent,
        Req <- {req1, req2}, Pid <- {pid1, pid2}, Reuse <- "never",
        MayHang <- TRUE, MaySpoof <- FALSE, MayLeave <- FALSE,
        MaxSessions <- 1, MaxTracked <- 1, MaxStarts <- 2,
        Calls <- {req1}, Peers <- {pid1}, Unix <- TRUE,
        MaxConnections <- 2, MaxFaults <- 1

P3 == INSTANCE ProcessProofs WITH
        entry <- procEntry, call <- clientCall, None <- Absent,
        Req <- {req1}, Pid <- {pid1, pid2}, Reuse <- "never",
        MayHang <- FALSE, MaySpoof <- FALSE, MayLeave <- TRUE,
        MaxSessions <- 2, MaxTracked <- 2, MaxStarts <- 2,
        Calls <- {req1}, Peers <- {pid1}, Unix <- TRUE,
        MaxConnections <- 2, MaxFaults <- 1

(* Pids given again.                                                       *)
LEMMA ReusedAgrees ==
    /\ P1!PidsKept
    /\ Reused!Init => P1!Init
    /\ Reused!Next => P1!Next
    /\ P1!TypeOK => Reused!TypeOK
    /\ P1!ReachesOwnUnlessStarting => Reused!ReachesOwnUnlessStarting
    /\ P1!LiveIsCounted => Reused!LiveIsCounted
    /\ P1!ShutdownKillsAll => Reused!ShutdownKillsAll
  BY ProcessParameters, Zenon
  DEF
    Reused!Parameters, Reused!shutdown, Reused!vars, Reused!Process, Reused!Spawned,
    Reused!Tracked, Reused!Active, Reused!Load, Reused!Keep, Reused!PruneHistory,
    Reused!Completed, Reused!Pruned, Reused!Listed, Reused!Reconciled, Reused!Reconcile,
    Reused!MarkInactive, Reused!Forget, Reused!Register, Reused!Goto, Reused!Go,
    Reused!PidFree, Reused!Init, Reused!Open, Reused!Reserve, Reused!Refuse,
    Reused!Spawn, Reused!Started, Reused!Placed, Reused!Terminate, Reused!Kill,
    Reused!WaitEnds, Reused!WaitExpires, Reused!Waited, Reused!Terminated,
    Reused!Reached, Reused!Read, Reused!Answered, Reused!Shutdown, Reused!CleanupOwned,
    Reused!CloseBackend, Reused!BackendClosed, Reused!Exit, Reused!Closed,
    Reused!Resuming, Reused!Call, Reused!Next, Reused!CallPc, Reused!TypeOK,
    Reused!ReachesOwnUnlessStarting, Reused!LiveIsCounted, Reused!ShutdownKillsAll,
    Reused!Cardinality, Reused!Max, Reused!ToSet, Reused!FoldLeft,
    Reused!MapThenFoldSet, P1!Parameters, P1!shutdown, P1!vars, P1!Process, P1!Spawned,
    P1!Tracked, P1!Active, P1!Load, P1!Keep, P1!PruneHistory, P1!Completed, P1!Pruned,
    P1!Listed, P1!Reconciled, P1!Reconcile, P1!MarkInactive, P1!Forget, P1!Register,
    P1!Goto, P1!Go, P1!PidFree, P1!Init, P1!Open, P1!Reserve, P1!Refuse, P1!Spawn,
    P1!Started, P1!Placed, P1!Terminate, P1!Kill, P1!WaitEnds, P1!WaitExpires,
    P1!Waited, P1!Terminated, P1!Reached, P1!Read, P1!Answered, P1!Shutdown,
    P1!CleanupOwned, P1!CloseBackend, P1!BackendClosed, P1!Exit, P1!Closed, P1!Resuming,
    P1!Call, P1!Next, P1!CallPc, P1!TypeOK, P1!ReachesOwnUnlessStarting,
    P1!LiveIsCounted, P1!ShutdownKillsAll, P1!Cardinality, P1!Max, P1!ToSet,
    P1!FoldLeft, P1!MapThenFoldSet,
    P1!PidsKept

(* A ceiling of one session.                                               *)
LEMMA BoundedAgrees ==
    /\ P2!PidsKept
    /\ Bounded!Init => P2!Init
    /\ Bounded!Next => P2!Next
    /\ P2!TypeOK => Bounded!TypeOK
    /\ P2!Ceiling => Bounded!Ceiling
  BY ProcessParameters, Zenon
  DEF
    Bounded!Parameters, Bounded!shutdown, Bounded!vars, Bounded!Process,
    Bounded!Spawned, Bounded!Tracked, Bounded!Active, Bounded!Load, Bounded!Keep,
    Bounded!PruneHistory, Bounded!Completed, Bounded!Pruned, Bounded!Listed,
    Bounded!Reconciled, Bounded!Reconcile, Bounded!MarkInactive, Bounded!Forget,
    Bounded!Register, Bounded!Goto, Bounded!Go, Bounded!PidFree, Bounded!Init,
    Bounded!Open, Bounded!Reserve, Bounded!Refuse, Bounded!Spawn, Bounded!Started,
    Bounded!Placed, Bounded!Terminate, Bounded!Kill, Bounded!WaitEnds,
    Bounded!WaitExpires, Bounded!Waited, Bounded!Terminated, Bounded!Reached,
    Bounded!Read, Bounded!Answered, Bounded!Shutdown, Bounded!CleanupOwned,
    Bounded!CloseBackend, Bounded!BackendClosed, Bounded!Exit, Bounded!Closed,
    Bounded!Resuming, Bounded!Call, Bounded!Next, Bounded!CallPc, Bounded!TypeOK,
    Bounded!Ceiling, Bounded!Cardinality, Bounded!Max, Bounded!ToSet, Bounded!FoldLeft,
    Bounded!MapThenFoldSet, P2!Parameters, P2!shutdown, P2!vars, P2!Process, P2!Spawned,
    P2!Tracked, P2!Active, P2!Load, P2!Keep, P2!PruneHistory, P2!Completed, P2!Pruned,
    P2!Listed, P2!Reconciled, P2!Reconcile, P2!MarkInactive, P2!Forget, P2!Register,
    P2!Goto, P2!Go, P2!PidFree, P2!Init, P2!Open, P2!Reserve, P2!Refuse, P2!Spawn,
    P2!Started, P2!Placed, P2!Terminate, P2!Kill, P2!WaitEnds, P2!WaitExpires,
    P2!Waited, P2!Terminated, P2!Reached, P2!Read, P2!Answered, P2!Shutdown,
    P2!CleanupOwned, P2!CloseBackend, P2!BackendClosed, P2!Exit, P2!Closed, P2!Resuming,
    P2!Call, P2!Next, P2!CallPc, P2!TypeOK, P2!Ceiling, P2!Cardinality, P2!Max,
    P2!ToSet, P2!FoldLeft, P2!MapThenFoldSet,
    P2!PidsKept

(* A client that goes away.                                                *)
LEMMA LeftAgrees ==
    /\ P3!PidsKept
    /\ Left!Init => P3!Init
    /\ Left!Next => P3!Next
    /\ P3!TypeOK => Left!TypeOK
    /\ P3!ShutdownKillsAll => Left!ShutdownKillsAll
  BY ProcessParameters, Zenon
  DEF
    Left!Parameters, Left!shutdown, Left!vars, Left!Process, Left!Spawned, Left!Tracked,
    Left!Active, Left!Load, Left!Keep, Left!PruneHistory, Left!Completed, Left!Pruned,
    Left!Listed, Left!Reconciled, Left!Reconcile, Left!MarkInactive, Left!Forget,
    Left!Register, Left!Goto, Left!Go, Left!PidFree, Left!Init, Left!Open, Left!Reserve,
    Left!Refuse, Left!Spawn, Left!Started, Left!Placed, Left!Terminate, Left!Kill,
    Left!WaitEnds, Left!WaitExpires, Left!Waited, Left!Terminated, Left!Reached,
    Left!Read, Left!Answered, Left!Shutdown, Left!CleanupOwned, Left!CloseBackend,
    Left!BackendClosed, Left!Exit, Left!Closed, Left!Resuming, Left!Call, Left!Next,
    Left!CallPc, Left!TypeOK, Left!ShutdownKillsAll, Left!Cardinality, Left!Max,
    Left!ToSet, Left!FoldLeft, Left!MapThenFoldSet, P3!Parameters, P3!shutdown, P3!vars,
    P3!Process, P3!Spawned, P3!Tracked, P3!Active, P3!Load, P3!Keep, P3!PruneHistory,
    P3!Completed, P3!Pruned, P3!Listed, P3!Reconciled, P3!Reconcile, P3!MarkInactive,
    P3!Forget, P3!Register, P3!Goto, P3!Go, P3!PidFree, P3!Init, P3!Open, P3!Reserve,
    P3!Refuse, P3!Spawn, P3!Started, P3!Placed, P3!Terminate, P3!Kill, P3!WaitEnds,
    P3!WaitExpires, P3!Waited, P3!Terminated, P3!Reached, P3!Read, P3!Answered,
    P3!Shutdown, P3!CleanupOwned, P3!CloseBackend, P3!BackendClosed, P3!Exit, P3!Closed,
    P3!Resuming, P3!Call, P3!Next, P3!CallPc, P3!TypeOK, P3!ShutdownKillsAll,
    P3!Cardinality, P3!Max, P3!ToSet, P3!FoldLeft, P3!MapThenFoldSet,
    P3!PidsKept

(* A Gateway on Windows.                                                   *)
LEMMA WindowsAgrees ==
    /\ P1!G!GatewayAssumption
    /\ OnWindows!Init => P1!G!Init
    /\ OnWindows!Next => P1!G!Next
    /\ P1!G!TypeOK => OnWindows!TypeOK
    /\ P1!G!BackendAccounted => OnWindows!BackendAccounted
  BY ProcessParameters, Zenon
  DEF
    OnWindows!control, OnWindows!bridge, OnWindows!vars, OnWindows!GatewayAssumption,
    OnWindows!Threads, OnWindows!Callers, OnWindows!Connections, OnWindows!Idle,
    OnWindows!Pc, OnWindows!TypeOK, OnWindows!Init, OnWindows!Goto, OnWindows!Fault,
    OnWindows!NoFault, OnWindows!Call, OnWindows!Invalidated, OnWindows!Start,
    OnWindows!Begins, OnWindows!Preflighted, OnWindows!Settle, OnWindows!Access,
    OnWindows!Connected, OnWindows!Abandoned, OnWindows!Answered, OnWindows!Throws,
    OnWindows!ClientCloses, OnWindows!ChildEnds, OnWindows!Begin, OnWindows!Leave,
    OnWindows!Or, OnWindows!ListenHttp, OnWindows!TakeStartupLock, OnWindows!Probe,
    OnWindows!Listen, OnWindows!Chmod, OnWindows!Unconnected, OnWindows!Unbind,
    OnWindows!ReleaseStartupLock, OnWindows!Preflight, OnWindows!Stop,
    OnWindows!Connect, OnWindows!Ask, OnWindows!Disconnect, OnWindows!Signal,
    OnWindows!CloseControl, OnWindows!CloseLock, OnWindows!Close, OnWindows!StopHttp,
    OnWindows!Drain, OnWindows!Owned, OnWindows!OwnedEnds, OnWindows!CloseBridge,
    OnWindows!End, OnWindows!StartStep, OnWindows!EndStep, OnWindows!CallStep,
    OnWindows!StartsBackend, OnWindows!Callback, OnWindows!Next,
    OnWindows!BackendAccounted, P1!G!control, P1!G!bridge, P1!G!vars,
    P1!G!GatewayAssumption, P1!G!Threads, P1!G!Callers, P1!G!Connections, P1!G!Idle,
    P1!G!Pc, P1!G!TypeOK, P1!G!Init, P1!G!Goto, P1!G!Fault, P1!G!NoFault, P1!G!Call,
    P1!G!Invalidated, P1!G!Start, P1!G!Begins, P1!G!Preflighted, P1!G!Settle,
    P1!G!Access, P1!G!Connected, P1!G!Abandoned, P1!G!Answered, P1!G!Throws,
    P1!G!ClientCloses, P1!G!ChildEnds, P1!G!Begin, P1!G!Leave, P1!G!Or, P1!G!ListenHttp,
    P1!G!TakeStartupLock, P1!G!Probe, P1!G!Listen, P1!G!Chmod, P1!G!Unconnected,
    P1!G!Unbind, P1!G!ReleaseStartupLock, P1!G!Preflight, P1!G!Stop, P1!G!Connect,
    P1!G!Ask, P1!G!Disconnect, P1!G!Signal, P1!G!CloseControl, P1!G!CloseLock,
    P1!G!Close, P1!G!StopHttp, P1!G!Drain, P1!G!Owned, P1!G!OwnedEnds, P1!G!CloseBridge,
    P1!G!End, P1!G!StartStep, P1!G!EndStep, P1!G!CallStep, P1!G!StartsBackend,
    P1!G!Callback, P1!G!Next, P1!G!BackendAccounted

(* A Gateway on Unix.                                                      *)
LEMMA UnixAgrees ==
    /\ P2!G!GatewayAssumption
    /\ OnUnix!Init => P2!G!Init
    /\ OnUnix!Next => P2!G!Next
    /\ P2!G!TypeOK => OnUnix!TypeOK
    /\ P2!G!BackendAccounted => OnUnix!BackendAccounted
  BY ProcessParameters, Zenon
  DEF
    OnUnix!control, OnUnix!bridge, OnUnix!vars, OnUnix!GatewayAssumption,
    OnUnix!Threads, OnUnix!Callers, OnUnix!Connections, OnUnix!Idle, OnUnix!Pc,
    OnUnix!TypeOK, OnUnix!Init, OnUnix!Goto, OnUnix!Fault, OnUnix!NoFault, OnUnix!Call,
    OnUnix!Invalidated, OnUnix!Start, OnUnix!Begins, OnUnix!Preflighted, OnUnix!Settle,
    OnUnix!Access, OnUnix!Connected, OnUnix!Abandoned, OnUnix!Answered, OnUnix!Throws,
    OnUnix!ClientCloses, OnUnix!ChildEnds, OnUnix!Begin, OnUnix!Leave, OnUnix!Or,
    OnUnix!ListenHttp, OnUnix!TakeStartupLock, OnUnix!Probe, OnUnix!Listen,
    OnUnix!Chmod, OnUnix!Unconnected, OnUnix!Unbind, OnUnix!ReleaseStartupLock,
    OnUnix!Preflight, OnUnix!Stop, OnUnix!Connect, OnUnix!Ask, OnUnix!Disconnect,
    OnUnix!Signal, OnUnix!CloseControl, OnUnix!CloseLock, OnUnix!Close, OnUnix!StopHttp,
    OnUnix!Drain, OnUnix!Owned, OnUnix!OwnedEnds, OnUnix!CloseBridge, OnUnix!End,
    OnUnix!StartStep, OnUnix!EndStep, OnUnix!CallStep, OnUnix!StartsBackend,
    OnUnix!Callback, OnUnix!Next, OnUnix!BackendAccounted, P2!G!control, P2!G!bridge,
    P2!G!vars, P2!G!GatewayAssumption, P2!G!Threads, P2!G!Callers, P2!G!Connections,
    P2!G!Idle, P2!G!Pc, P2!G!TypeOK, P2!G!Init, P2!G!Goto, P2!G!Fault, P2!G!NoFault,
    P2!G!Call, P2!G!Invalidated, P2!G!Start, P2!G!Begins, P2!G!Preflighted, P2!G!Settle,
    P2!G!Access, P2!G!Connected, P2!G!Abandoned, P2!G!Answered, P2!G!Throws,
    P2!G!ClientCloses, P2!G!ChildEnds, P2!G!Begin, P2!G!Leave, P2!G!Or, P2!G!ListenHttp,
    P2!G!TakeStartupLock, P2!G!Probe, P2!G!Listen, P2!G!Chmod, P2!G!Unconnected,
    P2!G!Unbind, P2!G!ReleaseStartupLock, P2!G!Preflight, P2!G!Stop, P2!G!Connect,
    P2!G!Ask, P2!G!Disconnect, P2!G!Signal, P2!G!CloseControl, P2!G!CloseLock,
    P2!G!Close, P2!G!StopHttp, P2!G!Drain, P2!G!Owned, P2!G!OwnedEnds, P2!G!CloseBridge,
    P2!G!End, P2!G!StartStep, P2!G!EndStep, P2!G!CallStep, P2!G!StartsBackend,
    P2!G!Callback, P2!G!Next, P2!G!BackendAccounted

(* The invariant of MCProcessSessions.                                     *)
ProcessesInv ==
    /\ processInstance = "reuse" => P1!IInv
    /\ processInstance = "bounds" => P2!IInv
    /\ processInstance = "leave" => P3!IInv
    /\ processInstance = "windows" => P1!GatewayInv
    /\ processInstance = "unix" => P2!GatewayInv

(* MCProcessSessions begins with it.                                       *)
LEMMA ProcessesInit == ProcessInit => ProcessesInv
<1> SUFFICES ASSUME ProcessInit PROVE ProcessesInv
  OBVIOUS
<1>1. processInstance = "reuse" => P1!IInv
  BY ReusedAgrees, P1!SessionsInit DEF ProcessInit
<1>2. processInstance = "bounds" => P2!IInv
  BY BoundedAgrees, P2!SessionsInit DEF ProcessInit
<1>3. processInstance = "leave" => P3!IInv
  BY LeftAgrees, P3!SessionsInit DEF ProcessInit
<1>4. processInstance = "windows" => P1!GatewayInv
  BY WindowsAgrees, P1!InitInvariant DEF ProcessInit
<1>5. processInstance = "unix" => P2!GatewayInv
  BY UnixAgrees, P2!InitInvariant DEF ProcessInit
<1> QED BY <1>1, <1>2, <1>3, <1>4, <1>5 DEF ProcessesInv

(* The subscript of ProcessSpec.                                           *)
processVars == <<processInstance, procVars, gateVars>>

(* Every step keeps it.                                                    *)
LEMMA ProcessesStep == ProcessesInv /\ [ProcessNext]_processVars => ProcessesInv'
<1> SUFFICES ASSUME ProcessesInv, [ProcessNext]_processVars PROVE ProcessesInv'
  OBVIOUS
<1>0. processInstance' = processInstance
  BY DEF ProcessNext, processVars
<1>1. ASSUME processInstance = "reuse" PROVE P1!IInv'
  <2>1. [P1!Next]_(P1!vars)
    BY <1>1, ReusedAgrees DEF ProcessNext, processVars, procVars, P1!vars, P1!shutdown
  <2> QED BY <1>1, <2>1, ReusedAgrees, P1!SessionsStep DEF ProcessesInv
<1>2. ASSUME processInstance = "bounds" PROVE P2!IInv'
  <2>1. [P2!Next]_(P2!vars)
    BY <1>2, BoundedAgrees DEF ProcessNext, processVars, procVars, P2!vars, P2!shutdown
  <2> QED BY <1>2, <2>1, BoundedAgrees, P2!SessionsStep DEF ProcessesInv
<1>3. ASSUME processInstance = "leave" PROVE P3!IInv'
  <2>1. [P3!Next]_(P3!vars)
    BY <1>3, LeftAgrees DEF ProcessNext, processVars, procVars, P3!vars, P3!shutdown
  <2> QED BY <1>3, <2>1, LeftAgrees, P3!SessionsStep DEF ProcessesInv
<1>4. ASSUME processInstance = "windows" PROVE P1!GatewayInv'
  <2>1. [P1!G!Next]_(P1!G!vars)
    BY <1>4, WindowsAgrees
       DEF ProcessNext, processVars, gateVars, P1!G!vars, P1!G!control, P1!G!bridge
  <2> QED BY <1>4, <2>1, WindowsAgrees, P1!StepInvariant DEF ProcessesInv
<1>5. ASSUME processInstance = "unix" PROVE P2!GatewayInv'
  <2>1. [P2!G!Next]_(P2!G!vars)
    BY <1>5, UnixAgrees
       DEF ProcessNext, processVars, gateVars, P2!G!vars, P2!G!control, P2!G!bridge
  <2> QED BY <1>5, <2>1, UnixAgrees, P2!StepInvariant DEF ProcessesInv
<1> QED BY <1>0, <1>1, <1>2, <1>3, <1>4, <1>5 DEF ProcessesInv

(* Every reachable state of MCProcessSessions has the invariant of its     *)
(* instance, whatever fairness the specification adds.                     *)
LEMMA ProcessesInvariant == ProcessSpec => []ProcessesInv
  BY ProcessesInit, ProcessesStep, PTL DEF ProcessSpec, processVars

(* The registry, the backend's table and the calls keep their types, the   *)
(* registry lists each process once and within maxTrackedSessions, and a   *)
(* Gateway starts at most one connection at a time                         *)
(* (process-session-registry.ts, desktop-backend-bridge.ts).               *)
THEOREM ProcessSessionsTyped == ProcessSpec => []ProcessesTyped
<1>1. ProcessesInv /\ processInstance = "reuse" => Reused!TypeOK
  BY ReusedAgrees, P1!SessionsTyped DEF ProcessesInv
<1>2. ProcessesInv /\ processInstance = "bounds" => Bounded!TypeOK
  BY BoundedAgrees, P2!SessionsTyped DEF ProcessesInv
<1>3. ProcessesInv /\ processInstance = "leave" => Left!TypeOK
  BY LeftAgrees, P3!SessionsTyped DEF ProcessesInv
<1>4. ProcessesInv /\ processInstance = "windows" => OnWindows!TypeOK
  BY WindowsAgrees, P1!TypeParts DEF ProcessesInv, P1!GatewayInv, P1!Bridge
<1>5. ProcessesInv /\ processInstance = "unix" => OnUnix!TypeOK
  BY UnixAgrees, P2!TypeParts DEF ProcessesInv, P2!GatewayInv, P2!Bridge
<1>6. ProcessesInv => ProcessesTyped
  BY <1>1, <1>2, <1>3, <1>4, <1>5 DEF ProcessesTyped
<1> QED BY <1>6, ProcessesInvariant, PTL

(* With pids that are given again after the close event, a session id      *)
(* reaches another process only while the call that starts that process    *)
(* has not returned (process-session-registry.ts, registerReserved).       *)
THEOREM ProcessesReachOwn == ProcessSpec => []ReachesOwnUnlessStarting
<1>1. ProcessesInv => ReachesOwnUnlessStarting
  BY ReusedAgrees DEF ProcessesInv, P1!IInv, P1!Reaching, ReachesOwnUnlessStarting
<1> QED BY <1>1, ProcessesInvariant, PTL

(* A running process is counted by the ceiling or is being killed, and     *)
(* sessions with the starts in flight never exceed it                      *)
(* (process-session-registry.ts, reserveStart; process-tools.ts).          *)
THEOREM ProcessesCounted == ProcessSpec => []SessionsAreCounted
<1>1. ProcessesInv /\ processInstance = "reuse" => Reused!LiveIsCounted
  BY ReusedAgrees DEF ProcessesInv, P1!IInv, P1!Counting
<1>2. ProcessesInv /\ processInstance = "bounds" => Bounded!Ceiling
  BY BoundedAgrees, P2!SessionsBounded DEF ProcessesInv, P2!PidsKept
<1>3. ProcessesInv => SessionsAreCounted
  BY <1>1, <1>2 DEF SessionsAreCounted
<1> QED BY <1>3, ProcessesInvariant, PTL

(* A Gateway that has shut down left no process running, except one that   *)
(* the handler of a client that went away spawned later (index.ts,         *)
(* cleanupOwnedProcesses; native-process-backend.ts, close).               *)
THEOREM ProcessesEnded == ProcessSpec => []ShutdownKillsAll
<1>1. ProcessesInv /\ processInstance = "reuse" => Reused!ShutdownKillsAll
  BY ReusedAgrees, P1!SessionsEnded DEF ProcessesInv
<1>2. ProcessesInv /\ processInstance = "leave" => Left!ShutdownKillsAll
  BY LeftAgrees, P3!SessionsEnded DEF ProcessesInv
<1>3. ProcessesInv => ShutdownKillsAll
  BY <1>1, <1>2 DEF ShutdownKillsAll
<1> QED BY <1>3, ProcessesInvariant, PTL

(* Every desktop backend that runs is installed, being started or being    *)
(* closed, on Windows and on Unix (desktop-backend-bridge.ts, start,       *)
(* invalidateConnection and close).                                        *)
THEOREM BackendsAccounted == ProcessSpec => []BackendAccounted
<1>1. ProcessesInv /\ processInstance = "windows" => OnWindows!BackendAccounted
  BY WindowsAgrees DEF ProcessesInv, P1!GatewayInv, P1!Bridge
<1>2. ProcessesInv /\ processInstance = "unix" => OnUnix!BackendAccounted
  BY UnixAgrees DEF ProcessesInv, P2!GatewayInv, P2!Bridge
<1>3. ProcessesInv => BackendAccounted
  BY <1>1, <1>2 DEF BackendAccounted
<1> QED BY <1>3, ProcessesInvariant, PTL
=============================================================================
