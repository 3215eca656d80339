---------------------------- MODULE ComputerUse ----------------------------
(***************************************************************************)
(* The desktop tools of one Gateway: clients list windows, take snapshots  *)
(* and act on what they saw.  A window is named by a capability issued for *)
(* its identity; a snapshot issues an observation of one window, with the  *)
(* generation of that window and the one of global input; an act consumes  *)
(* an observation and advances the generations before the backend is       *)
(* asked, because a failing act may have done part of its work.  Calls     *)
(* take turns in the order in which they came, except that a list of       *)
(* windows issues its capabilities after its turn.                         *)
(***************************************************************************)
EXTENDS Naturals, Sequences

CONSTANTS
    Calls,              \* slots for concurrent calls
    Windows,            \* identities: handle, process, name and class
    HeldLeases,         \* Agent Desktop leases that clients hold
    MaxIds,             \* bound on the window capabilities issued
    MaxObservations,    \* bound on the observations issued
    MaxCalls,           \* bound on the calls that clients make
    None

VARIABLES
    shown,              \* the windows on the screen
    idOf,               \* idOf[w]: the capability of the window, or 0
    ids,                \* capabilities issued so far
    generation,         \* generation[i]: acts on the window since it is known
    globalGeneration,   \* acts that were mouse or keyboard input
    record,             \* record[o]: an observation that is still there
    observations,       \* observations issued so far
    queue,              \* the calls that wait for their turn; the first runs
    call,               \* call[c]: arguments, step and locals
    started,            \* calls made so far
    changes,            \* history: acts attempted on each window
    inputs              \* history: global input attempted

known == <<idOf, ids>>
observed == <<record, observations>>
generations == <<generation, globalGeneration>>
calls == <<queue, call, started>>
history == <<changes, inputs>>
vars == <<shown, known, generations, observed, calls, history>>

ComputerAssumption ==
    /\ MaxIds \in Nat /\ MaxObservations \in Nat /\ MaxCalls \in Nat
    /\ None \notin Windows \cup HeldLeases

Ids == 1..MaxIds
Observations == 1..MaxObservations
Saw == [changes : Nat, inputs : Nat]
Record == [id : Ids, generation : Nat, globalGeneration : Nat, lease : HeldLeases \cup {None},
           saw : Saw]
Call == [op : {None, "windows", "snapshot", "act"},
         pc : {"idle", "queued", "listed", "leased", "acting", "acted", "inspecting"},
         id : Ids \cup {0}, observation : Observations \cup {0}, global : BOOLEAN,
         lease : HeldLeases \cup {None}, listed : SUBSET Windows,
         window : Windows \cup {None}, saw : Saw]
Unseen == [changes |-> 0, inputs |-> 0]
Idle == [op |-> None, pc |-> "idle", id |-> 0, observation |-> 0, global |-> FALSE,
         lease |-> None, listed |-> {}, window |-> None, saw |-> Unseen]

Running(c) == queue # <<>> /\ Head(queue) = c

(* No two windows share a capability, and what is under way has the turn.  *)
TypeOK ==
    /\ shown \subseteq Windows
    /\ ids \in 0..MaxIds /\ idOf \in [Windows -> 0..ids]
    /\ \A v, w \in Windows : idOf[v] = idOf[w] /\ idOf[v] # 0 => v = w
    /\ generation \in [Ids -> Nat] /\ globalGeneration \in Nat
    /\ observations \in 0..MaxObservations
    /\ record \in [Observations -> Record \cup {None}]
    /\ queue \in Seq(Calls) /\ call \in [Calls -> Call] /\ started \in Nat
    /\ \A c \in Calls :
          call[c].pc \in {"leased", "acting", "acted", "inspecting"} => Running(c)
    /\ changes \in [Windows -> Nat] /\ inputs \in Nat

Init ==
    /\ shown \in SUBSET Windows
    /\ idOf = [w \in Windows |-> 0] /\ ids = 0
    /\ generation = [i \in Ids |-> 0] /\ globalGeneration = 0
    /\ record = [o \in Observations |-> None] /\ observations = 0
    /\ queue = <<>> /\ call = [c \in Calls |-> Idle] /\ started = 0
    /\ changes = [w \in Windows |-> 0] /\ inputs = 0

Step(c, step) == call' = [call EXCEPT ![c].pc = step] /\ UNCHANGED <<queue, started>>

(* The turn is given up however the call ends.                             *)
Return(c) ==
    /\ call' = [call EXCEPT ![c] = Idle]
    /\ queue' = IF Running(c) THEN Tail(queue) ELSE queue
    /\ UNCHANGED started

(* A client names any capability and any observation that was ever issued. *)
Invoke(c, op, id, o, global, lease) ==
    /\ call[c].pc = "idle"
    /\ started < MaxCalls
    /\ started' = started + 1
    /\ op # "act" => o = 0 /\ ~global
    /\ op = "act" => o # 0 /\ id # 0
    /\ op = "windows" => id = 0 /\ lease = None
    /\ queue' = Append(queue, c)
    /\ call' = [call EXCEPT ![c] = [Idle EXCEPT !.op = op, !.pc = "queued", !.id = id,
                                      !.observation = o, !.global = global, !.lease = lease]]
    /\ UNCHANGED <<shown, known, generations, observed, history>>

ListWindows(c) ==
    /\ Running(c)
    /\ call[c].pc = "queued"
    /\ call' = [call EXCEPT ![c].pc = "listed", ![c].listed = shown]
    /\ queue' = IF call[c].op = "windows" THEN Tail(queue) ELSE queue
    /\ UNCHANGED <<started, shown, known, generations, observed, history>>

(* Each window gets the capability it has, or a new one.                   *)
IssueIds(ws) ==
    /\ idOf' \in [Windows -> 0..MaxIds]
    /\ \A w \in Windows :
          IF w \in ws /\ idOf[w] = 0 THEN idOf'[w] > ids ELSE idOf'[w] = idOf[w]
    /\ \A v, w \in Windows : idOf'[v] = idOf'[w] /\ idOf'[v] > ids => v = w
    /\ \E n \in ids..MaxIds :
          /\ ids' = n
          /\ ids + 1..n = {idOf'[w] : w \in {w \in ws : idOf[w] = 0}}

(* Some are too small, untitled or on another desktop.                     *)
Offer(c) ==
    /\ call[c].op = "windows" /\ call[c].pc = "listed"
    /\ \E ws \in SUBSET call[c].listed : IssueIds(ws)
    /\ Return(c)
    /\ UNCHANGED <<shown, generations, observed, history>>

Named(c, w) == w \in call[c].listed /\ idOf[w] = call[c].id

(* The capability is unknown, or its window is not on the list any more.   *)
Unresolved(c) ==
    /\ Running(c)
    /\ call[c].pc = "listed" /\ call[c].id # 0
    /\ ~\E w \in Windows : Named(c, w)
    /\ idOf' = [w \in Windows |-> IF idOf[w] = call[c].id THEN 0 ELSE idOf[w]]
    /\ Return(c)
    /\ UNCHANGED <<shown, ids, generations, observed, history>>

(* The record is made before the window is inspected, of what was done so  *)
(* far.                                                                    *)
Observe(c, w, lease) ==
    /\ observations < MaxObservations
    /\ observations' = observations + 1
    /\ IssueIds({w})
    /\ record' = [record EXCEPT ![observations'] =
                    [id |-> idOf'[w], generation |-> generation[idOf'[w]],
                     globalGeneration |-> globalGeneration, lease |-> lease,
                     saw |-> [changes |-> changes[w], inputs |-> inputs]]]
    /\ Step(c, "inspecting")
    /\ UNCHANGED <<shown, generations, history>>

(* Of the window that is named, or of one the Gateway selects.             *)
Snapshot(c, w) ==
    /\ Running(c)
    /\ call[c].op = "snapshot" /\ call[c].pc = "listed"
    /\ IF call[c].id = 0 THEN w \in call[c].listed ELSE Named(c, w)
    /\ Observe(c, w, call[c].lease)

Inspected(c) ==
    /\ call[c].pc = "inspecting"
    /\ Return(c)
    /\ UNCHANGED <<shown, known, generations, observed, history>>

(* What consume compares, and what an Agent Desktop forbids.  Only an act  *)
(* names an observation.                                                   *)
Fits(c, r) ==
    /\ r.id = call[c].id
    /\ call[c].lease \in {r.lease, None}
    /\ r.generation = generation[r.id]
    /\ r.globalGeneration = globalGeneration
    /\ r.lease = None \/ ~call[c].global

(* Before the backend is asked.                                            *)
Advanced(c) ==
    /\ generation' = [generation EXCEPT ![call[c].id] = @ + 1]
    /\ globalGeneration' = globalGeneration + (IF call[c].global THEN 1 ELSE 0)

(* The observation is used up, whether or not it fits: system keys need a  *)
(* profile that is fully unlocked, which is looked at last.                *)
Refuse(c, w) ==
    /\ Running(c)
    /\ call[c].observation # 0 /\ call[c].pc = "listed"
    /\ Named(c, w)
    /\ LET r == record[call[c].observation]
       IN r # None /\ Fits(c, r) => r.lease = None /\ call[c].global
    /\ record' = [record EXCEPT ![call[c].observation] = None]
    /\ Return(c)
    /\ UNCHANGED <<shown, known, generations, observations, history>>

(* With a lease, the window's desktop is looked at first.                  *)
Consume(c, w) ==
    /\ Running(c)
    /\ call[c].observation # 0 /\ call[c].pc = "listed"
    /\ Named(c, w)
    /\ LET r == record[call[c].observation]
       IN /\ r # None /\ Fits(c, r)
          /\ IF r.lease = None THEN Advanced(c) ELSE UNCHANGED generations
          /\ call' = [call EXCEPT ![c].pc = IF r.lease = None THEN "acting" ELSE "leased",
                                  ![c].window = w, ![c].lease = r.lease, ![c].saw = r.saw]
    /\ record' = [record EXCEPT ![call[c].observation] = None]
    /\ UNCHANGED <<shown, known, observations, queue, started, history>>

OnLease(c) ==
    /\ call[c].pc = "leased"
    /\ Advanced(c)
    /\ Step(c, "acting")
    /\ UNCHANGED <<shown, known, observed, history>>

Attempted(c) ==
    /\ changes' = [changes EXCEPT ![call[c].window] = @ + 1]
    /\ inputs' = inputs + (IF call[c].global THEN 1 ELSE 0)

Act(c) ==
    /\ call[c].pc = "acting"
    /\ Attempted(c)
    /\ Step(c, "acted")
    /\ UNCHANGED <<shown, known, generations, observed>>

(* An error of the backend or a timeout, after any part of the act.        *)
ActFails(c) ==
    /\ call[c].pc = "acting"
    /\ Attempted(c)
    /\ Return(c)
    /\ UNCHANGED <<shown, known, generations, observed>>

(* Mutant: the generation goes, the observations stay.                     *)
ForgetGeneration(c) ==
    /\ call[c].pc = "acted"
    /\ call[c].window \notin shown
    /\ generation' = [generation EXCEPT ![call[c].id] = 0]
    /\ Return(c)
    /\ UNCHANGED <<shown, known, globalGeneration, observed, history>>

(* The window is not among those listed after the act.                     *)
ForgetWindow(c) ==
    /\ call[c].pc = "acted"
    /\ call[c].window \notin shown
    /\ generation' = [generation EXCEPT ![call[c].id] = 0]
    /\ record' = [o \in Observations |->
                    IF record[o] # None /\ record[o].id = call[c].id THEN None ELSE record[o]]
    /\ Return(c)
    /\ UNCHANGED <<shown, known, globalGeneration, observations, history>>

ObserveAfter(c) ==
    /\ call[c].pc = "acted"
    /\ call[c].window \in shown
    /\ Observe(c, call[c].window, call[c].lease)

ObserveNothing(c) ==
    /\ call[c].pc = "acted"
    /\ call[c].window \in shown
    /\ Return(c)
    /\ UNCHANGED <<shown, known, generations, observed, history>>

(* The backend or a check of the lease fails.                              *)
Fails(c) ==
    /\ Running(c) \/ call[c].op = "windows"
    /\ call[c].pc \in {"queued", "listed", "leased", "acted", "inspecting"}
    /\ call[c].pc = "queued" => Running(c)
    /\ Return(c)
    /\ UNCHANGED <<shown, known, generations, observed, history>>

(* By their age, or the oldest when there are too many.                    *)
Prune ==
    /\ \/ \E w \in Windows : idOf' = [idOf EXCEPT ![w] = 0] /\ UNCHANGED record
       \/ \E o \in Observations : record' = [record EXCEPT ![o] = None] /\ UNCHANGED idOf
    /\ UNCHANGED <<shown, ids, generations, observations, calls, history>>

ScreenChanges(w) ==
    /\ shown' = IF w \in shown THEN shown \ {w} ELSE shown \cup {w}
    /\ UNCHANGED <<known, generations, observed, calls, history>>

Next ==
    \/ \E c \in Calls :
          \/ \E op \in {"windows", "snapshot", "act"}, id \in 0..ids, o \in 0..observations,
                global \in BOOLEAN, lease \in HeldLeases \cup {None} :
                Invoke(c, op, id, o, global, lease)
          \/ \E w \in Windows : Snapshot(c, w) \/ Refuse(c, w) \/ Consume(c, w)
          \/ ListWindows(c) \/ Offer(c) \/ Unresolved(c) \/ Inspected(c)
          \/ OnLease(c) \/ Act(c) \/ ActFails(c)
          \/ ForgetWindow(c) \/ ObserveAfter(c) \/ ObserveNothing(c) \/ Fails(c)
    \/ Prune
    \/ \E w \in Windows : ScreenChanges(w)

Spec == Init /\ [][Next]_vars

-----------------------------------------------------------------------------
(* Nothing was attempted on the window of an act, and no global input on   *)
(* any, since the observation that the act uses; and an act on an Agent    *)
(* Desktop is no global input, whatever its client asked for.              *)
ActsOnWhatWasSeen ==
    \A c \in Calls :
        call[c].pc = "acting" =>
            /\ call[c].saw = [changes |-> changes[call[c].window], inputs |-> inputs]
            /\ call[c].lease # None => ~call[c].global

-----------------------------------------------------------------------------
(* Why it holds.  What an observation saw is what there is as long as both *)
(* generations are the ones it was issued with; between the advance and    *)
(* the act the generations are ahead, and no observation has the new ones. *)
Sees(r, w) == r.saw = [changes |-> changes[w], inputs |-> inputs]

RecordsSound ==
    \A o \in Observations :
        LET r == record[o]
        IN r # None =>
              /\ r.id <= ids
              /\ r.generation <= generation[r.id] /\ r.globalGeneration <= globalGeneration
              /\ r.generation = generation[r.id] /\ r.globalGeneration = globalGeneration
                    => \A w \in Windows : idOf[w] = r.id => Sees(r, w)

(* A capability given up meanwhile is replaced by one nothing was seen by. *)
ActsSound ==
    \A c \in Calls :
        /\ call[c].pc \in {"leased", "acting"} =>
              /\ call[c].window \in Windows /\ call[c].id # 0
              /\ Sees(call[c], call[c].window)
              /\ call[c].lease # None => ~call[c].global
              /\ \/ idOf[call[c].window] = call[c].id
                 \/ \A o \in Observations :
                       record[o] # None => record[o].id # idOf[call[c].window]
        /\ call[c].pc = "acting" =>
              \A o \in Observations :
                  record[o] # None =>
                      /\ record[o].id = call[c].id => record[o].generation < generation[call[c].id]
                      /\ call[c].global => record[o].globalGeneration < globalGeneration

IInv == TypeOK /\ RecordsSound /\ ActsSound
=============================================================================
