---------------------------- MODULE AgentDesktop ----------------------------
(***************************************************************************)
(* The pool of agent desktops: config.json names the virtual desktops the  *)
(* user bound, control.json the leases agents hold on them, hud-state.json *)
(* the heartbeats of the panel's safety HUD.  Gateways and the panel share *)
(* the three files; each rewrites the first two under one lock (PidLock),  *)
(* so that a read, a check and a write under it are one step here.         *)
(*                                                                         *)
(* A heartbeat older than its limit counts as absent, so the HUD file is   *)
(* the set of leases with a fresh one; entries carry the generation a      *)
(* lease was granted in, which its id already determines.  Leases are      *)
(* numbered as granted.  One task is modelled.                             *)
(*                                                                         *)
(* A Gateway that cannot read a file fails its call.  The panel goes on:   *)
(* to it a configuration it could not read binds nothing, and a control    *)
(* file it could not read has no leases.                                   *)
(***************************************************************************)
EXTENDS Naturals, FiniteSets

CONSTANTS
    Desktops,           \* ids Windows gives to virtual desktops
    Calls,              \* slots for concurrent tool calls, of any Gateway
    MaxNumber,          \* bound: highest desktop number
    MaxLeases,          \* bound: leases granted
    MaxRenumberings,    \* bound: how often the user rearranges desktops
    None                \* no lease

ASSUME DesktopAssumption ==
    MaxNumber \in Nat /\ MaxLeases \in Nat /\ MaxRenumberings \in Nat

VARIABLES
    number,             \* live desktop numbers; 0: the desktop is gone
    bindings,           \* number stored with each bound desktop; 0: not bound
    control,            \* the leases in control.json
    hud,                \* leases with a fresh heartbeat in hud-state.json
    panel,              \* the panel: step and locals of its tick
    call,               \* call[c]: step, lease and ghost of a call
    task,               \* the task, up to the end of its complete call
    next,               \* the next lease id
    displaced,          \* ghost: desktops whose binding was dropped under a lease, for
                        \* another one or because the panel could not read a file
    unheld,             \* ghost: a move made without a lease was reported done
    renumberings

vars == <<number, bindings, control, hud, panel, call, task, next, displaced,
          unheld, renumberings>>

(* Desktops that exist have different numbers; Desktop 1 is the user's.    *)
Numberings ==
    {n \in [Desktops -> 0 .. MaxNumber] :
        \A d, e \in Desktops : n[d] = n[e] /\ n[d] # 0 => d = e}

Control == [lease : 1 .. MaxLeases, desktop : Desktops,
            number : 2 .. MaxNumber, linked : BOOLEAN]

Leases(controls) == {row.lease : row \in controls}
Active == Leases(control)
Without(l) == {row \in control : row.lease # l}
Controlled == {row.desktop : row \in control}

CallSteps == {"idle", "linked", "waiting", "stopping", "checking",
              "moving", "rereading", "rechecking"}

Idle == [pc |-> "idle", lease |-> None, held |-> TRUE]
Off == [pc |-> "off", controls |-> {}, lease |-> None]
Waiting == [pc |-> "waiting", controls |-> {}, lease |-> None]

TypeOK ==
    /\ number \in Numberings
    /\ bindings \in [Desktops -> {0} \cup 2 .. MaxNumber]
    /\ control \in SUBSET Control
    /\ hud \in SUBSET (1 .. MaxLeases)
    /\ panel \in [pc : {"off", "waiting", "inspecting", "updated", "showing"},
                  controls : SUBSET Control, lease : 1 .. MaxLeases \cup {None}]
    /\ call \in [Calls -> [pc : CallSteps, lease : 1 .. MaxLeases \cup {None},
                           held : BOOLEAN]]
    /\ task \in {"active", "completed", "ended"}
    /\ next \in 1 .. MaxLeases + 1
    /\ displaced \in SUBSET Desktops
    /\ unheld \in BOOLEAN
    /\ renumberings \in 0 .. MaxRenumberings
    /\ \A l \in Active \cup hud : l < next

Init ==
    /\ number \in {n \in Numberings : \A d \in Desktops : n[d] # 0}
    /\ bindings = [d \in Desktops |-> 0]
    /\ control = {}
    /\ hud = {}
    /\ panel = Off
    /\ call = [c \in Calls |-> Idle]
    /\ task \in {"active", "ended"}
    /\ next = 1
    /\ displaced = {}
    /\ unheld = FALSE
    /\ renumberings \in 0 .. MaxRenumberings

At(c, step) == call[c].pc = step
To(c, step) == call' = [call EXCEPT ![c].pc = step]
Return(c) == call' = [call EXCEPT ![c] = Idle]
Bound(d) == bindings[d] # 0

-----------------------------------------------------------------------------
(* Windows and time.                                                       *)

(* The user moves, adds and removes desktops; one removed never returns.   *)
Rearrange ==
    /\ renumberings < MaxRenumberings
    /\ renumberings' = renumberings + 1
    /\ number' \in {n \in Numberings : \A d \in Desktops : number[d] = 0 => n[d] = 0}
    /\ UNCHANGED <<bindings, control, hud, panel, call, task, next, displaced, unheld>>

HeartbeatExpires ==
    /\ hud # {}
    /\ hud' = {}
    /\ UNCHANGED <<number, bindings, control, panel, call, task, next,
                   displaced, unheld, renumberings>>

-----------------------------------------------------------------------------
(* Gateways.                                                               *)

(* A Gateway starts: the leases it finds are discarded, whoever runs.      *)
GatewayInit ==
    /\ control # {}
    /\ control' = {}
    /\ hud' = {}
    /\ UNCHANGED <<number, bindings, panel, call, task, next, displaced,
                   unheld, renumberings>>

(* A start linked to a task first finds it active.                         *)
LinkTask(c) ==
    /\ At(c, "idle")
    /\ task = "active"
    /\ To(c, "linked")
    /\ UNCHANGED <<number, bindings, control, hud, panel, task, next,
                   displaced, unheld, renumberings>>

(* Mutant: the leases in control are not looked at.                        *)
StartControlUsed(c, d) ==
    /\ At(c, "idle") \/ At(c, "linked")
    /\ next <= MaxLeases
    /\ Bound(d)
    /\ number[d] > 1
    /\ control' = control \cup {[lease |-> next, desktop |-> d,
                                 number |-> number[d], linked |-> At(c, "linked")]}
    /\ next' = next + 1
    /\ call' = [call EXCEPT ![c].pc = "waiting", ![c].lease = next]
    /\ UNCHANGED <<number, bindings, hud, panel, task, displaced, unheld, renumberings>>

(* The desktop asked for must be bound, live, not Desktop 1, and free.     *)
StartControl(c, d) ==
    /\ At(c, "idle") \/ At(c, "linked")
    /\ next <= MaxLeases
    /\ Bound(d)
    /\ number[d] > 1
    /\ \A row \in control : row.desktop # d
    /\ control' = control \cup {[lease |-> next, desktop |-> d,
                                 number |-> number[d], linked |-> At(c, "linked")]}
    /\ next' = next + 1
    /\ call' = [call EXCEPT ![c].pc = "waiting", ![c].lease = next]
    /\ UNCHANGED <<number, bindings, hud, panel, task, displaced, unheld, renumberings>>

(* The wait compares the HUD with the lease it wrote, not with the file;   *)
(* the start then returns its lease, or an error if it is not active now.  *)
HudMatches(c) ==
    /\ At(c, "waiting")
    /\ call[c].lease \in hud
    /\ Return(c)
    /\ UNCHANGED <<number, bindings, control, hud, panel, task, next,
                   displaced, unheld, renumberings>>

HudTimeout(c) ==
    /\ At(c, "waiting")
    /\ control' = Without(call[c].lease)
    /\ Return(c)
    /\ UNCHANGED <<number, bindings, hud, panel, task, next, displaced,
                   unheld, renumberings>>

StopControl(c, l) ==
    /\ At(c, "idle")
    /\ l \in Active
    /\ control' = Without(l)
    /\ UNCHANGED <<number, bindings, hud, panel, call, task, next, displaced,
                   unheld, renumberings>>

(* The complete call of a task: the task file first (TaskRooms), then the  *)
(* first lease that is linked to the task.                                 *)
CompleteTask(c) ==
    /\ At(c, "idle")
    /\ task = "active"
    /\ task' = "completed"
    /\ To(c, "stopping")
    /\ UNCHANGED <<number, bindings, control, hud, panel, next, displaced,
                   unheld, renumberings>>

StopControlForTask(c) ==
    /\ At(c, "stopping")
    /\ LET linked == {row.lease : row \in {r \in control : r.linked}}
       IN  control' = {row \in control :
                         ~ (row.linked /\ \A l \in linked : row.lease <= l)}
    /\ task' = "ended"
    /\ Return(c)
    /\ UNCHANGED <<number, bindings, hud, panel, next, displaced, unheld, renumberings>>

(* Placing windows asserts the lease before and after the move; an assert  *)
(* reads control and bindings, then the heartbeat.                         *)
Holds(l) == \E row \in control : row.lease = l /\ Bound(row.desktop)

AssertLease(c, l) ==
    /\ At(c, "idle")
    /\ Holds(l)
    /\ call' = [call EXCEPT ![c].pc = "checking", ![c].lease = l]
    /\ UNCHANGED <<number, bindings, control, hud, panel, task, next,
                   displaced, unheld, renumberings>>

AssertHud(c) ==
    /\ At(c, "checking")
    /\ call[c].lease \in hud
    /\ To(c, "moving")
    /\ UNCHANGED <<number, bindings, control, hud, panel, task, next,
                   displaced, unheld, renumberings>>

MoveWindows(c) ==
    /\ At(c, "moving")
    /\ call' = [call EXCEPT ![c].pc = "rereading", ![c].held = call[c].lease \in Active]
    /\ UNCHANGED <<number, bindings, control, hud, panel, task, next,
                   displaced, unheld, renumberings>>

(* Mutant: after the move only the heartbeat is checked.                   *)
ReassertSkipped(c) ==
    /\ At(c, "rereading")
    /\ To(c, "rechecking")
    /\ UNCHANGED <<number, bindings, control, hud, panel, task, next,
                   displaced, unheld, renumberings>>

Reassert(c) ==
    /\ At(c, "rereading")
    /\ Holds(call[c].lease)
    /\ To(c, "rechecking")
    /\ UNCHANGED <<number, bindings, control, hud, panel, task, next,
                   displaced, unheld, renumberings>>

Placed(c) ==
    /\ At(c, "rechecking")
    /\ call[c].lease \in hud
    /\ unheld' = (unheld \/ ~call[c].held)
    /\ Return(c)
    /\ UNCHANGED <<number, bindings, control, hud, panel, task, next,
                   displaced, renumberings>>

(* An error, a time limit of the lock, or the death of the Gateway: what a *)
(* start wrote stays in control.                                           *)
Fails(c) ==
    /\ ~At(c, "idle")
    /\ Return(c)
    /\ UNCHANGED <<number, bindings, control, hud, panel, task, next,
                   displaced, unheld, renumberings>>

-----------------------------------------------------------------------------
(* The panel.                                                              *)

(* A panel that starts revokes what it finds, unless it cannot take the    *)
(* lock.                                                                   *)
PanelStart ==
    /\ panel.pc = "off"
    /\ panel' = Waiting
    /\ \/ control' = {} /\ hud' = IF control = {} THEN hud ELSE {}
       \/ UNCHANGED <<control, hud>>
    /\ UNCHANGED <<number, bindings, call, task, next, displaced, unheld, renumberings>>

(* A tick reads the leases; without any, or when the file cannot be read,  *)
(* it deletes the HUD file.                                                *)
Tick ==
    /\ panel.pc = "waiting"
    /\ \/ hud' = {} /\ UNCHANGED panel
       \/ /\ control # {}
          /\ panel' = [panel EXCEPT !.pc = "inspecting", !.controls = control]
          /\ UNCHANGED hud
    /\ UNCHANGED <<number, bindings, control, call, task, next, displaced,
                   unheld, renumberings>>

Usable(d) == Bound(d) /\ number[d] > 1
Moved == {row \in panel.controls : row.number # number[row.desktop]}

(* Every lease was found usable, and its number is up to date.             *)
Inspected ==
    \/ panel.pc = "inspecting" /\ Moved = {}
       /\ \A row \in panel.controls : Usable(row.desktop)
    \/ panel.pc = "updated"

(* The first lease whose desktop is gone, Desktop 1, or not bound in the   *)
(* configuration read, is revoked, or the one shown when an error ends the *)
(* tick; other errors revoke all.  A revocation may fail, and does nothing *)
(* when the control file cannot be read.                                   *)
RevokeAfterSafetyFailure ==
    /\ panel.pc \in {"inspecting", "updated"}
    /\ \/ \E row \in panel.controls : control' = Without(row.lease)
       \/ control' = {}
       \/ UNCHANGED control
    /\ panel' = Waiting
    /\ UNCHANGED <<number, bindings, hud, call, task, next, displaced, unheld, renumberings>>

(* Mutant: the leases the tick read are written back.                      *)
UpdateFromSnapshot ==
    /\ panel.pc = "inspecting"
    /\ \A row \in panel.controls : Usable(row.desktop)
    /\ Moved # {}
    /\ control' = {[row EXCEPT !.number = number[row.desktop]] : row \in panel.controls}
    /\ panel' = [panel EXCEPT !.pc = "updated", !.controls = control']
    /\ UNCHANGED <<number, bindings, hud, call, task, next, displaced,
                   unheld, renumberings>>

(* Mutant: a desktop that is gone or has become the first is renumbered.   *)
UpdateAnyNumber ==
    /\ panel.pc = "inspecting"
    /\ Moved # {}
    /\ control' = {IF row.lease \in Leases(Moved)
                   THEN [row EXCEPT !.number = number[row.desktop]] ELSE row
                     : row \in control}
    /\ panel' = [panel EXCEPT !.pc = "updated", !.controls = control']
    /\ UNCHANGED <<number, bindings, hud, call, task, next, displaced,
                   unheld, renumberings>>

(* The numbers that changed are stored in the leases still in the file,    *)
(* and the tick goes on with those, or with none if it cannot be read.     *)
UpdateControlDesktopNumbers ==
    /\ panel.pc = "inspecting"
    /\ \A row \in panel.controls : Usable(row.desktop)
    /\ Moved # {}
    /\ \/ /\ control' = {IF row.lease \in Leases(Moved)
                         THEN [row EXCEPT !.number = number[row.desktop]] ELSE row
                           : row \in control}
          /\ panel' = [panel EXCEPT !.pc = "updated", !.controls = control']
       \/ /\ UNCHANGED control
          /\ panel' = [panel EXCEPT !.pc = "updated", !.controls = {}]
    /\ UNCHANGED <<number, bindings, hud, call, task, next, displaced,
                   unheld, renumberings>>

(* On a controlled desktop a new overlay takes a while to show.            *)
ShowOverlay ==
    /\ Inspected
    /\ \E l \in Leases(panel.controls) :
          panel' = [panel EXCEPT !.pc = "showing", !.lease = l]
    /\ UNCHANGED <<number, bindings, control, hud, call, task, next, displaced,
                   unheld, renumberings>>

(* An overlay whose lease was revoked meanwhile or could not be read, or   *)
(* that cannot be shown, ends the tick and, if it can, its lease.          *)
OverlayFails ==
    /\ panel.pc = "showing"
    /\ control' \in {Without(panel.lease), control}
    /\ panel' = Waiting
    /\ UNCHANGED <<number, bindings, hud, call, task, next, displaced, unheld, renumberings>>

(* The heartbeats are of the leases the tick read, revoked or not; they    *)
(* are not written more often than every 450 ms.                           *)
WriteHudHeartbeats ==
    /\ \/ Inspected
       \/ panel.pc = "showing" /\ panel.lease \in Active
    /\ hud' \in {hud, Leases(panel.controls)}
    /\ panel' = Waiting
    /\ UNCHANGED <<number, bindings, control, call, task, next, displaced,
                   unheld, renumberings>>

ExitControl(l) ==
    /\ panel.pc # "off"
    /\ l \in Active
    /\ control' = Without(l)
    /\ UNCHANGED <<number, bindings, hud, panel, call, task, next, displaced,
                   unheld, renumberings>>

(* Binding a desktop removes the binding that has its number: the live     *)
(* number of a desktop that exists, the stored one of one that is gone.    *)
(* All others are lost when the configuration cannot be read.              *)
BindCurrentDesktop(d) ==
    LET others == {e \in Desktops \ {d} : Bound(e)}
        same == {e \in others :
                   number[d] = IF number[e] # 0 THEN number[e] ELSE bindings[e]}
    IN  /\ panel.pc # "off"
        /\ number[d] > 1
        /\ \E removed \in {same, others} :
              /\ bindings' = [e \in Desktops |->
                                IF e = d THEN number[d]
                                ELSE IF e \in removed THEN 0 ELSE bindings[e]]
              /\ displaced' = (displaced \cup (removed \cap Controlled)) \ {d}
        /\ UNCHANGED <<number, control, hud, panel, call, task, next, unheld, renumberings>>

(* A desktop under control is not unbound, unless the control file cannot  *)
(* be read.                                                                *)
UnbindDesktop(d) ==
    /\ panel.pc # "off"
    /\ Bound(d)
    /\ \/ d \notin Controlled /\ UNCHANGED displaced
       \/ d \in Controlled /\ displaced' = displaced \cup {d}
    /\ bindings' = [bindings EXCEPT ![d] = 0]
    /\ UNCHANGED <<number, control, hud, panel, call, task, next, unheld, renumberings>>

(* The panel closes: it deletes the HUD file, and revokes the leases when  *)
(* it was asked to and can take the lock.                                  *)
Shutdown ==
    /\ panel.pc # "off"
    /\ panel' = Off
    /\ hud' = {}
    /\ \/ control' = {}
       \/ UNCHANGED control
    /\ UNCHANGED <<number, bindings, call, task, next, displaced, unheld, renumberings>>

PanelDies ==
    /\ panel.pc # "off"
    /\ panel' = Off
    /\ UNCHANGED <<number, bindings, control, hud, call, task, next, displaced,
                   unheld, renumberings>>

-----------------------------------------------------------------------------
Gateway ==
    \/ GatewayInit
    \/ \E c \in Calls :
          \/ LinkTask(c)
          \/ \E d \in Desktops : StartControl(c, d)
          \/ HudMatches(c) \/ HudTimeout(c)
          \/ \E l \in 1 .. MaxLeases : StopControl(c, l)
          \/ CompleteTask(c) \/ StopControlForTask(c)
          \/ \E l \in 1 .. MaxLeases : AssertLease(c, l)
          \/ AssertHud(c) \/ MoveWindows(c) \/ Reassert(c) \/ Placed(c)
          \/ Fails(c)

Panel ==
    \/ PanelStart \/ Shutdown \/ PanelDies
    \/ Tick \/ RevokeAfterSafetyFailure \/ UpdateControlDesktopNumbers
    \/ ShowOverlay \/ OverlayFails \/ WriteHudHeartbeats
    \/ \E l \in 1 .. MaxLeases : ExitControl(l)
    \/ \E d \in Desktops : BindCurrentDesktop(d) \/ UnbindDesktop(d)

Next == Rearrange \/ HeartbeatExpires \/ Gateway \/ Panel

Spec == Init /\ [][Next]_vars

-----------------------------------------------------------------------------
(* The pool is consistent whatever agents, user and panel do at once: no   *)
(* desktop has two leases (both readers reject such a file as a whole),    *)
(* and the desktop of a lease stays bound, unless the user bound another   *)
(* desktop in its place, or bound or unbound one while the panel could not *)
(* read the configuration or the leases.                                   *)
PoolIsConsistent ==
    /\ \A row, other \in control : row.desktop = other.desktop => row = other
    /\ \A row \in control : Bound(row.desktop) \/ row.desktop \in displaced

(* A revoked lease never returns: no update of desktop numbers, no late    *)
(* heartbeat or start writes a lease back that a stop, an exit, a restart  *)
(* or a completed task removed meanwhile.                                  *)
RevokedStaysRevoked == [][\A l \in Active' : l \in Active \/ l = next]_vars

(* A placement that reports success moved its windows while the lease was  *)
(* held, although it is revoked at any point between the checks.           *)
PlacedWithLease == ~unheld

(* CHANGELOG.md:208 says that completing a task revokes its lease.  The    *)
(* code looks for one lease, once.                                         *)
CompletionEndsControl ==
    task = "ended" => \A row \in control : ~row.linked
=============================================================================
