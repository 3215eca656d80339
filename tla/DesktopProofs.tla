---------------------------- MODULE DesktopProofs ----------------------------
(***************************************************************************)
(* Proofs about the desktops: AgentDesktop, its leases for every number of *)
(* desktops, calls, leases and rearrangements; then ComputerUse, the acts  *)
(* on what clients saw, for every number of clients, windows, capabilities,*)
(* observations and leases.                                                *)
(***************************************************************************)
EXTENDS AgentDesktop, Sequences, TLAPS

CONSTANTS Windows, HeldLeases, MaxIds, MaxObservations, MaxCalls

VARIABLES
    shown, idOf, ids, generation, globalGeneration, record, observations, queue, tool,
    started, changes, inputs

U == INSTANCE ComputerUse WITH call <- tool

-----------------------------------------------------------------------------
(* AgentDesktop.                                                           *)

PanelRecord ==
    [pc : {"off", "waiting", "inspecting", "updated", "showing"},
     controls : SUBSET Control, lease : 1 .. MaxLeases \cup {None}]

CallRecord == [pc : CallSteps, lease : 1 .. MaxLeases \cup {None}, held : BOOLEAN]

(* TypeOK without its last conjunct, and that one.                         *)
Types ==
    /\ number \in Numberings
    /\ bindings \in [Desktops -> {0} \cup 2 .. MaxNumber]
    /\ control \in SUBSET Control
    /\ hud \in SUBSET (1 .. MaxLeases)
    /\ panel \in PanelRecord
    /\ call \in [Calls -> CallRecord]
    /\ task \in {"active", "completed", "ended"}
    /\ next \in 1 .. MaxLeases + 1
    /\ displaced \in SUBSET Desktops
    /\ unheld \in BOOLEAN
    /\ renumberings \in 0 .. MaxRenumberings

(* Whatever the file, the HUD, the panel or a call names was granted.      *)
Granted ==
    /\ \A l \in Active \cup hud : l < next
    /\ \A row \in panel.controls : row.lease < next

(* A lease that was not held when its windows were moved is never held     *)
(* again, so that the second assertion fails.                              *)
MovesAccounted ==
    /\ ~unheld
    /\ \A c \in Calls :
          /\ call[c].pc \in {"checking", "moving", "rereading", "rechecking"} =>
                call[c].lease \in 1 .. MaxLeases /\ call[c].lease < next
          /\ call[c].pc = "rereading" /\ ~call[c].held => call[c].lease \notin Active
          /\ call[c].pc = "rechecking" => call[c].held

(* A lease is of one desktop, in the file and in the copy the panel read.  *)
Identified ==
    \A row, other \in control \cup panel.controls :
        row.lease = other.lease => row.desktop = other.desktop

IInv == Types /\ Granted /\ Identified /\ PoolIsConsistent /\ MovesAccounted

-----------------------------------------------------------------------------
LEMMA InitInvariant == ASSUME DesktopAssumption, Init PROVE IInv
<1>1. Types
  <2>1. number \in Numberings
    BY DEF Init
  <2>2. bindings \in [Desktops -> {0} \cup 2 .. MaxNumber]
    BY DEF Init
  <2>3. panel \in PanelRecord
    BY DEF PanelRecord, Init, Off
  <2>4. call \in [Calls -> CallRecord]
    BY DEF CallRecord, Init, Idle, CallSteps
  <2>5. QED
    <3>1. control = {} /\ hud = {} /\ task \in {"active", "completed", "ended"} /\ displaced = {}
      BY DEF Init
    <3>2. next \in 1 .. MaxLeases + 1 /\ renumberings \in 0 .. MaxRenumberings
      BY DEF Init, DesktopAssumption
    <3>3. unheld \in BOOLEAN
      BY DEF Init
    <3>4. QED
      BY <2>1, <2>2, <2>3, <2>4, <3>1, <3>2, <3>3 DEF Types
<1>2. Granted /\ Identified /\ PoolIsConsistent /\ MovesAccounted
  BY DEF Init, Granted, Identified, PoolIsConsistent, MovesAccounted, Active, Leases, Off, Idle
<1>3. QED
  BY <1>1, <1>2 DEF IInv

(* The call variable keeps its type in the three ways it changes.          *)
LEMMA CallTypes ==
    ASSUME Types, NEW c \in Calls
    PROVE  /\ \A step \in CallSteps :
                 To(c, step) => call' \in [Calls -> CallRecord]
           /\ Return(c) => call' \in [Calls -> CallRecord]
           /\ \A step \in CallSteps, l \in 1 .. MaxLeases :
                 call' = [call EXCEPT ![c].pc = step, ![c].lease = l] =>
                     call' \in [Calls -> CallRecord]
<1>1. call \in [Calls -> CallRecord]
  BY DEF Types
<1>2. Idle \in CallRecord
  BY DEF CallRecord, Idle, CallSteps
<1>3. QED
  BY <1>1, <1>2 DEF CallRecord, To, Return

LEMMA HeldTyped ==
    ASSUME NEW c \in Calls, NEW h \in BOOLEAN, Types
    PROVE  [call EXCEPT ![c].pc = "rereading", ![c].held = h] \in
               [Calls -> CallRecord]
<1>1. call \in [Calls -> CallRecord]
  BY DEF Types
<1>2. "rereading" \in CallSteps
  BY DEF CallSteps
<1>3. ASSUME NEW r \in CallRecord
      PROVE  [r EXCEPT !.pc = "rereading", !.held = h] \in
                 CallRecord
  BY <1>2, Zenon DEF CallRecord
<1>4. QED
  BY <1>1, <1>3, Zenon

LEMMA GatewayTypes == ASSUME DesktopAssumption, Types, Gateway PROVE Types'
<1> USE DEF Types
<1>1. CASE GatewayInit
  BY <1>1 DEF GatewayInit
<1>2. ASSUME NEW c \in Calls, NEW d \in Desktops, StartControl(c, d) PROVE Types'
  <2>1. number[d] \in 2 .. MaxNumber /\ next \in 1 .. MaxLeases
    BY <1>2 DEF StartControl, Numberings, DesktopAssumption
  <2>2. control' \in SUBSET Control
    <3>1. PICK linked \in BOOLEAN : linked = At(c, "linked")
      BY DEF At
    <3>2. [lease |-> next, desktop |-> d, number |-> number[d], linked |-> linked] \in Control
      BY <2>1 DEF Control
    <3>3. QED
      BY <3>1, <3>2, <1>2 DEF StartControl
  <2>3. call' \in [Calls -> CallRecord]
    BY <2>1, <1>2, CallTypes DEF StartControl, CallSteps
  <2>4. next' \in 1 .. MaxLeases + 1
    BY <2>1, <1>2 DEF StartControl, DesktopAssumption
  <2>5. QED
    BY <2>2, <2>3, <2>4, <1>2 DEF StartControl
<1>3. ASSUME NEW c \in Calls,
             \/ LinkTask(c) \/ HudMatches(c) \/ HudTimeout(c)
             \/ CompleteTask(c) \/ StopControlForTask(c)
             \/ AssertHud(c) \/ Reassert(c) \/ Placed(c) \/ Fails(c)
      PROVE  Types'
  <2>1. call' \in [Calls -> CallRecord]
    <3>1. {"linked", "stopping", "moving", "rechecking"} \subseteq CallSteps
      BY DEF CallSteps
    <3>2. Return(c) \/ \E step \in CallSteps : To(c, step)
      BY <3>1, <1>3 DEF LinkTask, HudMatches, HudTimeout, CompleteTask,
         StopControlForTask, AssertHud, Reassert, Placed, Fails
    <3>3. QED
      BY <3>2, CallTypes
  <2>2. control' \in SUBSET Control
    BY <1>3 DEF LinkTask, HudMatches, HudTimeout, CompleteTask, Without,
       StopControlForTask, AssertHud, Reassert, Placed, Fails
  <2>3. unheld' \in BOOLEAN /\ task' \in {"active", "completed", "ended"}
    BY <1>3 DEF LinkTask, HudMatches, HudTimeout, CompleteTask,
       StopControlForTask, AssertHud, Reassert, Placed, Fails
  <2>4. UNCHANGED <<number, bindings, hud, panel, next, displaced, renumberings>>
    BY <1>3 DEF LinkTask, HudMatches, HudTimeout, CompleteTask,
       StopControlForTask, AssertHud, Reassert, Placed, Fails
  <2>5. QED
    BY <2>1, <2>2, <2>3, <2>4
<1>4. ASSUME NEW c \in Calls, NEW l \in 1 .. MaxLeases, StopControl(c, l) PROVE Types'
  BY <1>4 DEF StopControl, Without
<1>5. ASSUME NEW c \in Calls, NEW l \in 1 .. MaxLeases, AssertLease(c, l) PROVE Types'
  BY <1>5, CallTypes DEF AssertLease, CallSteps
<1>6. ASSUME NEW c \in Calls, MoveWindows(c) PROVE Types'
  <2> DEFINE held == call[c].lease \in Active
  <2>1. held \in BOOLEAN
    <3>1. held => held = TRUE
      OBVIOUS
    <3>2. ~held => held = FALSE
      OBVIOUS
    <3>3. QED
      BY <3>1, <3>2
  <2>2. call' = [call EXCEPT ![c].pc = "rereading", ![c].held = held]
    BY <1>6 DEF MoveWindows
  <2>3. UNCHANGED <<number, bindings, control, hud, panel, task, next, displaced,
                    unheld, renumberings>>
    BY <1>6 DEF MoveWindows
  <2> HIDE DEF held
  <2>4. call' \in [Calls -> CallRecord]
    BY <2>1, <2>2, HeldTyped
  <2>5. QED
    BY <2>3, <2>4
<1>7. QED
  BY <1>1, <1>2, <1>3, <1>4, <1>5, <1>6 DEF Gateway

(* What becomes of the panel's locals in a tick.                           *)
LEMMA PanelTyped ==
    ASSUME Types
    PROVE  /\ Waiting \in PanelRecord /\ Off \in PanelRecord
           /\ [panel EXCEPT !.pc = "inspecting", !.controls = control] \in PanelRecord
           /\ \A controls \in SUBSET Control :
                 [panel EXCEPT !.pc = "updated", !.controls = controls] \in PanelRecord
           /\ \A l \in Leases(panel.controls) :
                 [panel EXCEPT !.pc = "showing", !.lease = l] \in PanelRecord
<1>1. panel \in PanelRecord /\ control \in SUBSET Control
  BY DEF Types
<1>2. Waiting \in PanelRecord /\ Off \in PanelRecord
  BY DEF Waiting, Off, PanelRecord
<1>3. \A l \in Leases(panel.controls) : l \in 1 .. MaxLeases
  BY <1>1 DEF Leases, PanelRecord, Control
<1>4. \A l \in Leases(panel.controls) :
          [panel EXCEPT !.pc = "showing", !.lease = l] \in PanelRecord
  BY <1>1, <1>3 DEF PanelRecord
<1>5. ASSUME NEW controls \in SUBSET Control
      PROVE  /\ [panel EXCEPT !.pc = "updated", !.controls = controls] \in PanelRecord
             /\ [panel EXCEPT !.pc = "inspecting", !.controls = controls] \in PanelRecord
  BY <1>1, Zenon DEF PanelRecord
<1>6. QED
  BY <1>1, <1>2, <1>4, <1>5

LEMMA PanelTypes == ASSUME DesktopAssumption, Types, Identified, Panel PROVE Types'
<1> USE DEF Types
<1>1. CASE PanelStart \/ Shutdown \/ PanelDies \/ Tick \/ OverlayFails
  <2>1. panel' \in PanelRecord
    <3>1. panel' \in {panel, Waiting, Off, [panel EXCEPT !.pc = "inspecting", !.controls = control]}
      BY <1>1, Zenon DEF PanelStart, Shutdown, PanelDies, Tick, OverlayFails
    <3>2. QED
      BY <3>1, PanelTyped
  <2>2. control' \in SUBSET Control /\ hud' \in SUBSET (1 .. MaxLeases)
    BY <1>1 DEF PanelStart, Shutdown, PanelDies, Tick, OverlayFails, Without
  <2>3. UNCHANGED <<number, bindings, call, task, next, displaced, unheld, renumberings>>
    BY <1>1 DEF PanelStart, Shutdown, PanelDies, Tick, OverlayFails
  <2>4. QED
    BY <2>1, <2>2, <2>3
<1>2. CASE RevokeAfterSafetyFailure
  BY <1>2, PanelTyped DEF RevokeAfterSafetyFailure, Without
<1>3. CASE UpdateControlDesktopNumbers
  <2>1. control' \in SUBSET Control
    <3>1. ASSUME NEW row \in control, row.lease \in Leases(Moved)
          PROVE  number[row.desktop] \in 2 .. MaxNumber
      <4>1. PICK moved \in panel.controls : moved.lease = row.lease
        BY <3>1 DEF Leases, Moved
      <4>2. moved.desktop = row.desktop
        BY <4>1 DEF Identified
      <4>3. number[row.desktop] > 1
        BY <4>1, <4>2, <1>3 DEF UpdateControlDesktopNumbers, Usable
      <4>4. QED
        BY <4>3 DEF Control, Numberings, DesktopAssumption
    <3>2. \A row \in control :
              (IF row.lease \in Leases(Moved)
               THEN [row EXCEPT !.number = number[row.desktop]] ELSE row) \in Control
      BY <3>1 DEF Control
    <3>3. QED
      BY <3>2, <1>3 DEF UpdateControlDesktopNumbers
  <2>2. panel' \in PanelRecord
    <3>1. \E controls \in {control', {}} :
             panel' = [panel EXCEPT !.pc = "updated", !.controls = controls]
      BY <1>3, Zenon DEF UpdateControlDesktopNumbers
    <3>2. {} \in SUBSET Control
      OBVIOUS
    <3>3. QED
      BY <2>1, <3>1, <3>2, PanelTyped
  <2>3. QED
    BY <2>1, <2>2, <1>3 DEF UpdateControlDesktopNumbers
<1>4. CASE ShowOverlay
  BY <1>4, PanelTyped DEF ShowOverlay
<1>5. CASE WriteHudHeartbeats
  <2>1. Leases(panel.controls) \in SUBSET (1 .. MaxLeases)
    BY DEF Leases, PanelRecord, Control
  <2>2. QED
    BY <2>1, <1>5, PanelTyped DEF WriteHudHeartbeats
<1>6. ASSUME NEW l \in 1 .. MaxLeases, ExitControl(l) PROVE Types'
  BY <1>6 DEF ExitControl, Without
<1>7. ASSUME NEW d \in Desktops, BindCurrentDesktop(d) PROVE Types'
  BY <1>7 DEF BindCurrentDesktop, Numberings
<1>8. ASSUME NEW d \in Desktops, UnbindDesktop(d) PROVE Types'
  BY <1>8 DEF UnbindDesktop
<1>9. QED
  BY <1>1, <1>2, <1>3, <1>4, <1>5, <1>6, <1>7, <1>8 DEF Panel

(* UNCHANGED vars is a step too.                                           *)
LEMMA TypesStep == ASSUME DesktopAssumption, Types, Identified, [Next]_vars PROVE Types'
<1>1. CASE Rearrange
  BY <1>1 DEF Rearrange, Types, DesktopAssumption
<1>2. CASE HeartbeatExpires
  BY <1>2 DEF HeartbeatExpires, Types
<1>3. CASE UNCHANGED vars
  BY <1>3 DEF vars, Types
<1>4. QED
  BY <1>1, <1>2, <1>3, GatewayTypes, PanelTypes DEF Next

-----------------------------------------------------------------------------
(* What becomes of the leases: some go, or one is granted on a bound       *)
(* desktop without a lease, or their numbers change.                       *)
Removed == control' \in SUBSET control /\ next' = next

GrantedOn(d) ==
    /\ Bound(d) /\ \A row \in control : row.desktop # d
    /\ next \in 1 .. MaxLeases /\ next' = next + 1
    /\ \E row : /\ control' = control \cup {row}
                /\ row.lease = next /\ row.desktop = d

Renumbered ==
    /\ next' = next
    /\ \E f :
          /\ control' = {f[row] : row \in control}
          /\ \A row \in control : f[row].lease = row.lease /\ f[row].desktop = row.desktop

LEMMA ControlStep ==
    ASSUME DesktopAssumption, Types, Types', [Next]_vars
    PROVE  Removed \/ Renumbered \/ \E d \in Desktops : GrantedOn(d)
<1>1. ASSUME NEW c \in Calls, NEW d \in Desktops, StartControl(c, d) PROVE GrantedOn(d)
  <2>1. next \in 1 .. MaxLeases
    BY <1>1 DEF StartControl, Types, DesktopAssumption
  <2>2. QED
    <3> DEFINE row == [lease |-> next, desktop |-> d, number |-> number[d],
                       linked |-> At(c, "linked")]
    <3>1. row.lease = next /\ row.desktop = d
      OBVIOUS
    <3>2. control' = control \cup {row} /\ next' = next + 1
          /\ Bound(d) /\ \A other \in control : other.desktop # d
      BY <1>1 DEF StartControl
    <3> HIDE DEF row
    <3>3. QED
      BY <2>1, <3>1, <3>2 DEF GrantedOn
<1>2. CASE UpdateControlDesktopNumbers
  <2> DEFINE f == [row \in control |-> IF row.lease \in Leases(Moved)
                   THEN [row EXCEPT !.number = number[row.desktop]] ELSE row]
  <2>1. control' = {f[row] : row \in control} \/ control' = control
    BY <1>2 DEF UpdateControlDesktopNumbers
  <2>2. \A row \in control : f[row].lease = row.lease /\ f[row].desktop = row.desktop
    BY DEF Types, Control
  <2>3. next' = next
    BY <1>2 DEF UpdateControlDesktopNumbers
  <2> HIDE DEF f
  <2>4. QED
    BY <2>1, <2>2, <2>3 DEF Renumbered, Removed
<1>3. CASE GatewayInit
  BY <1>3 DEF GatewayInit, Removed
<1>4. ASSUME NEW c \in Calls,
             \/ LinkTask(c) \/ HudMatches(c) \/ HudTimeout(c)
             \/ CompleteTask(c) \/ StopControlForTask(c)
             \/ AssertHud(c) \/ MoveWindows(c) \/ Reassert(c) \/ Placed(c) \/ Fails(c)
      PROVE  Removed
  BY <1>4 DEF Removed, LinkTask, HudMatches, HudTimeout, CompleteTask,
     StopControlForTask, AssertHud, MoveWindows, Reassert, Placed, Fails, Without
<1>5. ASSUME NEW c \in Calls, NEW l \in 1 .. MaxLeases, StopControl(c, l) \/ AssertLease(c, l)
      PROVE  Removed
  BY <1>5 DEF Removed, StopControl, AssertLease, Without
<1>6. CASE PanelStart \/ Shutdown \/ PanelDies \/ Tick
  BY <1>6 DEF Removed, PanelStart, Shutdown, PanelDies, Tick
<1>7. CASE RevokeAfterSafetyFailure \/ ShowOverlay \/ OverlayFails \/ WriteHudHeartbeats
  BY <1>7 DEF Removed, RevokeAfterSafetyFailure, ShowOverlay, OverlayFails,
     WriteHudHeartbeats, Without
<1>8. ASSUME NEW l \in 1 .. MaxLeases, ExitControl(l) PROVE Removed
  BY <1>8 DEF Removed, ExitControl, Without
<1>9. ASSUME NEW d \in Desktops, BindCurrentDesktop(d) \/ UnbindDesktop(d) PROVE Removed
  BY <1>9 DEF Removed, BindCurrentDesktop, UnbindDesktop
<1>10. CASE Rearrange \/ HeartbeatExpires \/ UNCHANGED vars
  BY <1>10 DEF Removed, Rearrange, HeartbeatExpires, vars
<1>11. QED
  BY <1>1, <1>2, <1>3, <1>4, <1>5, <1>6, <1>7, <1>8, <1>9, <1>10 DEF Next, Gateway, Panel

(* The panel copies the file, and writes heartbeats of what it copied.     *)
LEMMA CopyStep ==
    ASSUME Types, [Next]_vars
    PROVE  /\ panel'.controls \subseteq panel.controls \cup control'
           /\ hud' \subseteq hud \cup Leases(panel.controls)
<1> USE DEF Types, PanelRecord
<1>1. ASSUME Gateway PROVE panel' = panel /\ hud' \in {hud, {}}
  BY <1>1, Zenon DEF Gateway, GatewayInit, LinkTask, StartControl, HudMatches,
     HudTimeout, StopControl, CompleteTask, StopControlForTask, AssertLease, AssertHud,
     MoveWindows, Reassert, Placed, Fails
<1>2. CASE PanelStart \/ Shutdown \/ PanelDies
  <2>1. panel' \in {Waiting, Off} /\ hud' \in {hud, {}}
    BY <1>2, Zenon DEF PanelStart, Shutdown, PanelDies
  <2>2. QED
    BY <2>1 DEF Waiting, Off
<1>9. CASE Tick
  BY <1>9 DEF Tick
<1>3. CASE RevokeAfterSafetyFailure \/ OverlayFails
  BY <1>3 DEF RevokeAfterSafetyFailure, OverlayFails, Waiting
<1>10. CASE ShowOverlay
  BY <1>10 DEF ShowOverlay
<1>11. CASE WriteHudHeartbeats
  BY <1>11 DEF WriteHudHeartbeats, Waiting
<1>4. CASE UpdateControlDesktopNumbers
  BY <1>4 DEF UpdateControlDesktopNumbers
<1>5. ASSUME NEW l \in 1 .. MaxLeases, ExitControl(l) PROVE UNCHANGED <<panel, hud>>
  BY <1>5 DEF ExitControl
<1>6. ASSUME NEW d \in Desktops, BindCurrentDesktop(d) \/ UnbindDesktop(d)
      PROVE  UNCHANGED <<panel, hud>>
  BY <1>6 DEF BindCurrentDesktop, UnbindDesktop
<1>7. CASE Rearrange \/ HeartbeatExpires \/ UNCHANGED vars
  BY <1>7 DEF Rearrange, HeartbeatExpires, vars
<1>8. QED
  BY <1>1, <1>2, <1>3, <1>4, <1>5, <1>6, <1>7, <1>9, <1>10, <1>11 DEF Next, Panel

(* A desktop that loses its binding has no lease, or is displaced.         *)
LEMMA BindingStep ==
    ASSUME Types, [Next]_vars, NEW d \in Desktops, Bound(d) \/ d \in displaced
    PROVE  \/ Bound(d)' \/ d \in displaced'
           \/ control' = control /\ \A row \in control : row.desktop # d
<1> USE DEF Bound
<1>1. CASE UNCHANGED <<bindings, displaced>>
  BY <1>1
<1>2. ASSUME NEW e \in Desktops, BindCurrentDesktop(e)
      PROVE  \/ Bound(d)' \/ d \in displaced'
             \/ control' = control /\ \A row \in control : row.desktop # d
  <2>1. /\ number[e] # 0 /\ bindings \in [Desktops -> {0} \cup 2 .. MaxNumber]
        /\ control' = control
    BY <1>2 DEF BindCurrentDesktop, Types, Numberings
  <2>2. PICK removed \in SUBSET Desktops :
           /\ bindings' = [x \in Desktops |->
                             IF x = e THEN number[e]
                             ELSE IF x \in removed THEN 0 ELSE bindings[x]]
           /\ displaced' = (displaced \cup (removed \cap Controlled)) \ {e}
    BY <1>2 DEF BindCurrentDesktop
  <2>3. QED
    BY <2>1, <2>2 DEF Controlled
<1>3. ASSUME NEW e \in Desktops, UnbindDesktop(e) PROVE
      \/ Bound(d)' \/ d \in displaced'
      \/ control' = control /\ \A row \in control : row.desktop # d
  BY <1>3 DEF UnbindDesktop, Types, Controlled
<1>4. CASE Gateway
  BY <1>1, <1>4 DEF Gateway, GatewayInit, LinkTask, StartControl, HudMatches,
     HudTimeout, StopControl, CompleteTask, StopControlForTask, AssertLease, AssertHud,
     MoveWindows, Reassert, Placed, Fails
<1>5. CASE PanelStart \/ Shutdown \/ PanelDies \/ Tick \/ RevokeAfterSafetyFailure
           \/ UpdateControlDesktopNumbers \/ ShowOverlay \/ OverlayFails \/ WriteHudHeartbeats
  BY <1>1, <1>5 DEF PanelStart, Shutdown, PanelDies, Tick, RevokeAfterSafetyFailure,
     UpdateControlDesktopNumbers, ShowOverlay, OverlayFails, WriteHudHeartbeats
<1>6. ASSUME NEW l \in 1 .. MaxLeases, ExitControl(l) PROVE UNCHANGED <<bindings, displaced>>
  BY <1>6 DEF ExitControl
<1>7. CASE Rearrange \/ HeartbeatExpires \/ UNCHANGED vars
  BY <1>1, <1>7 DEF Rearrange, HeartbeatExpires, vars
<1>8. QED
  BY <1>1, <1>2, <1>3, <1>4, <1>5, <1>6, <1>7 DEF Next, Panel

LEMMA GrantedStep ==
    ASSUME DesktopAssumption, Types, Types', Granted, [Next]_vars PROVE Granted'
<1>1. next \in Nat /\ next' \in Nat /\ next <= next'
  BY ControlStep DEF Types, DesktopAssumption, Removed, Renumbered, GrantedOn
<1>2. \A row \in control : row.lease \in Nat /\ row.lease < next
  BY DEF Granted, Active, Leases, Types, Control
<1>3. \A row \in panel.controls : row.lease \in Nat /\ row.lease < next
  BY DEF Granted, Types, PanelRecord, Control
<1>4. ASSUME NEW row \in control' PROVE row.lease \in Nat /\ row.lease < next'
  BY <1>1, <1>2, ControlStep DEF Removed, Renumbered, GrantedOn
<1>5. \A l \in hud' : l < next'
  <2>1. ASSUME NEW l \in hud' PROVE l \in Nat /\ l < next
    BY <1>3, CopyStep DEF Granted, Leases, Types
  <2>2. QED
    BY <2>1, <1>1
<1>6. \A row \in panel'.controls : row.lease < next'
  BY <1>1, <1>3, <1>4, CopyStep
<1>7. QED
  BY <1>4, <1>5, <1>6 DEF Granted, Active, Leases

LEMMA IdentifiedStep ==
    ASSUME DesktopAssumption, Types, Types', Granted, Identified, [Next]_vars
    PROVE  Identified'
<1>1. \A row \in control \cup panel.controls : row.lease # next
  <2>1. \A row \in control \cup panel.controls : row.lease < next /\ row.lease \in Nat
    BY DEF Granted, Active, Leases, Types, PanelRecord, Control
  <2>2. QED
    BY <2>1 DEF Types
<1>2. ASSUME NEW row \in control' \cup panel.controls
      PROVE  \/ \E old \in control \cup panel.controls :
                   old.lease = row.lease /\ old.desktop = row.desktop
             \/ row.lease = next
  BY ControlStep DEF Removed, Renumbered, GrantedOn
<1>3. \A row, other \in control' \cup panel.controls :
          row.lease = next /\ other.lease = next => row = other
  BY <1>1, ControlStep DEF Removed, Renumbered, GrantedOn
<1>4. \A row, other \in control' \cup panel.controls :
          row.lease = other.lease => row.desktop = other.desktop
  BY <1>1, <1>2, <1>3 DEF Identified
<1>5. QED
  BY <1>4, CopyStep DEF Identified

LEMMA PoolStep ==
    ASSUME DesktopAssumption, Types, Types', PoolIsConsistent, [Next]_vars
    PROVE  PoolIsConsistent'
<1>1. \A row, other \in control' : row.desktop = other.desktop => row = other
  BY ControlStep DEF Removed, Renumbered, GrantedOn, PoolIsConsistent
<1>2. ASSUME NEW row \in control' PROVE (Bound(row.desktop) \/ row.desktop \in displaced)'
  <2>1. row.desktop \in Desktops
    BY DEF Types, Control
  <2>2. Bound(row.desktop) \/ row.desktop \in displaced
    BY ControlStep DEF Removed, Renumbered, GrantedOn, PoolIsConsistent
  <2>3. QED
    BY <2>1, <2>2, BindingStep
<1>3. QED
  BY <1>1, <1>2 DEF PoolIsConsistent

(* No step brings a lease back.                                            *)
LEMMA RevokedStep ==
    ASSUME DesktopAssumption, Types, Types', [Next]_vars
    PROVE  \A l \in Active' : l \in Active \/ l = next
BY ControlStep DEF Removed, Renumbered, GrantedOn, Active, Leases

(* A call knows the lease it places windows for, and whether it held it.   *)
LEMMA MovesStep ==
    ASSUME DesktopAssumption, Types, Types', Granted, MovesAccounted, [Next]_vars
    PROVE  MovesAccounted'
<1> DEFINE Placing == {"checking", "moving", "rereading", "rechecking"}
           Knows(c) ==
               /\ call[c].pc \in Placing =>
                     call[c].lease \in 1 .. MaxLeases /\ call[c].lease < next
               /\ call[c].pc = "rereading" /\ ~call[c].held => call[c].lease \notin Active
               /\ call[c].pc = "rechecking" => call[c].held
<1>1. next \in Nat /\ next' \in Nat /\ next <= next' /\ call \in [Calls -> CallRecord]
  BY ControlStep DEF Types, DesktopAssumption, Removed, Renumbered, GrantedOn
<1>2. ASSUME NEW c \in Calls, call'[c] = call[c] PROVE Knows(c)'
  <2>1. ASSUME call[c].pc \in Placing
        PROVE  /\ call[c].lease \in 1 .. MaxLeases /\ call[c].lease < next'
               /\ call[c].lease \in Active' => call[c].lease \in Active
    BY <1>1, <2>1, RevokedStep DEF MovesAccounted, DesktopAssumption
  <2>2. QED
    BY <1>2, <2>1 DEF MovesAccounted
<1>3. ASSUME NEW c \in Calls, call'[c].pc \notin Placing PROVE Knows(c)'
  BY <1>3
<1>4. ASSUME unheld' = unheld, NEW c \in Calls, Knows(c)',
             \A d \in Calls \ {c} : call'[d] = call[d]
      PROVE  MovesAccounted'
  BY <1>2, <1>4 DEF MovesAccounted
<1>5. ASSUME unheld' = unheld, call' = call PROVE MovesAccounted'
  BY <1>2, <1>5 DEF MovesAccounted
<1>6. ASSUME NEW c \in Calls, NEW l \in 1 .. MaxLeases, AssertLease(c, l)
      PROVE  MovesAccounted'
  <2>1. l < next
    BY <1>6 DEF AssertLease, Holds, Granted, Active, Leases
  <2>2. Knows(c)'
    BY <1>1, <2>1, <1>6 DEF AssertLease, CallRecord
  <2>3. QED
    BY <1>1, <2>2, <1>4, <1>6 DEF AssertLease
<1>7. ASSUME NEW c \in Calls, AssertHud(c) PROVE MovesAccounted'
  <2>1. Knows(c)'
    BY <1>1, <1>7 DEF AssertHud, At, To, CallRecord, MovesAccounted
  <2>2. QED
    BY <1>1, <2>1, <1>4, <1>7 DEF AssertHud, To
<1>8. ASSUME NEW c \in Calls, MoveWindows(c) PROVE MovesAccounted'
  <2>1. call'[c].pc = "rereading" /\ call'[c].lease = call[c].lease
    BY <1>1, <1>8 DEF MoveWindows, CallRecord
  <2>2. call'[c].held <=> call[c].lease \in Active
    BY <1>1, <1>8 DEF MoveWindows, CallRecord
  <2>3. Knows(c)'
    BY <2>1, <2>2, <1>8 DEF MoveWindows, At, MovesAccounted, Active
  <2>4. QED
    BY <1>1, <2>3, <1>4, <1>8 DEF MoveWindows
<1>9. ASSUME NEW c \in Calls, Reassert(c) PROVE MovesAccounted'
  <2>1. call[c].pc = "rereading" /\ call[c].lease \in Active
    BY <1>9 DEF Reassert, At, Holds, Active, Leases
  <2>2. call[c].held
    BY <2>1 DEF MovesAccounted
  <2>3. call'[c].pc = "rechecking" /\ call'[c].lease = call[c].lease /\ call'[c].held = call[c].held
    BY <1>1, <1>9 DEF Reassert, To, CallRecord
  <2>4. Knows(c)'
    BY <2>1, <2>2, <2>3, <1>9 DEF Reassert, MovesAccounted
  <2>5. QED
    BY <1>1, <2>4, <1>4, <1>9 DEF Reassert, To
<1>10. ASSUME NEW c \in Calls, Placed(c) PROVE MovesAccounted'
  <2>1. call[c].held /\ ~unheld
    BY <1>10 DEF Placed, At, MovesAccounted
  <2>2. ~unheld'
    BY <2>1, <1>10 DEF Placed
  <2>3. call'[c] = Idle /\ \A d \in Calls \ {c} : call'[d] = call[d]
    BY <1>1, <1>10 DEF Placed, Return
  <2>4. \A d \in Calls : Knows(d)'
    BY <2>3, <1>2, <1>3 DEF Idle
  <2>5. QED
    BY <2>2, <2>4 DEF MovesAccounted
<1>11. ASSUME NEW c \in Calls, NEW d \in Desktops, StartControl(c, d) PROVE MovesAccounted'
  <2>1. call'[c].pc = "waiting" /\ \A e \in Calls \ {c} : call'[e] = call[e]
    BY <1>1, <1>11 DEF StartControl, CallRecord
  <2>2. QED
    BY <2>1, <1>3, <1>4, <1>11 DEF StartControl
<1>12. ASSUME NEW c \in Calls,
              \/ LinkTask(c) \/ HudMatches(c) \/ HudTimeout(c)
              \/ CompleteTask(c) \/ StopControlForTask(c) \/ Fails(c)
       PROVE  MovesAccounted'
  <2>1. Return(c) \/ \E step \in CallSteps \ Placing : To(c, step)
    BY <1>12 DEF LinkTask, HudMatches, HudTimeout, CompleteTask,
       StopControlForTask, Fails, CallSteps
  <2>2. call'[c].pc \notin Placing /\ \A e \in Calls \ {c} : call'[e] = call[e]
    BY <2>1, <1>1 DEF Return, To, Idle, CallRecord
  <2>3. unheld' = unheld
    BY <1>12 DEF LinkTask, HudMatches, HudTimeout, CompleteTask,
       StopControlForTask, Fails
  <2>4. QED
    BY <2>2, <2>3, <1>3, <1>4
<1>13. ASSUME GatewayInit \/ Panel \/ Rearrange \/ HeartbeatExpires \/ UNCHANGED vars
              \/ \E c \in Calls, l \in 1 .. MaxLeases : StopControl(c, l)
       PROVE  MovesAccounted'
  <2>1. UNCHANGED <<call, unheld>>
    BY <1>13 DEF GatewayInit, Rearrange, HeartbeatExpires, vars, StopControl, Panel,
       PanelStart, Shutdown, PanelDies, Tick, RevokeAfterSafetyFailure, ExitControl,
       UpdateControlDesktopNumbers, ShowOverlay, OverlayFails, WriteHudHeartbeats,
       BindCurrentDesktop, UnbindDesktop
  <2>2. QED
    BY <2>1, <1>5
<1>14. QED
  BY <1>6, <1>7, <1>8, <1>9, <1>10, <1>11, <1>12, <1>13 DEF Next, Gateway

LEMMA StepInvariant == ASSUME DesktopAssumption, IInv, [Next]_vars PROVE IInv'
<1>1. Types'
  BY TypesStep DEF IInv
<1>2. QED
  BY <1>1, GrantedStep, IdentifiedStep, PoolStep, MovesStep DEF IInv

-----------------------------------------------------------------------------
(* The inductive invariant holds in every state.                           *)
THEOREM DesktopInvariance == ASSUME DesktopAssumption PROVE Spec => []IInv
<1>1. Init => IInv
  BY InitInvariant
<1>2. IInv /\ [Next]_vars => IInv'
  BY StepInvariant
<1>3. QED
  BY <1>1, <1>2, PTL DEF Spec

(* Types, and the file and the HUD name only leases that were granted.     *)
THEOREM DesktopTypes == ASSUME DesktopAssumption PROVE Spec => []TypeOK
<1>1. IInv => TypeOK
  BY DEF IInv, Types, Granted, TypeOK, PanelRecord, CallRecord
<1>2. QED
  BY <1>1, DesktopInvariance, PTL

(* No desktop ever has two leases, and the desktop of a lease stays bound  *)
(* unless the user bound another one in its place (agent-desktop-state.ts, *)
(* startControl; AgentDesktopControl.cs, the ticks of the panel).          *)
THEOREM DesktopPoolIsConsistent == ASSUME DesktopAssumption PROVE Spec => []PoolIsConsistent
<1>1. IInv => PoolIsConsistent
  BY DEF IInv
<1>2. QED
  BY <1>1, DesktopInvariance, PTL

(* A placement that reports success moved its windows under its lease      *)
(* (agent-desktop-tools.ts, the two assertions around the move).           *)
THEOREM DesktopPlacedWithLease == ASSUME DesktopAssumption PROVE Spec => []PlacedWithLease
<1>1. IInv => PlacedWithLease
  BY DEF IInv, MovesAccounted, PlacedWithLease
<1>2. QED
  BY <1>1, DesktopInvariance, PTL

(* A revoked lease never returns: whatever updates the file writes back    *)
(* only leases that are in it (agent-desktop-state.ts).                    *)
THEOREM DesktopRevokedStaysRevoked ==
    ASSUME DesktopAssumption PROVE Spec => RevokedStaysRevoked
<1>1. IInv /\ IInv' /\ [Next]_vars => [\A l \in Active' : l \in Active \/ l = next]_vars
  BY RevokedStep DEF IInv
<1>2. QED
  BY <1>1, DesktopInvariance, PTL DEF Spec, RevokedStaysRevoked

-----------------------------------------------------------------------------
(* ComputerUse.                                                            *)

Busy == {"leased", "acting", "acted", "inspecting"}

(* TypeOK in three parts: the registries, the calls and their turns.       *)
Registries ==
    /\ shown \subseteq Windows
    /\ ids \in 0..MaxIds /\ idOf \in [Windows -> 0..ids]
    /\ \A v, w \in Windows : idOf[v] = idOf[w] /\ idOf[v] # 0 => v = w
    /\ generation \in [U!Ids -> Nat] /\ globalGeneration \in Nat
    /\ observations \in 0..MaxObservations
    /\ record \in [U!Observations -> U!Record \cup {None}]
    /\ changes \in [Windows -> Nat] /\ inputs \in Nat

CallsTyped == queue \in Seq(Calls) /\ tool \in [Calls -> U!Call] /\ started \in Nat

Turns == \A c \in Calls : tool[c].pc \in Busy => U!Running(c)

LEMMA TypeParts == U!TypeOK <=> Registries /\ CallsTyped /\ Turns
  BY DEF U!TypeOK, Registries, CallsTyped, Turns, Busy

-----------------------------------------------------------------------------
(* What the steps that issue capabilities or return have in common.        *)

(* A capability that is issued is new, and no other window has it.         *)
LEMMA Issued ==
    ASSUME U!ComputerAssumption, Registries, NEW ws \in SUBSET Windows, U!IssueIds(ws)
    PROVE  /\ ids' \in ids..MaxIds
           /\ idOf' \in [Windows -> 0..ids']
           /\ \A v, w \in Windows : idOf'[v] = idOf'[w] /\ idOf'[v] # 0 => v = w
           /\ \A w \in Windows : idOf'[w] = idOf[w] \/ idOf'[w] > ids
           /\ \A w \in ws : idOf'[w] # 0
<1> USE DEF U!ComputerAssumption
<1>0. /\ ids \in Nat /\ ids <= MaxIds /\ idOf \in [Windows -> 0..ids]
      /\ \A v, w \in Windows : idOf[v] = idOf[w] /\ idOf[v] # 0 => v = w
  BY DEF Registries
<1>1. /\ idOf' \in [Windows -> 0..MaxIds]
      /\ \A w \in Windows :
            IF w \in ws /\ idOf[w] = 0 THEN idOf'[w] > ids ELSE idOf'[w] = idOf[w]
      /\ \A v, w \in Windows : idOf'[v] = idOf'[w] /\ idOf'[v] > ids => v = w
  BY DEF U!IssueIds
<1>2. /\ ids' \in ids..MaxIds
      /\ ids + 1..ids' = {idOf'[w] : w \in {w \in ws : idOf[w] = 0}}
  BY DEF U!IssueIds
<1>3. \A w \in Windows : idOf'[w] \in 0..ids'
  <2> TAKE w \in Windows
  <2>1. CASE w \in ws /\ idOf[w] = 0
    <3>1. idOf'[w] \in ids + 1..ids'
      BY <1>2, <2>1
    <3> QED BY <3>1, <1>0, <1>2
  <2>2. CASE ~(w \in ws /\ idOf[w] = 0)
    <3>1. idOf'[w] = idOf[w] /\ idOf[w] \in 0..ids
      BY <1>0, <1>1, <2>2
    <3> QED BY <3>1, <1>0, <1>2
  <2> QED BY <2>1, <2>2
<1>4. idOf' \in [Windows -> 0..ids']
  BY <1>1, <1>3
<1>5. \A w \in Windows : idOf'[w] = idOf[w] \/ idOf'[w] > ids
  BY <1>1
<1>6. \A w \in ws : idOf'[w] # 0
  BY <1>0, <1>1
<1>7. \A v, w \in Windows : idOf'[v] = idOf'[w] /\ idOf'[v] # 0 => v = w
  <2> SUFFICES ASSUME NEW v \in Windows, NEW w \in Windows,
                      idOf'[v] = idOf'[w], idOf'[v] # 0
               PROVE  v = w
    OBVIOUS
  <2>1. idOf[v] \in 0..ids /\ idOf[w] \in 0..ids /\ idOf'[v] \in Nat
    BY <1>0, <1>1
  <2>2. CASE idOf'[v] > ids
    BY <1>1, <2>2
  <2>3. CASE ~(idOf'[v] > ids)
    <3>1. idOf'[v] = idOf[v] /\ idOf'[w] = idOf[w]
      BY <1>5, <2>3
    <3> QED BY <3>1, <1>0
  <2> QED BY <2>2, <2>3
<1> QED BY <1>2, <1>4, <1>5, <1>6, <1>7

(* A call that ends leaves the turn of every other busy call alone.        *)
LEMMA Returned ==
    ASSUME CallsTyped, Turns, NEW c \in Calls, U!Return(c), U!ComputerAssumption
    PROVE  CallsTyped' /\ Turns'
<1>1. U!Idle \in U!Call
  BY DEF U!Idle, U!Call, U!Unseen, U!Saw
<1>2. queue' \in Seq(Calls)
  BY DEF CallsTyped, U!Return, U!Running
<1>3. CallsTyped'
  BY <1>1, <1>2 DEF CallsTyped, U!Return
<1>4. Turns'
  <2> SUFFICES ASSUME NEW d \in Calls, tool'[d].pc \in Busy
               PROVE  U!Running(d)'
    BY DEF Turns
  <2>1. tool' = [tool EXCEPT ![c] = U!Idle] /\ tool \in [Calls -> U!Call]
    BY DEF U!Return, CallsTyped
  <2>2. d # c
    BY <2>1 DEF U!Idle, Busy
  <2>3. tool[d].pc \in Busy
    BY <2>1, <2>2
  <2>4. queue # <<>> /\ Head(queue) = d
    BY <2>3 DEF Turns, U!Running
  <2>5. ~U!Running(c)
    BY <2>2, <2>4 DEF U!Running
  <2>6. queue' = queue
    BY <2>5 DEF U!Return
  <2> QED BY <2>4, <2>6 DEF U!Running
<1> QED BY <1>3, <1>4

(* A call that has the turn takes a step.                                  *)
LEMMA MovedOn ==
    ASSUME CallsTyped, Turns, NEW c \in Calls, U!Running(c), UNCHANGED <<queue, started>>,
           NEW r \in U!Call, tool' = [tool EXCEPT ![c] = r]
    PROVE  CallsTyped' /\ Turns'
<1>1. CallsTyped'
  BY DEF CallsTyped
<1>2. Turns'
  <2> SUFFICES ASSUME NEW d \in Calls, tool'[d].pc \in Busy
               PROVE  U!Running(d)'
    BY DEF Turns
  <2>1. CASE d = c
    BY <2>1 DEF U!Running
  <2>2. CASE d # c
    <3>1. tool[d].pc \in Busy
      BY <2>2 DEF CallsTyped
    <3> QED BY <3>1 DEF Turns, U!Running
  <2> QED BY <2>1, <2>2
<1> QED BY <1>1, <1>2

(* Besides the call that has the turn, none is busy.                       *)
LEMMA Alone ==
    ASSUME Turns, NEW c \in Calls, U!Running(c)
    PROVE  \A d \in Calls \ {c} : tool[d].pc \notin Busy
  BY DEF Turns, U!Running

-----------------------------------------------------------------------------
(* Type correctness, action by action.                                     *)

LEMMA InitTypes == ASSUME U!ComputerAssumption, U!Init PROVE U!TypeOK
<1>1. U!Idle \in U!Call /\ U!Idle.pc \notin Busy
  BY DEF U!Idle, U!Call, U!Unseen, U!Saw, Busy
<1>2. Registries
  BY DEF U!Init, Registries, U!ComputerAssumption
<1>3. CallsTyped
  BY <1>1 DEF U!Init, CallsTyped
<1>4. Turns
  BY <1>1 DEF U!Init, Turns
<1> QED BY <1>2, <1>3, <1>4, TypeParts

(* What leaves the registries alone.                                       *)
LEMMA SameRegistries ==
    ASSUME Registries, UNCHANGED <<shown, U!known, U!generations, U!observed, U!history>>
    PROVE  Registries'
  BY DEF Registries, U!known, U!generations, U!observed, U!history

(* Observations disappear, generations advance.                            *)
LEMMA RegistriesKept ==
    ASSUME Registries, UNCHANGED <<shown, U!known, U!history>>,
           generation' \in [U!Ids -> Nat], globalGeneration' \in Nat,
           observations' = observations, record' \in [U!Observations -> U!Record \cup {None}]
    PROVE  Registries'
  BY DEF Registries, U!known, U!history

LEMMA AttemptTyped ==
    ASSUME Registries, CallsTyped, NEW c \in Calls, U!Attempted(c),
           UNCHANGED <<shown, U!known, U!generations, U!observed>>
    PROVE  Registries'
<1>1. changes \in [Windows -> Nat] /\ inputs \in Nat
  BY DEF Registries
<1>2. changes' \in [Windows -> Nat]
  <2>1. changes' = [changes EXCEPT ![tool[c].window] = changes[tool[c].window] + 1]
    BY DEF U!Attempted
  <2>2. CASE tool[c].window \in Windows
    <3>1. changes[tool[c].window] + 1 \in Nat
      BY <1>1, <2>2
    <3> QED BY <1>1, <2>1, <3>1
  <2>3. CASE tool[c].window \notin Windows
    BY <1>1, <2>1, <2>3
  <2> QED BY <2>2, <2>3
<1>3. inputs' \in Nat
  BY <1>1 DEF U!Attempted
<1> QED BY <1>2, <1>3 DEF Registries, U!known, U!generations, U!observed

LEMMA AdvanceTyped ==
    ASSUME Registries, CallsTyped, NEW c \in Calls, U!Advanced(c)
    PROVE  generation' \in [U!Ids -> Nat] /\ globalGeneration' \in Nat
<1>1. generation \in [U!Ids -> Nat] /\ globalGeneration \in Nat
  BY DEF Registries
<1>2. generation' \in [U!Ids -> Nat]
  <2>1. generation' = [generation EXCEPT ![tool[c].id] = generation[tool[c].id] + 1]
    BY DEF U!Advanced
  <2>2. CASE tool[c].id \in U!Ids
    <3>1. generation[tool[c].id] + 1 \in Nat
      BY <1>1, <2>2
    <3> QED BY <1>1, <2>1, <3>1
  <2>3. CASE tool[c].id \notin U!Ids
    BY <1>1, <2>1, <2>3
  <2> QED BY <2>2, <2>3
<1>3. globalGeneration' \in Nat
  BY <1>1 DEF U!Advanced
<1> QED BY <1>2, <1>3

LEMMA RecordTyped ==
    ASSUME Registries, NEW o
    PROVE  [record EXCEPT ![o] = None] \in [U!Observations -> U!Record \cup {None}]
  BY DEF Registries

LEMMA IdsTyped == ASSUME Registries PROVE ids \in Nat /\ idOf \in [Windows -> 0..ids]
  BY DEF Registries

(* A call as it is in call, with another step.                             *)
LEMMA StepTyped ==
    ASSUME CallsTyped, Turns, NEW c \in Calls, U!Running(c), NEW step, U!Step(c, step),
           step \in {"acting", "acted", "inspecting"}
    PROVE  CallsTyped' /\ Turns'
<1> DEFINE r == [tool[c] EXCEPT !.pc = step]
<1>1. r \in U!Call
  BY DEF CallsTyped, U!Call
<1>2. tool' = [tool EXCEPT ![c] = r] /\ UNCHANGED <<queue, started>>
  BY DEF U!Step, CallsTyped
<1> HIDE DEF r
<1> QED BY <1>1, <1>2, MovedOn

LEMMA ObserveTyped ==
    ASSUME U!ComputerAssumption, Registries, CallsTyped, Turns, NEW c \in Calls, U!Running(c),
           NEW w \in Windows, NEW lease \in HeldLeases \cup {None}, U!Observe(c, w, lease)
    PROVE  Registries' /\ CallsTyped' /\ Turns'
<1>1. /\ ids' \in ids..MaxIds /\ idOf' \in [Windows -> 0..ids']
      /\ \A u, v \in Windows : idOf'[u] = idOf'[v] /\ idOf'[u] # 0 => u = v
      /\ idOf'[w] # 0
  <2>1. U!IssueIds({w})
    BY DEF U!Observe
  <2> QED BY <2>1, Issued
<1>2. ids \in Nat /\ MaxIds \in Nat /\ MaxObservations \in Nat
  BY IdsTyped DEF U!ComputerAssumption
<1>3. idOf'[w] \in U!Ids
  BY <1>1, <1>2 DEF U!Ids
<1>4. observations \in 0..MaxObservations /\ observations < MaxObservations
      /\ observations' = observations + 1
  BY DEF U!Observe, Registries
<1>5. observations' \in 0..MaxObservations
  BY <1>2, <1>4
<1> DEFINE new == [id |-> idOf'[w], generation |-> generation[idOf'[w]],
                   globalGeneration |-> globalGeneration, lease |-> lease,
                   saw |-> [changes |-> changes[w], inputs |-> inputs]]
<1>6. new \in U!Record
  <2>1. generation[idOf'[w]] \in Nat /\ globalGeneration \in Nat
    BY <1>3 DEF Registries
  <2>2. [changes |-> changes[w], inputs |-> inputs] \in U!Saw
    BY DEF Registries, U!Saw
  <2> QED BY <1>3, <2>1, <2>2 DEF U!Record
<1>7. record' = [record EXCEPT ![observations'] = new]
  BY DEF U!Observe
<1> HIDE DEF new
<1>8. record' \in [U!Observations -> U!Record \cup {None}]
  BY <1>6, <1>7 DEF Registries
<1>9. shown' = shown /\ generation' = generation /\ globalGeneration' = globalGeneration
      /\ changes' = changes /\ inputs' = inputs
  BY DEF U!Observe, U!generations, U!history
<1>10. ids' \in 0..MaxIds
  BY <1>1, <1>2
<1>11. Registries'
  BY <1>1, <1>5, <1>8, <1>9, <1>10 DEF Registries
<1>12. U!Step(c, "inspecting")
  BY DEF U!Observe
<1> QED BY <1>11, <1>12, StepTyped

(* The actions a call takes until it has its turn, and lists of windows.   *)
LEMMA WaitingTyped ==
    ASSUME U!ComputerAssumption, Registries, CallsTyped, Turns, NEW c \in Calls
    PROVE  /\ \A op \in {"windows", "snapshot", "act"}, id \in 0..ids, o \in 0..observations,
                 global \in BOOLEAN, lease \in HeldLeases \cup {None} :
                 U!Invoke(c, op, id, o, global, lease) => Registries' /\ CallsTyped' /\ Turns'
           /\ U!ListWindows(c) => Registries' /\ CallsTyped' /\ Turns'
           /\ U!Offer(c) => Registries' /\ CallsTyped' /\ Turns'
<1>0. /\ queue \in Seq(Calls) /\ tool \in [Calls -> U!Call] /\ started \in Nat
      /\ shown \subseteq Windows /\ ids \in 0..MaxIds /\ observations \in 0..MaxObservations
      /\ MaxIds \in Nat /\ MaxObservations \in Nat
  BY DEF Registries, CallsTyped, U!ComputerAssumption
<1>1. ASSUME NEW op \in {"windows", "snapshot", "act"}, NEW id \in 0..ids,
             NEW o \in 0..observations, NEW global \in BOOLEAN,
             NEW lease \in HeldLeases \cup {None},
             U!Invoke(c, op, id, o, global, lease)
      PROVE  Registries' /\ CallsTyped' /\ Turns'
  <2> DEFINE r == [U!Idle EXCEPT !.op = op, !.pc = "queued", !.id = id,
                               !.observation = o, !.global = global, !.lease = lease]
  <2>1. r \in U!Call /\ r.pc \notin Busy
    <3>1. id \in U!Ids \cup {0} /\ o \in U!Observations \cup {0}
      BY <1>0 DEF U!Ids, U!Observations
    <3> QED BY <3>1 DEF U!Idle, U!Call, U!Unseen, U!Saw, Busy
  <2>2. tool' = [tool EXCEPT ![c] = r] /\ queue' = Append(queue, c) /\ started' = started + 1
    BY <1>1 DEF U!Invoke
  <2> HIDE DEF r
  <2>3. CallsTyped'
    BY <1>0, <2>1, <2>2 DEF CallsTyped
  <2>4. Turns'
    <3> SUFFICES ASSUME NEW d \in Calls, tool'[d].pc \in Busy
                 PROVE  U!Running(d)'
      BY DEF Turns
    <3>1. d # c /\ tool[d].pc \in Busy
      BY <1>0, <2>1, <2>2
    <3>2. queue # <<>> /\ Head(queue) = d
      BY <3>1 DEF Turns, U!Running
    <3>3. queue' # <<>> /\ Head(queue') = d
      BY <1>0, <2>2, <3>2
    <3> QED BY <3>3 DEF U!Running
  <2>5. Registries'
    BY <1>1, SameRegistries DEF U!Invoke
  <2> QED BY <2>3, <2>4, <2>5
<1>2. ASSUME U!ListWindows(c) PROVE Registries' /\ CallsTyped' /\ Turns'
  <2> DEFINE r == [tool[c] EXCEPT !.pc = "listed", !.listed = shown]
  <2>1. r \in U!Call /\ r.pc \notin Busy
    BY <1>0 DEF U!Call, Busy
  <2>2. tool' = [tool EXCEPT ![c] = r] /\ started' = started
    <3>1. tool' = [tool EXCEPT ![c].pc = "listed", ![c].listed = shown]
      BY <1>2 DEF U!ListWindows
    <3> QED BY <1>0, <1>2, <3>1 DEF U!ListWindows
  <2> HIDE DEF r
  <2>3. queue' = queue \/ queue' = Tail(queue)
    BY <1>2 DEF U!ListWindows
  <2>4. queue # <<>> /\ Head(queue) = c
    BY <1>2 DEF U!ListWindows, U!Running
  <2>5. queue' \in Seq(Calls)
    BY <1>0, <2>3, <2>4
  <2>6. CallsTyped'
    BY <1>0, <2>1, <2>2, <2>5 DEF CallsTyped
  <2>7. Turns'
    <3> SUFFICES ASSUME NEW d \in Calls, tool'[d].pc \in Busy
                 PROVE  FALSE
      BY DEF Turns
    <3>1. d # c /\ tool[d].pc \in Busy
      BY <1>0, <2>1, <2>2
    <3> QED BY <2>4, <3>1 DEF Turns, U!Running
  <2>8. Registries'
    BY <1>2, SameRegistries DEF U!ListWindows
  <2> QED BY <2>6, <2>7, <2>8
<1>3. ASSUME U!Offer(c) PROVE Registries' /\ CallsTyped' /\ Turns'
  <2>1. PICK ws \in SUBSET tool[c].listed : U!IssueIds(ws)
    BY <1>3 DEF U!Offer
  <2>2. ws \in SUBSET Windows
    BY <1>0, <2>1 DEF U!Call
  <2>3. /\ ids' \in ids..MaxIds /\ idOf' \in [Windows -> 0..ids']
        /\ \A v, w \in Windows : idOf'[v] = idOf'[w] /\ idOf'[v] # 0 => v = w
    BY <2>1, <2>2, Issued
  <2>4. ids' \in 0..MaxIds
    BY <1>0, <2>3
  <2>5. UNCHANGED <<shown, generation, globalGeneration, observations, record, changes, inputs>>
    BY <1>3 DEF U!Offer, U!generations, U!observed, U!history
  <2>6. Registries'
    BY <2>3, <2>4, <2>5 DEF Registries
  <2>7. U!Return(c)
    BY <1>3 DEF U!Offer
  <2> QED BY <2>6, <2>7, Returned
<1> QED BY <1>1, <1>2, <1>3

(* The actions of snapshots and acts, and of the rest of the machine.      *)
LEMMA NextTypes ==
    ASSUME U!ComputerAssumption, U!TypeOK, [U!Next]_(U!vars)
    PROVE  U!TypeOK'
<1>0. Registries /\ CallsTyped /\ Turns
  BY TypeParts
<1> SUFFICES Registries' /\ CallsTyped' /\ Turns'
  BY DEF U!TypeOK, Registries, CallsTyped, Turns, Busy, U!Running
<1> USE <1>0
<1>r. /\ record \in [U!Observations -> U!Record \cup {None}] /\ generation \in [U!Ids -> Nat]
      /\ globalGeneration \in Nat
  BY DEF Registries
<1>c. tool \in [Calls -> U!Call]
  BY DEF CallsTyped
<1>1. ASSUME NEW c \in Calls, NEW op \in {"windows", "snapshot", "act"}, NEW id \in 0..ids,
             NEW o \in 0..observations, NEW global \in BOOLEAN,
             NEW lease \in HeldLeases \cup {None},
             U!Invoke(c, op, id, o, global, lease)
      PROVE  Registries' /\ CallsTyped' /\ Turns'
  BY <1>1, WaitingTyped
<1>2. ASSUME NEW c \in Calls, NEW w \in Windows, U!Snapshot(c, w)
      PROVE  Registries' /\ CallsTyped' /\ Turns'
  <2>1. U!Running(c) /\ U!Observe(c, w, tool[c].lease) /\ tool[c].lease \in HeldLeases \cup {None}
    BY <1>2, <1>c DEF U!Snapshot, U!Call
  <2> QED BY <2>1, ObserveTyped
<1>3. ASSUME NEW c \in Calls, NEW w \in Windows, U!Refuse(c, w)
      PROVE  Registries' /\ CallsTyped' /\ Turns'
  <2>1. record' \in [U!Observations -> U!Record \cup {None}]
    BY <1>3, RecordTyped DEF U!Refuse
  <2>2. Registries'
    BY <1>3, <1>r, <2>1, RegistriesKept DEF U!Refuse, U!generations
  <2> QED BY <1>3, <2>2, Returned DEF U!Refuse
<1>4. ASSUME NEW c \in Calls, NEW w \in Windows, U!Consume(c, w)
      PROVE  Registries' /\ CallsTyped' /\ Turns'
  <2>1. record' \in [U!Observations -> U!Record \cup {None}]
    BY <1>4, RecordTyped DEF U!Consume
  <2> DEFINE q == record[tool[c].observation]
  <2>2. /\ q # None /\ U!Fits(c, q)
        /\ IF q.lease = None THEN U!Advanced(c) ELSE UNCHANGED U!generations
        /\ tool' = [tool EXCEPT ![c].pc = IF q.lease = None THEN "acting" ELSE "leased",
                                ![c].window = w, ![c].lease = q.lease, ![c].saw = q.saw]
    BY <1>4 DEF U!Consume
  <2>3. generation' \in [U!Ids -> Nat] /\ globalGeneration' \in Nat
    <3>1. CASE q.lease = None
      BY <2>2, <3>1, AdvanceTyped
    <3>2. CASE q.lease # None
      BY <2>2, <3>2, <1>r DEF U!generations
    <3> QED BY <3>1, <3>2
  <2>4. Registries'
    BY <1>4, <2>1, <2>3, RegistriesKept DEF U!Consume
  <2>5. q \in U!Record
    <3>1. tool[c].observation \in U!Observations
      BY <1>4, <1>c DEF U!Consume, U!Call
    <3> QED BY <1>r, <2>2, <3>1
  <2>6. q.lease \in HeldLeases \cup {None} /\ q.saw \in U!Saw
    BY <2>5 DEF U!Record
  <2> DEFINE r == [tool[c] EXCEPT !.pc = IF q.lease = None THEN "acting" ELSE "leased",
                                  !.window = w, !.lease = q.lease, !.saw = q.saw]
  <2>7. r \in U!Call
    BY <1>c, <2>6 DEF U!Call
  <2>8. tool' = [tool EXCEPT ![c] = r]
    BY <1>c, <2>2
  <2>9. U!Running(c) /\ UNCHANGED <<queue, started>>
    BY <1>4 DEF U!Consume
  <2> HIDE DEF r, q
  <2>10. CallsTyped' /\ Turns'
    BY <2>7, <2>8, <2>9, MovedOn
  <2> QED BY <2>4, <2>10
<1>5. ASSUME NEW c \in Calls, U!ListWindows(c) \/ U!Offer(c)
      PROVE  Registries' /\ CallsTyped' /\ Turns'
  BY <1>5, WaitingTyped
<1>6. ASSUME NEW c \in Calls, U!Unresolved(c)
      PROVE  Registries' /\ CallsTyped' /\ Turns'
  <2>1. idOf' = [w \in Windows |-> IF idOf[w] = tool[c].id THEN 0 ELSE idOf[w]]
    BY <1>6 DEF U!Unresolved
  <2>2. ids \in 0..MaxIds /\ idOf \in [Windows -> 0..ids]
        /\ \A v, w \in Windows : idOf[v] = idOf[w] /\ idOf[v] # 0 => v = w
    BY DEF Registries
  <2>3. idOf' \in [Windows -> 0..ids]
    BY <2>1, <2>2 DEF U!ComputerAssumption
  <2>4. \A v, w \in Windows : idOf'[v] = idOf'[w] /\ idOf'[v] # 0 => v = w
    BY <2>1, <2>2
  <2>5. Registries'
    BY <1>6, <2>3, <2>4 DEF U!Unresolved, Registries, U!generations, U!observed, U!history
  <2> QED BY <1>6, <2>5, Returned DEF U!Unresolved
<1>7. ASSUME NEW c \in Calls, U!Inspected(c) \/ U!ObserveNothing(c) \/ U!Fails(c)
      PROVE  Registries' /\ CallsTyped' /\ Turns'
  <2>1. U!Return(c) /\ UNCHANGED <<shown, U!known, U!generations, U!observed, U!history>>
    BY <1>7 DEF U!Inspected, U!ObserveNothing, U!Fails
  <2> QED BY <2>1, Returned, SameRegistries
<1>8. ASSUME NEW c \in Calls, U!OnLease(c)
      PROVE  Registries' /\ CallsTyped' /\ Turns'
  <2>1. U!Running(c)
    BY <1>8 DEF U!OnLease, Turns, Busy
  <2>2. CallsTyped' /\ Turns'
    BY <1>8, <2>1, StepTyped DEF U!OnLease
  <2>3. generation' \in [U!Ids -> Nat] /\ globalGeneration' \in Nat
    BY <1>8, AdvanceTyped DEF U!OnLease
  <2>4. Registries'
    BY <1>8, <1>r, <2>3, RegistriesKept DEF U!OnLease, U!observed
  <2> QED BY <2>2, <2>4
<1>9. ASSUME NEW c \in Calls, U!Act(c)
      PROVE  Registries' /\ CallsTyped' /\ Turns'
  <2>1. U!Running(c)
    BY <1>9 DEF U!Act, Turns, Busy
  <2>2. CallsTyped' /\ Turns'
    BY <1>9, <2>1, StepTyped DEF U!Act
  <2> QED BY <1>9, <2>2, AttemptTyped DEF U!Act
<1>10. ASSUME NEW c \in Calls, U!ActFails(c)
      PROVE  Registries' /\ CallsTyped' /\ Turns'
  BY <1>10, AttemptTyped, Returned DEF U!ActFails
<1>11. ASSUME NEW c \in Calls, U!ForgetWindow(c)
      PROVE  Registries' /\ CallsTyped' /\ Turns'
  <2>1. generation' \in [U!Ids -> Nat]
    BY <1>11, <1>r DEF U!ForgetWindow
  <2>2. record' \in [U!Observations -> U!Record \cup {None}]
    BY <1>11, <1>r DEF U!ForgetWindow
  <2>3. Registries'
    BY <1>11, <1>r, <2>1, <2>2, RegistriesKept DEF U!ForgetWindow
  <2> QED BY <1>11, <2>3, Returned DEF U!ForgetWindow
<1>12. ASSUME NEW c \in Calls, U!ObserveAfter(c)
      PROVE  Registries' /\ CallsTyped' /\ Turns'
  <2>1. U!Running(c)
    BY <1>12 DEF U!ObserveAfter, Turns, Busy
  <2>2. tool[c].window \in Windows /\ tool[c].lease \in HeldLeases \cup {None}
    BY <1>12, <1>c DEF U!ObserveAfter, U!Call, Registries
  <2> QED BY <1>12, <2>1, <2>2, ObserveTyped DEF U!ObserveAfter
<1>13. ASSUME U!Prune
      PROVE  Registries' /\ CallsTyped' /\ Turns'
  <2>1. UNCHANGED <<queue, tool, started>>
    BY <1>13 DEF U!Prune, U!calls
  <2>2. CallsTyped' /\ Turns'
    BY <2>1 DEF CallsTyped, Turns, U!Running
  <2>3. UNCHANGED <<shown, ids, generation, globalGeneration, observations, changes, inputs>>
    BY <1>13 DEF U!Prune, U!generations, U!history
  <2>4. CASE \E w \in Windows : idOf' = [idOf EXCEPT ![w] = 0] /\ UNCHANGED record
    <3>1. PICK w \in Windows : idOf' = [idOf EXCEPT ![w] = 0] /\ UNCHANGED record
      BY <2>4
    <3>2. /\ ids \in 0..MaxIds /\ idOf \in [Windows -> 0..ids] /\ MaxIds \in Nat
          /\ \A u, v \in Windows : idOf[u] = idOf[v] /\ idOf[u] # 0 => u = v
      BY DEF Registries, U!ComputerAssumption
    <3>3. idOf' \in [Windows -> 0..ids]
      BY <3>1, <3>2
    <3>4. \A u, v \in Windows : idOf'[u] = idOf'[v] /\ idOf'[u] # 0 => u = v
      BY <3>1, <3>2
    <3>5. Registries'
      BY <2>3, <3>1, <3>3, <3>4 DEF Registries
    <3> QED BY <2>2, <3>5
  <2>5. CASE \E o \in U!Observations : record' = [record EXCEPT ![o] = None] /\ UNCHANGED idOf
    <3>1. record' \in [U!Observations -> U!Record \cup {None}] /\ UNCHANGED idOf
      BY <2>5, RecordTyped
    <3>2. Registries'
      BY <2>3, <3>1 DEF Registries
    <3> QED BY <2>2, <3>2
  <2> QED BY <1>13, <2>4, <2>5 DEF U!Prune
<1>14. ASSUME NEW w \in Windows, U!ScreenChanges(w)
      PROVE  Registries' /\ CallsTyped' /\ Turns'
  <2>1. UNCHANGED <<queue, tool, started>>
    BY <1>14 DEF U!ScreenChanges, U!calls
  <2>2. CallsTyped' /\ Turns'
    BY <2>1 DEF CallsTyped, Turns, U!Running
  <2>3. UNCHANGED <<idOf, ids, generation, globalGeneration, observations, record, changes, inputs>>
    BY <1>14 DEF U!ScreenChanges, U!known, U!generations, U!observed, U!history
  <2>4. shown' \subseteq Windows
    BY <1>14 DEF U!ScreenChanges, Registries
  <2>5. Registries'
    BY <2>3, <2>4 DEF Registries
  <2> QED BY <2>2, <2>5
<1>15. ASSUME UNCHANGED U!vars
      PROVE  Registries' /\ CallsTyped' /\ Turns'
  <2>1. UNCHANGED <<shown, U!known, U!generations, U!observed, U!history>>
        /\ UNCHANGED <<queue, tool, started>>
    BY <1>15 DEF U!vars, U!calls
  <2>2. CallsTyped' /\ Turns'
    BY <2>1 DEF CallsTyped, Turns, U!Running
  <2> QED BY <2>1, <2>2, SameRegistries
<1> QED
  BY <1>1, <1>2, <1>3, <1>4, <1>5, <1>6, <1>7, <1>8, <1>9, <1>10, <1>11, <1>12, <1>13,
     <1>14, <1>15 DEF U!Next

-----------------------------------------------------------------------------
(* What observations saw.  The parts of RecordsSound and ActsSound.        *)
SoundRecord(o) ==
    /\ record[o].id <= ids
    /\ record[o].generation <= generation[record[o].id]
    /\ record[o].globalGeneration <= globalGeneration
    /\ record[o].generation = generation[record[o].id]
          /\ record[o].globalGeneration = globalGeneration
          => \A w \in Windows : idOf[w] = record[o].id => U!Sees(record[o], w)

SoundAct(c) ==
    /\ tool[c].window \in Windows /\ tool[c].id # 0
    /\ U!Sees(tool[c], tool[c].window)
    /\ tool[c].lease # None => ~tool[c].global
    /\ \/ idOf[tool[c].window] = tool[c].id
       \/ \A o \in U!Observations :
             record[o] # None => record[o].id # idOf[tool[c].window]

Ahead(c) ==
    \A o \in U!Observations :
        record[o] # None =>
            /\ record[o].id = tool[c].id => record[o].generation < generation[tool[c].id]
            /\ tool[c].global => record[o].globalGeneration < globalGeneration

LEMMA SoundRecords ==
    U!RecordsSound <=> \A o \in U!Observations : record[o] # None => SoundRecord(o)
  BY DEF U!RecordsSound, SoundRecord

LEMMA SoundActs ==
    U!ActsSound <=> \A c \in Calls :
                     /\ tool[c].pc \in {"leased", "acting"} => SoundAct(c)
                     /\ tool[c].pc = "acting" => Ahead(c)
  BY DEF U!ActsSound, SoundAct, Ahead

(* Nothing is attempted and nothing advances; capabilities are issued or   *)
(* given up.                                                               *)
Quiet ==
    /\ ids' \in Nat /\ ids <= ids'
    /\ \A w \in Windows : idOf'[w] = idOf[w] \/ idOf'[w] = 0 \/ idOf'[w] > ids
    /\ UNCHANGED <<generation, globalGeneration, changes, inputs>>

LEMMA RecordTypes ==
    ASSUME Registries, NEW o \in U!Observations, record[o] # None
    PROVE  /\ record[o] \in U!Record /\ record[o].id \in U!Ids
           /\ record[o].generation \in Nat /\ record[o].globalGeneration \in Nat
<1>1. record[o] \in U!Record
  BY DEF Registries
<1> QED BY <1>1 DEF U!Record

(* An observation that stays is sound whatever happens to the others.      *)
LEMMA RecordKept ==
    ASSUME Registries, Quiet, NEW o \in U!Observations, record[o] # None,
           record'[o] = record[o], SoundRecord(o)
    PROVE  SoundRecord(o)'
<1> DEFINE r == record[o]
<1>1. ids \in Nat /\ r.id \in Nat /\ r.id # 0 /\ r.id <= ids
  BY RecordTypes DEF Registries, U!Ids, SoundRecord
<1>2. r.id <= ids'
  BY <1>1 DEF Quiet
<1>3. r.generation <= generation'[r.id] /\ r.globalGeneration <= globalGeneration'
  BY DEF Quiet, SoundRecord
<1>4. \A w \in Windows : idOf'[w] = r.id => idOf[w] = r.id
  BY <1>1 DEF Quiet
<1>5. ASSUME r.generation = generation'[r.id], r.globalGeneration = globalGeneration',
             NEW w \in Windows, idOf'[w] = r.id
      PROVE  r.saw = [changes |-> changes'[w], inputs |-> inputs']
  BY <1>4, <1>5 DEF Quiet, SoundRecord, U!Sees
<1> QED BY <1>2, <1>3, <1>5 DEF SoundRecord, U!Sees

(* Observations may disappear.                                             *)
LEMMA RecordsKept ==
    ASSUME Registries, U!RecordsSound, Quiet,
           \A o \in U!Observations : record'[o] = None \/ record'[o] = record[o]
    PROVE  U!RecordsSound'
<1>1. ASSUME NEW o \in U!Observations, record'[o] # None
      PROVE  SoundRecord(o)'
  <2>1. record'[o] = record[o] /\ record[o] # None /\ SoundRecord(o)
    BY <1>1, SoundRecords
  <2> QED BY <2>1, RecordKept
<1> QED BY <1>1 DEF U!RecordsSound, SoundRecord

(* And every act that is under way is as it was or ends.                   *)
LEMMA ActsKept ==
    ASSUME Registries, U!RecordsSound, U!ActsSound, Quiet,
           \A o \in U!Observations : record'[o] = None \/ record'[o] = record[o],
           \A c \in Calls : tool'[c] = tool[c] \/ tool'[c].pc \notin {"leased", "acting"}
    PROVE  U!ActsSound'
<1>1. ASSUME NEW c \in Calls, tool'[c].pc \in {"leased", "acting"}
      PROVE  /\ SoundAct(c)'
             /\ tool'[c].pc = "acting" => Ahead(c)'
  <2>1. tool'[c] = tool[c] /\ SoundAct(c) /\ (tool[c].pc = "acting" => Ahead(c))
    BY <1>1, SoundActs
  <2>2. U!Sees(tool[c], tool[c].window)'
    BY <2>1 DEF SoundAct, U!Sees, Quiet
  <2>3. \/ idOf'[tool[c].window] = tool[c].id
        \/ \A o \in U!Observations : record'[o] # None => record'[o].id # idOf'[tool[c].window]
    <3> DEFINE w == tool[c].window
    <3>1. w \in Windows /\ ids \in Nat
      BY <2>1 DEF SoundAct, Registries
    <3>2. CASE idOf'[w] = idOf[w]
      BY <2>1, <3>2 DEF SoundAct
    <3>3. CASE idOf'[w] = 0 \/ idOf'[w] > ids
      <4> SUFFICES ASSUME NEW o \in U!Observations, record'[o] # None
                   PROVE  record'[o].id # idOf'[w]
        OBVIOUS
      <4>1. record'[o] = record[o] /\ record[o] # None
        OBVIOUS
      <4>2. record[o].id \in Nat /\ record[o].id # 0 /\ record[o].id <= ids
        BY <4>1, RecordTypes, SoundRecords DEF U!Ids, SoundRecord
      <4> QED BY <3>1, <3>3, <4>1, <4>2
    <3> QED BY <3>1, <3>2, <3>3 DEF Quiet
  <2>4. SoundAct(c)'
    BY <2>1, <2>2, <2>3 DEF SoundAct
  <2>5. tool[c].pc = "acting" => Ahead(c)'
    BY <2>1 DEF Ahead, Quiet
  <2> QED BY <2>1, <2>4, <2>5
<1> QED BY <1>1 DEF U!ActsSound, SoundAct, Ahead

-----------------------------------------------------------------------------
(* The steps that observe, advance, act and forget.                        *)

(* Nobody acts.                                                            *)
LEMMA NobodyActs ==
    ASSUME \A c \in Calls : tool'[c].pc \notin {"leased", "acting"}
    PROVE  U!ActsSound'
  BY DEF U!ActsSound

(* The record of a new observation is sound: what it saw is what there is. *)
LEMMA ObserveSound ==
    ASSUME U!ComputerAssumption, Registries, CallsTyped, Turns, U!RecordsSound,
           NEW c \in Calls, U!Running(c), NEW w \in Windows, NEW lease,
           U!Observe(c, w, lease)
    PROVE  U!RecordsSound' /\ U!ActsSound'
<1>1. /\ ids' \in ids..MaxIds /\ idOf' \in [Windows -> 0..ids']
      /\ \A u, v \in Windows : idOf'[u] = idOf'[v] /\ idOf'[u] # 0 => u = v
      /\ \A v \in Windows : idOf'[v] = idOf[v] \/ idOf'[v] > ids
      /\ idOf'[w] # 0
  <2>1. U!IssueIds({w})
    BY DEF U!Observe
  <2> QED BY <2>1, Issued
<1>2. UNCHANGED <<generation, globalGeneration, changes, inputs>>
  BY DEF U!Observe, U!generations, U!history
<1>3. Quiet
  BY <1>1, <1>2 DEF Quiet, U!ComputerAssumption, Registries
<1> DEFINE n == observations'
           r == [id |-> idOf'[w], generation |-> generation[idOf'[w]],
                 globalGeneration |-> globalGeneration, lease |-> lease,
                 saw |-> [changes |-> changes[w], inputs |-> inputs]]
<1>4. n \in U!Observations /\ record' = [record EXCEPT ![n] = r]
  BY DEF U!Observe, Registries, U!Observations, U!ComputerAssumption
<1>5. record'[n] = r /\ \A o \in U!Observations \ {n} : record'[o] = record[o]
  BY <1>4 DEF Registries
<1>6. /\ r.id = idOf'[w] /\ r.generation = generation[idOf'[w]]
      /\ r.globalGeneration = globalGeneration
      /\ r.saw = [changes |-> changes[w], inputs |-> inputs]
  OBVIOUS
<1>7. idOf'[w] \in U!Ids /\ idOf'[w] <= ids' /\ generation[idOf'[w]] \in Nat
      /\ globalGeneration \in Nat
  BY <1>1 DEF U!Ids, Registries, U!ComputerAssumption
<1> HIDE DEF r, n
<1>8. ASSUME NEW o \in U!Observations, record'[o] # None
      PROVE  SoundRecord(o)'
  <2>1. CASE o = n
    <3>1. \A v \in Windows : idOf'[v] = r.id => v = w
      BY <1>1, <1>6
    <3>2. record'[o] = r
      BY <1>5, <2>1
    <3>3. r.id <= ids' /\ r.generation <= generation'[r.id]
          /\ r.globalGeneration <= globalGeneration'
      BY <1>2, <1>6, <1>7
    <3>4. ASSUME NEW v \in Windows, idOf'[v] = r.id
          PROVE  r.saw = [changes |-> changes'[v], inputs |-> inputs']
      BY <1>2, <1>6, <3>1, <3>4
    <3> QED BY <3>2, <3>3, <3>4 DEF SoundRecord, U!Sees
  <2>2. CASE o # n
    <3>1. record'[o] = record[o] /\ record[o] # None
      BY <1>5, <1>8, <2>2
    <3>2. SoundRecord(o)
      BY <3>1, SoundRecords
    <3> QED BY <1>3, <3>1, <3>2, RecordKept
  <2> QED BY <2>1, <2>2
<1>9. U!RecordsSound'
  BY <1>8 DEF U!RecordsSound, SoundRecord
<1>10. \A d \in Calls : tool'[d].pc \notin {"leased", "acting"}
  <2>1. tool' = [tool EXCEPT ![c].pc = "inspecting"] /\ tool \in [Calls -> U!Call]
    BY DEF U!Observe, U!Step, CallsTyped
  <2>2. tool'[c].pc = "inspecting"
    BY <2>1 DEF U!Call
  <2>3. \A d \in Calls \ {c} : tool'[d].pc = tool[d].pc
    BY <2>1
  <2> QED BY <2>2, <2>3, Alone DEF Busy
<1> QED BY <1>9, <1>10, NobodyActs

(* What is sound stays sound when a window is about to be acted on, and    *)
(* no observation of it has its new generation.                            *)
LEMMA AdvanceSound ==
    ASSUME Registries, CallsTyped, U!RecordsSound, NEW c \in Calls, tool[c].id # 0, U!Advanced(c),
           \A o \in U!Observations : record'[o] = None \/ record'[o] = record[o],
           UNCHANGED <<U!known, U!history>>
    PROVE  /\ U!RecordsSound'
           /\ \A o \in U!Observations :
                 record'[o] # None =>
                    /\ record'[o].id = tool[c].id
                          => record'[o].generation < generation'[tool[c].id]
                    /\ tool[c].global => record'[o].globalGeneration < globalGeneration'
<1> DEFINE i == tool[c].id
<1>1. i \in U!Ids /\ generation \in [U!Ids -> Nat] /\ globalGeneration \in Nat
      /\ tool[c].global \in BOOLEAN
  BY DEF CallsTyped, U!Call, Registries
<1>2. generation' = [generation EXCEPT ![i] = generation[i] + 1]
  BY DEF U!Advanced
<1>3. generation'[i] = generation[i] + 1
      /\ \A j \in U!Ids \ {i} : generation'[j] = generation[j]
  BY <1>1, <1>2
<1>4. /\ tool[c].global => globalGeneration' = globalGeneration + 1
      /\ ~tool[c].global => globalGeneration' = globalGeneration
  BY <1>1 DEF U!Advanced
<1>5. UNCHANGED <<idOf, ids, changes, inputs>>
  BY DEF U!known, U!history
<1> HIDE DEF i
<1>6. ASSUME NEW o \in U!Observations, record'[o] # None
      PROVE  /\ SoundRecord(o)'
             /\ record'[o].id = i => record'[o].generation < generation'[i]
             /\ tool[c].global => record'[o].globalGeneration < globalGeneration'
  <2> DEFINE r == record[o]
  <2>1. record'[o] = r /\ record[o] # None
    BY <1>6
  <2>2. SoundRecord(o)
    BY <2>1, SoundRecords
  <2>3. r.id \in U!Ids /\ r.generation \in Nat /\ r.globalGeneration \in Nat
    BY <2>1, RecordTypes
  <2>4. /\ r.id <= ids
        /\ r.generation <= generation[r.id] /\ r.globalGeneration <= globalGeneration
        /\ r.generation = generation[r.id] /\ r.globalGeneration = globalGeneration
              => \A w \in Windows : idOf[w] = r.id => U!Sees(r, w)
    BY <2>2 DEF SoundRecord
  <2> HIDE DEF r
  <2>5. r.id = i => r.generation < generation'[i]
    BY <1>1, <1>3, <2>3, <2>4
  <2>6. tool[c].global => r.globalGeneration < globalGeneration'
    BY <1>1, <1>4, <2>3, <2>4
  <2>7. r.generation <= generation'[r.id] /\ r.globalGeneration <= globalGeneration'
    <3>1. r.generation <= generation'[r.id]
      BY <1>1, <1>3, <2>3, <2>4, <2>5
    <3>2. r.globalGeneration <= globalGeneration'
      BY <1>1, <1>4, <2>3, <2>4, <2>6
    <3> QED BY <3>1, <3>2
  <2>8. ASSUME r.generation = generation'[r.id], r.globalGeneration = globalGeneration',
               NEW w \in Windows, idOf'[w] = r.id
        PROVE  r.saw = [changes |-> changes'[w], inputs |-> inputs']
    <3>1. r.id # i
      BY <1>1, <1>3, <2>3, <2>5, <2>8
    <3>2. ~tool[c].global
      BY <1>1, <1>4, <2>3, <2>6, <2>8
    <3>3. r.generation = generation[r.id] /\ r.globalGeneration = globalGeneration
      BY <1>3, <1>4, <2>3, <2>8, <3>1, <3>2
    <3>4. r.saw = [changes |-> changes[w], inputs |-> inputs]
      BY <1>5, <2>4, <2>8, <3>3 DEF U!Sees
    <3> QED BY <1>5, <3>4
  <2>10. SoundRecord(o)'
    BY <1>5, <2>1, <2>4, <2>7, <2>8 DEF SoundRecord, U!Sees
  <2> QED BY <2>1, <2>5, <2>6, <2>10
<1>7. U!RecordsSound'
  BY <1>6 DEF U!RecordsSound, SoundRecord
<1> QED BY <1>6, <1>7 DEF i

(* After the attempt every observation of the window, or of any window if  *)
(* it was global input, is stale.                                          *)
LEMMA AttemptSound ==
    ASSUME Registries, CallsTyped, U!RecordsSound, U!ActsSound, NEW c \in Calls,
           tool[c].pc = "acting", U!Attempted(c), UNCHANGED <<U!known, U!generations, U!observed>>
    PROVE  U!RecordsSound'
<1> DEFINE v == tool[c].window
<1>1. SoundAct(c) /\ Ahead(c)
  BY SoundActs
<1>2. v \in Windows /\ changes \in [Windows -> Nat] /\ inputs \in Nat
      /\ tool[c].global \in BOOLEAN
  BY <1>1 DEF SoundAct, Registries, CallsTyped, U!Call
<1>3. /\ \A w \in Windows \ {v} : changes'[w] = changes[w]
      /\ ~tool[c].global => inputs' = inputs
  BY <1>2 DEF U!Attempted
<1>4. UNCHANGED <<idOf, ids, generation, globalGeneration, record>>
  BY DEF U!known, U!generations, U!observed
<1>5. ASSUME NEW o \in U!Observations, record[o] # None
      PROVE  SoundRecord(o)'
  <2> DEFINE r == record[o]
  <2>1. SoundRecord(o)
    BY <1>5, SoundRecords
  <2>2. r.id \in U!Ids /\ r.generation \in Nat /\ r.globalGeneration \in Nat
    BY <1>5, RecordTypes
  <2>3. /\ r.id = tool[c].id => r.generation < generation[tool[c].id]
        /\ tool[c].global => r.globalGeneration < globalGeneration
    BY <1>1, <1>5 DEF Ahead
  <2>4. generation \in [U!Ids -> Nat] /\ globalGeneration \in Nat
    BY DEF Registries
  <2>5. ASSUME r.generation = generation[r.id], r.globalGeneration = globalGeneration,
               NEW w \in Windows, idOf[w] = r.id
        PROVE  r.saw = [changes |-> changes'[w], inputs |-> inputs']
    <3>1. r.id # tool[c].id /\ ~tool[c].global
      BY <2>2, <2>3, <2>4, <2>5
    <3>2. w # v
      BY <1>1, <1>5, <2>5, <3>1 DEF SoundAct
    <3>3. r.saw = [changes |-> changes[w], inputs |-> inputs]
      BY <2>1, <2>5 DEF SoundRecord, U!Sees
    <3> QED BY <1>3, <3>1, <3>2, <3>3
  <2> QED BY <1>4, <2>1, <2>5 DEF SoundRecord, U!Sees
<1> QED BY <1>4, <1>5 DEF U!RecordsSound, SoundRecord

(* Its generation starts again, and no observation of it is left.          *)
LEMMA ForgetSound ==
    ASSUME Registries, CallsTyped, U!RecordsSound, NEW c \in Calls, U!ForgetWindow(c)
    PROVE  U!RecordsSound'
<1> DEFINE i == tool[c].id
<1>1. /\ generation' = [generation EXCEPT ![i] = 0]
      /\ record' = [o \in U!Observations |->
                      IF record[o] # None /\ record[o].id = i THEN None ELSE record[o]]
      /\ UNCHANGED <<idOf, ids, globalGeneration, changes, inputs>>
  BY DEF U!ForgetWindow, U!known, U!history
<1> HIDE DEF i
<1>2. ASSUME NEW o \in U!Observations, record'[o] # None
      PROVE  SoundRecord(o)'
  <2>1. record'[o] = record[o] /\ record[o] # None /\ record[o].id # i
    BY <1>1, <1>2
  <2>2. SoundRecord(o) /\ record[o].id \in U!Ids
    BY <2>1, SoundRecords, RecordTypes
  <2>3. generation'[record[o].id] = generation[record[o].id]
    BY <1>1, <2>1, <2>2 DEF Registries
  <2> QED BY <1>1, <2>1, <2>2, <2>3 DEF SoundRecord, U!Sees
<1> QED BY <1>2 DEF U!RecordsSound, SoundRecord

(* An observation that fits saw what there is.                             *)
LEMMA ConsumeSound ==
    ASSUME Registries, CallsTyped, Turns, U!RecordsSound, NEW c \in Calls, NEW w \in Windows,
           U!Consume(c, w)
    PROVE  U!RecordsSound' /\ U!ActsSound'
<1> DEFINE o == tool[c].observation
           r == record[o]
<1>1. U!Running(c) /\ U!Named(c, w) /\ UNCHANGED <<shown, U!known, observations, U!history>>
      /\ record' = [record EXCEPT ![o] = None]
  BY DEF U!Consume
<1>2. /\ r # None /\ U!Fits(c, r)
      /\ IF r.lease = None THEN U!Advanced(c) ELSE UNCHANGED U!generations
      /\ tool' = [tool EXCEPT ![c].pc = IF r.lease = None THEN "acting" ELSE "leased",
                              ![c].window = w, ![c].lease = r.lease, ![c].saw = r.saw]
  BY DEF U!Consume
<1>3. o \in U!Observations
  BY DEF U!Consume, CallsTyped, U!Call
<1>4. r \in U!Record /\ r.id \in U!Ids /\ SoundRecord(o)
  BY <1>2, <1>3, RecordTypes, SoundRecords
<1>5. /\ r.id = tool[c].id /\ r.generation = generation[r.id]
      /\ r.globalGeneration = globalGeneration /\ (r.lease = None \/ ~tool[c].global)
  BY <1>2 DEF U!Fits
<1>6. idOf[w] = tool[c].id /\ tool[c].id # 0
  BY <1>1, <1>4, <1>5 DEF U!Named, U!Ids
<1>7. r.saw = [changes |-> changes[w], inputs |-> inputs]
  BY <1>4, <1>5, <1>6 DEF SoundRecord, U!Sees
<1>8. /\ tool'[c].pc = IF r.lease = None THEN "acting" ELSE "leased"
      /\ tool'[c].window = w /\ tool'[c].lease = r.lease /\ tool'[c].saw = r.saw
      /\ tool'[c].id = tool[c].id /\ tool'[c].global = tool[c].global
      /\ \A d \in Calls \ {c} : tool'[d] = tool[d]
  <2>1. tool \in [Calls -> U!Call]
    BY DEF CallsTyped
  <2> QED BY <1>2, <2>1 DEF U!Call
<1>9. \A d \in Calls \ {c} : tool'[d].pc \notin {"leased", "acting"}
  BY <1>1, <1>8, Alone DEF Busy
<1>10. UNCHANGED <<idOf, ids, changes, inputs>>
  BY <1>1 DEF U!known, U!history
<1>11. \A p \in U!Observations : record'[p] = None \/ record'[p] = record[p]
  BY <1>1 DEF Registries
<1> HIDE DEF r, o
<1>12. SoundAct(c)'
  BY <1>5, <1>6, <1>7, <1>8, <1>10 DEF SoundAct, U!Sees
<1>13. CASE r.lease = None
  <2>1. U!Advanced(c)
    BY <1>2, <1>13
  <2>2. /\ U!RecordsSound'
        /\ \A p \in U!Observations :
              record'[p] # None =>
                 /\ record'[p].id = tool[c].id => record'[p].generation < generation'[tool[c].id]
                 /\ tool[c].global => record'[p].globalGeneration < globalGeneration'
    BY <1>1, <1>6, <1>11, <2>1, AdvanceSound
  <2>3. Ahead(c)'
    BY <1>8, <2>2 DEF Ahead
  <2>4. U!ActsSound'
    BY <1>9, <1>12, <2>3 DEF U!ActsSound, SoundAct, Ahead
  <2> QED BY <2>2, <2>4
<1>14. CASE r.lease # None
  <2>1. UNCHANGED U!generations
    BY <1>2, <1>14
  <2>2. Quiet
    BY <1>10, <2>1 DEF Quiet, U!generations, Registries
  <2>3. U!RecordsSound'
    BY <1>11, <2>2, RecordsKept
  <2>4. tool'[c].pc # "acting"
    BY <1>8, <1>14
  <2>5. U!ActsSound'
    BY <1>9, <1>12, <2>4 DEF U!ActsSound, SoundAct
  <2> QED BY <2>3, <2>5
<1> QED BY <1>13, <1>14

LEMMA OnLeaseSound ==
    ASSUME Registries, CallsTyped, Turns, U!RecordsSound, U!ActsSound, NEW c \in Calls, U!OnLease(c)
    PROVE  U!RecordsSound' /\ U!ActsSound'
<1>1. tool[c].pc = "leased" /\ U!Advanced(c) /\ UNCHANGED <<idOf, ids, record, changes, inputs>>
      /\ UNCHANGED <<U!known, U!history>>
  BY DEF U!OnLease, U!known, U!observed, U!history
<1>2. SoundAct(c)
  BY <1>1, SoundActs
<1>3. /\ U!RecordsSound'
      /\ \A o \in U!Observations :
            record'[o] # None =>
               /\ record'[o].id = tool[c].id => record'[o].generation < generation'[tool[c].id]
               /\ tool[c].global => record'[o].globalGeneration < globalGeneration'
  BY <1>1, <1>2, AdvanceSound DEF SoundAct
<1>4. tool'[c] = [tool[c] EXCEPT !.pc = "acting"] /\ \A d \in Calls \ {c} : tool'[d] = tool[d]
  BY DEF U!OnLease, U!Step, CallsTyped
<1>5. /\ tool'[c].window = tool[c].window /\ tool'[c].id = tool[c].id
      /\ tool'[c].saw = tool[c].saw /\ tool'[c].lease = tool[c].lease
      /\ tool'[c].global = tool[c].global
  BY <1>4 DEF CallsTyped, U!Call
<1>6. SoundAct(c)'
  BY <1>1, <1>2, <1>5 DEF SoundAct, U!Sees
<1>7. Ahead(c)'
  BY <1>3, <1>5 DEF Ahead
<1>8. U!Running(c)
  BY <1>1 DEF Turns, Busy
<1>9. \A d \in Calls \ {c} : tool'[d].pc \notin {"leased", "acting"}
  BY <1>4, <1>8, Alone DEF Busy
<1> QED BY <1>3, <1>6, <1>7, <1>9 DEF U!ActsSound, SoundAct, Ahead

-----------------------------------------------------------------------------
(* The inductive invariant and what it implies.                            *)

LEMMA InitSound == ASSUME U!ComputerAssumption, U!Init PROVE U!RecordsSound /\ U!ActsSound
<1>1. U!RecordsSound
  BY DEF U!Init, U!RecordsSound
<1>2. \A c \in Calls : tool[c].pc = "idle"
  BY DEF U!Init, U!Idle
<1>3. U!ActsSound
  BY <1>2 DEF U!ActsSound
<1> QED BY <1>1, <1>3

(* The steps that neither observe nor act: observations and capabilities   *)
(* disappear or are issued, and calls start, wait and end.                 *)
LEMMA OthersSound ==
    ASSUME U!ComputerAssumption, Registries, CallsTyped, Turns, U!RecordsSound, U!ActsSound,
           Quiet, \A o \in U!Observations : record'[o] = None \/ record'[o] = record[o],
           \A c \in Calls : tool'[c] = tool[c] \/ tool'[c].pc \notin {"leased", "acting"}
    PROVE  U!RecordsSound' /\ U!ActsSound'
  BY RecordsKept, ActsKept

(* A call ends, and nothing else is done.                                  *)
LEMMA ReturnSound ==
    ASSUME U!ComputerAssumption, Registries, CallsTyped, Turns, U!RecordsSound, U!ActsSound,
           NEW c \in Calls, U!Return(c), Quiet,
           \A o \in U!Observations : record'[o] = None \/ record'[o] = record[o]
    PROVE  U!RecordsSound' /\ U!ActsSound'
<1>1. \A d \in Calls : tool'[d] = tool[d] \/ tool'[d] = U!Idle
  BY DEF U!Return, CallsTyped
<1>2. U!Idle.pc = "idle"
  BY DEF U!Idle
<1> QED BY <1>1, <1>2, OthersSound

(* The step from an acting call leaves nobody acting.                      *)
LEMMA ActEnds ==
    ASSUME CallsTyped, Turns, NEW c \in Calls, tool[c].pc \in Busy,
           U!Return(c) \/ U!Step(c, "acted")
    PROVE  U!ActsSound'
<1>1. \A d \in Calls \ {c} : tool'[d] = tool[d] /\ tool[d].pc \notin Busy
  <2>1. U!Running(c)
    BY DEF Turns
  <2> QED BY <2>1, Alone DEF U!Return, U!Step, CallsTyped
<1>2. tool'[c].pc \in {"idle", "acted"}
  BY DEF U!Return, U!Step, CallsTyped, U!Call, U!Idle
<1> QED BY <1>1, <1>2, NobodyActs DEF Busy

LEMMA NextSound ==
    ASSUME U!ComputerAssumption, U!IInv, [U!Next]_(U!vars)
    PROVE  U!RecordsSound' /\ U!ActsSound'
<1>0. Registries /\ CallsTyped /\ Turns /\ U!RecordsSound /\ U!ActsSound
  BY TypeParts DEF U!IInv
<1> USE <1>0
<1>t. ids \in Nat /\ tool \in [Calls -> U!Call] /\ U!Idle.pc = "idle"
  BY DEF Registries, CallsTyped, U!Idle
<1>q. ASSUME UNCHANGED <<U!known, U!generations, U!history>>
      PROVE  Quiet
  BY <1>q, <1>t DEF Quiet, U!known, U!generations, U!history
<1>1. ASSUME NEW c \in Calls, NEW op, NEW id, NEW o, NEW global, NEW lease,
             U!Invoke(c, op, id, o, global, lease)
      PROVE  U!RecordsSound' /\ U!ActsSound'
  <2> DEFINE r == [U!Idle EXCEPT !.op = op, !.pc = "queued", !.id = id,
                               !.observation = o, !.global = global, !.lease = lease]
  <2>1. tool' = [tool EXCEPT ![c] = r] /\ r.pc = "queued"
    BY <1>1 DEF U!Invoke, U!Idle
  <2> HIDE DEF r
  <2>2. \A d \in Calls : tool'[d] = tool[d] \/ tool'[d].pc \notin {"leased", "acting"}
    BY <1>t, <2>1
  <2>3. UNCHANGED <<U!known, U!generations, U!observed, U!history>>
    BY <1>1 DEF U!Invoke
  <2> QED BY <1>q, <2>2, <2>3, OthersSound DEF U!observed
<1>2. ASSUME NEW c \in Calls, NEW w \in Windows, U!Snapshot(c, w)
      PROVE  U!RecordsSound' /\ U!ActsSound'
  BY <1>2, ObserveSound DEF U!Snapshot
<1>3. ASSUME NEW c \in Calls, NEW w \in Windows, U!Refuse(c, w)
      PROVE  U!RecordsSound' /\ U!ActsSound'
  <2>1. U!Return(c) /\ record' = [record EXCEPT ![tool[c].observation] = None]
        /\ UNCHANGED <<U!known, U!generations, U!history>>
    BY <1>3 DEF U!Refuse
  <2>2. \A o \in U!Observations : record'[o] = None \/ record'[o] = record[o]
    BY <2>1 DEF Registries
  <2> QED BY <1>q, <2>1, <2>2, ReturnSound
<1>4. ASSUME NEW c \in Calls, NEW w \in Windows, U!Consume(c, w)
      PROVE  U!RecordsSound' /\ U!ActsSound'
  BY <1>4, ConsumeSound
<1>5. ASSUME NEW c \in Calls, U!ListWindows(c)
      PROVE  U!RecordsSound' /\ U!ActsSound'
  <2>1. tool' = [tool EXCEPT ![c].pc = "listed", ![c].listed = shown]
        /\ UNCHANGED <<U!known, U!generations, U!observed, U!history>>
    BY <1>5 DEF U!ListWindows
  <2>2. \A d \in Calls : tool'[d] = tool[d] \/ tool'[d].pc \notin {"leased", "acting"}
    BY <1>t, <2>1 DEF U!Call
  <2> QED BY <1>q, <2>1, <2>2, OthersSound DEF U!observed
<1>6. ASSUME NEW c \in Calls, U!Offer(c)
      PROVE  U!RecordsSound' /\ U!ActsSound'
  <2>1. PICK ws \in SUBSET tool[c].listed : U!IssueIds(ws)
    BY <1>6 DEF U!Offer
  <2>2. ws \in SUBSET Windows
    BY <1>t, <2>1 DEF U!Call
  <2>3. ids' \in ids..MaxIds /\ \A w \in Windows : idOf'[w] = idOf[w] \/ idOf'[w] > ids
    BY <2>1, <2>2, Issued
  <2>4. U!Return(c) /\ UNCHANGED <<U!generations, U!observed, U!history>>
    BY <1>6 DEF U!Offer
  <2>5. Quiet
    BY <1>t, <2>3, <2>4 DEF Quiet, U!generations, U!history, U!ComputerAssumption
  <2> QED BY <2>4, <2>5, ReturnSound DEF U!observed
<1>7. ASSUME NEW c \in Calls, U!Unresolved(c)
      PROVE  U!RecordsSound' /\ U!ActsSound'
  <2>1. /\ idOf' = [w \in Windows |-> IF idOf[w] = tool[c].id THEN 0 ELSE idOf[w]]
        /\ U!Return(c) /\ UNCHANGED <<ids, U!generations, U!observed, U!history>>
    BY <1>7 DEF U!Unresolved
  <2>2. Quiet
    BY <1>t, <2>1 DEF Quiet, U!generations, U!history
  <2> QED BY <2>1, <2>2, ReturnSound DEF U!observed
<1>8. ASSUME NEW c \in Calls, U!Inspected(c) \/ U!ObserveNothing(c) \/ U!Fails(c)
      PROVE  U!RecordsSound' /\ U!ActsSound'
  <2>1. U!Return(c) /\ UNCHANGED <<U!known, U!generations, U!observed, U!history>>
    BY <1>8 DEF U!Inspected, U!ObserveNothing, U!Fails
  <2> QED BY <1>q, <2>1, ReturnSound DEF U!observed
<1>9. ASSUME NEW c \in Calls, U!OnLease(c)
      PROVE  U!RecordsSound' /\ U!ActsSound'
  BY <1>9, OnLeaseSound
<1>10. ASSUME NEW c \in Calls, U!Act(c) \/ U!ActFails(c)
       PROVE  U!RecordsSound' /\ U!ActsSound'
  <2>1. /\ tool[c].pc = "acting" /\ U!Attempted(c)
        /\ UNCHANGED <<U!known, U!generations, U!observed>>
        /\ U!Return(c) \/ U!Step(c, "acted")
    BY <1>10 DEF U!Act, U!ActFails
  <2>2. U!RecordsSound'
    BY <2>1, AttemptSound
  <2>3. U!ActsSound'
    BY <2>1, ActEnds DEF Busy
  <2> QED BY <2>2, <2>3
<1>11. ASSUME NEW c \in Calls, U!ForgetWindow(c)
       PROVE  U!RecordsSound' /\ U!ActsSound'
  <2>1. tool[c].pc = "acted" /\ U!Return(c)
    BY <1>11 DEF U!ForgetWindow
  <2>2. U!ActsSound'
    BY <2>1, ActEnds DEF Busy
  <2> QED BY <1>11, <2>2, ForgetSound
<1>12. ASSUME NEW c \in Calls, U!ObserveAfter(c)
       PROVE  U!RecordsSound' /\ U!ActsSound'
  <2>1. U!Running(c) /\ tool[c].window \in Windows
        /\ U!Observe(c, tool[c].window, tool[c].lease)
    BY <1>12 DEF U!ObserveAfter, Turns, Busy, Registries
  <2> QED BY <2>1, ObserveSound
<1>13. ASSUME U!Prune
       PROVE  U!RecordsSound' /\ U!ActsSound'
  <2>1. UNCHANGED <<ids, U!generations, U!calls, U!history>>
        /\ \/ \E w \in Windows : idOf' = [idOf EXCEPT ![w] = 0] /\ UNCHANGED record
           \/ \E o \in U!Observations : record' = [record EXCEPT ![o] = None] /\ UNCHANGED idOf
    BY <1>13 DEF U!Prune
  <2>2. \A w \in Windows : idOf'[w] = idOf[w] \/ idOf'[w] = 0
    BY <2>1 DEF Registries
  <2>3. \A o \in U!Observations : record'[o] = None \/ record'[o] = record[o]
    BY <2>1 DEF Registries
  <2>4. Quiet
    BY <1>t, <2>1, <2>2 DEF Quiet, U!generations, U!history
  <2>5. tool' = tool
    BY <2>1 DEF U!calls
  <2> QED BY <2>3, <2>4, <2>5, OthersSound
<1>14. ASSUME (\E w \in Windows : U!ScreenChanges(w)) \/ UNCHANGED U!vars
       PROVE  U!RecordsSound' /\ U!ActsSound'
  <2>1. UNCHANGED <<U!known, U!generations, U!observed, U!calls, U!history>>
    BY <1>14 DEF U!ScreenChanges, U!vars
  <2> QED BY <1>q, <2>1, OthersSound DEF U!observed, U!calls
<1> QED
  BY <1>1, <1>2, <1>3, <1>4, <1>5, <1>6, <1>7, <1>8, <1>9, <1>10, <1>11, <1>12, <1>13,
     <1>14 DEF U!Next

(* The first state.                                                        *)
LEMMA ComputerInit == ASSUME U!ComputerAssumption, U!Init PROVE U!IInv
  BY InitTypes, InitSound DEF U!IInv

(* Every step keeps the invariant.                                         *)
LEMMA ComputerStep ==
    ASSUME U!ComputerAssumption, U!IInv, [U!Next]_(U!vars) PROVE U!IInv'
<1>1. U!TypeOK'
  BY NextTypes DEF U!IInv
<1>2. U!RecordsSound' /\ U!ActsSound'
  BY NextSound
<1> QED BY <1>1, <1>2 DEF U!IInv

(* Every reachable state has the inductive invariant: what an observation  *)
(* saw is what there is while both generations are the ones it has.        *)
THEOREM ComputerInvariance == ASSUME U!ComputerAssumption PROVE U!Spec => []U!IInv
<1>1. U!Init => U!IInv
  BY ComputerInit
<1>2. U!IInv /\ [U!Next]_(U!vars) => U!IInv'
  BY ComputerStep
<1> QED BY <1>1, <1>2, PTL DEF U!Spec

(* No two windows share a capability, and only the call whose turn it is   *)
(* inspects a window or acts on it (ComputerUseCoordinator.exclusive).     *)
THEOREM ComputerTypes == ASSUME U!ComputerAssumption PROVE U!Spec => []U!TypeOK
<1>1. U!IInv => U!TypeOK
  BY DEF U!IInv
<1> QED BY <1>1, ComputerInvariance, PTL

(* An act is carried out on what its client saw: nothing was attempted on  *)
(* the window, and no global input on any, since the observation that it   *)
(* consumed.                                                               *)
THEOREM ComputerActsOnWhatWasSeen ==
    ASSUME U!ComputerAssumption PROVE U!Spec => []U!ActsOnWhatWasSeen
<1>1. U!IInv => U!ActsOnWhatWasSeen
  BY DEF U!IInv, U!ActsSound, U!ActsOnWhatWasSeen, U!Sees
<1> QED BY <1>1, ComputerInvariance, PTL
=============================================================================
