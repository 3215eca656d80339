------------------------- MODULE InstallationProofs -------------------------
(***************************************************************************)
(* Proofs about Installation for every number of releases, Setups,         *)
(* failures and deaths.                                                    *)
(***************************************************************************)
EXTENDS Installation, TLAPS

----------------------------------------------------------------------------
(* Directories *)

\* An incomplete deletion takes entries and nothing else.
LEMMA DamagedIs ==
  ASSUME NEW d \in Directory, extracted \in Nat, d.changed <= Now, NEW e \in Damaged(d)
  PROVE  /\ e \in Directory /\ e.age = d.age /\ e.version = d.version
         /\ e.changed \in d.changed..Now
         /\ e.payload = "whole" => e = d
         /\ e.payload # "broken" => d.payload # "broken"
<1> Now \in Nat
  BY DEF Now
<1>1. CASE e = d
  BY <1>1 DEF Directory
<1>2. ASSUME NEW p \in {"trimmed", "broken"}, NEW t \in {d.changed, Now},
             p = "trimmed" => Valid(d),
             e = [version |-> d.version, age |-> d.age, changed |-> t, payload |-> p]
      PROVE  /\ e \in Directory /\ e.age = d.age /\ e.version = d.version
             /\ e.changed \in d.changed..Now
             /\ e.payload = "whole" => e = d
             /\ e.payload # "broken" => d.payload # "broken"
  BY <1>2 DEF Directory, Payload, Valid
<1>3. QED
  BY <1>1, <1>2 DEF Damaged

\* What the deletion of the program directory leaves.
LEMMA DeleteLiveLeaves ==
  ASSUME TypeOK, DeleteLive
  PROVE  live' \in Damaged(live) \cup {None} /\ faults' \in {faults, faults + 1}
  BY DEF DeleteLive, Fault, NoFault

\* What the deletion of a backup leaves.
LEMMA DeleteBackupLeaves ==
  ASSUME TypeOK, NEW b \in Directory, DeleteBackup(b)
  PROVE  /\ backups' = backups \ {b} \/ \E d \in Damaged(b) : backups' = (backups \ {b}) \cup {d}
         /\ faults' \in {faults, faults + 1}
  BY DEF DeleteBackup, Fault, NoFault

\* Dated is about the directories and the last extraction only.
LEMMA DatedSame ==
  ASSUME TypeOK, UNCHANGED disk, extracted' \in {extracted, extracted + 1}
  PROVE  Dated'
  BY DEF TypeOK, Typed, Dated, Present, Now, disk, Directory

\* Whatever the deletion of the program directory leaves, numbers and times agree.
LEMMA LiveDeleted ==
  ASSUME TypeOK, live # None, live' \in Damaged(live) \cup {None},
         backups' = backups, extracted' = extracted
  PROVE  live' \in Directory \cup {None} /\ Dated'
<1>1. live \in Directory /\ live.changed <= Now /\ live \in Present
  BY DEF TypeOK, Typed, Dated, Present, Directory
<1>2. CASE live' = None
  BY <1>1, <1>2 DEF TypeOK, Typed, Dated, Present, Now, Directory
<1>3. CASE live' \in Damaged(live)
  <2>1. /\ live' \in Directory /\ live'.age = live.age
        /\ live'.changed \in live.changed..Now
        /\ live'.payload = "whole" => live' = live
    BY <1>1, <1>3, DamagedIs DEF TypeOK, Typed
  <2>2. Present' \subseteq Present \cup {live'}
    BY DEF Present
  <2>3. \A d \in backups : d.age # live'.age
    BY <2>1 DEF TypeOK, Dated
  <2>4. QED
    BY <1>1, <2>1, <2>2, <2>3 DEF TypeOK, Typed, Dated, Now, Directory
<1>4. QED
  BY <1>2, <1>3

\* The same for the deletion of a backup.
LEMMA BackupDeleted ==
  ASSUME TypeOK, NEW b \in backups, live' = live, extracted' = extracted,
         \/ backups' = backups \ {b}
         \/ \E d \in Damaged(b) : backups' = (backups \ {b}) \cup {d}
  PROVE  backups' \subseteq Directory /\ Dated'
<1>1. b \in Directory /\ b.changed <= Now /\ b \in Present
  BY DEF TypeOK, Typed, Dated, Present, Directory
<1>2. CASE backups' = backups \ {b}
  BY <1>1, <1>2 DEF TypeOK, Typed, Dated, Present, Now, Directory
<1>3. ASSUME NEW d \in Damaged(b), backups' = (backups \ {b}) \cup {d}
      PROVE  backups' \subseteq Directory /\ Dated'
  <2>1. /\ d \in Directory /\ d.age = b.age /\ d.changed \in b.changed..Now
        /\ d.payload = "whole" => d = b
    BY <1>1, DamagedIs DEF TypeOK, Typed
  <2>2. Present' \subseteq Present \cup {d}
    BY <1>3 DEF Present
  <2>3. \A e \in backups \ {b} : e.age # d.age
    BY <2>1 DEF TypeOK, Dated
  <2>4. live # None => d.age # live.age
    BY <2>1 DEF TypeOK, Dated
  <2>5. \A e, f \in backups' : e.age = f.age => e = f
    BY <1>3, <2>3 DEF TypeOK, Dated
  <2>6. QED
    BY <1>1, <1>3, <2>1, <2>2, <2>4, <2>5 DEF TypeOK, Typed, Dated, Now, Directory
<1>4. QED
  BY <1>2, <1>3

\* A backup that is moved to its place.
LEMMA BackupMoved ==
  ASSUME TypeOK, NEW b \in backups, live = None, live' = b, backups' = backups \ {b},
         extracted' = extracted
  PROVE  live' \in Directory /\ backups' \subseteq Directory /\ Dated'
<1>1. Present' = Present /\ b \in Directory
  BY NoneAssumption DEF Present, TypeOK, Typed
<1>2. QED
  BY <1>1 DEF TypeOK, Typed, Dated, Now

----------------------------------------------------------------------------
(* Type correctness *)

\* A step of the panel other than the launch of Setup.
PanelStep ==
  \/ Start \/ Stop \/ RestorePendingSafeProfile \/ LaunchFails
  \/ \E p \in Profile : ChangeProfile(p)
  \/ \E v \in Version : WritePending(v)

\* What the panel does changes no directory and nothing of Setup.
LEMMA PanelFrame ==
  ASSUME PanelStep
  PROVE  UNCHANGED <<disk, setup, extracted, committed, misjudged, setups, crashes>>
  BY DEF PanelStep, Start, Stop, RestorePendingSafeProfile, LaunchFails, ChangeProfile,
     WritePending, ghosts, counters

\* Settings hold a profile, whichever of the writes fails.
LEMMA SettingsTyped ==
  ASSUME Typed, NEW p \in Profile, SaveSettings(p) \/ LoadSettings(p)
  PROVE  /\ settings' \in [now : Profile, before : Profile \cup {None}]
         /\ faults' \in Nat
<1>1. CASE SaveSettings(p)
  BY <1>1 DEF SaveSettings, Typed, Fault, NoFault
<1>2. CASE LoadSettings(p)
  BY <1>2 DEF LoadSettings, Typed, Fault, NoFault
<1>3. QED
  BY <1>1, <1>2

\* A panel that opens has a version, a profile and a record to hold for.
LEMMA OpenTyped ==
  ASSUME NEW v \in Version, NEW p \in Profile, NEW r \in Pending \cup {None},
         NEW m \in {"normal", "hold", "holdProfile"}, m = "holdProfile" => r \in Pending,
         Open(v, p, m, r)
  PROVE  PanelTyped'
  BY DEF Open, PanelTyped

\* A step of the panel writes settings and records of their types only.
LEMMA PanelStepTyped ==
  ASSUME TypeOK, PanelStep
  PROVE  Typed'
<1> USE DEF TypeOK, Typed
<1>1. /\ live' \in Directory \cup {None} /\ backups' \subseteq Directory
      /\ SetupTyped' /\ extracted' = extracted /\ committed' = committed
      /\ misjudged' = misjudged /\ setups' = setups /\ crashes' = crashes
  BY PanelFrame DEF disk, SetupTyped
<1>2. ASSUME Start PROVE Typed'
  <2>1. PICK p \in Profile :
          /\ LoadSettings(p)
          /\ \/ Open(live.version, p, "normal", None) /\ pending' \in {None, pending}
             \/ \E m \in {"hold", "holdProfile"} :
                  pending # None /\ Open(live.version, p, m, pending) /\ UNCHANGED pending
    BY <1>2 DEF Start, EvaluatePendingUpdate
  <2>2. live.version \in Version
    BY <1>2 DEF Start, Directory
  <2>3. PanelTyped' /\ pending' \in Pending \cup {None}
    BY <2>1, <2>2, OpenTyped
  <2>4. settings' \in [now : Profile, before : Profile \cup {None}] /\ faults' \in Nat
    BY <2>1, SettingsTyped
  <2>5. owed' \in {None, owed} /\ changes' = changes
    BY <1>2 DEF Start
  <2>6. QED
    BY <1>1, <2>3, <2>4, <2>5
<1>3. ASSUME Stop PROVE Typed'
  BY <1>1, <1>3 DEF Stop, Closed, PanelTyped, ghosts, counters
<1>4. ASSUME RestorePendingSafeProfile PROVE Typed'
  <2>1. panel.record \in Pending /\ panel.record.profile \in Profile /\ panel.version \in Version
    BY <1>4 DEF RestorePendingSafeProfile, Pending, PanelTyped, Closed
  <2>2. PanelTyped'
    BY <1>4, <2>1, OpenTyped DEF RestorePendingSafeProfile
  <2>3. settings' \in [now : Profile, before : Profile \cup {None}] /\ faults' \in Nat
    BY <1>4, <2>1 DEF RestorePendingSafeProfile, ClearPending, Fault, NoFault
  <2>4. pending' \in {None, pending} /\ owed' \in {None, owed} /\ changes' = changes
    BY <1>4 DEF RestorePendingSafeProfile, ClearPending
  <2>5. QED
    BY <1>1, <2>2, <2>3, <2>4
<1>5. ASSUME LaunchFails PROVE Typed'
  <2>1. pending' \in {None, pending} /\ faults' \in Nat
    BY <1>5 DEF LaunchFails, ClearPending, Fault, NoFault
  <2>2. /\ panel' = [panel EXCEPT !.mode = "normal", !.record = None]
        /\ panel.version \in Version /\ panel.profile \in Profile
    BY <1>5 DEF LaunchFails, PanelTyped, Closed
  <2>3. UNCHANGED <<settings, owed, changes>>
    BY <1>5 DEF LaunchFails, ghosts
  <2>4. PanelTyped'
    BY <2>2 DEF PanelTyped, Closed
  <2>5. QED
    BY <1>1, <2>1, <2>3, <2>4
<1>6. ASSUME NEW p \in Profile, ChangeProfile(p) PROVE Typed'
  <2>1. settings' \in [now : Profile, before : Profile \cup {None}] /\ faults' \in Nat
    BY <1>6, SettingsTyped DEF ChangeProfile
  <2>2. /\ panel' = [panel EXCEPT !.profile = p]
        /\ panel.version \in Version /\ panel.mode = "normal"
    BY <1>6 DEF ChangeProfile, PanelTyped, Closed
  <2>3. UNCHANGED <<pending, owed>> /\ changes' \in Nat
    BY <1>6 DEF ChangeProfile, ghosts
  <2>4. PanelTyped'
    BY <2>2 DEF PanelTyped, Closed
  <2>5. QED
    BY <1>1, <2>1, <2>3, <2>4
<1>7. ASSUME NEW v \in Version, WritePending(v) PROVE Typed'
  <2>1. [previous |-> panel.version, expected |-> v, profile |-> panel.profile] \in Pending
    BY <1>7 DEF WritePending, Pending, PanelTyped, Closed
  <2>2. /\ pending' = [previous |-> panel.version, expected |-> v, profile |-> panel.profile]
        /\ panel' = [panel EXCEPT !.mode = "launching", !.record = pending']
        /\ panel.version \in Version /\ panel.profile \in Profile
        /\ UNCHANGED <<settings, owed, changes, faults>>
    BY <1>7 DEF WritePending, PanelTyped, Closed, ghosts, counters
  <2>3. PanelTyped'
    BY <2>1, <2>2 DEF PanelTyped
  <2>4. QED
    BY <1>1, <2>1, <2>2, <2>3
<1>8. QED
  BY <1>2, <1>3, <1>4, <1>5, <1>6, <1>7 DEF PanelStep

\* What no step of Setup changes.
LEMMA SetupLeaves ==
  ASSUME SetupStep
  PROVE  UNCHANGED <<pending, settings, setups, changes, crashes>>
  BY DEF SetupStep, SetupFrame, Recover, Clear, Restore, Drop, Extract, Backup, Activate,
     Register, Commit, Rollback, PutBack

\* A step of Setup that keeps its own types keeps all.
LEMMA SetupRest ==
  ASSUME TypeOK, SetupStep, SetupTyped', Dated',
         live' \in Directory \cup {None}, backups' \subseteq Directory,
         panel' \in {panel, Closed}, faults' \in Nat,
         extracted' \in Nat, committed' \in 0..extracted', misjudged' \in BOOLEAN,
         owed' \in Version \cup {None}
  PROVE  TypeOK'
<1>1. UNCHANGED <<pending, settings, setups, changes, crashes>>
  BY SetupLeaves
<1>2. PanelTyped'
  BY DEF TypeOK, Typed, PanelTyped, Closed
<1>3. QED
  BY <1>1, <1>2 DEF TypeOK, Typed

\* Failures are counted.
LEMMA FaultTyped ==
  ASSUME TypeOK, Fault \/ NoFault \/ faults' = faults \/ faults' \in {faults, faults + 1}
  PROVE  faults' \in Nat
  BY DEF TypeOK, Typed, Fault, NoFault

\* The outcomes of a recovery's checks, whichever of them fail.
LEMMA RecoverIs ==
  ASSUME Recover
  PROVE  \/ /\ setup' = Idle /\ Fault /\ UNCHANGED misjudged
         \/ /\ \/ Goto("extract")
               \/ Valid(live) /\ setup' = [setup EXCEPT !.pc = "drop", !.todo = backups]
               \/ \E b \in backups :
                    Valid(b) /\ setup' = [setup EXCEPT !.pc = "clear", !.dir = b]
            /\ \/ NoFault /\ UNCHANGED misjudged
               \/ Fault /\ misjudged' = TRUE /\ backups # {}
<1>1. ASSUME NEW passing \in SUBSET ValidDirectories, Judge(passing)
      PROVE  \/ Goto("extract")
             \/ Valid(live) /\ setup' = [setup EXCEPT !.pc = "drop", !.todo = backups]
             \/ \E b \in backups :
                  Valid(b) /\ setup' = [setup EXCEPT !.pc = "clear", !.dir = b]
  BY <1>1 DEF Judge, ValidDirectories, Newest
<1>2. CASE Judge(ValidDirectories) /\ NoFault /\ UNCHANGED misjudged
  BY <1>1, <1>2
<1>3. CASE /\ backups # {}
           /\ \E passing \in (SUBSET ValidDirectories) \ {ValidDirectories} :
                live \notin passing /\ Judge(passing)
           /\ Fault /\ misjudged' = TRUE
  BY <1>1, <1>3
<1>4. QED
  BY <1>2, <1>3 DEF Recover

\* No step of Setup writes a directory or a record of Setup that is not one, nor
\* gives a number to two directories.
LEMMA SetupStepTyped ==
  ASSUME TypeOK, Placed, SetupStep
  PROVE  TypeOK'
<1> USE DEF SetupTyped, SetupPc, Goto, Idle
<1> /\ live \in Directory \cup {None} /\ backups \subseteq Directory /\ SetupTyped
    /\ extracted \in Nat /\ committed \in 0..extracted /\ misjudged \in BOOLEAN
    /\ owed \in Version \cup {None}
  BY DEF TypeOK, Typed
<1>1. CASE Recover
  <2>1. SetupTyped'
    <3> setup.pc = "recover"
      BY <1>1 DEF Recover
    <3>1. CASE Goto("extract")
      BY <3>1
    <3>0. CASE setup' = Idle
      BY <3>0
    <3>2. CASE setup' = [setup EXCEPT !.pc = "drop", !.todo = backups]
      <4>1. setup' = [pc |-> "drop", version |-> setup.version, assisted |-> setup.assisted,
                      dir |-> setup.dir, activated |-> setup.activated, todo |-> backups]
        BY <3>2
      <4>2. QED
        BY <4>1
    <3>3. ASSUME NEW b \in backups, setup' = [setup EXCEPT !.pc = "clear", !.dir = b]
          PROVE  SetupTyped'
      BY <3>3
    <3>4. QED
      BY <1>1, <3>0, <3>1, <3>2, <3>3, RecoverIs
  <2>2. UNCHANGED <<disk, panel, extracted, committed, owed>> /\ misjudged' \in BOOLEAN
    BY <1>1 DEF Recover
  <2>3. QED
    BY <1>1, <2>1, <2>2, SetupRest, DatedSame, FaultTyped DEF Recover, disk
<1>2. CASE Clear
  <2>1. SetupTyped' /\ UNCHANGED <<backups, panel, extracted, committed, misjudged, owed>>
    BY <1>2 DEF Clear, ghosts
  <2>2. CASE live = None
    BY <1>2, <2>1, <2>2, SetupRest, DatedSame, FaultTyped DEF Clear, disk
  <2>3. CASE live # None
    BY <1>2, <2>1, <2>3, SetupRest, DeleteLiveLeaves, LiveDeleted, FaultTyped DEF Clear
  <2>4. QED
    BY <2>2, <2>3
<1>3. CASE Restore
  <2>1. SetupTyped' /\ UNCHANGED <<panel, extracted, committed, misjudged, owed>>
    <3>1. CASE setup' = Idle
      BY <1>3, <3>1 DEF Restore, ghosts
    <3>2. CASE setup' = [setup EXCEPT !.pc = "drop", !.dir = None, !.todo = backups \ {setup.dir}]
      <4>1. setup' = [pc |-> "drop", version |-> setup.version, assisted |-> setup.assisted,
                      dir |-> None, activated |-> setup.activated,
                      todo |-> backups \ {setup.dir}]
        BY <3>2
      <4>2. QED
        BY <1>3, <4>1 DEF Restore, ghosts
    <3>3. QED
      BY <1>3, <3>1, <3>2 DEF Restore
  <2>2. setup.dir \in backups
    BY <1>3 DEF Restore, Placed, Valid
  <2>3. CASE UNCHANGED disk
    BY <1>3, <2>1, <2>3, SetupRest, DatedSame, FaultTyped DEF Restore, disk
  <2>4. CASE live = None /\ live' = setup.dir /\ backups' = backups \ {setup.dir}
    BY <1>3, <2>1, <2>2, <2>4, SetupRest, BackupMoved, FaultTyped DEF Restore
  <2>5. QED
    BY <1>3, <2>3, <2>4 DEF Restore
<1>4. CASE Drop
  <2>1. SetupTyped' /\ UNCHANGED <<live, panel, extracted, committed, misjudged, owed>>
    BY <1>4 DEF Drop, ghosts
  <2>2. CASE setup.todo = {}
    BY <1>4, <2>1, <2>2, SetupRest, DatedSame, FaultTyped DEF Drop, disk
  <2>3. ASSUME NEW b \in setup.todo, DeleteBackup(b) PROVE TypeOK'
    <3>1. b \in backups
      BY DEF Placed
    <3>2. QED
      BY <1>4, <2>1, <2>3, <3>1, SetupRest, DeleteBackupLeaves, BackupDeleted, FaultTyped
  <2>4. QED
    BY <1>4, <2>2, <2>3 DEF Drop
<1>5. CASE Extract
  <2>1. SetupTyped' /\ UNCHANGED <<disk, panel, committed, misjudged, owed>>
    <3>1. CASE setup' = Idle
      BY <1>5, <3>1 DEF Extract
    <3>2. CASE Goto("activate") \/ Goto("backup")
      BY <1>5, <3>2 DEF Extract
    <3>3. QED
      BY <1>5, <3>1, <3>2 DEF Extract
  <2>2. extracted' \in {extracted, extracted + 1} /\ faults' \in Nat
    BY <1>5, FaultTyped DEF Extract
  <2>3. QED
    BY <1>5, <2>1, <2>2, SetupRest, DatedSame DEF disk
<1>6. CASE Backup
  <2>1. SetupTyped' /\ panel' = Closed /\ UNCHANGED <<extracted, committed, misjudged, owed>>
    BY <1>6 DEF Backup, ghosts
  <2>2. CASE UNCHANGED disk
    BY <1>6, <2>1, <2>2, SetupRest, DatedSame, FaultTyped DEF Backup, disk
  <2>3. CASE backups' = backups \cup {live} /\ live' = None
    <3>1. live \in Directory /\ Present' = Present
      BY <1>6, <2>3, NoneAssumption DEF Backup, Placed, Present
    <3>2. Dated'
      <4>1. \A d, e \in backups' : d.age = e.age => d = e
        BY <1>6, <2>3 DEF TypeOK, Dated, Backup, Placed
      <4>2. QED
        BY <2>1, <2>3, <3>1, <4>1 DEF TypeOK, Dated, Now
    <3>3. QED
      BY <1>6, <2>1, <2>3, <3>1, <3>2, SetupRest, FaultTyped DEF Backup
  <2>4. QED
    BY <1>6, <2>2, <2>3 DEF Backup
<1>7. CASE Activate
  <2>1. SetupTyped' /\ UNCHANGED <<backups, panel, extracted, committed, misjudged, owed>>
    BY <1>7 DEF Activate, ghosts
  <2>2. CASE live' = live
    BY <1>7, <2>1, <2>2, SetupRest, DatedSame, FaultTyped DEF Activate, disk
  <2>3. CASE live' = [version |-> setup.version, age |-> extracted,
                      changed |-> Extraction, payload |-> "whole"]
    <3>1. live' \in Directory /\ live'.age = extracted /\ live'.changed = 2 * extracted
      BY <1>7, <2>3 DEF Activate, Directory, Payload, Extraction
    <3>2. /\ Present' \subseteq Present \cup {live'}
          /\ \A d \in Present : d.age < extracted
      BY <1>7, <2>1 DEF Present, Activate, Placed
    <3>3. Dated'
      BY <2>1, <3>1, <3>2 DEF TypeOK, Dated, Now, Present, Directory
    <3>4. QED
      BY <1>7, <2>1, <3>1, <3>3, SetupRest, FaultTyped DEF Activate
  <2>4. QED
    BY <1>7, <2>2, <2>3 DEF Activate
<1>8. CASE Register
  <2>1. SetupTyped' /\ UNCHANGED <<disk, panel, extracted, committed, misjudged, owed>>
    BY <1>8 DEF Register, ghosts
  <2>2. QED
    BY <1>8, <2>1, SetupRest, DatedSame, FaultTyped DEF Register, disk
<1>9. CASE Commit
  <2>1. /\ SetupTyped' /\ UNCHANGED <<live, panel, extracted>>
        /\ committed' = extracted /\ misjudged' \in BOOLEAN /\ owed' \in Version \cup {None}
    BY <1>9 DEF Commit
  <2>2. CASE setup.dir = None
    BY <1>9, <2>1, <2>2, SetupRest, DatedSame, FaultTyped DEF Commit, disk
  <2>3. CASE setup.dir # None
    <3>1. setup.dir \in backups
      BY <2>3 DEF Placed
    <3>2. QED
      BY <1>9, <2>1, <2>3, <3>1, SetupRest, DeleteBackupLeaves, BackupDeleted, FaultTyped
         DEF Commit
  <2>4. QED
    BY <2>2, <2>3
<1>10. CASE Rollback
  <2>1. SetupTyped' /\ UNCHANGED <<backups, panel, extracted, committed, misjudged, owed>>
    BY <1>10 DEF Rollback, ghosts
  <2>2. CASE UNCHANGED <<live, faults>>
    BY <1>10, <2>1, <2>2, SetupRest, DatedSame, FaultTyped DEF disk
  <2>3. CASE live # None /\ DeleteLive
    BY <1>10, <2>1, <2>3, SetupRest, DeleteLiveLeaves, LiveDeleted, FaultTyped
  <2>4. QED
    BY <1>10, <2>2, <2>3 DEF Rollback
<1>11. CASE PutBack
  <2>1. SetupTyped' /\ UNCHANGED <<panel, extracted, committed, misjudged, owed>>
    BY <1>11 DEF PutBack, ghosts
  <2>2. setup.dir \in backups
    BY <1>11 DEF PutBack, Placed
  <2>3. CASE UNCHANGED disk
    BY <1>11, <2>1, <2>3, SetupRest, DatedSame, FaultTyped DEF PutBack, disk
  <2>4. CASE live = None /\ live' = setup.dir /\ backups' = backups \ {setup.dir}
    BY <1>11, <2>1, <2>2, <2>4, SetupRest, BackupMoved, FaultTyped DEF PutBack
  <2>5. QED
    BY <1>11, <2>3, <2>4 DEF PutBack
<1>12. QED
  BY <1>1, <1>2, <1>3, <1>4, <1>5, <1>6, <1>7, <1>8, <1>9, <1>10, <1>11 DEF SetupStep

\* A Setup that begins, by the user or by the panel.
LEMMA BeginTyped ==
  ASSUME Typed, NEW v \in Version, NEW a \in BOOLEAN, Begin(v, a)
  PROVE  /\ SetupTyped' /\ setups' \in Nat
         /\ setup' = [pc |-> "recover", version |-> v, assisted |-> a, dir |-> None,
                      activated |-> FALSE, todo |-> {}]
<1>1. setup' = [pc |-> "recover", version |-> v, assisted |-> a, dir |-> None,
                activated |-> FALSE, todo |-> {}]
  BY DEF Begin, Idle
<1>2. setups' \in Nat
  BY DEF Begin, Typed
<1>3. QED
  BY <1>1, <1>2 DEF SetupTyped, SetupPc

\* What a death of Setup does to the directories.
LEMMA DeathLeaves ==
  ASSUME TypeOK, Placed, SetupDies
  PROVE  /\ setup' = Idle /\ crashes' = crashes + 1
         /\ UNCHANGED <<pending, settings, panel, ghosts, setups, changes, faults>>
         /\ \/ UNCHANGED disk
            \/ /\ live # None /\ live' \in Damaged(live) /\ UNCHANGED backups
               /\ setup.pc \in {"clear", "rollback"}
               /\ setup.pc = "rollback" => setup.dir # None \/ setup.activated
            \/ \E b \in backups :
                 /\ b \in setup.todo \/ (setup.pc = "commit" /\ b = setup.dir)
                 /\ UNCHANGED live
                 /\ \E d \in Damaged(b) : backups' = (backups \ {b}) \cup {d}
<1>1. /\ setup' = Idle /\ crashes' = crashes + 1
      /\ UNCHANGED <<pending, settings, panel, ghosts, setups, changes, faults>>
  BY DEF SetupDies
<1>2. ASSUME NEW b \in BeingDeleted
      PROVE  b \in backups /\ (b \in setup.todo \/ (setup.pc = "commit" /\ b = setup.dir))
  BY DEF Placed, BeingDeleted
<1>3. CASE UNCHANGED disk
  BY <1>1, <1>3
<1>4. CASE /\ setup.pc \in {"clear", "rollback"} /\ live # None
           /\ setup.pc = "rollback" => setup.dir # None \/ setup.activated
           /\ live' \in Damaged(live) /\ UNCHANGED backups
  BY <1>1, <1>4
<1>5. ASSUME UNCHANGED live, NEW b \in BeingDeleted,
             \E d \in Damaged(b) : backups' = (backups \ {b}) \cup {d}
      PROVE  \E c \in backups :
               /\ c \in setup.todo \/ (setup.pc = "commit" /\ c = setup.dir)
               /\ UNCHANGED live
               /\ \E d \in Damaged(c) : backups' = (backups \ {c}) \cup {d}
  BY <1>2, <1>5
<1>6. CASE UNCHANGED live /\ \E b \in BeingDeleted :
             \E d \in Damaged(b) : backups' = (backups \ {b}) \cup {d}
  BY <1>1, <1>5, <1>6
<1>7. QED
  BY <1>3, <1>4, <1>6 DEF SetupDies

\* A step of anyone keeps types, numbers and times.
LEMMA TypeStep ==
  ASSUME TypeOK, Placed, [Next]_vars
  PROVE  TypeOK'
<1>1. CASE SetupStep
  BY <1>1, SetupStepTyped
<1>2. CASE PanelStep
  <2>1. UNCHANGED disk /\ extracted' = extracted
    BY <1>2, PanelFrame
  <2>2. QED
    BY <1>2, <2>1, PanelStepTyped, DatedSame DEF TypeOK, Typed
<1>3. ASSUME NEW v \in Version, Run(v) PROVE TypeOK'
  <2>1. /\ UNCHANGED <<disk, pending, settings, panel, extracted, committed, misjudged,
                         changes, faults, crashes>>
        /\ owed' = None /\ Begin(v, FALSE)
    BY <1>3 DEF Run
  <2>2. SetupTyped' /\ setups' \in Nat /\ Dated'
    BY <2>1, BeginTyped, DatedSame DEF TypeOK, Typed
  <2>3. QED
    BY <2>1, <2>2 DEF TypeOK, Typed, PanelTyped, disk
<1>4. CASE Launch
  <2>1. /\ UNCHANGED <<disk, pending, settings, ghosts, changes, faults, crashes>>
        /\ panel' = Closed
        /\ Begin(panel.record.expected, TRUE) \/ UNCHANGED <<setup, setups>>
    BY <1>4 DEF Launch
  <2>2. panel.record.expected \in Version
    BY <1>4 DEF Launch, TypeOK, Typed, PanelTyped, Pending
  <2>3. SetupTyped' /\ setups' \in Nat
    BY <2>1, <2>2, BeginTyped DEF TypeOK, Typed, SetupTyped
  <2>4. Dated' /\ PanelTyped'
    BY <2>1, DatedSame DEF ghosts, TypeOK, Typed, PanelTyped, Closed
  <2>5. QED
    BY <2>1, <2>3, <2>4 DEF TypeOK, Typed, disk, ghosts
<1>5. CASE SetupDies
  <2>1. SetupTyped' /\ crashes' \in Nat /\ PanelTyped'
    <3>1. setup' = Idle /\ crashes' = crashes + 1 /\ panel' = panel
      BY <1>5, DeathLeaves
    <3>2. SetupTyped'
      BY <3>1 DEF SetupTyped, SetupPc, Idle
    <3>3. crashes' \in Nat /\ PanelTyped'
      BY <3>1 DEF TypeOK, Typed, PanelTyped
    <3>4. QED
      BY <3>2, <3>3
  <2>2. live' \in Directory \cup {None} /\ backups' \subseteq Directory /\ Dated'
    <3>1. extracted' = extracted
      BY <1>5, DeathLeaves DEF ghosts
    <3>2. CASE UNCHANGED disk
      BY <3>1, <3>2, DatedSame DEF disk, TypeOK, Typed
    <3>3. CASE live # None /\ live' \in Damaged(live) /\ UNCHANGED backups
      BY <3>1, <3>3, LiveDeleted DEF TypeOK, Typed
    <3>4. ASSUME NEW b \in backups, UNCHANGED live,
                 \E d \in Damaged(b) : backups' = (backups \ {b}) \cup {d}
          PROVE  live' \in Directory \cup {None} /\ backups' \subseteq Directory /\ Dated'
      BY <3>1, <3>4, BackupDeleted DEF TypeOK, Typed
    <3>5. QED
      BY <1>5, <3>2, <3>3, <3>4, DeathLeaves
  <2>3. UNCHANGED <<pending, settings, panel, ghosts, setups, changes, faults>>
    BY <1>5, DeathLeaves
  <2>4. /\ UNCHANGED <<pending, settings, extracted, committed, misjudged, owed, setups, changes, faults>>
        /\ setups \in Nat /\ changes \in Nat /\ faults \in Nat
    BY <2>3 DEF ghosts, TypeOK, Typed
  <2>5. QED
    BY <2>1, <2>2, <2>4 DEF TypeOK, Typed
<1>6. CASE UNCHANGED vars
  BY <1>6, DatedSame DEF vars, disk, ghosts, counters, TypeOK, Typed, SetupTyped, PanelTyped
<1>7. QED
  BY <1>1, <1>2, <1>3, <1>4, <1>5, <1>6 DEF Next, PanelStep

----------------------------------------------------------------------------
(* Where the directories are *)

\* The parts of Setup's record after a step that sets some of them.
LEMMA SetupParts ==
  ASSUME Typed
  PROVE  /\ \A l : Goto(l) => /\ setup'.pc = l
                              /\ setup'.version = setup.version /\ setup'.dir = setup.dir
                              /\ setup'.assisted = setup.assisted
                              /\ setup'.activated = setup.activated /\ setup'.todo = setup.todo
         /\ Idle.pc = "idle" /\ Idle.dir = None /\ Idle.todo = {} /\ Idle.assisted = FALSE
  BY DEF Typed, SetupTyped, Goto, Idle

\* Setup has gone or has just begun: it knows of no backup.
LEMMA PlacedAfresh ==
  ASSUME setup'.pc \in {"idle", "recover"}, setup'.dir = None, setup'.todo = {},
         ~setup'.activated
  PROVE  Placed'
  BY DEF Placed

\* Each step of Setup leaves the directories where the next one looks for them.
LEMMA PlacedSetup ==
  ASSUME TypeOK, Placed, SetupStep
  PROVE  Placed'
<1> SetupTyped /\ live \in Directory \cup {None} /\ backups \subseteq Directory /\ extracted \in Nat
  BY DEF TypeOK, Typed
<1> USE DEF Goto, SetupTyped
<1>1. CASE Recover
  <2>1. /\ UNCHANGED disk /\ extracted' = extracted /\ setup.todo = {} /\ setup.dir = None
        /\ ~setup.activated
    BY <1>1 DEF Recover, Placed
  <2>2. CASE Goto("extract")
    BY <2>1, <2>2 DEF Placed
  <2>3. CASE setup' = [setup EXCEPT !.pc = "drop", !.todo = backups] /\ Valid(live)
    <3>1. /\ setup'.pc = "drop" /\ setup'.todo = backups /\ setup'.dir = None
          /\ setup'.activated = setup.activated
      BY <2>1, <2>3
    <3>2. QED
      BY <2>1, <2>3, <3>1 DEF Placed, Valid, disk
  <2>4. ASSUME NEW b \in backups, Valid(b), setup' = [setup EXCEPT !.pc = "clear", !.dir = b]
        PROVE  Placed'
    <3>1. /\ setup'.pc = "clear" /\ setup'.todo = {} /\ setup'.dir = b
          /\ setup'.activated = setup.activated
      BY <2>1, <2>4
    <3>2. QED
      BY <2>1, <2>4, <3>1 DEF Placed, disk, Valid
  <2>5. CASE setup' = Idle
    BY <2>5, PlacedAfresh DEF Idle
  <2>6. QED
    BY <1>1, <2>2, <2>3, <2>4, <2>5, RecoverIs
<1>2. CASE Clear
  <2>1. UNCHANGED backups /\ setup'.pc = "restore" /\ setup'.dir = setup.dir /\ setup'.todo = {}
    BY <1>2 DEF Clear, Placed
  <2>2. QED
    BY <1>2, <2>1 DEF Placed, Clear
<1>3. CASE Restore
  <2>1. CASE setup' = Idle
    BY <2>1, PlacedAfresh, SetupParts DEF TypeOK, Idle
  <2>2. CASE /\ live = None /\ live' = setup.dir /\ backups' = backups \ {setup.dir}
             /\ setup' = [setup EXCEPT !.pc = "drop", !.dir = None,
                                       !.todo = backups \ {setup.dir}]
    <3>1. /\ setup'.pc = "drop" /\ setup'.dir = None /\ setup'.todo = backups'
          /\ setup'.activated = setup.activated
      BY <2>2
    <3>2. Valid(live')
      BY <1>3, <2>2 DEF Restore, Placed
    <3>3. ~setup.activated
      BY <1>3 DEF Restore, Placed
    <3>4. QED
      BY <3>1, <3>2, <3>3 DEF Placed, Valid
  <2>3. QED
    BY <1>3, <2>1, <2>2 DEF Restore
<1>4. CASE Drop
  <2>1. CASE setup.todo = {} /\ Goto("extract") /\ UNCHANGED <<disk, extracted>>
    BY <1>4, <2>1 DEF Placed, Drop
  <2>2. ASSUME NEW b \in setup.todo, setup' = [setup EXCEPT !.todo = @ \ {b}], DeleteBackup(b)
        PROVE  Placed'
    <3>1. setup'.pc = "drop" /\ setup'.dir = None /\ setup'.todo = setup.todo \ {b}
      BY <1>4, <2>2 DEF Drop, Placed
    <3>2. backups \ {b} \subseteq backups' /\ live' = live
      BY <1>4, <2>2 DEF Drop, DeleteBackup
    <3>3. QED
      BY <1>4, <3>1, <3>2 DEF Placed, Drop, Valid
  <2>3. QED
    BY <1>4, <2>1, <2>2 DEF Drop, ghosts, disk
<1>5. CASE Extract
  <2>1. CASE setup' = Idle
    BY <2>1, PlacedAfresh DEF Idle
  <2>2. CASE Goto(IF live = None THEN "activate" ELSE "backup") /\ extracted' = extracted + 1
    <3>1. /\ setup'.pc = IF live = None THEN "activate" ELSE "backup"
          /\ setup'.dir = None /\ setup'.todo = {} /\ Present' = Present
          /\ live' = live /\ ~setup'.activated
      BY <1>5, <2>2 DEF Extract, Placed, disk, Present
    <3>2. \A d \in Present' : d.age < extracted'
      BY <2>2, <3>1 DEF TypeOK, Dated, Typed, Present, Directory
    <3>3. QED
      BY <3>1, <3>2 DEF Placed
  <2>3. QED
    BY <1>5, <2>1, <2>2 DEF Extract
<1>6. CASE Backup
  <2>1. CASE UNCHANGED disk /\ Goto("rollback")
    BY <1>6, <2>1 DEF Placed, Backup, disk
  <2>2. CASE /\ backups' = backups \cup {live} /\ live' = None
             /\ setup' = [setup EXCEPT !.pc = "activate", !.dir = live]
    <3>1. setup'.pc = "activate" /\ setup'.dir = live /\ setup'.todo = {}
      BY <1>6, <2>2 DEF Placed, Backup
    <3>2. Present' = Present /\ extracted' = extracted /\ live # None
      BY <1>6, <2>2, NoneAssumption DEF Present, Backup, Placed, ghosts
    <3>3. QED
      BY <1>6, <2>2, <3>1, <3>2 DEF Placed, Backup
  <2>3. QED
    BY <1>6, <2>1, <2>2 DEF Backup
<1>7. CASE Activate
  <2>1. setup.todo = {} /\ extracted' = extracted /\ backups' = backups
    BY <1>7 DEF Activate, Placed, ghosts
  <2>2. CASE Goto("rollback")
    BY <1>7, <2>1, <2>2 DEF Placed, Activate
  <2>3. CASE /\ live' = [version |-> setup.version, age |-> extracted,
                         changed |-> Extraction, payload |-> "whole"]
             /\ setup' = [setup EXCEPT !.pc = "register", !.activated = TRUE]
    <3>1. /\ setup'.pc = "register" /\ setup'.dir = setup.dir /\ setup'.todo = {}
          /\ setup'.version = setup.version
      BY <2>1, <2>3
    <3>2. /\ live' \in Directory /\ live'.version = setup.version /\ live'.age = extracted
          /\ live'.changed = Extraction /\ live'.payload = "whole"
      BY <1>7, <2>3 DEF Activate, Directory, Payload, Extraction
    <3>3. QED
      BY <2>1, <3>1, <3>2, NoneAssumption DEF Placed, Valid, Extraction
  <2>4. QED
    BY <1>7, <2>2, <2>3 DEF Activate
<1>8. CASE Register
  <2>1. /\ setup'.pc \in {"commit", "rollback"} /\ setup'.dir = setup.dir /\ setup'.todo = {}
        /\ setup'.version = setup.version
        /\ live' = live /\ backups' = backups /\ extracted' = extracted
    BY <1>8 DEF Register, Placed, disk, ghosts
  <2>2. QED
    BY <1>8, <2>1 DEF Placed, Register, Extraction
<1>9. CASE Commit
  BY <1>9, PlacedAfresh DEF Commit, Idle
<1>10. CASE Rollback
  <2>1. CASE setup' = Idle
    BY <2>1, PlacedAfresh DEF Idle
  <2>2. CASE setup.dir # None /\ setup' = [setup EXCEPT !.pc = "putBack"]
    <3>1. /\ setup'.pc = "putBack" /\ setup'.dir = setup.dir /\ setup'.todo = {}
          /\ backups' = backups
      BY <1>10, <2>2 DEF Rollback, Placed
    <3>2. QED
      BY <2>2, <3>1 DEF Placed
  <2>3. QED
    BY <1>10, <2>1, <2>2 DEF Rollback
<1>11. CASE PutBack
  BY <1>11, PlacedAfresh DEF PutBack, Idle
<1>12. QED
  BY <1>1, <1>2, <1>3, <1>4, <1>5, <1>6, <1>7, <1>8, <1>9, <1>10, <1>11 DEF SetupStep

\* A step of the panel, of the user or of nobody.
LEMMA PlacedStep ==
  ASSUME TypeOK, Placed, [Next]_vars
  PROVE  Placed'
<1>1. CASE SetupStep
  BY <1>1, PlacedSetup
<1>2. CASE UNCHANGED <<disk, setup, extracted>>
  BY <1>2 DEF Placed, Present, Extraction, disk
<1>3. ASSUME NEW v \in Version, NEW a \in BOOLEAN, Begin(v, a) PROVE Placed'
  <2>1. setup' = [pc |-> "recover", version |-> v, assisted |-> a, dir |-> None,
                  activated |-> FALSE, todo |-> {}]
    BY <1>3, BeginTyped DEF TypeOK
  <2>2. QED
    BY <2>1, PlacedAfresh
<1>4. CASE Launch
  <2>1. \/ Begin(panel.record.expected, TRUE)
        \/ UNCHANGED <<disk, setup, extracted>>
    BY <1>4 DEF Launch, ghosts
  <2>2. panel.record.expected \in Version
    BY <1>4 DEF Launch, TypeOK, Typed, PanelTyped, Pending
  <2>3. QED
    BY <1>2, <1>3, <2>1, <2>2
<1>5. CASE SetupDies
  <2>1. setup' = Idle
    BY <1>5, DeathLeaves
  <2>2. QED
    BY <2>1, PlacedAfresh DEF Idle
<1>6. CASE PanelStep
  BY <1>2, <1>6, PanelFrame
<1>7. CASE UNCHANGED vars
  BY <1>2, <1>7 DEF vars, ghosts
<1>8. QED
  BY <1>1, <1>3, <1>4, <1>5, <1>6, <1>7 DEF Next, PanelStep, Run

----------------------------------------------------------------------------
(* The program that is kept *)

\* A deletion makes no directory current that was not, and none older.
LEMMA DamagedCurrent ==
  ASSUME TypeOK, NEW d \in Present, NEW e \in Damaged(d)
  PROVE  /\ e.changed >= d.changed
         /\ Valid(e) => Valid(d)
         /\ e.age = d.age /\ e.version = d.version
<1>1. d \in Directory /\ d.changed \in Nat /\ d.changed <= Now
  BY DEF TypeOK, Typed, Dated, Present, Directory
<1>2. QED
  BY <1>1, DamagedIs, NoneAssumption DEF TypeOK, Typed, Valid, Directory

\* Where Setup knows which program is kept, that one is current.
LEMMA KeptFor ==
  ASSUME Placed', setup'.pc \in SetupPc \ {"idle", "recover"}, committed' # 0,
         Valid(live') => live'.changed >= 2 * committed',
         setup'.pc \in {"clear", "restore"} => ~Valid(live'),
         setup'.pc \in {"extract", "backup"} => Valid(live'),
         setup'.pc \in {"activate", "register", "commit"} => setup'.dir # None,
         setup'.pc = "rollback" /\ setup'.dir = None => Valid(live') /\ ~setup'.activated,
         setup'.dir # None => Current(setup.dir)'
  PROVE  Kept'
<1>1. (\E d \in Present : Current(d))'
  <2>1. Valid(live') => live' \in Present' /\ Current(live)'
    BY DEF Valid, Present, Current
  <2>2. setup'.dir # None => setup'.dir \in Present' /\ Current(setup.dir)'
    BY DEF Placed, Present
  <2>3. Valid(live') \/ setup'.dir # None
    BY DEF Placed, Valid, SetupPc
  <2>4. QED
    BY <2>1, <2>2, <2>3
<1>2. QED
  BY <1>1 DEF Kept, Valid

\* Nothing happened to the directories, and Setup is over or begins.
LEMMA KeptAfresh ==
  ASSUME Kept, UNCHANGED <<disk, committed>>, misjudged' \/ ~misjudged,
         setup'.pc \in {"idle", "recover"}, setup'.dir = None
  PROVE  Kept'
  BY DEF Kept, Current, Valid, Present, disk

\* The end of a Setup that went well leaves what it installed.
LEMMA KeptCommit ==
  ASSUME TypeOK, Placed, Commit, TypeOK', Placed'
  PROVE  Kept'
<1>1. /\ setup'.pc = "idle" /\ setup'.dir = None /\ live' = live
      /\ committed' = extracted /\ extracted \in Nat
      /\ Valid(live) /\ live.changed = 2 * extracted
  BY DEF Commit, Idle, Placed, Extraction, TypeOK, Typed
<1>2. live' \in Present' /\ Current(live)'
  BY <1>1, NoneAssumption DEF Present, Current, Valid
<1>3. QED
  BY <1>1, <1>2 DEF Kept, Valid

\* While every check is right, Setup deletes, moves and rolls back nothing that is
\* the only current program left: the order of its steps is what keeps it.
LEMMA KeptSetup ==
  ASSUME TypeOK, Placed, Kept, SetupStep, TypeOK', Placed'
  PROVE  Kept'
<1> SUFFICES ASSUME ~Commit, committed' # 0, ~misjudged' PROVE Kept'
  BY KeptCommit DEF Kept
<1> /\ SetupTyped /\ live \in Directory \cup {None} /\ backups \subseteq Directory
    /\ extracted \in Nat /\ committed \in 0..extracted
  BY DEF TypeOK, Typed
<1> setup'.pc \in SetupPc
  BY DEF TypeOK, Typed, SetupTyped
<1> committed' = committed /\ ~misjudged
  BY DEF SetupStep, Recover, Clear, Restore, Drop, Extract, Backup, Activate, Register,
     Rollback, PutBack, ghosts
<1> USE DEF Goto, SetupTyped
<1>1. CASE Recover
  <2>1. UNCHANGED disk /\ setup.dir = None
    BY <1>1 DEF Recover, Placed
  <2>2. PICK d \in Present : Current(d)
    BY DEF Kept
  <2>3. CASE setup' = Idle
    BY <2>1, <2>3, KeptAfresh DEF Idle
  <2>4. CASE Goto("extract") /\ Valid(live)
    <3>1. setup'.pc = "extract" /\ setup'.dir = None /\ live' = live
      BY <2>1, <2>4 DEF disk
    <3>2. QED
      BY <2>4, <3>1, KeptFor DEF Kept, Valid
  <2>5. CASE setup' = [setup EXCEPT !.pc = "drop", !.todo = backups] /\ Valid(live)
    <3>1. setup'.pc = "drop" /\ setup'.dir = None /\ live' = live
      BY <2>1, <2>5 DEF disk
    <3>2. QED
      BY <2>5, <3>1, KeptFor DEF Kept, Valid
  <2>6. ASSUME ~Valid(live), NEW b \in Newest(ValidDirectories \cap backups),
               setup' = [setup EXCEPT !.pc = "clear", !.dir = b]
        PROVE  Kept'
    <3>1. setup'.pc = "clear" /\ setup'.dir = b /\ live' = live
      BY <2>1, <2>6 DEF disk
    <3>2. d \in ValidDirectories \cap backups
      BY <2>2, <2>6 DEF Present, ValidDirectories, Current
    <3>3. b \in Directory /\ d \in Directory /\ d.changed <= b.changed /\ Valid(b)
      BY <3>2 DEF Newest, ValidDirectories
    <3>4. Current(b) /\ (Current(b) => Current(setup.dir)')
      BY <2>2, <3>1, <3>3 DEF Current, Directory, Valid
    <3>5. QED
      BY <2>6, <3>1, <3>4, KeptFor DEF Valid
  <2>7. /\ Valid(live) => live \in ValidDirectories
        /\ backups = {} \/ ValidDirectories \cap backups = {} => Valid(live)
    BY <2>2 DEF ValidDirectories, Present, Valid, Current
  <2>8. Judge(ValidDirectories) \/ setup' = Idle
    BY <1>1 DEF Recover
  <2>9. CASE Judge(ValidDirectories)
    <3>1. live \in ValidDirectories => Valid(live)
      BY DEF ValidDirectories
    <3>2. QED
      BY <2>4, <2>5, <2>6, <2>7, <2>9, <3>1 DEF Judge
  <2>10. QED
    BY <2>3, <2>8, <2>9
<1>2. CASE Clear
  <2>1. setup'.pc = "restore" /\ setup'.dir = setup.dir
    BY <1>2 DEF Clear
  <2>2. ~Valid(live')
    <3>1. CASE live = None
      BY <1>2, <3>1 DEF Clear, Valid
    <3>2. CASE live # None
      <4>1. live' \in Damaged(live) \cup {None} /\ live \in Present
        BY <1>2, <3>2, DeleteLiveLeaves DEF Clear, Present
      <4>2. ~Valid(live)
        BY <1>2 DEF Clear, Kept
      <4>3. Valid(live') => live' \in Damaged(live)
        BY <4>1 DEF Valid
      <4>4. QED
        BY <4>1, <4>2, <4>3, DamagedCurrent
    <3>3. QED
      BY <3>1, <3>2
  <2>3. setup'.dir # None => Current(setup.dir)'
    BY <2>1 DEF Kept, Current, Valid
  <2>4. QED
    BY <2>1, <2>2, <2>3, KeptFor
<1>3. CASE Restore
  <2>1. CASE setup' = Idle /\ UNCHANGED disk
    BY <1>3, <2>1, KeptAfresh DEF Restore, Idle
  <2>2. CASE /\ live = None /\ live' = setup.dir
             /\ setup' = [setup EXCEPT !.pc = "drop", !.dir = None,
                                       !.todo = backups \ {setup.dir}]
    <3>1. setup'.pc = "drop" /\ setup'.dir = None
      BY <1>3, <2>2 DEF Restore
    <3>2. live'.changed >= 2 * committed
      BY <1>3, <2>2 DEF Restore, Placed, Kept, Current, Valid
    <3>3. QED
      BY <3>1, <3>2, KeptFor
  <2>3. QED
    BY <1>3, <2>1, <2>2 DEF Restore
<1>4. CASE Drop
  <2>1. /\ setup'.pc \in {"drop", "extract"} /\ setup'.dir = None
        /\ live' = live /\ Valid(live)
    BY <1>4 DEF Drop, Placed
  <2>2. Valid(live') /\ live'.changed >= 2 * committed
    BY <2>1 DEF Kept, Valid
  <2>3. QED
    BY <2>1, <2>2, KeptFor
<1>5. CASE Extract
  <2>1. CASE setup' = Idle
    BY <1>5, <2>1, KeptAfresh DEF Extract, Idle
  <2>2. CASE Goto(IF live = None THEN "activate" ELSE "backup")
    <3>1. live # None /\ Valid(live) /\ live.changed >= 2 * committed
      BY <1>5 DEF Extract, Kept, Valid
    <3>2. setup'.pc = "backup" /\ setup'.dir = None /\ live' = live
      BY <1>5, <2>2, <3>1 DEF Extract, Placed, disk
    <3>3. QED
      BY <3>1, <3>2, KeptFor DEF Valid
  <2>3. QED
    BY <1>5, <2>1, <2>2 DEF Extract
<1>6. CASE Backup
  <2>1. Current(live) /\ Valid(live) /\ live.changed >= 2 * committed
    BY <1>6 DEF Backup, Kept, Current
  <2>2. CASE UNCHANGED disk /\ Goto("rollback")
    <3>1. setup'.pc = "rollback" /\ setup'.dir = None /\ live' = live
      BY <1>6, <2>2 DEF Backup, Placed, disk
    <3>2. ~setup'.activated
      BY <1>6, <2>2 DEF Backup, Placed
    <3>3. QED
      BY <2>1, <3>1, <3>2, KeptFor DEF Valid
  <2>3. CASE /\ backups' = backups \cup {live} /\ live' = None
             /\ setup' = [setup EXCEPT !.pc = "activate", !.dir = live]
    <3>1. setup'.pc = "activate" /\ setup'.dir = live /\ live # None /\ ~Valid(live')
      BY <1>6, <2>1, <2>3 DEF Valid
    <3>2. Current(setup.dir)'
      BY <2>1, <3>1 DEF Current, Valid
    <3>3. QED
      BY <3>1, <3>2, KeptFor
  <2>4. QED
    BY <1>6, <2>2, <2>3 DEF Backup
<1>7. CASE Activate
  <2>1. setup.dir # None /\ Current(setup.dir)
    BY <1>7 DEF Activate, Kept
  <2>2. CASE Goto("rollback") /\ UNCHANGED live
    <3>1. setup'.pc = "rollback" /\ setup'.dir = setup.dir /\ live' = live
      BY <2>2
    <3>2. QED
      BY <2>1, <3>1, KeptFor DEF Kept, Current, Valid
  <2>3. CASE setup' = [setup EXCEPT !.pc = "register", !.activated = TRUE]
    <3>1. setup'.pc = "register" /\ setup'.dir = setup.dir
      BY <2>3
    <3>2. live'.changed >= 2 * committed
      BY <3>1, <1>7 DEF Placed, Extraction, Activate, ghosts
    <3>3. Current(setup.dir)'
      BY <2>1, <3>1 DEF Current, Valid
    <3>4. QED
      BY <2>1, <3>1, <3>2, <3>3, KeptFor
  <2>4. QED
    BY <1>7, <2>2, <2>3 DEF Activate
<1>8. CASE Register
  <2>1. /\ setup'.pc \in {"commit", "rollback"} /\ setup'.dir = setup.dir /\ live' = live
    BY <1>8 DEF Register, disk
  <2>2. setup.dir # None /\ Current(setup.dir)
    BY <1>8 DEF Register, Kept
  <2>3. Current(setup.dir)' /\ (Valid(live') => live'.changed >= 2 * committed)
    BY <2>1, <2>2 DEF Current, Valid, Kept
  <2>4. QED
    BY <2>1, <2>2, <2>3, KeptFor
<1>9. CASE Rollback
  <2>1. CASE setup.dir = None /\ setup' = Idle
    BY <1>9, <2>1, KeptAfresh DEF Rollback, Kept, Idle, disk
  <2>2. CASE setup.dir # None /\ setup' = [setup EXCEPT !.pc = "putBack"]
    <3>1. setup'.pc = "putBack" /\ setup'.dir = setup.dir
      BY <2>2
    <3>2. Valid(live') => live'.changed >= 2 * committed
      <4>1. CASE live' = live
        BY <4>1 DEF Kept, Valid
      <4>2. CASE live # None /\ DeleteLive
        <5>1. live \in Present /\ live' \in Damaged(live) \cup {None}
          BY <4>2, DeleteLiveLeaves DEF Present
        <5>2. live.changed \in Nat /\ (live' # None => live'.changed \in Nat)
          BY <4>2 DEF Directory, TypeOK, Typed
        <5>3. ASSUME Valid(live') PROVE live'.changed >= 2 * committed
          <6>1. live' \in Damaged(live)
            BY <5>1, <5>3 DEF Valid
          <6>2. live'.changed >= live.changed /\ (Valid(live') => Valid(live))
            BY <5>1, <6>1, DamagedCurrent
          <6>3. live.changed >= 2 * committed /\ live' # None
            BY <5>3, <6>2 DEF Kept, Valid
          <6>4. QED
            BY <5>2, <6>2, <6>3
        <5>4. QED
          BY <5>3
      <4>3. QED
        BY <1>9, <4>1, <4>2 DEF Rollback
    <3>3. Current(setup.dir)'
      BY <2>2, <3>1 DEF Kept, Current, Valid
    <3>4. QED
      BY <3>1, <3>2, <3>3, KeptFor
  <2>3. QED
    BY <1>9, <2>1, <2>2 DEF Rollback
<1>10. CASE PutBack
  <2>1. CASE UNCHANGED disk
    BY <1>10, <2>1, KeptAfresh DEF PutBack, Idle
  <2>2. CASE live = None /\ live' = setup.dir
    <3>1. setup'.pc = "idle" /\ setup'.dir = None /\ live' # None /\ Current(live')
      BY <1>10, <2>2 DEF PutBack, Idle, Placed, Kept
    <3>2. live' \in Present' /\ (Current(live') => Current(live)')
      BY <3>1 DEF Present, Current, Valid
    <3>3. QED
      BY <3>1, <3>2 DEF Kept, Current, Valid
  <2>3. QED
    BY <1>10, <2>1, <2>2 DEF PutBack
<1>11. QED
  BY <1>1, <1>2, <1>3, <1>4, <1>5, <1>6, <1>7, <1>8, <1>9, <1>10 DEF SetupStep

\* Setup dies only in deletions of what is not the program that is kept.
LEMMA KeptDeath ==
  ASSUME TypeOK, Placed, Kept, SetupDies
  PROVE  Kept'
<1> live \in Directory \cup {None} /\ committed \in Nat
  BY DEF TypeOK, Typed
<1>1. /\ setup'.pc = "idle" /\ setup'.dir = None
      /\ committed' = committed /\ misjudged' = misjudged
  BY DeathLeaves DEF Idle, ghosts
<1> SUFFICES ASSUME committed # 0, ~misjudged PROVE Kept'
  BY <1>1 DEF Kept
<1>2. CASE UNCHANGED disk
  BY <1>1, <1>2, KeptAfresh
<1>3. CASE /\ live # None /\ live' \in Damaged(live) /\ UNCHANGED backups
           /\ setup.pc \in {"clear", "rollback"}
           /\ setup.pc = "rollback" => setup.dir # None \/ setup.activated
  <2>1. setup.dir # None /\ Current(setup.dir)
    BY <1>3 DEF Placed, Kept, Valid
  <2>2. setup.dir \in Present'
    BY <1>3, <2>1 DEF Placed, Present
  <2>3. live \in Present /\ live.changed \in Nat /\ (live' # None => live'.changed \in Nat)
    <3>1. live \in Present /\ live \in Directory /\ live.changed <= Now
      BY <1>3 DEF TypeOK, Typed, Dated, Present
    <3>2. live' \in Directory
      BY <1>3, <3>1, DamagedIs DEF TypeOK, Typed
    <3>3. QED
      BY <3>1, <3>2 DEF Directory
  <2>4. live'.changed >= live.changed
    BY <1>3, <2>3, DamagedCurrent
  <2>5. Valid(live') => Valid(live)
    BY <1>3, <2>3, DamagedCurrent
  <2>6. Valid(live') => live'.changed >= 2 * committed
    BY <2>3, <2>4, <2>5 DEF Kept, Valid
  <2>7. (\E d \in Present : Current(d))'
    BY <1>1, <2>1, <2>2 DEF Current, Valid
  <2>8. QED
    BY <1>1, <2>6, <2>7 DEF Kept, Valid
<1>4. CASE UNCHANGED live /\ (setup.todo # {} \/ setup.pc = "commit")
  <2>1. Valid(live) /\ Current(live)
    BY <1>4 DEF Placed, Kept, Current
  <2>2. live' \in Present' /\ Current(live)'
    BY <1>1, <1>4, <2>1 DEF Valid, Present, Current
  <2>3. QED
    BY <1>1, <1>4, <2>1, <2>2 DEF Kept, Current, Valid
<1>5. QED
  BY <1>2, <1>3, <1>4, DeathLeaves

\* A step of anyone.
LEMMA KeptStep ==
  ASSUME TypeOK, Placed, Kept, [Next]_vars, TypeOK', Placed'
  PROVE  Kept'
<1>1. CASE SetupStep
  BY <1>1, KeptSetup
<1>2. CASE UNCHANGED <<disk, setup, committed, misjudged>>
  BY <1>2 DEF Kept, Current, Valid, Present, disk
<1>3. ASSUME NEW v \in Version, NEW a \in BOOLEAN, Begin(v, a),
             UNCHANGED <<disk, committed, misjudged>>
      PROVE  Kept'
  <2>1. setup'.pc = "recover" /\ setup'.dir = None
    BY <1>3, BeginTyped DEF TypeOK
  <2>2. misjudged \in BOOLEAN
    BY DEF TypeOK, Typed
  <2>3. QED
    BY <1>3, <2>1, <2>2, KeptAfresh
<1>4. CASE Launch
  <2>1. panel.record.expected \in Version
    BY <1>4 DEF Launch, TypeOK, Typed, PanelTyped, Pending
  <2>2. QED
    BY <1>2, <1>3, <1>4, <2>1 DEF Launch, ghosts
<1>5. CASE SetupDies
  BY <1>5, KeptDeath
<1>6. CASE PanelStep
  BY <1>2, <1>6, PanelFrame
<1>7. CASE UNCHANGED vars
  BY <1>2, <1>7 DEF vars, ghosts
<1>8. QED
  BY <1>1, <1>3, <1>4, <1>5, <1>6, <1>7 DEF Next, PanelStep, Run

----------------------------------------------------------------------------
(* A valid program, whatever cannot be read *)

\* Directories and what Setup is about to delete stay as they are.
LEMMA SavedAfresh ==
  ASSUME Saved, UNCHANGED <<disk, committed>>, setup'.pc \in {"idle", "recover"}
  PROVE  Saved'
  BY DEF Saved, Valid, Present, disk

\* A valid backup that stays one is enough at every step.
LEMMA SavedByBackup ==
  ASSUME NEW b \in backups', Valid(b)
  PROVE  Saved'
  BY DEF Saved, Valid, Present

\* A step of Setup that deletes a directory has a valid one that it does not delete.
LEMMA SavedSetup ==
  ASSUME TypeOK, Placed, Saved, SetupStep
  PROVE  Saved'
<1> SetupTyped /\ live \in Directory \cup {None} /\ backups \subseteq Directory
  BY DEF TypeOK, Typed
<1> USE DEF Goto, SetupTyped
<1>1. CASE Commit
  <2>1. setup'.pc = "idle" /\ live' \in Present' /\ Valid(live')
    BY <1>1 DEF Commit, Placed, Present, Valid, Idle
  <2>2. QED
    BY <2>1 DEF Saved, Valid
<1> SUFFICES ASSUME ~Commit, committed' # 0 PROVE Saved'
  BY <1>1 DEF Saved
<1>2. committed' = committed
  BY DEF SetupStep, Recover, Clear, Restore, Drop, Extract, Backup, Activate, Register,
     Rollback, PutBack, ghosts
<1>3. PICK d \in Present : Valid(d)
  BY <1>2 DEF Saved
<1>4. CASE Recover
  <2>1. UNCHANGED disk /\ setup'.pc \in {"idle", "extract", "drop", "clear"}
    <3>1. \A b : setup' = [setup EXCEPT !.pc = "clear", !.dir = b] => setup'.pc = "clear"
      OBVIOUS
    <3>2. setup' = [setup EXCEPT !.pc = "drop", !.todo = backups] => setup'.pc = "drop"
      OBVIOUS
    <3>3. (Goto("extract") => setup'.pc = "extract") /\ (setup' = Idle => setup'.pc = "idle")
      BY DEF Idle
    <3>4. UNCHANGED disk
      BY <1>4 DEF Recover
    <3>5. QED
      BY <1>4, <3>1, <3>2, <3>3, <3>4, RecoverIs
  <2>2. QED
    BY <1>2, <1>3, <2>1 DEF Saved, Valid, Present, disk
<1>5. CASE Clear
  <2>1. setup.dir \in backups' /\ Valid(setup.dir)
    BY <1>5 DEF Clear, Placed, Valid
  <2>2. QED
    BY <2>1, SavedByBackup
<1>6. CASE Restore
  <2>1. CASE setup' = Idle /\ UNCHANGED disk
    BY <1>2, <2>1, SavedAfresh DEF Idle
  <2>2. CASE /\ live' = setup.dir
             /\ setup' = [setup EXCEPT !.pc = "drop", !.dir = None,
                                       !.todo = backups \ {setup.dir}]
    <3>1. setup'.pc = "drop" /\ live' \in Present' /\ Valid(live')
      BY <1>6, <2>2 DEF Restore, Placed, Present, Valid
    <3>2. QED
      BY <3>1 DEF Saved, Valid
  <2>3. QED
    BY <1>6, <2>1, <2>2 DEF Restore
<1>7. CASE Drop
  <2>1. setup'.pc \in {"drop", "extract"} /\ live' \in Present' /\ Valid(live')
    BY <1>7 DEF Drop, Placed, Present, Valid
  <2>2. QED
    BY <2>1 DEF Saved, Valid
<1>8. CASE Extract
  <2>1. CASE setup' = Idle
    BY <1>2, <1>8, <2>1, SavedAfresh DEF Extract, Idle
  <2>2. CASE Goto(IF live = None THEN "activate" ELSE "backup")
    <3>1. /\ setup'.pc = IF live = None THEN "activate" ELSE "backup"
          /\ UNCHANGED disk
      BY <1>8, <2>2 DEF Extract
    <3>2. live = None => d \in backups
      BY <1>3 DEF Present
    <3>3. QED
      BY <1>3, <3>1, <3>2 DEF Saved, Valid, Present, disk
  <2>3. QED
    BY <1>8, <2>1, <2>2 DEF Extract
<1>9. CASE Backup
  <2>1. CASE UNCHANGED disk /\ Goto("rollback")
    <3>1. setup'.pc = "rollback" /\ setup'.dir = None /\ ~setup'.activated
      BY <1>9, <2>1 DEF Backup, Placed
    <3>2. QED
      BY <1>3, <2>1, <3>1 DEF Saved, Valid, Present, disk
  <2>2. CASE backups' = backups \cup {live}
    <3>1. d \in backups'
      BY <1>3, <2>2 DEF Present
    <3>2. QED
      BY <1>3, <3>1, SavedByBackup
  <2>3. QED
    BY <1>9, <2>1, <2>2 DEF Backup
<1>10. CASE Activate \/ Register
  <2>1. backups' = backups /\ \E b \in backups : Valid(b)
    BY <1>2, <1>10 DEF Activate, Register, Saved, disk
  <2>2. QED
    BY <2>1, SavedByBackup
<1>11. CASE Rollback
  <2>1. CASE setup.dir = None /\ ~setup.activated
    <3>1. setup' = Idle /\ UNCHANGED disk
      BY <1>11, <2>1 DEF Rollback, disk
    <3>2. QED
      BY <1>2, <3>1, SavedAfresh DEF Idle
  <2>2. CASE setup.dir # None \/ setup.activated
    <3>1. backups' = backups /\ \E b \in backups : Valid(b)
      BY <1>2, <1>11, <2>2 DEF Rollback, Saved
    <3>2. QED
      BY <3>1, SavedByBackup
  <2>3. QED
    BY <2>1, <2>2
<1>12. CASE PutBack
  <2>1. Present \subseteq Present' /\ setup'.pc = "idle"
    <3>1. setup'.pc = "idle"
      BY <1>12 DEF PutBack, Idle
    <3>2. CASE UNCHANGED disk
      BY <3>1, <3>2 DEF Present, disk
    <3>3. CASE live = None /\ live' = setup.dir /\ backups' = backups \ {setup.dir}
      <4>1. setup.dir # None
        BY <1>12 DEF PutBack, Placed
      <4>2. QED
        BY <3>1, <3>3, <4>1 DEF Present
    <3>4. QED
      BY <1>12, <3>2, <3>3 DEF PutBack
  <2>2. QED
    BY <1>3, <2>1 DEF Saved, Valid
<1>13. QED
  BY <1>4, <1>5, <1>6, <1>7, <1>8, <1>9, <1>10, <1>11, <1>12 DEF SetupStep

\* A step of anyone.
LEMMA SavedStep ==
  ASSUME TypeOK, Placed, Saved, [Next]_vars
  PROVE  Saved'
<1>1. CASE SetupStep
  BY <1>1, SavedSetup
<1>2. CASE UNCHANGED <<disk, setup, committed>>
  BY <1>2 DEF Saved, Valid, Present, disk
<1>3. ASSUME NEW v \in Version, NEW a \in BOOLEAN, Begin(v, a), UNCHANGED <<disk, committed>>
      PROVE  Saved'
  <2>1. setup'.pc = "recover"
    BY <1>3, BeginTyped DEF TypeOK
  <2>2. QED
    BY <1>3, <2>1, SavedAfresh
<1>4. CASE Launch
  <2>1. panel.record.expected \in Version
    BY <1>4 DEF Launch, TypeOK, Typed, PanelTyped, Pending
  <2>2. QED
    BY <1>2, <1>3, <1>4, <2>1 DEF Launch, ghosts
<1>5. CASE SetupDies
  <2>1. setup'.pc = "idle" /\ committed' = committed
    BY <1>5, DeathLeaves DEF Idle, ghosts
  <2>2. CASE UNCHANGED disk
    BY <2>1, <2>2, SavedAfresh
  <2>3. CASE /\ UNCHANGED backups /\ setup.pc \in {"clear", "rollback"}
             /\ setup.pc = "rollback" => setup.dir # None \/ setup.activated
    <3>1. committed # 0 => \E b \in backups : Valid(b)
      BY <2>3 DEF Saved, Placed, Valid
    <3>2. QED
      BY <2>1, <2>3, <3>1, SavedByBackup DEF Saved
  <2>4. CASE UNCHANGED live /\ (setup.todo # {} \/ setup.pc = "commit")
    <3>1. Valid(live) /\ live' \in Present'
      BY <2>4 DEF Placed, Valid, Present
    <3>2. QED
      BY <2>1, <2>4, <3>1 DEF Saved, Valid
  <2>5. QED
    BY <1>5, <2>2, <2>3, <2>4, DeathLeaves
<1>6. CASE PanelStep
  BY <1>2, <1>6, PanelFrame
<1>7. CASE UNCHANGED vars
  BY <1>2, <1>7 DEF vars, ghosts
<1>8. QED
  BY <1>1, <1>3, <1>4, <1>5, <1>6, <1>7 DEF Next, PanelStep, Run

\* What the two parts say of the directories is the property.
LEMMA KeptIsRecoverable ==
  ASSUME Saved, Kept
  PROVE  Recoverable
  BY DEF Saved, Kept, Recoverable

----------------------------------------------------------------------------
(* One failure at most *)

\* No step undoes a failure or a death, and only the end of a Setup that went
\* well changes which directory is the last one.
LEMMA Counted ==
  ASSUME TypeOK, SetupStep \/ PanelStep
  PROVE  faults' \in {faults, faults + 1} /\ crashes' = crashes
<1>1. CASE SetupStep
  <2>1. crashes' = crashes
    BY <1>1, SetupLeaves
  <2>2. ASSUME DeleteLive \/ UNCHANGED <<live, faults>> \/ Fault \/ NoFault
        PROVE  faults' \in {faults, faults + 1}
    BY <2>2, DeleteLiveLeaves DEF Fault, NoFault
  <2>3. ASSUME NEW b, DeleteBackup(b) PROVE faults' \in {faults, faults + 1}
    BY <2>3 DEF DeleteBackup, Fault, NoFault
  <2>4. CASE Drop
    BY <2>1, <2>3, <2>4 DEF Drop
  <2>5. CASE Commit
    BY <2>1, <2>3, <2>5 DEF Commit
  <2>6. CASE Recover
    BY <2>1, <2>6 DEF Recover, Fault, NoFault
  <2>7. CASE Clear
    BY <2>1, <2>2, <2>7 DEF Clear
  <2>8. CASE Restore \/ Extract \/ Backup
    BY <2>1, <2>2, <2>8 DEF Restore, Extract, Backup
  <2>9. CASE Activate \/ Register \/ PutBack
    BY <2>1, <2>2, <2>9 DEF Activate, Register, PutBack
  <2>10. CASE Rollback
    BY <2>1, <2>2, <2>10 DEF Rollback
  <2>11. QED
    BY <1>1, <2>1, <2>4, <2>5, <2>6, <2>7, <2>8, <2>9, <2>10 DEF SetupStep
<1>2. CASE PanelStep
  <2>1. crashes' = crashes
    BY <1>2, PanelFrame
  <2>2. CASE Start
    BY <2>2 DEF Start, LoadSettings, Fault, NoFault
  <2>3. CASE RestorePendingSafeProfile \/ LaunchFails
    BY <2>3 DEF RestorePendingSafeProfile, LaunchFails, ClearPending, Fault, NoFault
  <2>4. CASE Stop
    BY <2>4 DEF Stop, counters
  <2>5. ASSUME NEW p \in Profile, ChangeProfile(p) PROVE faults' \in {faults, faults + 1}
    BY <2>5 DEF ChangeProfile, SaveSettings, Fault, NoFault
  <2>6. ASSUME NEW v \in Version, WritePending(v) PROVE faults' \in {faults, faults + 1}
    BY <2>6 DEF WritePending, counters
  <2>7. QED
    BY <1>2, <2>1, <2>2, <2>3, <2>4, <2>5, <2>6 DEF PanelStep
<1>3. QED
  BY <1>1, <1>2

\* A step of Setup without a failure leaves no backup behind, and the first failure
\* is none of a check.
LEMMA UnfailedSetup ==
  ASSUME TypeOK, Placed, Unfailed, SetupStep
  PROVE  Unfailed'
<1> SUFFICES ASSUME crashes' = 0, faults' <= 1 PROVE Unfailed'
  <2>1. faults' \in Nat
    BY Counted DEF TypeOK, Typed
  <2>2. QED
    BY <2>1 DEF Unfailed
<1> SetupTyped /\ live \in Directory \cup {None} /\ backups \subseteq Directory /\ faults \in Nat
  BY DEF TypeOK, Typed
<1>1. crashes = 0 /\ faults' \in {faults, faults + 1}
  BY Counted
<1>2. /\ ~misjudged
      /\ faults = 0 => /\ setup.pc \notin {"clear", "restore", "drop", "rollback", "putBack"}
                       /\ backups \subseteq {setup.dir}
  BY <1>1 DEF Unfailed
<1> USE DEF Goto, SetupTyped
<1>3. CASE Recover
  <2>1. faults = 0 => backups = {}
    BY <1>2, <1>3, NoneAssumption DEF Recover, Placed
  <2>2. ~misjudged'
    <3>1. CASE UNCHANGED misjudged
      BY <1>2, <3>1
    <3>2. CASE Fault /\ backups # {}
      BY <2>1, <3>2 DEF Fault
    <3>3. QED
      BY <1>3, <3>1, <3>2 DEF Recover
  <2>3. faults' = 0 => setup'.pc = "extract" /\ backups' = {}
    <3>1. SUFFICES ASSUME faults' = 0 PROVE setup'.pc = "extract" /\ backups' = {}
      OBVIOUS
    <3>2. faults = 0 /\ ~Fault
      BY <1>1, <3>1 DEF Fault
    <3>3. QED
      BY <1>3, <2>1, <3>2 DEF Recover, Judge, disk
  <2>4. QED
    BY <2>2, <2>3 DEF Unfailed
<1>4. CASE Commit
  <2>1. ~misjudged' /\ setup'.pc = "idle"
    BY <1>4 DEF Commit, Idle
  <2>2. faults' = 0 => backups' = {}
    <3>1. SUFFICES ASSUME faults' = 0 PROVE backups' = {}
      OBVIOUS
    <3>2. faults = 0 /\ ~Fault
      BY <1>1, <3>1 DEF Fault
    <3>3. CASE setup.dir = None
      BY <1>2, <1>4, <3>2, <3>3, NoneAssumption DEF Commit
    <3>4. CASE setup.dir # None
      BY <1>2, <1>4, <3>2, <3>4 DEF Commit, DeleteBackup
    <3>5. QED
      BY <3>3, <3>4
  <2>3. QED
    BY <2>1, <2>2 DEF Unfailed
<1>5. CASE Extract \/ Backup \/ Activate \/ Register
  <2>1. ~misjudged'
    BY <1>2, <1>5 DEF Extract, Backup, Activate, Register, ghosts
  <2>2. ASSUME faults' = 0
        PROVE  setup'.pc \in {"backup", "activate", "register", "commit"}
               /\ backups' \subseteq {setup'.dir}
    <3>1. faults = 0 /\ ~Fault
      BY <1>1, <2>2 DEF Fault
    <3>2. CASE Extract \/ Register
      BY <1>2, <3>1, <3>2 DEF Extract, Register, disk
    <3>3. CASE Backup
      <4>1. backups = {}
        BY <1>2, <3>1, <3>3, NoneAssumption DEF Backup, Placed
      <4>2. backups' = {live} /\ setup'.pc = "activate" /\ setup'.dir = live
        BY <3>1, <3>3, <4>1 DEF Backup
      <4>3. QED
        BY <4>2
    <3>4. CASE Activate
      BY <1>2, <3>1, <3>4 DEF Activate
    <3>5. QED
      BY <1>5, <3>2, <3>3, <3>4
  <2>3. QED
    BY <2>1, <2>2 DEF Unfailed
<1>6. CASE Clear \/ Restore \/ Drop \/ Rollback \/ PutBack
  <2>1. ~misjudged'
    BY <1>2, <1>6 DEF Clear, Restore, Drop, Rollback, PutBack, ghosts
  <2>2. faults' # 0
    BY <1>1, <1>2, <1>6 DEF Clear, Restore, Drop, Rollback, PutBack
  <2>3. QED
    BY <2>1, <2>2 DEF Unfailed
<1>7. QED
  BY <1>3, <1>4, <1>5, <1>6 DEF SetupStep

\* A step of anyone.
LEMMA UnfailedStep ==
  ASSUME TypeOK, Placed, Unfailed, [Next]_vars
  PROVE  Unfailed'
<1> faults \in Nat /\ crashes \in Nat
  BY DEF TypeOK, Typed
<1>1. CASE SetupStep
  BY <1>1, UnfailedSetup
<1>2. ASSUME UNCHANGED <<disk, misjudged, crashes>>, faults' \in {faults, faults + 1},
             setup' = setup \/ (setup = Idle /\ setup'.pc = "recover" /\ setup'.dir = None)
      PROVE  Unfailed'
  BY <1>2 DEF Unfailed, Idle, disk
<1>3. ASSUME NEW v \in Version, NEW a \in BOOLEAN, Begin(v, a), setup = Idle,
             UNCHANGED <<disk, misjudged, faults, crashes>>
      PROVE  Unfailed'
  <2>1. setup'.pc = "recover" /\ setup'.dir = None
    BY <1>3, BeginTyped DEF TypeOK
  <2>2. QED
    BY <1>2, <1>3, <2>1
<1>4. CASE Launch
  <2>1. panel.record.expected \in Version
    BY <1>4 DEF Launch, TypeOK, Typed, PanelTyped, Pending
  <2>2. QED
    BY <1>2, <1>3, <1>4, <2>1 DEF Launch, ghosts
<1>5. CASE SetupDies
  BY <1>5 DEF SetupDies, Unfailed
<1>6. CASE PanelStep
  BY <1>2, <1>6, PanelFrame, Counted
<1>7. CASE UNCHANGED vars
  BY <1>2, <1>7 DEF vars, ghosts, counters
<1>8. ASSUME NEW v \in Version, Run(v) PROVE Unfailed'
  BY <1>3, <1>8 DEF Run
<1>9. QED
  BY <1>1, <1>4, <1>5, <1>6, <1>7, <1>8 DEF Next, PanelStep

\* A first failure in Setup leads to a rollback that cannot fail as well.
LEMMA UndisturbedSetup ==
  ASSUME TypeOK, Placed, Kept, Unfailed, Undisturbed, SetupStep, TypeOK', Placed'
  PROVE  Undisturbed'
<1> SUFFICES ASSUME ~Reopen, committed' # 0, crashes' = 0, faults' <= 1
             PROVE  Undisturbed'
  BY DEF Undisturbed
<1> faults \in Nat /\ faults' \in Nat /\ SetupTyped /\ setup'.pc \in SetupPc
  BY DEF TypeOK, Typed, SetupTyped
<1>1. /\ crashes = 0 /\ faults <= 1 /\ faults' \in {faults, faults + 1}
      /\ ~misjudged
  BY Counted DEF Unfailed
<1> USE DEF Goto, SetupTyped
<1>2. CASE Commit
  <2>1. setup'.pc = "idle" /\ live' = live /\ Valid(live)
    BY <1>2 DEF Commit, Idle, Placed
  <2>2. QED
    BY <2>1 DEF Undisturbed, Valid
<1>3. ASSUME ~Commit PROVE committed' = committed
  BY <1>3 DEF SetupStep, Recover, Clear, Restore, Drop, Extract, Backup, Activate, Register,
     Rollback, PutBack, ghosts
<1>4. CASE Recover /\ ~Commit
  <2>1. Valid(live) /\ live' = live
    BY <1>1, <1>3, <1>4 DEF Undisturbed, Recover, disk
  <2>2. setup'.pc \in {"idle", "extract", "drop"}
    <3>1. backups # {} => faults # 0
      BY <1>1, <1>4, NoneAssumption DEF Unfailed, Recover, Placed, TypeOK, Typed
    <3>2. live \in ValidDirectories
      BY <2>1 DEF ValidDirectories, Present, Valid
    <3>3. ~(Fault /\ backups # {})
      BY <1>1, <3>1 DEF Fault
    <3>4. Judge(ValidDirectories) \/ setup' = Idle
      BY <1>4, <3>3 DEF Recover
    <3>5. Judge(ValidDirectories) =>
            Goto("extract") \/ setup' = [setup EXCEPT !.pc = "drop", !.todo = backups]
      BY <3>2 DEF Judge
    <3>6. setup' = [setup EXCEPT !.pc = "drop", !.todo = backups] => setup'.pc = "drop"
      OBVIOUS
    <3>7. QED
      BY <3>4, <3>5, <3>6 DEF Idle
  <2>3. QED
    BY <2>1, <2>2 DEF Undisturbed, Valid
<1>5. CASE (Clear \/ Restore) /\ ~Commit
  BY <1>1, <1>3, <1>5 DEF Undisturbed, Clear, Restore
<1>6. CASE Drop /\ ~Commit
  <2>1. Valid(live) /\ live' = live /\ setup'.pc \in {"extract", "drop"}
    BY <1>6 DEF Drop, Placed
  <2>2. QED
    BY <2>1 DEF Undisturbed, Valid
<1>7. CASE Extract /\ ~Commit
  <2>1. Valid(live) /\ live' = live /\ live # None
    BY <1>1, <1>3, <1>7 DEF Undisturbed, Extract, disk, Valid
  <2>2. setup'.pc \in {"idle", "backup"}
    BY <1>7, <2>1 DEF Extract, Idle
  <2>3. QED
    BY <2>1, <2>2 DEF Undisturbed, Valid
<1>8. CASE Backup /\ ~Commit
  <2>1. panel' = Closed
    BY <1>8 DEF Backup
  <2>2. CASE setup'.pc = "activate"
    BY <2>1, <2>2 DEF Undisturbed, Closed
  <2>3. CASE Fault /\ Goto("rollback")
    <3>1. faults' = 1 /\ setup'.pc = "rollback"
      BY <2>3 DEF Fault
    <3>2. QED
      BY <2>1, <3>1 DEF Undisturbed, Closed
  <2>4. QED
    BY <1>8, <2>2, <2>3 DEF Backup
<1>9. CASE (Activate \/ Register) /\ ~Commit
  <2>1. panel' = Closed
    BY <1>1, <1>3, <1>9 DEF Undisturbed, Activate, Register
  <2>2. CASE setup'.pc \in {"register", "commit"}
    BY <2>1, <2>2 DEF Undisturbed, Closed
  <2>3. CASE Fault /\ Goto("rollback")
    <3>1. faults' = 1 /\ setup'.pc = "rollback"
      BY <2>3 DEF Fault
    <3>2. QED
      BY <2>1, <3>1 DEF Undisturbed, Closed
  <2>4. QED
    BY <1>9, <2>2, <2>3 DEF Activate, Register
<1>10. CASE Rollback /\ ~Commit
  <2>1. faults = 1 /\ faults' = 1 /\ panel = Closed /\ panel' = Closed /\ ~Fault
    BY <1>1, <1>3, <1>10 DEF Undisturbed, Rollback, Fault
  <2>2. CASE setup.dir = None
    <3>1. Valid(live) /\ live' = live /\ setup'.pc = "idle"
      BY <1>1, <1>3, <1>10, <2>2 DEF Kept, Rollback, Idle
    <3>2. QED
      BY <3>1 DEF Undisturbed, Valid
  <2>3. CASE setup.dir # None
    <3>1. live' = None /\ setup'.pc = "putBack"
      BY <1>10, <2>1, <2>3 DEF Rollback, DeleteLive
    <3>2. QED
      BY <2>1, <3>1 DEF Undisturbed, Closed
  <2>4. QED
    BY <2>2, <2>3
<1>11. CASE PutBack /\ ~Commit
  <2>1. faults = 1 /\ live = None /\ ~Fault
    BY <1>1, <1>3, <1>11 DEF Undisturbed, PutBack, Fault
  <2>2. setup'.pc = "idle" /\ live' = setup.dir
    BY <1>11, <2>1 DEF PutBack, Idle
  <2>3. Valid(setup.dir)
    BY <1>1, <1>3, <1>11 DEF PutBack, Placed, Kept, Current
  <2>4. QED
    BY <2>2, <2>3 DEF Undisturbed, Valid
<1>12. QED
  BY <1>2, <1>4, <1>5, <1>6, <1>7, <1>8, <1>9, <1>10, <1>11 DEF SetupStep

\* Unless it may be opened at any time, the panel starts when no Setup runs.
LEMMA PanelAlone ==
  ASSUME PanelStep, ~Reopen
  PROVE  panel # Closed \/ setup = Idle
<1>1. Start => setup = Idle
  BY DEF Start
<1>2. Stop \/ RestorePendingSafeProfile \/ LaunchFails => panel # Closed
  BY DEF Stop, RestorePendingSafeProfile, LaunchFails, Closed
<1>3. \A p \in Profile : ChangeProfile(p) => panel # Closed
  BY DEF ChangeProfile, Closed
<1>4. \A v \in Version : WritePending(v) => panel # Closed
  BY DEF WritePending, Closed
<1>5. QED
  BY <1>1, <1>2, <1>3, <1>4 DEF PanelStep

\* The panel is closed while its files are moved: none of its steps disturbs one.
LEMMA UndisturbedStep ==
  ASSUME TypeOK, Placed, Kept, Unfailed, Undisturbed, [Next]_vars, TypeOK', Placed'
  PROVE  Undisturbed'
<1> SUFFICES ASSUME ~Reopen, committed' # 0, crashes' = 0, faults' <= 1
             PROVE  Undisturbed'
  BY DEF Undisturbed
<1> faults \in Nat /\ faults' \in Nat /\ crashes \in Nat
  BY DEF TypeOK, Typed
<1>1. CASE SetupStep
  BY <1>1, UndisturbedSetup
<1>2. CASE SetupDies
  BY <1>2 DEF SetupDies
<1>3. CASE PanelStep
  <2>1. UNCHANGED <<live, setup, committed, crashes>> /\ faults <= 1
    <3>1. UNCHANGED <<disk, setup, committed, crashes>>
      BY <1>3, PanelFrame
    <3>2. faults' \in {faults, faults + 1}
      BY <1>3, Counted
    <3>3. QED
      BY <3>1, <3>2 DEF disk
  <2>2. panel # Closed \/ setup = Idle
    BY <1>3, PanelAlone
  <2>3. setup.pc \notin {"activate", "register", "commit", "rollback", "putBack", "clear", "restore"}
    BY <2>1, <2>2 DEF Undisturbed, Idle
  <2>4. QED
    BY <2>1, <2>3 DEF Undisturbed, Valid
<1>4. ASSUME NEW v \in Version, NEW a \in BOOLEAN, Begin(v, a), setup = Idle,
             UNCHANGED <<disk, committed, faults, crashes>>
      PROVE  Undisturbed'
  <2>1. setup'.pc = "recover" /\ Valid(live) /\ live' = live
    BY <1>4, BeginTyped DEF TypeOK, Undisturbed, Idle, disk
  <2>2. QED
    BY <2>1 DEF Undisturbed, Valid
<1>5. CASE Launch
  <2>1. panel.record.expected \in Version /\ panel # Closed
    BY <1>5 DEF Launch, TypeOK, Typed, PanelTyped, Pending, Closed
  <2>2. UNCHANGED <<disk, committed, faults, crashes>> /\ panel' = Closed
    BY <1>5 DEF Launch, ghosts
  <2>3. CASE UNCHANGED setup
    BY <2>1, <2>2, <2>3 DEF Undisturbed, Valid, disk
  <2>4. CASE setup = Idle /\ Begin(panel.record.expected, TRUE)
    BY <1>4, <2>1, <2>2, <2>4
  <2>5. QED
    BY <1>5, <2>3, <2>4 DEF Launch
<1>6. ASSUME NEW v \in Version, Run(v) PROVE Undisturbed'
  BY <1>4, <1>6 DEF Run
<1>7. CASE UNCHANGED vars
  BY <1>7 DEF Undisturbed, Valid, vars, disk, ghosts, counters
<1>8. QED
  BY <1>1, <1>2, <1>3, <1>5, <1>6, <1>7 DEF Next, PanelStep

----------------------------------------------------------------------------
(* The record of an assisted update *)

\* Setup neither reads nor writes the record; its end makes the verification due.
LEMMA RecordedSetup ==
  ASSUME TypeOK, Placed, Recorded, SetupStep, ~Reopen
  PROVE  Recorded'
<1> SetupTyped
  BY DEF TypeOK, Typed
<1> USE DEF SetupTyped
<1>1. pending' = pending /\ setup.pc # "idle" /\ owed = None
  <2>1. setup.pc # "idle"
    BY DEF SetupStep, Recover, Clear, Restore, Drop, Extract, Backup, Activate, Register,
       Commit, Rollback, PutBack
  <2>2. QED
    BY <2>1, SetupLeaves DEF Recorded
<1>2. panel' \in {panel, Closed}
  BY DEF SetupStep, Recover, Clear, Restore, Drop, Extract, Backup, Activate, Register,
     Commit, Rollback, PutBack
<1>3. CASE Commit
  <2>1. /\ live' = live /\ live # None /\ live.version = setup.version /\ setup'.pc = "idle"
        /\ owed' = IF setup.assisted THEN setup.version ELSE None
        /\ panel' = panel
    BY <1>3 DEF Commit, Placed, Valid, Idle
  <2>2. CASE setup.assisted
    <3>1. panel = Closed /\ pending # None /\ pending.expected = setup.version
      BY <1>1, <2>2 DEF Recorded
    <3>2. QED
      BY <1>1, <2>1, <2>2, <3>1 DEF Recorded, Closed
  <2>3. CASE ~setup.assisted
    BY <1>1, <2>1, <2>3 DEF Recorded
  <2>4. QED
    BY <2>2, <2>3
<1>4. CASE ~Commit
  <2>1. owed' = None
    BY <1>1, <1>4 DEF SetupStep, Recover, Clear, Restore, Drop, Extract, Backup, Activate,
       Register, Rollback, PutBack, ghosts
  <2>2. setup' = Idle \/ (setup'.assisted = setup.assisted /\ setup'.version = setup.version)
    <3>0. CASE Recover
      <4>1. \A b : setup' = [setup EXCEPT !.pc = "clear", !.dir = b] =>
                     setup'.assisted = setup.assisted /\ setup'.version = setup.version
        OBVIOUS
      <4>2. setup' = [setup EXCEPT !.pc = "drop", !.todo = backups] =>
              setup'.assisted = setup.assisted /\ setup'.version = setup.version
        OBVIOUS
      <4>3. Goto("extract") => setup'.assisted = setup.assisted /\ setup'.version = setup.version
        BY DEF Goto
      <4>4. QED
        BY <3>0, <4>1, <4>2, <4>3, RecoverIs
    <3>1. CASE Clear \/ Restore \/ Drop
      BY <3>1 DEF Clear, Restore, Drop, Goto
    <3>2. CASE Extract \/ Backup \/ Activate \/ Register
      BY <3>2 DEF Extract, Backup, Activate, Register, Goto
    <3>3. CASE Rollback \/ PutBack
      BY <3>3 DEF Rollback, PutBack
    <3>4. QED
      BY <1>4, <3>0, <3>1, <3>2, <3>3 DEF SetupStep
  <2>3. setup'.pc # "idle" /\ setup'.assisted =>
          panel' = Closed /\ pending' # None /\ pending'.expected = setup'.version
    <3>1. CASE setup' = Idle
      BY <3>1 DEF Idle
    <3>2. CASE setup'.assisted = setup.assisted /\ setup'.version = setup.version
      <4>1. setup.assisted =>
              panel = Closed /\ pending # None /\ pending.expected = setup.version
        BY <1>1 DEF Recorded
      <4>2. QED
        BY <1>1, <1>2, <3>2, <4>1
    <3>3. QED
      BY <2>2, <3>1, <3>2
  <2>4. panel'.mode = "launching" => pending' = panel'.record
    BY <1>1, <1>2 DEF Recorded, Closed
  <2>5. QED
    BY <2>1, <2>3, <2>4 DEF Recorded
<1>5. QED
  BY <1>3, <1>4

\* The panel drops the record only when its own version and profile match it.
LEMMA RecordedPanel ==
  ASSUME TypeOK, Recorded, PanelStep, ~Reopen
  PROVE  Recorded'
<1> USE DEF TypeOK, Typed, PanelTyped
<1>1. UNCHANGED <<live, setup>>
  BY PanelFrame DEF disk
<1>2. CASE Start
  <2>1. setup = Idle /\ panel = Closed /\ live # None
    BY <1>2 DEF Start
  <2>2. PICK p \in Profile :
          LET verdict == IF pending = None THEN "normal"
                         ELSE EvaluatePendingUpdate(pending, live.version, p)
          IN  \/ /\ verdict = "normal" /\ Open(live.version, p, "normal", None)
                 /\ UNCHANGED pending
              \/ verdict = "clear" /\ Open(live.version, p, "normal", None)
              \/ /\ verdict \in {"hold", "holdProfile"}
                 /\ Open(live.version, p, verdict, pending) /\ UNCHANGED pending
    BY <1>2 DEF Start
  <2>3. owed' = IF panel'.mode = "normal" /\ panel'.version = owed THEN None ELSE owed
    BY <1>2 DEF Start
  <2>4. panel'.version = live.version /\ panel'.mode \in {"normal", "hold", "holdProfile"}
    BY <2>2 DEF Open, EvaluatePendingUpdate
  <2>5. panel'.mode # "normal" => pending' = pending
    BY <2>2 DEF Open, EvaluatePendingUpdate
  <2>6. owed # None => live.version = owed /\ pending # None /\ pending.expected = owed
    BY DEF Recorded
  <2>7. panel'.mode = "normal" => owed' = None
    BY <2>3, <2>4, <2>6
  <2>8. owed' # None => owed' = owed /\ pending' = pending
    BY <2>3, <2>4, <2>5, <2>7
  <2>9. QED
    BY <1>1, <2>1, <2>4, <2>6, <2>7, <2>8 DEF Recorded, Idle
<1>3. CASE panel # Closed
  <2>1. ~(setup.pc # "idle" /\ setup.assisted)
    BY <1>3 DEF Recorded
  <2>2. owed # None => panel.version = owed
    BY <1>3 DEF Recorded
  <2>3. ASSUME owed' = None, panel'.mode # "launching" PROVE Recorded'
    BY <1>1, <2>1, <2>3 DEF Recorded
  <2>4. CASE Stop
    BY <1>1, <2>1, <2>4 DEF Stop, Recorded, Closed, ghosts
  <2>5. CASE RestorePendingSafeProfile
    BY <2>2, <2>3, <2>5 DEF RestorePendingSafeProfile, Open
  <2>6. CASE LaunchFails
    BY <2>3, <2>6 DEF LaunchFails, Recorded, ghosts
  <2>7. ASSUME NEW p \in Profile, ChangeProfile(p) PROVE Recorded'
    BY <2>3, <2>7 DEF ChangeProfile, Recorded, ghosts
  <2>8. ASSUME NEW v \in Version, WritePending(v) PROVE Recorded'
    <3>1. owed' = None /\ panel'.mode = "launching" /\ pending' = panel'.record
      BY <2>8 DEF WritePending, Recorded, ghosts
    <3>2. QED
      BY <1>1, <2>1, <3>1 DEF Recorded
  <2>9. QED
    BY <1>2, <2>4, <2>5, <2>6, <2>7, <2>8 DEF PanelStep
<1>4. QED
  <2>1. panel = Closed => Start
    BY DEF PanelStep, Stop, RestorePendingSafeProfile, LaunchFails, ChangeProfile,
       WritePending, Closed
  <2>2. QED
    BY <1>2, <1>3, <2>1

\* The record is on the disk from before Setup is launched.
LEMMA RecordedStep ==
  ASSUME TypeOK, Placed, Recorded, [Next]_vars
  PROVE  Recorded'
<1> SUFFICES ASSUME ~Reopen PROVE Recorded'
  BY DEF Recorded
<1>1. CASE SetupStep
  BY <1>1, RecordedSetup
<1>2. CASE PanelStep
  BY <1>2, RecordedPanel
<1>3. CASE SetupDies
  <2>1. setup'.pc = "idle" /\ owed' = None /\ panel' = panel /\ pending' = pending
    BY <1>3 DEF SetupDies, Recorded, Idle, ghosts
  <2>2. QED
    BY <2>1 DEF Recorded
<1>4. ASSUME NEW v \in Version, Run(v) PROVE Recorded'
  <2>1. owed' = None /\ panel' = panel /\ pending' = pending /\ Begin(v, FALSE)
    BY <1>4 DEF Run
  <2>2. setup'.assisted = FALSE
    BY <2>1 DEF Begin, Idle
  <2>3. QED
    BY <2>1, <2>2 DEF Recorded
<1>5. CASE Launch
  <2>1. /\ panel # Closed /\ panel' = Closed /\ pending' = pending /\ owed' = None
        /\ pending = panel.record /\ panel.record \in Pending
        /\ panel.record.expected \in Version
    BY <1>5 DEF Launch, Recorded, Closed, ghosts, TypeOK, Typed, PanelTyped, Pending
  <2>2. CASE Begin(panel.record.expected, TRUE)
    <3>1. setup'.version = panel.record.expected
      BY <2>2 DEF Begin, Idle
    <3>2. QED
      BY <2>1, <3>1, NoneAssumption DEF Recorded, Closed
  <2>3. CASE UNCHANGED setup
    BY <2>1, <2>3 DEF Recorded, Closed
  <2>4. QED
    BY <1>5, <2>2, <2>3 DEF Launch
<1>6. CASE UNCHANGED vars
  BY <1>6 DEF Recorded, vars, disk, ghosts
<1>7. QED
  BY <1>1, <1>2, <1>3, <1>4, <1>5, <1>6 DEF Next, PanelStep

----------------------------------------------------------------------------
(* The theorems *)

\* Nothing is installed at first.
LEMMA InitHolds == Init => IInv
<1> SUFFICES ASSUME Init PROVE IInv
  OBVIOUS
<1> USE DEF Init
<1>1. Present = {} /\ live = None /\ backups = {} /\ extracted = 0 /\ committed = 0
  BY DEF Present
<1>2. SetupTyped
  BY DEF SetupTyped, SetupPc, Idle
<1>3. PanelTyped
  BY DEF PanelTyped, Closed
<1>4. settings \in [now : Profile, before : Profile \cup {None}]
  BY DEF Profile
<1> misjudged \in BOOLEAN
  OBVIOUS
<1>5. Typed
  BY <1>1, <1>2, <1>3, <1>4 DEF Typed
<1>6. Dated
  BY <1>1 DEF Dated
<1>7. Placed
  BY <1>1 DEF Placed, Idle
<1>8. Saved /\ Kept /\ Unfailed /\ Undisturbed
  BY <1>1 DEF Saved, Kept, Unfailed, Undisturbed, Idle
<1>9. Recorded
  BY DEF Recorded, Idle, Closed
<1>10. QED
  BY <1>5, <1>6, <1>7, <1>8, <1>9 DEF IInv, TypeOK

\* Every step keeps the inductive invariant.
LEMMA InvariantStep == IInv /\ [Next]_vars => IInv'
<1> SUFFICES ASSUME IInv, [Next]_vars PROVE IInv'
  OBVIOUS
<1> TypeOK /\ Placed /\ Saved /\ Kept /\ Unfailed /\ Undisturbed /\ Recorded
  BY DEF IInv
<1>1. TypeOK'
  BY TypeStep
<1>2. Placed'
  BY PlacedStep
<1>3. Saved'
  BY SavedStep
<1>4. Kept'
  BY <1>1, <1>2, KeptStep
<1>5. Unfailed'
  BY UnfailedStep
<1>6. Undisturbed'
  BY <1>1, <1>2, UndisturbedStep
<1>7. Recorded'
  BY RecordedStep
<1>8. QED
  BY <1>1, <1>2, <1>3, <1>4, <1>5, <1>6, <1>7 DEF IInv

\* The inductive invariant holds however many Setups, failures and deaths there are.
THEOREM InstallationInvariance == Spec => []IInv
<1>1. QED
  BY InitHolds, InvariantStep, PTL DEF Spec

\* Directories, settings and the record are what the code writes, and a directory
\* that a rename or an incomplete deletion leaves keeps its number.
THEOREM InstallationTypes == Spec => []TypeOK
<1>1. IInv => TypeOK
  BY DEF IInv
<1>2. QED
  BY <1>1, InstallationInvariance, PTL

\* Install and RecoverInterruptedInstall never lose every program: one that passes
\* VerifyPayload is in its place or a backup, and while no check failed to read a
\* valid one it is the last that was installed, or a later one.
THEOREM AlwaysRecoverable == Spec => []Recoverable
<1>1. IInv => Recoverable
  BY KeptIsRecoverable DEF IInv
<1>2. QED
  BY <1>1, InstallationInvariance, PTL

\* No rollback, and no recovery whose checks could read what was valid, puts a
\* whole program back that is older than the last one that was installed.
THEOREM NoDowngrade == Spec => []NeverOlder
<1>1. IInv => NeverOlder
  <2>1. SUFFICES ASSUME IInv, live # None, live.payload = "whole", ~misjudged
                 PROVE  live.age >= committed
    BY DEF NeverOlder
  <2>2. live \in Present /\ live \in Directory /\ live.age \in Nat /\ committed \in Nat
    BY <2>1 DEF IInv, TypeOK, Typed, Present, Directory
  <2>3. live.changed = 2 * live.age
    BY <2>1, <2>2 DEF IInv, TypeOK, Dated
  <2>4. committed # 0 => live.changed >= 2 * committed
    BY <2>1 DEF IInv, Kept, Valid
  <2>5. QED
    BY <2>2, <2>3, <2>4
<1>2. QED
  BY <1>1, InstallationInvariance, PTL

\* While the user does not open the panel under a Setup, one failed operation
\* of Install is always rolled back.
THEOREM OneFailureIsRolledBack ==
  ASSUME ~Reopen
  PROVE  Spec => []RolledBack
<1>1. IInv => RolledBack
  BY DEF IInv, Undisturbed, RolledBack, Idle
<1>2. QED
  BY <1>1, InstallationInvariance, PTL

\* A panel that comes to operate on the version that is owed was closed before
\* and has evaluated the record.
LEMMA ComparedStep ==
  ASSUME IInv, [Next]_vars, ~Reopen
  PROVE  Compared
<1> SUFFICES ASSUME owed # None, panel'.mode = "normal", panel'.version = owed,
                    panel.version # owed
             PROVE  pending # None /\ pending.expected = owed /\ panel'.profile = pending.profile
  BY DEF Compared
<1>1. /\ pending # None /\ pending.expected = owed /\ live.version = owed
      /\ panel = Closed /\ setup.pc = "idle"
  BY DEF IInv, Recorded
<1>2. Start
  <2>1. panel' # panel
    BY <1>1 DEF Closed
  <2>2. ~SetupStep
    BY <1>1 DEF SetupStep, Recover, Clear, Restore, Drop, Extract, Backup, Activate,
       Register, Commit, Rollback, PutBack
  <2>3. ~SetupDies /\ ~Launch /\ \A v \in Version : ~Run(v)
    BY <1>1, <2>1 DEF SetupDies, Launch, Run, Closed
  <2>4. ~Stop /\ ~RestorePendingSafeProfile /\ ~LaunchFails
    BY <1>1 DEF Stop, RestorePendingSafeProfile, LaunchFails, Closed
  <2>5. \A p \in Profile : ~ChangeProfile(p)
    BY <1>1 DEF ChangeProfile, Closed
  <2>6. \A v \in Version : ~WritePending(v)
    BY <1>1 DEF WritePending, Closed
  <2>7. ~UNCHANGED vars
    BY <2>1 DEF vars
  <2>8. QED
    BY <2>2, <2>3, <2>4, <2>5, <2>6, <2>7 DEF Next
<1>3. panel'.profile = pending.profile
  BY <1>1, <1>2 DEF Start, Open, EvaluatePendingUpdate
<1>4. QED
  BY <1>1, <1>3

\* While the user does not open the panel under a Setup, the first panel that
\* operates after an assisted update has compared version and profile with the
\* record written before it.
THEOREM UpdatesAreVerified ==
  ASSUME ~Reopen
  PROVE  Spec => UpdateIsVerified
<1>1. IInv /\ [Next]_vars => Compared
  BY ComparedStep
<1>2. QED
  BY <1>1, InstallationInvariance, PTL DEF Spec, UpdateIsVerified
=============================================================================
