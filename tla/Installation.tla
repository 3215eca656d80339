---------------------------- MODULE Installation ----------------------------
(***************************************************************************)
(* The installer (installer/DeskMCPInstaller.cs) and the panel's assisted  *)
(* update (control-panel/wpf/UpdateExecution.cs): the program directory,   *)
(* its backups, the pending verification record and the persisted          *)
(* permission profile, through failures, deaths and incomplete deletions.  *)
(***************************************************************************)
EXTENDS Naturals, FiniteSets

CONSTANTS
  None,         \* no directory, no record, no version
  MaxVersion,   \* releases are numbered from 1
  Reopen,       \* the user may open the panel while Setup runs
  MaxSetups, MaxChanges, MaxFaults, MaxCrashes   \* bounds

ASSUME InstallationAssumption ==
  /\ {MaxVersion, MaxSetups, MaxChanges, MaxFaults, MaxCrashes} \subseteq Nat
  /\ Reopen \in BOOLEAN

Version == 1..MaxVersion
Profile == {"read-only", "workspace-write"}

\* What is left of a payload: the integrity manifest names critical files only,
\* so that one that lost others still passes VerifyPayload.
Payload == {"whole", "trimmed", "broken"}

\* A directory has the number of its extraction and the time of its last change.
Directory == [version : Version, age : Nat, changed : Nat, payload : Payload]

\* The pending verification record.
Pending == [previous : Version, expected : Version, profile : Profile]

ASSUME NoneAssumption ==
  None \notin Version /\ None \notin Profile /\ None \notin Directory /\ None \notin Pending

VARIABLES
  live,      \* the program directory
  backups,   \* the directories renamed to .backup-*
  setup,     \* the Setup that runs (a mutex allows one)
  pending,   \* the pending verification record on disk
  settings,  \* the persisted profile and the copy kept of the one before
  panel,     \* the control panel that runs
  extracted, \* payloads extracted so far; a directory's number is its age
  committed, \* history: the directory of the last Setup that ended well
  misjudged, \* history: a check since then has failed to read a valid directory
  owed,      \* history: the assisted update whose verification is due
  setups, changes, faults, crashes   \* counters for the bounds

disk == <<live, backups>>
ghosts == <<extracted, committed, misjudged, owed>>
counters == <<setups, changes, faults, crashes>>
vars == <<disk, setup, pending, settings, panel, ghosts, counters>>

Present == backups \cup ({live} \ {None})

Idle == [pc |-> "idle", version |-> None, assisted |-> FALSE, dir |-> None,
         activated |-> FALSE, todo |-> {}]
Closed == [version |-> None, profile |-> None, mode |-> "closed", record |-> None]

Fault == faults < MaxFaults /\ faults' = faults + 1
NoFault == faults' = faults

Init ==
  /\ live = None /\ backups = {} /\ setup = Idle
  /\ pending = None
  /\ settings = [now |-> "read-only", before |-> None]
  /\ panel = Closed
  /\ extracted = 0 /\ committed = 0 /\ misjudged = FALSE /\ owed = None
  /\ setups = 0 /\ changes = 0 /\ faults = 0 /\ crashes = 0

----------------------------------------------------------------------------
(* Setup *)

Goto(pc) == setup' = [setup EXCEPT !.pc = pc]

\* What VerifyPayload accepts when it can read all that it looks at.
Valid(d) == d # None /\ d.payload # "broken"
ValidDirectories == {d \in Present : Valid(d)}

\* Mutant: the first valid backup that is found.
NewestAny(dirs) == dirs

\* Those that no other is newer than, by the time of their last change.
Newest(dirs) == {d \in dirs : \A e \in dirs : e.changed <= d.changed}

\* Times alternate: an extraction, then all that happens until the next one.
Extraction == 2 * extracted
Now == 2 * extracted + 1

\* What a deletion that does not get to its end leaves. The directory's own time
\* changes when an entry right under it went.
Damaged(d) ==
  {d} \cup {[version |-> d.version, age |-> d.age, changed |-> t, payload |-> p] :
              p \in {"broken"} \cup (IF Valid(d) THEN {"trimmed"} ELSE {}),
              t \in {d.changed, Now}}

\* A deletion fails, as it does while the panel runs from the directory.
DeleteLive ==
  \/ panel = Closed /\ live' = None /\ NoFault
  \/ (IF panel = Closed THEN Fault ELSE NoFault) /\ live' \in Damaged(live)
DeleteBackup(b) ==
  \/ backups' = backups \ {b} /\ NoFault
  \/ Fault /\ \E d \in Damaged(b) : backups' = (backups \ {b}) \cup {d}

\* What a step of Setup leaves alone.
SetupFrame == UNCHANGED <<pending, settings, setups, changes, crashes>>

Begin(v, assisted) ==
  /\ setup' = [Idle EXCEPT !.pc = "recover", !.version = v, !.assisted = assisted]
  /\ setups' = setups + 1

\* The user runs the Setup of a release: no assisted update is under way any more.
Run(v) ==
  /\ setup = Idle /\ setups < MaxSetups
  /\ Begin(v, FALSE)
  /\ owed' = None
  /\ UNCHANGED <<disk, pending, settings, panel, extracted, committed, misjudged,
                 changes, faults, crashes>>

\* Mutant: backups are only kept for a program directory that is missing.
JudgeIfPresent(passing) ==
  IF backups = {} THEN Goto("extract")
  ELSE IF live # None THEN setup' = [setup EXCEPT !.pc = "drop", !.todo = backups]
  ELSE IF passing \cap backups = {} THEN Goto("extract")
  ELSE \E b \in Newest(passing \cap backups) :
         setup' = [setup EXCEPT !.pc = "clear", !.dir = b]

\* What Setup does, by the directories that pass the check.
Judge(passing) ==
  IF backups = {} THEN Goto("extract")
  ELSE IF live \in passing THEN setup' = [setup EXCEPT !.pc = "drop", !.todo = backups]
  ELSE IF passing \cap backups = {} THEN Goto("extract")
  ELSE \E b \in Newest(passing \cap backups) :
         setup' = [setup EXCEPT !.pc = "clear", !.dir = b]

\* IsValidPayload takes a failing read for an invalid payload. Nothing is read when
\* there is no backup, and no backup when the program directory passes; a listing
\* that fails ends Setup.
Recover ==
  /\ setup.pc = "recover"
  /\ \/ Judge(ValidDirectories) /\ NoFault /\ UNCHANGED misjudged
     \/ /\ backups # {}
        /\ \E passing \in (SUBSET ValidDirectories) \ {ValidDirectories} :
             live \notin passing /\ Judge(passing)
        /\ Fault /\ misjudged' = TRUE
     \/ Fault /\ setup' = Idle /\ UNCHANGED misjudged
  /\ SetupFrame /\ UNCHANGED <<disk, panel, extracted, committed, owed>>

Clear ==
  /\ setup.pc = "clear"
  /\ IF live = None THEN UNCHANGED <<live, faults>> ELSE DeleteLive
  /\ Goto("restore")
  /\ SetupFrame /\ UNCHANGED <<backups, panel, ghosts>>

\* Mutant: the backup is copied.
RestoreCopies ==
  /\ setup.pc = "restore"
  /\ \/ /\ live = None /\ NoFault
        /\ live' = setup.dir /\ UNCHANGED backups
        /\ setup' = [setup EXCEPT !.pc = "drop", !.dir = None,
                                  !.todo = backups \ {setup.dir}]
     \/ /\ \/ live # None /\ NoFault
           \/ Fault
        /\ setup' = Idle /\ UNCHANGED disk
  /\ SetupFrame /\ UNCHANGED <<panel, ghosts>>

\* The move is retried until its deadline and then ends Setup.
Restore ==
  /\ setup.pc = "restore"
  /\ \/ /\ live = None /\ NoFault
        /\ live' = setup.dir /\ backups' = backups \ {setup.dir}
        /\ setup' = [setup EXCEPT !.pc = "drop", !.dir = None,
                                  !.todo = backups \ {setup.dir}]
     \/ /\ \/ live # None /\ NoFault
           \/ Fault
        /\ setup' = Idle /\ UNCHANGED disk
  /\ SetupFrame /\ UNCHANGED <<panel, ghosts>>

Drop ==
  /\ setup.pc = "drop"
  /\ IF setup.todo = {}
     THEN Goto("extract") /\ UNCHANGED <<backups, faults>>
     ELSE \E b \in setup.todo :
            /\ setup' = [setup EXCEPT !.todo = @ \ {b}]
            /\ DeleteBackup(b)
  /\ SetupFrame /\ UNCHANGED <<live, panel, ghosts>>

\* Extraction and its verification; a failure leaves a directory that no one reads.
Extract ==
  /\ setup.pc = "extract"
  /\ \/ /\ Goto(IF live = None THEN "activate" ELSE "backup")
        /\ extracted' = extracted + 1 /\ NoFault
     \/ /\ Fault /\ setup' = Idle /\ UNCHANGED extracted
  /\ SetupFrame /\ UNCHANGED <<disk, panel, committed, misjudged, owed>>

\* Mutant: the panel goes on.
BackupWhileRunning ==
  /\ setup.pc = "backup"
  /\ panel' = panel
  /\ \/ /\ backups' = backups \cup {live} /\ live' = None /\ NoFault
        /\ setup' = [setup EXCEPT !.pc = "activate", !.dir = live]
     \/ /\ Fault /\ Goto("rollback") /\ UNCHANGED disk
  /\ SetupFrame /\ UNCHANGED ghosts

\* The panel and its processes are killed before each attempt to move.
Backup ==
  /\ setup.pc = "backup"
  /\ panel' = Closed
  /\ \/ /\ backups' = backups \cup {live} /\ live' = None /\ NoFault
        /\ setup' = [setup EXCEPT !.pc = "activate", !.dir = live]
     \/ /\ Fault /\ Goto("rollback") /\ UNCHANGED disk
  /\ SetupFrame /\ UNCHANGED ghosts

Activate ==
  /\ setup.pc = "activate"
  /\ \/ /\ live' = [version |-> setup.version, age |-> extracted,
                   changed |-> Extraction, payload |-> "whole"]
        /\ setup' = [setup EXCEPT !.pc = "register", !.activated = TRUE] /\ NoFault
     \/ /\ Fault /\ Goto("rollback") /\ UNCHANGED live
  /\ SetupFrame /\ UNCHANGED <<backups, panel, ghosts>>

\* Shortcuts and the entry of the uninstaller.
Register ==
  /\ setup.pc = "register"
  /\ \/ Goto("commit") /\ NoFault
     \/ Fault /\ Goto("rollback")
  /\ SetupFrame /\ UNCHANGED <<disk, panel, ghosts>>

Commit ==
  /\ setup.pc = "commit"
  /\ IF setup.dir = None THEN UNCHANGED <<backups, faults>> ELSE DeleteBackup(setup.dir)
  /\ setup' = Idle
  /\ committed' = extracted /\ misjudged' = FALSE
  /\ owed' = IF setup.assisted THEN setup.version ELSE None
  /\ SetupFrame /\ UNCHANGED <<live, panel, extracted>>

\* Mutant: the backup is deleted although it could not be put back.
RollbackForgets ==
  /\ setup.pc = "rollback"
  /\ setup' = Idle
  /\ IF setup.dir # None \/ setup.activated
     THEN /\ IF live = None THEN UNCHANGED <<live, faults>> ELSE DeleteLive
          /\ backups' = backups \ {setup.dir}
     ELSE UNCHANGED <<disk, faults>>
  /\ SetupFrame /\ UNCHANGED <<panel, ghosts>>

\* With a backup, or after an activation, the program directory is deleted.
Rollback ==
  /\ setup.pc = "rollback"
  /\ IF setup.dir # None \/ setup.activated
     THEN IF live = None THEN UNCHANGED <<live, faults>> ELSE DeleteLive
     ELSE UNCHANGED <<live, faults>>
  /\ setup' = IF setup.dir # None THEN [setup EXCEPT !.pc = "putBack"] ELSE Idle
  /\ SetupFrame /\ UNCHANGED <<backups, panel, ghosts>>

\* The failure of the move is swallowed.
PutBack ==
  /\ setup.pc = "putBack"
  /\ setup' = Idle
  /\ \/ /\ live = None /\ NoFault
        /\ live' = setup.dir /\ backups' = backups \ {setup.dir}
     \/ /\ \/ live # None /\ NoFault
           \/ Fault
        /\ UNCHANGED disk
  /\ SetupFrame /\ UNCHANGED <<panel, ghosts>>

\* The backups that Setup is deleting.
BeingDeleted ==
  IF setup.pc = "commit" THEN {setup.dir} \ {None} ELSE setup.todo

\* Setup dies between two operations or in a deletion.
SetupDies ==
  /\ setup.pc # "idle" /\ crashes < MaxCrashes
  /\ crashes' = crashes + 1
  /\ setup' = Idle
  /\ \/ UNCHANGED disk
     \/ /\ setup.pc \in {"clear", "rollback"} /\ live # None
        /\ setup.pc = "rollback" => setup.dir # None \/ setup.activated
        /\ live' \in Damaged(live) /\ UNCHANGED backups
     \/ /\ UNCHANGED live
        /\ \E b \in BeingDeleted : \E d \in Damaged(b) : backups' = (backups \ {b}) \cup {d}
  /\ UNCHANGED <<pending, settings, panel, ghosts, setups, changes, faults>>

SetupStep == \/ Recover \/ Clear \/ Restore \/ Drop \/ Extract
             \/ Backup \/ Activate \/ Register \/ Commit \/ Rollback \/ PutBack

----------------------------------------------------------------------------
(* The panel *)

\* The record is deleted quietly: a failure leaves it on the disk.
ClearPending ==
  \/ pending' = None /\ NoFault
  \/ Fault /\ UNCHANGED pending

\* SaveSettings keeps a copy of the file it replaces; its failure, before or after
\* the older copy went, is swallowed.
SaveSettings(profile) ==
  \/ settings' = [now |-> profile, before |-> settings.now] /\ NoFault
  \/ Fault /\ settings' \in {settings, [settings EXCEPT !.before = None]}

\* Mutant: the profile is not compared.
EvaluateVersionOnly(r, version, profile) ==
  IF version \in {r.previous, r.expected} THEN "clear" ELSE "hold"

\* What the record says about the version that starts under a profile.
EvaluatePendingUpdate(r, version, profile) ==
  IF version \notin {r.previous, r.expected} THEN "hold"
  ELSE IF r.profile # profile THEN "holdProfile"
  ELSE "clear"

\* The settings are loaded, or when they cannot be read the copy, or defaults.
LoadSettings(loaded) ==
  \/ loaded = settings.now /\ UNCHANGED settings /\ NoFault
  \/ /\ loaded = IF settings.before = None THEN "read-only" ELSE settings.before
     /\ Fault
     /\ settings' = [settings EXCEPT !.now = loaded]

Open(version, profile, mode, record) ==
  panel' = [version |-> version, profile |-> profile, mode |-> mode, record |-> record]

\* The panel starts, from whatever is left of the directory, and evaluates the
\* record; its version has been seen once it operates.
Start ==
  /\ panel = Closed /\ live # None
  /\ Reopen \/ setup = Idle
  /\ \E profile \in Profile :
       /\ LoadSettings(profile)
       /\ LET verdict == IF pending = None THEN "normal"
                         ELSE EvaluatePendingUpdate(pending, live.version, profile)
          IN  \/ /\ verdict = "normal"
                 /\ Open(live.version, profile, "normal", None) /\ UNCHANGED pending
              \/ /\ verdict = "clear"
                 /\ Open(live.version, profile, "normal", None)
                 /\ pending' \in {None, pending}
              \/ /\ verdict \in {"hold", "holdProfile"}
                 /\ Open(live.version, profile, verdict, pending) /\ UNCHANGED pending
  /\ owed' = IF panel'.mode = "normal" /\ panel'.version = owed THEN None ELSE owed
  /\ UNCHANGED <<disk, setup, extracted, committed, misjudged, setups, changes, crashes>>

Stop ==
  /\ panel # Closed /\ panel' = Closed
  /\ UNCHANGED <<disk, setup, pending, settings, ghosts, counters>>

ChangeProfile(profile) ==
  /\ panel.mode = "normal" /\ panel.profile # profile /\ changes < MaxChanges
  /\ panel' = [panel EXCEPT !.profile = profile]
  /\ SaveSettings(profile)
  /\ changes' = changes + 1
  /\ UNCHANGED <<disk, setup, pending, ghosts, setups, crashes>>

RestorePendingSafeProfile ==
  /\ panel.mode = "holdProfile"
  /\ Open(panel.version, panel.record.profile, "normal", None)
  /\ \/ settings' = [now |-> panel.record.profile, before |-> settings.now]
        /\ ClearPending
     \/ /\ Fault /\ pending' = None
        /\ settings' \in {settings, [settings EXCEPT !.before = None]}
  /\ owed' = IF panel.version = owed THEN None ELSE owed
  /\ UNCHANGED <<disk, setup, extracted, committed, misjudged, setups, changes, crashes>>

\* A verified download of a newer release: the record is written first.
WritePending(v) ==
  /\ panel.mode = "normal" /\ v > panel.version
  /\ LET record == [previous |-> panel.version, expected |-> v, profile |-> panel.profile]
     IN  /\ pending' = record
         /\ panel' = [panel EXCEPT !.mode = "launching", !.record = record]
  /\ UNCHANGED <<disk, setup, settings, ghosts, counters>>

\* Setup is launched and the panel ends; a Setup that finds another one running
\* ends at once.
Launch ==
  /\ panel.mode = "launching"
  /\ panel' = Closed
  /\ \/ setup = Idle /\ setups < MaxSetups /\ Begin(panel.record.expected, TRUE)
     \/ setup # Idle /\ UNCHANGED <<setup, setups>>
  /\ UNCHANGED <<disk, pending, settings, ghosts, changes, faults, crashes>>

LaunchFails ==
  /\ panel.mode = "launching"
  /\ panel' = [panel EXCEPT !.mode = "normal", !.record = None]
  /\ ClearPending
  /\ UNCHANGED <<disk, setup, settings, ghosts, setups, changes, crashes>>

----------------------------------------------------------------------------

Next ==
  \/ \E v \in Version : Run(v) \/ WritePending(v)
  \/ SetupStep \/ SetupDies
  \/ Start \/ Stop \/ RestorePendingSafeProfile \/ Launch \/ LaunchFails
  \/ \E p \in Profile : ChangeProfile(p)

Spec == Init /\ [][Next]_vars

----------------------------------------------------------------------------
(* Properties *)

SetupPc == {"idle", "recover", "clear", "restore", "drop", "extract", "backup",
            "activate", "register", "commit", "rollback", "putBack"}

SetupTyped ==
  /\ setup \in [pc : SetupPc, version : Version \cup {None}, assisted : BOOLEAN,
                dir : Directory \cup {None}, activated : BOOLEAN,
                todo : SUBSET Directory]
  /\ setup.pc # "idle" => setup.version \in Version

PanelTyped ==
  /\ panel \in [version : Version \cup {None}, profile : Profile \cup {None},
                mode : {"closed", "normal", "launching", "hold", "holdProfile"},
                record : Pending \cup {None}]
  /\ panel # Closed => panel.version \in Version /\ panel.profile \in Profile
  /\ panel.mode \in {"launching", "holdProfile"} => panel.record \in Pending

Typed ==
  /\ live \in Directory \cup {None} /\ backups \subseteq Directory
  /\ SetupTyped /\ PanelTyped
  /\ pending \in Pending \cup {None}
  /\ settings \in [now : Profile, before : Profile \cup {None}]
  /\ extracted \in Nat /\ committed \in 0..extracted /\ misjudged \in BOOLEAN /\ owed \in Version \cup {None}
  /\ {setups, changes, faults, crashes} \subseteq Nat

\* One directory of each extraction, changed after it unless it is whole.
Dated ==
  /\ \A d \in Present : d.age <= extracted /\ d.changed \in (2 * d.age)..Now
  /\ \A d \in Present : d.payload = "whole" => d.changed = 2 * d.age
  /\ \A d, e \in backups : d.age = e.age => d = e
  /\ \A d \in backups : live # None => d.age # live.age

\* The values the variables take, and the numbers and times of directories: no
\* step of Setup copies or revives one.
TypeOK == Typed /\ Dated

\* Once a Setup has ended well there is always a program that passes
\* VerifyPayload, in its place or as a backup, whatever fails, dies or cannot be
\* read. While every check could read what was valid, it is not older than the one
\* that Setup installed, or an incomplete deletion has changed it since.
Current(d) == Valid(d) /\ d.changed >= 2 * committed
Recoverable ==
  committed # 0 => \E d \in Present : IF misjudged THEN Valid(d) ELSE Current(d)

\* A whole program in its place is never older than the last one that a Setup
\* installed, neither after a rollback nor after a recovery, unless a check failed
\* to read a valid directory since: then an older backup may take its place.
NeverOlder ==
  live # None /\ live.payload = "whole" /\ ~misjudged => live.age >= committed

\* A Setup that is over leaves a program in its place unless two operations
\* failed or it died: one failure is always rolled back.
RolledBack ==
  setup = Idle /\ faults <= 1 /\ crashes = 0 /\ committed # 0
    => Valid(live)

\* The first panel that operates after an assisted update has compared the
\* version and the profile with the record written before it.
Compared ==
  owed # None /\ panel'.mode = "normal" /\ panel'.version = owed /\ panel.version # owed
    => pending # None /\ pending.expected = owed /\ panel'.profile = pending.profile
UpdateIsVerified == [][Compared]_vars

----------------------------------------------------------------------------
(* The inductive invariant *)

\* Where each step of Setup finds the program directory and its backup.
Placed ==
  /\ setup.pc # "drop" => setup.todo = {}
  /\ setup.todo \subseteq backups
  /\ setup.dir # None => setup.dir \in backups
  /\ setup.pc \in {"idle", "recover", "drop", "extract", "backup"} => setup.dir = None
  /\ setup.pc \in {"clear", "restore"} => Valid(setup.dir)
  /\ setup.pc = "putBack" => setup.dir # None
  /\ setup.activated => setup.pc \in {"register", "commit", "rollback", "putBack"}
  /\ setup.pc = "drop" => Valid(live)
  /\ setup.pc = "backup" => live # None
  /\ setup.pc = "activate" => live = None
  /\ setup.pc \in {"register", "commit"} =>
       /\ Valid(live) /\ live.version = setup.version
       /\ live.age = extracted /\ live.changed = Extraction
  /\ setup.pc \in {"backup", "activate"} => \A d \in Present : d.age < extracted

\* A valid program that the next step deletes nothing of.
Saved == committed # 0 =>
  /\ \E d \in Present : Valid(d)
  /\ \/ setup.pc \in {"activate", "register", "putBack"}
     \/ setup.pc = "rollback" /\ (setup.dir # None \/ setup.activated)
     => \E b \in backups : Valid(b)

\* Which of the two is the program that must not be lost.
Kept == committed # 0 /\ ~misjudged =>
  /\ \E d \in Present : Current(d)
  /\ Valid(live) => live.changed >= 2 * committed
  /\ setup.pc \in {"clear", "restore"} => ~Valid(live)
  /\ setup.pc \in {"extract", "backup"} => Valid(live)
  /\ setup.pc \in {"activate", "register", "commit"} => setup.dir # None
  /\ setup.pc = "rollback" /\ setup.dir = None => Valid(live) /\ ~setup.activated
  /\ setup.dir # None => Current(setup.dir)

\* Without a failure or a death there is no backup to judge a directory for, and it
\* takes a second failure to judge one wrongly.
Unfailed == crashes = 0 =>
  /\ faults <= 1 => ~misjudged
  /\ faults = 0 =>
       /\ setup.pc \notin {"clear", "restore", "drop", "rollback", "putBack"}
       /\ backups \subseteq {setup.dir}

\* What one failure at most, and no death, leaves.
Undisturbed == ~Reopen /\ committed # 0 /\ crashes = 0 /\ faults <= 1 =>
  /\ setup.pc \in {"idle", "recover", "drop", "extract", "backup"} => Valid(live)
  /\ setup.pc \notin {"clear", "restore"}
  /\ setup.pc \in {"activate", "register", "commit", "rollback", "putBack"} => panel = Closed
  /\ setup.pc \in {"rollback", "putBack"} => faults = 1
  /\ setup.pc = "putBack" => live = None

\* The record is there from its writing until the new version has read it.
Recorded == ~Reopen =>
  /\ setup.pc # "idle" => owed = None
  /\ setup.pc # "idle" /\ setup.assisted =>
       panel = Closed /\ pending # None /\ pending.expected = setup.version
  /\ panel.mode = "launching" => pending = panel.record
  /\ panel.mode \in {"normal", "launching"} => owed = None
  /\ owed # None =>
       /\ live # None /\ live.version = owed
       /\ pending # None /\ pending.expected = owed
       /\ panel # Closed => panel.version = owed

\* Recoverable is not inductive: it depends on what Setup knows at each step.
IInv == TypeOK /\ Placed /\ Saved /\ Kept /\ Unfailed /\ Undisturbed /\ Recorded
=============================================================================
