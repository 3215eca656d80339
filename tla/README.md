# DeskMCP: a TLA+ verification project

DeskMCP lets MCP clients (coding agents, chat applications) work on a user's machine through a
local *Gateway* (TypeScript, `src/src`) that a *control panel* (C#, `src/control-panel/wpf`)
starts and supervises. Several clients share a Gateway, several Gateways and the panel share the
machine's files, and any of these processes may die between two steps. This directory holds TLA+
modules for the parts of the program where that matters, the TLC configurations that check them
and the proofs that TLAPS checks. Paths in this file are relative to the repository;
`PROJECT.json` maps every definition to the lines it models and lists the hazards, each at its
line with the properties that cover it.

## 1. The system

### Components, their state and operations

| Component | State it keeps | Operations that change it | Modelled in |
|---|---|---|---|
| Cross-process lock (`src/cross-process-lock.ts`, panel: `CrossProcessDirectoryLock.cs`) | a lock directory with `owner.json`, a transition marker beside it, retired directories | acquire, reclaim a dead owner's lock, release and its retry | `PidLock`, `Mutex` |
| Observation store (`observation-store.ts`) | capabilities in memory, promise chains per path, machine-wide locks per path | observe, the four `with...Mutation` operations | `FileTools` |
| File tools (`bridge-tools.ts`, `native-file-backend.ts`) | the user's files | read, write, append, edit, move | `FileTools` |
| Process sessions (`process-session-registry.ts`, `process-tools.ts`, `native-process-backend.ts`) | registry of opaque session ids, the backend's table by pid, pending reservations | start, read, interact, list, terminate, completion, shutdown | `ProcessSessions` |
| Gateway life cycle (`index.ts`, `http-server.ts`, `control-server.ts`, `desktop-backend-bridge.ts`, `stop.ts`) | server sockets, the startup lock, the backend connection, the shutdown flag | start and its undoing, calls of the backend, shutdown with its drain | `Gateway` |
| Tasks (`task-state.ts`, `task-context.ts`, `task-tools.ts`) | a directory per room with its capabilities, a file per task | create, reattach, checkpoint, block, resume, review, complete | `TaskRooms` |
| Skills (`skill-store.ts`) | a registry file and a directory per version | install, activate, roll back | `SkillStore` |
| Artifacts (`artifact-store.ts`) | directories of payload and metadata, a byte budget | publish, delete, cleanup | `ArtifactStore` |
| Dynamic MCP hub (`dynamic-mcp-hub.ts`, `dynamic-mcp-oauth*.ts`) | registry file, pending authorization flows, credential state per server | add, remove, enable, set OAuth, refresh, call, authorize, disconnect | `McpHub` |
| Agent desktops (`agent-desktop-state.ts`, panel: `AgentDesktopControl.cs`) | pool of desktops and control leases in files shared by Gateways and panel, HUD heartbeats | bind, start and stop control, revoke, place | `AgentDesktop` |
| Browser (`browser-runtime.ts`) | sessions, observations, profile locks and directories | start, close, list, snapshot, act, reap, delete a profile, shut down | `BrowserSessions` |
| Computer use (`computer-use-*.ts`) | opaque window ids, observations, generations, a serial queue | list, snapshot, act | `ComputerUse` |
| Installer, update (`DeskMCPInstaller.cs`, `UpdateExecution.cs`) | the installation directory, its temporary and backup directories, the pending update record | install, roll back, recover, verify, hold | `Installation` |
| Control panel (`DeskMCPControlPanel.cs`, `RuntimeReliability.cs`) | owned Gateway and tunnel processes, retry timers, selected and requested profile | start, stop, recover, change profile | not modelled |
| Audit (`audit.ts`) | the log and its rotated files | begin, finish | not modelled |

### How they interact

* Every store that several Gateways share (tasks, artifacts, skills, hub registry, audit, agent
  desktops, browser profiles, file mutations, control socket) takes the cross-process lock; the
  agent desktop's files are shared with the panel through the C# twin of that protocol. Inside a
  Gateway a promise chain comes before the lock.
* `PidLock` models that lock once, call by call, and is proved to implement `Mutex`; every other
  module takes the lock as one variable that names its holder, which is what `Mutex` says of it.
* The tools of all clients run in one event loop: a handler is atomic between two `await`s only.
  The registry of processes is changed by tool handlers, by the exit of processes and by the
  shutdown.
* The browser runtime starts its browser through the process tools and registers it as a
  session; it may place its windows on a leased agent desktop. Completing a task ends the desktop
  control that is linked to it.
* The panel starts the Gateway, asks it to stop through the control socket and kills it otherwise;
  the installer stops both.

### What is hard

Interleavings of contenders on the lock directory; a death between any two file system calls; the
retry of a release that failed halfway; pids given again while a session still names them; checks
before an `await` and uses after it; a version observed by one client and changed by another; two
locks taken by one call; timeouts that race with the end of what they wait for; tokens, records or
directories written from a stale snapshot; a list that reconciles what another call disposes of; a
close that waits for someone else's connection.

### What makes each part correct

* Lock: at most one holder; the holder's directory stays its own; no reclaimer or retried release
  touches what another operation made; whoever waits returns; a dead owner's lock is taken over.
* Files: no lost update between clients or Gateways; one use per capability; a guarded move
  overwrites nothing; no deadlock; a returned call holds nothing.
* Processes: a session reaches its own process only; the ceiling holds and is not reached by dead
  processes; the shutdown leaves no process behind; calls return.
* Gateway: a stop that is acknowledged ends; no backend is lost between the calls that share,
  replace and close it.
* Tasks: no recorded work is lost; completion only through its gate; rooms and the latest handles
  stay open.
* Agent desktops: one lease per desktop and one desktop per number; no lease comes back after its
  revocation; what is reported as placed was placed under its lease.
* Browser and computer use: an action follows an observation that is still true and is used once;
  a profile has one browser; nothing outlives its session.
* Artifacts, skills, hub: registry and directories agree after any death; the budget holds; what
  discovery, health records or an old flow write never undoes a later change.
* Installer: a valid installation exists after any interruption, never an older one; an assisted
  update is verified before the panel operates.

## 2. Modules

| Module | What it is |
|---|---|
| `Mutex` | the abstract lock: a set of holders, at most one; the death of a holder frees it |
| `PidLock`, `MCPidLock` | the Gateway's and the panel's lock protocols on one directory, call by call |
| `PidLockProofs` | type correctness, inductive invariant, mutual exclusion, refinement of `Mutex`, and that nothing is left behind |
| `ProcessSessions` | registry, backend table, process tools and their shutdown |
| `Gateway` | the life of a Gateway: servers, startup lock, shared backend connection, shutdown |
| `ProcessProofs` | the proofs about `ProcessSessions` and `Gateway` |
| `MCProcessSessions`, `MCProcessStale` | instances of the two modules above for TLC |
| `FileTools`, `MCFileTools` | capabilities, captures, locks and file operations |
| `TaskRooms` | rooms, capability handles and one recoverable task per room |
| `SkillStore` | versions of a Skill and their registry |
| `ArtifactStore` | artifacts within a budget of bytes |
| `StoresProofs` | the proofs about `FileTools` and the three stores above |
| `ComputerUse` | window capabilities, observations, generations |
| `MCStores` | instances of the three stores and of `ComputerUse` for TLC |
| `McpHub`, `MCMcpHub`, `McpHubProofs` | one server of the hub: registry entry, discovery, flows, credentials, and their proofs |
| `AgentDesktop`, `MCAgentDesktop` | the pool of desktops shared by Gateways and panel |
| `DesktopProofs` | the proofs about `AgentDesktop` and `ComputerUse` |
| `BrowserSessions`, `MCBrowserSessions`, `BrowserSessionsProofs` | browsers, profiles, observations, and their ownership proved |
| `Installation`, `MCInstallation`, `InstallationProofs` | Setup, its rollback and recovery, the assisted update, and their proofs |
| `MCProofs` | what the runs `stores`, `files` and `processes` check, proved of the same specifications |

Each model keeps a program counter per caller, named after the place in the code where an `await`
(or, in C#, a file system call) lets other actors run; one action is the code from one such place
to the next. Modules that are small enough to be checked together share a run: an `MC` module
holds several instances and a variable (`instance`, `fileInstance`, `processInstance`) that says which
of them a behaviour is about; the variables of the others stay `None` or `Absent`. History (ghost)
variables are marked as such where they are declared; no guard reads one except to bound the
model.

### PidLock

`lockDir` is the lock directory (missing, bare, or with an owner), `marker` the transition marker.
Owner files are `[by, gen]`, the caller and its token; retired directories are per caller. The
Gateway's acquisition is `Acquire`, `Gate` (look at the marker), `Mkdir`, `WriteOwner` (or
`RmLockDir` when the write fails), `Lstat` and `ReadOwner` when another holds it, and `Wait`. The
panel's is `PanelGate`, `Publish` (it moves a complete directory into place), `GateAfterPublish`,
`DropLease` and `Abandon`. Both reclaim a dead owner's lock through `MkdirMarker`/`PublishMarker`,
`Recheck`, `Verify`, `Rename`, `RmRetired`, `CheckMarker`, `RmMarker`, and release through the same
steps; a failed release is retried (`RetryRetired`, `RetryPending`). `Crash` kills a process with
all its callers, `Restart` starts it again with a new identity, `Cleanup` is the user who removes an
abandoned marker by hand as the error message says. Reading an owner file while it changes hands
may fail in the ways the code distinguishes; these are nondeterministic.

### ProcessSessions

`sessions` is the registry, `backend` the backend's map from pid to process; a process keeps an
identity of its own beside its pid so that reuse of pids can be told apart. Tool handlers are
`Reserve`/`Refuse`, `Spawn`, `Started`, `Placed` for a start, `Read`, `Answered` for read and
interact, `Terminate`, `Kill`, `WaitEnds`/`WaitExpires`, `Terminated` for termination. `Exit` and
`Closed` are a process's exit and close events. `Shutdown`, `CleanupOwned`, `CloseBackend` are the
Gateway's end; with `MayLeave` a client goes away during its call, whose handler the drain of the
HTTP server then does not wait for. Continuations that need no I/O run before any other step
(`Resuming`), as microtasks do. `Keep(ss, K)` is the list that is left when the registry's map
loses all keys but those of `K`; the pruning, `forget` and the purge of a reused pid are made of it.

### Gateway

`pc["main"]` is the start of the program, which undoes what it did when a step fails, and
`pc["stop"]` its shutdown; both close with the same steps (`CloseControl` ... `End`). `server` and
`startupLock` are the control server and, on Unix, the lock it is started and closed under; peers
connect, ask and disconnect when they like. `client`, `starting`, `stage` and `child` are the
connection to the backend: calls use the installed one, join the start under way or begin one
(`Start`); a failing call, a failing start and the end of the backend drop what they know of
(`Invalidated`). One Gateway is modelled: another one that listens already is a probe that fails.
The acknowledgement of a stop and the begin of the shutdown are one step, as they are one turn of
the event loop; the close of the MCP handler is merged with that of the HTTP server; the close of
browsers is in `BrowserSessions`, and that of owned processes (`Owned`) is at most one call of the
backend, since what it does to processes is in `ProcessSessions`.

### FileTools

`disk` maps each path to a version (data and modification stamp); `caps` is each Gateway's
capability map in insertion order; `queue` its promise chains; `lock` the machine-wide locks. A
capture is three steps (`Stat`, `Load`, then `Captured` with the same stamp). `writeFile` is
`Truncate` and `Fill`, so that a death or a reader may come in between; a move is `Rename`, or a
copy and `Unlink` across devices. A call takes the promise chains of its paths in order
(`Admitted`), then their machine-wide locks in order (`Lock`, `LockTimeout`), consumes its
capability (`Take`), captures (`Fresh`, `Stale`), looks at the destination (`Destination`) and
acts. Every operation may fail (`Fault`, `UnlockFails`). Writers other than the Gateways are left
out: the code takes no lock that they respect.

### TaskRooms

A room is a directory, then a directory with `context.json`; `capabilities` are its handles, which
are numbered in the order they were issued. Creation and reattachment run under the lock of all
contexts, changes of a task (`Changes`) load, check and save under the lock of its room, after the
handle was checked without any. A call may fail or its Gateway die at any `await`. One task per
room: the tasks of a room share only the lock. Texts, events, labels and timestamps are left out.
The run allows deadlock because directories that a dead creation left behind use up the limit of
rooms, as they do in the code.

### SkillStore and ArtifactStore

`SkillStore` follows the versions of one Skill: an installation loads the registry, checks for
conflicts, moves the package into place and saves; after a failing save it removes the package,
unless it dies. Packages may be edited under the registry. The checks of a package (size, hashes,
manifest) are an outcome; validation and reads change nothing. `ArtifactStore` follows cleanups,
publications and deletions under the lock of the store; a removal may leave any part, a source may
be larger when it is copied than when it was measured, entries expire at any time.

### ComputerUse

A window capability is a number issued for an identity; an observation records the window's
generation and the global one, the lease it was made under and, as history, what had been done to
the window and as global input. Calls take turns in `queue`; an act consumes its observation,
checks it, looks whether the window is still there, and advances the generations before the backend
is asked. Clients may present any observation ever issued; pruning may drop any record, as age and
capacity do. A backend command that times out is killed, so that it has ended when its call
returns. The window of the safety HUD, and the denials of policy and audit, are left out.

### McpHub

One server name: `registry` is its entry, with the tools last discovered and the health last
observed, both labelled by the endpoint (url and header references) they describe; an OAuth
configuration is what identifies its client (`client`: scope, id, method) and the variable of its
secret (`secret`). `tokens` and `legacy` are what the secret store holds, and `pending` the flow each
Gateway waits for, both labelled by the `Identity` that `targetIdentity` makes of a target: its url
and client, no environment variable. A change of the OAuth configuration and `SameRefreshTarget`
compare more, all of it; so a callback may find its flow begun under another secret, and the flow's
own provider exchanges the code.
A refresh or a tool call reads the entry, connects without the lock (`working`), and then records
or persists under it (`recording`, `persisting`); a tool call is a refresh that persists only its
health. A call that times out records that and returns, but its connection goes on (`timedout`) and
its provider may still write. A provider works on the snapshot it opened and writes it back as a whole (`Migrate`,
tokens refreshed by the server, the exchange of a callback). Removal and a change of OAuth delete
credentials, and then save; either may fail. `config` remembers the last change of an
administrator, `late` whether a connection begun before that change has written credentials after
it. What a failing exchange saves beside the tokens is left out.

### AgentDesktop

`bindings` is `config.json`, `control` the leases of `control.json`, `hud` the leases with a fresh
heartbeat; the generation of a lease is left out because its id determines it. Gateways grant
(`StartControl`, then a wait for the panel's heartbeat), stop, and place windows between two checks
of the lease (`AssertLease` ... `Reassert`); the panel's tick reads a snapshot of the
leases (`controls`), shows overlays one by one and writes heartbeats from what it read. The user
rearranges, binds and unbinds desktops. The panel's reads fail open, as if the file were empty: a
bind that cannot read `config.json` writes a file with the new desktop only, an unbind that cannot
read `control.json` goes ahead on a controlled desktop, and a failed safety check may revoke any of
the leases the panel knew, or none. One task is followed, up to the end of its `complete` call;
a behaviour has either the task or the rearrangements. `displaced` (the desktops whose binding was
dropped under a lease) and `unheld` are history; `PoolIsConsistent` excepts the displaced.

### BrowserSessions

Calls of the chain (`Chained`) take `chain`, which any waiting call may take next; lists, snapshots
and acts do not. A start makes its profile's directory first (`MakeDirectory`) and then takes its lock,
which may fail (`LockFails`). Both kinds of call first reconcile registered sessions with running processes (`reconcile`,
`unlock`, `sweep`), which returns the lock and removes the directory of each session that is gone.
Then the start launches and registers; a disposal terminates, removes,
releases, forgets. `page` is the version of what a session's page shows, `observations` the unused
observations. A termination, a removal or a probe may fail. One pass of the reaper at a time;
another Gateway only takes and returns locks of profiles. Failures to return a lock, the catalog of
persistent profiles, and leases are left out, but a placement may fail a call and the reaper may
dispose of any session.

### Installation

`live` is the program directory and `backups` the directories renamed beside it; a directory has a
version, an age and what is left of its payload. A payload is `whole`, `broken`, or `trimmed`: the
integrity manifest names the critical files only, so a directory that an interrupted deletion has
robbed of others still passes `VerifyPayload`. A check may misjudge: `IsValidPayload` takes a failing
read for an invalid payload (`Judge`), which costs one failure of the model's bound. `setup` is the one Setup that runs (a machine-wide
mutex): `Recover`, `Clear`, `Restore` and `Drop` are `RecoverInterruptedInstall`; `Extract`,
`Backup`, `Activate`, `Register` and `Commit` the installation; `Rollback` and `PutBack` its failure
path. Each may fail, a deletion leaves any part of its directory, and `SetupDies` ends Setup
anywhere. The panel opens (`Start`) from whatever is in place, evaluates the `pending` record
(`EvaluatePendingUpdate`) and operates or holds; `ChangeProfile` and `RestorePendingSafeProfile`
save the settings, with the copy kept of the file before; `WritePending`, `Launch` and
`LaunchFails` are the assisted update. Three history variables serve the properties: `committed`, the
directory of the last Setup that ended well, `misjudged`, whether a recovery since has taken a valid
directory for invalid, and `owed`, the assisted update not yet verified. `Recoverable` promises that a
valid program remains, and, unless `misjudged`, one that is none older than the last installed.

## 3. What TLC checks

Bounds are named constants in every module and given in the `.cfg` files or in the `INSTANCE`
statements of the `MC` modules.

| Run | Question | Bounds and why they are enough |
|---|---|---|
| `lock_safety` | exclusion, ownership, the refinement of `Mutex`, and nothing left behind | two Gateways and a panel: a holder, a reclaimer and a newcomer are the smallest set in which a late reclaimer can meet a new holder; one death; two faults, the least with which a release is retried with its marker pending |
| `lock_live` | acquire and release return; a dead owner's lock is taken over | a Gateway and a panel, two acquisitions, a death, a failing call |
| `processes` | capabilities, accounting, ceiling and shutdown of sessions; every call returns; no backend is lost and a stop ends | sessions: three starts by two calls over two pids (a pid is given twice), a ceiling of one with processes that never end and kills that hang, a client that leaves; Gateway: on Windows two clients whose backends may end, on Unix one client and a failing call; two connections, the installed one and its replacement |
| `installation` | a program that passes its integrity check after any interruption, none older than the last installed unless a check failed to read it, one failure always rolled back, an assisted update verified | four Setups of two releases, three failures, two deaths: an interrupted Setup, an interrupted recovery and one more Setup over what they left |
| `files` | lost updates, observations of half-written files, guarded moves; calls return | two Gateways with four calls on one file, a failing operation and a death (an observation, a competing write, a death in it, and a write after it); three calls at once on two paths, one of a Gateway without guards; two calls across devices in both orders of locks with a failure |
| `mcp_hub` | a later change is never undone; credentials follow the configuration | two calls in two Gateways, two urls, one client with two secrets: a call or a connection that began before a change, the change, and a call after it; one set of headers, since a change of headers alone is a removal and an addition like that of a url |
| `stores` | rooms, tasks, the registry of Skills, the budget of artifacts, acts on the desktop | two calls everywhere, one more room and handle than the limits, two steps of different phases, two packages that declare one version and one that declares none, three artifacts of which two may exceed the budget, two windows and two observations |
| `agent_desktop` | exclusive and bound leases, revocations that last, placements under a lease | two desktops, two calls, two leases, one rearrangement: a lease, its revocation, and a second lease |
| `browser` | profiles owned, nothing orphaned, one act per observation | two starts that may share a profile, two clients, the reaper, the shutdown and one failure; one page that changes once, with two clients and two observations |

`lock_safety`, `agent_desktop`, `mcp_hub`, `browser` and `stores` treat calls that play the same
part as symmetric; runs with liveness do not. `agent_desktop` has a view: that a desktop is displaced
counts only while a lease names it, because any other must be bound again, which ends the
displacement, before a lease can.

Three runs expect a violation; each checks one sentence of the documentation or of a comment that
the code does not keep:

* `process_stale_pid`: while a start waits for its process, an older session id of the same pid
  reaches the new process, against the comment in `src/process-session-registry.ts`. The passing
  property `ReachesOwnUnlessStarting` says that this is the only way.
* `update_reopened`: when the user opens the panel while Setup runs, that panel clears the record of
  the assisted update and the new version is never compared with it, against
  `docs/UPDATE_SECURITY.md`. With `Reopen = FALSE` the property holds.
* `agent_desktop_completed`: a start that found the task active may write its lease after `complete`
  has ended the control linked to it, against `CHANGELOG.md`. (That `complete` ends the first lease
  linked to its task only is in the model too, but this run stops at the late start.)

### Seen with TLC, without a run of its own

* A running process whose output contains the words of a completed one is no longer counted: with
  `MaySpoof` the ceiling fails, against `SECURITY.md:20`.
* With `Reuse = "afterExit"` (a pid given again between a process's exit and its close event)
  `ShutdownKillsAll` and the ceiling fail: `terminate` deletes by pid and may delete the newer
  process. On the systems DeskMCP runs on the pid is given later.
* A client that left during its call is not waited for: its handler may spawn a process, or start
  the backend, after the shutdown has closed both. `ShutdownKillsAll` and `StopEnds` except it.
* A stop that arrives on Unix between the listen of the control server and the return of
  `startControlServer` leaves the control socket open, and later requests are acknowledged and
  ignored (`LeftOpen`). So does a startup lock that cannot be taken.
* A peer of the control socket that never ends its side keeps the shutdown waiting: `StopEnds`
  needs the fairness of `Disconnect`.
* A recovery takes the backup with the latest last-write time; an incomplete deletion makes an
  older backup look newest, and it is restored in place of the newer one. `NeverOlder` holds
  nevertheless for whole programs; `docs/UPDATE_SECURITY.md` promises the newest.
* A failing read makes a recovery delete the valid program it could not read: when an older backup was
  left over (its deletion had failed), it is restored in place of the newer release, although
  `docs/UPDATE_SECURITY.md:93` has a backup restored "when the live install is missing or invalid".
  `Recoverable` and `NeverOlder` say what holds in that case and what only without it.
* A controlled desktop is unbound when the panel cannot read `control.json`, against
  `docs/USER_GUIDE.md:87`, and a bind that cannot read `config.json` drops all other desktops.
* A browser start whose lock of an ephemeral profile cannot be taken leaves the directory it made, which
  nothing removes; `NothingOrphaned` excepts it, as it does a removal whose failure nobody hears of.
* A browser start that fails and whose termination fails returns the lock of its profile while the
  browser runs, against `CHANGELOG.md:134`; `RegisteredOwnsProfile` is about registered sessions.
* Two observations of one page state, taken by snapshots that overlap an act, both pass the check
  of the state, which is an `await` before the act.
* A connection in progress across a disconnection, also one whose call has timed out and returned,
  writes its snapshot of the credentials back; `CredentialsOfServer` excepts connections begun before
  the change (`late`).
* A flow that one Gateway began is accepted after another Gateway changed `client_secret_env`, and its
  tokens are saved for the new configuration. The check compares identities, and so does
  `CredentialsOfServer`.

### Fairness

Safety runs assume none. `lock_live` assumes weak fairness of each caller's own steps: file system
calls complete and waits are timers. In `processes`, the instance with hanging processes assumes
strong fairness of each call's callbacks, because a callback that is ready again and again is run
(queues are first in, first out); the Gateway instances assume weak fairness of the steps of the
shutdown, of the callbacks of start, calls and backend, and of the peer's disconnection, which
`stop.ts` does on its acknowledgement. `files` assumes weak fairness of each call's steps. None
assumes that a process ends, that a client calls again or that a lock's holder is quick.

## 4. What is proved

The proofs hold for every value of the constants under the named assumptions of each module, so
for every number of processes, calls, files, deaths and failures. `MCProofs`, the last below, is
the exception: it is about the instances that the runs check.

`PidLockProofs`:

* `TypeCorrect`: `TypeOK`.
* `Invariance`: `IInv`. Mutual exclusion is not inductive: a step of a reclaimer is harmless only
  because of where the marker is. `IInv` adds, for each program counter, what the caller knows of
  the directory, of the marker and of its own retired directory, and that tokens are never drawn
  twice. One lemma per action that touches a directory, one for all others (`PlainStep`).
* `DirectoryKept` and `LockMutualExclusion`: a lease in force owns the directory, hence there is
  one at most.
* `MarkerTheorem`: the marker changes only by its creator's steps (or by hand).
* `NothingLeft`: `NothingLeftBehind`, for runs without deaths and failed calls. `CleanInv` says why: then
  nobody reclaims, a marker is a release on its way that ends at its first attempt, the canonical
  directory has its maker or its holder, and a retired one the caller that removes it next. That a
  retired directory is its caller's own rests on `IInv`.
* `LockRefinement`: the protocol implements `Mutex`, with the holders as the mapping; each step is
  an acquisition, a release, a death, or a stutter.

`InstallationProofs`:

* `InstallationTypes`: `TypeOK`, which besides types says that no two directories have the same
  number and that a directory changed since its extraction only if it is not whole any more.
* `InstallationInvariance`: `IInv`. `Recoverable` is not inductive: at each point of Setup it holds
  because of one particular directory. `Placed` says where Setup finds the program directory and its
  backup at each program counter, and `Kept` which of the two must not be lost: in `clear`,
  `restore`, `activate`, `register` and `commit` the backup, in `extract` and `backup` the program in
  its place. The argument about `Recover` is that the newest backup it finds valid is at least as new as any directory
  that `Recoverable` names. When it misreads a valid one, a valid directory remains all the same: the
  program directory is only deleted for a backup that passed the check, and that backup is restored.
* `AlwaysRecoverable` and `NoDowngrade` follow from `Recoverable` and `Kept`, whether or not the
  panel may be opened under a Setup.
* `OneFailureIsRolledBack`, under `~Reopen`: `Undisturbed` adds that the panel is closed from the
  backup to the end, so a deletion in the rollback fails only for a failure of its own, and that a
  rollback has already used the one failure.
* `UpdatesAreVerified`, under `~Reopen`: `Recorded` ties the record on the disk to the Setup that
  runs and then to the version that is owed. Without `~Reopen` the run `update_reopened` refutes it.

`StoresProofs` treats `FileTools`, the module it extends, and three stores, which are instances in it
(`Skills`, `T` for the rooms and tasks, `A` for the artifacts).

* `FilesTypes`, `FilesInvariance`, `FilesNoLostUpdate`, each under `Parameters`: `HoldsLocks` says that
  a mutation past its waiting holds the locks of all its paths, whichever Gateway it belongs to,
  `OwnLocks` that a lock somebody holds is one it needs, and `CaptureStands` that the version a
  mutation loaded for its comparison is still on disk until it commits or ends. A death of a Gateway
  frees the locks of its calls together with the calls, which breaks neither. The limit of the
  capabilities of a Gateway is kept by a lemma about the oldest one, the least of their numbers.
* `SkillTypes`, `SkillRegistryIsSound`: `RegistryIsSound` is not inductive, because
  a save writes what was loaded some steps before. `SkillInv` adds that the one call that is not idle has
  loaded what the registry still is, and that a package that was moved but not registered is new and
  contradicts no registered version, so that its removal after a failed save takes nothing from the
  registry.
* `RoomsStayReachable`: `RoomsInv` adds that the holder of the lock of the
  contexts has space for the directory it makes and the handles that its room has, and
  `HandlesAreLatest`: the handles of a room are the last `MaxCapabilities` that were issued for it, in
  their order. The list of rooms stays within its limit by a lemma about cardinalities, the handles
  by one about the suffix that an append and a cut leave (`LatestAppended`).
* `TasksAreEarned` and `TasksKeepWork`: `TasksKnown` says that a task a call has loaded is the one on
  disk until that call saves; `ChangeSaves` then says of all operations on a task together that what
  they save is earned and keeps the work of what they loaded.
* `PublicationsUndisturbed` (`ArtifactsInv`): a publication under way names a directory that
  is as far as it has filled it, and the holder of the lock is the one call that removes directories,
  its own on failure and otherwise none that a publication fills.
* `ArtifactsWithinBudget`: `BudgetInv` adds that what is published leaves space for what the holder of
  the lock was admitted to add, and that a payload about to be published has the size that was
  admitted. The budget is a sum over a set, which `MapThenSumSet` computes by recursion; that a sum
  exists, splits at any element and grows with its set is proved in the same module. The library's
  induction theorems have an operator as a parameter, which the provers cannot instantiate; these
  proofs use `WFMin` instead, whose parameters are sets: a set of counterexamples has a smallest one.

`BrowserSessionsProofs` (`BrowserTypes`, `BrowserInvariance`, `BrowserRegisteredOwnsProfile`,
`BrowserNothingOrphaned`, `BrowserOneActPerObservation`): the hard case is a reconciliation that
found a session dead and ends long after its profile was opened again. `IInv` is the type invariant,
`Sound` and `Observed`; `Sound` says of every call what it knows at its `await` (`Good(a)`: what it
reconciles, what its disposal has reached, which locks its start or deletion holds) and of every
session who still answers for it. Ids of sessions are never used again, so a late return of a lock
is a return of a lock that is not held. `Observed` says that a used or superseded observation is in
nobody's hands.

`DesktopProofs` treats `AgentDesktop` and, as an instance, `ComputerUse`.

`DesktopTypes`, `DesktopInvariance`, `DesktopPoolIsConsistent`, `DesktopPlacedWithLease`,
`DesktopRevokedStaysRevoked`: the panel writes back what it read some steps before, and a Gateway's
call acts on a lease it read before its awaits. `IInv` adds that whatever the file, the HUD, the
panel's copy or a call names was granted before (`Granted`), that a lease is of one desktop in the
file and in the panel's copy (`Identified`), and that a lease which was not held when its windows
were moved is in nobody's hands afterwards, so the second assertion of the placement fails
(`MovesAccounted`). Leases are never numbered twice, hence what was ended stays ended.

`ComputerTypes`, `ComputerInvariance`, `ComputerActsOnWhatWasSeen`: history
variables count what was attempted on each window and as global input. `RecordsSound` says that an
observation whose two generations are still current saw exactly these counts, `ActsSound` that the
call which is acting has advanced the generations past those of every observation that could be
used after it. The delicate steps are `ForgetWindow`, which starts a generation again at zero and
must take every observation of that capability with it, and a window whose capability was given up
meanwhile and that got a new one.

`McpHubProofs` (`HubTypes`, `HubInvariance`, `HubLastChangeStands`, `HubCredentialsOfServer`): a call
of the hub works on a server that it read before its awaits, while a removal or a new OAuth
configuration goes through the lock. `Fresh` says that a call or a timed-out connection which no
change overtook works on the server as it is, with tokens of its identity; `ChangesServer` that the
holder of the lock has a server whose endpoint stays; and `Owned` that tokens on disk, unless an
overtaken connection wrote them (`late`), have the identity of the server that is registered. A deletion and a save overtake every other call (`Aged`), and while
the lock is held nothing else changes the server's configuration (`EntryKept`).

`ProcessProofs` treats `ProcessSessions` and, as an instance, `Gateway`.

`SessionsInvariance` and its corollaries assume `PidsKept`: a pid is not given again before the close
event of its process (`Reuse` is not `"afterExit"`). What else a corollary assumes is in its statement,
and it is what the property needs: TLC finds a counterexample to each without it. Without `PidsKept`
it refutes `ReachesOwnUnlessStarting`, `LiveIsCounted` and `ShutdownKillsAll`; for `TypeOK` it found none.

* `SessionsReachOwn`: `ReachesOwnUnlessStarting`. It rests on `BackendLatest` (the entry of a pid is
  the latest process of that pid), `OneSessionPerPid`, and `StartsPending` (a start whose process is
  no session yet holds its reservation, and no other start has that process). With pids that are never
  used again the stronger `SessionReachesItsOwn` holds (`SessionsReachOnlyOwn`), which the run
  `process_stale_pid` refutes for pids that are.
* `SessionsCounted`: `LiveIsCounted`, if kills take effect (`~MayHang`), no output is taken for the
  report of a completed process (`~MaySpoof`) and no client goes away. A registration drops the older
  sessions of its pid without a look at their processes; that these have closed is `OlderClosed`. A
  reconciliation and a failed read judge by the backend's table, so `BackendKnows` is needed: until
  the shutdown is over, the table has each process that has not closed. A call that waits for the
  close of an entry deletes by pid; `CallAbout` says that the entry is still the latest of the pid.
* `SessionsCeiling`: `Ceiling`, if pids are never used again and no output is taken for such a report.
  The number of active sessions is not kept within `maxSessions` by itself, since a reconciliation
  makes a session active that shares the pid of a process being started. `Bounded` counts the sessions
  that are active for themselves (`Settled`), for which the sum with the reservations is kept under
  every reuse of pids; without reuse they are all active sessions.
* `SessionsTypes`: `TypeOK` with the bound of the history. When a registration finds more active
  sessions than the history holds, nothing can be pruned; that this does not happen follows from
  `Bounded` and an injection of the sessions that are not `Settled` into the starts
  (`UnsettledBounded`).
* `SessionsShutdown`: `ShutdownKillsAll`, if kills take effect: `Closes` follows what the close of the
  backend knows from its list to its end.

What `Keep` leaves is proved first: `FoldLeft` is recursive, so that a selection exists, keeps
the members of the set and repeats none is an argument about a least counterexample, as for the sums
of `StoresProofs`. `SpawnKeeps` is the one step that needs the order of continuations: no other call
may be about to go on when a pid is given again.

`GatewayTypes`, `GatewayInvariance`, `GatewayBackendAccounted`: a backend that runs
is installed, being started, or known to a call that closes it. That is inductive only with
`StartsAlone` (a connection is started only while none is installed, so the end of a start replaces
none) and `ThreadsWait` (the threads that start and stop the program have a call of the backend only
where they wait for it, so they forget no failed connection). `AccountedKept` states once what a step
may do to connections; every action of `desktop-backend-bridge.ts` is an instance of it.

The assumptions of these modules say what sort of value each constant is, that limits are natural
numbers (positive where the code has a positive constant), and that `None` and the other markers are
not values they stand beside. TLC evaluates all of them for the constants of the runs.

`MCProofs` carries these results over to the specifications that the runs `stores`, `files` and
`processes` check, which hold several instances of the modules. For each instance there is one of
`StoresProofs`, `DesktopProofs` or `ProcessProofs` with the same values for its constants (`S1`, `S2`,
`U1`, `U2`, `P1` to `P3`; the half of `DesktopProofs` that is about `AgentDesktop` gets arbitrary ones
and is not used). A lemma `...Agrees` says that the values satisfy the module's assumption and that
the two copies of the module, the run's and the proof's, have the same `Init`, `Next` and properties:
every name is expanded in both. `StoresInv`, `FilesInv` and `ProcessesInv` then say that the
inductive invariant of each module holds in the instance a behaviour is about; no step leaves that
instance, so what is proved of a module's step is what is needed. The fourteen theorems of
`MCProofs` are the invariants of these runs and, as `StoresKeepWork`, the action property
`WorkIsKept`. They hold for any values of the model values that satisfy the named assumptions of the
`MC` modules and do not use the fairness of the specifications; the numbers and the sizes of sets are
those of the runs. Every other size is the subject of the theorems of the proof modules.

So every safety invariant and every action property of the passing runs is stated by a theorem, and
so is the refinement of `Mutex`.

Only model-checked, and why:

* Liveness (`CallsReturn`, `FileCallsReturn`, `StopEnds`, `StaleLockRecovered`, all properties of runs
  with fairness): outside of the prover's reach, as is `ENABLED`.
* `TypeOK` of `ProcessSessions` with `Reuse = "afterExit"`, since the proof of the bound of the history
  goes through `IInv`, which does not hold there.

## 5. What is not modelled, and why

* The audit log: what it keeps or loses changes no decision of the program.
* Path policy, the update manifest's checks, secret encryption, the wire protocols of browsers,
  virtual desktops and MCP, wording and layout of results, paging of output: pure functions of
  their arguments, or someone else's program. Where a model needs their outcome it is a
  nondeterministic choice (a check that refuses, an operation that fails).
* The search runner, the process host and the agent desktop host: one process per request, without
  state that outlives it.
* The control panel's supervision (a timer that starts Gateway and tunnel again, changes of profile
  in flight): deadlines in one thread around processes that are modelled elsewhere. That the panel
  settles on the profile last chosen rests on durations (a health poll, a start and a retry delay
  compared with each other): a model without time has schedules, for instance a Gateway that
  answers a poll only after every deadline, that those durations rule out.
* The macOS panel: the same supervision in Swift.
* Removal (`UninstallExecution.cs`): it ends the system whose states the properties speak of.
* Three things read in the code that the models abstract from: the promise for the lock root, which
  is kept when it rejects, so that one failing `mkdir` fails every later mutation
  (`src/src/observation-store.ts:123`); the return for a spawn without a pid before the child has a
  listener for errors (`src/src/native-process-backend.ts:176`); and the `continue` without a look
  at the deadline (`src/src/cross-process-lock.ts:502`), which matters only with a clock.
