------------------------------ MODULE FileTools ------------------------------
(***************************************************************************)
(* The guarded file tools of DeskMCP: the ObservationStore of each Gateway  *)
(* (src/observation-store.ts), the tools desktop_read_file, _write_file,    *)
(* _edit_file and _move_file that use it (src/bridge-tools.ts) and the file *)
(* operations they end in (src/native-file-backend.ts).                     *)
(*                                                                          *)
(* A read issues a one-time capability for the version it saw.  A mutation  *)
(* queues in its Gateway's keyed mutexes, takes the machine-wide lock of    *)
(* each path (a Mutex: the death of its holder frees it), consumes its      *)
(* capability, captures the file again and only then acts.  Several calls   *)
(* run at once in a Gateway, and several Gateways share the disk.           *)
(*                                                                          *)
(* A version of a file is its data and its modification stamp.  Writers     *)
(* that are no Gateway are left out: no lock of this code reaches them.     *)
(***************************************************************************)
EXTENDS Naturals, Sequences, FiniteSetsExt, SequencesExt

CONSTANTS
  Gateway,      \* the Gateways that share the disk and the lock directory
  Call,         \* the tool calls that can be in flight
  GatewayOf,    \* the Gateway that serves a call
  Unlocked,     \* the Gateways whose profile is fully-unlocked
  NFiles,       \* number of paths; a path is its rank in the sorted order
  Content,      \* what a complete file can hold
  Initially,    \* what each path holds at the start
  CrossDevice,  \* whether moves cross a file system boundary (EXDEV)
  MaxEntries,   \* capabilities kept by a store
  MaxCalls,     \* bound on the calls made
  MaxFaults,    \* bound on failing file and lock operations
  MaxCrashes,   \* bound on deaths of Gateways
  Gone,         \* a path without a file
  Torn,         \* what a file holds between truncation and write
  None          \* absence

File == 1..NFiles
Data == Content \cup {Torn}

\* What the code and this model take for granted of the constants.
Parameters ==
  /\ GatewayOf \in [Call -> Gateway] /\ Unlocked \subseteq Gateway
  /\ Initially \in [File -> Content \cup {Gone}]
  /\ NFiles \in Nat \ {0} /\ MaxEntries \in Nat \ {0} /\ MaxCalls \in Nat
  /\ MaxFaults \in Nat /\ MaxCrashes \in Nat /\ CrossDevice \in BOOLEAN
  /\ Gone \notin Data /\ Torn \notin Content
  /\ None \notin Call \cup Gateway \cup Data \cup {Gone} \cup Nat
  /\ Call \cap Gateway = {}

VARIABLES
  disk,     \* the version of each path
  clock,    \* the last modification stamp given
  caps,     \* each store's capabilities; the oldest has the lowest id
  queue,    \* each store's keyed mutexes: the promise chain of each path
  lock,     \* the machine-wide lock of each path: the call that holds it, or
            \* the Gateway whose release of it failed
  call,     \* each call's locals
  issued,   \* capabilities issued so far: the ids are 1..issued
  started,  \* calls made so far
  faults,   \* operations that failed so far
  crashes   \* Gateways that died so far

vars ==
  <<disk, clock, caps, queue, lock, call, issued, started, faults, crashes>>

Version == [data : Data, stamp : Nat]

Capability == [id : Nat, file : File, data : Data]

\* The id of a capability consumed or evicted before the call was made.
Spent == 0

Tool == {"read", "write", "append", "edit", "move"}

Idle ==
  [pc |-> "idle", tool |-> "read", src |-> 1, dst |-> 1, token |-> None,
   seen |-> None, stat |-> 0, data |-> None]

DataAt(f) == IF disk[f] = Gone THEN Gone ELSE disk[f].data

Guarded(c) == GatewayOf[c] \notin Unlocked

Keys(c) == {call[c].src, call[c].dst}

Chain(c, f) == queue[GatewayOf[c]][f]

Queued(c) == {f \in File : Contains(Chain(c, f), c)}

Locked(c) == {f \in File : lock[f] = c}

Goto(c, pc) == call' = [call EXCEPT ![c].pc = pc]

\* A read that fails returns; a mutation that fails first gives up its locks.
Failed(c) ==
  IF call[c].tool = "read" THEN Idle ELSE [call[c] EXCEPT !.pc = "unlock"]

Fail(c) == call' = [call EXCEPT ![c] = Failed(c)]

Enqueue(c, f) ==
  queue' = [queue EXCEPT ![GatewayOf[c]][f] = Append(@, c)]

Write(f, data) ==
  /\ clock' = clock + 1
  /\ disk' = [disk EXCEPT ![f] = [data |-> data, stamp |-> clock + 1]]

Init ==
  /\ disk = [f \in File |->
       IF Initially[f] = Gone THEN Gone
       ELSE [data |-> Initially[f], stamp |-> 0]]
  /\ clock = 0
  /\ caps = [g \in Gateway |-> {}]
  /\ queue = [g \in Gateway |-> [f \in File |-> <<>>]]
  /\ lock = [f \in File |-> None]
  /\ call = [c \in Call |-> Idle]
  /\ issued = 0
  /\ started = 0
  /\ faults = 0
  /\ crashes = 0

-----------------------------------------------------------------------------
(* Capturing a version, and desktop_read_file *)

\* The path is resolved before the first capture.
Read(c, f) ==
  /\ call[c].pc = "idle" /\ started < MaxCalls
  /\ disk[f] # Gone
  /\ started' = started + 1
  /\ call' = [call EXCEPT ![c] = [Idle EXCEPT !.pc = "stat", !.src = f, !.dst = f]]
  /\ UNCHANGED <<disk, clock, caps, queue, lock, issued, faults, crashes>>

Stat(c) ==
  /\ call[c].pc = "stat" /\ disk[call[c].src] # Gone
  /\ call' = [call EXCEPT ![c].pc = "load", ![c].stat = disk[call[c].src].stamp]
  /\ UNCHANGED <<disk, clock, caps, queue, lock, issued, started, faults, crashes>>

Load(c) ==
  /\ call[c].pc = "load" /\ disk[call[c].src] # Gone
  /\ call' = [call EXCEPT ![c].pc = "verify", ![c].data = disk[call[c].src].data]
  /\ UNCHANGED <<disk, clock, caps, queue, lock, issued, started, faults, crashes>>

\* The capture ends only if the stamp is still that of its beginning.
Captured(c) ==
  /\ call[c].pc = "verify" /\ disk[call[c].src] # Gone
  /\ disk[call[c].src].stamp = call[c].stat

CaptureFails(c) ==
  /\ \/ call[c].pc \in {"stat", "load", "show"} /\ disk[call[c].src] = Gone
     \/ call[c].pc = "verify" /\ ~Captured(c)
  /\ Fail(c)
  /\ UNCHANGED <<disk, clock, caps, queue, lock, issued, started, faults, crashes>>

\* The version before the client's text is read.
FirstCapture(c) ==
  /\ Captured(c) /\ call[c].seen = None
  /\ call' = [call EXCEPT ![c].pc = "show", ![c].seen = call[c].data]
  /\ UNCHANGED <<disk, clock, caps, queue, lock, issued, started, faults, crashes>>

Show(c) ==
  /\ call[c].pc = "show" /\ disk[call[c].src] # Gone
  /\ call' = [call EXCEPT ![c].pc = "stat"]
  /\ UNCHANGED <<disk, clock, caps, queue, lock, issued, started, faults, crashes>>

SameVersionBySize(c) == call[c].seen \in Data /\ call[c].data \in Data

\* Versions are compared by size and digest, not by stamp.
SameVersion(c) == call[c].seen = call[c].data

\* The capability for the version the call captured.
Issued(c) == [id |-> issued + 1, file |-> call[c].src, data |-> call[c].data]

IssueUnbounded(c) ==
  /\ Captured(c) /\ call[c].tool = "read" /\ SameVersion(c)
  /\ issued' = issued + 1
  /\ caps' = [caps EXCEPT ![GatewayOf[c]] = @ \cup {Issued(c)}]
  /\ call' = [call EXCEPT ![c] = Idle]
  /\ UNCHANGED <<disk, clock, queue, lock, started, faults, crashes>>

\* The oldest capability is dropped when the store is full.
Bounded(store) ==
  IF Cardinality(store) <= MaxEntries THEN store
  ELSE store \ {CHOOSE k \in store : \A l \in store : k.id <= l.id}

Issue(c) ==
  /\ Captured(c) /\ call[c].tool = "read" /\ SameVersion(c)
  /\ issued' = issued + 1
  /\ caps' = [caps EXCEPT ![GatewayOf[c]] = Bounded(@ \cup {Issued(c)})]
  /\ call' = [call EXCEPT ![c] = Idle]
  /\ UNCHANGED <<disk, clock, queue, lock, started, faults, crashes>>

Stale(c) ==
  /\ Captured(c) /\ call[c].seen # None /\ ~SameVersion(c)
  /\ Fail(c)
  /\ UNCHANGED <<disk, clock, caps, queue, lock, issued, started, faults, crashes>>

-----------------------------------------------------------------------------
(* Mutations: the keyed mutexes, the machine-wide locks, the capability *)

FirstKeyUnsorted(src, dst) == src

FirstKey(src, dst) == Min({src, dst})

\* The paths are resolved and the first promise chain is joined.
Mutate(c, tool, src, dst, token) ==
  /\ call[c].pc = "idle" /\ started < MaxCalls
  /\ tool \in {"edit", "move"} => disk[src] # Gone
  /\ IF tool = "move" THEN disk[dst] = Gone ELSE dst = src
  /\ IF Guarded(c)
     THEN token \in {None, Spent} \cup {k.id : k \in caps[GatewayOf[c]]}
     ELSE token = None
  /\ started' = started + 1
  /\ call' = [call EXCEPT ![c] =
       [Idle EXCEPT !.pc = "queue", !.tool = tool, !.src = src, !.dst = dst,
                    !.token = token]]
  /\ Enqueue(c, FirstKey(src, dst))
  /\ UNCHANGED <<disk, clock, caps, lock, issued, faults, crashes>>

\* The promise before the call's own has resolved.
Admitted(c) ==
  /\ call[c].pc = "queue"
  /\ \A f \in Queued(c) : Head(Chain(c, f)) = c
  /\ IF Keys(c) \subseteq Queued(c)
     THEN Goto(c, "lock") /\ UNCHANGED queue
     ELSE Enqueue(c, Min(Keys(c) \ Queued(c))) /\ UNCHANGED call
  /\ UNCHANGED <<disk, clock, caps, lock, issued, started, faults, crashes>>

\* What follows the last lock: an unlocked profile acts at once, a write looks
\* whether the file exists, the others consume their capability.
Entered(c) ==
  IF ~Guarded(c) THEN "act"
  ELSE IF call[c].tool \in {"write", "append"} THEN "exists" ELSE "take"

LockInProcess(c) ==
  LET f == Min(Keys(c) \ Locked(c))
  IN /\ call[c].pc = "lock"
     /\ lock' = [lock EXCEPT ![f] = c]
     /\ IF Keys(c) \subseteq Locked(c) \cup {f} THEN Goto(c, Entered(c)) ELSE UNCHANGED call
     /\ UNCHANGED <<disk, clock, caps, queue, issued, started, faults, crashes>>

Lock(c) ==
  LET f == Min(Keys(c) \ Locked(c))
  IN /\ call[c].pc = "lock"
     /\ lock[f] = None
     /\ lock' = [lock EXCEPT ![f] = c]
     /\ IF Keys(c) \subseteq Locked(c) \cup {f} THEN Goto(c, Entered(c)) ELSE UNCHANGED call
     /\ UNCHANGED <<disk, clock, caps, queue, issued, started, faults, crashes>>

LockTimeoutProceeds(c) ==
  /\ call[c].pc = "lock"
  /\ lock[Min(Keys(c) \ Locked(c))] # None
  /\ Goto(c, Entered(c))
  /\ UNCHANGED <<disk, clock, caps, queue, lock, issued, started, faults, crashes>>

LockTimeout(c) ==
  /\ call[c].pc = "lock"
  /\ lock[Min(Keys(c) \ Locked(c))] # None
  /\ Fail(c)
  /\ UNCHANGED <<disk, clock, caps, queue, lock, issued, started, faults, crashes>>

Without(g, id) == {k \in caps[g] : k.id # id}

\* A new file needs no capability, and a call that brings one loses it.
Exists(c) ==
  LET new == disk[call[c].src] = Gone
  IN /\ call[c].pc = "exists"
     /\ call' = [call EXCEPT ![c] =
          IF ~new THEN [@ EXCEPT !.pc = "take"]
          ELSE IF @.token = None THEN [@ EXCEPT !.pc = "act", !.seen = Gone]
          ELSE Failed(c)]
     /\ caps' = IF new THEN [caps EXCEPT ![GatewayOf[c]] =
                               Without(GatewayOf[c], call[c].token)]
                ELSE caps
     /\ UNCHANGED <<disk, clock, queue, lock, issued, started, faults, crashes>>

\* The capability is deleted before its path is compared.
Take(c) ==
  LET g == GatewayOf[c]
      mine == {k \in caps[g] : k.id = call[c].token}
  IN /\ call[c].pc = "take"
     /\ caps' = [caps EXCEPT ![g] = Without(g, call[c].token)]
     /\ IF \E k \in mine : k.file = call[c].src
        THEN \E k \in mine :
               call' = [call EXCEPT ![c].pc = "stat", ![c].seen = k.data]
        ELSE Fail(c)
     /\ UNCHANGED <<disk, clock, queue, lock, issued, started, faults, crashes>>

Fresh(c) ==
  /\ Captured(c) /\ call[c].tool # "read" /\ SameVersion(c)
  /\ Goto(c, IF call[c].tool = "move" THEN "dest" ELSE "act")
  /\ UNCHANGED <<disk, clock, caps, queue, lock, issued, started, faults, crashes>>

Destination(c) ==
  /\ call[c].pc = "dest"
  /\ IF disk[call[c].dst] = Gone THEN Goto(c, "act") ELSE Fail(c)
  /\ UNCHANGED <<disk, clock, caps, queue, lock, issued, started, faults, crashes>>

-----------------------------------------------------------------------------
(* The file operations *)

AppendTo(c, data) ==
  /\ call[c].pc = "act" /\ call[c].tool = "append"
  /\ Write(call[c].src, data)
  /\ Goto(c, "unlock")
  /\ UNCHANGED <<caps, queue, lock, issued, started, faults, crashes>>

\* The text to replace is looked for, and found as often as expected or not.
Match(c) ==
  /\ call[c].pc = "act" /\ call[c].tool = "edit"
  /\ \/ disk[call[c].src] # Gone /\ Goto(c, "matched")
     \/ Fail(c)
  /\ UNCHANGED <<disk, clock, caps, queue, lock, issued, started, faults, crashes>>

\* writeFile empties the file first.
Truncate(c) ==
  /\ \/ call[c].pc = "act" /\ call[c].tool = "write"
     \/ call[c].pc = "matched"
  /\ Write(call[c].src, Torn)
  /\ Goto(c, "fill")
  /\ UNCHANGED <<caps, queue, lock, issued, started, faults, crashes>>

Fill(c, data) ==
  /\ call[c].pc = "fill"
  /\ Write(call[c].src, data)
  /\ Goto(c, "unlock")
  /\ UNCHANGED <<caps, queue, lock, issued, started, faults, crashes>>

\* rename replaces what is at the destination; so does copyFile.
Rename(c) ==
  /\ call[c].pc = "act" /\ call[c].tool = "move"
  /\ disk[call[c].src] # Gone
  /\ IF CrossDevice
     THEN /\ Write(call[c].dst, disk[call[c].src].data)
          /\ Goto(c, "unlink")
     ELSE /\ disk' = [disk EXCEPT ![call[c].dst] = disk[call[c].src],
                                  ![call[c].src] = Gone]
          /\ Goto(c, "unlock")
          /\ UNCHANGED clock
  /\ UNCHANGED <<caps, queue, lock, issued, started, faults, crashes>>

Unlink(c) ==
  /\ call[c].pc = "unlink"
  /\ disk' = [disk EXCEPT ![call[c].src] = Gone]
  /\ Goto(c, "unlock")
  /\ UNCHANGED <<clock, caps, queue, lock, issued, started, faults, crashes>>

\* The source of an unlocked move went while the call waited.
MoveFails(c) ==
  /\ call[c].pc = "act" /\ call[c].tool = "move" /\ disk[call[c].src] = Gone
  /\ Fail(c)
  /\ UNCHANGED <<disk, clock, caps, queue, lock, issued, started, faults, crashes>>

-----------------------------------------------------------------------------
(* Giving up the locks, failures and deaths *)

\* Machine-wide locks are released last taken first.
Unlock(c) ==
  /\ call[c].pc = "unlock" /\ Locked(c) # {}
  /\ lock' = [lock EXCEPT ![Max(Locked(c))] = None]
  /\ UNCHANGED <<disk, clock, caps, queue, call, issued, started, faults, crashes>>

\* A release that fails is not tried again: the lock stays with the Gateway.
UnlockFails(c) ==
  /\ call[c].pc = "unlock" /\ Locked(c) # {}
  /\ faults < MaxFaults
  /\ faults' = faults + 1
  /\ lock' = [lock EXCEPT ![Max(Locked(c))] = GatewayOf[c]]
  /\ UNCHANGED <<disk, clock, caps, queue, call, issued, started, crashes>>

Leave(c) ==
  /\ call[c].pc = "unlock" /\ Locked(c) = {}
  /\ queue' = [queue EXCEPT ![GatewayOf[c]] =
       [f \in File |-> IF f \in Queued(c) THEN Tail(@[f]) ELSE @[f]]]
  /\ call' = [call EXCEPT ![c] = Idle]
  /\ UNCHANGED <<disk, clock, caps, lock, issued, started, faults, crashes>>

\* A file or lock operation fails for a reason outside of the program.
Fault(c) ==
  /\ call[c].pc \notin {"idle", "queue", "take", "unlock"}
  /\ faults < MaxFaults
  /\ faults' = faults + 1
  /\ Fail(c)
  /\ UNCHANGED <<disk, clock, caps, queue, lock, issued, started, crashes>>

\* A Gateway dies; its locks are reclaimed and its store starts empty.
Crash(g) ==
  LET own == {c \in Call : GatewayOf[c] = g}
  IN /\ crashes < MaxCrashes
     /\ crashes' = crashes + 1
     /\ caps' = [caps EXCEPT ![g] = {}]
     /\ queue' = [queue EXCEPT ![g] = [f \in File |-> <<>>]]
     /\ lock' = [f \in File |-> IF lock[f] \in own \cup {g} THEN None ELSE lock[f]]
     /\ call' = [c \in Call |-> IF c \in own THEN Idle ELSE call[c]]
     /\ UNCHANGED <<disk, clock, issued, started, faults>>

Start(c) ==
  \/ \E f \in File : Read(c, f)
  \/ \E tool \in Tool \ {"read"}, src, dst \in File, token \in 0..issued \cup {None} :
       Mutate(c, tool, src, dst, token)

Progress(c) ==
  \/ Stat(c) \/ Load(c) \/ CaptureFails(c) \/ FirstCapture(c) \/ Show(c)
  \/ Issue(c) \/ Stale(c)
  \/ Admitted(c) \/ Lock(c) \/ LockTimeout(c) \/ Exists(c) \/ Take(c)
  \/ Fresh(c) \/ Destination(c)
  \/ \E data \in Content : AppendTo(c, data) \/ Fill(c, data)
  \/ Match(c) \/ Truncate(c) \/ Rename(c) \/ Unlink(c) \/ MoveFails(c)
  \/ Unlock(c) \/ Leave(c)

Next ==
  \/ \E c \in Call : Start(c) \/ Progress(c) \/ UnlockFails(c) \/ Fault(c)
  \/ \E g \in Gateway : Crash(g)

Spec == Init /\ [][Next]_vars

\* The event loop runs the continuation of every promise that settled, and the
\* file operations and the lock acquisition all settle.
FairSpec == Spec /\ \A c \in Call : WF_vars(Progress(c))

-----------------------------------------------------------------------------
(* Properties *)

Record ==
  [pc : {"idle", "stat", "load", "verify", "show", "queue", "lock", "exists",
         "take", "dest", "act", "matched", "fill", "unlink", "unlock"},
   tool : Tool, src : File, dst : File, token : Nat \cup {None},
   seen : Data \cup {Gone, None}, stat : Nat, data : Data \cup {None}]

\* Every variable keeps its type, a store never exceeds its entry limit, and no
\* two capabilities, of one store or of two, have one id.
TypeOK ==
  /\ disk \in [File -> Version \cup {Gone}]
  /\ clock \in Nat /\ issued \in Nat
  /\ caps \in [Gateway -> SUBSET Capability]
  /\ \A g \in Gateway : IsFiniteSet(caps[g]) /\ Cardinality(caps[g]) <= MaxEntries
  /\ \A g, h \in Gateway : \A k \in caps[g], l \in caps[h] :
       k.id <= issued /\ (k.id = l.id => g = h /\ k = l)
  /\ queue \in [Gateway -> [File -> Seq(Call)]]
  /\ lock \in [File -> Call \cup Gateway \cup {None}]
  /\ call \in [Call -> Record]
  /\ started \in Nat /\ faults \in Nat /\ crashes \in Nat

\* The call has its locks and works on its files.
Mutating(c) ==
  /\ call[c].tool # "read"
  /\ call[c].pc \in {"exists", "take", "stat", "load", "verify", "dest", "act",
                     "matched", "fill", "unlink"}

\* The capability was compared with the file, and nothing was changed yet.
Checked(c) ==
  /\ Guarded(c) /\ Mutating(c)
  /\ call[c].pc \in {"dest", "act", "matched", "unlink"}

\* No lost update: until a guarded mutation changes its file, that file still
\* holds what the mutation's client observed (or is still missing).
NoLostUpdate ==
  \A c \in Call : Checked(c) => DataAt(call[c].src) = call[c].seen

Overwrites(c) ==
  call[c].tool = "move" /\ call[c].pc = "act" /\ disk[call[c].dst] # Gone

\* A guarded move never overwrites, although unlocked Gateways create, move and
\* write files meanwhile.
GuardedMoveFindsNoFile == \A c \in Call : Guarded(c) => ~Overwrites(c)

\* Every file call returns: sorted acquisition cannot deadlock, and a lock that
\* is never given back costs a timeout.
CallsReturn == \A c \in Call : (call[c].pc # "idle") ~> (call[c].pc = "idle")
=============================================================================
