-------------------------- MODULE ProcessSessions --------------------------
(***************************************************************************)
(* Owned terminal processes of the Gateway on Windows: the tools of        *)
(* src/src/process-tools.ts, the capability registry of                    *)
(* src/src/process-session-registry.ts and the backend of                  *)
(* src/src/native-process-backend.ts, with the shutdown of                 *)
(* src/src/index.ts.  The registry and the tools know a process by its     *)
(* pid; the backend keeps one entry per pid; the operating system gives    *)
(* the pid of a finished process to a new one.                             *)
(*                                                                         *)
(* Processes are numbered in the order of their spawn; the session id of a *)
(* registered process is its number.  The event loop runs a handler from   *)
(* one await to the next without interruption, and continuations that are  *)
(* ready (Resuming) before anything else: a list of the backend and the    *)
(* reconciliation that follows it are one step, and a call that waits for  *)
(* a process goes on as soon as its close event has run.                   *)
(***************************************************************************)
EXTENDS Naturals, FiniteSets, SequencesExt

CONSTANTS Req,           \* concurrent tool calls
          Pid,           \* pids the operating system hands out
          Reuse,         \* when a pid is free again: "never", "afterClose", "afterExit"
          MayHang,       \* a killed process may outlive the deadlines of terminate
          MaySpoof,      \* output may hold the text that reports a completed process
          MayLeave,      \* a client may go away while its call is under way
          MaxSessions,   \* maxSessions of the registry
          MaxTracked,    \* maxTrackedSessions of the registry
          MaxStarts      \* bound: processes spawned in a behaviour

\* What the code and this model take for granted of the constants.
Parameters ==
  /\ Reuse \in {"never", "afterClose", "afterExit"}
  /\ MayHang \in BOOLEAN /\ MaySpoof \in BOOLEAN /\ MayLeave \in BOOLEAN
  /\ MaxSessions \in Nat \ {0} /\ MaxTracked \in Nat
  /\ MaxTracked >= MaxSessions /\ MaxStarts \in Nat
  /\ 0 \notin Pid

VARIABLES
  os,       \* each process: "none", "running", "exited", "closed" (its close event ran)
  pidOf,    \* the pid of each process, 0 before its spawn
  backend,  \* sessions of the backend: the process under each pid, 0 for none
  sessions, \* ids of the registry in the order of createdAt
  active,   \* the flag of each session in the registry
  pending,  \* startReservations, by the call that holds one
  pc,       \* where each call waits
  cur,      \* the session (the pid) a call is about, 0 for none
  entry,    \* the process whose backend entry a call has taken, 0 for none
  phase,    \* "up", then "cleanup", "closing" and "down" when the Gateway stops
  owned,    \* ownedSessions that the cleanup still has to end, with their flags
  closing,  \* the processes close() of the backend waits for
  known     \* history: the processes spawned before that close

shutdown == <<owned, closing, known>>
vars == <<os, pidOf, backend, sessions, active, pending, pc, cur, entry, phase, shutdown>>

Process == 1..MaxStarts
Spawned == {i \in Process : os[i] # "none"}
Tracked == ToSet(sessions)

----------------------------------------------------------------------------
(* The registry and the backend *)

Active   == {s \in Tracked : active[s]}
Load     == Cardinality(Active) + Cardinality(pending)

\* Only those of K, in their order.
Keep(ss, K) == FoldLeft(LAMBDA kept, s : IF s \in K THEN Append(kept, s) ELSE kept, <<>>, ss)

\* pruneInactiveHistory: the oldest inactive sessions beyond maxTrackedSessions.
PruneHistory(ss, act) ==
  LET old   == Keep(ss, {s \in ToSet(ss) : ~act[s]})
      extra == Len(ss) - MaxTracked
      gone  == {old[n] : n \in {m \in DOMAIN old : m <= extra}}
  IN  Keep(ss, ToSet(ss) \ gone)

\* pruneCompleted before every call of the backend: any completed entries may be
\* older than the retention.
Completed(b) == {p \in Pid : b[p] # 0 /\ os[b[p]] = "closed"}
Pruned(b) == {[p \in Pid |-> IF p \in gone THEN 0 ELSE b[p]] : gone \in SUBSET Completed(b)}

\* list(): the pids the backend reports.
Listed(b) == {p \in Pid : b[p] # 0 /\ os[b[p]] # "closed"}

\* reconcileActivePids with the pids just listed.
Reconciled(b) == [s \in Process |-> IF s \in Tracked THEN pidOf[s] \in Listed(b) ELSE active[s]]
Reconcile(b) == /\ active' = Reconciled(b)
                /\ sessions' = PruneHistory(sessions, Reconciled(b))

MarkInactive(s) == /\ active' = [active EXCEPT ![s] = FALSE]
                   /\ sessions' = PruneHistory(sessions, active')

Forget(s) == sessions' = Keep(sessions, Tracked \ {s})

\* Mutants: the older sessions of the pid stay; the history is not pruned.
RegisterKeepsOld(i) ==
  /\ active' = [active EXCEPT ![i] = TRUE]
  /\ sessions' = PruneHistory(Append(sessions, i), active')

RegisterWithoutPrune(i) ==
  /\ active' = [active EXCEPT ![i] = TRUE]
  /\ sessions' = Append(Keep(sessions, {s \in Tracked : pidOf[s] # pidOf[i]}), i)

\* registerReserved: older sessions of the pid go, the new one is active.
Register(i) ==
  LET others == Keep(sessions, {s \in Tracked : pidOf[s] # pidOf[i]})
  IN  /\ active' = [active EXCEPT ![i] = TRUE]
      /\ sessions' = PruneHistory(Append(others, i), active')

Goto(r, l, c) == /\ pc' = [pc EXCEPT ![r] = l]
                 /\ cur' = [cur EXCEPT ![r] = c]
                 /\ entry' = [entry EXCEPT ![r] = 0]
Go(r, l) == Goto(r, l, IF l = "idle" THEN 0 ELSE cur[r])

PidFree(p) == \A i \in Spawned : pidOf[i] = p =>
  CASE Reuse = "never"      -> FALSE
    [] Reuse = "afterClose" -> os[i] = "closed"
    [] Reuse = "afterExit"  -> os[i] # "running"

Init ==
  /\ os = [i \in Process |-> "none"] /\ pidOf = [i \in Process |-> 0]
  /\ backend = [p \in Pid |-> 0]
  /\ sessions = <<>> /\ active = [i \in Process |-> FALSE]
  /\ pending = {}
  /\ pc = [r \in Req |-> "idle"] /\ cur = [r \in Req |-> 0] /\ entry = [r \in Req |-> 0]
  /\ phase = "up" /\ owned = <<>> /\ closing = {} /\ known = {}

\* A call begins: before the HTTP server has closed, or for a client that went
\* away while its call waited for the audit log.
Open == phase = "up" \/ MayLeave

----------------------------------------------------------------------------
(* desktop_start_process *)

\* At capacity the registry is reconciled first; then a start is reserved or
\* refused.
Reserve(r) ==
  /\ Open /\ pc[r] = "idle"
  /\ IF Load >= MaxSessions
     THEN \E b \in Pruned(backend) : backend' = b /\ Reconcile(b)
     ELSE UNCHANGED <<backend, sessions, active>>
  /\ IF Cardinality({s \in Tracked : active'[s]}) + Cardinality(pending) >= MaxSessions
     THEN pending' = pending /\ Goto(r, "refused", 0)
     ELSE pending' = pending \cup {r} /\ Goto(r, "spawn", 0)
  /\ UNCHANGED <<os, pidOf, phase, shutdown>>

Refuse(r) == /\ pc[r] = "refused" /\ Goto(r, "idle", 0)
             /\ UNCHANGED <<os, pidOf, backend, sessions, active, pending, phase, shutdown>>

\* The spawn: the backend enters the new process under its pid at once.
Spawn(r) ==
  /\ pc[r] = "spawn"
  /\ \/ \E p \in Pid, i \in Process, b \in Pruned(backend) :
          /\ PidFree(p) /\ os[i] = "none" /\ \A j \in 1..(i - 1) : os[j] # "none"
          /\ os' = [os EXCEPT ![i] = "running"]
          /\ pidOf' = [pidOf EXCEPT ![i] = p]
          /\ backend' = [b EXCEPT ![p] = i]
          /\ Goto(r, "starting", i)
          /\ UNCHANGED pending
     \/ /\ backend' \in Pruned(backend)      \* the spawn failed: isError
        /\ pending' = pending \ {r}
        /\ Goto(r, "idle", 0)
        /\ UNCHANGED <<os, pidOf>>
  /\ UNCHANGED <<sessions, active, phase, shutdown>>

\* The timeout or the completion of the process: the pid becomes a session.  A
\* start with an Agent Desktop lease goes on to place its windows.
Started(r) ==
  /\ pc[r] = "starting"
  /\ Register(cur[r])
  /\ pending' = pending \ {r}
  /\ \/ Goto(r, "idle", 0)
     \/ os[cur[r]] # "closed" /\ Goto(r, "placing", cur[r])
  /\ UNCHANGED <<os, pidOf, backend, phase, shutdown>>

\* Mutant: a failed placement forgets the session and leaves the process.
PlacedForgetsOnly(r) ==
  /\ pc[r] = "placing" /\ Goto(r, "idle", 0)
  /\ \/ sessions' = sessions
     \/ Forget(cur[r])
  /\ UNCHANGED <<os, pidOf, backend, active, pending, phase, shutdown>>

\* Placement succeeds, or fails: the session is forgotten, then the pid killed.
Placed(r) ==
  /\ pc[r] = "placing"
  /\ \/ Goto(r, "idle", 0) /\ sessions' = sessions
     \/ Goto(r, "kill", cur[r]) /\ Forget(cur[r])
  /\ UNCHANGED <<os, pidOf, backend, active, pending, phase, shutdown>>

----------------------------------------------------------------------------
(* terminate(pid) of the backend, desktop_terminate_process and the failed start *)

\* desktop_terminate_process: the pid must be among those just listed.
Terminate(r) ==
  /\ Open /\ pc[r] = "idle"
  /\ \E s \in Tracked, b \in Pruned(backend) :
       /\ backend' = b /\ Reconcile(b)
       /\ IF pidOf[s] \in Listed(b) THEN Goto(r, "termKill", s) ELSE Goto(r, "idle", 0)
  /\ UNCHANGED <<os, pidOf, pending, phase, shutdown>>

\* terminate(pid) begins: it takes the backend's entry of the pid and kills it;
\* kill fails on a process that has exited.  An entry that is completed goes.
Kill(r) ==
  /\ pc[r] \in {"kill", "termKill"}
  /\ \E b \in Pruned(backend) :
       LET p == pidOf[cur[r]]
           i == b[p]
           fromStart == pc[r] = "kill"
       IN  \/ /\ i # 0 /\ os[i] = "running" /\ backend' = b
              /\ pc' = [pc EXCEPT ![r] = IF fromStart THEN "killWait" ELSE "termWait"]
              /\ entry' = [entry EXCEPT ![r] = i] /\ cur' = cur
           \/ /\ i # 0 /\ os[i] = "closed" /\ backend' = [b EXCEPT ![p] = 0]
              /\ Go(r, IF fromStart THEN "idle" ELSE "termDone")
           \/ /\ i # 0 => os[i] = "exited"
              /\ backend' = b
              /\ Go(r, IF fromStart THEN "idle" ELSE "termFailed")
  /\ UNCHANGED <<os, pidOf, sessions, active, pending, phase, shutdown>>

\* The process completed: the entry of its pid is deleted, whatever it is now.
WaitEnds(r) ==
  /\ os[entry[r]] = "closed"
  /\ backend' = [backend EXCEPT ![pidOf[entry[r]]] = 0]
  /\ Go(r, IF pc[r] = "killWait" THEN "idle" ELSE "termDone")

\* Both deadlines pass: "did not exit after termination request".
WaitExpires(r) ==
  /\ MayHang /\ os[entry[r]] # "closed" /\ backend' = backend
  /\ Go(r, IF pc[r] = "killWait" THEN "idle" ELSE "termFailed")

\* Mutant: no deadline.
WaitedForever(r) ==
  /\ pc[r] \in {"killWait", "termWait"} /\ WaitEnds(r)
  /\ UNCHANGED <<os, pidOf, sessions, active, pending, phase, shutdown>>

Waited(r) ==
  /\ pc[r] \in {"killWait", "termWait"}
  /\ WaitEnds(r) \/ WaitExpires(r)
  /\ UNCHANGED <<os, pidOf, sessions, active, pending, phase, shutdown>>

\* A failed kill is checked against a second list; success forgets the session.
Terminated(r) ==
  /\ \/ /\ pc[r] = "termDone" /\ Forget(cur[r]) /\ UNCHANGED <<backend, active>>
     \/ /\ pc[r] = "termFailed"
        /\ \E b \in Pruned(backend) :
             /\ backend' = b /\ active' = Reconciled(b)
             /\ sessions' = LET kept == PruneHistory(sessions, active')
                            IN  IF pidOf[cur[r]] \in Listed(b) THEN kept
                                ELSE Keep(kept, ToSet(kept) \ {cur[r]})
  /\ Goto(r, "idle", 0)
  /\ UNCHANGED <<os, pidOf, pending, phase, shutdown>>

----------------------------------------------------------------------------
(* desktop_read_process and desktop_interact_process *)

\* Both resolve the session to its pid and take the backend's entry of the pid.
Reached(s) == backend[pidOf[s]]

Read(r) ==
  /\ Open /\ pc[r] = "idle"
  /\ \E s \in Tracked, b \in Pruned(backend) :
       /\ backend' = b
       /\ IF b[pidOf[s]] = 0
          THEN MarkInactive(s) /\ Goto(r, "idle", 0)
          ELSE /\ pc' = [pc EXCEPT ![r] = "reading"] /\ cur' = [cur EXCEPT ![r] = s]
               /\ entry' = [entry EXCEPT ![r] = b[pidOf[s]]]
               /\ UNCHANGED <<sessions, active>>
  /\ UNCHANGED <<os, pidOf, pending, phase, shutdown>>

\* The output is examined for the words that report a completed or missing
\* process, which the process may print itself.
Answered(r) ==
  /\ pc[r] = "reading"
  /\ \/ /\ cur[r] \in Tracked
        /\ os[entry[r]] = "closed" \/ MaySpoof
        /\ MarkInactive(cur[r])
     \/ /\ cur[r] \notin Tracked \/ os[entry[r]] # "closed"
        /\ UNCHANGED <<sessions, active>>
  /\ Goto(r, "idle", 0)
  /\ UNCHANGED <<os, pidOf, backend, pending, phase, shutdown>>

----------------------------------------------------------------------------
(* Shutdown and the operating system *)

\* The HTTP server has closed: it waits for its clients, not for the handlers of
\* clients that are gone.  The registry is reconciled and what it owns is copied.
Shutdown ==
  /\ phase = "up" /\ (MayLeave \/ \A r \in Req : pc[r] = "idle")
  /\ phase' = "cleanup"
  /\ \E b \in Pruned(backend) : backend' = b /\ Reconcile(b)
  /\ owned' = [n \in DOMAIN sessions' |->
                 [id |-> sessions'[n], live |-> active'[sessions'[n]]]]
  /\ UNCHANGED <<os, pidOf, pending, pc, cur, entry, closing, known>>

\* Mutant: the entry goes when the kill has been sent.
CleanupOwnedWithoutWait ==
  /\ phase = "cleanup" /\ owned # <<>>
  /\ Forget(owned[1].id) /\ owned' = Tail(owned)
  /\ backend' = IF owned[1].live THEN [backend EXCEPT ![pidOf[owned[1].id]] = 0]
                ELSE backend
  /\ UNCHANGED <<os, pidOf, active, pending, pc, cur, entry, phase, closing, known>>

\* The next of them is killed, if it was active, and forgotten.
CleanupOwned ==
  /\ phase = "cleanup" /\ owned # <<>>
  /\ LET s == owned[1].id
         i == Reached(s)
     IN  /\ Forget(s) /\ owned' = Tail(owned)
         /\ \/ ~owned[1].live /\ backend' = backend
            \/ /\ owned[1].live
               /\ i # 0 => os[i] = "exited" \/ (os[i] = "running" /\ MayHang)
               /\ backend' = backend
            \/ /\ owned[1].live /\ i # 0 /\ os[i] = "closed"
               /\ backend' = [backend EXCEPT ![pidOf[s]] = 0]
  /\ UNCHANGED <<os, pidOf, active, pending, pc, cur, entry, phase, closing, known>>

\* close() of the backend kills what it lists, waits for it and clears its table.
CloseBackend ==
  /\ phase = "cleanup" /\ owned = <<>>
  /\ phase' = "closing"
  /\ closing' = {backend[p] : p \in Listed(backend)} /\ known' = Spawned
  /\ UNCHANGED <<os, pidOf, backend, sessions, active, pending, pc, cur, entry, owned>>

BackendClosed ==
  /\ phase = "closing" /\ \A i \in closing : os[i] # "running" \/ MayHang
  /\ phase' = "down" /\ backend' = [p \in Pid |-> 0]
  /\ UNCHANGED <<os, pidOf, sessions, active, pending, pc, cur, entry, shutdown>>

\* The process ends, by itself or killed; later its close event runs.
Exit(i) ==
  /\ os[i] = "running" /\ os' = [os EXCEPT ![i] = "exited"]
  /\ UNCHANGED <<pidOf, backend, sessions, active, pending, pc, cur, entry, phase, shutdown>>
Closed(i) ==
  /\ os[i] = "exited" /\ os' = [os EXCEPT ![i] = "closed"]
  /\ UNCHANGED <<pidOf, backend, sessions, active, pending, pc, cur, entry, phase, shutdown>>

\* Calls whose continuation is ready: nothing else runs before they have.
Resuming(r) ==
  \/ pc[r] \in {"refused", "kill", "termKill", "termDone", "termFailed"}
  \/ pc[r] = "starting" /\ os[cur[r]] = "closed"
  \/ pc[r] \in {"killWait", "termWait"} /\ os[entry[r]] = "closed"

\* The steps of a call that is under way.
Call(r) == \/ Refuse(r) \/ Spawn(r) \/ Started(r) \/ Placed(r)
           \/ Kill(r) \/ Waited(r) \/ Terminated(r) \/ Answered(r)

Next == \/ \E r \in Req : Resuming(r) /\ Call(r)
        \/ /\ \A r \in Req : ~Resuming(r)
           /\ \/ \E r \in Req : Reserve(r) \/ Terminate(r) \/ Read(r) \/ Call(r)
              \/ Shutdown \/ CleanupOwned \/ CloseBackend \/ BackendClosed
              \/ \E i \in Process : Exit(i) \/ Closed(i)

Spec == Init /\ [][Next]_vars

\* Timers fire and the event loop runs every continuation, however busy the
\* other calls keep it.
FairSpec == Spec /\ \A r \in Req : SF_vars(Next /\ Call(r))
----------------------------------------------------------------------------
(* Properties *)

CallPc == {"idle", "refused", "spawn", "starting", "placing", "kill", "killWait",
           "termKill", "termWait", "termDone", "termFailed", "reading"}

\* The values the variables take; a session is listed once and has been spawned.
TypeOK ==
  /\ os \in [Process -> {"none", "running", "exited", "closed"}]
  /\ pidOf \in [Process -> Pid \cup {0}]
  /\ backend \in [Pid -> Process \cup {0}]
  /\ Tracked \subseteq Spawned /\ Len(sessions) = Cardinality(Tracked)
  /\ Len(sessions) <= MaxTracked
  /\ active \in [Process -> BOOLEAN]
  /\ pending \subseteq Req
  /\ pc \in [Req -> CallPc]
  /\ cur \in [Req -> Process \cup {0}] /\ entry \in [Req -> Process \cup {0}]
  /\ phase \in {"up", "cleanup", "closing", "down"}
  /\ owned \in Seq([id : Process, live : BOOLEAN])
  /\ closing \subseteq Process /\ known \subseteq Process

\* "An old session_id can never target a later process instance"
\* (process-session-registry.ts): what a session id reaches is its own process.
SessionReachesItsOwn == \A s \in Tracked : Reached(s) \in {0, s}

\* It may reach another process only while the start of that process has not
\* returned its own session id yet.
ReachesOwnUnlessStarting == \A s \in Tracked :
  \/ Reached(s) \in {0, s}
  \/ \E r \in pending : pc[r] = "starting" /\ cur[r] = Reached(s)

\* A running process is always counted: by the reservation of its start, by an
\* active session, or by the call that is killing it after a failed start.
LiveIsCounted == \A i \in Process : os[i] = "running" =>
  \/ i \in Active
  \/ \E r \in Req : /\ cur[r] = i
                    /\ pc[r] \in {"starting", "kill", "killWait"}

\* "The 32-session ceiling counts both active sessions and in-flight starts"
\* (SECURITY.md): they are never more than maxSessions.
Ceiling == Load <= MaxSessions

\* A Gateway that has shut down left none of its processes running, when a
\* killed process ends; only the handler of a client that went away may spawn
\* one after the close of the backend.
ShutdownKillsAll == phase = "down" =>
  \A i \in Process : os[i] = "running" => MayLeave /\ i \notin known

\* Every call returns, whatever the processes do.
CallsReturn == \A r \in Req : pc[r] # "idle" ~> pc[r] = "idle"
=============================================================================
