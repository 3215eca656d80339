------------------------------ MODULE Gateway ------------------------------
(***************************************************************************)
(* The life of one Gateway process: it starts its HTTP server and then its *)
(* local control server, is asked to stop by a peer of the control server  *)
(* or by a signal, and ends the backend that its tool calls share.         *)
(*                                                                         *)
(* Two threads of the program close things, the start that failed          *)
(* ("main") and the shutdown ("stop"); both use the steps below.  On       *)
(* Windows there is no startup lock, and the control server is known to    *)
(* the program as soon as it listens.  Of the stores and of the browser    *)
(* nothing is said here; the process tools are in ProcessSessions.         *)
(***************************************************************************)
EXTENDS Naturals

CONSTANTS
    Calls,              \* clients of the HTTP server, one call at a time each
    Peers,              \* clients of the control server
    Unix,               \* not Windows
    MaxConnections,     \* bound: connections to a backend
    MaxFaults,          \* bound: failing system calls of start and shutdown
    None

VARIABLES
    pc,                 \* pc["main"], pc["stop"]: the next step of each
    server,             \* the control server
    given,              \* startControlServer has returned
    closed,             \* close of the control server was called
    startupLock,        \* who holds the startup lock, or None
    peer,               \* peer[p]: the connection of p to the control server
    http,               \* the HTTP server
    left,               \* clients that went away; their calls go on
    available,          \* the backend's entry was seen
    client,             \* the installed connection, or 0
    starting,           \* the connection of startPromise, or 0
    stage,              \* stage[k]: how far the start of connection k is
    child,              \* child[k]: the backend process of connection k
    call,               \* call[c]: step and connection of a call
    faults

control == <<server, given, closed, startupLock, peer>>
bridge == <<available, client, starting, stage, child>>
vars == <<pc, control, http, left, bridge, call, faults>>

GatewayAssumption ==
    /\ Unix \in BOOLEAN /\ MaxConnections \in Nat /\ MaxFaults \in Nat
    /\ Calls \cap {"main", "stop"} = {} /\ None \notin {"main", "stop"}

Threads == {"main", "stop"}
Callers == Calls \cup Threads           \* the cleanup calls the backend too
Connections == 1 .. MaxConnections
Idle == [pc |-> "idle", on |-> 0]

Pc == {"http", "lock", "probe", "listen", "chmod", "unbind", "release", "preflight", "up",
       "none", "control", "closeLock", "close", "stopHttp", "drain", "owned", "ownedWait",
       "bridge", "bridgeWait", "end"}

(* The types, and that only one connection is ever being started.          *)
TypeOK ==
    /\ pc \in [Threads -> Pc]
    /\ server \in {"none", "listening", "closing", "closed"}
    /\ given \in BOOLEAN /\ closed \in BOOLEAN
    /\ startupLock \in Threads \cup {None}
    /\ peer \in [Peers -> {"away", "connected", "asked", "gone"}]
    /\ http \in {"none", "listening", "closing", "closed"}
    /\ left \subseteq Calls
    /\ available \in BOOLEAN
    /\ client \in Connections \cup {0}
    /\ starting \in Connections \cup {0}
    /\ stage \in [Connections -> {"none", "access", "connecting", "closing", "done"}]
    /\ child \in [Connections -> {"none", "running", "ended"}]
    /\ call \in [Callers -> [pc : {"idle", "preflight", "starting", "calling", "failing"},
                             on : Connections \cup {0}]]
    /\ faults \in 0 .. MaxFaults
    /\ \A k \in Connections : stage[k] \in {"access", "connecting", "closing"} => starting = k

Init ==
    /\ pc = [t \in Threads |-> IF t = "main" THEN "http" ELSE "none"]
    /\ server = "none" /\ given = FALSE /\ closed = FALSE /\ startupLock = None
    /\ peer = [p \in Peers |-> "away"]
    /\ http = "none" /\ left = {}
    /\ available = FALSE /\ client = 0 /\ starting = 0
    /\ stage = [k \in Connections |-> "none"]
    /\ child = [k \in Connections |-> "none"]
    /\ call = [c \in Callers |-> Idle]
    /\ faults = 0

Goto(t, l) == pc' = [pc EXCEPT ![t] = l]
Fault == faults < MaxFaults /\ faults' = faults + 1
NoFault == faults' = faults

----------------------------------------------------------------------------
(* The connection to the backend: DesktopBackendBridge                     *)

Call(c, l, k) == call' = [call EXCEPT ![c] = [pc |-> l, on |-> k]]

(* Mutant: whatever is installed is dropped.                               *)
InvalidatedAny(k) == 0

(* invalidateConnection: only the connection that failed is dropped.       *)
Invalidated(k) == IF client = k THEN 0 ELSE client

(* start, once the entry was seen: use what is installed, join the start   *)
(* under way, or begin one.                                                *)
Start(c) ==
    \/ client # 0 /\ Call(c, "calling", client) /\ UNCHANGED <<starting, stage>>
    \/ /\ client = 0 /\ starting # 0
       /\ Call(c, "starting", starting) /\ UNCHANGED <<starting, stage>>
    \/ /\ client = 0 /\ starting = 0
       /\ \E k \in Connections :
             /\ stage[k] = "none" /\ \A j \in 1 .. k - 1 : stage[j] # "none"
             /\ starting' = k /\ stage' = [stage EXCEPT ![k] = "access"]
             /\ Call(c, "starting", k)
    \/ /\ client = 0 /\ starting = 0 /\ \A k \in Connections : stage[k] # "none"
       /\ call' = [call EXCEPT ![c] = Idle] /\ UNCHANGED <<starting, stage>>

(* callTextTool begins.                                                    *)
Begins(c) ==
    /\ call[c] = Idle
    /\ IF available THEN Start(c)
       ELSE Call(c, "preflight", 0) /\ UNCHANGED <<starting, stage>>
    /\ UNCHANGED <<available, client, child>>

Preflighted(c) ==
    /\ call[c].pc = "preflight"
    /\ \/ available' = TRUE /\ Start(c) /\ NoFault
       \/ /\ call' = [call EXCEPT ![c] = Idle]
          /\ Fault /\ UNCHANGED <<available, starting, stage>>
    /\ UNCHANGED <<pc, control, http, left, client, child>>

(* The start of k is over: all that wait for it go on, or fail.            *)
Settle(k, installed) ==
    /\ starting' = 0 /\ stage' = [stage EXCEPT ![k] = "done"]
    /\ call' = [c \in Callers |->
                   IF call[c] # [pc |-> "starting", on |-> k] THEN call[c]
                   ELSE IF installed THEN [pc |-> "calling", on |-> k] ELSE Idle]

(* startInternal sees the entry and spawns the backend.                    *)
Access(k) ==
    /\ stage[k] = "access"
    /\ \/ /\ stage' = [stage EXCEPT ![k] = "connecting"]
          /\ child' = [child EXCEPT ![k] = "running"]
          /\ NoFault /\ UNCHANGED <<starting, call>>
       \/ Settle(k, FALSE) /\ Fault /\ UNCHANGED child
    /\ UNCHANGED <<pc, control, http, left, available, client>>

(* connect and listTools succeed, or not; the connection is installed in   *)
(* the step that looks for a close in between.                             *)
Connected(k) ==
    /\ stage[k] = "connecting"
    /\ \/ child[k] = "running" /\ client' = k /\ Settle(k, TRUE) /\ NoFault
       \/ /\ IF child[k] = "running" THEN Fault ELSE NoFault
          /\ stage' = [stage EXCEPT ![k] = "closing"]
          /\ UNCHANGED <<client, starting, call>>
    /\ UNCHANGED <<pc, control, http, left, available, child>>

Abandoned(k) ==
    /\ stage[k] = "closing"
    /\ child' = [child EXCEPT ![k] = "ended"] /\ client' = Invalidated(k)
    /\ Settle(k, FALSE)
    /\ UNCHANGED <<pc, control, http, left, available, faults>>

(* callTool returns, or throws: the connection is dropped and closed, and  *)
(* with it whatever other calls are waiting for on it.                     *)
Answered(c) ==
    /\ call[c].pc = "calling" /\ child[call[c].on] = "running"
    /\ call' = [call EXCEPT ![c] = Idle]
    /\ UNCHANGED <<pc, control, http, left, bridge, faults>>

Throws(c) ==
    /\ call[c].pc = "calling"
    /\ IF child[call[c].on] = "running" THEN Fault ELSE NoFault
    /\ client' = Invalidated(call[c].on)
    /\ Call(c, "failing", call[c].on)
    /\ UNCHANGED <<pc, control, http, left, available, starting, stage, child>>

ClientCloses(c) ==
    /\ call[c].pc = "failing"
    /\ child' = [child EXCEPT ![call[c].on] = "ended"]
    /\ client' = Invalidated(call[c].on)
    /\ call' = [call EXCEPT ![c] = Idle]
    /\ UNCHANGED <<pc, control, http, left, available, starting, stage, faults>>

(* The backend ends by itself; onclose drops it if it is installed.        *)
ChildEnds(k) ==
    /\ child[k] = "running"
    /\ child' = [child EXCEPT ![k] = "ended"]
    /\ client' = Invalidated(k)
    /\ UNCHANGED <<pc, control, http, left, available, starting, stage, call, faults>>

(* A client calls a tool that needs the backend; or it goes away, and the  *)
(* handler of its call goes on.                                            *)
Begin(c) ==
    /\ http = "listening" /\ c \notin left /\ Begins(c)
    /\ UNCHANGED <<pc, control, http, left, faults>>

Leave(c) ==
    /\ call[c] # Idle /\ left' = left \cup {c}
    /\ UNCHANGED <<pc, control, http, bridge, call, faults>>
----------------------------------------------------------------------------
(* The start of the program and of the control server                      *)

(* A step of "main" that leads to l, or fails and leads to f.              *)
Or(l, f) ==
    \/ Goto("main", l) /\ NoFault
    \/ Goto("main", f) /\ Fault

ListenHttp ==
    /\ pc["main"] = "http"
    /\ \/ /\ http' = "listening" /\ NoFault
          /\ Goto("main", IF Unix THEN "lock" ELSE "listen")
       \/ Goto("main", "control") /\ Fault /\ UNCHANGED http
    /\ UNCHANGED <<control, left, bridge, call>>

TakeStartupLock ==
    /\ pc["main"] = "lock"
    /\ Or("probe", "control")
    /\ startupLock' = IF faults' = faults THEN "main" ELSE None
    /\ UNCHANGED <<server, given, closed, peer, http, left, bridge, call>>

(* Another Gateway listens on the socket, or the probe or the removal of a *)
(* stale socket fails.                                                     *)
Probe ==
    /\ pc["main"] = "probe" /\ Or("listen", "release")
    /\ UNCHANGED <<control, http, left, bridge, call>>

Listen ==
    /\ pc["main"] = "listen"
    /\ \/ /\ server' = "listening" /\ NoFault
          /\ Goto("main", IF Unix THEN "chmod" ELSE "preflight")
          /\ given' = ~Unix
       \/ /\ Goto("main", IF Unix THEN "release" ELSE "control") /\ Fault
          /\ UNCHANGED <<server, given>>
    /\ UNCHANGED <<closed, startupLock, peer, http, left, bridge, call>>

(* chmod of the socket; when it fails the server is closed.                *)
Chmod ==
    /\ pc["main"] = "chmod" /\ Or("release", "unbind")
    /\ server' = IF faults' = faults THEN server ELSE "closing"
    /\ UNCHANGED <<given, closed, startupLock, peer, http, left, bridge, call>>

Unconnected == \A p \in Peers : peer[p] \in {"away", "gone"}

Unbind ==
    /\ pc["main"] = "unbind" /\ Unconnected
    /\ server' = "closed" /\ Goto("main", "release")
    /\ UNCHANGED <<given, closed, startupLock, peer, http, left, bridge, call, faults>>

(* Mutant: the lock is kept while the Gateway runs.                        *)
ReleaseNothing ==
    /\ pc["main"] = "release"
    /\ given' = (server = "listening")
    /\ Goto("main", IF given' THEN "preflight" ELSE "control")
    /\ UNCHANGED <<server, closed, startupLock, peer, http, left, bridge, call, faults>>

(* The finally block of startControlServer, which then returns or throws.  *)
ReleaseStartupLock ==
    /\ pc["main"] = "release"
    /\ \/ /\ startupLock' = None /\ NoFault
          /\ given' = (server = "listening")
          /\ Goto("main", IF given' THEN "preflight" ELSE "control")
       \/ Goto("main", "control") /\ Fault /\ UNCHANGED <<given, startupLock>>
    /\ UNCHANGED <<server, closed, peer, http, left, bridge, call>>

Preflight ==
    /\ pc["main"] = "preflight" /\ Or("up", "control")
    /\ available' = (faults' = faults \/ available)
    /\ UNCHANGED <<control, http, left, client, starting, stage, child, call>>
----------------------------------------------------------------------------
(* The shutdown, and the end of a start that failed                        *)

(* shutdown: the first call closes everything, later ones return at once.  *)
Stop ==
    IF pc["stop"] = "none" THEN Goto("stop", "control") ELSE UNCHANGED pc

Connect(p) ==
    /\ server = "listening" /\ peer[p] = "away"
    /\ peer' = [peer EXCEPT ![p] = "connected"]
    /\ UNCHANGED <<pc, server, given, closed, startupLock, http, left, bridge, call, faults>>

(* handleSocket: the request is acknowledged, and the shutdown begins in   *)
(* the same turn of the event loop.                                        *)
Ask(p) ==
    /\ peer[p] = "connected" /\ peer' = [peer EXCEPT ![p] = "asked"] /\ Stop
    /\ UNCHANGED <<server, given, closed, startupLock, http, left, bridge, call, faults>>

Disconnect(p) ==
    /\ peer[p] \in {"connected", "asked"} /\ peer' = [peer EXCEPT ![p] = "gone"]
    /\ UNCHANGED <<pc, server, given, closed, startupLock, http, left, bridge, call, faults>>

(* SIGINT and SIGTERM, once the program listens for them.                  *)
Signal ==
    /\ pc["main"] = "up" /\ Stop
    /\ UNCHANGED <<control, http, left, bridge, call, faults>>

(* close of the control server, if there is one and it was not called.     *)
CloseControl(t) ==
    /\ pc[t] = "control"
    /\ IF given /\ ~closed
       THEN /\ closed' = TRUE
            /\ IF Unix THEN Goto(t, "closeLock") /\ UNCHANGED server
               ELSE Goto(t, "close") /\ server' = "closing"
       ELSE Goto(t, "stopHttp") /\ UNCHANGED <<closed, server>>
    /\ UNCHANGED <<given, startupLock, peer, http, left, bridge, call, faults>>

CloseLock(t) ==
    /\ pc[t] = "closeLock"
    /\ \/ /\ startupLock = None /\ startupLock' = t /\ NoFault
          /\ server' = "closing" /\ Goto(t, "close")
       \/ /\ IF startupLock = None THEN Fault ELSE NoFault
          /\ Goto(t, "stopHttp") /\ UNCHANGED <<startupLock, server>>
    /\ UNCHANGED <<given, closed, peer, http, left, bridge, call>>

(* The server has closed when its last connection has.                     *)
Close(t) ==
    /\ pc[t] = "close" /\ Unconnected
    /\ server' = "closed" /\ startupLock' = None /\ Goto(t, "stopHttp")
    /\ UNCHANGED <<given, closed, peer, http, left, bridge, call, faults>>

(* close of the HTTP server; a second close fails at once.                 *)
StopHttp(t) ==
    /\ pc[t] = "stopHttp"
    /\ IF http = "listening" THEN http' = "closing" /\ Goto(t, "drain")
       ELSE UNCHANGED http /\ Goto(t, "owned")
    /\ UNCHANGED <<control, left, bridge, call, faults>>

(* The HTTP server waits for connections, not for handlers.                *)
Drain(t) ==
    /\ pc[t] = "drain" /\ \A c \in Calls \ left : call[c] = Idle
    /\ http' = "closed" /\ Goto(t, "owned")
    /\ UNCHANGED <<control, left, bridge, call, faults>>

(* cleanupOwnedProcesses: where processes are the backend's, it is asked.  *)
Owned(t) ==
    /\ pc[t] = "owned"
    /\ \/ Goto(t, "bridge") /\ UNCHANGED <<bridge, call>>
       \/ Unix /\ Begins(t) /\ Goto(t, "ownedWait")
    /\ UNCHANGED <<control, http, left, faults>>

OwnedEnds(t) ==
    /\ pc[t] = "ownedWait" /\ call[t] = Idle /\ Goto(t, "bridge")
    /\ UNCHANGED <<control, http, left, bridge, call, faults>>

CloseBridge(t) ==
    /\ pc[t] = "bridge" /\ client' = 0 /\ Goto(t, "bridgeWait")
    /\ call' = IF client = 0 THEN call
               ELSE [call EXCEPT ![t] = [pc |-> "failing", on |-> client]]
    /\ UNCHANGED <<control, http, left, available, starting, stage, child, faults>>

(* The shutdown is over; a start that failed ends the process, and with it *)
(* the backends, whose input closes.                                       *)
End(t) ==
    /\ pc[t] = "bridgeWait" /\ call[t] = Idle /\ Goto(t, "end")
    /\ IF t = "stop" THEN UNCHANGED <<server, http, client, child>>
       ELSE /\ server' = "closed" /\ http' = "closed" /\ client' = 0
            /\ child' = [k \in Connections |->
                            IF child[k] = "running" THEN "ended" ELSE child[k]]
    /\ UNCHANGED <<given, closed, startupLock, peer, left, available, starting, stage,
                   call, faults>>
----------------------------------------------------------------------------
StartStep ==
    \/ ListenHttp \/ TakeStartupLock \/ Probe \/ Listen \/ Chmod \/ Unbind
    \/ ReleaseStartupLock \/ Preflight

EndStep(t) ==
    \/ CloseControl(t) \/ CloseLock(t) \/ Close(t) \/ StopHttp(t) \/ Drain(t)
    \/ Owned(t) \/ OwnedEnds(t) \/ CloseBridge(t) \/ End(t)

CallStep(c) == Preflighted(c) \/ Answered(c) \/ Throws(c) \/ ClientCloses(c)

StartsBackend(k) == Access(k) \/ Connected(k) \/ Abandoned(k)

(* What the event loop runs when it is ready, but for the shutdown.        *)
Callback ==
    \/ StartStep \/ EndStep("main")
    \/ \E c \in Callers : CallStep(c)
    \/ \E k \in Connections : StartsBackend(k)

Next ==
    /\ pc["main"] # "end"
    /\ \/ Callback \/ EndStep("stop") \/ Signal
       \/ \E c \in Calls : Begin(c) \/ Leave(c)
       \/ \E k \in Connections : ChildEnds(k)
       \/ \E p \in Peers : Connect(p) \/ Ask(p) \/ Disconnect(p)

Spec == Init /\ [][Next]_vars
----------------------------------------------------------------------------
(* Every backend that runs is the installed one, or is being started or    *)
(* closed: none is lost, however calls, failures and closes interleave.    *)
BackendAccounted ==
    \A k \in Connections : child[k] = "running" =>
        \/ client = k
        \/ stage[k] \in {"connecting", "closing"}
        \/ \E c \in Callers : call[c] = [pc |-> "failing", on |-> k]

(* A Gateway that ended: its servers are closed, and no backend runs unless *)
(* it was started again for the call of a client that went away.           *)
Ended ==
    /\ server \in {"none", "closed"} /\ http \in {"none", "closed"}
    /\ left # {} \/ \A k \in Connections : child[k] # "running"

(* A shutdown that found the control server unknown to the program, or     *)
(* could not take the startup lock to close it, leaves it open.            *)
LeftOpen ==
    \/ pc["stop"] \notin {"none", "control"} /\ ~closed
    \/ closed /\ server = "listening" /\ faults > 0
       /\ \A t \in Threads : pc[t] # "closeLock"
=============================================================================
