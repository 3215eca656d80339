-------------------------- MODULE MCProcessSessions --------------------------
(* What a Gateway starts and must end: instances of ProcessSessions and of     *)
(* Gateway in one run.  A behaviour starts in one of them and stays there.     *)
EXTENDS Naturals

CONSTANTS req1, req2, pid1, pid2, Absent

VARIABLES
  processInstance,  \* "reuse", "bounds", "leave", "windows" or "unix"
  os, pidOf, backend, sessions, active, pending, pc, cur, procEntry, phase,
  owned, closing, known,
  thread, server, given, closed, startupLock, peer, http, left, available, client,
  starting, stage, child, clientCall, faults

procVars ==
  <<os, pidOf, backend, sessions, active, pending, pc, cur, procEntry, phase,
    owned, closing, known>>
gateVars ==
  <<thread, server, given, closed, startupLock, peer, http, left, available, client,
    starting, stage, child, clientCall, faults>>

\* Three processes and two pids; a pid is given again after the close event.
Reused == INSTANCE ProcessSessions WITH
       entry <- procEntry, Req <- {req1, req2}, Pid <- {pid1, pid2}, Reuse <- "afterClose",
       MayHang <- FALSE, MaySpoof <- FALSE, MayLeave <- FALSE,
       MaxSessions <- 2, MaxTracked <- 2, MaxStarts <- 3

\* A ceiling of one session, processes that never end and kills that hang.
Bounded == INSTANCE ProcessSessions WITH
       entry <- procEntry, Req <- {req1, req2}, Pid <- {pid1, pid2}, Reuse <- "never",
       MayHang <- TRUE, MaySpoof <- FALSE, MayLeave <- FALSE,
       MaxSessions <- 1, MaxTracked <- 1, MaxStarts <- 2

\* A client that goes away while its call is under way.
Left == INSTANCE ProcessSessions WITH
       entry <- procEntry, Req <- {req1}, Pid <- {pid1, pid2}, Reuse <- "never",
       MayHang <- FALSE, MaySpoof <- FALSE, MayLeave <- TRUE,
       MaxSessions <- 2, MaxTracked <- 2, MaxStarts <- 2

\* Two clients of a Gateway on Windows, whose backends may end; one client on Unix,
\* where the cleanup calls the backend too, and a failure.  Two connections.
OnWindows == INSTANCE Gateway WITH
       pc <- thread, call <- clientCall, None <- Absent,
       Calls <- {req1, req2}, Peers <- {pid1}, Unix <- FALSE,
       MaxConnections <- 2, MaxFaults <- 0

OnUnix == INSTANCE Gateway WITH
       pc <- thread, call <- clientCall, None <- Absent,
       Calls <- {req1}, Peers <- {pid1}, Unix <- TRUE,
       MaxConnections <- 2, MaxFaults <- 1

ASSUME ProcessParameters ==
  /\ Reused!Parameters /\ Bounded!Parameters /\ Left!Parameters
  /\ OnWindows!GatewayAssumption /\ OnUnix!GatewayAssumption

NoProcesses ==
  /\ os = Absent /\ pidOf = Absent /\ backend = Absent /\ sessions = Absent /\ active = Absent
  /\ pending = Absent /\ pc = Absent /\ cur = Absent /\ procEntry = Absent /\ phase = Absent
  /\ owned = Absent /\ closing = Absent /\ known = Absent

NoGateway ==
  /\ thread = Absent /\ server = Absent /\ given = Absent /\ closed = Absent
  /\ startupLock = Absent /\ peer = Absent /\ http = Absent /\ left = Absent
  /\ available = Absent /\ client = Absent /\ starting = Absent /\ stage = Absent
  /\ child = Absent /\ clientCall = Absent /\ faults = Absent

ProcessInit ==
  \/ /\ \/ processInstance = "reuse" /\ Reused!Init
        \/ processInstance = "bounds" /\ Bounded!Init
        \/ processInstance = "leave" /\ Left!Init
     /\ NoGateway
  \/ /\ \/ processInstance = "windows" /\ OnWindows!Init
        \/ processInstance = "unix" /\ OnUnix!Init
     /\ NoProcesses

ProcessNext ==
  /\ UNCHANGED processInstance
  /\ \/ processInstance = "reuse" /\ Reused!Next /\ UNCHANGED gateVars
     \/ processInstance = "bounds" /\ Bounded!Next /\ UNCHANGED gateVars
     \/ processInstance = "leave" /\ Left!Next /\ UNCHANGED gateVars
     \/ processInstance = "windows" /\ OnWindows!Next /\ UNCHANGED procVars
     \/ processInstance = "unix" /\ OnUnix!Next /\ UNCHANGED procVars

\* A Gateway that has not exited yet.
WindowsRuns == processInstance = "windows" /\ thread["main"] # "end"
UnixRuns == processInstance = "unix" /\ thread["main"] # "end"

\* The fairness of ProcessSessions and Gateway, for the instances whose liveness
\* is checked.
ProcessSpec ==
  /\ ProcessInit /\ [][ProcessNext]_<<processInstance, procVars, gateVars>>
  /\ \A r \in {req1, req2} :
       SF_procVars(processInstance = "bounds" /\ Bounded!Next /\ Bounded!Call(r))
  /\ WF_gateVars(WindowsRuns /\ OnWindows!EndStep("stop"))
  /\ WF_gateVars(UnixRuns /\ OnUnix!EndStep("stop"))
  /\ WF_gateVars(WindowsRuns /\ OnWindows!Disconnect(pid1))
  /\ WF_gateVars(UnixRuns /\ OnUnix!Disconnect(pid1))
  /\ WF_gateVars(WindowsRuns /\ OnWindows!Callback) /\ WF_gateVars(UnixRuns /\ OnUnix!Callback)

\* The type invariants of ProcessSessions and Gateway.
ProcessesTyped ==
  /\ processInstance = "reuse" => Reused!TypeOK
  /\ processInstance = "bounds" => Bounded!TypeOK
  /\ processInstance = "leave" => Left!TypeOK
  /\ processInstance = "windows" => OnWindows!TypeOK
  /\ processInstance = "unix" => OnUnix!TypeOK

\* A session id reaches another process than its own only while the start of
\* that process has not returned.
ReachesOwnUnlessStarting == processInstance = "reuse" => Reused!ReachesOwnUnlessStarting

\* A running process is counted by the ceiling, or being killed; and active
\* sessions with the starts in flight are never more than the ceiling.  (With a
\* reused pid a process is counted twice, by an old session and by its start.)
SessionsAreCounted ==
  /\ processInstance = "reuse" => Reused!LiveIsCounted
  /\ processInstance = "bounds" => Bounded!Ceiling

\* A Gateway that has shut down left no process running, but what the handler of
\* a client that went away spawned after the backend was closed.
ShutdownKillsAll ==
  /\ processInstance = "reuse" => Reused!ShutdownKillsAll
  /\ processInstance = "leave" => Left!ShutdownKillsAll

\* No backend is lost by the calls that share, replace and close it.
BackendAccounted ==
  /\ processInstance = "windows" => OnWindows!BackendAccounted
  /\ processInstance = "unix" => OnUnix!BackendAccounted

\* Every call returns, whatever the processes do.
CallsReturn ==
  \A r \in {req1, req2} :
    (processInstance = "bounds" /\ pc[r] # "idle")
      ~> (processInstance = "bounds" /\ pc[r] = "idle")

\* A Gateway that was asked to stop closes its servers and its backend, unless a
\* client went away during its call and the backend is opened for it again.  On
\* Unix the request may come before the control server is known to the program,
\* or the startup lock may not be had; then the control server stays open.
StopEnds ==
  /\ (processInstance = "windows" /\ thread["stop"] # "none")
       ~> (processInstance = "windows" /\ OnWindows!Ended)
  /\ (processInstance = "unix" /\ thread["stop"] # "none")
       ~> (processInstance = "unix" /\ (OnUnix!Ended \/ OnUnix!LeftOpen))
=============================================================================
