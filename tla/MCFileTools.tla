----------------------------- MODULE MCFileTools -----------------------------
(* Three instances of FileTools in one run: a behaviour starts in one of them *)
(* and stays there.                                                           *)
EXTENDS Naturals, TLC

CONSTANTS g1, g2, f1, f2, f3, text1, text2, Gone, Torn, Nothing

VARIABLES
  fileInstance,  \* "gateways", "moves" or "live"
  disk, clock, caps, mutexes, fileLock, fileCall, issuedCaps, begun, failed, crashes

fileVars ==
  <<disk, clock, caps, mutexes, fileLock, fileCall, issuedCaps, begun, failed, crashes>>

\* Two Gateways with one call each work on one file; one operation may fail and
\* one Gateway may die.
Gateways == INSTANCE FileTools WITH
       queue <- mutexes, lock <- fileLock, call <- fileCall, issued <- issuedCaps,
       started <- begun, faults <- failed, None <- Nothing,
       Gateway <- {g1, g2}, Call <- {f1, f2}, GatewayOf <- f1 :> g1 @@ f2 :> g2,
       Unlocked <- {}, NFiles <- 1, Content <- {text1, text2}, Initially <- <<text1>>,
       CrossDevice <- FALSE, MaxEntries <- 2, MaxCalls <- 4, MaxFaults <- 1,
       MaxCrashes <- 1

\* Two guarded calls of one Gateway, one of an unlocked Gateway, two paths.
Moves == INSTANCE FileTools WITH
       queue <- mutexes, lock <- fileLock, call <- fileCall, issued <- issuedCaps,
       started <- begun, faults <- failed, None <- Nothing,
       Gateway <- {g1, g2}, Call <- {f1, f2, f3},
       GatewayOf <- f1 :> g1 @@ f2 :> g1 @@ f3 :> g2,
       Unlocked <- {g2}, NFiles <- 2, Content <- {text1}, Initially <- <<text1, Gone>>,
       CrossDevice <- FALSE, MaxEntries <- 2, MaxCalls <- 3, MaxFaults <- 0,
       MaxCrashes <- 0

\* Two calls of one unlocked Gateway, moves across devices, one failure.
Live == INSTANCE FileTools WITH
       queue <- mutexes, lock <- fileLock, call <- fileCall, issued <- issuedCaps,
       started <- begun, faults <- failed, None <- Nothing,
       Gateway <- {g1}, Call <- {f1, f2}, GatewayOf <- f1 :> g1 @@ f2 :> g1,
       Unlocked <- {g1}, NFiles <- 2, Content <- {text1}, Initially <- <<text1, Gone>>,
       CrossDevice <- TRUE, MaxEntries <- 1, MaxCalls <- 3, MaxFaults <- 1,
       MaxCrashes <- 0

ASSUME FileParameters ==
  Gateways!Parameters /\ Moves!Parameters /\ Live!Parameters

FileInit ==
  \/ fileInstance = "gateways" /\ Gateways!Init
  \/ fileInstance = "moves" /\ Moves!Init
  \/ fileInstance = "live" /\ Live!Init

FileNext ==
  /\ UNCHANGED fileInstance
  /\ \/ fileInstance = "gateways" /\ Gateways!Next
     \/ fileInstance = "moves" /\ Moves!Next
     \/ fileInstance = "live" /\ Live!Next

\* The fairness of FileTools, for the instance whose liveness is checked.
FileSpec ==
  /\ FileInit /\ [][FileNext]_<<fileInstance, fileVars>>
  /\ \A c \in {f1, f2} : WF_fileVars(fileInstance = "live" /\ Live!Progress(c))

\* The type invariant of FileTools.
FilesTyped == fileInstance = "gateways" => Gateways!TypeOK

\* No lost update: until a guarded mutation changes its file, that file still
\* holds what the mutation's client observed, and a guarded move overwrites no
\* file, although unlocked calls create, move and write files meanwhile.
NoLostUpdate ==
  /\ fileInstance = "gateways" => Gateways!NoLostUpdate
  /\ fileInstance = "moves" => Moves!NoLostUpdate /\ Moves!GuardedMoveFindsNoFile

\* Every file call returns, whatever the order of the locks it needs.
FileCallsReturn ==
  \A c \in {f1, f2} :
    (fileInstance = "live" /\ fileCall[c].pc # "idle") ~> (fileCall[c].pc = "idle")
=============================================================================
