------------------------------- MODULE Mutex -------------------------------
(***************************************************************************)
(* What acquirePidDirectoryLock promises its callers: at any moment at     *)
(* most one live caller holds the lock; a holder loses it only by its own  *)
(* release or by the death of its process.                                 *)
(***************************************************************************)
CONSTANTS Client,   \* callers that may hold the lock
          Proc,     \* operating-system processes (pids)
          ProcOf    \* the process each caller runs in

VARIABLE holders    \* the callers that hold the lock now

Init == holders = {}

\* acquirePidDirectoryLock returned a lease to c.
Acquire(c) == holders = {} /\ holders' = {c}

\* The lease of c was given up by c itself.
Release(c) == c \in holders /\ holders' = holders \ {c}

\* Process p died with everything its callers held.
Die(p) == holders' = {c \in holders : ProcOf[c] # p}

Next == \/ \E c \in Client : Acquire(c) \/ Release(c)
        \/ \E p \in Proc : Die(p)

Spec == Init /\ [][Next]_holders
=============================================================================
