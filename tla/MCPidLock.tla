----------------------------- MODULE MCPidLock -----------------------------
(* Instances of PidLock for TLC. *)
EXTENDS PidLock, TLC

\* Every caller in a process of its own.
OwnProcess == [c \in Client |-> c]

=============================================================================
