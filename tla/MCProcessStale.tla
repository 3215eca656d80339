--------------------------- MODULE MCProcessStale ---------------------------
(* An instance of ProcessSessions in which the only pid is given again.      *)
EXTENDS ProcessSessions

\* Calls are interchangeable.
Symmetry == Permutations(Req)
=============================================================================
