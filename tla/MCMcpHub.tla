------------------------------ MODULE MCMcpHub ------------------------------
(* Instances of McpHub for TLC.                                            *)
EXTENDS McpHub, TLC

\* Calls, Gateways, urls and secrets are interchangeable.
Symmetry ==
    Permutations(Calls) \cup Permutations(Gateways) \cup Permutations(Urls)
        \cup Permutations(Secrets)
=============================================================================
