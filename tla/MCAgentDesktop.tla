--------------------------- MODULE MCAgentDesktop ---------------------------
(* Two desktops, two calls, two leases, one rearrangement of desktops.      *)
EXTENDS AgentDesktop, TLC

(* A behaviour has either the task or the rearrangements, and starts with   *)
(* the lowest numbers.                                                      *)
MCInit ==
    /\ Init
    /\ \A d \in Desktops : number[d] # 1
    /\ task = "active" <=> renumberings = MaxRenumberings

MCSpec == MCInit /\ [][Next]_vars

(* Only the task, for the run that looks at its end.                        *)
FreshInit == MCInit /\ task = "active"
FreshSpec == FreshInit /\ [][Next]_vars

(* Only a desktop under control counts as displaced: one without a binding  *)
(* gets no lease, and a binding ends its displacement.                      *)
view == <<number, bindings, control, hud, panel, call, task, next,
          displaced \cap Controlled, unheld, renumberings>>

symmetry == Permutations(Desktops) \cup Permutations(Calls)
=============================================================================
