------------------------- MODULE MCBrowserSessions -------------------------
(* Two instances of BrowserSessions.  "profiles": two starts may share one   *)
(* persistent profile while clients list, close and delete, and one failure. *)
(* "pages": one session whose page changes once and which two clients        *)
(* observe and act on, with at most two observations.                        *)
EXTENDS BrowserSessions, TLC

CONSTANTS s1, s2, c1, c2

VARIABLE instance

ASSUME BrowserAssumption

Offered == [profiles |-> {"list", "close", "delete"}, pages |-> {"snapshot", "act", "page"}]

MCInit == Init /\ instance \in DOMAIN Offered

(* What the instance at hand leaves out.                                     *)
Allowed ==
    /\ \A c \in Clients : call'[c].op \in Offered[instance] \cup {Nobody}
    /\ instance = "profiles" => page' = page
    /\ instance = "pages" =>
          /\ Cardinality({s \in Sessions : call'[s].pc # "idle"}) <= 1
          /\ \A s \in Sessions : profile'[s] = s
          /\ \A c \in Clients, s \in Sessions :
                call'[c].target = s => call'[s].pc # "idle"
          /\ \A p \in Profiles : lock'[p] = lock[p]
          /\ faults' = faults

MCNext == Next /\ Allowed /\ UNCHANGED instance

MCSpec == MCInit /\ [][MCNext]_<<instance, vars>>

symmetry == Permutations({c1, c2}) \cup Permutations({s1, s2})
=============================================================================
