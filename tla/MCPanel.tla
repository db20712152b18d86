------------------------------ MODULE MCPanel -------------------------------
(* A small instance of Panel for TLC. *)
EXTENDS Panel

\* Two groups that share a node; one of them without nodes.
MCConfigs == {(1 :> {1, 2}) @@ (2 :> {2, 3}), (1 :> {}) @@ (2 :> {2, 3})}

\* Connections that send much or receive much.
MCTraffic == UNION {[S -> {[up |-> 0, down |-> 1], [up |-> 1, down |-> 0]}] :
                        S \in SUBSET NODES}
MCFilters == {{1, 2, 3}, {1}}
=============================================================================
