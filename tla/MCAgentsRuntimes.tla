-------------------------- MODULE MCAgentsRuntimes --------------------------
(* Two Workspaces that share one place, and callers in flight. *)
EXTENDS AgentsRuntimes, TLC

Symmetry == Permutations(Workspaces) \cup Permutations(Callers)
=============================================================================
