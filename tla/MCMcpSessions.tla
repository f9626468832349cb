--------------------------- MODULE MCMcpSessions ----------------------------
(* McpSessions for TLC: requests and principals are alike. *)
EXTENDS McpSessions, TLC

Symmetry == Permutations(Requests) \cup Permutations(Principals)
=============================================================================
