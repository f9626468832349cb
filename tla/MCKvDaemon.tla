------------------------------ MODULE MCKvDaemon ------------------------------
(* Instances of KvDaemon for TLC.                                          *)
EXTENDS KvDaemon, TLC

(* Nothing in the daemon tells requests, sessions or chunks apart.         *)
Symmetry ==
  Permutations(Requests) \cup Permutations(Sessions) \cup Permutations(Chunks)
=============================================================================
