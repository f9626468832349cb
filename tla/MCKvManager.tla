----------------------------- MODULE MCKvManager -----------------------------
(* Instances of KvManager for TLC.                                         *)
EXTENDS KvManagerRefinement, TLC

(* Requests, sessions and chunks are interchangeable: no action and no     *)
(* safety property names one of them.                                      *)
Symmetry ==
  Permutations(Requests) \cup Permutations(Sessions) \cup Permutations(Chunks)
=============================================================================
