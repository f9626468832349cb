------------------------ MODULE MCCaseConfirmations -------------------------
(* CaseConfirmations for TLC: handlers and principals are alike. *)
EXTENDS CaseConfirmations, TLC

Symmetry == Permutations(Handlers) \cup Permutations(Principals)
=============================================================================
