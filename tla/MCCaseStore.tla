---------------------------- MODULE MCCaseStore -----------------------------
(* CaseStore for TLC: a short and a longer content, and one nobody can read. *)
EXTENDS CaseStore, TLC

CONSTANTS short, long, bad

MCParts ==
  [c \in Contents |-> CASE c = short -> 1 [] c = long -> 2 [] OTHER -> 0]

Symmetry == Permutations(Writers) \cup Permutations(Paths)
=============================================================================
