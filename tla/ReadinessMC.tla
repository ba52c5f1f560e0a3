---------------------------- MODULE ReadinessMC -----------------------------
(* Readiness for TLC: callers are interchangeable. *)
EXTENDS Readiness, TLC

Symmetry == Permutations(Callers)
=============================================================================
