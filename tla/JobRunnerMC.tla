---------------------------- MODULE JobRunnerMC -----------------------------
(* JobRunner for TLC: jobs are interchangeable. *)
EXTENDS JobRunner, TLC

Symmetry == Permutations(Jobs)
=============================================================================
