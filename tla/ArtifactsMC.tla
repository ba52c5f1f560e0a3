---------------------------- MODULE ArtifactsMC -----------------------------
(* Artifacts for TLC: job ids are interchangeable. *)
EXTENDS Artifacts, TLC

Symmetry == Permutations(Jobs)
=============================================================================
