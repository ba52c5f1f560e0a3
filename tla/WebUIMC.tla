------------------------------ MODULE WebUIMC -------------------------------
(* WebUI for TLC: jobs and clicks are interchangeable. *)
EXTENDS WebUI, TLC

Symmetry == Permutations(Jobs) \cup Permutations(Clicks)
=============================================================================
