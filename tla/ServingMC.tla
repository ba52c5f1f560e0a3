----------------------------- MODULE ServingMC ------------------------------
(* Serving for TLC. *)
EXTENDS Serving, TLC
=============================================================================
