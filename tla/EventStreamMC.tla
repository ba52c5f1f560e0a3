--------------------------- MODULE EventStreamMC ----------------------------
(* EventStream for TLC: clients are interchangeable. *)
EXTENDS EventStream, TLC

Symmetry == Permutations(Clients)
=============================================================================
