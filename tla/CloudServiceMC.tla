--------------------------- MODULE CloudServiceMC ---------------------------
(* CloudService for TLC, with the jobs and requests of the configuration. *)
EXTENDS CloudService
=============================================================================
