--------------------------- MODULE PageServiceMC ----------------------------
(* PageService for TLC, with the jobs and clicks of the configuration. *)
EXTENDS PageService
=============================================================================
