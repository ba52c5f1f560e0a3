--------------------------- MODULE ArtifactStore ----------------------------
(***************************************************************************)
(* What the artifact store promises, with no mention of files, directories *)
(* or system calls: an artifact appears whole and at once while its write  *)
(* is under way, and is there for good when that write has returned.       *)
(* Artifacts implements this; JobRunner's artifacts and CloudEdge's stored *)
(* are the artifacts shown here, as long as the machine keeps its power.   *)
(***************************************************************************)
CONSTANTS Jobs, NoJob   \* as in Artifacts

VARIABLES shown,    \* [Jobs -> "nothing", "part" or "whole"]: what serving finds
          writing,  \* the job whose artifact is being written
          outcome   \* [Jobs -> "none", "begun", "returned" or "raised"]

vars == <<shown, writing, outcome>>

Init == /\ shown = [j \in Jobs |-> "nothing"]
        /\ writing = NoJob
        /\ outcome = [j \in Jobs |-> "none"]

Begin(j) == /\ writing = NoJob
            /\ outcome[j] = "none"
            /\ writing' = j
            /\ outcome' = [outcome EXCEPT ![j] = "begun"]
            /\ UNCHANGED shown

(* The one instant in which readers come to see the artifact. *)
Publish == /\ writing # NoJob
           /\ shown[writing] = "nothing"
           /\ shown' = [shown EXCEPT ![writing] = "whole"]
           /\ UNCHANGED <<writing, outcome>>

Return == /\ writing # NoJob
          /\ shown[writing] = "whole"
          /\ outcome' = [outcome EXCEPT ![writing] = "returned"]
          /\ writing' = NoJob
          /\ UNCHANGED shown

(* A write fails: whether its artifact is seen has been settled before.    *)
Raise == /\ writing # NoJob
         /\ outcome' = [outcome EXCEPT ![writing] = "raised"]
         /\ writing' = NoJob
         /\ UNCHANGED shown

(* The process dies and comes back. *)
Crash == /\ writing # NoJob
         /\ writing' = NoJob
         /\ UNCHANGED <<shown, outcome>>

(* The machine loses power: what no write has returned for may be gone.    *)
PowerLoss == /\ \E gone \in SUBSET {j \in Jobs : outcome[j] # "returned"} :
                  shown' = [j \in Jobs |-> IF j \in gone THEN "nothing" ELSE shown[j]]
             /\ writing' = NoJob
             /\ UNCHANGED outcome

Next == \/ \E j \in Jobs : Begin(j)
        \/ Publish
        \/ Return
        \/ Raise
        \/ Crash
        \/ PowerLoss

Spec == Init /\ [][Next]_vars
=============================================================================
