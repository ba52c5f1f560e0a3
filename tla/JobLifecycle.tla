---------------------------- MODULE JobLifecycle ----------------------------
(***************************************************************************)
(* What the generation service promises about its jobs, with no mention of *)
(* coroutines, tasks or queues: a job is created once, moves forward only, *)
(* and there is exactly one engine slot.  JobRunner implements this.       *)
(***************************************************************************)
CONSTANTS Jobs,    \* the job ids the service may hand out
          NoJob    \* the slot's value when no generation occupies it

VARIABLES phase,   \* [Jobs -> Phases]: where each job is in its life
          slot,    \* the job whose engine call is in flight, or NoJob
          open     \* the service still takes jobs to the engine

vars == <<phase, slot, open>>

Terminal == {"succeeded", "failed", "cancelled"}

Phases == {"absent", "queued", "running"} \cup Terminal

Init == /\ phase = [j \in Jobs |-> "absent"]
        /\ slot = NoJob
        /\ open = TRUE

Enter(j, p) == phase' = [phase EXCEPT ![j] = p]

(* A caller creates a job. *)
Submit(j) == /\ phase[j] = "absent"
             /\ Enter(j, "queued")
             /\ UNCHANGED <<slot, open>>

(* A caller cancels a job that has not ended.  A running job keeps the     *)
(* slot until its engine call has really gone.                             *)
Cancel(j) == /\ phase[j] \in {"queued", "running"}
             /\ Enter(j, "cancelled")
             /\ UNCHANGED <<slot, open>>

(* The engine cannot be made ready: the job fails without touching it.     *)
Reject(j) == /\ phase[j] = "queued"
             /\ open
             /\ Enter(j, "failed")
             /\ UNCHANGED <<slot, open>>

(* The job reaches the engine, which nobody else is using.                 *)
Begin(j) == /\ phase[j] = "queued"
            /\ open
            /\ slot = NoJob
            /\ Enter(j, "running")
            /\ slot' = j
            /\ UNCHANGED open

(* The engine call ends and the job with it. *)
Finish(j) == /\ phase[j] = "running"
             /\ slot = j
             /\ \E p \in {"succeeded", "failed"} : Enter(j, p)
             /\ slot' = NoJob
             /\ UNCHANGED open

(* The engine call of a job cancelled meanwhile has unwound. *)
Release(j) == /\ phase[j] = "cancelled"
              /\ slot = j
              /\ slot' = NoJob
              /\ UNCHANGED <<phase, open>>

(* Shutdown: the slot is emptied, whatever the job's phase says (R-18).    *)
Close == /\ open
         /\ open' = FALSE
         /\ slot' = NoJob
         /\ UNCHANGED phase

Next == \/ \E j \in Jobs : \/ Submit(j)
                           \/ Cancel(j)
                           \/ Reject(j)
                           \/ Begin(j)
                           \/ Finish(j)
                           \/ Release(j)
        \/ Close

Spec == Init /\ [][Next]_vars
=============================================================================
