---------------------------- MODULE CloudService ----------------------------
(***************************************************************************)
(* The cloud edge over the job runner itself.  CloudEdge leaves to the     *)
(* abstract service when a job moves; here the runner's code decides it,   *)
(* with its queue, its worker and its engine calls, and with the web page  *)
(* as another caller of it (api/app/main.py hands one runner to all).      *)
(*                                                                         *)
(* A step is a step of the runner, of a handler, or, where a POST submits  *)
(* its job, of both.                                                       *)
(***************************************************************************)
EXTENDS CloudEdge

(* Of JobRunner, whose status, current and artifacts are phase, slot and   *)
(* stored; open is whether its worker's task still runs.                   *)
VARIABLES log, queue, cancelled, pc, hand, call, flagged, leases, stopper

runnerVars == <<log, queue, cancelled, pc, hand, call, flagged, leases, stopper>>
allVars == <<vars, runnerVars>>

Runner == INSTANCE JobRunner WITH status <- phase, current <- slot, artifacts <- stored

ServiceInit == Init /\ Runner!Init
-----------------------------------------------------------------------------
AtRest == \A r \in Requests : stage[r] \in {"idle", "ended"}

(* The runner moves by itself or for another caller. *)
RunnerOnly(A) == /\ A
                 /\ open' = (pc' # "done")
                 /\ Elsewhere

(* The server lets its requests finish before the lifespan stops the       *)
(* runner.                                                                 *)
RunnerMoves == \/ RunnerOnly(\E j \in Jobs : Runner!Submit(j) \/ Runner!Cancel(j)
                                             \/ Runner!CallEnds(j) \/ Runner!CallUnwinds(j))
               \/ RunnerOnly(Runner!Start \/ Runner!StopReturns \/ Runner!Worker)
               \/ AtRest /\ RunnerOnly(Runner!Stop)

(* Requests come between start and stop, whether the worker lives or not. *)
Arrivals == /\ pc # "off"
            /\ stopper = "none"
            /\ \/ \E p \in Posts : PostRefused(p) /\ UNCHANGED runnerVars
               \/ \E p \in Posts, j \in Jobs : PostSubmits(p) /\ job'[p] = j /\ Runner!Submit(j)
               \/ \E g \in Gets : (GetArrives(g) \/ DownloadArrives(g)) /\ UNCHANGED runnerVars

Handlers == /\ \/ \E p \in Posts : Posting(p)
               \/ \E r \in Requests : Delivers(r)
            /\ UNCHANGED runnerVars

ServiceNext == RunnerMoves \/ Arrivals \/ Handlers

ServiceSpec == ServiceInit /\ [][ServiceNext]_allVars

(***************************************************************************)
(* The runner's own fairness and the handlers': what can run does, engine  *)
(* calls end at their timeouts and ffmpeg comes to an end (the code sets   *)
(* it none), asyncio's semaphore serves its waiters in order.  That jobs   *)
(* end is no assumption: the runner's queue is first in first out.         *)
(***************************************************************************)
ServiceFairness ==
  /\ WF_allVars(RunnerOnly(Runner!Take \/ Runner!Skip))
  /\ WF_allVars(RunnerOnly(Runner!Gate))
  /\ WF_allVars(RunnerOnly(Runner!ResumeAny))
  /\ \A j \in Jobs : WF_allVars(RunnerOnly(Runner!CallEnds(j) \/ Runner!CallUnwinds(j)))
  /\ \A r \in Requests : /\ SF_allVars(TakesSlot(r) /\ UNCHANGED runnerVars)
                         /\ WF_allVars(Delivers(r) /\ UNCHANGED runnerVars)
  /\ \A p \in Posts : WF_allVars(Posting(p) /\ UNCHANGED runnerVars)

ServiceFairSpec == ServiceSpec /\ ServiceFairness
-----------------------------------------------------------------------------
(* What leaves the service by any of its routes is over: no route sends a  *)
(* file of a job that still runs or was cancelled, though what it looks at *)
(* is the directory and never the record.                                  *)
Sending == {"slotting", "sending", "streaming"} \cup Working

SentIsOver == \A r \in Requests : stage[r] \in Sending => /\ job[r] \in stored
                                                         /\ phase[job[r]] \in {"succeeded", "failed"}

(* The answer of a POST and the event stream of its job tell one story.    *)
AnswerAgreesWithStream ==
  \A p \in Posts : reply[p] = "200" => log[job[p]] = <<"queued", "running", "succeeded">>
=============================================================================
