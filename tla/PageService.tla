---------------------------- MODULE PageService -----------------------------
(***************************************************************************)
(* The page over the job runner itself: WebUI leaves to the abstract       *)
(* service when a job moves, here the runner's code decides it, and the    *)
(* log that the streams are read from is the store's.                      *)
(*                                                                         *)
(* A step is a step of the runner, of the page, or, where a request of the *)
(* page arrives, of both.                                                  *)
(***************************************************************************)
EXTENDS WebUI

CONSTANT Persist  \* of JobRunner

(* Of JobRunner, whose status, current and log are phase, slot and log;    *)
(* open is whether its worker's task still runs.                           *)
VARIABLES queue, cancelled, pc, hand, call, flagged, leases, stopper, artifacts

runnerVars == <<queue, cancelled, pc, hand, call, flagged, leases, stopper, artifacts>>
allVars == <<vars, runnerVars>>

Runner == INSTANCE JobRunner WITH status <- phase, current <- slot

ServiceInit == Init /\ Runner!Init
-----------------------------------------------------------------------------
(* The runner moves by itself or for another client; nobody stops it, but  *)
(* its worker may die.                                                     *)
RunnerOnly(A) == /\ A
                 /\ open' = (pc' # "done")
                 /\ UNCHANGED <<post, cancelVars>>
                 /\ PageStays

RunnerMoves == \/ RunnerOnly(\E j \in Jobs : Runner!Cancel(j)
                                             \/ Runner!CallEnds(j) \/ Runner!CallUnwinds(j))
               \/ RunnerOnly(Runner!Start \/ Runner!Worker)

(* POST /jobs arrives ... *)
Accepts(c) == /\ pc # "off"
              /\ \E j \in Jobs : ServerAccepts(c) /\ post'[c] = j /\ Runner!Submit(j)

(* ... or POST /jobs/{id}/cancel, in time or too late. *)
Cancels == /\ CancelArrives
           /\ IF UNCHANGED phase THEN UNCHANGED runnerVars ELSE Runner!Cancel(cancelOf)

PageOnly(A) == A /\ UNCHANGED runnerVars

Answered(c) == PostGoesWrong(c) \/ PostRefused(c) \/ PostAccepted(c)

(* All else that happens to the page. *)
PageMoves == \/ \E c \in Clicks : Press(c) \/ Answered(c)
             \/ JobEvent
             \/ \E l \in loads : LoadEnds(l)
             \/ PollStarts
             \/ PollEnds
             \/ CancelPress
             \/ CancelAnswered
             \/ CancelGoesWrong

ServiceNext == \/ RunnerMoves
               \/ \E c \in Clicks : Accepts(c)
               \/ Cancels
               \/ PageOnly(PageMoves)

ServiceSpec == ServiceInit /\ [][ServiceNext]_allVars
-----------------------------------------------------------------------------
(* The download that the page shows with a result is there: the event that *)
(* brought it tells of a job whose artifact had been published before.     *)
ResultIsThere == Persist /\ result # NoJob => result \in artifacts
=============================================================================
