------------------------------- MODULE WebUI --------------------------------
(***************************************************************************)
(* The browser page (api/app/static/app.js): what the status region, the   *)
(* two buttons, the clock and the result show, against a job service that  *)
(* moves on by itself (JobLifecycle).  Requests, answers, stream events    *)
(* and timer ticks reach the page in any order; an action is one callback, *)
(* run to its end or to its next await.                                    *)
(*                                                                         *)
(* One page load against a server that stays up.  A stream delivers the    *)
(* events of its job once and in order (EventStream, DeliveredOnceInOrder).*)
(***************************************************************************)
EXTENDS Naturals, Sequences, FiniteSets

CONSTANTS Jobs, NoJob,  \* as in JobLifecycle
          Clicks,       \* presses of Generate (or Ctrl+Enter), each one POST /jobs
          MaxPolls      \* bound: GET /health requests in flight

ASSUME JobsAssumption == NoJob \notin Jobs
ASSUME ClicksAssumption == IsFiniteSet(Clicks)
ASSUME PollsAssumption == MaxPolls \in Nat \ {0}

VARIABLES phase, slot, open,  \* the job service
          log,       \* [Jobs -> Seq of phases]: the events of each job
          post,      \* [Clicks -> where that POST is; a job: its answer is on the way]
          job,       \* state.job.id
          status,    \* state.job.status, "none" before the first job
          engine,    \* state.engine: "warming", "unavailable", or "none" for all else
          label,     \* data-state of the status region
          locked,    \* els.generate.disabled
          watched,   \* the job of the open EventSource; the health timer runs with it
          seen,      \* events that stream has delivered
          polls,     \* GET /health in flight
          anchor,    \* the job whose running event set runningAtMs
          ticking,   \* elapsedTimer runs
          cancelOf,  \* the job whose cancel request is in flight (els.cancel.disabled)
          cancelAt,  \* how far that request has come
          result,    \* the job whose link and parameters are shown
          loads,     \* loadArtifacts calls of onSucceeded, each with what it captured
          delivered  \* the requested and the delivered length shown

serviceVars == <<phase, slot, open, log>>
renderVars == <<label, locked>>
watchVars == <<watched, seen, anchor, ticking>>
cancelVars == <<cancelOf, cancelAt>>
resultVars == <<result, loads, delivered>>
vars == <<serviceVars, post, job, status, engine, renderVars, watchVars, polls,
          cancelVars, resultVars>>

Service == INSTANCE JobLifecycle

InFlight == {"queued", "running"}
Nothing == [max |-> NoJob, output |-> NoJob]

(* deriveStatus: the label, and whether the job can be cancelled. *)
Derive(s, e) == IF s = "none" THEN "idle"
                ELSE IF s = "running" THEN "generating"
                ELSE IF s = "queued" /\ e # "none" THEN e
                ELSE s

CanCancel(s) == s \in InFlight

RenderStatus == /\ label' = Derive(status', engine')
                /\ locked' = CanCancel(status')

Init == /\ Service!Init
        /\ log = [j \in Jobs |-> <<>>]
        /\ post = [c \in Clicks |-> "unused"]
        /\ job = NoJob
        /\ status = "none"
        /\ engine = "none"
        /\ label = "idle"
        /\ locked = FALSE
        /\ watched = NoJob
        /\ seen = 0
        /\ polls = 1
        /\ anchor = NoJob
        /\ ticking = FALSE
        /\ cancelOf = NoJob
        /\ cancelAt = "none"
        /\ result = NoJob
        /\ loads = {}
        /\ delivered = Nothing
-----------------------------------------------------------------------------
(* The server.  Every change of a job's phase is an event. *)

Logs(j) == log' = [log EXCEPT ![j] = IF phase'[j] = phase[j] THEN @ ELSE Append(@, phase'[j])]

PageStays == UNCHANGED <<job, status, engine, renderVars, watchVars, polls, resultVars>>

JobRuns(j) == /\ \/ Service!Reject(j)
                 \/ Service!Begin(j)
                 \/ Service!Finish(j)
                 \/ Service!Release(j)
              /\ Logs(j)
              /\ UNCHANGED <<post, cancelVars>>
              /\ PageStays

(* The worker ended at an exception that nobody caught (a docker answer    *)
(* that is no object), which it does outside of a call: jobs are taken as  *)
(* before, but none of them gets to the engine.                            *)
WorkerDies == /\ slot = NoJob
              /\ Service!Close
              /\ UNCHANGED <<log, post, cancelVars>>
              /\ PageStays

OthersCancel(j) == /\ Service!Cancel(j)
                   /\ Logs(j)
                   /\ UNCHANGED <<post, cancelVars>>
                   /\ PageStays

ServerAccepts(c) == /\ post[c] = "sent"
                    /\ \E j \in Jobs : /\ Service!Submit(j)
                                       /\ Logs(j)
                                       /\ post' = [post EXCEPT ![c] = j]
                    /\ UNCHANGED cancelVars
                    /\ PageStays

(* A refusal, a request that never arrived or an answer that got lost.     *)
PostGoesWrong(c) == /\ post[c] \in {"sent"} \cup Jobs
                    /\ post' = [post EXCEPT ![c] = "refused"]
                    /\ UNCHANGED <<serviceVars, cancelVars>>
                    /\ PageStays

CancelArrives == /\ cancelAt = "sent"
                 /\ \/ /\ Service!Cancel(cancelOf)
                       /\ Logs(cancelOf)
                       /\ cancelAt' = "confirmed"
                    \/ /\ phase[cancelOf] \in Service!Terminal
                       /\ cancelAt' = "conflict"
                       /\ UNCHANGED serviceVars
                 /\ UNCHANGED <<post, cancelOf>>
                 /\ PageStays
-----------------------------------------------------------------------------
(* submit. *)

Press(c) == /\ ~locked
            /\ post[c] = "unused"
            /\ post' = [post EXCEPT ![c] = "sent"]
            /\ locked' = TRUE
            /\ UNCHANGED <<serviceVars, job, status, engine, label, watchVars, polls,
                           cancelVars, resultVars>>

(* Slip: only an accepted submission unlocks Generate again. *)
PostRefusedStaysLocked(c) == /\ post[c] = "refused"
                             /\ post' = [post EXCEPT ![c] = "over"]
                             /\ UNCHANGED <<serviceVars, cancelVars>>
                             /\ PageStays

PostRefused(c) == /\ post[c] = "refused"
                  /\ post' = [post EXCEPT ![c] = "over"]
                  /\ locked' = FALSE
                  /\ UNCHANGED <<serviceVars, job, status, engine, label, watchVars, polls,
                                 cancelVars, resultVars>>

PollAdded == polls' = IF polls < MaxPolls THEN polls + 1 ELSE polls

(* Slip: the stream of the job before is kept. *)
StartWatchingLate(j) == /\ IF watched = NoJob THEN watched' = j /\ seen' = 0
                                              ELSE UNCHANGED <<watched, seen>>
                        /\ ticking' = FALSE
                        /\ PollAdded

(* Slip: stopWatching leaves the clock alone. *)
StartWatchingTicking(j) == /\ watched' = j
                           /\ seen' = 0
                           /\ UNCHANGED ticking
                           /\ PollAdded

(* startWatching, which begins with stopWatching. *)
StartWatching(j) == /\ watched' = j
                    /\ seen' = 0
                    /\ ticking' = FALSE
                    /\ PollAdded

(* The answer of POST /jobs carries a queued job: nothing is awaited       *)
(* between its creation and its view.                                      *)
PostAccepted(c) == /\ post[c] \in Jobs
                   /\ post' = [post EXCEPT ![c] = "over"]
                   /\ job' = post[c]
                   /\ status' = "queued"
                   /\ engine' = "none"
                   /\ anchor' = NoJob
                   /\ RenderStatus
                   /\ StartWatching(post[c])
                   /\ result' = NoJob
                   /\ delivered' = Nothing
                   /\ UNCHANGED <<serviceVars, cancelVars, loads>>
-----------------------------------------------------------------------------
(* onJobEvent, with onSucceeded up to its await. *)

Succeeds(type) ==
  \/ /\ type = "succeeded"
     /\ result' = job
     /\ loads' = loads \cup {[for |-> watched, max |-> job]}
  \/ /\ type # "succeeded"
     /\ UNCHANGED <<result, loads>>

Clock(type) ==
  /\ anchor' = IF type = "running" /\ anchor = NoJob THEN job ELSE anchor
  /\ ticking' = IF type = "running" THEN TRUE ELSE ticking /\ type \notin Service!Terminal

JobEvent == /\ watched # NoJob
            /\ seen < Len(log[watched])
            /\ seen' = seen + 1
            /\ status' = log[watched][seen']
            /\ watched' = IF status' \in Service!Terminal THEN NoJob ELSE watched
            /\ Clock(status')
            /\ Succeeds(status')
            /\ UNCHANGED engine
            /\ RenderStatus
            /\ UNCHANGED <<serviceVars, post, job, polls, cancelVars, delivered>>

(* Slip: the requested maximum is read after the await. *)
LoadEndsRereading(l) == /\ loads' = loads \ {l}
                        /\ \/ delivered' = [max |-> job, output |-> l.for]
                           \/ delivered' = Nothing
                        /\ UNCHANGED <<serviceVars, post, job, status, engine, renderVars,
                                       watchVars, polls, cancelVars, result>>

(* The rest of onSucceeded: the listing has the job's output, or it could  *)
(* not be fetched.                                                         *)
LoadEnds(l) == /\ loads' = loads \ {l}
               /\ \/ delivered' = [max |-> l.max, output |-> l.for]
                  \/ delivered' = Nothing
               /\ UNCHANGED <<serviceVars, post, job, status, engine, renderVars,
                              watchVars, polls, cancelVars, result>>
-----------------------------------------------------------------------------
(* pollHealth, started by its timer. *)
PollStarts == /\ watched # NoJob
              /\ polls < MaxPolls
              /\ polls' = polls + 1
              /\ UNCHANGED <<serviceVars, post, job, status, engine, renderVars, watchVars,
                             cancelVars, resultVars>>

PollEnds == /\ polls > 0
            /\ polls' = polls - 1
            /\ \/ /\ engine' \in {"none", "warming", "unavailable"}
                  /\ UNCHANGED status
                  /\ RenderStatus
               \/ UNCHANGED <<status, engine, renderVars>>
            /\ UNCHANGED <<serviceVars, post, job, watchVars, cancelVars, resultVars>>
-----------------------------------------------------------------------------
(* cancel. *)

CancelPress == /\ CanCancel(status)
               /\ cancelOf = NoJob
               /\ cancelOf' = job
               /\ cancelAt' = "sent"
               /\ label' = "cancelling"
               /\ UNCHANGED <<serviceVars, post, job, status, engine, locked, watchVars, polls,
                              resultVars>>

CancelLeaves == /\ cancelOf' = NoJob
                /\ cancelAt' = "none"
                /\ UNCHANGED engine
                /\ RenderStatus
                /\ UNCHANGED <<serviceVars, post, job, watchVars, polls, resultVars>>

(* Slip: the answer is taken for whatever job is shown. *)
CancelAnsweredBlindly == /\ cancelAt \in {"confirmed", "conflict"}
                         /\ status' = phase[cancelOf]
                         /\ CancelLeaves

(* A confirmation carries the cancelled view, a conflict is followed by a  *)
(* look at a job that has ended: both are what the job is for good.        *)
CancelAnswered == /\ cancelAt \in {"confirmed", "conflict"}
                  /\ status' = IF job = cancelOf THEN phase[cancelOf] ELSE status
                  /\ CancelLeaves

(* The request or an answer got lost. *)
CancelGoesWrong == /\ cancelAt # "none"
                   /\ UNCHANGED status
                   /\ CancelLeaves
-----------------------------------------------------------------------------
Posting(c) == ServerAccepts(c) \/ PostGoesWrong(c) \/ PostRefused(c) \/ PostAccepted(c)

Next == \/ \E j \in Jobs : JobRuns(j) \/ OthersCancel(j)
        \/ WorkerDies
        \/ \E c \in Clicks : Press(c) \/ Posting(c)
        \/ JobEvent
        \/ \E l \in loads : LoadEnds(l)
        \/ PollStarts
        \/ PollEnds
        \/ CancelPress
        \/ CancelArrives
        \/ CancelAnswered
        \/ CancelGoesWrong

Spec == Init /\ [][Next]_vars

(* Jobs end (EveryJobEnds of JobRunner, whose queue is first in first      *)
(* out), every request is answered or fails, and an open stream delivers.  *)
Fairness == /\ \A j \in Jobs : SF_vars(JobRuns(j))
            /\ \A c \in Clicks : WF_vars(Posting(c))
            /\ WF_vars(JobEvent)

FairSpec == Spec /\ Fairness
-----------------------------------------------------------------------------
(* The types of the service's state and of the page's, and that a stream   *)
(* is read no further than its log.                                        *)
TypeOK == /\ phase \in [Jobs -> Service!Phases]
          /\ slot \in Jobs \cup {NoJob}
          /\ open \in BOOLEAN
          /\ log \in [Jobs -> Seq(Service!Phases)]
          /\ post \in [Clicks -> {"unused", "sent", "refused", "over"} \cup Jobs]
          /\ job \in Jobs \cup {NoJob}
          /\ status \in {"none"} \cup InFlight \cup Service!Terminal
          /\ engine \in {"none", "warming", "unavailable"}
          /\ label \in {"idle", "generating", "queued", "warming", "unavailable",
                        "cancelling"} \cup Service!Terminal
          /\ locked \in BOOLEAN
          /\ watched \in Jobs \cup {NoJob}
          /\ watched # NoJob => seen \in 0 .. Len(log[watched])
          /\ polls \in 0 .. MaxPolls
          /\ anchor \in Jobs \cup {NoJob}
          /\ ticking \in BOOLEAN
          /\ cancelOf \in Jobs \cup {NoJob}
          /\ cancelAt \in {"none", "sent", "confirmed", "conflict"}
          /\ result \in Jobs \cup {NoJob}
          /\ loads \subseteq [for : Jobs, max : Jobs]
          /\ delivered \in [max : Jobs \cup {NoJob}, output : Jobs \cup {NoJob}]

(* The status region never runs ahead of the server, whatever answer of    *)
(* whatever job comes late: an end is shown only once the job has ended    *)
(* that way ("Cancelled shown ONLY after the server confirms"), and only a *)
(* job that has run is shown as generating (INV-1).                        *)
ShownIsTrue == /\ label \in Service!Terminal => phase[job] = label
               /\ label = "generating" => \E i \in DOMAIN log[job] : log[job][i] = "running"

(* A job shown running has its clock running, and a running clock counts   *)
(* from the shown job's own running event, up to that job's last event.    *)
ClockIsTheJobs == /\ status = "running" => ticking
                  /\ ticking => anchor = job /\ watched = job

(* The result shown is the shown job's, and a delivered length is never    *)
(* paired with the maximum that was requested for another job.             *)
ResultIsPaired == /\ result # NoJob => result = job /\ phase[job] = "succeeded"
                  /\ delivered.max = delivered.output

(* Generate comes back as long as the worker lives, and the page always    *)
(* catches up with the job it shows.                                       *)
GenerateComesBack == locked ~> ~locked \/ ~open

PageCatchesUp == \A j \in Jobs : job = j ~> (job # j \/ status = phase[j])

(* "INV-1: no second submit while a job is in flight". *)
OneJobInFlight == \A j, k \in Jobs : phase[j] \in InFlight /\ phase[k] \in InFlight => j = k
=============================================================================
