----------------------------- MODULE JobRunner ------------------------------
(***************************************************************************)
(* The single-slot job runner (api/jobs/runner.py) together with the       *)
(* record store it drives (api/jobs/store.py).                             *)
(*                                                                         *)
(* asyncio runs one coroutine at a time and switches only at an await, so  *)
(* an action is everything between two awaits.  The worker waits in three  *)
(* places (queue.get, ensure_ready and the engine call's child task); HTTP *)
(* handlers call Submit and Cancel between any two of those steps, and the *)
(* app's lifespan calls Start and Stop.                                    *)
(*                                                                         *)
(* The store's to_* functions raise on an illegal source status.  Here     *)
(* Move assigns unconditionally: OnlyLegalMoves checks that the worker     *)
(* never trips those guards, i.e. that the JobTransitionError net of _loop *)
(* is never needed.                                                        *)
(***************************************************************************)
EXTENDS Naturals, Sequences, FiniteSets

CONSTANTS Jobs,     \* the ids JobStore.create can hand out
          NoJob,    \* Python's None for _current
          Persist   \* artifacts_root is configured

ASSUME NoJobAssumption == NoJob \notin Jobs
ASSUME PersistAssumption == Persist \in BOOLEAN

VARIABLES status,     \* [Jobs -> Statuses]: JobStore._jobs[j].status
          log,        \* [Jobs -> Seq of event types]: JobStore._events
          queue,      \* JobRunner._queue
          cancelled,  \* JobRunner._cancelled
          pc,         \* where the worker coroutine is suspended
          hand,       \* _process's local job_id
          current,    \* JobRunner._current
          call,       \* [Jobs -> CallStates]: the engine child task of a job
          flagged,    \* the worker's next resumption raises CancelledError
          leases,     \* readiness leases held
          stopper,    \* JobRunner.stop(): "none", "waiting" or "returned"
          artifacts   \* jobs whose sidecar has been published on disk

storeVars == <<status, log>>
slotVars  == <<pc, hand, current, leases>>
vars == <<status, log, queue, cancelled, pc, hand, current, call, flagged,
          leases, stopper, artifacts>>

Terminal == {"succeeded", "failed", "cancelled"}
Statuses == {"absent", "queued", "running"} \cup Terminal

(* A child task runs, has been asked to unwind, or is done. *)
Live == {"active", "cancelling"}
Done == {"ok", "error", "aborted"}
CallStates == {"none"} \cup Live \cup Done

Init == /\ status = [j \in Jobs |-> "absent"]
        /\ log = [j \in Jobs |-> <<>>]
        /\ queue = <<>>
        /\ cancelled = {}
        /\ pc = "off"
        /\ hand = NoJob
        /\ current = NoJob
        /\ call = [j \in Jobs |-> "none"]
        /\ flagged = FALSE
        /\ leases = 0
        /\ stopper = "none"
        /\ artifacts = {}
-----------------------------------------------------------------------------
(* The store: an update and the event every caller appends right after it. *)

Emit(j, e) == log' = [log EXCEPT ![j] = Append(@, e)]

Move(j, s) == /\ status' = [status EXCEPT ![j] = s]
              /\ Emit(j, s)

(* Slip: _ensure_cancelled without its terminal check. *)
EnsureCancelledTwice(j) == Move(j, "cancelled")

(* _ensure_cancelled: a no-op when cancel() already moved the record. *)
EnsureCancelled(j) == IF status[j] \in Terminal
                      THEN UNCHANGED storeVars
                      ELSE Move(j, "cancelled")
-----------------------------------------------------------------------------
(* What HTTP handlers and the lifespan call.  None of these awaits before  *)
(* its last state change.                                                  *)

Submit(j) == /\ status[j] = "absent"
             /\ Move(j, "queued")
             /\ queue' = Append(queue, j)
             /\ UNCHANGED <<cancelled, call, flagged, stopper, artifacts, slotVars>>

(* Task.cancel() on the engine call: a finished task ignores it. *)
Aborted(c) == IF c = "active" THEN "cancelling" ELSE c

(* Slip: cancel() looks for the call of a queued job. *)
AbortsQueuedCall(j) == status[j] = "queued" /\ current = j

AbortsCall(j) == status[j] = "running" /\ current = j

(* A terminal job is answered with 409 and nothing changes. *)
Cancel(j) == /\ status[j] \in {"queued", "running"}
             /\ cancelled' = cancelled \cup {j}
             /\ call' = IF AbortsCall(j)
                        THEN [call EXCEPT ![j] = Aborted(@)] ELSE call
             /\ Move(j, "cancelled")
             /\ UNCHANGED <<queue, flagged, stopper, artifacts, slotVars>>

Start == /\ pc = "off"
         /\ pc' = "idle"
         /\ UNCHANGED <<queue, cancelled, hand, current, call, flagged, leases,
                        stopper, artifacts, storeVars>>

(* worker.cancel(): while the worker awaits a child that is not done, the  *)
(* cancellation is handed to the child and the worker itself is not        *)
(* marked; in every other suspension the worker's resumption raises.       *)
AwaitsLiveCall == pc = "engine" /\ call[hand] \in Live

Stop == /\ pc \in {"idle", "gate", "engine"}
        /\ stopper = "none"
        /\ stopper' = "waiting"
        /\ flagged' = ~AwaitsLiveCall
        /\ call' = IF AwaitsLiveCall
                   THEN [call EXCEPT ![hand] = Aborted(@)] ELSE call
        /\ UNCHANGED <<queue, cancelled, artifacts, slotVars, storeVars>>

(* Slip: stop() cancels the worker and does not wait for it. *)
StopReturnsAtOnce == /\ stopper = "waiting"
                     /\ stopper' = "returned"
                     /\ UNCHANGED <<queue, cancelled, call, flagged, artifacts,
                                    slotVars, storeVars>>

StopReturns == /\ stopper = "waiting"
               /\ pc = "done"
               /\ stopper' = "returned"
               /\ UNCHANGED <<queue, cancelled, call, flagged, artifacts,
                              slotVars, storeVars>>
-----------------------------------------------------------------------------
(* The engine call of the running job, as its child task sees it. *)

CallEnds(j) == /\ call[j] = "active"
               /\ \E c \in {"ok", "error"} : call' = [call EXCEPT ![j] = c]
               /\ UNCHANGED <<queue, cancelled, flagged, stopper, artifacts,
                              slotVars, storeVars>>

(* generate() lets CancelledError through: the connection is dropped. *)
CallUnwinds(j) == /\ call[j] = "cancelling"
                  /\ call' = [call EXCEPT ![j] = "aborted"]
                  /\ UNCHANGED <<queue, cancelled, flagged, stopper, artifacts,
                                 slotVars, storeVars>>
-----------------------------------------------------------------------------
(* The worker. *)

(* Slip: _cancelled is consulted only when a job leaves the queue. *)
CancelPendingAtTake(j) == j \in cancelled /\ pc = "idle"

CancelPending(j) == j \in cancelled

(* Slip: the finally clause forgets _current. *)
BackKeepingCurrent == /\ pc' = "idle"
                      /\ hand' = NoJob
                      /\ UNCHANGED current

(* Back in _loop, with the finally clause of _process executed. *)
BackToQueue == /\ pc' = "idle"
               /\ hand' = NoJob
               /\ current' = NoJob

(* queue.get() hands over a job nobody cancelled: ask for readiness. *)
Take == /\ pc = "idle"
        /\ ~flagged
        /\ queue # <<>>
        /\ ~CancelPending(Head(queue))
        /\ queue' = Tail(queue)
        /\ hand' = Head(queue)
        /\ pc' = "gate"
        /\ UNCHANGED <<cancelled, current, call, flagged, leases, stopper,
                       artifacts, storeVars>>

(* ... or one cancelled while it was queued: never touch the engine. *)
Skip == /\ pc = "idle"
        /\ ~flagged
        /\ queue # <<>>
        /\ CancelPending(Head(queue))
        /\ queue' = Tail(queue)
        /\ EnsureCancelled(Head(queue))
        /\ UNCHANGED <<cancelled, call, flagged, stopper, artifacts, slotVars>>

(* ensure_ready() returned but the job was cancelled meanwhile. *)
GateCancelled == /\ pc = "gate"
                 /\ ~flagged
                 /\ CancelPending(hand)
                 /\ EnsureCancelled(hand)
                 /\ BackToQueue
                 /\ UNCHANGED <<queue, cancelled, call, flagged, leases,
                                stopper, artifacts>>

(* Slip: a job whose engine is not ready is dropped without a failure. *)
GateForgets == /\ pc = "gate"
               /\ ~flagged
               /\ ~CancelPending(hand)
               /\ BackToQueue
               /\ UNCHANGED <<queue, cancelled, call, flagged, leases,
                              stopper, artifacts, storeVars>>

(* ensure_ready() returned WARMING or UNAVAILABLE. *)
GateNotReady == /\ pc = "gate"
                /\ ~flagged
                /\ ~CancelPending(hand)
                /\ Move(hand, "failed")
                /\ BackToQueue
                /\ UNCHANGED <<queue, cancelled, call, flagged, leases,
                               stopper, artifacts>>

(* ensure_ready() returned READY: mark running, create the child, take the *)
(* lease and await the child, all without an intermediate await.           *)
Dispatch == /\ pc = "gate"
            /\ ~flagged
            /\ ~CancelPending(hand)
            /\ Move(hand, "running")
            /\ current' = hand
            /\ call' = [call EXCEPT ![hand] = "active"]
            /\ leases' = leases + 1
            /\ pc' = "engine"
            /\ UNCHANGED <<queue, cancelled, hand, flagged, stopper, artifacts>>

(* What the await of the child raises or returns. *)
Outcome == IF flagged THEN "aborted" ELSE call[hand]

(* Slip: the worker moves on while a cancelled call is still unwinding. *)
ResumeWithoutWaiting == /\ pc = "engine"
                        /\ call[hand] \in Done \cup {"cancelling"}
                        /\ leases' = leases - 1
                        /\ flagged' = FALSE
                        /\ UNCHANGED <<queue, cancelled, call, stopper>>

(* Slip: the lease is released on success and failure only. *)
ResumeLeakingLease == /\ pc = "engine"
                      /\ call[hand] \in Done
                      /\ leases' = IF Outcome = "aborted" THEN leases ELSE leases - 1
                      /\ flagged' = FALSE
                      /\ UNCHANGED <<queue, cancelled, call, stopper>>

(* The child is done and the worker resumes: the lease is released on      *)
(* every path.                                                             *)
Resume == /\ pc = "engine"
          /\ call[hand] \in Done
          /\ leases' = leases - 1
          /\ flagged' = FALSE
          /\ UNCHANGED <<queue, cancelled, call, stopper>>

(* CancelledError, EngineError or a result, for a job in _cancelled.       *)
ResumeCancelled == /\ Resume
                   /\ CancelPending(hand)
                   /\ EnsureCancelled(hand)
                   /\ BackToQueue
                   /\ UNCHANGED artifacts

(* EngineError: the engine's one documented failure. *)
ResumeFailed == /\ Resume
                /\ Outcome = "error"
                /\ ~CancelPending(hand)
                /\ Move(hand, "failed")
                /\ BackToQueue
                /\ UNCHANGED artifacts

(* Slip: the success branch does not look at _cancelled again. *)
ResumeSucceededBlindly == /\ Resume
                          /\ Outcome = "ok"
                          /\ artifacts' = IF Persist THEN artifacts \cup {hand}
                                          ELSE artifacts
                          /\ Move(hand, "succeeded")
                          /\ BackToQueue

(* A result: persist it first when a root is configured, then succeed. *)
ResumeSucceeded == /\ Resume
                   /\ Outcome = "ok"
                   /\ ~CancelPending(hand)
                   /\ artifacts' = IF Persist THEN artifacts \cup {hand}
                                   ELSE artifacts
                   /\ Move(hand, "succeeded")
                   /\ BackToQueue

(* Slip: a failed write is logged and the job succeeds. *)
ResumeIgnoringWriteError == /\ Resume
                            /\ Outcome = "ok"
                            /\ ~CancelPending(hand)
                            /\ Persist
                            /\ artifacts' \in {artifacts, artifacts \cup {hand}}
                            /\ Move(hand, "succeeded")
                            /\ BackToQueue

(* ... or fail when write_artifact raises, before or after its sidecar was *)
(* renamed into place (the directory fsync comes last).                    *)
ResumeWriteFails == /\ Resume
                    /\ Outcome = "ok"
                    /\ ~CancelPending(hand)
                    /\ Persist
                    /\ artifacts' \in {artifacts, artifacts \cup {hand}}
                    /\ Move(hand, "failed")
                    /\ BackToQueue

(* CancelledError for a job nobody cancelled: worker teardown.  The record *)
(* keeps the status it has.                                                *)
ResumeTeardown == /\ Resume
                  /\ Outcome = "aborted"
                  /\ ~CancelPending(hand)
                  /\ pc' = "done"
                  /\ hand' = NoJob
                  /\ current' = NoJob
                  /\ UNCHANGED <<artifacts, storeVars>>

(* CancelledError out of queue.get() or ensure_ready(). *)
Teardown == /\ pc \in {"idle", "gate"}
            /\ flagged
            /\ flagged' = FALSE
            /\ pc' = "done"
            /\ hand' = NoJob
            /\ UNCHANGED <<queue, cancelled, current, call, leases, stopper,
                           artifacts, storeVars>>

(* ensure_ready() raised: parse_container_state met an answer it does not  *)
(* understand.  _loop catches JobTransitionError only, so the worker ends. *)
GateRaises == /\ pc = "gate"
              /\ ~flagged
              /\ pc' = "done"
              /\ hand' = NoJob
              /\ UNCHANGED <<queue, cancelled, current, call, flagged, leases,
                             stopper, artifacts, storeVars>>

Gate == GateCancelled \/ GateNotReady \/ GateRaises \/ Dispatch

ResumeAny == \/ ResumeCancelled
             \/ ResumeFailed
             \/ ResumeSucceeded
             \/ ResumeWriteFails
             \/ ResumeTeardown

Worker == Take \/ Skip \/ Gate \/ ResumeAny \/ Teardown

Next == \/ \E j \in Jobs : Submit(j) \/ Cancel(j) \/ CallEnds(j) \/ CallUnwinds(j)
        \/ Start
        \/ Stop
        \/ StopReturns
        \/ Worker

Spec == Init /\ [][Next]_vars

(***************************************************************************)
(* The event loop runs every coroutine that can proceed; ensure_ready is   *)
(* bounded by the readiness budget and generate by the HTTP client's       *)
(* timeout.  Nothing obliges a caller to submit, cancel, start or stop.    *)
(***************************************************************************)
Fairness == /\ WF_vars(Take \/ Skip)
            /\ WF_vars(Gate)
            /\ WF_vars(ResumeAny)
            /\ WF_vars(Teardown)
            /\ WF_vars(StopReturns)
            /\ \A j \in Jobs : WF_vars(CallEnds(j) \/ CallUnwinds(j))

FairSpec == Spec /\ Fairness
-----------------------------------------------------------------------------
(* The types of the records, the queue, the worker's place and the calls. *)
TypeOK == /\ status \in [Jobs -> Statuses]
          /\ log \in [Jobs -> Seq(Statuses)]
          /\ queue \in Seq(Jobs)
          /\ cancelled \subseteq Jobs
          /\ pc \in {"off", "idle", "gate", "engine", "done"}
          /\ hand \in Jobs \cup {NoJob}
          /\ current \in Jobs \cup {NoJob}
          /\ call \in [Jobs -> CallStates]
          /\ flagged \in BOOLEAN
          /\ leases \in Nat
          /\ stopper \in {"none", "waiting", "returned"}
          /\ artifacts \subseteq Jobs

(* INV-1: at most one engine call exists, unwinding ones included, and it  *)
(* is the one the worker awaits and cancel() can reach through _current.   *)
OneSlot == \A j \in Jobs : call[j] \in Live => pc = "engine" /\ current = j

(* What a progress stream shows agrees with the record at every instant:   *)
(* one terminal event, last, and a running event only after dispatch.      *)
Story(s) ==
  CASE s = "absent"    -> {<<>>}
    [] s = "queued"    -> {<<"queued">>}
    [] s = "running"   -> {<<"queued", "running">>}
    [] s = "succeeded" -> {<<"queued", "running", "succeeded">>}
    [] OTHER           -> {<<"queued", s>>, <<"queued", "running", s>>}

(* The retained events of a job are the history of its record: submit,     *)
(* cancel and every worker branch pair their update with its event.        *)
EventsMatchRecord == \A j \in Jobs : log[j] \in Story(status[j])

(* Cancelling a running job never leaves its engine call working for       *)
(* nobody: the call is unwinding or over (runner.py's cancel-no-orphan).   *)
NoOrphanCall == \A j \in Jobs : status[j] = "cancelled" => call[j] # "active"

(* The readiness lease is held for as long as an engine call exists and is *)
(* given back on success, failure, cancel and teardown alike.              *)
LeaseCoversCall == /\ \A j \in Jobs : call[j] \in Live => leases = 1
                   /\ current = NoJob => leases = 0

(* With a root configured a succeeded record has its artifact, and an      *)
(* artifact belongs to a job that succeeded or failed after publishing it, *)
(* never to a cancelled or unfinished one.                                 *)
ArtifactsMatchRecords ==
  /\ Persist => \A j \in Jobs : status[j] = "succeeded" => j \in artifacts
  /\ \A j \in artifacts : status[j] \in {"succeeded", "failed"}

(* The guards of to_running, to_succeeded, to_failed and to_cancelled.     *)
Legal(s, t) == \/ s = "absent"  /\ t = "queued"
               \/ s = "queued"  /\ t = "running"
               \/ s = "running" /\ t = "succeeded"
               \/ s \in {"queued", "running"} /\ t \in {"failed", "cancelled"}

(* No step attempts a transition the store refuses: the JobTransitionError *)
(* net of _loop is never needed, whichever way cancels race the worker.    *)
OnlyLegalMoves == [][\A j \in Jobs : log'[j] # log[j] => Legal(status[j], status'[j])]_vars

(* Once cancel() accepted a job it never starts an engine call and never   *)
(* gains an artifact, wherever the worker was at that moment.              *)
CancelIsFinal == [][\A j \in cancelled : /\ call'[j] = "active" => call[j] = "active"
                                         /\ j \in artifacts' => j \in artifacts]_vars

(* Every accepted job ends unless the worker is off, died of an exception  *)
(* nobody expected or the service is being stopped (R-18): no failure,     *)
(* cancel or race wedges the one worker.                                   *)
EveryJobEnds == \A j \in Jobs :
  status[j] = "queued" ~> status[j] \in Terminal \/ pc \in {"off", "done"} \/ stopper # "none"

(* "Cancel the worker (and any in-flight engine call) and wait for it to   *)
(* unwind": stop() returns.                                                *)
StopReturnsEventually == stopper = "waiting" ~> stopper = "returned"

(* The runner implements the service's promise about jobs. *)
Lifecycle == INSTANCE JobLifecycle
               WITH phase <- status, slot <- current, open <- pc # "done"

(* Every behaviour of the runner, seen through its records, the slot and   *)
(* whether the worker still runs, is one of the abstract service.          *)
ImplementsLifecycle == Lifecycle!Spec
=============================================================================
