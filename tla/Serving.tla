------------------------------ MODULE Serving -------------------------------
(***************************************************************************)
(* The job runner and the readiness gate as main.py composes them: one     *)
(* event loop, the worker as the only caller of ensure_ready and lease,    *)
(* one idle loop, one engine container.                                    *)
(*                                                                         *)
(* A step is a step of JobRunner, of Readiness, or of both at once where   *)
(* the worker goes into ensure_ready, comes out of it, or ends a lease:    *)
(* leases is one variable of both.  What either module leaves open about   *)
(* the other (when the gate answers, whether a lease is honoured, who      *)
(* still calls at aclose) is decided here by the other's code.             *)
(***************************************************************************)
EXTENDS Naturals, Sequences, FiniteSets

CONSTANTS Jobs, NoJob, Persist,    \* of JobRunner
          WorkerTask,              \* the one coroutine that calls ensure_ready
          Idle, Faults             \* of Readiness

VARIABLES status, log, queue, cancelled, pc, hand, current, call, flagged,
          stopper, artifacts,                    \* of JobRunner
          leases,                                \* of both
          gate,                                  \* pc of Readiness
          idlePc, lock, cached, idleDue, late, cause, answer, engine, stopping

runnerVars == <<status, log, queue, cancelled, pc, hand, current, call,
                flagged, stopper, artifacts>>
gateVars == <<gate, idlePc, lock, cached, idleDue, late, cause, answer,
              engine, stopping>>
vars == <<runnerVars, leases, gateVars>>

J == INSTANCE JobRunner
R == INSTANCE Readiness WITH Callers <- {WorkerTask}, pc <- gate

ASSUME RunnerAssumption == NoJob \notin Jobs /\ Persist \in BOOLEAN
ASSUME GateAssumption == Idle # WorkerTask /\ Faults \subseteq R!AllFaults

Init == J!Init /\ R!Init

RunnerOnly(A) == A /\ UNCHANGED <<leases, gateVars>>
GateOnly(A) == A /\ UNCHANGED <<leases, runnerVars>>
-----------------------------------------------------------------------------
(* The lifespan: start the worker and arm the idle loop in one go; stop    *)
(* the worker, wait for it, and only then close the readiness gate.        *)

StartUp == /\ J!Start
           /\ IF idlePc = "off" THEN R!StartIdleMonitor ELSE UNCHANGED gateVars

ShutDown == stopper = "returned" /\ GateOnly(R!Close)
-----------------------------------------------------------------------------
(* The worker inside ensure_ready. *)

AtGate == pc = "gate" /\ ~flagged

(* It asks, or goes from one await of ensure_ready to the next. *)
Asks == /\ AtGate
        /\ GateOnly(R!QueueForLock(WorkerTask) \/ R!InLock(WorkerTask))
        /\ gate'[WorkerTask] \in {"waiting"} \cup R!Driving

(* READY: the job takes the lease, unless it was cancelled meanwhile. *)
Admitted == /\ AtGate
            /\ \/ R!FastPath(WorkerTask)
               \/ R!AlreadyUp(WorkerTask)
               \/ R!ProbeReady(WorkerTask)
            /\ J!Dispatch \/ J!GateCancelled

Refused == /\ AtGate
           /\ \/ R!ProbeOnly(WorkerTask)
              \/ R!StatusAbsent(WorkerTask)
              \/ R!ControllerFails(WorkerTask)
              \/ R!PollGivesUp(WorkerTask)
           /\ J!GateNotReady \/ J!GateCancelled

WorkerDies == R!StatusMalformed(WorkerTask) /\ J!GateRaises

(* stop() while the worker waits for the gate: the cancellation unwinds    *)
(* ensure_ready, which gives the lock back.                                *)
TornDown == /\ J!Teardown
            /\ IF gate[WorkerTask] = "out" THEN UNCHANGED gateVars ELSE R!Abandon(WorkerTask)

(* The engine call is over: the lease ends with it. *)
Resumes == J!ResumeAny /\ R!Release(WorkerTask)

(* A result comes from an engine that serves. *)
CallEnds(j) == /\ RunnerOnly(J!CallEnds(j) \/ J!CallUnwinds(j))
               /\ call'[j] = "ok" => engine = "serving"
-----------------------------------------------------------------------------
Picks == RunnerOnly(J!Take \/ J!Skip)

Enters == Asks \/ Admitted \/ Refused \/ WorkerDies

Returns == RunnerOnly(J!StopReturns)

IdleLoop == GateOnly(R!IdleStep)

TimePasses == GateOnly(R!CacheExpires \/ R!IdleElapses \/ R!DeadlinePasses)

EngineMoves == GateOnly(R!EngineLoads \/ R!EngineCrashes \/ R!StopLands)

Next == \/ \E j \in Jobs : RunnerOnly(J!Submit(j) \/ J!Cancel(j)) \/ CallEnds(j)
        \/ StartUp
        \/ RunnerOnly(J!Stop)
        \/ Returns
        \/ ShutDown
        \/ Picks
        \/ Enters
        \/ TornDown
        \/ Resumes
        \/ IdleLoop
        \/ TimePasses
        \/ EngineMoves

Spec == Init /\ [][Next]_vars

(***************************************************************************)
(* Coroutines that can proceed do, every HTTP call ends at its timeout,    *)
(* time passes and the daemon carries out a stop it accepted.  The engine  *)
(* need not load, serve or stay up, and no caller need do anything.        *)
(***************************************************************************)
Fairness == /\ WF_vars(Picks)
            /\ WF_vars(Enters)
            /\ WF_vars(TornDown)
            /\ WF_vars(Resumes)
            /\ WF_vars(Returns)
            /\ \A j \in Jobs : WF_vars(CallEnds(j))
            /\ WF_vars(IdleLoop)
            /\ WF_vars(GateOnly(R!CacheExpires))
            /\ WF_vars(GateOnly(R!IdleElapses))
            /\ WF_vars(GateOnly(R!DeadlinePasses))
            /\ WF_vars(GateOnly(R!StopLands))

FairSpec == Spec /\ Fairness
-----------------------------------------------------------------------------
(* The promise of the two modules together: for as long as an engine call  *)
(* exists, one that is being aborted included, the container is up and no  *)
(* stop is on its way ("idle-down can never stop the container while a     *)
(* generation is in flight", runner.py).                                   *)
CallKeepsEngine == \A j \in Jobs : call[j] \in J!Live => engine \in R!Up /\ ~stopping

(* When stop() has returned nothing of the worker is left for aclose() to  *)
(* trip over: no engine call, no lease, no place in the readiness lock.    *)
StopLeavesNothing == stopper = "returned" =>
  /\ \A j \in Jobs : call[j] \notin J!Live
  /\ leases = 0
  /\ gate[WorkerTask] = "out"
  /\ \A i \in DOMAIN lock : lock[i] # WorkerTask

(* The runner keeps its whole specification here, its fairness included:   *)
(* what JobRunner assumes of ensure_ready (that it returns) is what the    *)
(* gate does, whatever the engine, the container and the idle loop do.     *)
ImplementsRunner == J!FairSpec

(* The GPU is freed in the end: the jobs are finitely many, and while the  *)
(* idle loop runs and its docker calls do not fail for ever, the engine    *)
(* goes down again and again, even when the worker has died.               *)
GpuIsFreed == <>[](idlePc \in {"sleeping", "waiting", "asking", "stopping"})
                => []<>(engine \notin R!Up) \/ []<><<IdleLoop /\ R!IdleFails>>_vars
=============================================================================
