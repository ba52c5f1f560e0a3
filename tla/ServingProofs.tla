--------------------------- MODULE ServingProofs ----------------------------
(***************************************************************************)
(* What the composition guarantees for any set of jobs.  Every step of     *)
(* Serving is a step of each of its two modules, so the invariants proved  *)
(* for either of them hold here, on one and the same variable leases; Link *)
(* is what only the composition can say.                                   *)
(***************************************************************************)
EXTENDS Serving, FiniteSetTheorems, TLAPS

JP == INSTANCE JobRunnerProofs
RP == INSTANCE ReadinessProofs WITH Callers <- {WorkerTask}, pc <- gate

(* The two modules' places of the one coroutine agree. *)
Link == /\ gate[WorkerTask] = "leased" => pc = "engine"
        /\ gate[WorkerTask] \in {"waiting"} \cup R!Driving => pc = "gate"
        /\ stopper = "returned" => pc = "done"

IInv == JP!IInv /\ RP!IInv /\ Link
-----------------------------------------------------------------------------
(* The modules of proofs speak of the modules they extend. *)

LEMMA OneCaller == RP!IsFiniteSet({WorkerTask})
  BY FS_Singleton DEF RP!IsFiniteSet, IsFiniteSet

LEMMA SameRunner == J!Next <=> JP!Next
  BY DEF J!Terminal, JP!Terminal, J!Statuses, JP!Statuses, J!Live, JP!Live,
         J!Done, JP!Done, J!CallStates, JP!CallStates, J!Emit, JP!Emit,
         J!Move, JP!Move, J!EnsureCancelled, JP!EnsureCancelled,
         J!Submit, JP!Submit, J!Aborted, JP!Aborted, J!AbortsCall, JP!AbortsCall,
         J!Cancel, JP!Cancel, J!Start, JP!Start, J!AwaitsLiveCall, JP!AwaitsLiveCall,
         J!Stop, JP!Stop, J!StopReturns, JP!StopReturns, J!CallEnds, JP!CallEnds,
         J!CallUnwinds, JP!CallUnwinds, J!CancelPending, JP!CancelPending,
         J!BackToQueue, JP!BackToQueue, J!Take, JP!Take, J!Skip, JP!Skip,
         J!GateCancelled, JP!GateCancelled, J!GateNotReady, JP!GateNotReady,
         J!Dispatch, JP!Dispatch, J!Outcome, JP!Outcome, J!Resume, JP!Resume,
         J!ResumeCancelled, JP!ResumeCancelled, J!ResumeFailed, JP!ResumeFailed,
         J!ResumeSucceeded, JP!ResumeSucceeded, J!ResumeWriteFails, JP!ResumeWriteFails,
         J!ResumeTeardown, JP!ResumeTeardown, J!Teardown, JP!Teardown,
         J!GateRaises, JP!GateRaises, J!Gate, JP!Gate, J!ResumeAny, JP!ResumeAny,
         J!Worker, JP!Worker, J!Next, JP!Next, J!storeVars, JP!storeVars,
         J!slotVars, JP!slotVars

LEMMA SameGate == R!Next <=> RP!Next
  BY DEF R!AllFaults, RP!AllFaults, R!Driving, RP!Driving, R!Up, RP!Up,
         R!Holds, RP!Holds, R!Place, RP!Place, R!Leave, RP!Leave,
         R!Managed, RP!Managed, R!ArmIdle, RP!ArmIdle, R!GoOn, RP!GoOn,
         R!Ready, RP!Ready, R!NotReady, RP!NotReady, R!Proceed, RP!Proceed,
         R!FastPath, RP!FastPath, R!QueueForLock, RP!QueueForLock,
         R!AlreadyUp, RP!AlreadyUp, R!Drive, RP!Drive, R!Classified, RP!Classified,
         R!ProbeReady, RP!ProbeReady, R!ProbeOnly, RP!ProbeOnly,
         R!ProbeThenAsk, RP!ProbeThenAsk, R!StatusAbsent, RP!StatusAbsent,
         R!StatusStopped, RP!StatusStopped, R!StatusRunning, RP!StatusRunning,
         R!Started, RP!Started, R!MayHaveStarted, RP!MayHaveStarted,
         R!StartSucceeds, RP!StartSucceeds, R!ControllerFails, RP!ControllerFails,
         R!StatusMalformed, RP!StatusMalformed, R!PollGivesUp, RP!PollGivesUp,
         R!Release, RP!Release, R!Abandon, RP!Abandon,
         R!StartIdleMonitor, RP!StartIdleMonitor, R!IdleMove, RP!IdleMove,
         R!IdleWakes, RP!IdleWakes, R!IdleAsks, RP!IdleAsks,
         R!ShouldIdleDown, RP!ShouldIdleDown, R!IdleRefrains, RP!IdleRefrains,
         R!IdleStatusFails, RP!IdleStatusFails, R!IdleDies, RP!IdleDies,
         R!IdleStops, RP!IdleStops, R!IdleStopDone, RP!IdleStopDone,
         R!IdleStopFails, RP!IdleStopFails, R!Close, RP!Close, R!World, RP!World,
         R!CacheExpires, RP!CacheExpires, R!IdleElapses, RP!IdleElapses,
         R!DeadlinePasses, RP!DeadlinePasses, R!EngineLoads, RP!EngineLoads,
         R!EngineCrashes, RP!EngineCrashes, R!StopLands, RP!StopLands,
         R!InLock, RP!InLock, R!CallerStep, RP!CallerStep, R!IdleStep, RP!IdleStep,
         R!Next, RP!Next, R!worldVars, RP!worldVars
-----------------------------------------------------------------------------
(* Every step of the composition is one of the runner, or none of its      *)
(* variables moves.                                                        *)
LEMMA RunnerStep == [Next]_vars => [J!Next]_(J!vars)
<1> SUFFICES ASSUME [Next]_vars PROVE [J!Next]_(J!vars)
  OBVIOUS
<1>1. ASSUME NEW j \in Jobs, RunnerOnly(J!Submit(j) \/ J!Cancel(j)) \/ CallEnds(j)
      PROVE  J!Next
  BY <1>1 DEF RunnerOnly, CallEnds, J!Next
<1>2. CASE StartUp \/ RunnerOnly(J!Stop) \/ Returns \/ Picks \/ TornDown \/ Resumes
  BY <1>2 DEF StartUp, RunnerOnly, Returns, Picks, TornDown, Resumes, J!Next, J!Worker
<1>3. CASE Admitted \/ Refused \/ WorkerDies
  BY <1>3 DEF Admitted, Refused, WorkerDies, J!Next, J!Worker, J!Gate
<1>4. CASE Asks \/ ShutDown \/ IdleLoop \/ TimePasses \/ EngineMoves
  BY <1>4 DEF Asks, ShutDown, IdleLoop, TimePasses, EngineMoves, GateOnly, runnerVars, J!vars
<1>5. CASE UNCHANGED vars
  BY <1>5 DEF vars, runnerVars, J!vars
<1> QED
  BY <1>1, <1>2, <1>3, <1>4, <1>5 DEF Next, Enters

(* ... and one of the readiness gate, or none of its variables moves.      *)
LEMMA GateStep == [Next]_vars => [R!Next]_(R!vars)
<1> SUFFICES ASSUME [Next]_vars PROVE [R!Next]_(R!vars)
  OBVIOUS
<1>1. ASSUME NEW j \in Jobs, RunnerOnly(J!Submit(j) \/ J!Cancel(j)) \/ CallEnds(j)
      PROVE  UNCHANGED R!vars
  BY <1>1 DEF RunnerOnly, CallEnds, gateVars, R!vars
<1>2. CASE RunnerOnly(J!Stop) \/ Returns \/ Picks
  BY <1>2 DEF RunnerOnly, Returns, Picks, gateVars, R!vars
<1>3. CASE StartUp
  <2>1. UNCHANGED leases
    BY <1>3 DEF StartUp, J!Start
  <2> QED
    BY <1>3, <2>1 DEF StartUp, gateVars, R!vars, R!Next
<1>4. CASE TornDown
  <2>1. UNCHANGED leases
    BY <1>4 DEF TornDown, J!Teardown
  <2> QED
    BY <1>4, <2>1 DEF TornDown, gateVars, R!vars, R!Next, R!CallerStep
<1>5. CASE Enters \/ Resumes
  BY <1>5 DEF Enters, Asks, Admitted, Refused, WorkerDies, Resumes, GateOnly,
              R!Next, R!CallerStep, R!InLock
<1>6. CASE ShutDown \/ IdleLoop \/ TimePasses \/ EngineMoves
  BY <1>6 DEF ShutDown, IdleLoop, TimePasses, EngineMoves, GateOnly, R!Next
<1>7. CASE UNCHANGED vars
  BY <1>7 DEF vars, gateVars, R!vars
<1> QED
  BY <1>1, <1>2, <1>3, <1>4, <1>5, <1>6, <1>7 DEF Next

(* The composition's runner is the runner and its gate the gate: what      *)
(* either module says of all its behaviours holds of the two together.     *)
THEOREM RunnerInService == Spec => J!Spec
<1>1. Init => J!Init
  BY DEF Init
<1> QED
  BY <1>1, RunnerStep, PTL DEF Spec, J!Spec

(* The readiness gate keeps its specification while the worker is its only *)
(* caller and the lifespan its only closer.                                *)
THEOREM GateInService == Spec => R!Spec
<1>1. Init => R!Init
  BY DEF Init
<1> QED
  BY <1>1, GateStep, PTL DEF Spec, R!Spec

LEMMA RunnerBehaves == Spec => JP!Spec
<1>1. Init => JP!Init
  BY DEF Init, J!Init, JP!Init
<1>2. [Next]_vars => [JP!Next]_(JP!vars)
  BY RunnerStep, SameRunner DEF J!vars, JP!vars
<1> QED
  BY <1>1, <1>2, PTL DEF Spec, JP!Spec

LEMMA GateBehaves == Spec => RP!Spec
<1>1. Init => RP!Init
  BY DEF Init, R!Init, RP!Init, R!Configurations, RP!Configurations, R!Up, RP!Up
<1>2. [Next]_vars => [RP!Next]_(RP!vars)
  BY GateStep, SameGate DEF R!vars, RP!vars
<1> QED
  BY <1>1, <1>2, PTL DEF Spec, RP!Spec

LEMMA GateFacts == Idle \notin {WorkerTask} /\ Faults \subseteq RP!AllFaults
  BY GateAssumption DEF R!AllFaults, RP!AllFaults

LEMMA RunnerInvariance == Spec => []JP!IInv
  BY RunnerBehaves, RunnerAssumption, JP!Invariance, PTL

LEMMA GateInvariance == Spec => []RP!IInv
  BY GateBehaves, OneCaller, GateFacts, RP!Invariance, PTL
-----------------------------------------------------------------------------
(* What the type of the gate says of its one caller. *)
LEMMA GateType ==
  ASSUME RP!IInv
  PROVE  gate \in [{WorkerTask} -> RP!CallerStates]
  BY DEF RP!IInv, RP!TypeOK

(* A place of the gate that is not "leased" when the lease count stands    *)
(* still, for the steps of ensure_ready that may take the lease.           *)
LEMMA LinkStep == RP!IInv /\ RP!IInv' /\ JP!IInv /\ Link /\ [Next]_vars => Link'
<1> SUFFICES ASSUME RP!IInv, RP!IInv', JP!IInv, Link, [Next]_vars PROVE Link'
  OBVIOUS
<1>t. gate \in [{WorkerTask} -> RP!CallerStates] /\ gate' \in [{WorkerTask} -> RP!CallerStates]
  BY DEF RP!IInv, RP!TypeOK
<1>n. leases \in Nat
  BY DEF JP!IInv, JP!TypeOK
<1> USE DEF Link
<1>1. ASSUME NEW j \in Jobs, RunnerOnly(J!Submit(j) \/ J!Cancel(j)) \/ CallEnds(j)
      PROVE  Link'
  BY <1>1 DEF RunnerOnly, CallEnds, gateVars, J!Submit, J!Cancel, J!CallEnds, J!CallUnwinds,
              J!slotVars
<1>2. CASE RunnerOnly(J!Stop) \/ Returns
  BY <1>2 DEF RunnerOnly, Returns, gateVars, J!Stop, J!StopReturns, J!slotVars
<1>3. CASE StartUp
  <2>1. gate' = gate
    BY <1>3 DEF StartUp, gateVars, R!StartIdleMonitor
  <2> QED
    BY <1>3, <2>1 DEF StartUp, J!Start
<1>4. CASE Picks
  BY <1>4 DEF Picks, RunnerOnly, gateVars, J!Take, J!Skip, J!slotVars
<1>5. CASE Asks
  <2>1. pc = "gate" /\ UNCHANGED <<pc, stopper>> /\ gate'[WorkerTask] # "leased"
    BY <1>5 DEF Asks, AtGate, GateOnly, runnerVars, R!Driving
  <2> QED
    BY <2>1
<1>6. CASE Admitted
  <2>1. pc = "gate" /\ UNCHANGED stopper
    BY <1>6 DEF Admitted, AtGate, J!Dispatch, J!GateCancelled
  <2>2. \/ gate'[WorkerTask] = "leased" /\ leases' = leases + 1
        \/ gate'[WorkerTask] = "out"
    BY <1>6, <1>t DEF Admitted, R!FastPath, R!AlreadyUp, R!ProbeReady, R!Ready, R!GoOn
  <2>3. J!GateCancelled => leases' = leases
    BY DEF J!GateCancelled
  <2>4. leases + 1 # leases
    BY <1>n
  <2>5. J!Dispatch => pc' = "engine"
    BY DEF J!Dispatch
  <2> QED
    BY <1>6, <2>1, <2>2, <2>3, <2>4, <2>5 DEF Admitted, R!Driving
<1>7. CASE Refused \/ WorkerDies
  <2>1. pc = "gate" /\ UNCHANGED stopper
    BY <1>7 DEF Refused, WorkerDies, AtGate, J!GateNotReady, J!GateCancelled, J!GateRaises
  <2>2. gate'[WorkerTask] = "out"
    BY <1>7, <1>t DEF Refused, WorkerDies, R!ProbeOnly, R!StatusAbsent, R!ControllerFails,
                      R!PollGivesUp, R!StatusMalformed, R!NotReady
  <2> QED
    BY <2>1, <2>2 DEF R!Driving
<1>8. CASE TornDown
  <2>1. pc' = "done"
    BY <1>8 DEF TornDown, J!Teardown
  <2>2. gate'[WorkerTask] = "out"
    BY <1>8, <1>t DEF TornDown, gateVars, R!Abandon
  <2> QED
    BY <2>1, <2>2 DEF R!Driving
<1>9. CASE Resumes
  <2>1. pc = "engine" /\ UNCHANGED stopper
    BY <1>9 DEF Resumes, J!ResumeAny, J!ResumeCancelled, J!ResumeFailed, J!ResumeSucceeded,
                J!ResumeWriteFails, J!ResumeTeardown, J!Resume
  <2>2. gate'[WorkerTask] = "out"
    BY <1>9, <1>t DEF Resumes, R!Release
  <2> QED
    BY <2>1, <2>2 DEF R!Driving
<1>10. CASE ShutDown \/ IdleLoop \/ TimePasses \/ EngineMoves
  <2>1. UNCHANGED <<pc, stopper>>
    BY <1>10 DEF ShutDown, IdleLoop, TimePasses, EngineMoves, GateOnly, runnerVars
  <2>2. UNCHANGED gate
    BY <1>10 DEF ShutDown, IdleLoop, TimePasses, EngineMoves, GateOnly, R!Close, R!IdleMove,
                 R!IdleStep, R!IdleWakes, R!IdleAsks, R!IdleRefrains, R!IdleStatusFails,
                 R!IdleDies, R!IdleStops, R!IdleStopDone, R!IdleStopFails, R!World,
                 R!CacheExpires, R!IdleElapses, R!DeadlinePasses, R!EngineLoads,
                 R!EngineCrashes, R!StopLands
  <2> QED
    BY <2>1, <2>2
<1>11. CASE UNCHANGED vars
  BY <1>11 DEF vars, runnerVars, gateVars
<1> QED
  BY <1>1, <1>2, <1>3, <1>4, <1>5, <1>6, <1>7, <1>8, <1>9, <1>10, <1>11 DEF Next, Enters

LEMMA Invariance == Spec => []IInv
<1>1. Init => Link
  BY DEF Init, J!Init, R!Init, R!Driving, Link
<1>2. Spec => []Link
  BY <1>1, LinkStep, RunnerInvariance, GateInvariance, PTL DEF Spec
<1> QED
  BY <1>2, RunnerInvariance, GateInvariance, PTL DEF IInv
-----------------------------------------------------------------------------
(* A call has its lease (the runner's side), a leased engine is up and     *)
(* nobody stops it (the gate's).                                           *)
LEMMA LeasedCall ==
  ASSUME JP!LeaseCoversCall, RP!NoStopUnderLease, RP!LeasedEngineStaysUp
  PROVE  CallKeepsEngine
<1> SUFFICES ASSUME NEW j \in Jobs, call[j] \in J!Live PROVE engine \in R!Up /\ ~stopping
  BY DEF CallKeepsEngine
<1>1. leases > 0
  <2>1. leases = 1
    BY DEF JP!LeaseCoversCall, J!Live, JP!Live
  <2> QED
    BY <2>1
<1> QED
  BY <1>1 DEF RP!NoStopUnderLease, RP!LeasedEngineStaysUp, R!Up, RP!Up

(* As long as no stop is carried out that was reported to have failed, an  *)
(* engine call always finds the container up and nobody stopping it.       *)
THEOREM CallsKeepTheEngine ==
  ASSUME "late stop" \notin Faults
  PROVE  Spec => []CallKeepsEngine
<1>1. JP!Spec => []JP!LeaseCoversCall
  BY RunnerAssumption, JP!LeaseIsHeld
<1>2. RP!Spec => []RP!NoStopUnderLease
  BY OneCaller, GateFacts, RP!LeaseKeepsStopsAway
<1>3. RP!Spec => []RP!LeasedEngineStaysUp
  BY OneCaller, GateFacts, RP!LeasedEngineIsUp
<1>4. JP!LeaseCoversCall /\ RP!NoStopUnderLease /\ RP!LeasedEngineStaysUp => CallKeepsEngine
  BY LeasedCall
<1> QED
  BY <1>1, <1>2, <1>3, <1>4, RunnerBehaves, GateBehaves, PTL

(* stop() has nothing left behind when it returns: no engine call, no      *)
(* lease, no place in the readiness lock.                                  *)
THEOREM StopIsClean == Spec => []StopLeavesNothing
<1>1. IInv => StopLeavesNothing
  <2> SUFFICES ASSUME IInv, stopper = "returned"
               PROVE  /\ \A j \in Jobs : call[j] \notin J!Live
                      /\ leases = 0
                      /\ gate[WorkerTask] = "out"
                      /\ \A i \in DOMAIN lock : lock[i] # WorkerTask
    BY DEF StopLeavesNothing
  <2>1. pc = "done"
    BY DEF IInv, Link
  <2>2. \A j \in Jobs : call[j] \notin J!Live
    BY <2>1 DEF IInv, JP!IInv, JP!SlotInv, JP!OneSlot, J!Live, JP!Live
  <2>3. leases = 0
    BY <2>1 DEF IInv, JP!IInv, JP!SlotInv, JP!WorkerInv
  <2>4. gate[WorkerTask] = "out"
    <3>1. gate[WorkerTask] \in RP!CallerStates
      BY GateType DEF IInv
    <3> QED
      BY <2>1, <3>1 DEF IInv, Link, RP!CallerStates, R!Driving, RP!Driving
  <2>5. ~RP!In(lock, WorkerTask)
    BY <2>4 DEF IInv, RP!IInv, RP!FlightInv, RP!LockInv, RP!Driving
  <2>6. DOMAIN lock = 1 .. Len(lock)
    BY DEF IInv, RP!IInv, RP!TypeOK
  <2> QED
    BY <2>2, <2>3, <2>4, <2>5, <2>6 DEF RP!In
<1> QED
  BY <1>1, Invariance, PTL
=============================================================================
