----------------------------- MODULE Readiness ------------------------------
(***************************************************************************)
(* ensure_ready(), lease() and the idle-down loop of                       *)
(* api/lifecycle/readiness.py, the docker controller they drive            *)
(* (api/lifecycle/controller.py) and the engine container they drive it    *)
(* for.                                                                    *)
(*                                                                         *)
(* Clocks are abstracted to what the code asks of them: is the READY cache *)
(* still within its window, has the idle interval gone by since the last   *)
(* activity, is the readiness deadline past.  Each may turn at any moment. *)
(* An action is everything between two awaits.                             *)
(***************************************************************************)
EXTENDS Naturals, Sequences, FiniteSets

CONSTANTS Callers,   \* coroutines that call ensure_ready and lease
          Idle,      \* the idle loop, as a user of the lock
          Faults     \* what the world outside may do, a subset of AllFaults

AllFaults == {"crash",      \* the engine process dies and compose restarts it
              "probe",      \* a probe of a serving engine can time out
              "docker",     \* a controller call can raise ControllerError
              "late stop",  \* a stop that raised can still be carried out
              "malformed"}  \* docker can answer an inspect with JSON that is
                            \* no object, which nobody turns into a state

ASSUME CallersAssumption == IsFiniteSet(Callers)
ASSUME IdleAssumption == Idle \notin Callers
ASSUME FaultsAssumption == Faults \subseteq AllFaults

VARIABLES pc,        \* [Callers -> CallerStates]
          idlePc,    \* where the idle loop is suspended, or why there is none
          lock,      \* asyncio.Lock, first in first out: its head holds it
          cached,    \* _cached: "none", "fresh" or "stale" (always a READY)
          idleDue,   \* now - _last_activity >= _idle_interval
          late,      \* now >= deadline, for the caller driving readiness
          leases,    \* _leases
          cause,     \* _last_cause
          answer,    \* the state _drive_readiness last returned
          engine,    \* the container and the server in it
          stopping   \* the docker daemon has a stop to carry out

vars == <<pc, idlePc, lock, cached, idleDue, late, leases, cause, answer,
          engine, stopping>>
worldVars == <<engine, stopping>>

States  == {"ready", "warming", "unavailable"}
Driving == {"probing", "asking", "starting", "polling"}
CallerStates == {"out", "waiting", "leased"} \cup Driving

(* No controller; one with idle-down disabled; a loop that may be created. *)
Configurations == {"none", "disabled", "off"}
IdleStates == {"sleeping", "waiting", "asking", "stopping", "closed", "dead"}
                \cup Configurations
(* A running container: its server is being loaded, loads again after a    *)
(* crash, or serves.  docker does not tell the three apart.                *)
Up == {"loading", "restarting", "serving"}

Init == /\ pc = [c \in Callers |-> "out"]
        /\ idlePc \in Configurations
        /\ lock = <<>>
        /\ cached = "none"
        /\ idleDue = FALSE
        /\ late = FALSE
        /\ leases = 0
        /\ cause = "none"
        /\ answer = "none"
        /\ engine \in {"absent", "stopped"} \cup Up
        /\ stopping = FALSE
-----------------------------------------------------------------------------
(* The lock and the ways out of ensure_ready. *)

Holds(x) == lock # <<>> /\ Head(lock) = x

(* Leave the lock, as its holder or as a cancelled waiter. *)
Place(x) == CHOOSE k \in DOMAIN lock : lock[k] = x
Leave(x) == lock' = [i \in 1 .. Len(lock) - 1 |->
                       IF i < Place(x) THEN lock[i] ELSE lock[i + 1]]

(* A container controller is configured. *)
Managed == idlePc # "none"

(* _arm_idle: create the loop once, when there is a container to idle down *)
(* and an interval to do it after.  A loop that died is not created again. *)
ArmIdle == idlePc' = IF idlePc = "off" THEN "sleeping" ELSE idlePc

(* The caller of ensure_ready got READY: it takes the lease before it      *)
(* awaits anything, or does not want it any more.                          *)
GoOn(c) == \/ /\ pc' = [pc EXCEPT ![c] = "leased"]
              /\ leases' = leases + 1
           \/ /\ pc' = [pc EXCEPT ![c] = "out"]
              /\ UNCHANGED leases

(* Slip: the cause of an earlier failure survives a READY. *)
ReadyKeepingCause(c) == /\ cached' = "fresh"
                        /\ idleDue' = FALSE
                        /\ answer' = "ready"
                        /\ GoOn(c)
                        /\ Leave(c)
                        /\ UNCHANGED cause

Ready(c) == /\ cached' = "fresh"
            /\ idleDue' = FALSE
            /\ cause' = "none"
            /\ answer' = "ready"
            /\ GoOn(c)
            /\ Leave(c)

(* A READY that was cached before stays where it is. *)
NotReady(c, s, why) == /\ answer' = s
                       /\ cause' = why
                       /\ pc' = [pc EXCEPT ![c] = "out"]
                       /\ Leave(c)
                       /\ UNCHANGED <<cached, idleDue, leases>>

Proceed(c, s) == /\ pc' = [pc EXCEPT ![c] = s]
                 /\ UNCHANGED <<lock, cached, idleDue, leases, cause, answer>>
-----------------------------------------------------------------------------
(* ensure_ready: the lock-free path, the queue for the lock, the re-check. *)

FastPath(c) == /\ pc[c] = "out"
               /\ idlePc # "closed"
               /\ cached = "fresh"
               /\ idleDue' = FALSE
               /\ ArmIdle
               /\ GoOn(c)
               /\ UNCHANGED <<lock, cached, late, cause, answer, worldVars>>

QueueForLock(c) == /\ pc[c] = "out"
                   /\ idlePc # "closed"
                   /\ cached # "fresh"
                   /\ idleDue' = FALSE
                   /\ ArmIdle
                   /\ pc' = [pc EXCEPT ![c] = "waiting"]
                   /\ lock' = Append(lock, c)
                   /\ UNCHANGED <<cached, late, leases, cause, answer, worldVars>>

(* Somebody else brought the engine up meanwhile. *)
AlreadyUp(c) == /\ pc[c] = "waiting"
                /\ Holds(c)
                /\ cached = "fresh"
                /\ GoOn(c)
                /\ Leave(c)
                /\ UNCHANGED <<idlePc, cached, idleDue, late, cause, answer, worldVars>>

(* Slip: a second caller drives without waiting for the first. *)
DriveUnlocked(c) == /\ pc[c] = "waiting"
                    /\ cached # "fresh"
                    /\ late' = FALSE
                    /\ Proceed(c, "probing")
                    /\ UNCHANGED <<idlePc, worldVars>>

(* The deadline is set before the first probe. *)
Drive(c) == /\ pc[c] = "waiting"
            /\ Holds(c)
            /\ cached # "fresh"
            /\ late' = FALSE
            /\ Proceed(c, "probing")
            /\ UNCHANGED <<idlePc, worldVars>>
-----------------------------------------------------------------------------
(* Slip: any reachable response counts as MODELS_AVAILABLE. *)
ClassifiedReachable == IF engine \in Up THEN {"ready"} ELSE {"unavailable"}

(* GET /v1/models, and what classify_readiness makes of it.  Only a        *)
(* serving engine answers 2xx; one that is starting answers otherwise or   *)
(* not at all.                                                             *)
Classified == CASE engine = "serving" -> {"ready"} \cup
                     (IF "probe" \in Faults THEN {"unavailable"} ELSE {})
                [] engine \in {"loading", "restarting"} -> {"warming", "unavailable"}
                [] OTHER -> {"unavailable"}

ProbeReady(c) == /\ pc[c] \in {"probing", "polling"}
                 /\ "ready" \in Classified
                 /\ Ready(c)
                 /\ UNCHANGED <<idlePc, late, worldVars>>

(* Without a controller the first answer is the answer, and no cause is    *)
(* recorded for it.                                                        *)
ProbeOnly(c) == /\ pc[c] = "probing"
                /\ ~Managed
                /\ \E s \in Classified \ {"ready"} : NotReady(c, s, cause)
                /\ UNCHANGED <<idlePc, late, worldVars>>

ProbeThenAsk(c) == /\ pc[c] = "probing"
                   /\ Managed
                   /\ Classified \ {"ready"} # {}
                   /\ Proceed(c, "asking")
                   /\ UNCHANGED <<idlePc, late, worldVars>>

StatusAbsent(c) == /\ pc[c] = "asking"
                   /\ engine = "absent"
                   /\ NotReady(c, "unavailable", "absent")
                   /\ UNCHANGED <<idlePc, late, worldVars>>

StatusStopped(c) == /\ pc[c] = "asking"
                    /\ engine = "stopped"
                    /\ Proceed(c, "starting")
                    /\ UNCHANGED <<idlePc, late, worldVars>>

StatusRunning(c) == /\ pc[c] = "asking"
                    /\ engine \in Up
                    /\ Proceed(c, "polling")
                    /\ UNCHANGED <<idlePc, late, worldVars>>

(* POST /start: 204, or 304 when it already runs. *)
Started(e) == IF e = "stopped" THEN "loading" ELSE e

(* A start whose answer nobody saw. *)
MayHaveStarted(c) == \/ UNCHANGED engine
                     \/ pc[c] = "starting" /\ engine' = Started(engine)

StartSucceeds(c) == /\ pc[c] = "starting"
                    /\ engine' = Started(engine)
                    /\ Proceed(c, "polling")
                    /\ UNCHANGED <<idlePc, late, stopping>>

(* ControllerError from status() or start(); a start that raised may have  *)
(* been carried out.                                                       *)
ControllerFails(c) == /\ "docker" \in Faults
                      /\ pc[c] \in {"asking", "starting"}
                      /\ NotReady(c, "unavailable", "controller")
                      /\ MayHaveStarted(c)
                      /\ UNCHANGED <<idlePc, late, stopping>>

(* parse_container_state raises what is no ControllerError: the caller gets *)
(* an exception instead of an answer, and the lock goes on.                *)
StatusMalformed(c) == /\ "malformed" \in Faults
                      /\ pc[c] = "asking"
                      /\ pc' = [pc EXCEPT ![c] = "out"]
                      /\ Leave(c)
                      /\ UNCHANGED <<idlePc, cached, idleDue, late, leases,
                                     cause, answer, worldVars>>

(* Slip: the deadline is not enforced while the engine is loading. *)
PollGivesUpOnDown(c) == /\ pc[c] = "polling"
                        /\ late
                        /\ engine \notin Up
                        /\ NotReady(c, "unavailable", "timeout")
                        /\ UNCHANGED <<idlePc, late, worldVars>>

(* _poll_until_ready looks at the deadline only after a probe. *)
PollGivesUp(c) == /\ pc[c] = "polling"
                  /\ late
                  /\ \E s \in Classified \ {"ready"} : NotReady(c, s, "timeout")
                  /\ UNCHANGED <<idlePc, late, worldVars>>
-----------------------------------------------------------------------------
(* The end of a lease, and a caller torn down inside ensure_ready. *)

Release(c) == /\ pc[c] = "leased"
              /\ pc' = [pc EXCEPT ![c] = "out"]
              /\ leases' = leases - 1
              /\ idleDue' = FALSE
              /\ UNCHANGED <<idlePc, lock, cached, late, cause, answer, worldVars>>

Abandon(c) == /\ pc[c] \in {"waiting"} \cup Driving
              /\ pc' = [pc EXCEPT ![c] = "out"]
              /\ Leave(c)
              /\ MayHaveStarted(c)
              /\ UNCHANGED <<idlePc, cached, idleDue, late, leases, cause,
                             answer, stopping>>
-----------------------------------------------------------------------------
(* The idle loop. *)

StartIdleMonitor == /\ idlePc = "off"
                    /\ ArmIdle
                    /\ UNCHANGED <<pc, lock, cached, idleDue, late, leases,
                                   cause, answer, worldVars>>

IdleMove(s) == /\ idlePc' = s
               /\ UNCHANGED <<pc, idleDue, late, leases, cause, answer>>

(* The sleep is over and the predicate seems to hold: queue for the lock.  *)
IdleWakes == /\ idlePc = "sleeping"
             /\ leases = 0
             /\ idleDue
             /\ lock' = Append(lock, Idle)
             /\ IdleMove("waiting")
             /\ UNCHANGED <<cached, worldVars>>

(* Slip: the idle loop does not take the lock. *)
IdleAsksUnlocked == /\ idlePc = "waiting"
                    /\ IdleMove("asking")
                    /\ UNCHANGED <<lock, cached, worldVars>>

IdleAsks == /\ idlePc = "waiting"
            /\ Holds(Idle)
            /\ IdleMove("asking")
            /\ UNCHANGED <<lock, cached, worldVars>>

(* Slip: only an engine that serves is worth stopping. *)
ShouldIdleDownServing == leases = 0 /\ idleDue /\ engine = "serving"

(* should_idle_down, evaluated again once status() has returned. *)
ShouldIdleDown == leases = 0 /\ idleDue /\ engine \in Up

IdleRefrains == /\ idlePc = "asking"
                /\ ~ShouldIdleDown
                /\ Leave(Idle)
                /\ IdleMove("sleeping")
                /\ UNCHANGED <<cached, worldVars>>

(* ControllerError from status(): try again after the next interval.  With *)
(* nothing to stop it is the step of IdleRefrains.                         *)
IdleStatusFails == /\ idlePc = "asking"
                   /\ "docker" \in Faults
                   /\ ShouldIdleDown
                   /\ Leave(Idle)
                   /\ IdleMove("sleeping")
                   /\ UNCHANGED <<cached, worldVars>>

(* An answer nobody can parse ends the loop for good. *)
IdleDies == /\ idlePc = "asking"
            /\ "malformed" \in Faults
            /\ Leave(Idle)
            /\ IdleMove("dead")
            /\ UNCHANGED <<cached, worldVars>>

(* Slip: the READY cache outlives the stop. *)
IdleStopsKeepingCache == /\ idlePc = "asking"
                         /\ ShouldIdleDown
                         /\ stopping' = TRUE
                         /\ IdleMove("stopping")
                         /\ UNCHANGED <<lock, cached, engine>>

(* The cache is dropped before the stop is awaited. *)
IdleStops == /\ idlePc = "asking"
             /\ ShouldIdleDown
             /\ cached' = "none"
             /\ stopping' = TRUE
             /\ IdleMove("stopping")
             /\ UNCHANGED <<lock, engine>>

IdleStopDone == /\ idlePc = "stopping"
                /\ ~stopping
                /\ Leave(Idle)
                /\ IdleMove("sleeping")
                /\ UNCHANGED <<cached, worldVars>>

(* ControllerError: the loop gives the lock back without knowing whether   *)
(* the daemon still has the stop to carry out.                             *)
IdleStopFails == /\ idlePc = "stopping"
                 /\ "docker" \in Faults
                 /\ Leave(Idle)
                 /\ IdleMove("sleeping")
                 /\ stopping' = ("late stop" \in Faults /\ stopping)
                 /\ UNCHANGED <<cached, engine>>

(* aclose(), which the lifespan calls after the runner has stopped: nobody *)
(* asks for readiness any more.                                            *)
Close == /\ idlePc \in {"sleeping", "waiting", "asking", "stopping"}
         /\ \A c \in Callers : pc[c] = "out"
         /\ IF idlePc = "sleeping" THEN UNCHANGED lock ELSE Leave(Idle)
         /\ IdleMove("closed")
         /\ UNCHANGED <<cached, worldVars>>
-----------------------------------------------------------------------------
(* Time and the world outside. *)

World(v) == UNCHANGED <<pc, idlePc, lock, leases, cause, answer, v>>

CacheExpires == /\ cached = "fresh"
                /\ cached' = "stale"
                /\ World(<<idleDue, late, worldVars>>)

IdleElapses == /\ ~idleDue
               /\ idleDue' = TRUE
               /\ World(<<cached, late, worldVars>>)

DeadlinePasses == /\ ~late
                  /\ \E c \in Callers : pc[c] \in Driving
                  /\ late' = TRUE
                  /\ World(<<cached, idleDue, worldVars>>)

EngineLoads == /\ engine \in {"loading", "restarting"}
               /\ engine' = "serving"
               /\ World(<<cached, idleDue, late, stopping>>)

(* compose restarts a crashed engine (restart: unless-stopped). *)
EngineCrashes == /\ "crash" \in Faults
                 /\ engine = "serving"
                 /\ engine' = "restarting"
                 /\ World(<<cached, idleDue, late, stopping>>)

StopLands == /\ stopping
             /\ stopping' = FALSE
             /\ engine' = IF engine \in Up THEN "stopped" ELSE engine
             /\ World(<<cached, idleDue, late>>)
-----------------------------------------------------------------------------
InLock(c) == \/ AlreadyUp(c)
             \/ Drive(c)
             \/ ProbeReady(c)
             \/ ProbeOnly(c)
             \/ ProbeThenAsk(c)
             \/ StatusAbsent(c)
             \/ StatusStopped(c)
             \/ StatusRunning(c)
             \/ StartSucceeds(c)
             \/ ControllerFails(c)
             \/ StatusMalformed(c)
             \/ PollGivesUp(c)

CallerStep(c) == \/ FastPath(c)
                 \/ QueueForLock(c)
                 \/ InLock(c)
                 \/ Release(c)
                 \/ Abandon(c)

IdleStep == \/ IdleWakes
            \/ IdleAsks
            \/ IdleRefrains
            \/ IdleStatusFails
            \/ IdleDies
            \/ IdleStops
            \/ IdleStopDone
            \/ IdleStopFails

Next == \/ \E c \in Callers : CallerStep(c)
        \/ IdleStep
        \/ StartIdleMonitor
        \/ Close
        \/ CacheExpires
        \/ IdleElapses
        \/ DeadlinePasses
        \/ EngineLoads
        \/ EngineCrashes
        \/ StopLands

Spec == Init /\ [][Next]_vars

(***************************************************************************)
(* Coroutines that can proceed do; probes and controller calls are bounded *)
(* by their HTTP timeouts; time passes; the daemon carries out its stops.  *)
(* An engine need not finish loading and a caller need not call.           *)
(***************************************************************************)
Fairness == /\ \A c \in Callers : WF_vars(InLock(c))
            /\ WF_vars(IdleStep)
            /\ WF_vars(CacheExpires)
            /\ WF_vars(IdleElapses)
            /\ WF_vars(DeadlinePasses)
            /\ WF_vars(StopLands)

FairSpec == Spec /\ Fairness
-----------------------------------------------------------------------------
(* The types of the callers' places, the cache, the lock and the engine.   *)
TypeOK == /\ pc \in [Callers -> CallerStates]
          /\ idlePc \in IdleStates
          /\ lock \in Seq(Callers \cup {Idle})
          /\ cached \in {"none", "fresh", "stale"}
          /\ idleDue \in BOOLEAN
          /\ late \in BOOLEAN
          /\ leases \in Nat
          /\ cause \in {"none", "absent", "controller", "timeout"}
          /\ answer \in {"none"} \cup States
          /\ engine \in {"absent", "stopped"} \cup Up
          /\ stopping \in BOOLEAN

(* While any caller holds a lease no stop of the engine is under way       *)
(* (A-S5-01, and the lease's promise to JobRunner).                        *)
NoStopUnderLease == leases > 0 => ~stopping

(* "idle-down can never stop the container while a generation is in       *)
(* flight" (runner.py, ReadinessGate): a leased engine is never down.      *)
LeasedEngineStaysUp == leases > 0 => engine \in Up

(* The lock is the single flight: only its holder probes, asks, starts,    *)
(* polls or stops, so a stop never interleaves with a probe or cold start. *)
SingleFlight == /\ \A c \in Callers : pc[c] \in Driving => Holds(c)
                /\ idlePc \in {"asking", "stopping"} => Holds(Idle)

(* Concurrent callers cause one cold start: a start is only under way for  *)
(* an engine that is down, whoever else came in since its status was read. *)
OneColdStart == \A c \in Callers : pc[c] = "starting" => engine = "stopped"

(* An unexpired READY, hence what the lock-free path hands out, is about   *)
(* an engine that has served since it was last started: it may have        *)
(* crashed meanwhile, but nobody stopped it or is stopping it.  So does a  *)
(* lease have such an engine.                                              *)
ReadyMeansServing ==
  cached = "fresh" \/ leases > 0 => engine \in {"serving", "restarting"} /\ ~stopping

(* AR-1: a managed engine that was not ready leaves a cause for the job's  *)
(* error, and one that was ready leaves none from an earlier failure.      *)
CauseExplainsAnswer ==
  /\ answer = "ready" => cause = "none"
  /\ Managed /\ answer \in {"warming", "unavailable"} => cause # "none"

(* ensure_ready always comes back: the budget bounds the whole cold path   *)
(* and the lock is handed on by whoever holds it, the idle loop included.  *)
EnsureReadyReturns == \A c \in Callers : pc[c] = "waiting" ~> pc[c] \in {"out", "leased"}

IdleFails == IdleStatusFails \/ IdleStopFails

(* Once nobody calls any more, a running idle loop frees the GPU again and *)
(* again, the boot-time engine nobody ever used included, unless its own   *)
(* docker calls keep failing: one failed stop is not the end of it.        *)
IdleEngineStops == (/\ <>[](\A c \in Callers : pc[c] = "out")
                    /\ <>[](idlePc \in {"sleeping", "waiting", "asking", "stopping"}))
                   => []<>(engine \notin Up) \/ []<><<IdleFails>>_vars
=============================================================================
