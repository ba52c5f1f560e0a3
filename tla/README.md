# Verification of minimax-music3-webui

TLA+ models of the single-GPU music service in `src/`: what `api/` does between
an HTTP request and a delivered file, and what the page shows meanwhile. TLC
checks the models on small instances; TLAPS proves the safety of every one of
them for any number of jobs, callers, clients, requests and crashes. Paths below
are relative to `src/`; line numbers of every modelled definition are in
`PROJECT.json` under `map`.

Contents: [the system](#the-system), [modules](#modules),
[correspondence](#how-state-and-actions-correspond-to-the-code),
[runs](#what-the-runs-check), [bounds](#bounds), [fairness](#fairness),
[proofs](#proofs), [disagreements](#disagreements-between-the-code-and-its-words),
[not modelled](#not-modelled), [order of the work](#order-of-the-work).

## The system

One Python process (FastAPI on one asyncio loop) in front of one engine
container that generates one song at a time for minutes. Jobs live in memory,
finished audio on disk. A browser page and a cloud-compatible REST edge are the
two ways in.

| Component | Source | State | Operations |
| --- | --- | --- | --- |
| job store | `api/jobs/store.py` | records by id, a bounded event log and a global counter per job | `create`, `update` with `to_running`, `to_succeeded`, `to_failed`, `to_cancelled`, `append_event` |
| job runner | `api/jobs/runner.py` | the queue, the set of cancelled ids, the current job, the engine child task, the worker task | `submit`, `cancel`, `start`, `stop`, the worker loop with `_process`, `_persist_and_succeed` |
| readiness | `api/lifecycle/readiness.py` | the READY cache, the lock, leases, last activity, last cause, the idle task | `ensure_ready`, `lease`, the idle loop, `aclose`, snapshots |
| container controller | `api/lifecycle/controller.py` | none of its own; drives docker | `status`, `start`, `stop`, each within a timeout |
| engine client | `api/engines/sglang/client.py` | none | `generate`, ends with audio, an `EngineError` or a cancellation |
| artifact store | `api/jobs/artifacts.py` | a directory per job: `audio.wav`, `sidecar.json` | `write_artifact`, `open_member`, `scan_listing` |
| job API and events | `api/app/routes/jobs.py`, `api/jobs/events.py` | a generator per stream, the live-stream counter | submit, get, cancel, the SSE stream with replay |
| cloud edge | `api/app/routes/music.py`, `api/app/routes/artifacts.py` | a descriptor, a delivery slot and a temp file per request | the blocking POST, the result GET, listing and download |
| cloud translation | `api/compat/`, `api/transcode/` | none (pure), and ffmpeg processes | `translate`, `resolve_transcode`, `transcode`, `measure` |
| web page | `api/app/static/app.js` | the job shown, the EventSource, the health timer, the clock, the result | submit, cancel, events, polls, library, player |

How they interact:

    page ---- POST/cancel ---> job API --submit/cancel--> runner ---generate---> engine
     ^  ^--- SSE, polls -----/                              |  |                   ^
     |                                                      |  +--lease/ready--> readiness
     |        cloud edge --submit, poll--> runner           |                      | start/stop
     +----- artifacts <--- cloud edge <--- artifact store <-+                  container

The runner's worker is the only place that calls the engine. It asks readiness
before each job and holds a lease during the call, so that the idle loop does
not stop the container under it. A handler and the worker share the store with
no lock: atomicity is the absence of an `await`. The cloud edge polls the store
until its job has ended, then transcodes in a thread behind a semaphore. The
lifespan (`api/app/main.py`) starts the worker and the idle monitor, and at
shutdown stops the runner before readiness.

What is hard, and what makes each part correct:

- *runner*: a cancel at any await of the worker, a call that resolves while it
  is being cancelled, a shutdown during either, a write that fails after the
  call. Correct: one engine call at a time, a cancel that is final, a record,
  log, artifact and lease that agree, and a worker that always comes back.
- *readiness*: minutes of awaiting under a lock that callers queue for and may
  be cancelled in; a lock-free fast path beside it; an idle loop that decides on
  what it read before an await. Correct: one cold start, no stop under a lease,
  an answer in bounded time, an engine that is eventually idled down.
- *events*: a ring that drops, clients that vanish and return. Correct: nothing
  twice, nothing lost that was still there, every stream ends.
- *artifacts*: crash or power loss between any two system calls. Correct: what
  looks complete is whole, what was reported stays.
- *cloud edge*: three kinds of handle on every way out of a handler, clients
  that leave during minutes of generation. Correct: nothing leaks, the answer
  is about the request's own job, links work, everyone is answered.
- *cloud translation*: dependent fields, three spellings of "not there"
  (absent, null, the default), and settings that are resolved twice, once from
  the body and, long after, from what the sidecar kept of it. Correct: a refusal
  leads to acceptance, every known field takes effect and no other does, link
  and answer agree.
- *runner and readiness together*: one coroutine in two protocols, whose lease
  begins and ends with an engine call, under a shutdown order of three steps.
  Correct: a call has its engine to the end, and a returned `stop()` leaves
  nothing for `aclose()` to trip over.
- *page*: answers, events and polls in any order. Correct: what is shown is
  true and belongs to one job, and the page never locks up.

`PROJECT.json` lists these hazards at their lines, with the properties that
would catch each going wrong, or, where the code takes the risk, why none does.

## Modules

| Module | Models | Kind |
| --- | --- | --- |
| `JobLifecycle` | what the job service promises: a phase per job, one slot, cancel before the slot is free | abstract; implemented by `JobRunner`, used by `CloudEdge` and `WebUI` as their service |
| `ArtifactStore` | what the artifact store promises: an artifact appears whole, in one step | abstract; implemented by `Artifacts` |
| `JobRunner` | runner, store, engine call | state machine |
| `Readiness` | readiness, controller, container | state machine |
| `Serving` | `JobRunner` and `Readiness` as `create_app` and the lifespan put them together | composition; implements `JobRunner` with its fairness |
| `EventStream` | event log and SSE generator, clients | state machine |
| `CloudEdge` | POST, GET and download over `JobLifecycle` | composition |
| `CloudService` | `CloudEdge` over `JobRunner` in place of the abstract service | composition; implements `CloudEdge` |
| `CloudContract` | one cloud request's fields through translate, engine, sidecar and GET | state machine over pure operators |
| `Artifacts` | `write_artifact` against a file system that can crash | state machine |
| `WebUI` | the page over `JobLifecycle` | composition |
| `PageService` | `WebUI` over `JobRunner` in place of the abstract service | composition; implements `WebUI` |
| `*Proofs` | the theorems of the module of that name; `CloudEdgeProofs` and `WebUIProofs` also hold those of `CloudService` and `PageService` | proofs |
| `*MC` | symmetry sets and, for `CloudContract`, the bodies, for TLC | |

The two ways in are each described twice. `CloudEdge` and `WebUI` stand on the
abstract service, which says of a job only what phase it may go to next; their
theorems are proved there, where a step of the service is a few lines.
`CloudService` and `PageService` put the same handlers and the same page over
`JobRunner` itself: a POST's submission is the runner's `Submit`, the page's
cancel the runner's `Cancel`, and when a job moves is decided by the queue, the
worker and the engine calls. `EdgeOverRunner` and `PageOverRunner` prove that each
of these implements the smaller one, so nothing is lost by the abstraction. What
`CloudEdge` says of the disk (a success has its artifact, nothing but the end of a
job publishes one) is thereby proved of the runner, and that the pair of files is
whole is `CompleteIsWhole` of `Artifacts`. `WebUI` still takes from `EventStream`
that a stream delivers once and in order (`DeliveredOnceInOrder`).

Runner and readiness are composed step by step in `Serving`, on one variable
`leases`: what `JobRunner` leaves open about `ensure_ready` (when it returns and
with what) and `Readiness` about its callers (who calls, whether a lease is used,
when `aclose` comes) is there decided by the other module. `ImplementsRunner`
says that the runner keeps its whole specification, so what `JobRunner` assumes
(that the gate answers) is discharged by what the gate does.

Definitions that carry the comment "Slip" are variants of the definition after
them with a plausible error in it. They are used only to show that each property
notices such an error.

## How state and actions correspond to the code

In all of `api/`, an action is what a coroutine does from one await to the next;
interleaving is therefore exactly that of one asyncio loop. Threads and
processes (ffmpeg, docker's daemon, the operating system) have actions of their
own.

**JobRunner.** `status` and `log` are the store; `queue`, `cancelled`, `current`
are `_queue`, `_cancelled`, `_current`; `pc` says in which of the three awaits
the worker is, `hand` is the `job_id` it holds there; `call[j]` is the child task
that `_process` creates for the engine call; `flagged` says that the worker's
next resumption raises `CancelledError`; `leases` the readiness leases;
`artifacts` the published ones. `Submit`, `Cancel`, `Start`, `Stop` are the
methods; `Take` and `Skip` leave `queue.get()`, `GateCancelled`, `GateNotReady`
and `Dispatch` leave `ensure_ready`, the `Resume...` actions leave the call.
`CallEnds` and `CallUnwinds` are the child task. Three abstractions: `Move`
assigns a status whatever it was, and `OnlyLegalMoves` checks that the code's
`JobTransitionError` never arises; the wake-up of the worker is a step of its
own after the event that makes it possible, which is how asyncio schedules it;
taking from the queue and entering the slot are separate steps, which allows
more interleavings than the code, never fewer. `start` happens once, before any
request, as the lifespan does, though `Submit` may precede it in the model.

**Readiness.** `pc` and `idlePc` are the places of the callers and of the idle
loop; `lock` is asyncio's FIFO lock as the sequence of its holder and waiters;
`cached` is `_cached` with its age as `fresh` or `stale`; `idleDue` and `late`
are the two other comparisons with a clock, each of which may become true at any
moment; `engine` and `stopping` are the container and the daemon. `FastPath` is
the lock-free read of the cache; `AlreadyUp`, `Drive`, `ProbeReady`,
`ProbeThenAsk`, `StatusAbsent`, `StatusStopped`, `StatusRunning`, `StartSucceeds`,
`PollGivesUp`, `ControllerFails` are `_drive_readiness` await by await;
`Abandon` is a cancelled caller, as holder or as waiter. `StatusMalformed`
and `IdleDies` are docker answers that `parse_container_state` turns into an
exception of another kind, which nobody on the way catches. What the world may do
is the constant `Faults`, so that a theorem can say which faults it excludes.

**Serving.** The variables are those of both modules, `gate` being `Readiness`'s
`pc` for its one caller, the worker. `Asks` is the worker going from await to
await inside `ensure_ready`; `Admitted`, `Refused` and `WorkerDies` are its three
ways out, each joint with the runner's step for it; `Resumes` ends call and lease
at once; `TornDown` is a cancellation that unwinds both; `StartUp` and `ShutDown`
are the lifespan before and after its `yield`. `CallEnds` lets a call succeed only
against an engine that serves.

**EventStream.** One job's log as the ring `events` with its counter `seq`;
per client the generator (`stream`, `lastId`, the snapshot `batch` its loop goes
through), the connection (`net`) and what was received (`seen`). `Persistent`
says whether a client reconnects after the terminal event; the page does not
(it closes its stream), an `EventSource` left alone does. Heartbeats change
nothing and are left out.

**CloudEdge.** `stage` is where a handler is: waiting for its job, for a slot,
for ffmpeg, for the measurement, sending. `free` is the semaphore, `fds` and
`temps` the descriptors and temp files in the world. The body generator has two
steps, `BodyStarts` and `BodyEnds`, since its `finally` protects only what
started; `BodyDropped` is Starlette finding the client gone before the first
chunk. A GET is a result GET or a download. `WorkerGone` is the end of the worker's
task: it died of an exception that nobody caught, with no job in the slot, or the
lifespan stopped it when no request was open.

**CloudService.** The variables of `CloudEdge` and of `JobRunner`, `phase`, `slot`
and `stored` being the runner's `status`, `current` and `artifacts`. `RunnerMoves`
are the runner's own steps and those of other callers, `Arrivals` the first step of
a request, joint with the runner's `Submit` for a POST, `Handlers` all later ones.
`AtRest` is uvicorn, which lets open requests end before it ends the lifespan.

**CloudContract.** A JSON object is a function on the keys that are present, so
that absent, `null` and a default are three different things, as they are to
`Mapping.get`. A value is `Null`, `Junk` (of a wrong type), or a representative of
each class a check tells apart; `seed`, `max_new_tokens`, rates and bit rates are
numbers, since the hex estimate computes with them. `Faults` is the set of what is
wrong with a body and `Order` the order of the checks, `First` and `Named` which of
them the refusal reports. `Recorded`, `BuildBody`, `BuildSidecar` are what is passed
on; `GetAnswers` starts from the sidecar alone. `Repair` is a client that puts right
what a refusal names; told that the answer would be too large, it asks for a link, as
the message says. `Known` is a body without the keys that translate does not look at,
in the body or in its `audio_setting`. `EncoderRate` is libmp3lame, which knows no
bit rate above 160 kbps below 32 kHz; `Readings` is what ffprobe may say of a bit
rate, the container's with its headers or none at all, and `Measure` what the code
makes of it. Of `extra_info` the two fields a setting decides are kept.

**Artifacts.** A write is the sequence of system calls `WriteProgram`; `images`
is the history of a directory and `kept` how much of it is on disk, `data` and
`safe` the same for contents. `Shown` is what `open_member` would give a reader, and
what `ArtifactStore` speaks of. `Writeback`, `Crash`, `PowerLoss` are external,
and the file system is taken to be a journalling one (see the module's header).

**WebUI.** `job`, `status`, `engine` are the page's state, `label` and `locked`
what `renderStatus` made of it when it last ran, which is not always. `watched`
and `seen` are the EventSource, `polls` the health requests in flight, `cancelOf`
and `cancelAt` the cancel request, `loads` the pending listings with what they
captured before their await. One page load; the server stays up, though its worker
may die (`WorkerDies`).

**PageService.** The variables of `WebUI` and of `JobRunner`, `phase` and `slot`
being the runner's `status` and `current`, `log` that of both. `Accepts` is POST
/jobs with the runner's `Submit`, `Cancels` the cancel request with the runner's
`Cancel` or, too late, with nothing; all other callbacks are `PageMoves`.

## What the runs check

| Run | Question | Answer |
| --- | --- | --- |
| `JobRunner_service` | do slot, log, lease, artifacts and cancel agree under every interleaving, is it the abstract service, does every job end | yes |
| `JobRunner_stop` | does `stop()` return | no: finding 1 |
| `Readiness_gate` | no stop under a lease, single flight, one cold start, a READY is about an engine nobody stops, causes; does `ensure_ready` return and an idle engine stop; with crashes, failing probes, failing and unparseable docker answers | yes, if stops are carried out in time |
| `Readiness_latestop` | does a leased engine stay up when a stop that timed out is carried out later | no: finding 2 |
| `Serving_service` | does an engine call keep its engine, is a stopped service clean, is the runner still the runner, is the GPU freed in the end; crashes included | yes |
| `EventStream_tail` | delivery once and in order, an exact counter, streams that end | yes |
| `CloudService_delivery` | slots, handles, answers, everyone answered, over the runner with its own fairness | yes, as long as the worker lives |
| `CloudService_leak` | do temp file and descriptor go with the body | no: finding 3 |
| `CloudContract_fields` | can a refused request be repaired, does every field the code knows take effect and no other, does the link deliver what the POST planned | yes; a bit rate as far as the encoder has it |
| `Artifacts_crash` | is what is served whole and there at once (the abstract store), does what was returned stay | yes |
| `WebUI_page` | is what is shown true and paired, does the page come back and catch up | yes; come back as long as the worker lives |
| `PageService_submits` | can one page make two jobs in flight, in the runner's own store | yes: finding 4 |

What each property says is stated above its definition. `Readiness_gate` runs
with and without a controller and with idle-down disabled: `Init` leaves the
configuration open. Types are proved (`TypeCorrect` of each proof module) and not
among the runs' properties. Deadlock is not
checked (`CHECK_DEADLOCK FALSE`): every job ends once, a closed
service does nothing more, and nobody is obliged to ask for anything, so each
model may rightly come to rest.
Whether it may rest too early is what the liveness properties ask.

Findings:

1. **Shutdown can hang** (`api/jobs/runner.py:189`). If the running job has been
   cancelled and the worker has not resumed yet, `stop()` cancels a worker that
   is about to see a `CancelledError` anyway. The two requests become one
   exception, which the test `job_id in self._cancelled` takes for the job's:
   the worker goes back to its queue, and `stop()` waits for a task that nobody
   cancels any more.
2. **A late stop hits a leased engine** (`api/lifecycle/readiness.py:319`). A
   stop that raised at its HTTP timeout is treated as one that did not happen;
   docker may still carry it out after the next caller probed READY.
3. **A body that never starts cleans up nothing** (`api/app/routes/music.py:373`,
   `api/app/routes/artifacts.py:26`). The temp file, or the descriptor of a
   download, is released by the `finally` (or the `with`) of a generator. A
   client found gone before the first chunk means that generator never ran.
4. **Generate can be pressed twice** (`api/app/static/app.js:302`). The lock is
   recomputed from `state.job` by whoever renders; a health poll that answers
   while `POST /jobs` is in flight renders the state of before and unlocks.

## Bounds

| Bound | Value | Why it is enough |
| --- | --- | --- |
| jobs of `JobRunner` | 3 | one running or unwinding, one next, one queued behind; the proofs hold for any number |
| callers of `Readiness` | 3 | a holder, a waiter behind it and one on the fast path; proofs for any number |
| jobs of `Serving` | 2 | one in the gate or the call, one behind it; the worker is the only caller there is |
| clients of `EventStream` | 2 | clients share only the log and the counter |
| `MaxId` | 3 | a job emits queued, running and one terminal event: the longest log there is |
| `Limit` of `EventStream` | 2 | smaller than the log, so that it drops; the code's default is 1024 |
| posts, gets, jobs of `CloudService` | 2, 1, 2 | two POSTs compete for a slot, a GET uses the link of one of them |
| `Limit` of `CloudService` | 1 | every delivery contends; the code's 2 only add room |
| bodies of `CloudContract` | a conforming one with at most two departures, or any `audio_setting` of the matrix and one more departure; an unknown key in either | no check looks at more than two fields (bit rate and format, delivery and estimate); the proofs are for every body |
| `Readings` | none, no overhead, some | the code tells only none from the rest |
| ceilings of `CloudContract` | the default and 1 MB | the default is above every accepted estimate, so only a lower one shows the refusal |
| jobs of `Artifacts` | 2 | jobs are written one at a time into directories of their own |
| clicks, jobs of `WebUI`, `PageService` | 2, 2 | a job shown and one that replaces it |
| `MaxPolls` | 1 | the page's first poll and, later, one of the timer's are in flight with all else |

No other quantity grows: a job goes through its phases once.

## Fairness

Each assumption is one of three kinds, stated at the `Fairness` of its module.
*The loop runs what can run*: weak fairness of each coroutine's own steps, since
asyncio's ready queue is first in first out and no handler blocks it.
*Timeouts bound the outside world*: an engine call ends (the HTTP client's
timeout), a probe or a controller call ends (theirs), a clock passes a deadline.
*A queue is first in first out*: in `WebUI`, where `JobLifecycle` picks any
queued job, strong fairness of a job's moves stands for the FIFO queue of
`JobRunner`; in `CloudService` the queue is there, and only `TakesSlot` has strong
fairness, for asyncio's semaphore, which serves in order.

`Serving` takes nothing for granted between runner and gate: it is fair to the
worker's, the gate's and the idle loop's own steps, to the end of engine calls, to
clocks and to the daemon's stops, and `JobRunner`'s fairness is a consequence
(`ImplementsRunner`). `CloudService` takes nothing for granted between runner and
handlers: its fairness is the runner's and the handlers' own, so that both POSTs
are answered rests on the runner's code, to the point where its worker dies. That
it may die is among the disagreements below; `PostsAreAnswered`,
`GenerateComesBack` and `EveryJobEnds` each except it.

Nothing obliges a client to ask, to cancel, to connect or to stay, nor an
engine to finish loading. Two assumptions the code does not enforce are named in
the modules: ffmpeg runs without a timeout and is assumed to end, and a request
of the page is assumed to be answered or to fail.

## Proofs

Every theorem is for all values of the constants. The only assumptions on them
are the named `ASSUME`s of the modules (placeholders are none of the things they
stand in for, callers, clients and requests are finitely many, limits are positive
numbers, the faults are a subset of the five), which TLC evaluates on every run, and
the hypotheses stated in a theorem itself. In
each proof module one inductive invariant `IInv` carries the safety properties:
it holds initially, every action keeps it (`InvStep` or the step lemmas), it
implies them.

**JobRunnerProofs.** `TypeOK` alone is not inductive: that `Dispatch` finds the
slot empty depends on where the worker is. `IInv` adds to it `WorkerInv` (`pc`,
`hand`, `current` and `leases` say the same, and what the record and the call of
the job in hand may be), `QueueInv` (a queued id is there once, is not in hand,
and its call has not begun), `JobInv` (of each job: it is cancelled exactly when
its id is in `_cancelled`, it has no call before it ran, it runs only in the
worker's hand), and the two properties `OneSlot` and `NoOrphanCall`. `TypeStep` and
`SlotStep`, with one step per action, make it inductive (`Invariance`).
From it follow the type theorem `TypeCorrect`, the invariants
`SingleSlot` (INV-1), `CancelLeavesNoOrphan`, `LeaseIsHeld`, `EventsTellTheRecord`,
`ArtifactsAgree`, the action properties `MovesAreLegal` and `CancelHolds`, and
`RunnerImplementsLifecycle`: the initial state is one of `JobLifecycle`, and
every step is a step of it or leaves its variables alone, under the mapping
`phase <- status`, `slot <- current`, `open <- pc # "done"`. `InterruptsAreAsked`
says who may interrupt: until `stop()` is called, the worker is not flagged, and an
aborted engine call belongs to a cancelled job; hence `StoppedInCall`, that a worker
which ends with a job in the slot was stopped. `PublishStep` and
`OnlySubmitCreates` say what else the compositions below need of a step.

**ReadinessProofs.** `IInv` adds to `TypeOK`: `LockInv` (nobody is twice in the
lock's queue, and exactly those waiting or driving are in it), `SingleFlight`,
`LeaseInv` (the count is the number of callers with a lease), `StopInv` (while the
idle loop awaits a stop there is neither a cached READY nor a lease, and a stop
that nobody awaits is a late one) and `OneColdStart`. The lock is a sequence that
callers leave from the middle when they are cancelled; the lemmas `Join` and
`LeaveLock` say all of it that the rest needs, and the steps fall into a few
classes (`ProceedKeepsFlight`, `LeavingKeepsFlight`, `QueueingKeepsFlight`, ...).
From it follow `TypeCorrect`, `LockIsSingleFlight`, `ColdStartsOnce`,
`LeaseKeepsStopsAway`, `ReadyIsServed` and `LeasedEngineIsUp` (assuming no stop is
late) and `CauseIsOfTheAnswer`. The assumption is a premise of those three
theorems, and finding 2 shows that it is needed. What a READY promises is an engine
that has served since it was last started; it may have crashed since, which the
code learns only from the failing engine call.

**ServingProofs.** `RunnerStep` and `GateStep` show that every step of the
composition is a step of each module or leaves that module's variables alone,
whence `RunnerInService` and `GateInService`: the composition is an instance of
both specifications. The invariants of both proof modules therefore hold here, on
one variable `leases`, and `Link` adds what neither can say: the gate's place of
the worker (leased, waiting or driving) and the runner's (in the call, in the gate)
agree, and a returned `stop()` means a finished worker. `CallsKeepTheEngine` is
then the chain call, lease, no stop, engine up, two links of it proved in either
module; `StopIsClean` combines `OneSlot`, the lease count, `Link` and the lock's
queue.

**EventStreamProofs.** `LogInv` says that the ring holds the newest events under
consecutive ids, `BatchInv` that what a generator still has to send follows what it
sent last, up to what the ring dropped, `ClientInv` that a generator whose
connection holds knows what its client has. `EventsOnceInOrder` is inductive
together with them, over any number of reconnections, and `CounterNeverDrifts`
follows with the cardinality lemmas.

**CloudEdgeProofs.** `SlotsConserved` counts: a step moves one request, and the
lemmas `EntersWork`, `LeavesWork` and `SameWork` say what that does to the number
of those at work. `PostInv` (a POST past its wait has a job that succeeded and is
stored) carries `AnswersAreTrue` and, as an action property, `LinksDoWork`, which is
proved only.
The second part is about `CloudService`. `RunnerStep` shows that each of its steps
is one of the runner or leaves the runner alone, so the invariants of
`JobRunnerProofs` hold in it. `EdgeStep` then shows each to be one of `CloudEdge`:
`LifecycleStep` says which step of the abstract service the runner took,
`PublishStep` and `ArtifactsGrow` what reached the disk with it, and `StoppedInCall`
with `StopInv` (`open` is whether the worker's task runs; it is stopped only when
no request is open) that the end of the worker is `WorkerGone`. `EdgeOverRunner`
follows. With it come two theorems that neither module can state:
`OnlyEndedJobsAreSent` (the routes look at the directory only, and the runner
publishes nothing else) and `AnswerAndStreamAgree`, which relates the answer of a
POST to the event log of its job.

**ArtifactsProofs.** The invariant relates a writer's place in `WriteProgram` to
what every image of the directory that may survive can hold, so that `Crash` and
`PowerLoss` choose among images that are all good. `CompleteIsServedWhole`,
`SidecarNeverAlone` and `ReturnedIsForGood` follow for any number of jobs,
crashes and power losses. `StoreIsAtomic` is the refinement: readers see nothing of
a write until its second rename, then all of it, and lose it only to a power loss
before `write_artifact` returned; it rests on `NamesStay` (a name a directory has
it keeps, short of a power loss) and on a complete artifact being whole.

**CloudContractProofs.** `IInv` says what each stage has made of the body.
`LinkAgrees` rests on `SettingIsKept` (what the sidecar records of the settings is
what was received), `KnownTakeEffect` on what acceptance says of each field.
`UnknownInert` compares a body with what `Known` leaves of it: `SameVerdict` says
that the checks find the same faults in both, `SameRequest` that the same request is
made of both, but for the members of `audio_setting` it records. `RefusalsLeadOn`
speaks of a history: `RepairInv` says that whatever is still wrong with the body is
checked after all that has been repaired, so a repair never undoes an earlier one,
and that a body repaired for its size is accepted (`LinkIsAccepted`). The premise of
these two, that `Null` and `Junk` are no JSON objects, is about untyped values that
TLC cannot compare with every function, and is therefore a hypothesis of the theorems
and no `ASSUME` of the module; the bodies of the run satisfy it.

**WebUIProofs.** `ServerInv` (the last event of a job is its phase, and only the
last one is an end) makes every event true when it arrives, however late;
`StatusInv`, `CancelInv` and `ResultInv` say whose job each part of the page is
about. `Grows` is what the service never takes back, and all that the page's
invariants need of a step of the server. `PageOverRunner` is shown as
`EdgeOverRunner` is, with two differences: the page shares the store's log, so
`LoggedAsMoved` shows, from `StepsAreLegal`, that the runner appends exactly what a
job's phase becomes; and the page's invariant and the runner's are needed for each
other's steps, so `ServiceInvStep` keeps them together. `ResultIsOnDisk` joins the
page's `ResultIsPaired` with the runner's `ArtifactsMatchRecords`: the download
shown with a result is there.

Only model-checked: all liveness properties, the fairness in `ImplementsRunner`
(its safety is `RunnerInService`), and the violations. Fairness is beyond the prover.
Every invariant and every safety part of an action property that a passing run
checks is a theorem.

## Disagreements between the code and its words

Besides the four findings, places where a comment says more than the code does
and for which no run is kept:

- `api/lifecycle/readiness.py:344` says `last_known` is "The last observed state
  without probing"; line 345 returns the cached READY, which a later WARMING or
  UNAVAILABLE does not clear. `/health` can report a ready engine together with
  the cause of the failure that was observed after it.
- `api/app/routes/jobs.py:135` says the stream will end "on the terminal event".
  For a `Last-Event-ID` that already is the terminal event's there is nothing to
  yield, the test at line 147 is not reached, and the response tails a finished
  job until the client goes. `StreamEnds` of `EventStream` fails with
  `Persistent = TRUE`.
- `api/app/routes/music.py:193` and `286-287` say that POST is already
  serialised by the single slot. The engine slot is free as soon as the job has
  succeeded, before the POST that waits for it has noticed: two POSTs can be in
  ffmpeg at once, and only the semaphore bounds them.
- `api/app/routes/music.py:293` says that the read timeout and the bounded
  readiness "guarantee the job terminates". A docker answer that is JSON but no
  object raises `AttributeError` in `parse_container_state`; `_loop`
  (`api/jobs/runner.py:141`) catches `JobTransitionError` only, so the worker task
  ends, jobs are still accepted, and every POST waits for ever. At shutdown
  `stop()` awaits that task and re-raises its exception, and `aclose()` after it
  is not reached. In the idle loop the same answer ends the loop, and `_arm_idle`
  does not replace a task that is done. `Serving` has these steps (`WorkerDies`,
  `IdleDies`), and `GpuIsFreed` shows that a dead worker at least leaves the idle
  loop its work. `CloudService` and `WebUI` have the dead worker too: there
  `PostsAreAnswered` and `GenerateComesBack` end with it.
- `api/lifecycle/readiness.py:215-218` says that status and start "cannot extend
  the wait" past the readiness timeout. They are awaited without looking at the
  deadline, which is tested only after a probe of the poll loop: a caller may wait
  for the timeout plus one status, one start and one probe. `EnsureReadyReturns`
  holds all the same.
- `api/engines/sglang/client.py:58` says that a result "always carries real
  bytes"; a 2xx with an empty body is returned as audio of no bytes.
- `api/compat/minimax.py:5-6` and `api/app/routes/music.py:151-152` say that every
  field that cannot be honoured is refused by name, "never silently defaulted". Two
  kinds of field are not. A key that `translate` or `resolve_transcode` does not
  look at (`aigc_watermark`, or `channel` in `audio_setting`) is accepted and
  ignored; `tests/test_lifecycle_ingress.py:10-14` says that this is meant, and
  `UnknownFieldsAreInert` says what it amounts to. And a bit rate of 256000 at
  16000 or 24000 Hz passes both enums (`api/transcode/ffmpeg.py:93-107`), but
  libmp3lame has no more than 160000 there and ffmpeg does not fail: the file is
  not what was asked for, though the repository's `README.md:92-93` counts `bitrate` among the
  fields honoured. `KnownFieldsTakeEffect` is stated up to `EncoderRate`.
- `tests/test_lifecycle_ingress.py:5-6` says that unknown fields are discarded "so
  none is ever recorded". Those inside `audio_setting` are: `translate` records it
  verbatim.
- `api/transcode/ffmpeg.py:5-6` says that `extra_info` is "measured, never assumed".
  When ffprobe gives no bit rate, line 176 reports that of 16-bit samples, for an
  mp3 too. What it does give is the container's, headers included, so the reported
  bit rate is not exactly the one of the audio either.
- `api/compat/minimax.py:151` calls the estimate an "UPPER-BOUND"; it leaves out the
  wav header and mp3's padding. No accepted request comes near the default ceiling.
- `api/app/routes/music.py:324` says that a corrupt sidecar is answered 404; one
  whose JSON is no object raises `AttributeError` instead.
- `api/app/static/app.js:510` says that a cancel request that failed leaves the
  label at "Cancelling…"; the `finally` at line 513 renders the old status over
  it at once.

## Not modelled

- *String functions*: the path gates of the artifact store (`validate_job_id`,
  `resolve_within`, the root's check), the parsing of durations and of the
  environment, the error table's texts. Every question one would
  ask of them is about characters, and a model whose ids are model values would
  answer it by construction.
- *The page's library, player and ETA fit.* They render one listing or one audio
  element, and nothing else reads their state. Their known race is mild: of two
  overlapping `loadArtifacts` (`api/app/static/app.js:643`) the older answer may
  be shown until the next one.
- *Time itself*: clocks are comparisons that may turn at any moment; durations
  and throughput are not properties here.
- *Corrupt files*: sidecars are written by the code and read back whole
  (`CompleteIsWhole`); what hands or disks do to them is outside.
- *A page across reloads or a server restart*: jobs live in memory, and the page
  has no handler for a stream that fails for good
  (`api/app/static/app.js:361`); there is no behaviour to have a property about.
- *A start that is carried out late*: a `start` that raised was carried out by then
  or never is (`MayHaveStarted`); only a stop may still follow later.
- *ffmpeg that hangs*: nothing bounds it (`api/transcode/ffmpeg.py:140`), and
  `PostsAreAnswered` assumes that it ends.
- Docker, the engine, Starlette, ffmpeg, the browser and the file system are
  external: modelled from how the code uses them. Markup, deployment files and
  schemas have no behaviour of their own.

## Order of the work

Most important behaviour first: the runner with its abstract service and proofs;
readiness with its proofs; the event stream; the artifact store; the cloud edge
and the page over the abstract service; the composition of runner and readiness;
the contract of the cloud request; the proofs of all the others; then the cloud
edge and the page over the runner itself, with the proofs that they are the same,
and the abstract artifact store. A next module would be the page's library; a next
theorem, that the stream a page reads in `PageService` is one of `EventStream`'s.
