----------------------------- MODULE CloudEdge ------------------------------
(***************************************************************************)
(* The cloud-compatible edge (api/app/routes/music.py): the blocking POST  *)
(* /v1/music_generation and the GET that re-delivers a result, with the    *)
(* plain download of a stored artifact (api/app/routes/artifacts.py), on   *)
(* top of the job service that JobLifecycle describes and JobRunner        *)
(* implements.                                                             *)
(*                                                                         *)
(* A handler is one coroutine per request; an action is what it does       *)
(* between two awaits, or what its ffmpeg thread does.  A request owns a   *)
(* descriptor of audio.wav, a slot of the delivery semaphore and a temp    *)
(* file, one after the other, and every way out has to give them back.     *)
(***************************************************************************)
EXTENDS Naturals, FiniteSets

CONSTANTS Jobs, NoJob,  \* as in JobLifecycle
          Posts,        \* blocking generation requests
          Gets,         \* requests for what an earlier job has stored
          Limit,        \* MAX_CONCURRENT_DELIVERIES
          Persist       \* config.artifacts_dir is set

ASSUME LimitAssumption == Limit \in Nat \ {0}
ASSUME RequestsAssumption == IsFiniteSet(Posts) /\ IsFiniteSet(Gets) /\ Posts \cap Gets = {}
ASSUME JobsAssumption == NoJob \notin Jobs
ASSUME PersistAssumption == Persist \in BOOLEAN

Requests == Posts \cup Gets

VARIABLES phase, slot, open,  \* the job service
          stored,   \* jobs with a complete artifact directory
          stage,    \* [Requests -> Stages]: where the handler is
          job,      \* [Requests -> job id]: trace_id
          format,   \* [Requests -> output_format]
          reply,    \* [Requests -> what the client was answered]
          free,     \* places left in delivery_slots
          fds,      \* requests that hold an open descriptor of a stored file
          temps     \* requests whose s4_deliver_* file is on disk

serviceVars == <<phase, slot, open, stored>>
vars == <<serviceVars, stage, job, format, reply, free, fds, temps>>

Service == INSTANCE JobLifecycle

Working == {"transcoding", "measuring"}
Stages == {"idle", "polling", "slotting", "sending", "streaming", "ended"} \cup Working
Replies == {"none", "200", "404", "2013", "5000"}

Init == /\ Service!Init
        /\ stored = {}
        /\ stage = [r \in Requests |-> "idle"]
        /\ job = [r \in Requests |-> NoJob]
        /\ format = [r \in Requests |-> "none"]
        /\ reply = [r \in Requests |-> "none"]
        /\ free = Limit
        /\ fds = {}
        /\ temps = {}

Goto(r, s) == stage' = [stage EXCEPT ![r] = s]

End(r, code) == /\ Goto(r, "ended")
                /\ reply' = [reply EXCEPT ![r] = code]
-----------------------------------------------------------------------------
(* The job service, and its other callers: the WebUI submits and cancels.  *)

Elsewhere == UNCHANGED <<stage, job, format, reply, free, fds, temps>>

JobMoves(j) == /\ \/ Service!Submit(j)
                  \/ Service!Cancel(j)
               /\ UNCHANGED stored
               /\ Elsewhere

JobLeavesQueue(j) == /\ Service!Begin(j) \/ Service!Reject(j)
                     /\ UNCHANGED stored
                     /\ Elsewhere

(* write_artifact published the pair before a success is recorded; a write *)
(* that failed may have published it too.                                  *)
Publishes(j) == stored' = stored \cup {j}

JobFinishes(j) == /\ Service!Finish(j)
                  /\ IF Persist THEN \/ Publishes(j)
                                     \/ phase'[j] = "failed" /\ UNCHANGED stored
                                ELSE UNCHANGED stored
                  /\ Elsewhere

SlotIsFreed(j) == /\ Service!Release(j)
                  /\ UNCHANGED stored
                  /\ Elsewhere

(* The worker is gone: the lifespan stopped it, for which the server lets  *)
(* its requests finish first, or it died between two calls of what its     *)
(* readiness gate raised.  No handler looks at it, and the requests that   *)
(* come after a death are taken as before.                                 *)
WorkerGone == /\ \/ slot = NoJob
                 \/ \A r \in Requests : stage[r] \in {"idle", "ended"}
              /\ Service!Close
              /\ UNCHANGED stored
              /\ Elsewhere
-----------------------------------------------------------------------------
(* POST. *)

(* The body, or a field the local engine cannot honour, is refused before  *)
(* any job exists.                                                         *)
PostRefused(p) == /\ stage[p] = "idle"
                  /\ End(p, "2013")
                  /\ UNCHANGED <<serviceVars, job, format, free, fds, temps>>

PostSubmits(p) == /\ stage[p] = "idle"
                  /\ \E j \in Jobs : /\ Service!Submit(j)
                                     /\ job' = [job EXCEPT ![p] = j]
                  /\ \E f \in {"hex", "url"} : format' = [format EXCEPT ![p] = f]
                  /\ Goto(p, "polling")
                  /\ UNCHANGED <<stored, reply, free, fds, temps>>

(* Slip: _TERMINAL without cancelled. *)
AwaitedShort(j) == phase[j] \in {"succeeded", "failed"}

(* The loop of _await_terminal is over. *)
Awaited(j) == phase[j] \in Service!Terminal

(* Slip: whatever is on disk is delivered. *)
HasAudioBlindly(j) == j \in stored

HasAudio(j) == phase[j] = "succeeded" /\ j \in stored

PostFails(p) == /\ stage[p] = "polling"
                /\ Awaited(job[p])
                /\ ~HasAudio(job[p])
                /\ End(p, "5000")
                /\ UNCHANGED <<serviceVars, job, format, free, fds, temps>>

PostOpens(p) == /\ stage[p] = "polling"
                /\ Awaited(job[p])
                /\ HasAudio(job[p])
                /\ fds' = fds \cup {p}
                /\ Goto(p, "slotting")
                /\ UNCHANGED <<serviceVars, job, format, reply, free, temps>>
-----------------------------------------------------------------------------
(* GET: the audio in the format of its POST ... *)

(* The sidecar carries a cloud envelope. *)
Recorded(j) == \E p \in Posts : job[p] = j

GetArrives(g) == /\ stage[g] = "idle"
                 /\ \E j \in Jobs :
                      /\ job' = [job EXCEPT ![g] = j]
                      /\ IF j \in stored /\ Recorded(j)
                         THEN fds' = fds \cup {g} /\ Goto(g, "slotting") /\ UNCHANGED reply
                         ELSE End(g, "404") /\ UNCHANGED fds
                 /\ UNCHANGED <<serviceVars, format, free, temps>>

(* ... or, with get_artifact, a stored file as it is. *)
DownloadArrives(g) == /\ stage[g] = "idle"
                      /\ \E j \in Jobs :
                           /\ job' = [job EXCEPT ![g] = j]
                           /\ IF j \in stored
                              THEN fds' = fds \cup {g} /\ Goto(g, "sending") /\ UNCHANGED reply
                              ELSE End(g, "404") /\ UNCHANGED fds
                      /\ UNCHANGED <<serviceVars, format, free, temps>>
-----------------------------------------------------------------------------
(* What POST and GET do with the descriptor: wait for a delivery slot, let *)
(* ffmpeg write a temp file, send the file and remove it.                  *)

TakesSlot(r) == /\ stage[r] = "slotting"
                /\ free > 0
                /\ free' = free - 1
                /\ Goto(r, "transcoding")
                /\ UNCHANGED <<serviceVars, job, format, reply, fds, temps>>

(* Slip: the slot is given back on success only. *)
TranscodeFailsKeepingSlot(r) == /\ stage[r] = "transcoding"
                                /\ fds' = fds \ {r}
                                /\ End(r, "5000")
                                /\ UNCHANGED <<serviceVars, job, format, free, temps>>

(* mkstemp or ffmpeg failed: the thread removes what it made, closes the   *)
(* descriptor, and the slot's context manager is left.                     *)
TranscodeFails(r) == /\ stage[r] = "transcoding"
                     /\ fds' = fds \ {r}
                     /\ free' = free + 1
                     /\ End(r, "5000")
                     /\ UNCHANGED <<serviceVars, job, format, temps>>

(* A GET leaves its slot now, a POST once it has measured the file.        *)
Transcoded(r) == /\ stage[r] = "transcoding"
                 /\ fds' = fds \ {r}
                 /\ temps' = temps \cup {r}
                 /\ \/ r \in Posts /\ Goto(r, "measuring") /\ UNCHANGED free
                    \/ r \in Gets /\ Goto(r, "sending") /\ free' = free + 1
                 /\ UNCHANGED <<serviceVars, job, format, reply>>

(* Slip: the temp file of a failed measurement stays. *)
MeasureFailsKeepingTemp(p) == /\ stage[p] = "measuring"
                              /\ free' = free + 1
                              /\ End(p, "5000")
                              /\ UNCHANGED <<serviceVars, job, format, fds, temps>>

MeasureFails(p) == /\ stage[p] = "measuring"
                   /\ free' = free + 1
                   /\ temps' = temps \ {p}
                   /\ End(p, "5000")
                   /\ UNCHANGED <<serviceVars, job, format, fds>>

AnswersLink(p) == /\ stage[p] = "measuring"
                  /\ format[p] = "url"
                  /\ free' = free + 1
                  /\ temps' = temps \ {p}
                  /\ End(p, "200")
                  /\ UNCHANGED <<serviceVars, job, format, fds>>

AnswersHex(p) == /\ stage[p] = "measuring"
                 /\ format[p] = "hex"
                 /\ free' = free + 1
                 /\ Goto(p, "sending")
                 /\ UNCHANGED <<serviceVars, job, format, reply, fds, temps>>

(* The framework asks the body generator for its first chunk: from here on *)
(* the generator's finally clause will run.                                *)
BodyStarts(r) == /\ stage[r] = "sending"
                 /\ Goto(r, "streaming")
                 /\ reply' = [reply EXCEPT ![r] = "200"]
                 /\ UNCHANGED <<serviceVars, job, format, free, fds, temps>>

(* All was sent, or the client left and the generator was closed: it       *)
(* removes its temp file, or closes the descriptor it sent from.           *)
BodyEnds(r) == /\ stage[r] = "streaming"
               /\ Goto(r, "ended")
               /\ temps' = temps \ {r}
               /\ fds' = fds \ {r}
               /\ UNCHANGED <<serviceVars, job, format, reply, free>>

(* The framework finds the client gone before it asks for the first chunk: *)
(* the body of a generator that never ran has no finally clause to run.    *)
(* (The client may have left long before: a disconnect does not cancel the *)
(* handler, which notices nothing until here.)                             *)
BodyDropped(r) == /\ stage[r] = "sending"
                  /\ Goto(r, "ended")
                  /\ UNCHANGED <<serviceVars, job, format, reply, free, fds, temps>>
-----------------------------------------------------------------------------
Delivers(r) == \/ TakesSlot(r)
               \/ TranscodeFails(r)
               \/ Transcoded(r)
               \/ BodyStarts(r)
               \/ BodyEnds(r)
               \/ BodyDropped(r)

Posting(p) == \/ PostFails(p)
              \/ PostOpens(p)
              \/ MeasureFails(p)
              \/ AnswersLink(p)
              \/ AnswersHex(p)

Next == \/ \E j \in Jobs : JobMoves(j) \/ JobLeavesQueue(j) \/ JobFinishes(j) \/ SlotIsFreed(j)
        \/ WorkerGone
        \/ \E p \in Posts : PostRefused(p) \/ PostSubmits(p) \/ Posting(p)
        \/ \E g \in Gets : GetArrives(g) \/ DownloadArrives(g)
        \/ \E r \in Requests : Delivers(r)

Spec == Init /\ [][Next]_vars
-----------------------------------------------------------------------------
(* The types of the service's state and of the requests, and of what they  *)
(* hold: delivery slots, descriptors and temp files.                       *)
TypeOK == /\ phase \in [Jobs -> Service!Phases]
          /\ slot \in Jobs \cup {NoJob}
          /\ open \in BOOLEAN
          /\ stored \subseteq Jobs
          /\ stage \in [Requests -> Stages]
          /\ job \in [Requests -> Jobs \cup {NoJob}]
          /\ format \in [Requests -> {"none", "hex", "url"}]
          /\ reply \in [Requests -> Replies]
          /\ free \in 0 .. Limit
          /\ fds \subseteq Requests
          /\ temps \subseteq Requests

(* TP-1: no more ffmpegs than delivery slots, and no failure of any kind   *)
(* loses a slot, which would block every later delivery.                   *)
SlotsConserved == free + Cardinality({r \in Requests : stage[r] \in Working}) = Limit

(* A descriptor is open only while its transcode waits or runs, or while   *)
(* it is sent; a temp file exists only between its transcode and the end   *)
(* of its body.  The one way to leave either behind is a body whose client *)
(* had gone before its first chunk.                                        *)
Dropped(r) == stage[r] = "ended" /\ reply[r] = "none"

HandlesBelongToWork ==
  /\ \A r \in fds : \/ stage[r] \in {"slotting", "transcoding"}
                    \/ r \in Gets /\ (stage[r] \in {"sending", "streaming"} \/ Dropped(r))
  /\ \A r \in temps : stage[r] \in {"measuring", "sending", "streaming"} \/ Dropped(r)

(* An answer tells what became of the request's own job: audio or a link   *)
(* only for a job that succeeded and is on disk, a refusal only when no    *)
(* job was made.                                                           *)
AnswerTellsTheJob ==
  \A p \in Posts : /\ reply[p] = "200" => phase[job[p]] = "succeeded" /\ job[p] \in stored
                   /\ reply[p] = "2013" => job[p] = NoJob

(* The link a POST has returned works for as long as the service lives: no *)
(* later GET for that job, of either kind, answers 404.                    *)
Linked(j) == \E p \in Posts : job[p] = j /\ format[p] = "url" /\ reply[p] = "200"

LinksWork == [][\A g \in Gets : stage[g] = "idle" /\ reply'[g] = "404" => ~Linked(job'[g])]_vars

(* Every POST is answered, as long as the worker lives: there is no        *)
(* route-level timeout, so this rests on every job ending and on slots     *)
(* coming back (the fairness is CloudService's).                           *)
PostsAreAnswered == \A p \in Posts : stage[p] = "polling" ~> stage[p] = "ended" \/ ~open

(* "The temp file is removed when streaming ends (also on a client         *)
(* disconnect ...)"; "Yield a held fd's bytes in chunks and close it (also *)
(* on early client disconnect / GC)".                                      *)
HandlesGoWithTheBody == \A r \in temps \cup fds : stage[r] # "ended"
=============================================================================
