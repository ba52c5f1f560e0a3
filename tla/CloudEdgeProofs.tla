-------------------------- MODULE CloudEdgeProofs ---------------------------
(***************************************************************************)
(* What CloudEdge guarantees for any number of jobs, requests and delivery *)
(* slots.  IInv is the inductive invariant the safety properties follow    *)
(* from.                                                                   *)
(***************************************************************************)
EXTENDS CloudService, FiniteSetTheorems, TLAPS

RP == INSTANCE JobRunnerProofs WITH status <- phase, current <- slot, artifacts <- stored

(* Who holds a delivery slot. *)
Workers == {r \in Requests : stage[r] \in Working}

(* A request is answered on its way out, or with its first chunk.          *)
ReplyInv == \A r \in Requests : stage[r] \notin {"streaming", "ended"} => reply[r] = "none"

(* A POST has a job from its submission on, and goes past the wait for it  *)
(* only when the job succeeded and its artifact is on disk.                *)
Past == {"slotting", "sending", "streaming"} \cup Working

PostInv == \A p \in Posts :
  /\ stage[p] = "idle" => job[p] = NoJob
  /\ stage[p] = "polling" => job[p] \in Jobs
  /\ stage[p] \in Past => phase[job[p]] = "succeeded" /\ job[p] \in stored

Inv == /\ ReplyInv
       /\ PostInv
       /\ AnswerTellsTheJob
       /\ HandlesBelongToWork

IInv == TypeOK /\ SlotsConserved /\ Inv
-----------------------------------------------------------------------------
(* The set of those who hold a slot is finite, and its size follows the    *)
(* stage of the one request that moves.                                    *)
LEMMA WorkersFinite == IsFiniteSet(Workers) /\ Cardinality(Workers) \in Nat
<1>1. IsFiniteSet(Requests)
  BY RequestsAssumption, FS_Union DEF Requests
<1>2. Workers \in SUBSET Requests
  BY DEF Workers
<1> QED
  BY <1>1, <1>2, FS_Subset, FS_CardinalityType

LEMMA EntersWork ==
  ASSUME TypeOK, NEW r \in Requests, NEW s \in Working, Goto(r, s), stage[r] \notin Working
  PROVE  Cardinality(Workers') = Cardinality(Workers) + 1
<1>1. Workers' = Workers \cup {r}
  BY DEF TypeOK, Goto, Workers
<1>2. r \notin Workers
  BY DEF Workers
<1> QED
  BY <1>1, <1>2, WorkersFinite, FS_AddElement

LEMMA LeavesWork ==
  ASSUME TypeOK, NEW r \in Requests, NEW s \in Stages \ Working, Goto(r, s), stage[r] \in Working
  PROVE  Cardinality(Workers') = Cardinality(Workers) - 1
<1>1. Workers' = Workers \ {r}
  BY DEF TypeOK, Goto, Workers
<1>2. r \in Workers
  BY DEF Workers
<1> QED
  BY <1>1, <1>2, WorkersFinite, FS_RemoveElement

LEMMA SameWork ==
  ASSUME TypeOK, NEW r \in Requests, NEW s \in Stages, Goto(r, s),
         stage[r] \in Working <=> s \in Working
  PROVE  Workers' = Workers
  BY DEF TypeOK, Goto, Workers

LEMMA NoWork == ASSUME UNCHANGED stage PROVE Workers' = Workers
  BY DEF Workers

(* SlotsConserved after a step: a slot taken, given back, or left alone.   *)
LEMMA SlotTaken ==
  ASSUME TypeOK, SlotsConserved, NEW r \in Requests, TakesSlot(r)
  PROVE  SlotsConserved' /\ free' \in Nat
<1>1. Cardinality(Workers') = Cardinality(Workers) + 1
  BY EntersWork DEF TakesSlot, Working
<1>2. free \in Nat /\ free > 0 /\ free' = free - 1
  BY LimitAssumption DEF TypeOK, TakesSlot
<1>3. free + Cardinality(Workers) = Limit
  BY DEF SlotsConserved, Workers
<1>4. free' + Cardinality(Workers') = Limit /\ free' \in Nat
  BY <1>1, <1>2, <1>3, WorkersFinite
<1> QED
  BY <1>4 DEF SlotsConserved, Workers

LEMMA SlotBack ==
  ASSUME TypeOK, SlotsConserved, NEW r \in Requests, NEW s \in Stages \ Working,
         stage[r] \in Working, Goto(r, s), free' = free + 1
  PROVE  SlotsConserved' /\ free' \in Nat
<1>1. Cardinality(Workers') = Cardinality(Workers) - 1
  BY LeavesWork
<1>2. free \in Nat
  BY LimitAssumption DEF TypeOK
<1>3. free + Cardinality(Workers) = Limit
  BY DEF SlotsConserved, Workers
<1>4. free' + Cardinality(Workers') = Limit /\ free' \in Nat
  BY <1>1, <1>2, <1>3, WorkersFinite
<1> QED
  BY <1>4 DEF SlotsConserved, Workers

LEMMA SlotUntouched ==
  ASSUME TypeOK, SlotsConserved, UNCHANGED free, Workers' = Workers
  PROVE  SlotsConserved' /\ free' \in Nat
<1>1. free + Cardinality(Workers) = Limit
  BY DEF SlotsConserved, Workers
<1>2. free' + Cardinality(Workers') = Limit
  BY <1>1
<1>3. free' \in Nat
  BY LimitAssumption DEF TypeOK
<1> QED
  BY <1>2, <1>3 DEF SlotsConserved, Workers

(* No more slots are free than there are. *)
LEMMA FreeBounded ==
  ASSUME SlotsConserved', free' \in Nat
  PROVE  free' \in 0 .. Limit
<1>1. Cardinality(Workers)' \in Nat
  <2>1. IsFiniteSet(Requests)
    BY RequestsAssumption, FS_Union DEF Requests
  <2>2. Workers' \in SUBSET Requests
    BY DEF Workers
  <2> QED
    BY <2>1, <2>2, FS_Subset, FS_CardinalityType
<1>2. free' + Cardinality(Workers)' = Limit
  BY DEF SlotsConserved, Workers
<1> QED
  BY <1>1, <1>2, LimitAssumption

(* Every action keeps the slots: the four ways out of a transcode or a     *)
(* measurement give theirs back, and nothing else moves one.               *)
LEMMA SlotStep == TypeOK /\ SlotsConserved /\ [Next]_vars => SlotsConserved' /\ free' \in Nat
<1> SUFFICES ASSUME TypeOK, SlotsConserved, [Next]_vars
             PROVE  SlotsConserved' /\ free' \in Nat
  OBVIOUS
<1>0. /\ Posts \subseteq Requests
      /\ Gets \subseteq Requests
      /\ Posts \cap Gets = {}
  BY RequestsAssumption DEF Requests
<1> DEFINE Kept == UNCHANGED free /\ Workers' = Workers
<1>1. Kept => SlotsConserved' /\ free' \in Nat
  BY SlotUntouched
<1>2. ASSUME NEW j \in Jobs, JobMoves(j) \/ JobLeavesQueue(j) \/ JobFinishes(j) \/ SlotIsFreed(j)
      PROVE  Kept
  BY <1>2, NoWork DEF JobMoves, JobLeavesQueue, JobFinishes, SlotIsFreed, Elsewhere
<1>3. CASE WorkerGone
  BY <1>1, <1>3, NoWork DEF WorkerGone, Elsewhere
<1>4. ASSUME NEW p \in Posts, PostRefused(p) \/ PostSubmits(p) \/ PostFails(p) \/ PostOpens(p)
      PROVE  Kept
  BY <1>0, <1>4, SameWork DEF PostRefused, PostSubmits, PostFails, PostOpens, End, Working, Stages
<1>5. ASSUME NEW p \in Posts, MeasureFails(p) \/ AnswersLink(p) \/ AnswersHex(p)
      PROVE  SlotsConserved' /\ free' \in Nat
  BY <1>0, <1>5, SlotBack DEF MeasureFails, AnswersLink, AnswersHex, End, Working, Stages
<1>6. ASSUME NEW g \in Gets, GetArrives(g) \/ DownloadArrives(g)
      PROVE  Kept
  BY <1>0, <1>6, SameWork DEF GetArrives, DownloadArrives, End, Working, Stages
<1>7. ASSUME NEW r \in Requests, TakesSlot(r)
      PROVE  SlotsConserved' /\ free' \in Nat
  BY <1>7, SlotTaken
<1>8. ASSUME NEW r \in Requests, TranscodeFails(r)
      PROVE  SlotsConserved' /\ free' \in Nat
  BY <1>8, SlotBack DEF TranscodeFails, End, Working, Stages
<1>9. ASSUME NEW r \in Requests, Transcoded(r)
      PROVE  SlotsConserved' /\ free' \in Nat
  <2>1. CASE r \in Posts
    BY <1>0, <1>1, <1>9, <2>1, SameWork DEF Transcoded, Working, Stages
  <2>2. CASE r \in Gets
    BY <1>0, <1>9, <2>2, SlotBack DEF Transcoded, Working, Stages
  <2> QED
    BY <2>1, <2>2 DEF Requests
<1>10. ASSUME NEW r \in Requests, BodyStarts(r) \/ BodyEnds(r) \/ BodyDropped(r)
       PROVE  Kept
  BY <1>10, SameWork DEF BodyStarts, BodyEnds, BodyDropped, Working, Stages
<1>11. CASE UNCHANGED vars
  BY <1>1, <1>11, NoWork DEF vars
<1> HIDE DEF Kept
<1> QED
  BY <1>1, <1>2, <1>3, <1>4, <1>5, <1>6, <1>7, <1>8, <1>9, <1>10, <1>11
  DEF Next, Posting, Delivers

(* Every action keeps every variable within its type. *)
LEMMA TypeStep == TypeOK /\ SlotsConserved /\ Inv /\ [Next]_vars => TypeOK'
<1> SUFFICES ASSUME TypeOK, SlotsConserved, Inv, [Next]_vars PROVE TypeOK'
  OBVIOUS
<1>0. free' \in 0 .. Limit
  BY SlotStep, FreeBounded
<1>1. /\ Posts \subseteq Requests
      /\ Gets \subseteq Requests
  BY DEF Requests
<1> USE DEF TypeOK, Stages, Working, Replies, Goto, End, Elsewhere, serviceVars
<1>2. ASSUME NEW j \in Jobs, JobMoves(j) \/ JobLeavesQueue(j) \/ JobFinishes(j) \/ SlotIsFreed(j)
      PROVE  TypeOK'
  BY <1>0, <1>2, JobsAssumption DEF JobMoves, JobLeavesQueue, JobFinishes, SlotIsFreed, Publishes,
     Service!Submit, Service!Cancel, Service!Begin, Service!Reject, Service!Finish,
     Service!Release, Service!Enter, Service!Phases, Service!Terminal
<1>3. CASE WorkerGone
  BY <1>0, <1>3 DEF WorkerGone, Service!Close
<1>4. ASSUME NEW p \in Posts, PostRefused(p) \/ PostFails(p) \/ PostOpens(p)
      PROVE  TypeOK'
  BY <1>0, <1>1, <1>4 DEF PostRefused, PostFails, PostOpens
<1>5. ASSUME NEW p \in Posts, PostSubmits(p) PROVE TypeOK'
  BY <1>0, <1>1, <1>5 DEF PostSubmits, Service!Submit, Service!Enter, Service!Phases
<1>6. ASSUME NEW p \in Posts, MeasureFails(p) \/ AnswersLink(p) \/ AnswersHex(p)
      PROVE  TypeOK'
  BY <1>0, <1>1, <1>6 DEF MeasureFails, AnswersLink, AnswersHex
<1>7. ASSUME NEW g \in Gets, GetArrives(g) \/ DownloadArrives(g) PROVE TypeOK'
  BY <1>0, <1>1, <1>7 DEF GetArrives, DownloadArrives
<1>8. ASSUME NEW r \in Requests, TakesSlot(r) \/ TranscodeFails(r) \/ Transcoded(r) PROVE TypeOK'
  BY <1>0, <1>8 DEF TakesSlot, TranscodeFails, Transcoded
<1>9. ASSUME NEW r \in Requests, BodyStarts(r) \/ BodyEnds(r) \/ BodyDropped(r) PROVE TypeOK'
  BY <1>0, <1>9 DEF BodyStarts, BodyEnds, BodyDropped
<1>10. CASE UNCHANGED vars
  BY <1>10 DEF vars
<1> QED
  BY <1>2, <1>3, <1>4, <1>5, <1>6, <1>7, <1>8, <1>9, <1>10 DEF Next, Posting, Delivers

(* A success is for good, and so is what is on disk.                       *)
LEMMA SuccessStays ==
  ASSUME TypeOK, [Next]_vars, NEW j \in Jobs, phase[j] = "succeeded"
  PROVE  phase'[j] = "succeeded"
  BY DEF TypeOK, Next, vars, serviceVars, Posting, Delivers, JobMoves, JobLeavesQueue,
     JobFinishes, SlotIsFreed, WorkerGone, PostRefused, PostSubmits, PostFails, PostOpens,
     GetArrives, DownloadArrives, TakesSlot, TranscodeFails, Transcoded, MeasureFails,
     AnswersLink, AnswersHex, BodyStarts, BodyEnds, BodyDropped, Service!Submit, Service!Cancel,
     Service!Begin, Service!Reject, Service!Finish, Service!Release, Service!Close, Service!Enter

LEMMA StoredStays ==
  ASSUME TypeOK, [Next]_vars
  PROVE  stored \subseteq stored'
  BY DEF TypeOK, Next, vars, serviceVars, Posting, Delivers, JobMoves, JobLeavesQueue,
     JobFinishes, SlotIsFreed, WorkerGone, PostRefused, PostSubmits, PostFails, PostOpens,
     GetArrives, DownloadArrives, TakesSlot, TranscodeFails, Transcoded, MeasureFails,
     AnswersLink, AnswersHex, BodyStarts, BodyEnds, BodyDropped, Publishes

(* Every action preserves what the requests are promised.                  *)
LEMMA InvStep == TypeOK /\ Inv /\ [Next]_vars => Inv'
<1> SUFFICES ASSUME TypeOK, Inv, [Next]_vars PROVE Inv'
  OBVIOUS
<1>0. /\ Posts \subseteq Requests
      /\ Gets \subseteq Requests
      /\ Posts \cap Gets = {}
      /\ Requests = Posts \cup Gets
  BY RequestsAssumption DEF Requests
<1>1. \A j \in Jobs : phase[j] = "succeeded" => phase'[j] = "succeeded"
  BY SuccessStays
<1>2. stored \subseteq stored'
  BY StoredStays
<1>3. \A p \in Posts : job[p] \in Jobs \cup {NoJob}
  BY <1>0 DEF TypeOK
<1>4. \A p \in Posts : stage[p] \in Past \/ reply[p] = "200" => job[p] \in Jobs
  BY <1>0 DEF TypeOK, Inv, PostInv, AnswerTellsTheJob
<1> DEFINE Others == UNCHANGED <<stage, job, reply, fds, temps>>
<1>5. Others => Inv'
  BY <1>0, <1>1, <1>2, <1>3, <1>4 DEF Inv, ReplyInv, PostInv, AnswerTellsTheJob, HandlesBelongToWork, Dropped
<1>6. ASSUME NEW j \in Jobs, JobMoves(j) \/ JobLeavesQueue(j) \/ JobFinishes(j) \/ SlotIsFreed(j)
      PROVE  Others
  BY <1>6 DEF JobMoves, JobLeavesQueue, JobFinishes, SlotIsFreed, Elsewhere
<1>7. CASE WorkerGone \/ UNCHANGED vars
  BY <1>5, <1>7 DEF WorkerGone, Elsewhere, vars
<1> HIDE DEF Others
<1> USE DEF TypeOK, Inv, ReplyInv, PostInv, AnswerTellsTheJob, HandlesBelongToWork, Dropped,
        Past, Working, Stages, Goto, End, serviceVars
<1>8. ASSUME NEW p \in Posts, PostRefused(p) PROVE Inv'
  BY <1>0, <1>1, <1>2, <1>4, <1>8 DEF PostRefused
<1>9. ASSUME NEW p \in Posts, PostSubmits(p) PROVE Inv'
  BY <1>0, <1>1, <1>2, <1>4, <1>9 DEF PostSubmits
<1>10. ASSUME NEW p \in Posts, PostFails(p) PROVE Inv'
  BY <1>0, <1>1, <1>2, <1>4, <1>10, JobsAssumption DEF PostFails
<1>11. ASSUME NEW p \in Posts, PostOpens(p) PROVE Inv'
  BY <1>0, <1>1, <1>2, <1>4, <1>11 DEF PostOpens, HasAudio
<1>12. ASSUME NEW p \in Posts, MeasureFails(p) PROVE Inv'
  BY <1>0, <1>1, <1>2, <1>4, <1>12, JobsAssumption DEF MeasureFails
<1>13. ASSUME NEW p \in Posts, AnswersLink(p) PROVE Inv'
  BY <1>0, <1>1, <1>2, <1>4, <1>13, JobsAssumption DEF AnswersLink
<1>14. ASSUME NEW p \in Posts, AnswersHex(p) PROVE Inv'
  BY <1>0, <1>1, <1>2, <1>4, <1>14 DEF AnswersHex
<1>15. ASSUME NEW g \in Gets, GetArrives(g) PROVE Inv'
  BY <1>0, <1>1, <1>2, <1>4, <1>15 DEF GetArrives
<1>16. ASSUME NEW g \in Gets, DownloadArrives(g) PROVE Inv'
  BY <1>0, <1>1, <1>2, <1>4, <1>16 DEF DownloadArrives
<1>17. ASSUME NEW r \in Requests, TakesSlot(r) PROVE Inv'
  BY <1>0, <1>1, <1>2, <1>4, <1>17 DEF TakesSlot
<1>18. ASSUME NEW r \in Requests, TranscodeFails(r) PROVE Inv'
  BY <1>0, <1>1, <1>2, <1>4, <1>18, JobsAssumption DEF TranscodeFails
<1>19. ASSUME NEW r \in Requests, Transcoded(r) PROVE Inv'
  BY <1>0, <1>1, <1>2, <1>4, <1>19 DEF Transcoded
<1>20. ASSUME NEW r \in Requests, BodyStarts(r) PROVE Inv'
  BY <1>0, <1>1, <1>2, <1>4, <1>20, JobsAssumption DEF BodyStarts
<1>21. ASSUME NEW r \in Requests, BodyEnds(r) PROVE Inv'
  BY <1>0, <1>1, <1>2, <1>4, <1>21 DEF BodyEnds
<1>22. ASSUME NEW r \in Requests, BodyDropped(r) PROVE Inv'
  BY <1>0, <1>1, <1>2, <1>4, <1>22 DEF BodyDropped
<1> QED
  BY <1>5, <1>6, <1>7, <1>8, <1>9, <1>10, <1>11, <1>12, <1>13, <1>14, <1>15, <1>16, <1>17,
     <1>18, <1>19, <1>20, <1>21, <1>22 DEF Next, Posting, Delivers

LEMMA InitIInv == Init => IInv
<1> SUFFICES ASSUME Init PROVE IInv
  OBVIOUS
<1> USE DEF Init, Service!Init
<1>1. TypeOK
  BY LimitAssumption DEF TypeOK, Service!Phases, Stages, Replies
<1>2. SlotsConserved
  <2>1. {r \in Requests : stage[r] \in Working} = {}
    BY DEF Working
  <2> QED
    BY <2>1, FS_EmptySet, LimitAssumption DEF SlotsConserved
<1>3. Inv
  BY DEF Inv, ReplyInv, PostInv, AnswerTellsTheJob, HandlesBelongToWork, Past, Working, Requests
<1> QED
  BY <1>1, <1>2, <1>3 DEF IInv

LEMMA Invariance == Spec => []IInv
<1>1. IInv /\ [Next]_vars => IInv'
  BY SlotStep, TypeStep, InvStep DEF IInv
<1> QED
  BY <1>1, InitIInv, PTL DEF Spec

(* The service's state, the requests' and what they hold have their types, *)
(* for any number of requests and slots.                                   *)
THEOREM TypeCorrect == Spec => []TypeOK
<1>1. IInv => TypeOK
  BY DEF IInv
<1> QED
  BY <1>1, Invariance, PTL

(* TP-1: whatever fails and whoever leaves, every delivery slot is free or *)
(* held by exactly one transcode or measurement under way.                 *)
THEOREM NoSlotIsLost == Spec => []SlotsConserved
<1>1. IInv => SlotsConserved
  BY DEF IInv
<1> QED
  BY <1>1, Invariance, PTL

(* A descriptor or a temp file outlives its request's work only when the   *)
(* body was dropped before its first chunk.                                *)
THEOREM HandlesAreReturned == Spec => []HandlesBelongToWork
<1>1. IInv => HandlesBelongToWork
  BY DEF IInv, Inv
<1> QED
  BY <1>1, Invariance, PTL

(* A POST is answered for its own job: audio or a link for a success that  *)
(* is on disk, a refusal when there is no job.                             *)
THEOREM AnswersAreTrue == Spec => []AnswerTellsTheJob
<1>1. IInv => AnswerTellsTheJob
  BY DEF IInv, Inv
<1> QED
  BY <1>1, Invariance, PTL

(* A GET that answers 404 does so as it arrives, for a job it did not find *)
(* on disk, or not recorded as a cloud job.                                *)
LEMMA NotFound ==
  ASSUME IInv, [Next]_vars, NEW g \in Gets, stage[g] = "idle", reply'[g] = "404"
  PROVE  ~(job'[g] \in stored /\ Recorded(job'[g]))
<1>0. /\ g \in Requests
      /\ g \notin Posts
      /\ reply[g] = "none"
  BY RequestsAssumption DEF Requests, IInv, Inv, ReplyInv
<1>1. GetArrives(g) \/ DownloadArrives(g)
  BY <1>0, RequestsAssumption
  DEF IInv, TypeOK, Requests, Next, vars, serviceVars, Posting, Delivers, JobMoves, JobLeavesQueue,
     JobFinishes, SlotIsFreed, WorkerGone, Elsewhere, PostRefused, PostSubmits, PostFails,
     PostOpens, GetArrives, DownloadArrives, TakesSlot, TranscodeFails, Transcoded, MeasureFails,
     AnswersLink, AnswersHex, BodyStarts, BodyEnds, BodyDropped, End, Goto
<1> QED
  BY <1>0, <1>1 DEF GetArrives, DownloadArrives, IInv, TypeOK

(* The link of an answered POST is never answered 404: its job is on disk, *)
(* stays there and is recorded as a cloud job.                             *)
THEOREM LinksDoWork == Spec => LinksWork
<1>1. IInv /\ [Next]_vars =>
        [\A g \in Gets : stage[g] = "idle" /\ reply'[g] = "404" => ~Linked(job'[g])]_vars
  BY NotFound DEF IInv, Inv, AnswerTellsTheJob, Linked, Recorded
<1> QED
  BY <1>1, Invariance, PTL DEF Spec, LinksWork
-----------------------------------------------------------------------------
(* CloudService: the edge over the runner itself. *)

LEMMA SameRunner == Runner!Next <=> RP!Next
  BY DEF Runner!Terminal, RP!Terminal, Runner!Statuses, RP!Statuses, Runner!Live, RP!Live,
         Runner!Done, RP!Done, Runner!CallStates, RP!CallStates, Runner!Emit, RP!Emit,
         Runner!Move, RP!Move, Runner!EnsureCancelled, RP!EnsureCancelled,
         Runner!Submit, RP!Submit, Runner!Aborted, RP!Aborted, Runner!AbortsCall, RP!AbortsCall,
         Runner!Cancel, RP!Cancel, Runner!Start, RP!Start, Runner!AwaitsLiveCall, RP!AwaitsLiveCall,
         Runner!Stop, RP!Stop, Runner!StopReturns, RP!StopReturns, Runner!CallEnds, RP!CallEnds,
         Runner!CallUnwinds, RP!CallUnwinds, Runner!CancelPending, RP!CancelPending,
         Runner!BackToQueue, RP!BackToQueue, Runner!Take, RP!Take, Runner!Skip, RP!Skip,
         Runner!GateCancelled, RP!GateCancelled, Runner!GateNotReady, RP!GateNotReady,
         Runner!Dispatch, RP!Dispatch, Runner!Outcome, RP!Outcome, Runner!Resume, RP!Resume,
         Runner!ResumeCancelled, RP!ResumeCancelled, Runner!ResumeFailed, RP!ResumeFailed,
         Runner!ResumeSucceeded, RP!ResumeSucceeded,
         Runner!ResumeWriteFails, RP!ResumeWriteFails,
         Runner!ResumeTeardown, RP!ResumeTeardown, Runner!Teardown, RP!Teardown,
         Runner!GateRaises, RP!GateRaises, Runner!Gate, RP!Gate, Runner!ResumeAny, RP!ResumeAny,
         Runner!Worker, RP!Worker, Runner!Next, RP!Next, Runner!storeVars, RP!storeVars,
         Runner!slotVars, RP!slotVars

(* A step of the service is a step of the runner or leaves it alone.       *)
LEMMA RunnerStep == [ServiceNext]_allVars => [RP!Next]_(RP!vars)
<1> SUFFICES ASSUME [ServiceNext]_allVars PROVE [RP!Next]_(RP!vars)
  OBVIOUS
<1>1. CASE RunnerMoves
  <2>1. Runner!Next
    BY <1>1 DEF RunnerMoves, RunnerOnly, Runner!Next
  <2> QED
    BY <2>1, SameRunner
<1>2. CASE Arrivals
  <2>1. ASSUME NEW j \in Jobs, Runner!Submit(j) PROVE RP!Next
    BY <2>1, SameRunner DEF Runner!Next
  <2>2. CASE \E p \in Posts : PostRefused(p) /\ UNCHANGED runnerVars
    BY <2>2 DEF PostRefused, runnerVars, serviceVars, RP!vars
  <2>3. CASE \E g \in Gets : (GetArrives(g) \/ DownloadArrives(g)) /\ UNCHANGED runnerVars
    BY <2>3 DEF GetArrives, DownloadArrives, runnerVars, serviceVars, RP!vars
  <2> QED
    BY <1>2, <2>1, <2>2, <2>3 DEF Arrivals
<1>3. CASE Handlers
  <2>1. UNCHANGED serviceVars
    BY <1>3 DEF Handlers, Posting, Delivers, PostFails, PostOpens, MeasureFails, AnswersLink,
       AnswersHex, TakesSlot, TranscodeFails, Transcoded, BodyStarts, BodyEnds, BodyDropped
  <2> QED
    BY <1>3, <2>1 DEF Handlers, runnerVars, serviceVars, RP!vars
<1>4. CASE UNCHANGED allVars
  BY <1>4 DEF allVars, vars, runnerVars, serviceVars, RP!vars
<1> QED
  BY <1>1, <1>2, <1>3, <1>4 DEF ServiceNext

LEMMA RunnerBehaves == ServiceSpec => RP!Spec
<1>1. ServiceInit => RP!Init
  BY DEF ServiceInit, Runner!Init, RP!Init
<1> QED
  BY <1>1, RunnerStep, PTL DEF ServiceSpec, RP!Spec

(* open says whether the worker's task runs, and it is stopped only once   *)
(* the requests are over.                                                  *)
StopInv == /\ open <=> pc # "done"
           /\ stopper # "none" => AtRest

LEMMA StopStep == TypeOK /\ StopInv /\ [ServiceNext]_allVars => StopInv'
<1> SUFFICES ASSUME TypeOK, StopInv, [ServiceNext]_allVars PROVE StopInv'
  OBVIOUS
<1> USE DEF StopInv
<1>1. CASE RunnerMoves
  <2>1. open' <=> pc' # "done"
    BY <1>1 DEF RunnerMoves, RunnerOnly
  <2>2. UNCHANGED stage
    BY <1>1 DEF RunnerMoves, RunnerOnly, Elsewhere
  <2>3. stopper' # "none" => stopper # "none" \/ AtRest
    <3>1. CASE \E j \in Jobs : \/ Runner!Submit(j) \/ Runner!Cancel(j)
                             \/ Runner!CallEnds(j) \/ Runner!CallUnwinds(j)
      BY <3>1 DEF Runner!Submit, Runner!Cancel, Runner!CallEnds, Runner!CallUnwinds
    <3>2. CASE Runner!Start \/ Runner!StopReturns
      BY <3>2 DEF Runner!Start, Runner!StopReturns
    <3>3. CASE Runner!Worker
      BY <3>3 DEF Runner!Worker, Runner!Take, Runner!Skip, Runner!Gate, Runner!GateCancelled,
         Runner!GateNotReady, Runner!GateRaises, Runner!Dispatch, Runner!ResumeAny, Runner!Resume,
         Runner!ResumeCancelled, Runner!ResumeFailed, Runner!ResumeSucceeded,
         Runner!ResumeWriteFails, Runner!ResumeTeardown, Runner!Teardown
    <3> QED
      BY <1>1, <3>1, <3>2, <3>3 DEF RunnerMoves, RunnerOnly
  <2> QED
    BY <2>1, <2>2, <2>3 DEF AtRest
<1>2. CASE Arrivals
  <2>1. UNCHANGED <<open, pc, stopper>> /\ stopper = "none"
    BY <1>2 DEF Arrivals, PostRefused, PostSubmits, GetArrives, DownloadArrives, runnerVars,
       serviceVars, Service!Submit, Runner!Submit, Runner!slotVars
  <2> QED
    BY <2>1
<1>3. CASE Handlers
  <2>1. UNCHANGED <<open, pc, stopper>>
    BY <1>3 DEF Handlers, Posting, Delivers, PostFails, PostOpens, MeasureFails, AnswersLink,
       AnswersHex, TakesSlot, TranscodeFails, Transcoded, BodyStarts, BodyEnds, BodyDropped,
       serviceVars, runnerVars
  <2>2. ~AtRest
    BY <1>3, RequestsAssumption DEF AtRest, Requests, Handlers, Posting, Delivers, PostFails, PostOpens,
       MeasureFails, AnswersLink, AnswersHex, TakesSlot, TranscodeFails, Transcoded, BodyStarts,
       BodyEnds, BodyDropped
  <2> QED
    BY <2>1, <2>2
<1>4. CASE UNCHANGED allVars
  BY <1>4 DEF allVars, vars, runnerVars, serviceVars, AtRest
<1> QED
  BY <1>1, <1>2, <1>3, <1>4 DEF ServiceNext

(* What the runner's step is to the service it implements, with what it    *)
(* writes to disk: the steps of other callers, of the worker and its end.  *)
JobsMove == \/ \E j \in Jobs : \/ JobMoves(j)
                              \/ JobLeavesQueue(j)
                              \/ JobFinishes(j)
                              \/ SlotIsFreed(j)
            \/ WorkerGone
            \/ UNCHANGED vars

LEMMA JobsMoveStep ==
  ASSUME TypeOK, StopInv, StopInv', open' \in BOOLEAN, Elsewhere,
         RP!IInv, RP!OnlyStopInterrupts, [RP!Next]_(RP!vars)
  PROVE  JobsMove
<1>0. /\ open = (pc # "done")
      /\ open' = (pc' # "done")
  BY DEF TypeOK, StopInv
<1>1. [RP!Lifecycle!Next]_(RP!Lifecycle!vars)
  BY RP!LifecycleStep, JobsAssumption, PersistAssumption
<1>2. \/ UNCHANGED stored
      \/ /\ Persist
         /\ stored' = stored \cup {slot}
         /\ phase[slot] = "running"
         /\ phase'[slot] \in {"succeeded", "failed"}
  BY RP!PublishStep, JobsAssumption, PersistAssumption
<1>3. Persist => \A j \in Jobs : phase'[j] = "succeeded" /\ phase[j] # "succeeded" => j \in stored'
  BY RP!ArtifactsGrow, JobsAssumption, PersistAssumption DEF RP!ArtifactStep
<1>4. phase \in [Jobs -> Service!Phases] /\ slot \in Jobs \cup {NoJob}
  BY DEF TypeOK
<1> USE DEF JobsMove
<1>5. ASSUME NEW j \in Jobs, RP!Lifecycle!Submit(j) \/ RP!Lifecycle!Cancel(j)
      PROVE  JobsMove
  <2>1. UNCHANGED stored
    <3>1. PICK p \in {"queued", "cancelled"} : phase' = [phase EXCEPT ![j] = p]
      BY <1>5 DEF RP!Lifecycle!Submit, RP!Lifecycle!Cancel, RP!Lifecycle!Enter
    <3> QED
      BY <1>2, <1>4, <3>1
  <2>2. Service!Submit(j) \/ Service!Cancel(j)
    BY <1>0, <1>5 DEF RP!Lifecycle!Submit, RP!Lifecycle!Cancel, RP!Lifecycle!Enter,
       Service!Submit, Service!Cancel, Service!Enter
  <2> QED
    BY <2>1, <2>2 DEF JobMoves
<1>6. ASSUME NEW j \in Jobs, RP!Lifecycle!Reject(j) \/ RP!Lifecycle!Begin(j)
      PROVE  JobsMove
  <2>1. UNCHANGED stored
    <3>1. PICK p \in {"failed", "running"} : phase[j] = "queued" /\ phase' = [phase EXCEPT ![j] = p]
      BY <1>6 DEF RP!Lifecycle!Reject, RP!Lifecycle!Begin, RP!Lifecycle!Enter
    <3> QED
      BY <1>2, <1>4, <3>1
  <2>2. Service!Reject(j) \/ Service!Begin(j)
    BY <1>0, <1>6 DEF RP!Lifecycle!Reject, RP!Lifecycle!Begin, RP!Lifecycle!Enter,
       Service!Reject, Service!Begin, Service!Enter
  <2> QED
    BY <2>1, <2>2 DEF JobLeavesQueue
<1>7. ASSUME NEW j \in Jobs, RP!Lifecycle!Finish(j)
      PROVE  JobsMove
  <2>1. Service!Finish(j)
    BY <1>0, <1>7 DEF RP!Lifecycle!Finish, RP!Lifecycle!Enter, Service!Finish, Service!Enter
  <2>2. slot = j /\ phase[j] = "running" /\ phase'[j] \in {"succeeded", "failed"}
    BY <1>4, <1>7 DEF RP!Lifecycle!Finish, RP!Lifecycle!Enter
  <2>3. IF Persist THEN \/ Publishes(j)
                        \/ phase'[j] = "failed" /\ UNCHANGED stored
                   ELSE UNCHANGED stored
    BY <1>2, <1>3, <2>2 DEF Publishes
  <2> QED
    BY <2>1, <2>3 DEF JobFinishes
<1>8. ASSUME NEW j \in Jobs, RP!Lifecycle!Release(j)
      PROVE  JobsMove
  <2>1. Service!Release(j)
    BY <1>0, <1>8 DEF RP!Lifecycle!Release, Service!Release
  <2>2. UNCHANGED stored
    BY <1>2, <1>8 DEF RP!Lifecycle!Release
  <2> QED
    BY <2>1, <2>2 DEF SlotIsFreed
<1>9. CASE RP!Lifecycle!Close
  <2>1. Service!Close
    BY <1>0, <1>9 DEF RP!Lifecycle!Close, Service!Close
  <2>2. UNCHANGED stored
    BY <1>2, <1>9 DEF RP!Lifecycle!Close
  <2>3. slot # NoJob => AtRest
    BY <1>9, RP!StoppedInCall, JobsAssumption, PersistAssumption DEF RP!Lifecycle!Close, StopInv
  <2> QED
    BY <2>1, <2>2, <2>3 DEF WorkerGone, AtRest
<1>10. CASE UNCHANGED RP!Lifecycle!vars
  <2>1. UNCHANGED <<phase, slot, open>>
    BY <1>0, <1>10 DEF RP!Lifecycle!vars
  <2>2. UNCHANGED stored
    BY <1>2, <2>1
  <2> QED
    BY <2>1, <2>2 DEF Elsewhere, vars, serviceVars
<1> HIDE DEF JobsMove
<1> QED
  BY <1>1, <1>5, <1>6, <1>7, <1>8, <1>9, <1>10 DEF RP!Lifecycle!Next

(* Every step of the service is one that CloudEdge allows or leaves its    *)
(* variables alone.                                                        *)
LEMMA EdgeStep ==
  TypeOK /\ StopInv /\ RP!IInv /\ RP!OnlyStopInterrupts /\ [ServiceNext]_allVars => [Next]_vars
<1> SUFFICES ASSUME TypeOK, StopInv, RP!IInv, RP!OnlyStopInterrupts, [ServiceNext]_allVars
             PROVE  [Next]_vars
  OBVIOUS
<1>1. CASE RunnerMoves
  <2>1. StopInv' /\ [RP!Next]_(RP!vars)
    BY StopStep, RunnerStep
  <2>2. Elsewhere /\ open' \in BOOLEAN
    BY <1>1 DEF RunnerMoves, RunnerOnly
  <2>3. JobsMove
    BY <2>1, <2>2, JobsMoveStep
  <2> QED
    BY <2>3 DEF JobsMove, Next
<1>2. CASE Arrivals
  BY <1>2 DEF Arrivals, Next
<1>3. CASE Handlers
  BY <1>3 DEF Handlers, Next
<1>4. CASE UNCHANGED allVars
  BY <1>4 DEF allVars
<1> QED
  BY <1>1, <1>2, <1>3, <1>4 DEF ServiceNext

ServiceInv == IInv /\ RP!IInv /\ RP!OnlyStopInterrupts /\ StopInv

LEMMA ServiceInvariance == ServiceSpec => []ServiceInv
<1>1. ServiceInit => Init /\ StopInv
  BY DEF ServiceInit, Init, Service!Init, Runner!Init, StopInv
<1>2. TypeOK /\ StopInv /\ [ServiceNext]_allVars => StopInv'
  BY StopStep
<1>3. IInv /\ [Next]_vars => IInv'
  BY SlotStep, TypeStep, InvStep DEF IInv
<1>4. IInv => TypeOK
  BY DEF IInv
<1>5. RP!Spec => []RP!IInv
  BY RP!Invariance, JobsAssumption, PersistAssumption
<1>6. RP!Spec => []RP!OnlyStopInterrupts
  BY RP!InterruptsAreAsked, JobsAssumption, PersistAssumption
<1> QED
  BY <1>1, <1>2, <1>3, <1>4, <1>5, <1>6, InitIInv, EdgeStep, RunnerBehaves, PTL
  DEF ServiceSpec, ServiceInv

(* Over the runner's own code the edge is the one CloudEdge describes, so  *)
(* whatever is proved of CloudEdge holds of the service.                   *)
THEOREM EdgeOverRunner == ServiceSpec => Spec
<1>1. ServiceInit => Init
  BY DEF ServiceInit
<1>2. ServiceInv => TypeOK /\ StopInv /\ RP!IInv /\ RP!OnlyStopInterrupts
  BY DEF ServiceInv, IInv
<1> QED
  BY <1>1, <1>2, EdgeStep, ServiceInvariance, PTL DEF ServiceSpec, Spec

(* A GET sends from the file it opened as it came. *)
GetInv == \A g \in Gets : stage[g] \in Sending => job[g] \in stored

LEMMA GetStep == TypeOK /\ GetInv /\ [Next]_vars => GetInv'
<1> SUFFICES ASSUME TypeOK, GetInv, [Next]_vars PROVE GetInv'
  OBVIOUS
<1>0. /\ Posts \cap Gets = {}
      /\ Posts \subseteq Requests
      /\ Gets \subseteq Requests
  BY RequestsAssumption DEF Requests
<1>1. stored \subseteq stored'
  BY StoredStays
<1> USE DEF GetInv, Sending, Working
<1>2. ASSUME NEW g \in Gets, GetArrives(g) \/ DownloadArrives(g) PROVE GetInv'
  BY <1>0, <1>1, <1>2 DEF TypeOK, GetArrives, DownloadArrives, Goto, End
<1>3. ASSUME NEW p \in Posts, PostRefused(p) \/ PostSubmits(p) \/ Posting(p) PROVE GetInv'
  BY <1>0, <1>1, <1>3 DEF TypeOK, PostRefused, PostSubmits, Posting, PostFails, PostOpens,
     MeasureFails, AnswersLink, AnswersHex, Goto, End
<1>4. ASSUME NEW r \in Requests, Delivers(r) PROVE GetInv'
  BY <1>0, <1>1, <1>4 DEF TypeOK, Delivers, TakesSlot, TranscodeFails, Transcoded, BodyStarts,
     BodyEnds, BodyDropped, Goto, End
<1>5. ASSUME Elsewhere \/ UNCHANGED vars PROVE GetInv'
  BY <1>1, <1>5 DEF Elsewhere, vars
<1> QED
  BY <1>2, <1>3, <1>4, <1>5
  DEF Next, JobMoves, JobLeavesQueue, JobFinishes, SlotIsFreed, WorkerGone

LEMMA GetsSendWhatIsStored == Spec => []GetInv
<1>1. Init => GetInv
  BY RequestsAssumption DEF Init, GetInv, Sending, Working, Requests
<1>2. IInv => TypeOK
  BY DEF IInv
<1> QED
  BY <1>1, <1>2, GetStep, Invariance, PTL DEF Spec

(* No route sends a file of a job that was cancelled or still runs, though *)
(* the routes ask the directory only: the runner publishes nothing else.   *)
THEOREM OnlyEndedJobsAreSent == ServiceSpec => []SentIsOver
<1>1. ServiceInv /\ GetInv /\ RP!ArtifactsMatchRecords => SentIsOver
  <2> SUFFICES ASSUME ServiceInv, GetInv, RP!ArtifactsMatchRecords, NEW r \in Requests,
                      stage[r] \in Sending
               PROVE  job[r] \in stored /\ phase[job[r]] \in {"succeeded", "failed"}
    BY DEF SentIsOver
  <2>1. job[r] \in stored
    BY DEF ServiceInv, IInv, Inv, PostInv, Past, GetInv, Sending, Requests
  <2> QED
    BY <2>1 DEF RP!ArtifactsMatchRecords
<1>2. RP!Spec => []RP!ArtifactsMatchRecords
  BY RP!ArtifactsAgree, JobsAssumption, PersistAssumption
<1> QED
  BY <1>1, <1>2, ServiceInvariance, RunnerBehaves, EdgeOverRunner, GetsSendWhatIsStored, PTL

(* A POST that was answered with audio or a link has a job whose stream    *)
(* tells of a job queued, run and succeeded, and of nothing else.          *)
THEOREM AnswerAndStreamAgree == ServiceSpec => []AnswerAgreesWithStream
<1>1. ServiceInv /\ RP!EventsMatchRecord => AnswerAgreesWithStream
  <2> SUFFICES ASSUME ServiceInv, RP!EventsMatchRecord, NEW p \in Posts, reply[p] = "200"
               PROVE  log[job[p]] = <<"queued", "running", "succeeded">>
    BY DEF AnswerAgreesWithStream
  <2>1. job[p] \in stored /\ stored \subseteq Jobs /\ phase[job[p]] = "succeeded"
    BY DEF ServiceInv, IInv, TypeOK, Inv, AnswerTellsTheJob
  <2>2. log[job[p]] \in RP!Story("succeeded")
    BY <2>1 DEF RP!EventsMatchRecord
  <2>3. RP!Story("succeeded") = {<<"queued", "running", "succeeded">>}
    BY Zenon DEF RP!Story
  <2> QED
    BY <2>2, <2>3
<1>2. RP!Spec => []RP!EventsMatchRecord
  BY RP!EventsTellTheRecord, JobsAssumption, PersistAssumption
<1> QED
  BY <1>1, <1>2, ServiceInvariance, RunnerBehaves, PTL
=============================================================================
