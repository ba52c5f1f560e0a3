---------------------------- MODULE WebUIProofs -----------------------------
(***************************************************************************)
(* What the page shows is true for any number of jobs, of presses and of   *)
(* health polls in flight.  ServerInv says what a job's events tell of its *)
(* phase, PageInv whose job every part of the page is about.               *)
(***************************************************************************)
EXTENDS PageService, TLAPS

RP == INSTANCE JobRunnerProofs WITH status <- phase, current <- slot

(* The last event of a job is its phase, and only the last one is an end.  *)
ServerInv == \A j \in Jobs :
  /\ phase[j] # "absent" => Len(log[j]) > 0
  /\ Len(log[j]) > 0 => log[j][Len(log[j])] = phase[j]
  /\ \A i \in 1 .. Len(log[j]) : i # Len(log[j]) => log[j][i] \notin Service!Terminal
  /\ \A i \in 1 .. Len(log[j]) : log[j][i] # "absent"

HasRun(j) == \E i \in 1 .. Len(log[j]) : log[j][i] = "running"

(* The stream, the clock and the label are about the shown job, and its    *)
(* status is one the job has had, or has for good.                         *)
StatusInv == /\ status # "none" => job \in Jobs
             /\ watched \in {NoJob, job}
             /\ anchor \in {NoJob, job}
             /\ label \in {"cancelling", Derive(status, engine)}
             /\ status \in Service!Terminal => phase[job] = status
             /\ status = "running" => HasRun(job)

(* A cancel is about a job of the service, and is answered when it ended.  *)
CancelInv == /\ cancelAt # "none" => cancelOf \in Jobs
             /\ cancelAt \in {"confirmed", "conflict"} => phase[cancelOf] \in Service!Terminal

ResultInv == /\ result # NoJob => result = job /\ phase[job] = "succeeded"
             /\ \A l \in loads : l.max = l.for
             /\ delivered.max = delivered.output

PageInv == StatusInv /\ CancelInv /\ ClockIsTheJobs /\ ResultInv

IInv == TypeOK /\ ServerInv /\ PageInv
-----------------------------------------------------------------------------
(* What the service never takes back: its records keep their types, the    *)
(* end of a job and the events it has had.                                 *)
Grows == /\ phase' \in [Jobs -> Service!Phases]
         /\ slot' \in Jobs \cup {NoJob}
         /\ open' \in BOOLEAN
         /\ log' \in [Jobs -> Seq(Service!Phases)]
         /\ \A k \in Jobs : /\ phase[k] \in Service!Terminal => phase'[k] = phase[k]
                            /\ Len(log[k]) <= Len(log'[k])
                            /\ \A i \in 1 .. Len(log[k]) : log'[k][i] = log[k][i]

(* The steps of the service that move jobs. *)
ServiceStep(j) == /\ \/ Service!Submit(j) \/ Service!Cancel(j) \/ Service!Reject(j)
                     \/ Service!Begin(j) \/ Service!Finish(j) \/ Service!Release(j)
                  /\ Logs(j)

LEMMA AppendOne ==
  ASSUME NEW S, NEW s \in Seq(S), NEW e \in S
  PROVE  /\ Append(s, e) \in Seq(S)
         /\ Len(Append(s, e)) = Len(s) + 1
         /\ Append(s, e)[Len(s) + 1] = e
         /\ \A i \in 1 .. Len(s) : Append(s, e)[i] = s[i]
         /\ Len(s) \in Nat
  OBVIOUS

(* A step of the service moves one job to a phase it was not in, from one  *)
(* that is no end, or moves none.                                          *)
LEMMA ServiceMoves ==
  ASSUME TypeOK, NEW j \in Jobs, ServiceStep(j)
  PROVE  /\ slot' \in Jobs \cup {NoJob}
         /\ open' \in BOOLEAN
         /\ \/ UNCHANGED <<phase, log>>
            \/ \E p \in Service!Phases \ {"absent"} :
                 /\ phase[j] \notin Service!Terminal
                 /\ phase' = [phase EXCEPT ![j] = p]
                 /\ log' = [log EXCEPT ![j] = Append(@, p)]
<1>1. phase \in [Jobs -> Service!Phases] /\ log \in [Jobs -> Seq(Service!Phases)]
  BY DEF TypeOK
<1>2. slot' \in Jobs \cup {NoJob} /\ open' \in BOOLEAN
  BY DEF ServiceStep, TypeOK, Service!Submit, Service!Cancel, Service!Reject, Service!Begin,
         Service!Finish, Service!Release
<1>3. CASE Service!Release(j)
  <2>1. UNCHANGED phase
    BY <1>3 DEF Service!Release
  <2>2. UNCHANGED log
    BY <1>1, <2>1 DEF ServiceStep, Logs
  <2> QED
    BY <1>2, <2>1, <2>2
<1>4. CASE ~Service!Release(j)
  <2>1. PICK p \in Service!Phases \ {"absent"} : /\ phase[j] \notin Service!Terminal
                                                /\ phase[j] # p
                                                /\ phase' = [phase EXCEPT ![j] = p]
    BY <1>4 DEF ServiceStep, Service!Submit, Service!Cancel, Service!Reject, Service!Begin,
                Service!Finish, Service!Enter, Service!Phases, Service!Terminal
  <2>2. phase'[j] = p
    BY <1>1, <2>1
  <2>3. log' = [log EXCEPT ![j] = Append(@, p)]
    BY <2>1, <2>2 DEF ServiceStep, Logs
  <2> QED
    BY <1>2, <2>1, <2>3
<1> QED
  BY <1>3, <1>4

LEMMA ServiceGrows ==
  ASSUME TypeOK, ServerInv, NEW j \in Jobs, ServiceStep(j)
  PROVE  Grows /\ ServerInv'
<1>1. phase \in [Jobs -> Service!Phases] /\ log \in [Jobs -> Seq(Service!Phases)]
  BY DEF TypeOK
<1>2. \A k \in Jobs : log[k] \in Seq(Service!Phases) /\ Len(log[k]) \in Nat
  BY <1>1
<1>3. CASE UNCHANGED <<phase, log>>
  BY <1>1, <1>2, <1>3, ServiceMoves DEF Grows, ServerInv
<1>4. ASSUME NEW p \in Service!Phases \ {"absent"},
             phase[j] \notin Service!Terminal,
             phase' = [phase EXCEPT ![j] = p],
             log' = [log EXCEPT ![j] = Append(@, p)]
      PROVE  Grows /\ ServerInv'
  <2>1. /\ log'[j] = Append(log[j], p)
        /\ phase'[j] = p
        /\ \A k \in Jobs \ {j} : log'[k] = log[k] /\ phase'[k] = phase[k]
    BY <1>1, <1>4
  <2>2. /\ log'[j] \in Seq(Service!Phases)
        /\ Len(log'[j]) = Len(log[j]) + 1
        /\ log'[j][Len(log[j]) + 1] = p
        /\ \A i \in 1 .. Len(log[j]) : log'[j][i] = log[j][i]
    BY <1>2, <2>1, AppendOne
  <2>3. phase' \in [Jobs -> Service!Phases] /\ log' \in [Jobs -> Seq(Service!Phases)]
    <3>1. Append(log[j], p) \in Seq(Service!Phases)
      BY <2>1, <2>2
    <3> QED
      BY <1>1, <1>4, <3>1
  <2>4. Grows
    <3>1. \A k \in Jobs : /\ phase[k] \in Service!Terminal => phase'[k] = phase[k]
                          /\ Len(log[k]) <= Len(log'[k])
                          /\ \A i \in 1 .. Len(log[k]) : log'[k][i] = log[k][i]
      BY <1>2, <1>4, <2>1, <2>2
    <3> QED
      BY <2>3, <3>1, ServiceMoves DEF Grows
  <2>5. \A i \in 1 .. Len(log[j]) : log[j][i] \notin Service!Terminal
    <3> SUFFICES ASSUME NEW i \in 1 .. Len(log[j]) PROVE log[j][i] \notin Service!Terminal
      OBVIOUS
    <3>1. Len(log[j]) > 0
      BY <1>2
    <3>2. CASE i = Len(log[j])
      BY <1>4, <3>1, <3>2 DEF ServerInv
    <3> QED
      BY <3>2 DEF ServerInv
  <2>6. \A i \in 1 .. Len(log'[j]) : i # Len(log'[j]) => i \in 1 .. Len(log[j])
    BY <1>2, <2>2
  <2>7. /\ Len(log'[j]) > 0
        /\ log'[j][Len(log'[j])] = phase'[j]
        /\ \A i \in 1 .. Len(log'[j]) : i # Len(log'[j]) => log'[j][i] \notin Service!Terminal
    BY <1>2, <2>1, <2>2, <2>5, <2>6
  <2>8. \A i \in 1 .. Len(log'[j]) : log'[j][i] # "absent"
    <3> SUFFICES ASSUME NEW i \in 1 .. Len(log'[j]) PROVE log'[j][i] # "absent"
      OBVIOUS
    <3>1. i = Len(log[j]) + 1 \/ i \in 1 .. Len(log[j])
      BY <1>2, <2>2
    <3>2. CASE i = Len(log[j]) + 1
      BY <1>4, <2>2, <3>2
    <3>3. CASE i \in 1 .. Len(log[j])
      <4>1. log'[j][i] = log[j][i]
        BY <2>2, <3>3
      <4>2. log[j][i] # "absent"
        BY <3>3 DEF ServerInv
      <4> QED
        BY <4>1, <4>2
    <3> QED
      BY <3>1, <3>2, <3>3
  <2>9. ServerInv'
    <3>1. ASSUME NEW k \in Jobs \ {j}
          PROVE  /\ phase'[k] # "absent" => Len(log'[k]) > 0
                 /\ Len(log'[k]) > 0 => log'[k][Len(log'[k])] = phase'[k]
                 /\ \A i \in 1 .. Len(log'[k]) : i # Len(log'[k]) => log'[k][i] \notin Service!Terminal
                 /\ \A i \in 1 .. Len(log'[k]) : log'[k][i] # "absent"
      <4>1. log'[k] = log[k] /\ phase'[k] = phase[k]
        BY <2>1
      <4> QED
        BY <4>1 DEF ServerInv
    <3> QED
      BY <2>7, <2>8, <3>1 DEF ServerInv
  <2> QED
    BY <2>4, <2>9
<1> QED
  BY <1>3, <1>4, ServiceMoves

LEMMA ServiceStays ==
  ASSUME TypeOK, ServerInv, UNCHANGED serviceVars
  PROVE  Grows /\ ServerInv'
<1>1. \A k \in Jobs : Len(log[k]) \in Nat
  BY DEF TypeOK
<1> QED
  BY <1>1 DEF serviceVars, Grows, ServerInv, TypeOK
-----------------------------------------------------------------------------
(* What the page shows stays true while the service moves on. *)

PageTypes == /\ job \in Jobs \cup {NoJob}
             /\ status \in {"none"} \cup InFlight \cup Service!Terminal
             /\ engine \in {"none", "warming", "unavailable"}
             /\ label \in {"idle", "generating", "queued", "warming", "unavailable",
                           "cancelling"} \cup Service!Terminal
             /\ locked \in BOOLEAN
             /\ watched \in Jobs \cup {NoJob}
             /\ polls \in 0 .. MaxPolls
             /\ anchor \in Jobs \cup {NoJob}
             /\ ticking \in BOOLEAN
             /\ result \in Jobs \cup {NoJob}
             /\ loads \subseteq [for : Jobs, max : Jobs]
             /\ delivered \in [max : Jobs \cup {NoJob}, output : Jobs \cup {NoJob}]

SeenInv == watched # NoJob => seen \in 0 .. Len(log[watched])

CancelTypes == /\ cancelOf \in Jobs \cup {NoJob}
               /\ cancelAt \in {"none", "sent", "confirmed", "conflict"}

PostType == post \in [Clicks -> {"unused", "sent", "refused", "over"} \cup Jobs]

LEMMA TypeParts ==
  /\ TypeOK => /\ PageTypes /\ SeenInv /\ CancelTypes /\ PostType
               /\ log \in [Jobs -> Seq(Service!Phases)]
  /\ Grows /\ PageTypes' /\ SeenInv' /\ CancelTypes' /\ PostType' => TypeOK'
  BY DEF TypeOK, PageTypes, SeenInv, CancelTypes, PostType, Grows

LEMMA LenType ==
  ASSUME TypeOK
  PROVE  \A j \in Jobs : Len(log[j]) \in Nat /\ log[j] \in Seq(Service!Phases)
  BY DEF TypeOK

LEMMA GrowsLen ==
  ASSUME TypeOK, Grows
  PROVE  \A j \in Jobs : Len(log'[j]) \in Nat /\ Len(log[j]) <= Len(log'[j])
  BY DEF Grows

LEMMA HasRunStays ==
  ASSUME TypeOK, Grows, NEW j \in Jobs, HasRun(j)
  PROVE  HasRun(j)'
<1>1. PICK i \in 1 .. Len(log[j]) : log[j][i] = "running"
  BY DEF HasRun
<1>2. i \in 1 .. Len(log'[j]) /\ log'[j][i] = "running"
  BY <1>1, LenType, GrowsLen DEF Grows
<1> QED
  BY <1>2 DEF HasRun

(* The parts of the page a step leaves alone keep what is known of them.   *)
LEMMA StatusStays ==
  ASSUME TypeOK, StatusInv, ClockIsTheJobs, Grows,
         UNCHANGED <<job, status, engine, label, watched, seen, anchor, ticking>>
  PROVE  StatusInv' /\ ClockIsTheJobs' /\ SeenInv'
<1>1. SeenInv'
  <2>1. SeenInv /\ watched \in Jobs \cup {NoJob}
    BY TypeParts DEF PageTypes
  <2> QED
    BY <2>1, LenType, GrowsLen DEF SeenInv
<1>2. status \in Service!Terminal => phase'[job] = status
  BY DEF StatusInv, Grows, Service!Terminal
<1>3. status = "running" => HasRun(job)'
  BY HasRunStays DEF StatusInv
<1>4. (status = "running" => HasRun(job))'
  BY <1>3 DEF HasRun
<1>5. StatusInv'
  BY <1>2, <1>4 DEF StatusInv, Derive
<1> QED
  BY <1>1, <1>5 DEF ClockIsTheJobs

LEMMA CancelStays ==
  ASSUME TypeOK, CancelInv, Grows, UNCHANGED cancelVars
  PROVE  CancelInv' /\ CancelTypes'
  BY TypeParts DEF CancelInv, CancelTypes, Grows, cancelVars

LEMMA ResultStays ==
  ASSUME TypeOK, ResultInv, Grows, UNCHANGED <<job, resultVars>>
  PROVE  ResultInv'
<1>1. job \in Jobs \cup {NoJob} /\ result \in Jobs \cup {NoJob}
  BY TypeParts DEF PageTypes
<1>2. result # NoJob => result = job /\ phase'[job] = "succeeded"
  BY <1>1, JobsAssumption DEF ResultInv, Grows, Service!Terminal
<1> QED
  BY <1>2 DEF ResultInv, resultVars

LEMMA PageStaysTrue ==
  ASSUME IInv, Grows, ServerInv', PageStays
  PROVE  /\ PageTypes' /\ SeenInv'
         /\ StatusInv' /\ ClockIsTheJobs' /\ ResultInv'
<1>1. PageTypes'
  BY TypeParts DEF IInv, PageTypes, PageStays, renderVars, watchVars, resultVars
<1>2. StatusInv' /\ ClockIsTheJobs' /\ SeenInv'
  BY StatusStays DEF IInv, PageInv, PageStays, renderVars, watchVars
<1>3. ResultInv'
  BY ResultStays DEF IInv, PageInv, PageStays
<1> QED
  BY <1>1, <1>2, <1>3
-----------------------------------------------------------------------------
(* The steps of the service, and of the requests on their way to it. *)

LEMMA ServiceKeeps ==
  ASSUME IInv, NEW j \in Jobs, JobRuns(j) \/ OthersCancel(j)
  PROVE  IInv'
<1>1. ServiceStep(j) /\ PageStays /\ UNCHANGED <<post, cancelVars>>
  BY DEF JobRuns, OthersCancel, ServiceStep
<1>2. Grows /\ ServerInv'
  BY <1>1, ServiceGrows DEF IInv
<1>3. PostType'
  BY <1>1, TypeParts DEF IInv, PostType
<1>4. CancelInv' /\ CancelTypes'
  BY <1>1, <1>2, CancelStays DEF IInv, PageInv
<1> QED
  BY <1>1, <1>2, <1>3, <1>4, PageStaysTrue, TypeParts DEF IInv, PageInv

LEMMA WorkerDiesKeeps ==
  ASSUME IInv, WorkerDies
  PROVE  IInv'
<1>1. /\ UNCHANGED <<phase, log, post, cancelVars>>
      /\ slot' = NoJob
      /\ open' = FALSE
      /\ PageStays
  BY DEF WorkerDies, Service!Close
<1>2. Grows /\ ServerInv'
  <2>1. \A k \in Jobs : Len(log[k]) \in Nat
    BY DEF IInv, TypeOK
  <2>2. TypeOK /\ ServerInv
    BY DEF IInv
  <2>3. phase \in [Jobs -> Service!Phases] /\ log \in [Jobs -> Seq(Service!Phases)]
    BY <2>2 DEF TypeOK
  <2>4. Grows
    <3>1. phase' = phase /\ log' = log /\ slot' \in Jobs \cup {NoJob}
      BY <1>1
    <3>2. open' \in BOOLEAN
      BY <1>1
    <3> QED
      BY <2>1, <2>3, <3>1, <3>2 DEF Grows
  <2>5. ServerInv'
    BY <1>1, <2>2 DEF ServerInv
  <2> QED
    BY <2>4, <2>5
<1>3. PostType'
  BY <1>1, TypeParts DEF IInv, PostType
<1>4. CancelInv' /\ CancelTypes'
  BY <1>1, <1>2, CancelStays DEF IInv, PageInv
<1> QED
  BY <1>1, <1>2, <1>3, <1>4, PageStaysTrue, TypeParts DEF IInv, PageInv

LEMMA PostKeeps ==
  ASSUME IInv, NEW c \in Clicks, ServerAccepts(c) \/ PostGoesWrong(c)
  PROVE  IInv'
<1>1. PageStays /\ UNCHANGED cancelVars
  BY DEF ServerAccepts, PostGoesWrong
<1>2. Grows /\ ServerInv' /\ PostType'
  <2>1. CASE ServerAccepts(c)
    <3>1. PICK j \in Jobs : ServiceStep(j) /\ post' = [post EXCEPT ![c] = j]
      BY <2>1 DEF ServerAccepts, ServiceStep
    <3>2. PostType'
      BY <3>1, TypeParts DEF IInv, PostType
    <3> QED
      BY <3>1, <3>2, ServiceGrows DEF IInv
  <2>2. CASE PostGoesWrong(c)
    <3>1. PostType'
      BY <2>2, TypeParts DEF IInv, PostType, PostGoesWrong
    <3> QED
      BY <2>2, <3>1, ServiceStays DEF IInv, PostGoesWrong
  <2> QED
    BY <2>1, <2>2
<1>3. CancelInv' /\ CancelTypes'
  BY <1>1, <1>2, CancelStays DEF IInv, PageInv
<1> QED
  BY <1>1, <1>2, <1>3, PageStaysTrue, TypeParts DEF IInv, PageInv

LEMMA CancelArrivesKeeps ==
  ASSUME IInv, CancelArrives
  PROVE  IInv'
<1>1. PageStays /\ UNCHANGED <<post, cancelOf>>
  BY DEF CancelArrives
<1>2. cancelOf \in Jobs
  BY DEF CancelArrives, IInv, PageInv, CancelInv
<1>3. Grows /\ ServerInv' /\ CancelInv' /\ CancelTypes'
  <2>1. CASE Service!Cancel(cancelOf) /\ Logs(cancelOf) /\ cancelAt' = "confirmed"
    <3>1. Grows /\ ServerInv'
      BY <1>2, <2>1, ServiceGrows DEF IInv, ServiceStep
    <3>2. phase'[cancelOf] = "cancelled"
      BY <1>2, <2>1 DEF IInv, TypeOK, Service!Cancel, Service!Enter
    <3> QED
      BY <1>1, <1>2, <2>1, <3>1, <3>2 DEF CancelInv, CancelTypes, Service!Terminal
  <2>2. CASE /\ phase[cancelOf] \in Service!Terminal
             /\ cancelAt' = "conflict"
             /\ UNCHANGED serviceVars
    <3>1. Grows /\ ServerInv'
      BY <2>2, ServiceStays DEF IInv
    <3> QED
      BY <1>1, <1>2, <2>2, <3>1 DEF CancelInv, CancelTypes, serviceVars
  <2> QED
    BY <2>1, <2>2 DEF CancelArrives
<1>4. PostType'
  BY <1>1, TypeParts DEF IInv, PostType
<1> QED
  BY <1>1, <1>3, <1>4, PageStaysTrue, TypeParts DEF IInv, PageInv
-----------------------------------------------------------------------------
(* The steps of the page itself. *)

(* Pressing Generate, its refusal and a poll's start touch the button and  *)
(* the poll counter only.                                                  *)
LEMMA ButtonKeeps ==
  ASSUME IInv, UNCHANGED <<serviceVars, job, status, engine, label, watchVars,
                           cancelVars, resultVars>>,
         PostType', locked' \in BOOLEAN, polls' \in 0 .. MaxPolls
  PROVE  IInv'
<1>1. Grows /\ ServerInv'
  BY ServiceStays DEF IInv
<1>2. PageTypes'
  BY TypeParts DEF IInv, PageTypes, watchVars, resultVars
<1>3. StatusInv' /\ ClockIsTheJobs' /\ SeenInv'
  BY <1>1, StatusStays DEF IInv, PageInv, watchVars
<1>4. CancelInv' /\ CancelTypes'
  BY <1>1, CancelStays DEF IInv, PageInv
<1>5. ResultInv'
  BY <1>1, ResultStays DEF IInv, PageInv
<1> QED
  BY <1>1, <1>2, <1>3, <1>4, <1>5, TypeParts DEF IInv, PageInv

LEMMA PressKeeps ==
  ASSUME IInv, NEW c \in Clicks, Press(c) \/ PostRefused(c)
  PROVE  IInv'
<1>1. PostType'
  BY TypeParts DEF IInv, PostType, Press, PostRefused
<1>2. locked' \in BOOLEAN /\ polls' \in 0 .. MaxPolls
  BY TypeParts DEF IInv, PageTypes, Press, PostRefused
<1> QED
  BY <1>1, <1>2, ButtonKeeps DEF Press, PostRefused

LEMMA PollStartsKeeps ==
  ASSUME IInv, PollStarts
  PROVE  IInv'
<1>1. PostType'
  BY TypeParts DEF IInv, PostType, PollStarts
<1>2. locked' \in BOOLEAN /\ polls' \in 0 .. MaxPolls
  BY TypeParts, PollsAssumption DEF IInv, PageTypes, PollStarts, renderVars
<1> QED
  BY <1>1, <1>2, ButtonKeeps DEF PollStarts, renderVars

LEMMA Rendered ==
  ASSUME status' \in {"none"} \cup InFlight \cup Service!Terminal,
         engine' \in {"none", "warming", "unavailable"}, RenderStatus
  PROVE  /\ label' \in {"cancelling", Derive(status, engine)'}
         /\ label' \in {"idle", "generating", "queued", "warming", "unavailable",
                        "cancelling"} \cup Service!Terminal
         /\ locked' \in BOOLEAN
  BY DEF RenderStatus, Derive, CanCancel, InFlight

LEMMA PollEndsKeeps ==
  ASSUME IInv, PollEnds
  PROVE  IInv'
<1>1. /\ UNCHANGED <<serviceVars, post, job, status, watchVars, cancelVars, resultVars>>
      /\ polls' \in 0 .. MaxPolls
      /\ engine' \in {"none", "warming", "unavailable"}
      /\ RenderStatus \/ UNCHANGED <<engine, renderVars>>
  <2>1. polls' \in 0 .. MaxPolls
    BY TypeParts, PollsAssumption DEF IInv, PageTypes, PollEnds
  <2>2. engine \in {"none", "warming", "unavailable"}
    BY TypeParts DEF IInv, PageTypes
  <2> QED
    BY <2>1, <2>2 DEF PollEnds
<1>2. CASE UNCHANGED <<engine, renderVars>>
  <2>1. PostType' /\ locked' \in BOOLEAN
    BY <1>1, <1>2, TypeParts DEF IInv, PageTypes, PostType, renderVars
  <2> QED
    BY <1>1, <1>2, <2>1, ButtonKeeps DEF renderVars
<1>3. CASE RenderStatus
  <2>1. Grows /\ ServerInv'
    BY <1>1, ServiceStays DEF IInv
  <2>2. status' \in {"none"} \cup InFlight \cup Service!Terminal
    BY <1>1, TypeParts DEF IInv, PageTypes
  <2>3. /\ label' \in {"cancelling", Derive(status, engine)'}
        /\ label' \in {"idle", "generating", "queued", "warming", "unavailable",
                       "cancelling"} \cup Service!Terminal
        /\ locked' \in BOOLEAN
    BY <1>1, <1>3, <2>2, Rendered
  <2>4. PageTypes' /\ PostType'
    BY <1>1, <2>3, TypeParts DEF IInv, PageTypes, PostType, watchVars, resultVars
  <2>5. SeenInv' /\ ClockIsTheJobs'
    BY <1>1, TypeParts DEF IInv, PageInv, SeenInv, ClockIsTheJobs, watchVars, serviceVars
  <2>6. StatusInv'
    BY <1>1, <2>3 DEF IInv, PageInv, StatusInv, HasRun, watchVars, serviceVars
  <2>7. CancelInv' /\ CancelTypes'
    BY <1>1, <2>1, CancelStays DEF IInv, PageInv
  <2>8. ResultInv'
    BY <1>1, <2>1, ResultStays DEF IInv, PageInv
  <2> QED
    BY <2>1, <2>4, <2>5, <2>6, <2>7, <2>8, TypeParts DEF IInv, PageInv
<1> QED
  BY <1>1, <1>2, <1>3

LEMMA PostAcceptedKeeps ==
  ASSUME IInv, NEW c \in Clicks, PostAccepted(c)
  PROVE  IInv'
<1>1. /\ UNCHANGED <<serviceVars, cancelVars, loads>>
      /\ job' = post[c] /\ job' \in Jobs
      /\ status' = "queued" /\ engine' = "none"
      /\ anchor' = NoJob /\ watched' = post[c] /\ seen' = 0 /\ ticking' = FALSE
      /\ result' = NoJob /\ delivered' = Nothing
  BY DEF PostAccepted, StartWatching
<1>2. Grows /\ ServerInv'
  BY <1>1, ServiceStays DEF IInv
<1>3. PostType'
  BY TypeParts DEF IInv, PostType, PostAccepted
<1>4. polls' \in 0 .. MaxPolls
  BY TypeParts, PollsAssumption DEF IInv, PageTypes, PostAccepted, StartWatching, PollAdded
<1>5. /\ label' \in {"cancelling", Derive(status, engine)'}
      /\ label' \in {"idle", "generating", "queued", "warming", "unavailable",
                     "cancelling"} \cup Service!Terminal
      /\ locked' \in BOOLEAN
  <2>1. status' \in {"none"} \cup InFlight \cup Service!Terminal
    BY <1>1 DEF InFlight
  <2>2. engine' \in {"none", "warming", "unavailable"} /\ RenderStatus
    BY <1>1 DEF PostAccepted
  <2> QED
    BY <2>1, <2>2, Rendered
<1>6. loads' \subseteq [for : Jobs, max : Jobs] /\ \A l \in loads' : l.max = l.for
  BY <1>1, TypeParts DEF IInv, PageInv, ResultInv, PageTypes
<1>7. delivered' \in [max : Jobs \cup {NoJob}, output : Jobs \cup {NoJob}]
      /\ delivered.max' = delivered.output'
  BY <1>1 DEF Nothing
<1>8. PageTypes'
  BY <1>1, <1>4, <1>5, <1>6, <1>7 DEF PageTypes, InFlight
<1>9. SeenInv' /\ ClockIsTheJobs'
  <2>1. Len(log[watched])' \in Nat
    BY <1>1, LenType DEF IInv, serviceVars
  <2> QED
    BY <1>1, <2>1 DEF SeenInv, ClockIsTheJobs
<1>10. StatusInv'
  BY <1>1, <1>5 DEF StatusInv, Service!Terminal
<1>11. CancelInv' /\ CancelTypes'
  BY <1>1, <1>2, CancelStays DEF IInv, PageInv
<1>12. ResultInv'
  BY <1>1, <1>6, <1>7 DEF ResultInv
<1> QED
  BY <1>2, <1>3, <1>8, <1>9, <1>10, <1>11, <1>12, TypeParts DEF IInv, PageInv

(* An event of the stream is one the shown job has had; the last one of a  *)
(* job that has ended says how.                                            *)
LEMMA EventIsTrue ==
  ASSUME IInv, JobEvent
  PROVE  /\ watched = job /\ job \in Jobs
         /\ seen' \in 1 .. Len(log[job])
         /\ status' = log[job][seen']
         /\ status' \in InFlight \cup Service!Terminal
         /\ status' \in Service!Terminal => phase[job] = status'
         /\ status' = "running" => HasRun(job)
<1>1. watched = job /\ job \in Jobs
  BY TypeParts DEF IInv, PageInv, StatusInv, PageTypes, JobEvent
<1>2. Len(log[job]) \in Nat /\ log[job] \in Seq(Service!Phases)
  BY <1>1, LenType DEF IInv
<1>3. seen' \in 1 .. Len(log[job]) /\ status' = log[job][seen']
  BY <1>1, <1>2, TypeParts DEF IInv, SeenInv, JobEvent
<1>4. status' \in Service!Phases
  BY <1>2, <1>3
<1>5. status' \in Service!Terminal => phase[job] = status'
  <2>1. CASE seen' = Len(log[job])
    BY <1>1, <1>2, <1>3, <2>1 DEF IInv, ServerInv
  <2>2. CASE seen' # Len(log[job])
    BY <1>1, <1>2, <1>3, <2>2 DEF IInv, ServerInv
  <2> QED
    BY <2>1, <2>2
<1>6. status' \in InFlight \cup Service!Terminal
  BY <1>1, <1>3, <1>4 DEF Service!Phases, InFlight, IInv, ServerInv
<1>7. status' = "running" => HasRun(job)
  BY <1>3 DEF HasRun
<1> QED
  BY <1>1, <1>3, <1>5, <1>6, <1>7

LEMMA JobEventKeeps ==
  ASSUME IInv, JobEvent
  PROVE  IInv'
<1>1. /\ UNCHANGED <<phase, slot, open, log, post, job, polls, cancelVars, delivered, engine>>
      /\ watched' = IF status' \in Service!Terminal THEN NoJob ELSE watched
      /\ watched # NoJob
  BY DEF JobEvent, serviceVars
<1>2. Grows /\ ServerInv'
  BY ServiceStays DEF IInv, JobEvent
<1>3. PostType'
  BY <1>1, TypeParts DEF IInv, PostType
<1>4. /\ status' \in {"none"} \cup InFlight \cup Service!Terminal
      /\ engine' \in {"none", "warming", "unavailable"}
  BY <1>1, EventIsTrue, TypeParts DEF IInv, PageTypes
<1>5. /\ label' \in {"cancelling", Derive(status, engine)'}
      /\ label' \in {"idle", "generating", "queued", "warming", "unavailable",
                     "cancelling"} \cup Service!Terminal
      /\ locked' \in BOOLEAN
  BY <1>4, Rendered DEF JobEvent
<1>6. anchor \in {NoJob, job} /\ ticking \in BOOLEAN /\ (ticking => anchor = job /\ watched = job)
  BY TypeParts DEF IInv, PageInv, StatusInv, PageTypes, ClockIsTheJobs
<1>7. anchor' \in {NoJob, job} /\ ticking' \in BOOLEAN
  BY <1>6 DEF JobEvent, Clock
<1>8. ClockIsTheJobs'
  <2>1. CASE status' = "running"
    <3>1. ticking' /\ anchor' = job /\ watched' = job
      BY <1>1, <1>6, <2>1, EventIsTrue DEF JobEvent, Clock, Service!Terminal
    <3> QED
      BY <1>1, <3>1 DEF ClockIsTheJobs
  <2>2. CASE status' # "running"
    <3>1. anchor' = anchor /\ (ticking' => ticking /\ status' \notin Service!Terminal)
      BY <1>6, <2>2 DEF JobEvent, Clock
    <3> QED
      BY <1>1, <1>6, <2>2, <3>1 DEF ClockIsTheJobs
  <2> QED
    BY <2>1, <2>2
<1>9. /\ result' \in Jobs \cup {NoJob}
      /\ loads' \subseteq [for : Jobs, max : Jobs]
      /\ \A l \in loads' : l.max = l.for
      /\ result' # NoJob => result' = job /\ phase[job] = "succeeded"
  <2>1. /\ result \in Jobs \cup {NoJob}
        /\ loads \subseteq [for : Jobs, max : Jobs]
        /\ \A l \in loads : l.max = l.for
        /\ result # NoJob => result = job /\ phase[job] = "succeeded"
    BY TypeParts DEF IInv, PageInv, PageTypes, ResultInv
  <2>2. CASE status' = "succeeded"
    <3>1. result' = job /\ loads' = loads \cup {[for |-> job, max |-> job]}
      BY <2>2, EventIsTrue DEF JobEvent, Succeeds
    <3>2. phase[job] = "succeeded"
      BY <2>2, EventIsTrue DEF Service!Terminal
    <3> QED
      BY <2>1, <3>1, <3>2, EventIsTrue
  <2>3. CASE status' # "succeeded"
    BY <2>1, <2>3 DEF JobEvent, Succeeds
  <2> QED
    BY <2>2, <2>3
<1>10. PageTypes'
  <2>1. job \in Jobs \cup {NoJob} /\ polls \in 0 .. MaxPolls
        /\ delivered \in [max : Jobs \cup {NoJob}, output : Jobs \cup {NoJob}]
    BY TypeParts DEF IInv, PageTypes
  <2>2. watched' \in Jobs \cup {NoJob} /\ anchor' \in Jobs \cup {NoJob}
    BY <1>1, <1>7, <2>1, EventIsTrue
  <2> QED
    BY <1>1, <1>4, <1>5, <1>7, <1>9, <2>1, <2>2 DEF PageTypes
<1>11. SeenInv'
  <2>1. Len(log[job]) \in Nat
    BY EventIsTrue, LenType DEF IInv
  <2>2. seen' \in 0 .. Len(log[job])
    BY <2>1, EventIsTrue
  <2> QED
    BY <1>1, <2>2, EventIsTrue DEF SeenInv
<1>12. StatusInv'
  <2>1. (status = "running" => HasRun(job))'
    BY <1>1, EventIsTrue DEF HasRun
  <2>2. watched' \in {NoJob, job}
    BY <1>1, EventIsTrue
  <2> QED
    BY <1>1, <1>5, <1>7, <2>1, <2>2, EventIsTrue DEF StatusInv
<1>13. CancelInv' /\ CancelTypes'
  BY <1>1, <1>2, CancelStays DEF IInv, PageInv
<1>14. ResultInv'
  <2>1. delivered.max = delivered.output
    BY DEF IInv, PageInv, ResultInv
  <2> QED
    BY <1>1, <1>9, <2>1 DEF ResultInv
<1> QED
  BY <1>2, <1>3, <1>8, <1>10, <1>11, <1>12, <1>13, <1>14, TypeParts DEF IInv, PageInv

LEMMA LoadEndsKeeps ==
  ASSUME IInv, NEW l \in loads, LoadEnds(l)
  PROVE  IInv'
<1>1. UNCHANGED <<serviceVars, post, job, status, engine, renderVars, watchVars, polls,
                  cancelVars, result>>
      /\ loads' \subseteq loads
  BY DEF LoadEnds
<1>2. Grows /\ ServerInv'
  BY <1>1, ServiceStays DEF IInv
<1>3. PostType'
  BY <1>1, TypeParts DEF IInv, PostType
<1>4. l \in [for : Jobs, max : Jobs] /\ l.max = l.for
  BY TypeParts DEF IInv, PageInv, PageTypes, ResultInv
<1>5. /\ delivered' \in [max : Jobs \cup {NoJob}, output : Jobs \cup {NoJob}]
      /\ delivered'.max = delivered'.output
  BY <1>4 DEF LoadEnds, Nothing
<1>6. PageTypes'
  BY <1>1, <1>5, TypeParts DEF IInv, PageTypes, renderVars, watchVars
<1>7. StatusInv' /\ ClockIsTheJobs' /\ SeenInv'
  BY <1>1, <1>2, StatusStays DEF IInv, PageInv, renderVars, watchVars
<1>8. CancelInv' /\ CancelTypes'
  BY <1>1, <1>2, CancelStays DEF IInv, PageInv
<1>9. ResultInv'
  BY <1>1, <1>5 DEF IInv, PageInv, ResultInv, serviceVars
<1> QED
  BY <1>2, <1>3, <1>6, <1>7, <1>8, <1>9, TypeParts DEF IInv, PageInv

(* A request to cancel names the shown job; its answer, if it comes,       *)
(* changes the status of that job only, and to what it is for good.        *)
LEMMA CancelPressKeeps ==
  ASSUME IInv, CancelPress
  PROVE  IInv'
<1>1. /\ UNCHANGED <<serviceVars, post, job, status, engine, locked, watchVars, polls,
                     resultVars>>
      /\ cancelOf' = job /\ cancelAt' = "sent" /\ label' = "cancelling"
  BY DEF CancelPress
<1>2. Grows /\ ServerInv'
  BY <1>1, ServiceStays DEF IInv
<1>3. PostType' /\ PageTypes'
  BY <1>1, TypeParts DEF IInv, PostType, PageTypes, watchVars, resultVars
<1>4. SeenInv' /\ ClockIsTheJobs'
  BY <1>1, TypeParts DEF IInv, PageInv, SeenInv, ClockIsTheJobs, watchVars, serviceVars
<1>5. StatusInv'
  BY <1>1 DEF IInv, PageInv, StatusInv, HasRun, watchVars, serviceVars
<1>6. CancelInv' /\ CancelTypes'
  <2>1. job \in Jobs
    BY DEF CancelPress, CanCancel, InFlight, IInv, PageInv, StatusInv
  <2> QED
    BY <1>1, <2>1 DEF CancelInv, CancelTypes
<1>7. ResultInv'
  BY <1>1, <1>2, ResultStays DEF IInv, PageInv
<1> QED
  BY <1>2, <1>3, <1>4, <1>5, <1>6, <1>7, TypeParts DEF IInv, PageInv

LEMMA CancelEndsKeeps ==
  ASSUME IInv, CancelAnswered \/ CancelGoesWrong
  PROVE  IInv'
<1>1. /\ UNCHANGED <<serviceVars, post, job, engine, watchVars, polls, resultVars>>
      /\ cancelOf' = NoJob /\ cancelAt' = "none"
      /\ RenderStatus
  BY DEF CancelAnswered, CancelGoesWrong, CancelLeaves
<1>2. \/ status' = status
      \/ job \in Jobs /\ phase[job] \in Service!Terminal /\ status' = phase[job]
  BY DEF CancelAnswered, CancelGoesWrong, CancelLeaves, IInv, PageInv, CancelInv
<1>3. Grows /\ ServerInv'
  BY <1>1, ServiceStays DEF IInv
<1>4. /\ status' \in {"none"} \cup InFlight \cup Service!Terminal
      /\ engine' \in {"none", "warming", "unavailable"}
  BY <1>1, <1>2, TypeParts DEF IInv, PageTypes
<1>5. /\ label' \in {"cancelling", Derive(status, engine)'}
      /\ label' \in {"idle", "generating", "queued", "warming", "unavailable",
                     "cancelling"} \cup Service!Terminal
      /\ locked' \in BOOLEAN
  BY <1>1, <1>4, Rendered
<1>6. PostType' /\ PageTypes'
  BY <1>1, <1>4, <1>5, TypeParts DEF IInv, PostType, PageTypes, watchVars, resultVars
<1>7. SeenInv' /\ ClockIsTheJobs'
  BY <1>1, <1>2, TypeParts DEF IInv, PageInv, SeenInv, ClockIsTheJobs, watchVars, serviceVars,
                               Service!Terminal
<1>8. StatusInv'
  BY <1>1, <1>2, <1>5 DEF IInv, PageInv, StatusInv, HasRun, watchVars, serviceVars,
                          Service!Terminal
<1>9. CancelInv' /\ CancelTypes'
  BY <1>1 DEF CancelInv, CancelTypes
<1>10. ResultInv'
  BY <1>1, <1>3, ResultStays DEF IInv, PageInv
<1> QED
  BY <1>3, <1>6, <1>7, <1>8, <1>9, <1>10, TypeParts DEF IInv, PageInv
-----------------------------------------------------------------------------
(* The invariant holds from the start and for ever. *)

LEMMA InitKeeps == Init => IInv
<1> SUFFICES ASSUME Init PROVE IInv
  OBVIOUS
<1>1. TypeOK
  <2>1. <<>> \in Seq(Service!Phases)
    OBVIOUS
  <2>2. log \in [Jobs -> Seq(Service!Phases)] /\ phase \in [Jobs -> Service!Phases]
    BY <2>1 DEF Init, Service!Init, Service!Phases
  <2>3. polls \in 0 .. MaxPolls
    BY PollsAssumption DEF Init
  <2>4. delivered \in [max : Jobs \cup {NoJob}, output : Jobs \cup {NoJob}]
    BY DEF Init, Nothing
  <2> QED
    BY <2>2, <2>3, <2>4 DEF Init, Service!Init, TypeOK
<1>2. ServerInv
  <2>1. \A j \in Jobs : phase[j] = "absent" /\ log[j] = <<>>
    BY DEF Init, Service!Init
  <2> QED
    BY <2>1 DEF ServerInv
<1>3. StatusInv /\ CancelInv /\ ClockIsTheJobs
  BY DEF Init, StatusInv, CancelInv, ClockIsTheJobs, Derive, Service!Terminal
<1>4. ResultInv
  BY DEF Init, Nothing, ResultInv
<1> QED
  BY <1>1, <1>2, <1>3, <1>4 DEF IInv, PageInv

LEMMA InvStep == IInv /\ [Next]_vars => IInv'
<1> SUFFICES ASSUME IInv, [Next]_vars PROVE IInv'
  OBVIOUS
<1>1. ASSUME NEW j \in Jobs, JobRuns(j) \/ OthersCancel(j) PROVE IInv'
  BY <1>1, ServiceKeeps
<1>2. CASE WorkerDies
  BY <1>2, WorkerDiesKeeps
<1>3. ASSUME NEW c \in Clicks, Press(c) PROVE IInv'
  BY <1>3, PressKeeps
<1>4. ASSUME NEW c \in Clicks, Posting(c) PROVE IInv'
  BY <1>4, PostKeeps, PressKeeps, PostAcceptedKeeps DEF Posting
<1>5. CASE JobEvent
  BY <1>5, JobEventKeeps
<1>6. ASSUME NEW l \in loads, LoadEnds(l) PROVE IInv'
  BY <1>6, LoadEndsKeeps
<1>7. CASE PollStarts \/ PollEnds
  BY <1>7, PollStartsKeeps, PollEndsKeeps
<1>8. CASE CancelPress \/ CancelArrives \/ CancelAnswered \/ CancelGoesWrong
  BY <1>8, CancelPressKeeps, CancelArrivesKeeps, CancelEndsKeeps
<1>9. CASE UNCHANGED vars
  <2>1. PostType' /\ locked' \in BOOLEAN /\ polls' \in 0 .. MaxPolls
    BY <1>9, TypeParts DEF IInv, PostType, PageTypes, vars, renderVars
  <2> QED
    BY <1>9, <2>1, ButtonKeeps DEF vars, renderVars
<1> QED
  BY <1>1, <1>2, <1>3, <1>4, <1>5, <1>6, <1>7, <1>8, <1>9 DEF Next

LEMMA Invariance == Spec => []IInv
  BY InitKeeps, InvStep, PTL DEF Spec

(* Every variable of the page keeps its type. *)
THEOREM TypeCorrect == Spec => []TypeOK
<1>1. IInv => TypeOK
  BY DEF IInv
<1> QED
  BY <1>1, Invariance, PTL

(* The status region never runs ahead of the server, whatever is late.     *)
THEOREM PageTellsTheTruth == Spec => []ShownIsTrue
<1>1. IInv => ShownIsTrue
  <2> SUFFICES ASSUME IInv PROVE ShownIsTrue
    OBVIOUS
  <2>1. /\ label \in {"cancelling", Derive(status, engine)}
        /\ engine \in {"none", "warming", "unavailable"}
    BY TypeParts DEF IInv, PageInv, StatusInv, PageTypes
  <2>2. label \in Service!Terminal => label = status
    BY <2>1 DEF Derive, Service!Terminal
  <2>3. label \in Service!Terminal => phase[job] = label
    BY <2>2 DEF IInv, PageInv, StatusInv
  <2>4. label = "generating" => status = "running"
    <3>1. status \in {"none"} \cup InFlight \cup Service!Terminal
      BY TypeParts DEF IInv, PageTypes
    <3> QED
      BY <2>1, <3>1 DEF Derive, Service!Terminal, InFlight
  <2>5. status = "running" => job \in Jobs /\ HasRun(job)
    BY DEF IInv, PageInv, StatusInv
  <2>6. \A j \in Jobs : DOMAIN log[j] = 1 .. Len(log[j])
    BY LenType DEF IInv
  <2>7. label = "generating" => \E i \in DOMAIN log[job] : log[job][i] = "running"
    BY <2>4, <2>5, <2>6 DEF HasRun
  <2> QED
    BY <2>3, <2>7 DEF ShownIsTrue
<1> QED
  BY <1>1, Invariance, PTL

(* The clock runs for the shown job, from that job's own running event.    *)
THEOREM ClockFollowsTheJob == Spec => []ClockIsTheJobs
<1>1. IInv => ClockIsTheJobs
  BY DEF IInv, PageInv
<1> QED
  BY <1>1, Invariance, PTL

(* A result is the shown job's, and a length is compared with the maximum  *)
(* requested for the same job.                                             *)
THEOREM ResultBelongs == Spec => []ResultIsPaired
<1>1. IInv => ResultIsPaired
  BY DEF IInv, PageInv, ResultInv, ResultIsPaired
<1> QED
  BY <1>1, Invariance, PTL
-----------------------------------------------------------------------------
(* PageService: the page over the runner itself. *)

LEMMA SameRunner == /\ Runner!Next <=> RP!Next
                    /\ Runner!Worker <=> RP!Worker
                    /\ Runner!Start <=> RP!Start
                    /\ \A j \in Jobs : /\ Runner!Cancel(j) <=> RP!Cancel(j)
                                       /\ Runner!CallEnds(j) <=> RP!CallEnds(j)
                                       /\ Runner!CallUnwinds(j) <=> RP!CallUnwinds(j)
  BY DEF Runner!Terminal, RP!Terminal, Runner!Statuses, RP!Statuses, Runner!Live, RP!Live,
         Runner!Done, RP!Done, Runner!CallStates, RP!CallStates, Runner!Emit, RP!Emit,
         Runner!Move, RP!Move, Runner!EnsureCancelled, RP!EnsureCancelled,
         Runner!Submit, RP!Submit, Runner!Aborted, RP!Aborted, Runner!AbortsCall, RP!AbortsCall,
         Runner!Cancel, RP!Cancel, Runner!Start, RP!Start, Runner!AwaitsLiveCall, RP!AwaitsLiveCall,
         Runner!Stop, RP!Stop, Runner!StopReturns, RP!StopReturns, Runner!CallEnds, RP!CallEnds,
         Runner!CallUnwinds, RP!CallUnwinds, Runner!CancelPending, RP!CancelPending,
         Runner!BackToQueue, RP!BackToQueue, Runner!Take, RP!Take, Runner!Skip, RP!Skip,
         Runner!GateCancelled, RP!GateCancelled, Runner!GateNotReady, RP!GateNotReady,
         Runner!Dispatch, RP!Dispatch, Runner!Outcome, RP!Outcome, Runner!Resume, RP!Resume,
         Runner!ResumeCancelled, RP!ResumeCancelled, Runner!ResumeFailed, RP!ResumeFailed,
         Runner!ResumeSucceeded, RP!ResumeSucceeded,
         Runner!ResumeWriteFails, RP!ResumeWriteFails,
         Runner!ResumeTeardown, RP!ResumeTeardown, Runner!Teardown, RP!Teardown,
         Runner!GateRaises, RP!GateRaises, Runner!Gate, RP!Gate, Runner!ResumeAny, RP!ResumeAny,
         Runner!Worker, RP!Worker, Runner!Next, RP!Next, Runner!storeVars, RP!storeVars,
         Runner!slotVars, RP!slotVars

(* open says whether the worker's task runs, and nobody stops it. *)
StopInv == /\ open <=> pc # "done"
           /\ stopper = "none"

RunnerInv == RP!IInv /\ RP!OnlyStopInterrupts

ServiceInv == IInv /\ RunnerInv /\ StopInv

(* What the page does on its own leaves the service alone, and a cancel    *)
(* that comes too late does.                                               *)
LEMMA PageLeavesService == PageMoves => UNCHANGED serviceVars
  BY DEF PageMoves, Press, Answered, PostGoesWrong, PostRefused, PostAccepted, JobEvent, LoadEnds,
     PollStarts, PollEnds, CancelPress, CancelAnswered, CancelGoesWrong, CancelLeaves

LEMMA LateCancel ==
  ASSUME IInv, CancelArrives, UNCHANGED phase
  PROVE  UNCHANGED serviceVars
<1>1. phase \in [Jobs -> Service!Phases] /\ cancelOf \in Jobs
  BY DEF IInv, TypeOK, PageInv, CancelInv, CancelArrives
<1>2. ~Service!Cancel(cancelOf)
  BY <1>1 DEF Service!Cancel, Service!Enter
<1> QED
  BY <1>2 DEF CancelArrives

(* A step of the service is a step of the runner or leaves it alone.       *)
LEMMA RunnerStep ==
  ASSUME IInv, [ServiceNext]_allVars
  PROVE  [RP!Next]_(RP!vars)
<1> DEFINE Alone == UNCHANGED serviceVars /\ UNCHANGED runnerVars
<1>0. Alone => UNCHANGED RP!vars
  BY DEF runnerVars, serviceVars, RP!vars
<1> HIDE DEF Alone
<1>1. CASE RunnerMoves
  <2>1. Runner!Next
    BY <1>1 DEF RunnerMoves, RunnerOnly, Runner!Next
  <2> QED
    BY <2>1, SameRunner
<1>2. ASSUME NEW c \in Clicks, Accepts(c) PROVE RP!Next
  BY <1>2, SameRunner DEF Accepts, Runner!Next
<1>3. CASE Cancels
  <2>1. cancelOf \in Jobs
    BY <1>3 DEF IInv, PageInv, CancelInv, Cancels, CancelArrives
  <2>2. CASE UNCHANGED phase
    BY <1>0, <1>3, <2>2, LateCancel DEF Cancels, Alone
  <2>3. CASE ~UNCHANGED phase
    BY <1>3, <2>1, <2>3, SameRunner DEF Cancels, Runner!Next
  <2> QED
    BY <2>2, <2>3
<1>4. CASE PageOnly(PageMoves)
  BY <1>0, <1>4, PageLeavesService DEF PageOnly, Alone
<1>5. CASE UNCHANGED allVars
  BY <1>0, <1>5 DEF allVars, vars, Alone
<1> QED
  BY <1>1, <1>2, <1>3, <1>4, <1>5 DEF ServiceNext

LEMMA StopStep ==
  ASSUME TypeOK, StopInv, [ServiceNext]_allVars
  PROVE  StopInv'
<1> USE DEF StopInv
<1>1. CASE RunnerMoves
  <2>1. open' <=> pc' # "done"
    BY <1>1 DEF RunnerMoves, RunnerOnly
  <2>2. UNCHANGED stopper
    <3>1. CASE \E j \in Jobs : Runner!Cancel(j) \/ Runner!CallEnds(j) \/ Runner!CallUnwinds(j)
      BY <3>1 DEF Runner!Cancel, Runner!CallEnds, Runner!CallUnwinds
    <3>2. CASE Runner!Start
      BY <3>2 DEF Runner!Start
    <3>3. CASE Runner!Worker
      BY <3>3 DEF Runner!Worker, Runner!Take, Runner!Skip, Runner!Gate, Runner!GateCancelled,
         Runner!GateNotReady, Runner!GateRaises, Runner!Dispatch, Runner!ResumeAny, Runner!Resume,
         Runner!ResumeCancelled, Runner!ResumeFailed, Runner!ResumeSucceeded,
         Runner!ResumeWriteFails, Runner!ResumeTeardown, Runner!Teardown
    <3> QED
      BY <1>1, <3>1, <3>2, <3>3 DEF RunnerMoves, RunnerOnly
  <2> QED
    BY <2>1, <2>2
<1>2. ASSUME NEW c \in Clicks, Accepts(c) PROVE StopInv'
  BY <1>2 DEF Accepts, ServerAccepts, Service!Submit, Runner!Submit, Runner!slotVars
<1>3. CASE Cancels
  <2>1. UNCHANGED open
    BY <1>3 DEF Cancels, CancelArrives, Service!Cancel, serviceVars
  <2>2. UNCHANGED <<pc, stopper>>
    BY <1>3 DEF Cancels, Runner!Cancel, Runner!slotVars, runnerVars
  <2> QED
    BY <2>1, <2>2
<1>4. CASE PageOnly(PageMoves)
  BY <1>4, PageLeavesService DEF PageOnly, serviceVars, runnerVars
<1>5. CASE UNCHANGED allVars
  BY <1>5 DEF allVars, vars, serviceVars, runnerVars
<1> QED
  BY <1>1, <1>2, <1>3, <1>4, <1>5 DEF ServiceNext

(* The store appends to a job's log what the job's phase becomes. *)
LEMMA LoggedAsMoved ==
  ASSUME TypeOK, RP!StoreStep
  PROVE  /\ UNCHANGED phase => UNCHANGED log
         /\ \A j \in Jobs : (\A k \in Jobs \ {j} : phase'[k] = phase[k]) => Logs(j)
<1>1. phase \in [Jobs -> Service!Phases] /\ log \in [Jobs -> Seq(Service!Phases)]
  BY DEF TypeOK
<1>2. CASE UNCHANGED <<phase, log>>
  BY <1>1, <1>2 DEF Logs
<1>3. CASE RP!LegalMove
  <2>1. PICK k \in Jobs, s \in RP!Statuses : RP!Legal(phase[k], s) /\ RP!Move(k, s)
    BY <1>3 DEF RP!LegalMove
  <2>2. phase'[k] = s /\ phase[k] # s /\ log' = [log EXCEPT ![k] = Append(@, s)]
    BY <1>1, <2>1 DEF RP!Legal, RP!Move, RP!Emit
  <2>3. ~UNCHANGED phase
    BY <2>2
  <2>4. ASSUME NEW j \in Jobs, \A i \in Jobs \ {j} : phase'[i] = phase[i] PROVE Logs(j)
    <3>1. j = k
      BY <2>2, <2>4
    <3> QED
      BY <2>2, <3>1 DEF Logs
  <2> QED
    BY <2>3, <2>4
<1> QED
  BY <1>2, <1>3 DEF RP!StoreStep, RP!storeVars

(* What a step of the runner is to the page's service. *)
JobsMove == \/ \E j \in Jobs : JobRuns(j) \/ OthersCancel(j)
            \/ WorkerDies
            \/ UNCHANGED vars

LEMMA JobsMoveStep ==
  ASSUME Persist \in BOOLEAN, TypeOK, StopInv, StopInv', RunnerInv, RunnerMoves,
         [RP!Next]_(RP!vars)
  PROVE  JobsMove
<1>0. /\ open = (pc # "done")
      /\ open' = (pc' # "done")
      /\ open' \in BOOLEAN
  BY DEF TypeOK, StopInv, RunnerMoves, RunnerOnly
<1>1. RP!IInv /\ RP!OnlyStopInterrupts
  BY DEF RunnerInv
<1>2. [RP!Lifecycle!Next]_(RP!Lifecycle!vars)
  BY <1>1, RP!LifecycleStep, JobsAssumption
<1>3. RP!StoreStep
  BY <1>1, RP!StepsAreLegal, JobsAssumption
<1>4. phase \in [Jobs -> Service!Phases]
  BY DEF TypeOK
<1>5. UNCHANGED <<post, cancelVars>> /\ PageStays
  BY DEF RunnerMoves, RunnerOnly
<1>6. ASSUME NEW j \in Jobs, NEW p \in Service!Phases, phase' = [phase EXCEPT ![j] = p]
      PROVE  Logs(j)
  BY <1>3, <1>4, <1>6, LoggedAsMoved
<1>7. ASSUME NEW j \in Jobs, RP!Lifecycle!Submit(j) PROVE FALSE
  <2>1. phase[j] = "absent" /\ phase'[j] = "queued"
    BY <1>4, <1>7 DEF RP!Lifecycle!Submit, RP!Lifecycle!Enter
  <2>2. \/ \E k \in Jobs : RP!Cancel(k) \/ RP!CallEnds(k) \/ RP!CallUnwinds(k)
        \/ RP!Start
        \/ RP!Worker
    BY SameRunner DEF RunnerMoves, RunnerOnly
  <2> QED
    BY <1>1, <2>1, <2>2, RP!OnlySubmitCreates, JobsAssumption
<1> USE DEF JobsMove
<1>8. ASSUME NEW j \in Jobs, RP!Lifecycle!Cancel(j) PROVE JobsMove
  <2>1. Service!Cancel(j)
    BY <1>0, <1>8 DEF RP!Lifecycle!Cancel, RP!Lifecycle!Enter, Service!Cancel, Service!Enter
  <2>2. Logs(j)
    BY <1>6, <2>1 DEF Service!Cancel, Service!Enter, Service!Phases, Service!Terminal
  <2> QED
    BY <1>5, <2>1, <2>2 DEF OthersCancel
<1>9. ASSUME NEW j \in Jobs, RP!Lifecycle!Reject(j) \/ RP!Lifecycle!Begin(j)
      PROVE  JobsMove
  <2>1. Service!Reject(j) \/ Service!Begin(j)
    BY <1>0, <1>9 DEF RP!Lifecycle!Reject, RP!Lifecycle!Begin, RP!Lifecycle!Enter,
       Service!Reject, Service!Begin, Service!Enter
  <2>2. Logs(j)
    BY <1>6, <2>1 DEF Service!Reject, Service!Begin, Service!Enter, Service!Phases, Service!Terminal
  <2> QED
    BY <1>5, <2>1, <2>2 DEF JobRuns
<1>10. ASSUME NEW j \in Jobs, RP!Lifecycle!Finish(j) PROVE JobsMove
  <2>1. Service!Finish(j)
    BY <1>0, <1>10 DEF RP!Lifecycle!Finish, RP!Lifecycle!Enter, Service!Finish, Service!Enter
  <2>2. Logs(j)
    BY <1>6, <2>1 DEF Service!Finish, Service!Enter, Service!Phases, Service!Terminal
  <2> QED
    BY <1>5, <2>1, <2>2 DEF JobRuns
<1>11. ASSUME NEW j \in Jobs, RP!Lifecycle!Release(j) PROVE JobsMove
  <2>1. Service!Release(j) /\ UNCHANGED phase
    BY <1>0, <1>11 DEF RP!Lifecycle!Release, Service!Release
  <2>2. Logs(j)
    BY <1>3, <2>1, LoggedAsMoved
  <2> QED
    BY <1>5, <2>1, <2>2 DEF JobRuns
<1>12. CASE RP!Lifecycle!Close
  <2>1. Service!Close /\ UNCHANGED phase
    BY <1>0, <1>12 DEF RP!Lifecycle!Close, Service!Close
  <2>2. UNCHANGED log
    BY <1>3, <2>1, LoggedAsMoved
  <2>3. slot = NoJob
    BY <1>1, <1>12, RP!StoppedInCall, JobsAssumption DEF RP!Lifecycle!Close, StopInv
  <2> QED
    BY <1>5, <2>1, <2>2, <2>3 DEF WorkerDies
<1>13. CASE UNCHANGED RP!Lifecycle!vars
  <2>1. UNCHANGED <<phase, slot, open>>
    BY <1>0, <1>13 DEF RP!Lifecycle!vars
  <2>2. UNCHANGED log
    BY <1>3, <2>1, LoggedAsMoved
  <2> QED
    BY <1>5, <2>1, <2>2 DEF vars, serviceVars, PageStays, renderVars, watchVars, cancelVars,
       resultVars
<1> HIDE DEF JobsMove
<1> QED
  BY <1>2, <1>7, <1>8, <1>9, <1>10, <1>11, <1>12, <1>13 DEF RP!Lifecycle!Next

(* Every step of the service is one that WebUI allows or leaves its        *)
(* variables alone.                                                        *)
LEMMA PageStep ==
  ASSUME Persist \in BOOLEAN, ServiceInv, [ServiceNext]_allVars
  PROVE  [Next]_vars
<1>0. IInv /\ TypeOK /\ StopInv /\ RunnerInv
  BY DEF ServiceInv, IInv
<1>1. CASE RunnerMoves
  <2>1. StopInv' /\ [RP!Next]_(RP!vars)
    BY <1>0, StopStep, RunnerStep
  <2>2. JobsMove
    BY <1>0, <1>1, <2>1, JobsMoveStep
  <2> QED
    BY <2>2 DEF JobsMove, Next
<1>2. ASSUME NEW c \in Clicks, Accepts(c) PROVE Next
  BY <1>2 DEF Accepts, Next, Posting
<1>3. CASE Cancels
  BY <1>3 DEF Cancels, Next
<1>4. CASE PageOnly(PageMoves)
  BY <1>4 DEF PageOnly, PageMoves, Answered, Next, Posting
<1>5. CASE UNCHANGED allVars
  BY <1>5 DEF allVars
<1> QED
  BY <1>1, <1>2, <1>3, <1>4, <1>5 DEF ServiceNext

LEMMA ServiceInvStep ==
  ASSUME Persist \in BOOLEAN, ServiceInv, [ServiceNext]_allVars
  PROVE  ServiceInv'
<1>1. IInv /\ TypeOK /\ StopInv /\ RP!IInv /\ RP!OnlyStopInterrupts
  BY DEF ServiceInv, RunnerInv, IInv
<1>2. [Next]_vars /\ [RP!Next]_(RP!vars)
  BY <1>1, PageStep, RunnerStep
<1>3. IInv' /\ StopInv'
  BY <1>1, <1>2, InvStep, StopStep
<1>4. RP!IInv'
  BY <1>1, <1>2, RP!TypeStep, RP!SlotStep, JobsAssumption DEF RP!IInv
<1>5. RP!OnlyStopInterrupts'
  BY <1>1, <1>2, RP!InterruptStep, JobsAssumption
<1> QED
  BY <1>3, <1>4, <1>5 DEF ServiceInv, RunnerInv

LEMMA ServiceInvariance == ASSUME Persist \in BOOLEAN PROVE ServiceSpec => []ServiceInv
<1>1. ServiceInit => Init /\ StopInv /\ RP!Init
  BY DEF ServiceInit, Init, Service!Init, Runner!Init, RP!Init, StopInv
<1>2. RP!Init => RP!IInv /\ RP!OnlyStopInterrupts
  BY RP!InitHolds, JobsAssumption DEF RP!OnlyStopInterrupts, RP!Init
<1>3. ServiceInit => ServiceInv
  BY <1>1, <1>2, InitKeeps DEF ServiceInv, RunnerInv
<1>4. ServiceInv /\ [ServiceNext]_allVars => ServiceInv'
  BY ServiceInvStep
<1> QED
  BY <1>3, <1>4, PTL DEF ServiceSpec

(* The page over the runner's own code is the page WebUI describes, so     *)
(* whatever is proved of WebUI holds of it.                                *)
THEOREM PageOverRunner == ASSUME Persist \in BOOLEAN PROVE ServiceSpec => Spec
<1>1. ServiceInit => Init
  BY DEF ServiceInit
<1>2. ServiceInv /\ [ServiceNext]_allVars => [Next]_vars
  BY PageStep
<1> QED
  BY <1>1, <1>2, ServiceInvariance, PTL DEF ServiceSpec, Spec

(* The link the page shows with a result is to an artifact that is there,  *)
(* whenever artifacts are persisted.                                       *)
THEOREM ResultIsOnDisk == ASSUME Persist \in BOOLEAN PROVE ServiceSpec => []ResultIsThere
<1>1. ServiceInit => RP!Init
  BY DEF ServiceInit, Runner!Init, RP!Init
<1>2. ServiceInv => IInv
  BY DEF ServiceInv
<1>3. IInv /\ [ServiceNext]_allVars => [RP!Next]_(RP!vars)
  BY RunnerStep
<1>4. ServiceSpec => RP!Spec
  BY <1>1, <1>2, <1>3, ServiceInvariance, PTL DEF ServiceSpec, RP!Spec
<1>5. RP!Spec => []RP!ArtifactsMatchRecords
  BY RP!ArtifactsAgree, JobsAssumption
<1>6. IInv /\ RP!ArtifactsMatchRecords => ResultIsThere
  BY DEF IInv, TypeOK, PageInv, ResultInv, RP!ArtifactsMatchRecords, ResultIsThere
<1> QED
  BY <1>2, <1>4, <1>5, <1>6, ServiceInvariance, PTL
=============================================================================
