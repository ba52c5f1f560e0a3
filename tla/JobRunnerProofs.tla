-------------------------- MODULE JobRunnerProofs ---------------------------
(***************************************************************************)
(* What JobRunner guarantees for any set of jobs, with artifacts persisted *)
(* or not.  IInv is the inductive invariant the safety properties follow   *)
(* from.                                                                   *)
(***************************************************************************)
EXTENDS JobRunner, TLAPS

(* What the worker's position says of the job in its hand. *)
WorkerInv == /\ pc = "engine" <=> current # NoJob
             /\ current # NoJob => current = hand
             /\ pc \in {"gate", "engine"} <=> hand # NoJob
             /\ leases = IF pc = "engine" THEN 1 ELSE 0
             /\ pc = "gate" => /\ status[hand] \in {"queued", "cancelled"}
                               /\ call[hand] = "none"
             /\ pc = "engine" => /\ status[hand] \in {"running", "cancelled"}
                                 /\ call[hand] # "none"

(* A job waits for the worker in one place at most, untouched. *)
QueueInv == /\ \A i \in 1 .. Len(queue) :
                 /\ status[queue[i]] \in {"queued", "cancelled"}
                 /\ call[queue[i]] = "none"
                 /\ queue[i] # hand
            /\ \A i, k \in 1 .. Len(queue) : queue[i] = queue[k] => i = k

(* The record, _cancelled and the engine call of each job. *)
JobInv == \A j \in Jobs :
  /\ j \in cancelled <=> status[j] = "cancelled"
  /\ status[j] \in {"absent", "queued"} => call[j] = "none"
  /\ status[j] = "running" => pc \in {"engine", "done"}
  /\ pc = "engine" /\ status[j] = "running" => hand = j

SlotInv == /\ WorkerInv
           /\ QueueInv
           /\ JobInv
           /\ OneSlot
           /\ NoOrphanCall

IInv == TypeOK /\ SlotInv
-----------------------------------------------------------------------------
(* Every value the store writes is a status, and every queue a queue of    *)
(* jobs: the helpers of the actions are well typed.                        *)
LEMMA MoveType ==
  ASSUME TypeOK, NEW j \in Jobs, NEW s \in Statuses, Move(j, s)
  PROVE  /\ status' \in [Jobs -> Statuses]
         /\ log' \in [Jobs -> Seq(Statuses)]
  BY DEF TypeOK, Move, Emit

LEMMA EnsureCancelledType ==
  ASSUME TypeOK, NEW j \in Jobs, EnsureCancelled(j)
  PROVE  /\ status' \in [Jobs -> Statuses]
         /\ log' \in [Jobs -> Seq(Statuses)]
  BY MoveType DEF TypeOK, EnsureCancelled, storeVars, Statuses, Terminal

(* Every action of the runner keeps every variable within its type. *)
LEMMA TypeStep == IInv /\ [Next]_vars => TypeOK'
<1> SUFFICES ASSUME IInv, [Next]_vars PROVE TypeOK'
  OBVIOUS
<1> USE NoJobAssumption, PersistAssumption
<1>1. TypeOK
  BY DEF IInv
<1>2. ASSUME NEW j \in Jobs, Submit(j) PROVE TypeOK'
  BY <1>1, <1>2, MoveType DEF Submit, TypeOK, slotVars, Statuses
<1>3. ASSUME NEW j \in Jobs, Cancel(j) PROVE TypeOK'
  BY <1>1, <1>3, MoveType DEF Cancel, TypeOK, slotVars, Statuses, Terminal, Aborted, CallStates, Live
<1>4. ASSUME NEW j \in Jobs, CallEnds(j) PROVE TypeOK'
  BY <1>1, <1>4 DEF CallEnds, TypeOK, slotVars, storeVars, CallStates, Done
<1>5. ASSUME NEW j \in Jobs, CallUnwinds(j) PROVE TypeOK'
  BY <1>1, <1>5 DEF CallUnwinds, TypeOK, slotVars, storeVars, CallStates, Done
<1>6. CASE Start
  BY <1>1, <1>6 DEF Start, TypeOK, storeVars
<1>7. CASE Stop
  BY <1>1, <1>7 DEF Stop, TypeOK, slotVars, storeVars, AwaitsLiveCall, Aborted, CallStates, Live
<1>8. CASE StopReturns
  BY <1>1, <1>8 DEF StopReturns, TypeOK, slotVars, storeVars
<1>9. CASE Take
  BY <1>1, <1>9 DEF Take, TypeOK, storeVars
<1>10. CASE Skip
  BY <1>1, <1>10, EnsureCancelledType DEF Skip, TypeOK, slotVars
<1>11. hand # NoJob => hand \in Jobs
  BY <1>1 DEF TypeOK
<1>12. pc \in {"gate", "engine"} => hand # NoJob
  BY DEF IInv, SlotInv, WorkerInv
<1>13. pc = "engine" => leases - 1 \in Nat
  BY DEF IInv, SlotInv, WorkerInv
<1>14. CASE GateCancelled
  BY <1>1, <1>11, <1>12, <1>14, EnsureCancelledType DEF GateCancelled, TypeOK, BackToQueue
<1>15. CASE GateNotReady
  BY <1>1, <1>11, <1>12, <1>15, MoveType DEF GateNotReady, TypeOK, BackToQueue, Statuses, Terminal
<1>16. CASE Dispatch
  BY <1>1, <1>11, <1>12, <1>16, MoveType DEF Dispatch, TypeOK, Statuses, CallStates, Live
<1>17. CASE ResumeCancelled
  BY <1>1, <1>11, <1>12, <1>13, <1>17, EnsureCancelledType DEF ResumeCancelled, Resume, TypeOK, BackToQueue
<1>18. CASE ResumeFailed
  BY <1>1, <1>11, <1>12, <1>13, <1>18, MoveType DEF ResumeFailed, Resume, TypeOK, BackToQueue, Statuses, Terminal
<1>19. CASE ResumeSucceeded
  BY <1>1, <1>11, <1>12, <1>13, <1>19, MoveType DEF ResumeSucceeded, Resume, TypeOK, BackToQueue, Statuses, Terminal
<1>20. CASE ResumeWriteFails
  BY <1>1, <1>11, <1>12, <1>13, <1>20, MoveType DEF ResumeWriteFails, Resume, TypeOK, BackToQueue, Statuses, Terminal
<1>21. CASE ResumeTeardown
  BY <1>1, <1>11, <1>12, <1>13, <1>21 DEF ResumeTeardown, Resume, TypeOK, storeVars
<1>22. CASE Teardown \/ GateRaises
  BY <1>1, <1>22 DEF Teardown, GateRaises, TypeOK, storeVars
<1>23. CASE UNCHANGED vars
  BY <1>1, <1>23 DEF vars, TypeOK
<1> QED
  BY <1>2, <1>3, <1>4, <1>5, <1>6, <1>7, <1>8, <1>9, <1>10, <1>14, <1>15, <1>16,
     <1>17, <1>18, <1>19, <1>20, <1>21, <1>22, <1>23
  DEF Next, Worker, Gate, ResumeAny

(* Appending to a sequence leaves the places before the new last one. *)
LEMMA AppendPlaces ==
  ASSUME NEW S, NEW q \in Seq(S), NEW e \in S
  PROVE  /\ Len(Append(q, e)) = Len(q) + 1
         /\ \A i \in 1 .. Len(q) : Append(q, e)[i] = q[i]
         /\ Append(q, e)[Len(q) + 1] = e
  OBVIOUS

(* The inductive step: every action preserves what it could disturb. *)
LEMMA SlotStep == IInv /\ [Next]_vars => SlotInv'
<1> SUFFICES ASSUME IInv, [Next]_vars PROVE SlotInv'
  OBVIOUS
<1> USE NoJobAssumption
<1>1. TypeOK /\ TypeOK' /\ SlotInv
  BY TypeStep DEF IInv
<1> USE DEF TypeOK, SlotInv, Live, Done, Terminal
<1>2. ASSUME NEW j \in Jobs, Submit(j) PROVE SlotInv'
  <2> USE DEF Submit, Move, Emit, slotVars
  <2>1. WorkerInv'
    BY <1>1, <1>2 DEF WorkerInv
  <2>2. QueueInv'
    <3>1. /\ Len(queue') = Len(queue) + 1
          /\ \A i \in 1 .. Len(queue) : queue'[i] = queue[i]
          /\ queue'[Len(queue) + 1] = j
      BY <1>1, <1>2, AppendPlaces
    <3>2. \A i \in 1 .. Len(queue) : queue[i] \in Jobs /\ queue[i] # j
      <4>1. queue \in Seq(Jobs)
        BY <1>1
      <4>2. \A i \in 1 .. Len(queue) : queue[i] \in Jobs
        BY <4>1
      <4>3. \A i \in 1 .. Len(queue) : status[queue[i]] # "absent"
        BY <1>1 DEF QueueInv
      <4> QED
        BY <1>2, <4>2, <4>3
    <3>3. j # hand
      BY <1>1, <1>2 DEF WorkerInv
    <3>4. call[j] = "none"
      BY <1>1, <1>2 DEF JobInv
    <3> QED
      BY <1>1, <1>2, <3>1, <3>2, <3>3, <3>4 DEF QueueInv
  <2>3. JobInv' /\ OneSlot' /\ NoOrphanCall'
    BY <1>1, <1>2 DEF JobInv, OneSlot, NoOrphanCall
  <2> QED
    BY <2>1, <2>2, <2>3
<1>3. ASSUME NEW j \in Jobs, Cancel(j) PROVE SlotInv'
  BY <1>1, <1>3 DEF WorkerInv, QueueInv, JobInv, OneSlot, NoOrphanCall,
      Cancel, Move, Emit, slotVars, AbortsCall, Aborted
<1>4. ASSUME NEW j \in Jobs, CallEnds(j) PROVE SlotInv'
  BY <1>1, <1>4 DEF WorkerInv, QueueInv, JobInv, OneSlot, NoOrphanCall,
      CallEnds, slotVars, storeVars
<1>5. ASSUME NEW j \in Jobs, CallUnwinds(j) PROVE SlotInv'
  BY <1>1, <1>5 DEF WorkerInv, QueueInv, JobInv, OneSlot, NoOrphanCall,
      CallUnwinds, slotVars, storeVars
<1>6. CASE Start
  BY <1>1, <1>6 DEF WorkerInv, QueueInv, JobInv, OneSlot, NoOrphanCall,
      Start, storeVars
<1>7. CASE Stop
  BY <1>1, <1>7 DEF WorkerInv, QueueInv, JobInv, OneSlot, NoOrphanCall,
      Stop, slotVars, storeVars, AwaitsLiveCall, Aborted
<1>8. CASE StopReturns
  BY <1>1, <1>8 DEF WorkerInv, QueueInv, JobInv, OneSlot, NoOrphanCall,
      StopReturns, slotVars, storeVars
<1>9. CASE Take
  BY <1>1, <1>9 DEF WorkerInv, QueueInv, JobInv, OneSlot, NoOrphanCall,
      Take, storeVars, CancelPending
<1>10. CASE Skip
  BY <1>1, <1>10 DEF WorkerInv, QueueInv, JobInv, OneSlot, NoOrphanCall,
      Skip, slotVars, storeVars, CancelPending, EnsureCancelled
<1>11. CASE GateCancelled
  BY <1>1, <1>11 DEF WorkerInv, QueueInv, JobInv, OneSlot, NoOrphanCall,
      GateCancelled, storeVars, CancelPending, EnsureCancelled, BackToQueue
<1>12. CASE GateNotReady
  BY <1>1, <1>12 DEF WorkerInv, QueueInv, JobInv, OneSlot, NoOrphanCall,
      GateNotReady, Move, Emit, CancelPending, BackToQueue
<1>13. CASE Dispatch
  BY <1>1, <1>13 DEF WorkerInv, QueueInv, JobInv, OneSlot, NoOrphanCall,
      Dispatch, Move, Emit, CancelPending
<1>14. CASE ResumeCancelled
  BY <1>1, <1>14 DEF WorkerInv, QueueInv, JobInv, OneSlot, NoOrphanCall,
      ResumeCancelled, Resume, storeVars, CancelPending, EnsureCancelled,
      BackToQueue
<1>15. CASE ResumeFailed
  BY <1>1, <1>15 DEF WorkerInv, QueueInv, JobInv, OneSlot, NoOrphanCall,
      ResumeFailed, Resume, Move, Emit, CancelPending, BackToQueue
<1>16. CASE ResumeSucceeded
  BY <1>1, <1>16 DEF WorkerInv, QueueInv, JobInv, OneSlot, NoOrphanCall,
      ResumeSucceeded, Resume, Move, Emit, CancelPending, BackToQueue
<1>17. CASE ResumeWriteFails
  BY <1>1, <1>17 DEF WorkerInv, QueueInv, JobInv, OneSlot, NoOrphanCall,
      ResumeWriteFails, Resume, Move, Emit, CancelPending, BackToQueue
<1>18. CASE ResumeTeardown
  BY <1>1, <1>18 DEF WorkerInv, QueueInv, JobInv, OneSlot, NoOrphanCall,
      ResumeTeardown, Resume, storeVars, CancelPending
<1>19. CASE Teardown \/ GateRaises
  BY <1>1, <1>19 DEF WorkerInv, QueueInv, JobInv, OneSlot, NoOrphanCall,
      Teardown, GateRaises, storeVars
<1>20. CASE UNCHANGED vars
  BY <1>1, <1>20 DEF WorkerInv, QueueInv, JobInv, OneSlot, NoOrphanCall,
      vars
<1> QED
  BY <1>2, <1>3, <1>4, <1>5, <1>6, <1>7, <1>8, <1>9, <1>10, <1>11, <1>12,
      <1>13, <1>14, <1>15, <1>16, <1>17, <1>18, <1>19, <1>20 DEF Next,
      Worker, Gate, ResumeAny

(* The invariant holds from the start ... *)
LEMMA InitHolds == Init => IInv
<1> SUFFICES ASSUME Init PROVE IInv
  OBVIOUS
<1>1. TypeOK
  <2>1. <<>> \in Seq(Statuses) /\ <<>> \in Seq(Jobs)
    OBVIOUS
  <2>2. log \in [Jobs -> Seq(Statuses)] /\ queue \in Seq(Jobs)
    BY <2>1 DEF Init
  <2> QED
    BY <2>2 DEF Init, TypeOK, Statuses, CallStates
<1>2. WorkerInv
  BY DEF Init, WorkerInv
<1>3. QueueInv
  BY DEF Init, QueueInv
<1>4. JobInv /\ OneSlot /\ NoOrphanCall
  BY DEF Init, JobInv, OneSlot, NoOrphanCall, Live
<1> QED
  BY <1>1, <1>2, <1>3, <1>4 DEF IInv, SlotInv

(* ... and for ever. *)
LEMMA Invariance == Spec => []IInv
<1>1. IInv /\ [Next]_vars => IInv'
  BY TypeStep, SlotStep DEF IInv
<1> QED
  BY <1>1, InitHolds, PTL DEF Spec

(* Every variable keeps its type in every run of the service. *)
THEOREM TypeCorrect == Spec => []TypeOK
<1>1. IInv => TypeOK
  BY DEF IInv
<1> QED
  BY Invariance, <1>1, PTL

(* INV-1 for any number of jobs: one engine call at most, unwinding ones   *)
(* included, and always the one the worker awaits.                         *)
THEOREM SingleSlot == Spec => []OneSlot
<1>1. IInv => OneSlot
  BY DEF IInv, SlotInv
<1> QED
  BY Invariance, <1>1, PTL

(* Cancel never leaves an engine call working for a cancelled job. *)
THEOREM CancelLeavesNoOrphan == Spec => []NoOrphanCall
<1>1. IInv => NoOrphanCall
  BY DEF IInv, SlotInv
<1> QED
  BY Invariance, <1>1, PTL

(* The lease is held whenever an engine call exists, and only then. *)
THEOREM LeaseIsHeld == Spec => []LeaseCoversCall
<1>1. IInv => LeaseCoversCall
  BY DEF IInv, SlotInv, OneSlot, WorkerInv, LeaseCoversCall
<1> QED
  BY Invariance, <1>1, PTL
-----------------------------------------------------------------------------
(* The record of at most one job moves in a step, and then as the guards   *)
(* of to_running, to_succeeded, to_failed and to_cancelled allow.          *)
LegalMove == \E j \in Jobs, s \in Statuses : Legal(status[j], s) /\ Move(j, s)

StoreStep == UNCHANGED storeVars \/ LegalMove

LEMMA StepsAreLegal == IInv /\ [Next]_vars => StoreStep
<1> SUFFICES ASSUME IInv, [Next]_vars PROVE StoreStep
  OBVIOUS
<1> USE NoJobAssumption
<1>1. TypeOK /\ WorkerInv /\ QueueInv /\ JobInv
  BY DEF IInv, SlotInv
<1>2. ASSUME NEW j \in Jobs, NEW s \in Statuses, Legal(status[j], s), Move(j, s)
      PROVE  StoreStep
  BY <1>2 DEF StoreStep, LegalMove
<1>3. hand # NoJob => hand \in Jobs
  BY <1>1 DEF TypeOK
<1>4. /\ pc = "gate" /\ ~CancelPending(hand) => hand \in Jobs /\ status[hand] = "queued"
      /\ pc = "engine" /\ ~CancelPending(hand) => hand \in Jobs /\ status[hand] = "running"
  BY <1>1, <1>3 DEF WorkerInv, JobInv, CancelPending
<1>5. pc \in {"gate", "engine"} /\ CancelPending(hand) => status[hand] = "cancelled"
  BY <1>1, <1>3 DEF WorkerInv, JobInv, CancelPending
<1>6. queue # <<>> /\ CancelPending(Head(queue)) => status[Head(queue)] = "cancelled"
  BY <1>1 DEF TypeOK, JobInv, CancelPending
<1> USE DEF StoreStep, storeVars
<1>7. ASSUME NEW j \in Jobs, Submit(j) PROVE StoreStep
  BY <1>2, <1>7 DEF Submit, Legal, Statuses, Terminal
<1>8. ASSUME NEW j \in Jobs, Cancel(j) PROVE StoreStep
  BY <1>2, <1>8 DEF Cancel, Legal, Statuses, Terminal
<1>9. ASSUME NEW j \in Jobs, CallEnds(j) PROVE StoreStep
  BY <1>9 DEF CallEnds
<1>10. ASSUME NEW j \in Jobs, CallUnwinds(j) PROVE StoreStep
  BY <1>10 DEF CallUnwinds
<1>11. CASE Start
  BY <1>11 DEF Start
<1>12. CASE Stop
  BY <1>12 DEF Stop
<1>13. CASE StopReturns
  BY <1>13 DEF StopReturns
<1>14. CASE Take
  BY <1>14 DEF Take
<1>15. CASE Skip
  BY <1>6, <1>15 DEF Skip, EnsureCancelled, Terminal
<1>16. CASE GateCancelled
  BY <1>5, <1>16 DEF GateCancelled, Resume, EnsureCancelled, Terminal
<1>17. CASE GateNotReady
  BY <1>2, <1>4, <1>17 DEF GateNotReady, Resume, Legal, Statuses, Terminal
<1>18. CASE Dispatch
  BY <1>2, <1>4, <1>18 DEF Dispatch, Resume, Legal, Statuses, Terminal
<1>19. CASE ResumeCancelled
  BY <1>5, <1>19 DEF ResumeCancelled, Resume, EnsureCancelled, Terminal
<1>20. CASE ResumeFailed
  BY <1>2, <1>4, <1>20 DEF ResumeFailed, Resume, Legal, Statuses, Terminal
<1>21. CASE ResumeSucceeded
  BY <1>2, <1>4, <1>21 DEF ResumeSucceeded, Resume, Legal, Statuses,
      Terminal
<1>22. CASE ResumeWriteFails
  BY <1>2, <1>4, <1>22 DEF ResumeWriteFails, Resume, Legal, Statuses,
      Terminal
<1>23. CASE ResumeTeardown
  BY <1>23 DEF ResumeTeardown
<1>24. CASE Teardown \/ GateRaises
  BY <1>24 DEF Teardown, GateRaises
<1>25. CASE UNCHANGED vars
  BY <1>25 DEF vars
<1> QED
  BY <1>7, <1>8, <1>9, <1>10, <1>11, <1>12, <1>13, <1>14, <1>15, <1>16,
      <1>17, <1>18, <1>19, <1>20, <1>21, <1>22, <1>23, <1>24, <1>25 DEF
      Next, Worker, Gate, ResumeAny

(* A move changes the log of its own job, and that by one event. *)
LEMMA MoveLog ==
  ASSUME TypeOK, NEW j \in Jobs, NEW s \in Statuses, Move(j, s)
  PROVE  /\ status'[j] = s /\ log'[j] = Append(log[j], s)
         /\ \A k \in Jobs \ {j} : status'[k] = status[k] /\ log'[k] = log[k]
  BY DEF TypeOK, Move, Emit

(* Whichever way cancels race the worker, no step attempts a transition    *)
(* the store refuses: _loop's JobTransitionError net is never needed.      *)
THEOREM MovesAreLegal == Spec => OnlyLegalMoves
<1> DEFINE Moves == \A j \in Jobs : log'[j] # log[j] => Legal(status[j], status'[j])
<1>1. IInv /\ [Next]_vars => [Moves]_vars
  <2> SUFFICES ASSUME IInv, [Next]_vars PROVE Moves
    OBVIOUS
  <2>1. TypeOK
    BY DEF IInv
  <2>2. CASE UNCHANGED storeVars
    BY <2>2 DEF storeVars
  <2>3. CASE LegalMove
    <3>1. PICK j \in Jobs, s \in Statuses : Legal(status[j], s) /\ Move(j, s)
      BY <2>3 DEF LegalMove
    <3> QED
      BY <2>1, <3>1, MoveLog
  <2> QED
    BY <2>2, <2>3, StepsAreLegal DEF StoreStep
<1> QED
  BY Invariance, <1>1, PTL DEF Spec, OnlyLegalMoves

(* The histories are short enough to be written out. *)
LEMMA AppendShort ==
  ASSUME NEW S, NEW a \in S, NEW b \in S, NEW c \in S
  PROVE  /\ Append(<<>>, a) = <<a>>
         /\ Append(<<a>>, b) = <<a, b>>
         /\ Append(<<a, b>>, c) = <<a, b, c>>
<1>1. Append(<<>>, a) = <<a>>
  OBVIOUS
<1>2. Append(<<a>>, b) = <<a, b>>
  <2> DEFINE l == <<a>>
  <2>1. l \in Seq(S) /\ Len(l) = 1 /\ l[1] = a
    OBVIOUS
  <2>2. /\ Append(l, b) \in Seq(S) /\ Len(Append(l, b)) = 2
        /\ Append(l, b)[1] = a /\ Append(l, b)[2] = b
    BY <2>1
  <2>3. <<a, b>> \in Seq(S) /\ Len(<<a, b>>) = 2 /\ <<a, b>>[1] = a /\ <<a, b>>[2] = b
    OBVIOUS
  <2>4. \A s, t \in Seq(S) : Len(s) = 2 /\ Len(t) = 2 /\ s[1] = t[1] /\ s[2] = t[2] => s = t
    OBVIOUS
  <2> QED
    BY <2>2, <2>3, <2>4
<1>3. Append(<<a, b>>, c) = <<a, b, c>>
  <2> DEFINE l == <<a, b>>
             m == <<a, b, c>>
  <2>1. l \in Seq(S) /\ Len(l) = 2 /\ l[1] = a /\ l[2] = b
    OBVIOUS
  <2>2. /\ Append(l, c) \in Seq(S) /\ Len(Append(l, c)) = 3
        /\ Append(l, c)[1] = a /\ Append(l, c)[2] = b /\ Append(l, c)[3] = c
    BY <2>1
  <2>3. m \in Seq(S) /\ Len(m) = 3 /\ m[1] = a /\ m[2] = b /\ m[3] = c
    OBVIOUS
  <2>4. \A s, t \in Seq(S) :
          Len(s) = 3 /\ Len(t) = 3 /\ s[1] = t[1] /\ s[2] = t[2] /\ s[3] = t[3] => s = t
    OBVIOUS
  <2> HIDE DEF m
  <2> QED
    BY <2>2, <2>3, <2>4 DEF m
<1> QED
  BY <1>1, <1>2, <1>3

(* A legal transition and its event continue a job's story. *)
LEMMA StoryContinues ==
  ASSUME NEW s \in Statuses, NEW t \in Statuses, NEW l \in Story(s), Legal(s, t)
  PROVE  Append(l, t) \in Story(t)
<1>1. CASE s = "absent"
  BY <1>1, AppendShort DEF Story, Legal, Statuses
<1>2. CASE s = "queued"
  <2>1. Append(l, t) = <<"queued", t>>
    BY <1>2, AppendShort DEF Story, Statuses
  <2>2. t \in {"running", "failed", "cancelled"}
    BY <1>2 DEF Legal
  <2> QED
    BY <2>1, <2>2 DEF Story
<1>3. CASE s = "running"
  <2>1. Append(l, t) = <<"queued", "running", t>>
    <3>1. l = <<"queued", "running">>
      BY <1>3 DEF Story
    <3>2. "queued" \in Statuses /\ "running" \in Statuses
      BY DEF Statuses
    <3> QED
      BY <3>1, <3>2, AppendShort
  <2>2. t \in {"succeeded", "failed", "cancelled"}
    BY <1>3 DEF Legal
  <2> QED
    BY <2>1, <2>2 DEF Story
<1> QED
  BY <1>1, <1>2, <1>3 DEF Legal, Statuses, Terminal

(* The retained events of every job tell exactly the history of its        *)
(* record: what a progress stream shows never disagrees with GET /jobs.    *)
THEOREM EventsTellTheRecord == Spec => []EventsMatchRecord
<1>1. Init => EventsMatchRecord
  BY DEF Init, EventsMatchRecord, Story
<1>2. IInv /\ EventsMatchRecord /\ [Next]_vars => EventsMatchRecord'
  <2> SUFFICES ASSUME IInv, EventsMatchRecord, [Next]_vars PROVE EventsMatchRecord'
    OBVIOUS
  <2>1. TypeOK
    BY DEF IInv
  <2>2. CASE UNCHANGED storeVars
    BY <2>2 DEF storeVars, EventsMatchRecord
  <2>3. CASE LegalMove
    <3>1. PICK j \in Jobs, s \in Statuses : Legal(status[j], s) /\ Move(j, s)
      BY <2>3 DEF LegalMove
    <3>2. log[j] \in Story(status[j]) /\ status[j] \in Statuses
      BY <2>1 DEF EventsMatchRecord, TypeOK
    <3>3. Append(log[j], s) \in Story(s)
      BY <3>1, <3>2, StoryContinues
    <3> QED
      BY <2>1, <3>1, <3>3, MoveLog DEF EventsMatchRecord
  <2> QED
    BY <2>2, <2>3, StepsAreLegal DEF StoreStep
<1> QED
  BY <1>1, <1>2, Invariance, PTL DEF Spec
-----------------------------------------------------------------------------
(* A step leaves the calls and artifacts of cancelled jobs alone. *)
CancelledUntouched == \A j \in cancelled : /\ call'[j] = "active" => call[j] = "active"
                                           /\ j \in artifacts' => j \in artifacts

LEMMA CancelledStep == IInv /\ [Next]_vars => CancelledUntouched
<1> SUFFICES ASSUME IInv, [Next]_vars PROVE CancelledUntouched
  OBVIOUS
<1>1. TypeOK
  BY DEF IInv
<1> USE DEF CancelledUntouched
<1>2. ASSUME NEW j \in Jobs, Submit(j) PROVE CancelledUntouched
  BY <1>2 DEF Submit, Resume, CancelPending
<1>3. ASSUME NEW j \in Jobs, Cancel(j) PROVE CancelledUntouched
  BY <1>1, <1>3 DEF TypeOK, Cancel, Aborted, CancelPending
<1>4. ASSUME NEW j \in Jobs, CallEnds(j) PROVE CancelledUntouched
  BY <1>1, <1>4 DEF TypeOK, CallEnds, Aborted, CancelPending
<1>5. ASSUME NEW j \in Jobs, CallUnwinds(j) PROVE CancelledUntouched
  BY <1>1, <1>5 DEF TypeOK, CallUnwinds, Aborted, CancelPending
<1>6. CASE Start
  BY <1>6 DEF Start, Resume, CancelPending
<1>7. CASE Stop
  BY <1>1, <1>7 DEF TypeOK, Stop, Aborted, CancelPending
<1>8. CASE StopReturns
  BY <1>8 DEF StopReturns, Resume, CancelPending
<1>9. CASE Take
  BY <1>9 DEF Take, Resume, CancelPending
<1>10. CASE Skip
  BY <1>10 DEF Skip, Resume, CancelPending
<1>11. CASE GateCancelled
  BY <1>11 DEF GateCancelled, Resume, CancelPending
<1>12. CASE GateNotReady
  BY <1>12 DEF GateNotReady, Resume, CancelPending
<1>13. CASE Dispatch
  BY <1>1, <1>13 DEF TypeOK, Dispatch, Aborted, CancelPending
<1>14. CASE ResumeCancelled
  BY <1>14 DEF ResumeCancelled, Resume, CancelPending
<1>15. CASE ResumeFailed
  BY <1>15 DEF ResumeFailed, Resume, CancelPending
<1>16. CASE ResumeSucceeded
  BY <1>16 DEF ResumeSucceeded, Resume, CancelPending
<1>17. CASE ResumeWriteFails
  BY <1>17 DEF ResumeWriteFails, Resume, CancelPending
<1>18. CASE ResumeTeardown
  BY <1>18 DEF ResumeTeardown, Resume, CancelPending
<1>19. CASE Teardown \/ GateRaises
  BY <1>19 DEF Teardown, GateRaises, Resume, CancelPending
<1>20. CASE UNCHANGED vars
  BY <1>20 DEF vars, Resume, CancelPending
<1> QED
  BY <1>2, <1>3, <1>4, <1>5, <1>6, <1>7, <1>8, <1>9, <1>10, <1>11, <1>12,
      <1>13, <1>14, <1>15, <1>16, <1>17, <1>18, <1>19, <1>20 DEF Next,
      Worker, Gate, ResumeAny

(* Once cancelled a job never starts an engine call and never gains an     *)
(* artifact, wherever the worker was when the cancel arrived.              *)
THEOREM CancelHolds == Spec => CancelIsFinal
<1>1. IInv /\ [Next]_vars => [CancelledUntouched]_vars
  BY CancelledStep
<1> QED
  BY Invariance, <1>1, PTL DEF Spec, CancelIsFinal, CancelledUntouched

(* A step publishes an artifact only for the job it ends, and succeeds a   *)
(* job only with its artifact when a root is configured.                   *)
ArtifactStep ==
  /\ artifacts \subseteq artifacts'
  /\ \A j \in Jobs : j \in artifacts' \ artifacts => status'[j] \in {"succeeded", "failed"}
  /\ Persist => \A j \in Jobs : status'[j] = "succeeded" /\ status[j] # "succeeded"
                                => j \in artifacts'

LEMMA ArtifactsGrow == IInv /\ [Next]_vars => ArtifactStep
<1> SUFFICES ASSUME IInv, [Next]_vars PROVE ArtifactStep
  OBVIOUS
<1>1. TypeOK
  BY DEF IInv
<1> USE DEF ArtifactStep
<1>2. ASSUME NEW j \in Jobs, Submit(j) PROVE ArtifactStep
  BY <1>1, <1>2 DEF TypeOK, Submit, Resume, Move, Emit
<1>3. ASSUME NEW j \in Jobs, Cancel(j) PROVE ArtifactStep
  BY <1>1, <1>3 DEF TypeOK, Cancel, Resume, Move, Emit
<1>4. ASSUME NEW j \in Jobs, CallEnds(j) PROVE ArtifactStep
  BY <1>4 DEF CallEnds, storeVars, Resume
<1>5. ASSUME NEW j \in Jobs, CallUnwinds(j) PROVE ArtifactStep
  BY <1>5 DEF CallUnwinds, storeVars, Resume
<1>6. CASE Start
  BY <1>6 DEF Start, storeVars, Resume
<1>7. CASE Stop
  BY <1>7 DEF Stop, storeVars, Resume
<1>8. CASE StopReturns
  BY <1>8 DEF StopReturns, storeVars, Resume
<1>9. CASE Take
  BY <1>9 DEF Take, storeVars, Resume
<1>10. CASE Skip
  BY <1>1, <1>10 DEF TypeOK, Skip, EnsureCancelled, Move, Emit, storeVars
<1>11. CASE GateCancelled
  BY <1>1, <1>11 DEF TypeOK, GateCancelled, EnsureCancelled, Move, Emit,
      storeVars
<1>12. CASE GateNotReady
  BY <1>1, <1>12 DEF TypeOK, GateNotReady, Resume, Move, Emit
<1>13. CASE Dispatch
  BY <1>1, <1>13 DEF TypeOK, Dispatch, Resume, Move, Emit
<1>14. CASE ResumeCancelled
  BY <1>1, <1>14 DEF TypeOK, ResumeCancelled, EnsureCancelled, Move, Emit,
      storeVars
<1>15. CASE ResumeFailed
  BY <1>1, <1>15 DEF TypeOK, ResumeFailed, Resume, Move, Emit
<1>16. CASE ResumeSucceeded
  BY <1>1, <1>16 DEF TypeOK, ResumeSucceeded, Resume, Move, Emit
<1>17. CASE ResumeWriteFails
  BY <1>1, <1>17 DEF TypeOK, ResumeWriteFails, Resume, Move, Emit
<1>18. CASE ResumeTeardown
  BY <1>18 DEF ResumeTeardown, storeVars, Resume
<1>19. CASE Teardown \/ GateRaises
  BY <1>19 DEF Teardown, GateRaises, storeVars, Resume
<1>20. CASE UNCHANGED vars
  BY <1>20 DEF vars, storeVars, Resume
<1> QED
  BY <1>2, <1>3, <1>4, <1>5, <1>6, <1>7, <1>8, <1>9, <1>10, <1>11, <1>12,
      <1>13, <1>14, <1>15, <1>16, <1>17, <1>18, <1>19, <1>20 DEF Next,
      Worker, Gate, ResumeAny

(* With a root configured every success has its artifact; an artifact      *)
(* never belongs to a cancelled job or to one that has not ended.          *)
THEOREM ArtifactsAgree == Spec => []ArtifactsMatchRecords
<1>1. Init => ArtifactsMatchRecords
  BY DEF Init, ArtifactsMatchRecords
<1>2. IInv /\ ArtifactsMatchRecords /\ [Next]_vars => ArtifactsMatchRecords'
  <2> SUFFICES ASSUME IInv, ArtifactsMatchRecords, [Next]_vars
               PROVE  ArtifactsMatchRecords'
    OBVIOUS
  <2>1. TypeOK /\ TypeOK' /\ ArtifactStep
    BY TypeStep, ArtifactsGrow DEF IInv
  <2>2. \A j \in Jobs : status[j] \in Terminal => status'[j] = status[j]
    <3>1. CASE UNCHANGED storeVars
      BY <3>1 DEF storeVars
    <3>2. CASE LegalMove
      BY <2>1, <3>2, MoveLog DEF LegalMove, Legal, Terminal
    <3> QED
      BY <3>1, <3>2, StepsAreLegal DEF StoreStep
  <2> QED
    BY <2>1, <2>2 DEF ArtifactsMatchRecords, ArtifactStep, TypeOK, Terminal
<1> QED
  BY <1>1, <1>2, Invariance, PTL DEF Spec
-----------------------------------------------------------------------------
(* Only the job that ends with its call in the slot has its artifact       *)
(* published, and only when a root is configured.                          *)
LEMMA PublishStep ==
  ASSUME IInv, [Next]_vars, artifacts' # artifacts
  PROVE  /\ Persist
         /\ artifacts' = artifacts \cup {current}
         /\ status[current] = "running"
         /\ status'[current] \in {"succeeded", "failed"}
<1>1. TypeOK /\ WorkerInv /\ JobInv
  BY DEF IInv, SlotInv
<1>2. ResumeSucceeded \/ ResumeWriteFails
  BY DEF Next, vars, Submit, Cancel, CallEnds, CallUnwinds, Start, Stop, StopReturns, Worker,
     Take, Skip, Gate, GateCancelled, GateNotReady, GateRaises, Dispatch, ResumeAny,
     ResumeCancelled, ResumeFailed, ResumeTeardown, Teardown
<1>3. /\ Persist
      /\ artifacts' = artifacts \cup {hand}
      /\ pc = "engine"
      /\ hand \notin cancelled
      /\ Move(hand, "succeeded") \/ Move(hand, "failed")
  BY <1>2 DEF ResumeSucceeded, ResumeWriteFails, Resume, CancelPending
<1>4. current = hand /\ hand \in Jobs /\ status[hand] = "running"
  BY <1>1, <1>3 DEF TypeOK, WorkerInv, JobInv
<1> QED
  BY <1>1, <1>3, <1>4 DEF TypeOK, Move
-----------------------------------------------------------------------------
(* Until stop() is called nothing interrupts the worker, and no engine     *)
(* call is aborted but by its own job's cancel.                            *)
OnlyStopInterrupts == stopper = "none" =>
  /\ ~flagged
  /\ \A j \in Jobs : call[j] \in {"cancelling", "aborted"} => j \in cancelled

LEMMA InterruptStep == IInv /\ OnlyStopInterrupts /\ [Next]_vars => OnlyStopInterrupts'
<1> SUFFICES ASSUME IInv, OnlyStopInterrupts, [Next]_vars PROVE OnlyStopInterrupts'
  OBVIOUS
<1>1. TypeOK
  BY DEF IInv
<1> USE DEF OnlyStopInterrupts
<1>2. ASSUME NEW j \in Jobs, Submit(j) \/ Cancel(j) \/ CallEnds(j) \/ CallUnwinds(j)
      PROVE  OnlyStopInterrupts'
  BY <1>1, <1>2 DEF TypeOK, Submit, Cancel, CallEnds, CallUnwinds, Aborted, AbortsCall
<1>3. CASE Start \/ Stop \/ StopReturns
  BY <1>3 DEF Start, Stop, StopReturns
<1>4. CASE Take \/ Skip \/ GateCancelled \/ GateNotReady \/ GateRaises \/ Teardown
  BY <1>4 DEF Take, Skip, GateCancelled, GateNotReady, GateRaises, Teardown
<1>5. CASE Dispatch
  BY <1>1, <1>5 DEF TypeOK, Dispatch
<1>6. CASE ResumeAny
  BY <1>6 DEF ResumeAny, ResumeCancelled, ResumeFailed, ResumeSucceeded, ResumeWriteFails,
              ResumeTeardown, Resume
<1>7. CASE UNCHANGED vars
  BY <1>7 DEF vars
<1> QED
  BY <1>2, <1>3, <1>4, <1>5, <1>6, <1>7 DEF Next, Worker, Gate

(* The worker is interrupted, and an engine call aborted, for two reasons  *)
(* only: stop(), or a cancel of the very job whose call it is.             *)
THEOREM InterruptsAreAsked == Spec => []OnlyStopInterrupts
<1>1. Init => OnlyStopInterrupts
  BY DEF Init, OnlyStopInterrupts
<1> QED
  BY <1>1, InterruptStep, Invariance, PTL DEF Spec

(* A worker that ends with a job in the slot was stopped. *)
LEMMA StoppedInCall ==
  ASSUME IInv, OnlyStopInterrupts, [Next]_vars, pc # "done", pc' = "done", current # NoJob
  PROVE  stopper # "none"
<1>1. ResumeTeardown \/ Teardown \/ GateRaises
  BY DEF Next, vars, Submit, Cancel, CallEnds, CallUnwinds, Start, Stop, StopReturns, Worker,
     Take, Skip, Gate, GateCancelled, GateNotReady, Dispatch, ResumeAny, ResumeCancelled,
     ResumeFailed, ResumeSucceeded, ResumeWriteFails, BackToQueue, slotVars
<1>2. pc = "engine" /\ hand \in Jobs
  BY DEF IInv, TypeOK, SlotInv, WorkerInv
<1>3. ResumeTeardown
  BY <1>1, <1>2 DEF Teardown, GateRaises
<1> QED
  BY <1>2, <1>3 DEF ResumeTeardown, Outcome, CancelPending, OnlyStopInterrupts
-----------------------------------------------------------------------------
(* A job is created by its submission and by nothing else. *)
LEMMA OnlySubmitCreates ==
  ASSUME IInv, NEW j \in Jobs, status[j] = "absent",
         \/ \E k \in Jobs : Cancel(k) \/ CallEnds(k) \/ CallUnwinds(k)
         \/ Start
         \/ Worker
  PROVE  status'[j] = "absent"
<1>1. TypeOK /\ WorkerInv /\ QueueInv
  BY DEF IInv, SlotInv
<1>2. \A k \in Jobs, s \in Statuses : status[k] # "absent" /\ Move(k, s) => status'[j] = "absent"
  BY <1>1 DEF TypeOK, Move
<1>3. \A k \in Jobs : status[k] # "absent" /\ EnsureCancelled(k) => status'[j] = "absent"
  BY <1>2 DEF EnsureCancelled, storeVars, Statuses, Terminal
<1>4. pc \in {"gate", "engine"} => hand \in Jobs /\ status[hand] # "absent"
  BY <1>1 DEF TypeOK, WorkerInv
<1>5. queue # <<>> => Head(queue) \in Jobs /\ status[Head(queue)] # "absent"
  <2>1. queue \in Seq(Jobs)
    BY <1>1 DEF TypeOK
  <2>2. queue # <<>> => Head(queue) = queue[1] /\ 1 \in 1 .. Len(queue) /\ queue[1] \in Jobs
    BY <2>1
  <2> QED
    BY <1>1, <2>2 DEF QueueInv
<1>6. ASSUME NEW k \in Jobs, Cancel(k) \/ CallEnds(k) \/ CallUnwinds(k)
      PROVE  status'[j] = "absent"
  BY <1>2, <1>6 DEF Cancel, CallEnds, CallUnwinds, storeVars, Statuses, Terminal
<1>7. CASE Start \/ Take \/ GateRaises \/ Teardown \/ ResumeTeardown
  BY <1>7 DEF Start, Take, GateRaises, Teardown, ResumeTeardown, storeVars
<1>8. CASE Skip
  BY <1>3, <1>5, <1>8 DEF Skip
<1>9. CASE GateCancelled \/ ResumeCancelled
  BY <1>3, <1>4, <1>9 DEF GateCancelled, ResumeCancelled, Resume
<1>10. CASE GateNotReady \/ Dispatch
  BY <1>2, <1>4, <1>10 DEF GateNotReady, Dispatch, Statuses, Terminal
<1>11. CASE ResumeFailed \/ ResumeSucceeded \/ ResumeWriteFails
  BY <1>2, <1>4, <1>11 DEF ResumeFailed, ResumeSucceeded, ResumeWriteFails, Resume, Statuses,
     Terminal
<1> QED
  BY <1>6, <1>7, <1>8, <1>9, <1>10, <1>11 DEF Worker, Gate, ResumeAny
-----------------------------------------------------------------------------
(* Every step of the runner is a step of the abstract service or changes   *)
(* nothing it speaks of.                                                   *)
LEMMA LifecycleStep == IInv /\ [Next]_vars => [Lifecycle!Next]_(Lifecycle!vars)
<1> SUFFICES ASSUME IInv, [Next]_vars PROVE [Lifecycle!Next]_(Lifecycle!vars)
  OBVIOUS
<1> USE NoJobAssumption
<1>1. TypeOK /\ WorkerInv /\ JobInv /\ QueueInv
  BY DEF IInv, SlotInv
<1>2. hand # NoJob => hand \in Jobs
  BY <1>1 DEF TypeOK
<1>3. /\ pc = "gate" /\ ~CancelPending(hand) => hand \in Jobs /\ status[hand] = "queued"
      /\ pc = "engine" /\ ~CancelPending(hand) => hand \in Jobs /\ status[hand] = "running"
  BY <1>1, <1>2 DEF WorkerInv, JobInv, CancelPending
<1>4. pc \in {"gate", "engine"} /\ CancelPending(hand)
        => hand \in Jobs /\ status[hand] = "cancelled"
  BY <1>1, <1>2 DEF WorkerInv, JobInv, CancelPending
<1>5. queue # <<>> /\ CancelPending(Head(queue)) => status[Head(queue)] = "cancelled"
  BY <1>1 DEF TypeOK, JobInv, CancelPending
<1>6. /\ pc = "engine" => current = hand
      /\ pc # "engine" => current = NoJob
  BY <1>1 DEF WorkerInv
<1> USE DEF Lifecycle!Next, Lifecycle!vars
<1>7. ASSUME NEW j \in Jobs, Submit(j) PROVE [Lifecycle!Next]_(Lifecycle!vars)
  BY <1>1, <1>3, <1>4, <1>6, <1>7 DEF Submit, slotVars, Move, Emit,
      Lifecycle!Enter, Lifecycle!Submit
<1>8. ASSUME NEW j \in Jobs, Cancel(j) PROVE [Lifecycle!Next]_(Lifecycle!vars)
  BY <1>1, <1>3, <1>4, <1>6, <1>8 DEF Cancel, slotVars, Move, Emit,
      Lifecycle!Enter, Lifecycle!Cancel
<1>9. ASSUME NEW j \in Jobs, CallEnds(j) PROVE [Lifecycle!Next]_(Lifecycle!vars)
  BY <1>9 DEF CallEnds, storeVars, slotVars
<1>10. ASSUME NEW j \in Jobs, CallUnwinds(j) PROVE [Lifecycle!Next]_(Lifecycle!vars)
  BY <1>10 DEF CallUnwinds, storeVars, slotVars
<1>11. CASE Start
  BY <1>11 DEF Start, storeVars, slotVars
<1>12. CASE Stop
  BY <1>12 DEF Stop, storeVars, slotVars
<1>13. CASE StopReturns
  BY <1>13 DEF StopReturns, storeVars, slotVars
<1>14. CASE Take
  BY <1>14 DEF Take, storeVars, slotVars
<1>15. CASE Skip
  BY <1>4, <1>5, <1>6, <1>15 DEF Skip, EnsureCancelled, Terminal,
      BackToQueue, storeVars, slotVars
<1>16. CASE GateCancelled
  BY <1>4, <1>5, <1>6, <1>16 DEF GateCancelled, EnsureCancelled, Terminal,
      BackToQueue, storeVars, slotVars
<1>17. CASE GateNotReady
  BY <1>1, <1>3, <1>4, <1>6, <1>17 DEF GateNotReady, Resume, BackToQueue,
      Move, Emit, Lifecycle!Enter, Lifecycle!Reject
<1>18. CASE Dispatch
  BY <1>1, <1>3, <1>4, <1>6, <1>18 DEF Dispatch, Resume, BackToQueue, Move,
      Emit, Lifecycle!Enter, Lifecycle!Begin
<1>19. CASE ResumeCancelled
  BY <1>1, <1>3, <1>4, <1>6, <1>19 DEF ResumeCancelled, Resume,
      EnsureCancelled, Terminal, BackToQueue, storeVars, Lifecycle!Release
<1>20. CASE ResumeFailed
  BY <1>1, <1>3, <1>4, <1>6, <1>20 DEF ResumeFailed, Resume, BackToQueue,
      Move, Emit, Lifecycle!Enter, Lifecycle!Finish
<1>21. CASE ResumeSucceeded
  BY <1>1, <1>3, <1>4, <1>6, <1>21 DEF ResumeSucceeded, Resume, BackToQueue,
      Move, Emit, Lifecycle!Enter, Lifecycle!Finish
<1>22. CASE ResumeWriteFails
  BY <1>1, <1>3, <1>4, <1>6, <1>22 DEF ResumeWriteFails, Resume,
      BackToQueue, Move, Emit, Lifecycle!Enter, Lifecycle!Finish
<1>23. CASE ResumeTeardown
  BY <1>1, <1>3, <1>4, <1>6, <1>23 DEF ResumeTeardown, Resume, storeVars,
      Lifecycle!Close
<1>24. CASE Teardown \/ GateRaises
  BY <1>1, <1>3, <1>4, <1>6, <1>24 DEF Teardown, GateRaises, storeVars, Lifecycle!Close
<1>25. CASE UNCHANGED vars
  BY <1>25 DEF vars, storeVars, slotVars
<1> QED
  BY <1>7, <1>8, <1>9, <1>10, <1>11, <1>12, <1>13, <1>14, <1>15, <1>16,
      <1>17, <1>18, <1>19, <1>20, <1>21, <1>22, <1>23, <1>24, <1>25 DEF
      Next, Worker, Gate, ResumeAny

(* The runner implements the abstract service for any set of jobs. *)
THEOREM RunnerImplementsLifecycle == Spec => ImplementsLifecycle
<1>1. Init => Lifecycle!Init
  BY DEF Init, Lifecycle!Init
<1> QED
  BY <1>1, LifecycleStep, Invariance, PTL DEF Spec, ImplementsLifecycle, Lifecycle!Spec
=============================================================================
