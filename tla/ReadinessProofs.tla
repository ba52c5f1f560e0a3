-------------------------- MODULE ReadinessProofs ---------------------------
(***************************************************************************)
(* What Readiness guarantees for any finite set of callers and whatever    *)
(* the world outside does: the lock is a single flight, and the idle loop  *)
(* never stops an engine somebody has leased unless a stop can still be    *)
(* carried out after it was reported to have failed.                       *)
(***************************************************************************)
EXTENDS Readiness, FiniteSetTheorems, TLAPS

(* x holds the lock l or waits for it. *)
In(l, x) == \E i \in 1 .. Len(l) : l[i] = x

NoTwice(l) == \A i, k \in 1 .. Len(l) : l[i] = l[k] => i = k

(* Who is in the queue of the lock: nobody twice, nobody for nothing.      *)
LockInv == /\ NoTwice(lock)
           /\ \A c \in Callers : pc[c] \in {"waiting"} \cup Driving <=> In(lock, c)
           /\ idlePc \in {"waiting", "asking", "stopping"} <=> In(lock, Idle)

Leased == {c \in Callers : pc[c] = "leased"}

LeaseInv == leases = Cardinality(Leased)

(* While the idle loop awaits its stop there is no READY to hand out, and  *)
(* nobody else has a stop for the daemon.                                  *)
StopInv == /\ idlePc = "stopping" => cached = "none" /\ leases = 0
           /\ idlePc = "closed" => \A c \in Callers : pc[c] = "out"
           /\ "late stop" \notin Faults /\ stopping => idlePc \in {"stopping", "closed"}

FlightInv == /\ LockInv
             /\ SingleFlight
             /\ LeaseInv
             /\ StopInv
             /\ OneColdStart

IInv == TypeOK /\ FlightInv
-----------------------------------------------------------------------------
(* The lock, seen through In and Holds only. *)

Users == Callers \cup {Idle}

LEMMA HolderIsFirst ==
  ASSUME lock \in Seq(Users)
  PROVE  /\ \A x \in Users : Holds(x) => In(lock, x)
         /\ \A x, y \in Users : Holds(x) /\ Holds(y) => x = y
  BY DEF Holds, In

(* Joining the queue of the lock disturbs nobody in it. *)
LEMMA Join ==
  ASSUME lock \in Seq(Users), NoTwice(lock), NEW x \in Users, ~In(lock, x), lock' = Append(lock, x)
  PROVE  /\ lock' \in Seq(Users)
         /\ NoTwice(lock')
         /\ In(lock', x)
         /\ \A y \in Users \ {x} : /\ In(lock', y) <=> In(lock, y)
                                   /\ Holds(y) => Holds(y)'
<1>1. /\ lock' \in Seq(Users)
      /\ Len(lock') = Len(lock) + 1
      /\ \A i \in 1 .. Len(lock) : lock'[i] = lock[i]
      /\ lock'[Len(lock) + 1] = x
      /\ Len(lock) \in Nat
  OBVIOUS
<1>2. \A i \in 1 .. Len(lock) : lock[i] # x
  BY DEF In
<1>3. NoTwice(lock')
  BY <1>1, <1>2 DEF NoTwice
<1>4. In(lock', x)
  BY <1>1 DEF In
<1>5. ASSUME NEW y \in Users \ {x} PROVE In(lock', y) <=> In(lock, y)
  BY <1>1 DEF In
<1>6. ASSUME NEW y \in Users, Holds(y) PROVE Holds(y)'
  BY <1>1, <1>6 DEF Holds
<1> QED
  BY <1>1, <1>3, <1>4, <1>5, <1>6

(* Leaving it, as its holder or out of the middle, disturbs nobody else.   *)
LEMMA LeaveLock ==
  ASSUME lock \in Seq(Users), NoTwice(lock), NEW x \in Users, In(lock, x), Leave(x)
  PROVE  /\ lock' \in Seq(Users)
         /\ NoTwice(lock')
         /\ ~In(lock', x)
         /\ \A y \in Users \ {x} : /\ In(lock', y) <=> In(lock, y)
                                   /\ Holds(y) => Holds(y)'
<1>1. PICK k \in 1 .. Len(lock) : lock[k] = x
  BY DEF In
<1>2. Place(x) = k
  <2>1. DOMAIN lock = 1 .. Len(lock)
    OBVIOUS
  <2> QED
    BY <1>1, <2>1 DEF Place, NoTwice
<1> DEFINE n == Len(lock)
<1>3. /\ n \in Nat
      /\ lock' = [i \in 1 .. n - 1 |-> IF i < k THEN lock[i] ELSE lock[i + 1]]
  BY <1>2 DEF Leave
<1>4. \A i \in 1 .. n : lock[i] \in Users
  OBVIOUS
<1>5. /\ lock' \in Seq(Users)
      /\ Len(lock') = n - 1
      /\ \A i \in 1 .. n - 1 : lock'[i] = IF i < k THEN lock[i] ELSE lock[i + 1]
  BY <1>1, <1>3, <1>4
<1> HIDE DEF n
<1>6. \A i \in 1 .. n : lock[i] = x <=> i = k
  BY <1>1 DEF NoTwice, n
<1>7. NoTwice(lock')
  BY <1>1, <1>3, <1>5 DEF NoTwice, n
<1>8. ~In(lock', x)
  BY <1>1, <1>3, <1>5, <1>6 DEF In, n
<1>9. ASSUME NEW y \in Users \ {x} PROVE In(lock', y) <=> In(lock, y)
  <2>1. ASSUME NEW i \in 1 .. n, lock[i] = y PROVE In(lock', y)
    <3>1. CASE i < k
      BY <1>1, <1>3, <1>5, <2>1, <3>1 DEF In, n
    <3>2. CASE i > k
      <4>1. i - 1 \in 1 .. n - 1 /\ ~(i - 1 < k) /\ (i - 1) + 1 = i
        BY <1>1, <1>3, <3>2 DEF n
      <4>2. lock'[i - 1] = lock[i]
        BY <1>5, <4>1
      <4> QED
        BY <1>5, <2>1, <4>1, <4>2 DEF In
    <3> QED
      BY <1>1, <1>3, <2>1, <3>1, <3>2 DEF n
  <2>2. ASSUME NEW i \in 1 .. n - 1, lock'[i] = y PROVE In(lock, y)
    BY <1>3, <1>5, <2>2 DEF In, n
  <2> QED
    BY <1>5, <2>1, <2>2 DEF In, n
<1>10. ASSUME NEW y \in Users \ {x}, Holds(y) PROVE Holds(y)'
  <2>1. lock[1] = y /\ n >= 1
    BY <1>3, <1>10 DEF Holds, n
  <2>2. k > 1
    BY <1>1, <2>1 DEF n
  <2>3. lock'[1] = y /\ Len(lock') >= 1
    BY <1>1, <1>3, <1>5, <2>1, <2>2 DEF n
  <2> QED
    BY <1>5, <2>3 DEF Holds
<1> QED
  BY <1>5, <1>7, <1>8, <1>9, <1>10
-----------------------------------------------------------------------------
(* How the steps of the callers and of the idle loop move through the lock *)
(* without breaking the single flight.                                     *)

LEMMA SameLock ==
  ASSUME UNCHANGED lock
  PROVE  /\ NoTwice(lock') <=> NoTwice(lock)
         /\ \A y \in Users : /\ In(lock', y) <=> In(lock, y)
                             /\ Holds(y)' <=> Holds(y)
  BY DEF NoTwice, In, Holds

(* The caller at the head goes from one stage of the drive to the next.    *)
LEMMA ProceedKeepsFlight ==
  ASSUME TypeOK, LockInv, SingleFlight, NEW c \in Callers, NEW s \in Driving,
         Holds(c), Proceed(c, s), UNCHANGED idlePc
  PROVE  (LockInv /\ SingleFlight)'
<1>1. In(lock, c)
  BY HolderIsFirst DEF TypeOK, Users
<1> QED
  BY <1>1, SameLock DEF TypeOK, LockInv, SingleFlight, Proceed, Users, Driving

(* A caller leaves ensure_ready with an answer or torn down. *)
LEMMA LeavingKeepsFlight ==
  ASSUME TypeOK, LockInv, SingleFlight, NEW c \in Callers, NEW s \in {"out", "leased"},
         pc[c] \in {"waiting"} \cup Driving,
         pc' = [pc EXCEPT ![c] = s], Leave(c), UNCHANGED idlePc
  PROVE  (LockInv /\ SingleFlight)'
<1>1. c \in Users /\ lock \in Seq(Users) /\ NoTwice(lock) /\ In(lock, c)
  BY DEF TypeOK, LockInv, Users
<1>2. /\ NoTwice(lock')
      /\ ~In(lock', c)
      /\ \A y \in Users \ {c} : /\ In(lock', y) <=> In(lock, y)
                                /\ Holds(y) => Holds(y)'
  BY <1>1, LeaveLock
<1>3. pc'[c] = s /\ \A d \in Callers \ {c} : pc'[d] = pc[d]
  BY DEF TypeOK
<1>4. Idle \in Users \ {c} /\ \A d \in Callers \ {c} : d \in Users \ {c}
  BY IdleAssumption DEF Users
<1>5. LockInv'
  BY <1>2, <1>3, <1>4 DEF LockInv, Driving
<1>6. SingleFlight'
  BY <1>2, <1>3, <1>4 DEF SingleFlight, Driving
<1> QED
  BY <1>5, <1>6

(* A caller without a fresh READY queues for the lock. *)
LEMMA QueueingKeepsFlight ==
  ASSUME TypeOK, LockInv, SingleFlight, NEW c \in Callers, QueueForLock(c)
  PROVE  (LockInv /\ SingleFlight)'
<1>1. c \in Users /\ lock \in Seq(Users) /\ NoTwice(lock) /\ ~In(lock, c)
  BY DEF TypeOK, LockInv, QueueForLock, Users, Driving
<1>2. /\ NoTwice(lock')
      /\ In(lock', c)
      /\ \A y \in Users \ {c} : /\ In(lock', y) <=> In(lock, y)
                                /\ Holds(y) => Holds(y)'
  BY <1>1, Join DEF QueueForLock
<1>3. pc'[c] = "waiting" /\ \A d \in Callers \ {c} : pc'[d] = pc[d]
  BY DEF TypeOK, QueueForLock
<1>4. Idle \in Users \ {c} /\ \A d \in Callers \ {c} : d \in Users \ {c}
  BY IdleAssumption DEF Users
<1>5. \/ idlePc' = idlePc
      \/ idlePc = "off" /\ idlePc' = "sleeping"
  BY DEF QueueForLock, ArmIdle
<1>6. LockInv'
  BY <1>2, <1>3, <1>4, <1>5 DEF LockInv, Driving
<1>7. SingleFlight'
  BY <1>2, <1>3, <1>4, <1>5 DEF SingleFlight, Driving
<1> QED
  BY <1>6, <1>7

(* A step of a caller that neither waits nor will, or of nobody.           *)
LEMMA OutsideKeepsFlight ==
  ASSUME TypeOK, LockInv, SingleFlight, UNCHANGED lock,
         \A c \in Callers : \/ pc'[c] = pc[c]
                            \/ {pc[c], pc'[c]} \subseteq {"out", "leased"},
         \/ idlePc' = idlePc
         \/ {idlePc, idlePc'} \subseteq {"off", "sleeping", "closed"}
         \/ Holds(Idle) /\ {idlePc, idlePc'} \subseteq {"waiting", "asking", "stopping"}
  PROVE  (LockInv /\ SingleFlight)'
<1>1. /\ NoTwice(lock') <=> NoTwice(lock)
      /\ \A y \in Users : /\ In(lock', y) <=> In(lock, y)
                          /\ Holds(y)' <=> Holds(y)
  BY SameLock
<1>2. LockInv'
  BY <1>1 DEF LockInv, Users, Driving
<1>3. SingleFlight'
  BY <1>1 DEF SingleFlight, Users, Driving
<1> QED
  BY <1>2, <1>3

(* The idle loop queues for the lock, and gives it up. *)
LEMMA IdleQueueingKeepsFlight ==
  ASSUME TypeOK, LockInv, SingleFlight, IdleWakes
  PROVE  (LockInv /\ SingleFlight)'
<1> USE DEF IdleWakes, IdleMove
<1>1. Idle \in Users /\ lock \in Seq(Users) /\ NoTwice(lock) /\ ~In(lock, Idle)
  BY DEF TypeOK, LockInv, Users
<1>2. /\ NoTwice(lock')
      /\ In(lock', Idle)
      /\ \A y \in Users \ {Idle} : /\ In(lock', y) <=> In(lock, y)
                                   /\ Holds(y) => Holds(y)'
  BY <1>1, Join
<1>3. \A d \in Callers : d \in Users \ {Idle}
  BY IdleAssumption DEF Users
<1>4. LockInv'
  BY <1>2, <1>3 DEF LockInv, Driving
<1>5. SingleFlight'
  BY <1>2, <1>3 DEF SingleFlight, Driving
<1> QED
  BY <1>4, <1>5

LEMMA IdleLeavingKeepsFlight ==
  ASSUME TypeOK, LockInv, SingleFlight, NEW s \in {"sleeping", "closed", "dead"},
         idlePc \in {"waiting", "asking", "stopping"}, Leave(Idle), IdleMove(s)
  PROVE  (LockInv /\ SingleFlight)'
<1>1. Idle \in Users /\ lock \in Seq(Users) /\ NoTwice(lock) /\ In(lock, Idle)
  BY DEF TypeOK, LockInv, Users
<1>2. /\ NoTwice(lock')
      /\ ~In(lock', Idle)
      /\ \A y \in Users \ {Idle} : /\ In(lock', y) <=> In(lock, y)
                                   /\ Holds(y) => Holds(y)'
  BY <1>1, LeaveLock
<1>3. \A d \in Callers : d \in Users \ {Idle}
  BY IdleAssumption DEF Users
<1>4. LockInv'
  BY <1>2, <1>3 DEF LockInv, IdleMove, Driving
<1>5. SingleFlight'
  BY <1>2, <1>3 DEF SingleFlight, IdleMove, Driving
<1> QED
  BY <1>4, <1>5
-----------------------------------------------------------------------------
(* A caller leaves the lock: it holds it, or is torn down while it waits.  *)
LEMMA LeavesWith ==
  ASSUME TypeOK, LockInv, SingleFlight, NEW c \in Callers, InLock(c) \/ Abandon(c), pc'[c] \notin Driving
  PROVE  /\ pc[c] \in {"waiting"} \cup Driving
         /\ \E s \in {"out", "leased"} : pc' = [pc EXCEPT ![c] = s]
         /\ Leave(c)
         /\ UNCHANGED idlePc
<1> USE DEF TypeOK, Driving
<1>1. CASE AlreadyUp(c)
  BY <1>1 DEF AlreadyUp, GoOn
<1>2. CASE ProbeReady(c)
  BY <1>2 DEF ProbeReady, Ready, GoOn
<1>3. CASE ProbeOnly(c) \/ StatusAbsent(c) \/ ControllerFails(c) \/ PollGivesUp(c)
  BY <1>3 DEF ProbeOnly, StatusAbsent, ControllerFails, PollGivesUp, NotReady
<1>4. CASE Abandon(c) \/ StatusMalformed(c)
  BY <1>4 DEF Abandon, StatusMalformed
<1>5. CASE Drive(c) \/ ProbeThenAsk(c) \/ StatusStopped(c) \/ StatusRunning(c) \/ StartSucceeds(c)
  BY <1>5 DEF Drive, ProbeThenAsk, StatusStopped, StatusRunning, StartSucceeds, Proceed
<1> QED
  BY <1>1, <1>2, <1>3, <1>4, <1>5 DEF InLock

(* It goes on driving: it holds the lock and keeps it. *)
LEMMA DrivesOn ==
  ASSUME TypeOK, SingleFlight, NEW c \in Callers, InLock(c) \/ Abandon(c), pc'[c] \in Driving
  PROVE  /\ Holds(c)
         /\ \E s \in Driving : Proceed(c, s)
         /\ UNCHANGED idlePc
<1> USE DEF TypeOK, Driving
<1>1. CASE AlreadyUp(c)
  BY <1>1 DEF AlreadyUp, GoOn
<1>2. CASE ProbeReady(c)
  BY <1>2 DEF ProbeReady, Ready, GoOn
<1>3. CASE ProbeOnly(c) \/ StatusAbsent(c) \/ ControllerFails(c) \/ PollGivesUp(c)
  BY <1>3 DEF ProbeOnly, StatusAbsent, ControllerFails, PollGivesUp, NotReady
<1>4. CASE Abandon(c) \/ StatusMalformed(c)
  BY <1>4 DEF Abandon, StatusMalformed
<1>5. CASE Drive(c)
  BY <1>5 DEF Drive
<1>6. CASE ProbeThenAsk(c) \/ StatusStopped(c) \/ StatusRunning(c) \/ StartSucceeds(c)
  BY <1>6 DEF ProbeThenAsk, StatusStopped, StatusRunning, StartSucceeds, SingleFlight
<1> QED
  BY <1>1, <1>2, <1>3, <1>4, <1>5, <1>6 DEF InLock

(* The idle loop leaves the lock. *)
IdleGivesUp == \/ IdleRefrains
               \/ IdleStatusFails
               \/ IdleDies
               \/ IdleStopDone
               \/ IdleStopFails
               \/ Close /\ idlePc # "sleeping"

LEMMA IdleLeavesWith ==
  ASSUME TypeOK, IdleGivesUp
  PROVE  /\ idlePc \in {"waiting", "asking", "stopping"}
         /\ Leave(Idle)
         /\ \E s \in {"sleeping", "closed", "dead"} : IdleMove(s)
  BY DEF IdleGivesUp, IdleRefrains, IdleStatusFails, IdleDies, IdleStopDone, IdleStopFails,
         Close, TypeOK, IdleStates

(* What everybody else does has nothing to do with the lock. *)
WorldStep == \/ CacheExpires
             \/ IdleElapses
             \/ DeadlinePasses
             \/ EngineLoads
             \/ EngineCrashes
             \/ StopLands

LEMMA FlightStep ==
  ASSUME TypeOK, LockInv, SingleFlight, [Next]_vars
  PROVE  (LockInv /\ SingleFlight)'
<1>1. ASSUME NEW c \in Callers, FastPath(c) \/ Release(c)
      PROVE  (LockInv /\ SingleFlight)'
  <2>1. UNCHANGED lock
    BY <1>1 DEF FastPath, Release
  <2>2. \A d \in Callers : \/ pc'[d] = pc[d]
                           \/ {pc[d], pc'[d]} \subseteq {"out", "leased"}
    BY <1>1 DEF FastPath, Release, GoOn, TypeOK
  <2>3. \/ idlePc' = idlePc
        \/ {idlePc, idlePc'} \subseteq {"off", "sleeping", "closed"}
    BY <1>1 DEF FastPath, Release, ArmIdle
  <2> QED
    BY <2>1, <2>2, <2>3, OutsideKeepsFlight
<1>2. ASSUME NEW c \in Callers, QueueForLock(c)
      PROVE  (LockInv /\ SingleFlight)'
  BY <1>2, QueueingKeepsFlight
<1>3. ASSUME NEW c \in Callers, InLock(c) \/ Abandon(c)
      PROVE  (LockInv /\ SingleFlight)'
  <2>1. CASE pc'[c] \in Driving
    BY <1>3, <2>1, DrivesOn, ProceedKeepsFlight
  <2>2. CASE pc'[c] \notin Driving
    BY <1>3, <2>2, LeavesWith, LeavingKeepsFlight
  <2> QED
    BY <2>1, <2>2
<1>4. CASE IdleWakes
  BY <1>4, IdleQueueingKeepsFlight
<1>5. CASE IdleGivesUp
  BY <1>5, IdleLeavesWith, IdleLeavingKeepsFlight
<1>6. CASE IdleAsks \/ IdleStops \/ StartIdleMonitor \/ (Close /\ idlePc = "sleeping")
  <2>1. UNCHANGED <<pc, lock>>
    BY <1>6 DEF IdleAsks, IdleStops, StartIdleMonitor, Close, IdleMove
  <2>2. \/ {idlePc, idlePc'} \subseteq {"off", "sleeping", "closed"}
        \/ Holds(Idle) /\ {idlePc, idlePc'} \subseteq {"waiting", "asking", "stopping"}
    BY <1>6 DEF IdleAsks, IdleStops, StartIdleMonitor, Close, IdleMove, ArmIdle, SingleFlight
  <2> QED
    BY <2>1, <2>2, OutsideKeepsFlight
<1>7. CASE WorldStep \/ UNCHANGED vars
  <2>1. UNCHANGED <<pc, idlePc, lock>>
    BY <1>7 DEF WorldStep, CacheExpires, IdleElapses, DeadlinePasses, EngineLoads,
                EngineCrashes, StopLands, World, vars
  <2> QED
    BY <2>1, OutsideKeepsFlight
<1> QED
  BY <1>1, <1>2, <1>3, <1>4, <1>5, <1>6, <1>7
  DEF Next, CallerStep, IdleStep, IdleGivesUp, WorldStep
-----------------------------------------------------------------------------
(* Nobody else drives while one caller does, and the idle loop does not    *)
(* ask or stop.                                                            *)
LEMMA DrivesAlone ==
  ASSUME SingleFlight, NEW c \in Callers, Holds(c)
  PROVE  /\ \A d \in Callers : pc[d] \in Driving => d = c
         /\ idlePc \notin {"asking", "stopping"}
  BY IdleAssumption DEF SingleFlight, Holds

(* Leaving the lock, its type. *)
LEMMA LeaveKeepsType ==
  ASSUME TypeOK, LockInv, NEW x \in Users, In(lock, x), Leave(x)
  PROVE  lock' \in Seq(Callers \cup {Idle})
  BY LeaveLock DEF TypeOK, LockInv, Users

LEMMA TypeStep ==
  ASSUME IInv, [Next]_vars
  PROVE  TypeOK'
<1> USE DEF IInv, FlightInv
<1>1. ASSUME NEW c \in Callers, FastPath(c)
      PROVE  TypeOK'
  <2>1. pc' \in [Callers -> CallerStates] /\ leases' \in Nat
    BY <1>1 DEF TypeOK, FastPath, GoOn, CallerStates
  <2>2. idlePc' \in IdleStates /\ idleDue' \in BOOLEAN
    BY <1>1 DEF TypeOK, FastPath, ArmIdle, IdleStates
  <2> QED
    BY <1>1, <2>1, <2>2 DEF TypeOK, FastPath, worldVars
<1>2. ASSUME NEW c \in Callers, QueueForLock(c)
      PROVE  TypeOK'
  <2>1. pc' \in [Callers -> CallerStates] /\ lock' \in Seq(Callers \cup {Idle})
    BY <1>2 DEF TypeOK, QueueForLock, CallerStates
  <2>2. idlePc' \in IdleStates /\ idleDue' \in BOOLEAN
    BY <1>2 DEF TypeOK, QueueForLock, ArmIdle, IdleStates
  <2> QED
    BY <1>2, <2>1, <2>2 DEF TypeOK, QueueForLock, worldVars
<1>3. ASSUME NEW c \in Callers, Release(c)
      PROVE  TypeOK'
  <2>1. leases # 0
    <3>1. IsFiniteSet(Leased) /\ c \in Leased
      BY <1>3, CallersAssumption, FS_Subset DEF Leased, Release
    <3> QED
      BY <3>1, FS_EmptySet DEF LeaseInv
  <2> QED
    <3>1. /\ pc' \in [Callers -> CallerStates]
          /\ leases' \in Nat
          /\ idleDue' = FALSE
      BY <1>3, <2>1 DEF TypeOK, Release, CallerStates
    <3>2. UNCHANGED <<idlePc, lock, cached, late, cause, answer, engine, stopping>>
      BY <1>3 DEF Release, worldVars
    <3> QED
      BY <3>1, <3>2 DEF TypeOK
<1>4. ASSUME NEW c \in Callers, InLock(c) \/ Abandon(c)
      PROVE  TypeOK'
  <2>1. /\ pc' \in [Callers -> CallerStates]
        /\ lock' \in Seq(Callers \cup {Idle})
        /\ UNCHANGED idlePc
    <3>1. CASE pc'[c] \in Driving
      BY <1>4, <3>1, DrivesOn DEF Proceed, TypeOK, CallerStates
    <3>2. CASE pc'[c] \notin Driving
      <4>1. c \in Users /\ In(lock, c)
        BY <1>4, <3>2, LeavesWith DEF LockInv, Users
      <4> QED
        BY <1>4, <3>2, <4>1, LeavesWith, LeaveKeepsType DEF TypeOK, CallerStates
    <3> QED
      BY <3>1, <3>2
  <2>2. CASE AlreadyUp(c) \/ Drive(c) \/ ProbeThenAsk(c) \/ StatusStopped(c) \/ StatusRunning(c)
    <3>1. leases' \in Nat
      BY <2>2 DEF TypeOK, AlreadyUp, Drive, ProbeThenAsk, StatusStopped, StatusRunning,
                  GoOn, Proceed
    <3>2. late' = late \/ late' = FALSE
      BY <2>2 DEF AlreadyUp, Drive, ProbeThenAsk, StatusStopped, StatusRunning
    <3>3. UNCHANGED <<cached, idleDue, cause, answer, engine, stopping>>
      BY <2>2 DEF AlreadyUp, Drive, ProbeThenAsk, StatusStopped, StatusRunning, Proceed, worldVars
    <3> QED
      BY <2>1, <3>1, <3>2, <3>3 DEF TypeOK
  <2>3. CASE ProbeReady(c)
    <3>1. leases' \in Nat /\ idleDue' = FALSE
      BY <2>3 DEF TypeOK, ProbeReady, Ready, GoOn
    <3>2. UNCHANGED <<late, engine, stopping>>
      BY <2>3 DEF ProbeReady, worldVars
    <3>3. cached' = "fresh" /\ cause' = "none" /\ answer' = "ready"
      BY <2>3 DEF ProbeReady, Ready
    <3> QED
      BY <2>1, <3>1, <3>2, <3>3 DEF TypeOK, States
  <2>4. CASE ProbeOnly(c) \/ PollGivesUp(c)
    <3>1. Classified \subseteq States
      BY DEF Classified, States
    <3> QED
      BY <2>1, <2>4, <3>1 DEF TypeOK, ProbeOnly, PollGivesUp, NotReady, worldVars
  <2>5. CASE StatusAbsent(c)
    BY <2>1, <2>5 DEF TypeOK, StatusAbsent, NotReady, worldVars, States
  <2>6. CASE ControllerFails(c)
    BY <2>1, <2>6 DEF TypeOK, ControllerFails, MayHaveStarted, Started, NotReady, States, Up
  <2>7. CASE StartSucceeds(c)
    BY <2>1, <2>7 DEF TypeOK, StartSucceeds, Started, Proceed, Up
  <2>8. CASE Abandon(c)
    BY <2>1, <2>8 DEF TypeOK, Abandon, MayHaveStarted, Started, Up
  <2>9. CASE StatusMalformed(c)
    BY <2>1, <2>9 DEF TypeOK, StatusMalformed, worldVars
  <2> QED
    BY <1>4, <2>2, <2>3, <2>4, <2>5, <2>6, <2>7, <2>8, <2>9 DEF InLock
<1>5. CASE IdleGivesUp
  <2>1. Idle \in Users /\ In(lock, Idle)
    BY <1>5, IdleLeavesWith DEF LockInv, Users
  <2>2. lock' \in Seq(Callers \cup {Idle}) /\ idlePc' \in IdleStates
    BY <1>5, <2>1, IdleLeavesWith, LeaveKeepsType DEF IdleMove, IdleStates
  <2>3. stopping' \in BOOLEAN
    BY <1>5 DEF TypeOK, IdleGivesUp, IdleRefrains, IdleStatusFails, IdleDies, IdleStopDone,
                IdleStopFails, Close, worldVars
  <2> QED
    BY <1>5, <2>2, <2>3 DEF TypeOK, IdleGivesUp, IdleRefrains, IdleStatusFails, IdleDies,
                            IdleStopDone, IdleStopFails, Close, IdleMove, worldVars
<1>6. CASE IdleWakes \/ IdleAsks \/ IdleStops \/ StartIdleMonitor \/ (Close /\ idlePc = "sleeping")
  <2>1. idlePc' \in IdleStates /\ lock' \in Seq(Callers \cup {Idle})
    BY <1>6 DEF TypeOK, IdleWakes, IdleAsks, IdleStops, StartIdleMonitor, Close, IdleMove,
                ArmIdle, IdleStates
  <2>2. cached' \in {cached, "none"}
    BY <1>6 DEF IdleWakes, IdleAsks, IdleStops, StartIdleMonitor, Close
  <2>3. stopping' = stopping \/ stopping' = TRUE
    BY <1>6 DEF IdleWakes, IdleAsks, IdleStops, StartIdleMonitor, Close, worldVars
  <2>4. UNCHANGED <<pc, idleDue, late, leases, cause, answer, engine>>
    BY <1>6 DEF IdleWakes, IdleAsks, IdleStops, StartIdleMonitor, Close, IdleMove, worldVars
  <2> QED
    BY <2>1, <2>2, <2>3, <2>4 DEF TypeOK
<1>7. CASE WorldStep \/ UNCHANGED vars
  <2>1. UNCHANGED <<pc, idlePc, lock, leases, cause, answer>>
    BY <1>7 DEF WorldStep, CacheExpires, IdleElapses, DeadlinePasses, EngineLoads,
                EngineCrashes, StopLands, World, vars
  <2>2. cached' \in {cached, "stale"} /\ idleDue' \in {idleDue, TRUE} /\ late' \in {late, TRUE}
    BY <1>7 DEF WorldStep, CacheExpires, IdleElapses, DeadlinePasses, EngineLoads,
                EngineCrashes, StopLands, World, vars
  <2>3. /\ engine' \in {engine, "stopped"} \cup Up
        /\ stopping' \in {stopping, FALSE}
    BY <1>7 DEF WorldStep, CacheExpires, IdleElapses, DeadlinePasses, EngineLoads,
                EngineCrashes, StopLands, World, worldVars, vars, Up
  <2>4. /\ cached' \in {"none", "fresh", "stale"}
        /\ idleDue' \in BOOLEAN
        /\ late' \in BOOLEAN
        /\ stopping' \in BOOLEAN
    BY <2>2, <2>3 DEF TypeOK
  <2>5. engine' \in {"absent", "stopped"} \cup Up
    BY <2>3 DEF TypeOK
  <2> QED
    BY <2>1, <2>4, <2>5 DEF TypeOK
<1> QED
  BY <1>1, <1>2, <1>3, <1>4, <1>5, <1>6, <1>7
  DEF Next, CallerStep, IdleStep, IdleGivesUp, WorldStep
-----------------------------------------------------------------------------
(* Counting the leases. *)

LEMMA LeasedIsFinite == IsFiniteSet(Leased)
  BY CallersAssumption, FS_Subset DEF Leased

LEMMA LeaseTaken ==
  ASSUME TypeOK, LeaseInv, NEW c \in Callers, pc[c] # "leased",
         pc' = [pc EXCEPT ![c] = "leased"], leases' = leases + 1
  PROVE  LeaseInv'
<1>1. Leased' = Leased \cup {c} /\ c \notin Leased
  BY DEF Leased, TypeOK
<1> QED
  BY <1>1, LeasedIsFinite, FS_AddElement DEF LeaseInv

LEMMA LeaseGivenBack ==
  ASSUME TypeOK, LeaseInv, NEW c \in Callers, pc[c] = "leased",
         pc' = [pc EXCEPT ![c] = "out"], leases' = leases - 1
  PROVE  LeaseInv'
<1>1. Leased' = Leased \ {c} /\ c \in Leased
  BY DEF Leased, TypeOK
<1> QED
  BY <1>1, LeasedIsFinite, FS_RemoveElement DEF LeaseInv

LEMMA LeaseUntouched ==
  ASSUME LeaseInv, UNCHANGED leases,
         \A c \in Callers : pc'[c] = "leased" <=> pc[c] = "leased"
  PROVE  LeaseInv'
<1>1. Leased' = Leased
  BY DEF Leased
<1> QED
  BY <1>1 DEF LeaseInv

(* The caller goes on without having had a lease before. *)
LEMMA GoOnCounts ==
  ASSUME TypeOK, LeaseInv, NEW c \in Callers, pc[c] # "leased", GoOn(c)
  PROVE  LeaseInv'
<1>1. CASE pc' = [pc EXCEPT ![c] = "leased"] /\ leases' = leases + 1
  BY <1>1, LeaseTaken
<1>2. CASE pc' = [pc EXCEPT ![c] = "out"] /\ UNCHANGED leases
  BY <1>2, LeaseUntouched DEF TypeOK
<1> QED
  BY <1>1, <1>2 DEF GoOn

LEMMA LeaseStep ==
  ASSUME TypeOK, LeaseInv, [Next]_vars
  PROVE  LeaseInv'
<1>1. ASSUME NEW c \in Callers, FastPath(c) \/ AlreadyUp(c) \/ ProbeReady(c)
      PROVE  LeaseInv'
  <2>1. pc[c] # "leased" /\ GoOn(c)
    BY <1>1 DEF FastPath, AlreadyUp, ProbeReady, Ready
  <2> QED
    BY <2>1, GoOnCounts
<1>2. ASSUME NEW c \in Callers, Release(c)
      PROVE  LeaseInv'
  BY <1>2, LeaseGivenBack DEF Release
<1>3. ASSUME NEW c \in Callers,
             \/ QueueForLock(c) \/ Drive(c) \/ ProbeThenAsk(c) \/ StatusStopped(c)
             \/ StatusRunning(c) \/ StartSucceeds(c) \/ Abandon(c) \/ StatusMalformed(c)
      PROVE  LeaseInv'
  BY <1>3, LeaseUntouched
  DEF TypeOK, QueueForLock, Drive, ProbeThenAsk, StatusStopped, StatusRunning, StartSucceeds,
      Abandon, StatusMalformed, Proceed, Driving
<1>4. ASSUME NEW c \in Callers,
             ProbeOnly(c) \/ StatusAbsent(c) \/ ControllerFails(c) \/ PollGivesUp(c)
      PROVE  LeaseInv'
  BY <1>4, LeaseUntouched
  DEF TypeOK, ProbeOnly, StatusAbsent, ControllerFails, PollGivesUp, NotReady
<1>5. CASE IdleStep \/ StartIdleMonitor \/ Close \/ WorldStep \/ UNCHANGED vars
  <2>1. UNCHANGED <<pc, leases>>
    BY <1>5 DEF IdleStep, IdleWakes, IdleAsks, IdleRefrains, IdleStatusFails, IdleDies, IdleStops, IdleStopDone,
                IdleStopFails, StartIdleMonitor, Close, IdleMove, WorldStep, CacheExpires,
                IdleElapses, DeadlinePasses, EngineLoads, EngineCrashes, StopLands, World, vars
  <2> QED
    BY <2>1, LeaseUntouched
<1> QED
  BY <1>1, <1>2, <1>3, <1>4, <1>5 DEF Next, CallerStep, InLock, WorldStep
-----------------------------------------------------------------------------
(* Whoever drives or goes on inside the lock holds it.                     *)
LEMMA InLockHolds ==
  ASSUME SingleFlight, NEW c \in Callers, InLock(c)
  PROVE  Holds(c) /\ pc[c] # "out"
  BY DEF InLock, AlreadyUp, Drive, ProbeReady, ProbeOnly, ProbeThenAsk, StatusAbsent,
         StatusStopped, StatusRunning, StartSucceeds, ControllerFails, StatusMalformed,
         PollGivesUp, SingleFlight, Driving

(* A lease shows in the count. *)
LEMMA LeasesCount ==
  ASSUME LeaseInv
  PROVE  leases = 0 <=> \A c \in Callers : pc[c] # "leased"
<1>1. Leased = {} <=> leases = 0
  BY LeasedIsFinite, FS_EmptySet DEF LeaseInv
<1> QED
  BY <1>1 DEF Leased

LEMMA StopStep ==
  ASSUME IInv, [Next]_vars
  PROVE  StopInv'
<1> USE DEF IInv, FlightInv
<1>1. ASSUME NEW c \in Callers, FastPath(c) \/ QueueForLock(c)
      PROVE  StopInv'
  <2>1. \/ idlePc' = idlePc
        \/ idlePc' = "sleeping" /\ idlePc = "off"
    BY <1>1 DEF FastPath, QueueForLock, ArmIdle
  <2>2. idlePc # "closed" /\ UNCHANGED <<cached, stopping>>
    BY <1>1 DEF FastPath, QueueForLock, worldVars
  <2>3. idlePc = "stopping" => UNCHANGED leases
    BY <1>1 DEF FastPath, QueueForLock, StopInv
  <2> QED
    BY <2>1, <2>2, <2>3 DEF StopInv
<1>2. ASSUME NEW c \in Callers, Release(c)
      PROVE  StopInv'
  <2>1. idlePc # "stopping" /\ idlePc # "closed"
    BY <1>2, LeasesCount DEF StopInv, Release
  <2> QED
    BY <1>2, <2>1 DEF StopInv, Release, worldVars
<1>3. ASSUME NEW c \in Callers, InLock(c)
      PROVE  StopInv'
  <2>1. idlePc \notin {"stopping", "closed"}
    BY <1>3, InLockHolds, DrivesAlone DEF StopInv
  <2>2. UNCHANGED <<idlePc, stopping>>
    BY <1>3 DEF InLock, AlreadyUp, Drive, ProbeReady, ProbeOnly, ProbeThenAsk, StatusAbsent,
                StatusStopped, StatusRunning, StartSucceeds, ControllerFails, StatusMalformed,
                PollGivesUp, worldVars
  <2> QED
    BY <2>1, <2>2 DEF StopInv
<1>4. ASSUME NEW c \in Callers, Abandon(c)
      PROVE  StopInv'
  BY <1>4 DEF StopInv, Abandon, TypeOK
<1>5. CASE \/ IdleWakes \/ IdleAsks \/ IdleRefrains \/ IdleStatusFails \/ IdleDies
           \/ StartIdleMonitor
  <2>1. idlePc \notin {"stopping", "closed"} /\ idlePc' \notin {"stopping", "closed"}
    BY <1>5 DEF IdleWakes, IdleAsks, IdleRefrains, IdleStatusFails, IdleDies,
                StartIdleMonitor, IdleMove, ArmIdle
  <2>2. UNCHANGED stopping
    BY <1>5 DEF IdleWakes, IdleAsks, IdleRefrains, IdleStatusFails, IdleDies,
                StartIdleMonitor, worldVars
  <2> QED
    BY <2>1, <2>2 DEF StopInv
<1>6. CASE IdleStops
  BY <1>6 DEF StopInv, IdleStops, IdleMove, ShouldIdleDown
<1>7. CASE IdleStopDone
  BY <1>7 DEF StopInv, IdleStopDone, IdleMove, worldVars
<1>8. CASE IdleStopFails
  BY <1>8 DEF StopInv, IdleStopFails, IdleMove
<1>9. CASE Close
  BY <1>9 DEF StopInv, Close, IdleMove, worldVars
<1>10. CASE WorldStep \/ UNCHANGED vars
  <2>1. UNCHANGED <<pc, idlePc, leases>>
    BY <1>10 DEF WorldStep, CacheExpires, IdleElapses, DeadlinePasses, EngineLoads,
                 EngineCrashes, StopLands, World, vars
  <2>2. cached = "none" => cached' = "none"
    BY <1>10 DEF WorldStep, CacheExpires, IdleElapses, DeadlinePasses, EngineLoads,
                 EngineCrashes, StopLands, World, vars
  <2>3. stopping' => stopping
    BY <1>10 DEF WorldStep, CacheExpires, IdleElapses, DeadlinePasses, EngineLoads,
                 EngineCrashes, StopLands, World, worldVars, vars
  <2> QED
    BY <2>1, <2>2, <2>3 DEF StopInv
<1> QED
  BY <1>1, <1>2, <1>3, <1>4, <1>5, <1>6, <1>7, <1>8, <1>9, <1>10
  DEF Next, CallerStep, IdleStep, WorldStep

LEMMA ColdStep ==
  ASSUME IInv, [Next]_vars
  PROVE  OneColdStart'
<1> USE DEF IInv, FlightInv
<1>1. ASSUME NEW c \in Callers, FastPath(c) \/ QueueForLock(c) \/ Release(c)
      PROVE  OneColdStart'
  <2>1. UNCHANGED engine
    BY <1>1 DEF FastPath, QueueForLock, Release, worldVars
  <2>2. \A d \in Callers : pc'[d] = "starting" => pc[d] = "starting"
    BY <1>1 DEF TypeOK, FastPath, QueueForLock, Release, GoOn
  <2> QED
    BY <2>1, <2>2 DEF OneColdStart
<1>2. ASSUME NEW c \in Callers, StartSucceeds(c) \/ ControllerFails(c) \/ Abandon(c)
      PROVE  OneColdStart'
  <2>1. \A d \in Callers : pc'[d] = "starting" => pc[d] = "starting" /\ d # c
    BY <1>2 DEF TypeOK, StartSucceeds, ControllerFails, Abandon, NotReady, Proceed
  <2>2. engine' = engine \/ pc[c] = "starting"
    BY <1>2 DEF StartSucceeds, ControllerFails, Abandon, MayHaveStarted
  <2>3. pc[c] = "starting" => \A d \in Callers \ {c} : pc[d] # "starting"
    BY DrivesAlone DEF SingleFlight, Driving
  <2> QED
    BY <2>1, <2>2, <2>3 DEF OneColdStart
<1>3. ASSUME NEW c \in Callers,
             \/ AlreadyUp(c) \/ Drive(c) \/ ProbeReady(c) \/ ProbeOnly(c) \/ ProbeThenAsk(c)
             \/ StatusAbsent(c) \/ StatusStopped(c) \/ StatusRunning(c) \/ PollGivesUp(c)
             \/ StatusMalformed(c)
      PROVE  OneColdStart'
  <2>1. UNCHANGED engine
    BY <1>3 DEF AlreadyUp, Drive, ProbeReady, ProbeOnly, ProbeThenAsk, StatusAbsent,
                StatusStopped, StatusRunning, PollGivesUp, StatusMalformed, worldVars
  <2>2. \A d \in Callers : \/ pc'[d] = "starting" => pc[d] = "starting"
                           \/ engine = "stopped"
    BY <1>3 DEF TypeOK, AlreadyUp, Drive, ProbeReady, Ready, ProbeOnly, ProbeThenAsk,
                StatusAbsent, StatusStopped, StatusRunning, PollGivesUp, StatusMalformed,
                NotReady, GoOn, Proceed
  <2> QED
    BY <2>1, <2>2 DEF OneColdStart
<1>4. CASE IdleStep \/ StartIdleMonitor \/ Close \/ WorldStep \/ UNCHANGED vars
  <2>1. UNCHANGED pc
    BY <1>4 DEF IdleStep, IdleWakes, IdleAsks, IdleRefrains, IdleStatusFails, IdleDies, IdleStops, IdleStopDone,
                IdleStopFails, StartIdleMonitor, Close, IdleMove, WorldStep, CacheExpires,
                IdleElapses, DeadlinePasses, EngineLoads, EngineCrashes, StopLands, World, vars
  <2>2. engine = "stopped" => engine' = "stopped"
    BY <1>4 DEF IdleStep, IdleWakes, IdleAsks, IdleRefrains, IdleStatusFails, IdleDies, IdleStops, IdleStopDone,
                IdleStopFails, StartIdleMonitor, Close, WorldStep, CacheExpires, IdleElapses,
                DeadlinePasses, EngineLoads, EngineCrashes, StopLands, World, worldVars, vars
  <2> QED
    BY <2>1, <2>2 DEF OneColdStart
<1> QED
  BY <1>1, <1>2, <1>3, <1>4 DEF Next, CallerStep, InLock, WorldStep
-----------------------------------------------------------------------------
LEMMA InitIInv == Init => IInv
<1> SUFFICES ASSUME Init PROVE IInv
  OBVIOUS
<1> USE DEF Init
<1>1. lock = <<>> /\ Len(lock) = 0 /\ <<>> \in Seq(Callers \cup {Idle})
  OBVIOUS
<1>2. TypeOK
  BY <1>1 DEF TypeOK, CallerStates, IdleStates, Configurations, States, Up
<1>3. LockInv
  BY <1>1 DEF LockInv, NoTwice, In, Driving, Configurations
<1>4. SingleFlight
  BY DEF SingleFlight, Driving, Configurations
<1>5. LeaseInv
  <2>1. Leased = {}
    BY DEF Leased
  <2> QED
    BY <2>1, FS_EmptySet DEF LeaseInv
<1>6. StopInv
  BY DEF StopInv, Configurations
<1>7. OneColdStart
  BY DEF OneColdStart
<1> QED
  BY <1>2, <1>3, <1>4, <1>5, <1>6, <1>7 DEF IInv, FlightInv

LEMMA InvStep == IInv /\ [Next]_vars => IInv'
BY TypeStep, FlightStep, LeaseStep, StopStep, ColdStep DEF IInv, FlightInv

LEMMA Invariance == Spec => []IInv
BY InvStep, InitIInv, PTL DEF Spec

(* The variables of Readiness keep to their types. *)
THEOREM TypeCorrect == Spec => []TypeOK
<1>1. IInv => TypeOK
  BY DEF IInv
<1> QED
  BY <1>1, Invariance, PTL

(* Whoever probes, asks, starts, polls or stops the engine holds the lock, *)
(* whatever callers come and go and however long the queue is.             *)
THEOREM LockIsSingleFlight == Spec => []SingleFlight
<1>1. IInv => SingleFlight
  BY DEF IInv, FlightInv
<1> QED
  BY <1>1, Invariance, PTL

(* Nobody starts an engine that is already up. *)
THEOREM ColdStartsOnce == Spec => []OneColdStart
<1>1. IInv => OneColdStart
  BY DEF IInv, FlightInv
<1> QED
  BY <1>1, Invariance, PTL

LEMMA Positive == \A n \in Nat : n > 0 <=> n # 0
  OBVIOUS

LEMMA StopHasNoLease ==
  ASSUME "late stop" \notin Faults
  PROVE  IInv => NoStopUnderLease
<1> SUFFICES ASSUME IInv PROVE NoStopUnderLease
  OBVIOUS
<1>1. stopping => idlePc \in {"stopping", "closed"}
  BY DEF IInv, FlightInv, StopInv
<1>2. idlePc \in {"stopping", "closed"} => leases = 0
  BY LeasesCount DEF IInv, FlightInv, StopInv
<1>3. leases = 0 => ~(leases > 0)
  BY Positive DEF IInv, TypeOK
<1> QED
  BY <1>1, <1>2, <1>3 DEF NoStopUnderLease

(* No stop is under way while a caller holds a lease, as long as the       *)
(* daemon does not carry out a stop it has reported to have failed.        *)
THEOREM LeaseKeepsStopsAway ==
  ASSUME "late stop" \notin Faults
  PROVE  Spec => []NoStopUnderLease
<1>1. IInv => NoStopUnderLease
  BY StopHasNoLease
<1> QED
  BY <1>1, Invariance, PTL

LEMMA ServingStep ==
  ASSUME "late stop" \notin Faults, IInv, ReadyMeansServing, [Next]_vars
  PROVE  ReadyMeansServing'
<1>a. /\ leases > 0 <=> leases # 0
      /\ leases' > 0 <=> leases' # 0
  <2>1. leases \in Nat /\ leases' \in Nat
    BY TypeStep DEF IInv, TypeOK
  <2> QED
    BY <2>1, Positive
<1> USE DEF IInv, FlightInv
<1>1. ASSUME NEW c \in Callers, FastPath(c)
      PROVE  ReadyMeansServing'
  BY <1>1 DEF ReadyMeansServing, FastPath, GoOn, worldVars
<1>2. ASSUME NEW c \in Callers, Release(c)
      PROVE  ReadyMeansServing'
  <2>1. leases # 0
    BY <1>2, LeasesCount DEF Release
  <2>2. leases > 0
    BY <1>a, <2>1
  <2> QED
    BY <1>2, <2>2 DEF ReadyMeansServing, Release, worldVars
<1>3. ASSUME NEW c \in Callers, AlreadyUp(c)
      PROVE  ReadyMeansServing'
  BY <1>3 DEF ReadyMeansServing, AlreadyUp, GoOn, worldVars
<1>4. ASSUME NEW c \in Callers, ProbeReady(c)
      PROVE  ReadyMeansServing'
  <2>1. engine = "serving"
    BY <1>4 DEF ProbeReady, Classified
  <2>2. Holds(c) /\ pc[c] # "out"
    BY <1>4, InLockHolds DEF InLock
  <2>3. ~stopping
    BY <2>2, DrivesAlone DEF StopInv
  <2> QED
    BY <1>4, <2>1, <2>3 DEF ReadyMeansServing, ProbeReady, worldVars
<1>5. ASSUME NEW c \in Callers,
             \/ QueueForLock(c) \/ Drive(c) \/ ProbeThenAsk(c) \/ StatusStopped(c)
             \/ StatusRunning(c) \/ ProbeOnly(c) \/ StatusAbsent(c) \/ PollGivesUp(c)
             \/ StatusMalformed(c)
      PROVE  ReadyMeansServing'
  <2>1. UNCHANGED <<cached, leases, engine, stopping>>
    BY <1>5 DEF QueueForLock, Drive, ProbeThenAsk, StatusStopped, StatusRunning, ProbeOnly,
                StatusAbsent, PollGivesUp, StatusMalformed, NotReady, Proceed, worldVars
  <2> QED
    BY <2>1 DEF ReadyMeansServing
<1>6. ASSUME NEW c \in Callers, StartSucceeds(c) \/ ControllerFails(c) \/ Abandon(c)
      PROVE  ReadyMeansServing'
  <2>1. UNCHANGED <<cached, leases, stopping>>
    BY <1>6 DEF StartSucceeds, ControllerFails, Abandon, NotReady, Proceed
  <2>2. engine \in {"serving", "restarting"} => engine' = engine
    BY <1>6 DEF StartSucceeds, ControllerFails, Abandon, MayHaveStarted, Started
  <2> QED
    BY <2>1, <2>2 DEF ReadyMeansServing
<1>7. CASE IdleStops
  <2>1. cached' = "none" /\ leases' = 0
    BY <1>7 DEF IdleStops, IdleMove, ShouldIdleDown
  <2> QED
    BY <1>a, <2>1 DEF ReadyMeansServing
<1>8. CASE \/ IdleWakes \/ IdleAsks \/ IdleRefrains \/ IdleStatusFails \/ IdleDies
           \/ IdleStopDone \/ StartIdleMonitor \/ Close
  <2>1. UNCHANGED <<cached, leases, engine, stopping>>
    BY <1>8 DEF IdleWakes, IdleAsks, IdleRefrains, IdleStatusFails, IdleDies, IdleStopDone,
                StartIdleMonitor, Close, IdleMove, worldVars
  <2> QED
    BY <2>1 DEF ReadyMeansServing
<1>9. CASE IdleStopFails
  BY <1>9 DEF ReadyMeansServing, IdleStopFails, IdleMove
<1>10. CASE StopLands
  BY <1>10 DEF ReadyMeansServing, StopLands, World
<1>11. CASE CacheExpires \/ IdleElapses \/ DeadlinePasses \/ EngineLoads
  BY <1>11 DEF ReadyMeansServing, CacheExpires, IdleElapses, DeadlinePasses, EngineLoads,
               World, worldVars
<1>12. CASE EngineCrashes
  BY <1>12 DEF ReadyMeansServing, EngineCrashes, World
<1>13. CASE UNCHANGED vars
  BY <1>13 DEF ReadyMeansServing, vars
<1> QED
  BY <1>1, <1>2, <1>3, <1>4, <1>5, <1>6, <1>7, <1>8, <1>9, <1>10, <1>11, <1>12, <1>13
  DEF Next, CallerStep, InLock, IdleStep

(* Whoever is told READY has an engine that served then and that nobody    *)
(* has stopped since, for as long as the READY is cached or a lease held.  *)
THEOREM ReadyIsServed ==
  ASSUME "late stop" \notin Faults
  PROVE  Spec => []ReadyMeansServing
<1>1. Init => ReadyMeansServing
  <2>1. Init => cached = "none" /\ leases = 0
    BY DEF Init
  <2>2. cached = "none" /\ leases = 0 => ReadyMeansServing
    BY Positive DEF ReadyMeansServing
  <2> QED
    BY <2>1, <2>2
<1>2. IInv /\ ReadyMeansServing /\ [Next]_vars => ReadyMeansServing'
  BY ServingStep
<1> QED
  BY <1>1, <1>2, Invariance, PTL DEF Spec
-----------------------------------------------------------------------------
(* A leased engine is never down, crashes of its process included, as long *)
(* as no stop is carried out that was reported to have failed.             *)
THEOREM LeasedEngineIsUp ==
  ASSUME "late stop" \notin Faults
  PROVE  Spec => []LeasedEngineStaysUp
<1>1. ReadyMeansServing => LeasedEngineStaysUp
  BY DEF ReadyMeansServing, LeasedEngineStaysUp, Up
<1> QED
  BY <1>1, ReadyIsServed, PTL
-----------------------------------------------------------------------------
(* Whether there is a controller never changes. *)
LEMMA ConfigurationStays ==
  ASSUME [Next]_vars
  PROVE  Managed' <=> Managed
<1>1. ASSUME NEW c \in Callers, CallerStep(c)
      PROVE  Managed' <=> Managed
  BY <1>1 DEF Managed, CallerStep, FastPath, QueueForLock, ArmIdle, Release, Abandon, InLock,
              AlreadyUp, Drive, ProbeReady, ProbeOnly, ProbeThenAsk, StatusAbsent,
              StatusStopped, StatusRunning, StartSucceeds, ControllerFails, StatusMalformed,
              PollGivesUp
<1>2. CASE IdleStep \/ StartIdleMonitor \/ Close
  BY <1>2 DEF Managed, IdleStep, IdleWakes, IdleAsks, IdleRefrains, IdleStatusFails, IdleDies,
              IdleStops, IdleStopDone, IdleStopFails, StartIdleMonitor, ArmIdle, Close, IdleMove
<1>3. CASE WorldStep \/ UNCHANGED vars
  BY <1>3 DEF Managed, WorldStep, CacheExpires, IdleElapses, DeadlinePasses, EngineLoads,
              EngineCrashes, StopLands, World, vars
<1> QED
  BY <1>1, <1>2, <1>3 DEF Next, WorldStep

(* The cause of the last failed readiness is never that of another one.    *)
THEOREM CauseIsOfTheAnswer == Spec => []CauseExplainsAnswer
<1>1. Init => CauseExplainsAnswer
  BY DEF Init, CauseExplainsAnswer
<1>2. ASSUME CauseExplainsAnswer, [Next]_vars
      PROVE  CauseExplainsAnswer'
  <2>1. ASSUME NEW c \in Callers, ProbeReady(c)
        PROVE  CauseExplainsAnswer'
    BY <2>1 DEF CauseExplainsAnswer, ProbeReady, Ready
  <2>2. ASSUME NEW c \in Callers, ProbeOnly(c)
        PROVE  CauseExplainsAnswer'
    <3>1. answer' # "ready" /\ ~Managed'
      BY <2>2 DEF ProbeOnly, NotReady, Managed
    <3> QED
      BY <3>1 DEF CauseExplainsAnswer
  <2>3. ASSUME NEW c \in Callers, StatusAbsent(c) \/ ControllerFails(c) \/ PollGivesUp(c)
        PROVE  CauseExplainsAnswer'
    <3>1. answer' # "ready" /\ cause' # "none"
      BY <2>3 DEF StatusAbsent, ControllerFails, PollGivesUp, NotReady
    <3> QED
      BY <3>1 DEF CauseExplainsAnswer
  <2>4. ASSUME NEW c \in Callers,
               \/ FastPath(c) \/ QueueForLock(c) \/ AlreadyUp(c) \/ Drive(c) \/ ProbeThenAsk(c)
               \/ StatusStopped(c) \/ StatusRunning(c) \/ StartSucceeds(c) \/ Release(c)
               \/ Abandon(c) \/ StatusMalformed(c)
        PROVE  CauseExplainsAnswer'
    <3>1. UNCHANGED <<cause, answer>>
      BY <2>4 DEF FastPath, QueueForLock, AlreadyUp, Drive, ProbeThenAsk, StatusStopped,
                  StatusRunning, StartSucceeds, Release, Abandon, StatusMalformed, Proceed
    <3> QED
      BY <1>2, <3>1, ConfigurationStays DEF CauseExplainsAnswer
  <2>5. CASE IdleStep \/ StartIdleMonitor \/ Close \/ WorldStep \/ UNCHANGED vars
    <3>1. UNCHANGED <<cause, answer>>
      BY <2>5 DEF IdleStep, IdleWakes, IdleAsks, IdleRefrains, IdleStatusFails, IdleDies, IdleStops, IdleStopDone,
                  IdleStopFails, StartIdleMonitor, Close, IdleMove, WorldStep, CacheExpires,
                  IdleElapses, DeadlinePasses, EngineLoads, EngineCrashes, StopLands, World, vars
    <3> QED
      BY <1>2, <3>1, ConfigurationStays DEF CauseExplainsAnswer
  <2> QED
    BY <1>2, <2>1, <2>2, <2>3, <2>4, <2>5 DEF Next, CallerStep, InLock, WorldStep
<1> QED
  BY <1>1, <1>2, PTL DEF Spec
=============================================================================
