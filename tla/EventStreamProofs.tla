------------------------- MODULE EventStreamProofs --------------------------
(***************************************************************************)
(* The event log and the streams that read it, for any number of clients,  *)
(* any log limit and any pattern of reconnections.                         *)
(***************************************************************************)
EXTENDS EventStream, FiniteSetTheorems, TLAPS

Last == events[Len(events)]

(* The log: the newest events, as many as there were or as it holds, under *)
(* consecutive ids; and what has happened to the job by its last id.       *)
LogInv ==
  /\ events \in Seq(Event)
  /\ seq \in 1 .. MaxId
  /\ Len(events) = IF seq < Limit THEN seq ELSE Limit
  /\ \A i \in 1 .. Len(events) : events[i].id = seq - Len(events) + i
  /\ Last.type = "queued" => seq = 1
  /\ Last.type = "running" => seq <= 2

StreamTypes ==
  /\ stream \in [Clients -> {"none", "open", "closed"}]
  /\ net \in [Clients -> BOOLEAN]
  /\ lastId \in [Clients -> 0 .. MaxId]
  /\ batch \in [Clients -> Seq(Event)]
  /\ seen \in [Clients -> Seq(1 .. MaxId)]

CounterInv == active \in Nat /\ CounterIsExact

(* What a generator has in hand comes after what it sent last, and what    *)
(* lies between has been dropped from the log.                             *)
BatchOk(b, n) ==
  b # <<>> => /\ b[1].id > n
              /\ \A m \in 1 .. MaxId : n < m /\ m < b[1].id => m <= seq - Limit
              /\ \A i \in 1 .. Len(b) : b[i].id = b[1].id + i - 1
              /\ b[Len(b)].id <= seq

BatchInv == \A c \in Clients : BatchOk(batch[c], lastId[c])

(* A generator whose connection holds knows what its client has seen.      *)
ClientInv == \A c \in Clients : stream[c] = "open" /\ net[c] => lastId[c] = LastSeen(c)

IInv == LogInv /\ StreamTypes /\ CounterInv /\ BatchInv /\ ClientInv /\ DeliveredOnceInOrder

-----------------------------------------------------------------------------
(* A stretch of a sequence of events. *)
LEMMA Stretch ==
  ASSUME NEW s \in Seq(Event), NEW a \in 1 .. Len(s)
  PROVE  /\ SubSeq(s, a, Len(s)) \in Seq(Event)
         /\ Len(SubSeq(s, a, Len(s))) = Len(s) - a + 1
         /\ \A i \in 1 .. Len(s) - a + 1 : SubSeq(s, a, Len(s))[i] = s[a + i - 1]
  OBVIOUS

(* What an append does to the log's end. *)
LEMMA Appended ==
  ASSUME NEW S, NEW s \in Seq(S), NEW e \in S
  PROVE  /\ Append(s, e) \in Seq(S)
         /\ Len(Append(s, e)) = Len(s) + 1
         /\ \A i \in 1 .. Len(s) : Append(s, e)[i] = s[i]
         /\ Append(s, e)[Len(s) + 1] = e
  OBVIOUS

LEMMA TailFacts ==
  ASSUME NEW S, NEW s \in Seq(S), s # <<>>
  PROVE  /\ Len(s) \in Nat \ {0}
         /\ Tail(s) \in Seq(S)
         /\ Len(Tail(s)) = Len(s) - 1
         /\ \A i \in 1 .. Len(s) - 1 : Tail(s)[i] = s[i + 1]
         /\ Head(s) = s[1]
         /\ s[1] \in S
  OBVIOUS

LEMMA Entries ==
  ASSUME NEW S, NEW s \in Seq(S)
  PROVE  /\ \A i \in 1 .. Len(s) : s[i] \in S
         /\ s # <<>> => Len(s) \in 1 .. Len(s)
  OBVIOUS

LEMMA Offsets ==
  \A d, low, k, m, s \in Int :
    low + k - 1 = m /\ d + m = s => d + low + 1 - 1 = d + low /\ d + low + k - 1 = s
  OBVIOUS

(* events_since: the events a reader lacks, with nothing left out that the *)
(* log still has.                                                          *)
LEMMA EventsSinceFacts ==
  ASSUME LogInv, NEW n \in 0 .. MaxId
  PROVE  /\ EventsSince(n) \in Seq(Event)
         /\ BatchOk(EventsSince(n), n)
<1> DEFINE places == {i \in DOMAIN events : events[i].id > n}
           d == seq - Len(events)
<1>1. /\ Limit \in Nat \ {0}
      /\ events \in Seq(Event)
      /\ Len(events) \in Nat \ {0}
      /\ d \in Nat
      /\ \A i \in 1 .. Len(events) : events[i].id = d + i
      /\ d = 0 \/ d = seq - Limit
  BY LimitAssumption DEF LogInv, MaxId
<1>2. CASE places = {}
  <2>1. EventsSince(n) = <<>>
    BY <1>2 DEF EventsSince, From
  <2> QED
    BY <2>1 DEF BatchOk
<1>3. CASE places # {}
  <2>1. PICK k \in places : TRUE
    BY <1>3
  <2>a. /\ DOMAIN events = 1 .. Len(events)
        /\ n \in Nat
        /\ \A i \in 1 .. Len(events) : i \in places <=> d + i > n
        /\ k \in 1 .. Len(events) /\ d + k > n
    BY <1>1, <2>1 DEF MaxId
  <2> DEFINE low == IF n < d THEN 1 ELSE n - d + 1
  <2> HIDE DEF d, places
  <2>2. /\ low \in 1 .. Len(events)
        /\ d + low > n
        /\ \A i \in 1 .. Len(events) : d + i > n => low <= i
    BY <1>1, <2>a
  <2>b. low \in places /\ \A i \in places : low <= i
    BY <2>2, <2>a DEF places
  <2> DEFINE a == CHOOSE i \in places : \A j \in places : i <= j
  <2>3. a \in places /\ \A j \in places : a <= j
    BY <2>b
  <2>4. a = low
    BY <2>a, <2>b, <2>2, <2>3 DEF places
  <2>5. EventsSince(n) = SubSeq(events, low, Len(events))
    BY <1>3, <2>4 DEF EventsSince, From, places
  <2> DEFINE b == SubSeq(events, low, Len(events))
  <2>6. /\ b \in Seq(Event)
        /\ Len(b) = Len(events) - low + 1
        /\ \A i \in 1 .. Len(b) : b[i] = events[low + i - 1]
    <3>1. events \in Seq(Event) /\ low \in 1 .. Len(events)
      BY <1>1, <2>2
    <3>2. /\ b \in Seq(Event)
          /\ Len(b) = Len(events) - low + 1
          /\ \A i \in 1 .. Len(events) - low + 1 : b[i] = events[low + i - 1]
      <4> HIDE DEF low
      <4> QED
        BY <3>1, Stretch
    <3> HIDE DEF b, low
    <3> QED
      BY <3>2
  <2> HIDE DEF b, a
  <2>d. /\ low \in Nat \ {0}
        /\ Len(b) \in Nat \ {0}
        /\ low + Len(b) - 1 = Len(events)
        /\ d + Len(events) = seq
        /\ seq \in 1 .. MaxId
    <3>1. low \in Nat \ {0} /\ low <= Len(events)
      BY <1>1, <2>2
    <3>2. Len(b) = Len(events) - low + 1
      BY <2>6
    <3>3. seq \in 1 .. MaxId /\ seq \in Int
      BY DEF LogInv, MaxId
    <3>4. d + Len(events) = seq
      BY <1>1, <3>3 DEF d
    <3> HIDE DEF low
    <3> QED
      BY <1>1, <3>1, <3>2, <3>3, <3>4
  <2> HIDE DEF low
  <2>c. \A i \in 1 .. Len(b) : low + i - 1 \in 1 .. Len(events)
    BY <1>1, <2>d
  <2>7. \A i \in 1 .. Len(b) : b[i].id = d + low + i - 1
    <3> SUFFICES ASSUME NEW i \in 1 .. Len(b)
                 PROVE  b[i].id = d + low + i - 1
      OBVIOUS
    <3>1. b[i] = events[low + i - 1] /\ low + i - 1 \in 1 .. Len(events)
      BY <2>6, <2>c
    <3>2. b[i].id = d + (low + i - 1)
      BY <1>1, <3>1
    <3> QED
      BY <1>1, <2>d, <3>2
  <2>8. b[1].id = d + low /\ b[Len(b)].id = seq
    <3>1. 1 \in 1 .. Len(b) /\ Len(b) \in 1 .. Len(b)
      BY <2>d
    <3>2. b[1].id = d + low + 1 - 1 /\ b[Len(b)].id = d + low + Len(b) - 1
      BY <2>7, <3>1
    <3>3. d \in Int /\ low \in Int /\ Len(b) \in Int /\ Len(events) \in Int /\ seq \in Int
      BY <1>1, <2>d DEF MaxId
    <3>4. d + low + 1 - 1 = d + low /\ d + low + Len(b) - 1 = seq
      BY <2>d, <3>3, Offsets
    <3> QED
      BY <3>2, <3>4
  <2>9. d + low > n /\ (d + low = n + 1 \/ (d + low = d + 1 /\ n < d))
    BY <1>1, <2>a, <2>2 DEF low
  <2>10. \A m \in 1 .. MaxId : n < m /\ m < d + low => m <= seq - Limit
    BY <1>1, <2>a, <2>9 DEF MaxId, d
  <2>11. BatchOk(b, n)
    BY <1>1, <2>a, <2>d, <2>7, <2>8, <2>9, <2>10 DEF BatchOk
  <2> QED
    BY <2>5, <2>6, <2>11 DEF b
<1> QED
  BY <1>2, <1>3
-----------------------------------------------------------------------------
(* The counter of the streams that are open. *)
Open == {c \in Clients : stream[c] = "open"}

LEMMA Counting ==
  ASSUME StreamTypes, CounterInv, NEW c \in Clients
  PROVE  /\ stream[c] = "open" => /\ active - 1 \in Nat
                                   /\ Cardinality(Open \ {c}) = active - 1
         /\ stream[c] # "open" => /\ active + 1 \in Nat
                                   /\ Cardinality(Open \cup {c}) = active + 1
<1>1. IsFiniteSet(Open) /\ active = Cardinality(Open) /\ active \in Nat
  BY ClientsAssumption, FS_Subset DEF Open, CounterInv, CounterIsExact
<1>2. stream[c] = "open" <=> c \in Open
  BY DEF Open
<1>3. CASE c \in Open
  <2>1. /\ IsFiniteSet(Open \ {c})
        /\ Cardinality(Open \ {c}) = Cardinality(Open) - 1
    BY <1>1, <1>3, FS_RemoveElement
  <2>2. Cardinality(Open \ {c}) \in Nat
    BY <2>1, FS_CardinalityType
  <2> QED
    BY <1>1, <1>2, <1>3, <2>1, <2>2
<1>4. CASE c \notin Open
  <2>1. Cardinality(Open \cup {c}) = Cardinality(Open) + 1
    BY <1>1, <1>4, FS_AddElement
  <2>2. active + 1 \in Nat
    BY <1>1
  <2> QED
    BY <1>1, <1>2, <1>4, <2>1, <2>2
<1> QED
  BY <1>3, <1>4

(* Opening and ending a stream keep the count. *)
LEMMA CountsOpening ==
  ASSUME StreamTypes, CounterInv, NEW c \in Clients, stream[c] # "open",
         stream' = [stream EXCEPT ![c] = "open"], active' = active + 1
  PROVE  CounterInv'
<1>1. Open' = Open \cup {c}
  BY DEF Open, StreamTypes
<1> QED
  BY <1>1, Counting DEF CounterInv, CounterIsExact, Open

LEMMA CountsFinish ==
  ASSUME StreamTypes, CounterInv, NEW c \in Clients, stream[c] = "open", Finish(c)
  PROVE  CounterInv'
<1>1. Open' = Open \ {c}
  BY DEF Open, StreamTypes, Finish
<1> QED
  BY <1>1, Counting DEF CounterInv, CounterIsExact, Open, Finish

LEMMA CountsNothing ==
  ASSUME CounterInv, UNCHANGED <<stream, active>>
  PROVE  CounterInv'
BY DEF CounterInv, CounterIsExact
-----------------------------------------------------------------------------
(* The last id a client has seen is the greatest. *)
LEMMA LastSeenFacts ==
  ASSUME StreamTypes, DeliveredOnceInOrder, NEW c \in Clients
  PROVE  /\ LastSeen(c) \in 0 .. MaxId
         /\ \A i \in 1 .. Len(seen[c]) : /\ seen[c][i] \in 1 .. MaxId
                                          /\ seen[c][i] <= LastSeen(c)
         /\ seen[c] # <<>> => /\ Len(seen[c]) \in 1 .. Len(seen[c])
                              /\ LastSeen(c) = seen[c][Len(seen[c])]
         /\ seen[c] = <<>> => LastSeen(c) = 0
<1>1. seen[c] \in Seq(1 .. MaxId) /\ InOrder(seen[c])
  BY DEF StreamTypes, DeliveredOnceInOrder
<1>2. CASE seen[c] = <<>>
  BY <1>2, <1>1, Entries DEF LastSeen, MaxId
<1>3. CASE seen[c] # <<>>
  <2>1. /\ Len(seen[c]) \in 1 .. Len(seen[c])
        /\ LastSeen(c) = seen[c][Len(seen[c])]
        /\ \A i \in 1 .. Len(seen[c]) : seen[c][i] \in 1 .. MaxId
    BY <1>1, <1>3, Entries DEF LastSeen
  <2>2. \A i \in 1 .. Len(seen[c]) : i < Len(seen[c]) => seen[c][i] < seen[c][Len(seen[c])]
    BY <1>1, <2>1 DEF InOrder
  <2>3. \A i \in 1 .. Len(seen[c]) : i < Len(seen[c]) \/ i = Len(seen[c])
    BY <1>1
  <2> QED
    BY <1>3, <2>1, <2>2, <2>3 DEF MaxId
<1> QED
  BY <1>2, <1>3

(* Receiving the event that comes next keeps a client's order, and misses  *)
(* only what the log has dropped.                                          *)
LEMMA Receives ==
  ASSUME NEW s \in Seq(1 .. MaxId), NEW id \in 1 .. MaxId, NEW n \in 0 .. MaxId,
         NEW gone \in Int, InOrder(s),
         \A m \in Missed(s) : m <= gone,
         \A i \in 1 .. Len(s) : s[i] <= n,
         s = <<>> => n = 0,
         s # <<>> => n = s[Len(s)],
         id > n,
         \A m \in 1 .. MaxId : n < m /\ m < id => m <= gone
  PROVE  /\ InOrder(Append(s, id))
         /\ \A m \in Missed(Append(s, id)) : m <= gone
<1> DEFINE t == Append(s, id)
<1>1. /\ t \in Seq(1 .. MaxId)
      /\ Len(t) = Len(s) + 1
      /\ \A i \in 1 .. Len(s) : t[i] = s[i]
      /\ t[Len(s) + 1] = id
      /\ DOMAIN t = 1 .. Len(s) + 1
      /\ DOMAIN s = 1 .. Len(s)
      /\ Len(s) \in Nat
  BY Appended
<1> HIDE DEF t
<1>2. \A i \in 1 .. Len(s) + 1 : i \in 1 .. Len(s) \/ i = Len(s) + 1
  BY <1>1
<1>3. \A i \in 1 .. Len(s) : s[i] \in 1 .. MaxId /\ s[i] < id
  BY DEF MaxId
<1>4. InOrder(t)
  <2> SUFFICES ASSUME NEW i \in 1 .. Len(s) + 1, NEW k \in 1 .. Len(s) + 1, i < k
               PROVE  t[i] < t[k]
    BY <1>1 DEF InOrder
  <2>1. i \in 1 .. Len(s)
    BY <1>1
  <2>2. CASE k \in 1 .. Len(s)
    BY <1>1, <2>1, <2>2 DEF InOrder
  <2>3. CASE k = Len(s) + 1
    BY <1>1, <1>3, <2>1, <2>3
  <2> QED
    BY <1>2, <2>2, <2>3
<1>5. ASSUME NEW m \in Missed(t) PROVE m <= gone
  <2>1. /\ m \in 1 .. MaxId
        /\ \E i \in 1 .. Len(s) + 1 : m < t[i]
        /\ \A i \in 1 .. Len(s) + 1 : m # t[i]
    BY <1>1, <1>5 DEF Missed
  <2>2. \A i \in 1 .. Len(s) : m # s[i]
    BY <1>1, <2>1
  <2>3. CASE \E i \in 1 .. Len(s) : m < s[i]
    BY <1>1, <2>1, <2>2, <2>3 DEF Missed
  <2>4. CASE m < id /\ ~\E i \in 1 .. Len(s) : m < s[i]
    <3>1. CASE s = <<>>
      <4>1. CASE n < m
        BY <2>1, <2>4, <4>1
      <4> QED
        BY <2>1, <2>4, <3>1, <4>1 DEF MaxId
    <3>2. CASE s # <<>>
      <4>1. Len(s) \in 1 .. Len(s) /\ s[Len(s)] = n
        BY <1>1, <3>2
      <4>2. n < m
        BY <2>1, <2>2, <2>4, <4>1 DEF MaxId
      <4> QED
        BY <2>1, <2>4, <4>2
    <3> QED
      BY <3>1, <3>2
  <2> QED
    BY <1>1, <1>2, <2>1, <2>3, <2>4
<1> QED
  BY <1>4, <1>5 DEF t
-----------------------------------------------------------------------------
(* One more event leaves the log in order and full. *)
LEMMA AppendKeepsLog == ASSUME LogInv, AppendEvent PROVE LogInv' /\ seq' = seq + 1
<1>1. /\ Limit \in Nat \ {0}
      /\ events \in Seq(Event)
      /\ Len(events) \in Nat \ {0}
      /\ Len(events) \in 1 .. Len(events)
      /\ Last \in Event
      /\ seq \in 1 .. MaxId
  BY LimitAssumption DEF LogInv, MaxId, Last
<1>2. /\ Last.type \in {"queued", "running"}
      /\ Last.type = "queued" => seq = 1
      /\ Last.type = "running" => seq = 1 \/ seq = 2
  BY <1>1 DEF LogInv, AppendEvent, Ended, Last, Event, Types, TerminalTypes, MaxId
<1>3. PICK t \in Follows(Last.type) :
        events' = Retain(Append(events, [id |-> seq + 1, type |-> t]))
  BY DEF AppendEvent, Last
<1>4. /\ t \in Types \ {"queued"}
      /\ t = "running" => seq = 1
      /\ seq + 1 \in 1 .. MaxId
  BY <1>2, <1>3 DEF Follows, Types, TerminalTypes, MaxId
<1> DEFINE e == [id |-> seq + 1, type |-> t]
           s == Append(events, e)
<1>5. e \in Event /\ e.id = seq + 1 /\ e.type = t
  BY <1>4 DEF Event
<1> HIDE DEF e
<1>6. /\ s \in Seq(Event)
      /\ Len(s) = Len(events) + 1
      /\ \A i \in 1 .. Len(events) : s[i] = events[i]
      /\ s[Len(events) + 1] = e
  BY <1>1, <1>5, Appended
<1>7. events' = Retain(s)
  BY <1>3 DEF e
<1> HIDE DEF s
<1>8. seq' = seq + 1
  BY DEF AppendEvent
<1>9. \A i \in 1 .. Len(s) : s[i].id = seq - Len(events) + i
  <2> SUFFICES ASSUME NEW i \in 1 .. Len(s) PROVE s[i].id = seq - Len(events) + i
    OBVIOUS
  <2>1. CASE i \in 1 .. Len(events)
    BY <1>6, <2>1 DEF LogInv
  <2>2. CASE i = Len(events) + 1
    BY <1>1, <1>5, <1>6, <2>2 DEF MaxId
  <2> QED
    BY <1>1, <1>6, <2>1, <2>2
<1>10. CASE Len(s) <= Limit
  <2>1. events' = s
    BY <1>1, <1>6, <1>7, <1>10 DEF Retain
  <2>2. Len(s) = IF seq + 1 < Limit THEN seq + 1 ELSE Limit
    BY <1>1, <1>6, <1>10 DEF LogInv, MaxId
  <2>3. \A i \in 1 .. Len(s) : s[i].id = seq + 1 - Len(s) + i
    BY <1>1, <1>6, <1>9 DEF MaxId
  <2>4. s[Len(s)].type = t
    BY <1>5, <1>6
  <2> QED
    BY <1>4, <1>6, <1>8, <2>1, <2>2, <2>3, <2>4 DEF LogInv, Last, MaxId
<1>11. CASE Len(s) > Limit
  <2>0. s # <<>>
    BY <1>6, <1>1
  <2>1. events' = Tail(s)
    BY <1>7, <1>11 DEF Retain
  <2>2. /\ Tail(s) \in Seq(Event)
        /\ Len(Tail(s)) = Len(s) - 1
        /\ \A i \in 1 .. Len(s) - 1 : Tail(s)[i] = s[i + 1]
    BY <1>6, <2>0, TailFacts
  <2>3. Len(events) = Limit /\ seq >= Limit
    BY <1>1, <1>6, <1>11 DEF LogInv, MaxId
  <2>4. Len(Tail(s)) = IF seq + 1 < Limit THEN seq + 1 ELSE Limit
    BY <1>1, <1>6, <2>2, <2>3 DEF MaxId
  <2> DEFINE r == Tail(s)
  <2>5. \A i \in 1 .. Len(r) : r[i].id = seq + 1 - Len(r) + i
    <3> SUFFICES ASSUME NEW i \in 1 .. Len(r) PROVE r[i].id = seq + 1 - Len(r) + i
      OBVIOUS
    <3>1. i + 1 \in 1 .. Len(s) /\ r[i] = s[i + 1]
      BY <1>1, <1>6, <2>2
    <3>2. r[i].id = seq - Len(events) + (i + 1)
      BY <1>9, <3>1
    <3> QED
      BY <1>1, <1>6, <2>2, <3>2 DEF MaxId
  <2>6. r[Len(r)].type = t
    <3>1. Len(r) \in 1 .. Len(s) - 1 /\ Len(r) + 1 = Len(events) + 1
      BY <1>1, <1>6, <2>2
    <3> QED
      BY <1>5, <1>6, <2>2, <3>1
  <2> HIDE DEF r
  <2>7. events' = r /\ r \in Seq(Event) /\ Len(r) = IF seq + 1 < Limit THEN seq + 1 ELSE Limit
    BY <2>1, <2>2, <2>4 DEF r
  <2> QED
    BY <1>4, <1>8, <2>5, <2>6, <2>7 DEF LogInv, Last, MaxId
<1> QED
  BY <1>1, <1>6, <1>8, <1>10, <1>11

(* What is gone from the log stays gone: the clients' side of an append.   *)
LEMMA AppendStep == ASSUME IInv, AppendEvent PROVE IInv'
<1>1. LogInv' /\ seq' = seq + 1
  BY AppendKeepsLog DEF IInv
<1>2. /\ UNCHANGED <<stream, net, lastId, batch, seen, active>>
      /\ seq \in 1 .. MaxId
      /\ Limit \in Nat
  BY LimitAssumption DEF AppendEvent, IInv, LogInv
<1>3. StreamTypes' /\ CounterInv' /\ ClientInv'
  BY <1>2, CountsNothing DEF IInv, StreamTypes, ClientInv, LastSeen
<1>4. \A m \in 1 .. MaxId : m <= seq - Limit => m <= seq' - Limit
  BY <1>1, <1>2 DEF MaxId
<1>5. BatchInv'
  <2> SUFFICES ASSUME NEW c \in Clients, batch[c] # <<>>
               PROVE  BatchOk(batch[c], lastId[c])'
    BY <1>2 DEF BatchInv, BatchOk
  <2>1. BatchOk(batch[c], lastId[c])
    BY DEF IInv, BatchInv
  <2>2. batch[c] \in Seq(Event) /\ Len(batch[c]) \in 1 .. Len(batch[c])
    BY Entries DEF IInv, StreamTypes
  <2>3. batch[c][Len(batch[c])].id \in 1 .. MaxId
    <3>1. batch[c][Len(batch[c])] \in Event
      BY <2>2, Entries
    <3> QED
      BY <3>1 DEF Event
  <2>4. batch[c][Len(batch[c])].id <= seq'
    BY <1>1, <1>2, <2>1, <2>3 DEF BatchOk, MaxId
  <2> QED
    BY <1>2, <1>4, <2>1, <2>4 DEF BatchOk
<1>6. DeliveredOnceInOrder'
  BY <1>2, <1>4 DEF IInv, DeliveredOnceInOrder, Missed
<1> QED
  BY <1>1, <1>3, <1>5, <1>6 DEF IInv

LEMMA ConnectStep == ASSUME IInv, NEW c \in Clients, Connect(c) PROVE IInv'
<1>1. LastSeen(c) \in 0 .. MaxId
  BY LastSeenFacts DEF IInv
<1>2. LogInv'
  BY DEF IInv, LogInv, Last, Connect, logVars
<1>3. StreamTypes'
  BY <1>1 DEF IInv, StreamTypes, Connect
<1>4. CounterInv'
  BY CountsOpening DEF IInv, Connect
<1>5. BatchInv'
  BY DEF IInv, StreamTypes, BatchInv, BatchOk, Connect, logVars
<1>6. ClientInv'
  BY DEF IInv, StreamTypes, ClientInv, LastSeen, Connect
<1>7. DeliveredOnceInOrder'
  BY DEF IInv, DeliveredOnceInOrder, Connect, logVars
<1> QED
  BY <1>2, <1>3, <1>4, <1>5, <1>6, <1>7 DEF IInv

LEMMA ReadStep == ASSUME IInv, NEW c \in Clients, Read(c) PROVE IInv'
<1>1. /\ EventsSince(lastId[c]) \in Seq(Event)
      /\ BatchOk(EventsSince(lastId[c]), lastId[c])
  BY EventsSinceFacts DEF IInv, StreamTypes
<1>2. /\ batch' = [batch EXCEPT ![c] = EventsSince(lastId[c])]
      /\ UNCHANGED <<stream, net, lastId, seen, active, events, seq>>
  BY DEF Read, logVars
<1>3. LogInv' /\ ClientInv' /\ DeliveredOnceInOrder'
  BY <1>2 DEF IInv, LogInv, Last, ClientInv, LastSeen, DeliveredOnceInOrder
<1>4. StreamTypes' /\ CounterInv'
  BY <1>1, <1>2, CountsNothing DEF IInv, StreamTypes
<1>5. BatchInv'
  BY <1>1, <1>2 DEF IInv, StreamTypes, BatchInv, BatchOk
<1> QED
  BY <1>3, <1>4, <1>5 DEF IInv

LEMMA DropStep == ASSUME IInv, NEW c \in Clients, Drop(c) PROVE IInv'
<1>1. /\ net' = [net EXCEPT ![c] = FALSE]
      /\ UNCHANGED <<stream, lastId, batch, seen, active, events, seq>>
  BY DEF Drop, logVars
<1>2. LogInv' /\ CounterInv' /\ BatchInv' /\ DeliveredOnceInOrder'
  BY <1>1, CountsNothing
  DEF IInv, LogInv, Last, BatchInv, BatchOk, DeliveredOnceInOrder
<1>3. StreamTypes' /\ ClientInv'
  BY <1>1 DEF IInv, StreamTypes, ClientInv, LastSeen
<1> QED
  BY <1>2, <1>3 DEF IInv

LEMMA NoticeStep == ASSUME IInv, NEW c \in Clients, NoticeDrop(c) PROVE IInv'
<1>1. /\ stream' = [stream EXCEPT ![c] = "closed"]
      /\ batch' = [batch EXCEPT ![c] = <<>>]
      /\ UNCHANGED <<net, lastId, seen, events, seq>>
  BY DEF NoticeDrop, Finish, logVars
<1>2. CounterInv'
  BY CountsFinish DEF IInv, NoticeDrop
<1>3. LogInv' /\ DeliveredOnceInOrder'
  BY <1>1 DEF IInv, LogInv, Last, DeliveredOnceInOrder
<1>4. StreamTypes' /\ ClientInv'
  BY <1>1 DEF IInv, StreamTypes, ClientInv, LastSeen
<1>5. BatchInv'
  BY <1>1 DEF IInv, StreamTypes, BatchInv, BatchOk
<1> QED
  BY <1>2, <1>3, <1>4, <1>5 DEF IInv
-----------------------------------------------------------------------------
(* Handing over the next event, and what is left of the batch. *)
LEMMA YieldStep == ASSUME IInv, NEW c \in Clients, Yield(c) PROVE IInv'
<1> DEFINE e == Head(batch[c])
           n == lastId[c]
<1>1. /\ e \in Event
      /\ e = batch[c][1]
      /\ e.id \in 1 .. MaxId
      /\ n \in 0 .. MaxId
      /\ Len(batch[c]) \in Nat \ {0}
      /\ Tail(batch[c]) \in Seq(Event)
      /\ Len(Tail(batch[c])) = Len(batch[c]) - 1
      /\ \A i \in 1 .. Len(batch[c]) - 1 : Tail(batch[c])[i] = batch[c][i + 1]
  <2>1. batch[c] \in Seq(Event) /\ batch[c] # <<>> /\ n \in 0 .. MaxId
    BY DEF IInv, StreamTypes, Yield
  <2>2. e \in Event
    BY <2>1, TailFacts
  <2> QED
    BY <2>1, <2>2, TailFacts DEF Event
<1>2. /\ e.id > n
      /\ \A m \in 1 .. MaxId : n < m /\ m < e.id => m <= seq - Limit
      /\ \A i \in 1 .. Len(batch[c]) : batch[c][i].id = e.id + i - 1
      /\ batch[c][Len(batch[c])].id <= seq
  BY <1>1 DEF IInv, BatchInv, BatchOk, Yield
<1>3. /\ stream[c] = "open"
      /\ UNCHANGED <<net, events, seq>>
      /\ lastId' = [lastId EXCEPT ![c] = e.id]
      /\ seen' = IF net[c] THEN [seen EXCEPT ![c] = Append(@, e.id)] ELSE seen
      /\ \/ Finish(c)
         \/ /\ batch' = [batch EXCEPT ![c] = Tail(@)]
            /\ UNCHANGED <<stream, active>>
  BY DEF Yield, logVars
<1>4. LogInv'
  BY <1>3 DEF IInv, LogInv, Last
<1>5. CounterInv'
  BY <1>3, CountsFinish, CountsNothing DEF IInv
<1> HIDE DEF e, n
<1>6. StreamTypes'
  <2>1. seen[c] \in Seq(1 .. MaxId)
    BY DEF IInv, StreamTypes
  <2>2. Append(seen[c], e.id) \in Seq(1 .. MaxId)
    BY <1>1, <2>1, Appended
  <2> QED
    <3>1. stream' \in [Clients -> {"none", "open", "closed"}] /\ net' \in [Clients -> BOOLEAN]
      BY <1>3 DEF IInv, StreamTypes, Finish
    <3>2. lastId' \in [Clients -> 0 .. MaxId]
      BY <1>1, <1>3 DEF IInv, StreamTypes, MaxId
    <3>3. batch' \in [Clients -> Seq(Event)]
      <4>1. batch \in [Clients -> Seq(Event)] /\ Tail(batch[c]) \in Seq(Event)
        BY <1>1 DEF IInv, StreamTypes
      <4>2. <<>> \in Seq(Event)
        OBVIOUS
      <4>3. \/ batch' = [batch EXCEPT ![c] = <<>>]
            \/ batch' = [batch EXCEPT ![c] = Tail(@)]
        BY <1>3 DEF Finish
      <4> QED
        BY <4>1, <4>2, <4>3
    <3>4. seen' \in [Clients -> Seq(1 .. MaxId)]
      BY <1>3, <2>2 DEF IInv, StreamTypes
    <3> QED
      BY <3>1, <3>2, <3>3, <3>4 DEF StreamTypes
<1>7. BatchInv'
  <2>1. UNCHANGED seq
    BY <1>3
  <2>2. ASSUME NEW k \in Clients, k # c PROVE BatchOk(batch[k], lastId[k])'
    BY <1>3, <2>2 DEF IInv, StreamTypes, BatchInv, BatchOk, Finish
  <2>3. CASE batch'[c] = <<>>
    BY <2>2, <2>3 DEF BatchInv, BatchOk
  <2>4. CASE batch'[c] = Tail(batch[c]) /\ Tail(batch[c]) # <<>>
    <3> DEFINE r == Tail(batch[c])
    <3>1. Len(r) \in 1 .. Len(r) /\ 1 \in 1 .. Len(r) /\ Len(r) = Len(batch[c]) - 1
      BY <1>1, <2>4, Entries
    <3>2. \A i \in 1 .. Len(r) : r[i].id = e.id + i
      <4> SUFFICES ASSUME NEW i \in 1 .. Len(r) PROVE r[i].id = e.id + i
        OBVIOUS
      <4>1. i + 1 \in 1 .. Len(batch[c]) /\ r[i] = batch[c][i + 1]
        BY <1>1, <3>1
      <4>2. r[i].id = e.id + (i + 1) - 1
        BY <1>2, <4>1
      <4> QED
        BY <1>1, <4>2 DEF MaxId
    <3>3. r[Len(r)].id <= seq
      BY <1>1, <1>2, <3>1
    <3> HIDE DEF r
    <3>4. r[1].id = e.id + 1
      BY <3>1, <3>2
    <3>5. BatchOk(r, e.id)
      BY <1>1, <3>1, <3>2, <3>3, <3>4 DEF BatchOk, MaxId
    <3>6. batch'[c] = r /\ lastId'[c] = e.id
      BY <1>3, <2>4 DEF IInv, StreamTypes, r
    <3>7. BatchOk(batch[c], lastId[c])'
      BY <2>1, <3>5, <3>6 DEF BatchOk
    <3> QED
      BY <2>2, <3>7 DEF BatchInv
  <2> QED
    BY <1>3, <2>3, <2>4 DEF IInv, StreamTypes, Finish
<1>8. seen'[c] = IF net[c] THEN Append(seen[c], e.id) ELSE seen[c]
  BY <1>3 DEF IInv, StreamTypes
<1>9. \A k \in Clients : k # c => /\ seen'[k] = seen[k]
                                  /\ lastId'[k] = lastId[k]
                                  /\ stream'[k] = stream[k]
  BY <1>3 DEF IInv, StreamTypes, Finish
<1>10. net[c] => n = LastSeen(c)
  BY <1>3 DEF IInv, ClientInv, n
<1>11. seen[c] \in Seq(1 .. MaxId)
  BY DEF IInv, StreamTypes
<1>12. ClientInv'
  <2>1. ASSUME net[c] PROVE LastSeen(c)' = e.id
    <3>1. /\ seen'[c] = Append(seen[c], e.id)
          /\ Len(Append(seen[c], e.id)) = Len(seen[c]) + 1
          /\ Append(seen[c], e.id)[Len(seen[c]) + 1] = e.id
          /\ Append(seen[c], e.id) # <<>>
      BY <1>1, <1>8, <1>11, <2>1, Appended
    <3> QED
      BY <3>1 DEF LastSeen
  <2>2. lastId'[c] = e.id
    BY <1>3 DEF IInv, StreamTypes
  <2> QED
    BY <1>3, <1>9, <2>1, <2>2 DEF IInv, ClientInv, LastSeen
<1>13. DeliveredOnceInOrder'
  <2>1. \A k \in Clients : /\ InOrder(seen[k])
                           /\ \A m \in Missed(seen[k]) : m <= seq - Limit
    BY DEF IInv, DeliveredOnceInOrder
  <2>2. seq - Limit \in Int
    BY LimitAssumption DEF IInv, LogInv, MaxId
  <2>3. ASSUME net[c]
        PROVE  /\ InOrder(Append(seen[c], e.id))
               /\ \A m \in Missed(Append(seen[c], e.id)) : m <= seq - Limit
    <3>1. /\ \A i \in 1 .. Len(seen[c]) : seen[c][i] <= n
          /\ seen[c] = <<>> => n = 0
          /\ seen[c] # <<>> => n = seen[c][Len(seen[c])]
      BY <1>10, <2>3, LastSeenFacts DEF IInv
    <3> QED
      BY <1>1, <1>2, <1>11, <2>1, <2>2, <3>1, Receives
  <2>4. /\ InOrder(seen'[c])
        /\ \A m \in Missed(seen'[c]) : m <= seq - Limit
    BY <1>8, <2>1, <2>3
  <2> QED
    BY <1>3, <1>9, <2>1, <2>4 DEF DeliveredOnceInOrder
<1> QED
  BY <1>4, <1>5, <1>6, <1>7, <1>12, <1>13 DEF IInv
-----------------------------------------------------------------------------
LEMMA InitIInv == Init => IInv
<1> SUFFICES ASSUME Init PROVE IInv
  OBVIOUS
<1> DEFINE e == [id |-> 1, type |-> "queued"]
<1>1. e \in Event /\ e.id = 1 /\ e.type = "queued"
  BY DEF Event, Types, MaxId
<1> HIDE DEF e
<1>2. <<e>> \in Seq(Event) /\ Len(<<e>>) = 1 /\ <<e>>[1] = e
  BY <1>1
<1>3. events = <<e>> /\ seq = 1
  BY DEF Init, e
<1>4. LogInv
  BY <1>1, <1>2, <1>3, LimitAssumption DEF LogInv, Last, MaxId
<1>5. StreamTypes /\ BatchInv
  BY DEF Init, StreamTypes, BatchInv, BatchOk, MaxId
<1>6. CounterInv
  <2>1. Open = {} /\ active = 0
    BY DEF Init, Open
  <2> QED
    BY <2>1, FS_EmptySet DEF CounterInv, CounterIsExact, Open
<1>7. ClientInv /\ DeliveredOnceInOrder
  BY DEF Init, ClientInv, DeliveredOnceInOrder, InOrder, Missed
<1> QED
  BY <1>4, <1>5, <1>6, <1>7 DEF IInv

LEMMA InvStep == IInv /\ [Next]_vars => IInv'
<1> SUFFICES ASSUME IInv, [Next]_vars PROVE IInv'
  OBVIOUS
<1>1. CASE AppendEvent
  BY <1>1, AppendStep
<1>2. ASSUME NEW c \in Clients, Connect(c) \/ Serve(c) \/ Drop(c) PROVE IInv'
  BY <1>2, ConnectStep, ReadStep, YieldStep, NoticeStep, DropStep DEF Serve
<1>3. CASE UNCHANGED vars
  BY <1>3, CountsNothing
  DEF vars, IInv, LogInv, Last, StreamTypes, BatchInv, BatchOk, ClientInv, LastSeen,
      DeliveredOnceInOrder
<1> QED
  BY <1>1, <1>2, <1>3 DEF Next

(* The invariant holds from the start and for ever. *)
LEMMA Invariance == Spec => []IInv
BY InitIInv, InvStep, PTL DEF Spec

(* The types of the log, the streams and the clients; the log holds the    *)
(* newest events, at most Limit, under consecutive ids.                    *)
THEOREM TypeCorrect == Spec => []TypeOK
<1>1. ASSUME IInv PROVE TypeOK
  <2>1. Len(events) \in 1 .. Limit /\ DOMAIN events = 1 .. Len(events)
    BY <1>1, LimitAssumption DEF IInv, LogInv, MaxId
  <2> QED
    BY <1>1, <2>1 DEF IInv, LogInv, StreamTypes, CounterInv, TypeOK
<1> QED
  BY <1>1, Invariance, PTL

(* SSE replay (store.py: events_since, events.py: the generator): however  *)
(* often its connection breaks, a client gets every event at most once, in *)
(* order, and lacks only what the bounded log no longer held.              *)
THEOREM EventsOnceInOrder == Spec => []DeliveredOnceInOrder
<1>1. IInv => DeliveredOnceInOrder
  BY DEF IInv
<1> QED
  BY <1>1, Invariance, PTL

(* _active_streams counts the open streams exactly, so it does not drift.  *)
THEOREM CounterNeverDrifts == Spec => []CounterIsExact
<1>1. IInv => CounterIsExact
  BY DEF IInv, CounterInv
<1> QED
  BY <1>1, Invariance, PTL
=============================================================================
