---------------------------- MODULE EventStream -----------------------------
(***************************************************************************)
(* One job's progress events: the bounded log JobStore keeps of them and   *)
(* the SSE responses of GET /jobs/{id}/events that replay and tail it.     *)
(*                                                                         *)
(* A response is a generator that waits in three places: handing an event  *)
(* to the client, sleeping between two reads of the log, and, once its     *)
(* client is gone, nowhere at all.  Heartbeats carry no state and are left *)
(* out.  An absent Last-Event-ID selects what 0 selects: ids start at 1.   *)
(***************************************************************************)
EXTENDS Naturals, Sequences, FiniteSets

CONSTANTS Clients,     \* who reads the stream, each over one connection at a time
          Limit,       \* event_log_limit
          Persistent   \* clients reconnect after the terminal event as well

ASSUME ClientsAssumption == IsFiniteSet(Clients)
ASSUME LimitAssumption == Limit \in Nat \ {0}
ASSUME PersistentAssumption == Persistent \in BOOLEAN

VARIABLES events,   \* JobStore._events[job]: a deque of at most Limit events
          seq,      \* JobStore._seq[job]
          stream,   \* [Clients -> "none", "open" or "closed"]: the generator
          net,      \* [Clients -> BOOLEAN]: the connection carries data
          lastId,   \* [Clients -> Nat]: the generator's last_id
          batch,    \* [Clients -> Seq(Event)]: what its for loop has left
          seen,     \* [Clients -> Seq(Nat)]: the ids the client received
          active    \* _active_streams["count"]

vars == <<events, seq, stream, net, lastId, batch, seen, active>>
logVars == <<events, seq>>

TerminalTypes == {"succeeded", "failed", "cancelled"}
Types == {"queued", "running"} \cup TerminalTypes
MaxId == 3     \* queued, running and one terminal event
Event == [id : 1 .. MaxId, type : Types]

Ended == events[Len(events)].type \in TerminalTypes

(* submit() has already emitted the queued event when a client can ask. *)
Init == /\ events = <<[id |-> 1, type |-> "queued"]>>
        /\ seq = 1
        /\ stream = [c \in Clients |-> "none"]
        /\ net = [c \in Clients |-> FALSE]
        /\ lastId = [c \in Clients |-> 0]
        /\ batch = [c \in Clients |-> <<>>]
        /\ seen = [c \in Clients |-> <<>>]
        /\ active = 0
-----------------------------------------------------------------------------
(* deque(maxlen): a full log drops its oldest event. *)
Retain(s) == IF Len(s) > Limit THEN Tail(s) ELSE s

Follows(t) == IF t = "queued" THEN Types \ {"queued", "succeeded"} ELSE TerminalTypes

AppendEvent == /\ ~Ended
               /\ seq' = seq + 1
               /\ \E t \in Follows(events[Len(events)].type) :
                    events' = Retain(Append(events, [id |-> seq + 1, type |-> t]))
               /\ UNCHANGED <<stream, net, lastId, batch, seen, active>>
-----------------------------------------------------------------------------
LastSeen(c) == IF seen[c] = <<>> THEN 0 ELSE seen[c][Len(seen[c])]

SawTheEnd(c) == Ended /\ LastSeen(c) = seq

(* A first connection, or an EventSource reconnecting with its last id. *)
Connect(c) == /\ stream[c] # "open"
              /\ SawTheEnd(c) => Persistent
              /\ stream' = [stream EXCEPT ![c] = "open"]
              /\ net' = [net EXCEPT ![c] = TRUE]
              /\ lastId' = [lastId EXCEPT ![c] = LastSeen(c)]
              /\ batch' = [batch EXCEPT ![c] = <<>>]
              /\ active' = active + 1
              /\ UNCHANGED <<seen, logVars>>

(* The log from the first of these places on.                              *)
From(places) == IF places = {} THEN <<>>
                ELSE SubSeq(events, CHOOSE i \in places : \A k \in places : i <= k,
                            Len(events))

(* Slip: events_since takes the id the client expects next for its last. *)
EventsAfterNext(n) == From({i \in DOMAIN events : events[i].id > n + 1})

(* Slip: events_since includes the event the client names. *)
EventsFrom(n) == From({i \in DOMAIN events : events[i].id >= n})

(* The log is in the order of its ids: the newer events are its end.       *)
EventsSince(n) == From({i \in DOMAIN events : events[i].id > n})

(* store.log(): the events the for loop will go through. *)
Read(c) == /\ stream[c] = "open"
           /\ batch[c] = <<>>
           /\ EventsSince(lastId[c]) # <<>>
           /\ batch' = [batch EXCEPT ![c] = EventsSince(lastId[c])]
           /\ UNCHANGED <<stream, net, lastId, seen, active, logVars>>

(* Slip: a stream that ends on the terminal event is still counted. *)
FinishUncounted(c) == /\ stream' = [stream EXCEPT ![c] = "closed"]
                      /\ batch' = [batch EXCEPT ![c] = <<>>]
                      /\ UNCHANGED active

(* The generator's finally clause. *)
Finish(c) == /\ stream' = [stream EXCEPT ![c] = "closed"]
             /\ batch' = [batch EXCEPT ![c] = <<>>]
             /\ active' = active - 1

(* Slip: only success ends a stream. *)
EndsOnSuccess(t) == t = "succeeded"

EndsStream(t) == t \in TerminalTypes

(* The next event is handed over and, if the connection still carries      *)
(* data, received; the terminal one ends the response.                     *)
Yield(c) == /\ stream[c] = "open"
            /\ batch[c] # <<>>
            /\ LET e == Head(batch[c]) IN
                 /\ lastId' = [lastId EXCEPT ![c] = e.id]
                 /\ seen' = IF net[c] THEN [seen EXCEPT ![c] = Append(@, e.id)]
                            ELSE seen
                 /\ IF EndsStream(e.type)
                    THEN Finish(c)
                    ELSE /\ batch' = [batch EXCEPT ![c] = Tail(@)]
                         /\ UNCHANGED <<stream, active>>
            /\ UNCHANGED <<net, logVars>>

(* The connection breaks without either side knowing. *)
Drop(c) == /\ stream[c] = "open"
           /\ net[c]
           /\ net' = [net EXCEPT ![c] = FALSE]
           /\ UNCHANGED <<stream, lastId, batch, seen, active, logVars>>

(* is_disconnected() between two reads, or the response task is cancelled. *)
NoticeDrop(c) == /\ stream[c] = "open"
                 /\ ~net[c]
                 /\ Finish(c)
                 /\ UNCHANGED <<net, lastId, seen, logVars>>

Serve(c) == Read(c) \/ Yield(c) \/ NoticeDrop(c)

Next == \/ AppendEvent
        \/ \E c \in Clients : Connect(c) \/ Serve(c) \/ Drop(c)

Spec == Init /\ [][Next]_vars

(* Every generator keeps being resumed; nobody has to connect, and the job *)
(* need not end.                                                           *)
FairSpec == Spec /\ \A c \in Clients : WF_vars(Serve(c))
-----------------------------------------------------------------------------
(* The types; the log holds the newest events under consecutive ids.       *)
TypeOK == /\ events \in Seq(Event)
          /\ seq \in 1 .. MaxId
          /\ Len(events) \in 1 .. Limit
          /\ \A i \in DOMAIN events : events[i].id = seq - Len(events) + i
          /\ stream \in [Clients -> {"none", "open", "closed"}]
          /\ net \in [Clients -> BOOLEAN]
          /\ lastId \in [Clients -> 0 .. MaxId]
          /\ batch \in [Clients -> Seq(Event)]
          /\ seen \in [Clients -> Seq(1 .. MaxId)]
          /\ active \in Nat

(* Across reconnections a client never receives an event twice or out of   *)
(* order, and one it missed is one that the log had to drop.               *)
InOrder(s) == \A i, k \in DOMAIN s : i < k => s[i] < s[k]
Missed(s) == {m \in 1 .. MaxId : (\E i \in DOMAIN s : m < s[i]) /\ (\A i \in DOMAIN s : m # s[i])}
DeliveredOnceInOrder ==
  \A c \in Clients : /\ InOrder(seen[c])
                     /\ \A m \in Missed(seen[c]) : m <= seq - Limit

(* "Leak-proof": the live-stream counter counts the open streams, however  *)
(* each of the others came to its end.                                     *)
CounterIsExact == active = Cardinality({c \in Clients : stream[c] = "open"})

(* "... ending on the terminal event": once the job has ended, an open     *)
(* stream closes.                                                          *)
StreamEnds == \A c \in Clients : stream[c] = "open" /\ Ended ~> stream[c] # "open"

(* A client whose connection holds gets the terminal event, be it the only *)
(* one the log still has.                                                  *)
TerminalReaches == \A c \in Clients :
  stream[c] = "open" /\ Ended ~> SawTheEnd(c) \/ ~net[c]
=============================================================================
