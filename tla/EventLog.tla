------------------------------ MODULE EventLog ------------------------------
(***************************************************************************)
(* The cluster event log of internal/gossip/gossip.go (eventRing,          *)
(* PushEvent, Subscribe) and the two handlers of internal/mgmt/mgmt.go     *)
(* that read it: GET /events, a snapshot of the most recent events, and    *)
(* GET /events/stream, a subscription.  The i-th event pushed is           *)
(* represented by the number i.                                            *)
(***************************************************************************)
EXTENDS Integers, Sequences

CONSTANTS Capacity,     \* eventRingSize
          ChanCapacity, \* the buffer of a stream's channel
          Subscriber,   \* the streams, by subscription id: 0 .. MaxStreams - 1
          MaxEvents     \* bound: the events pushed in a run

ASSUME EventLogAssumption ==
  /\ Capacity \in Nat \ {0} /\ ChanCapacity \in Nat \ {0} /\ MaxEvents \in Nat
  /\ Subscriber \subseteq Nat

VARIABLES buf, pos, count, \* eventRing
          pushed,          \* events pushed so far
          fanned,          \* events already offered to the subscribers
          subNext,         \* the next subscription id
          state,           \* of a stream: "closed", "open", "done"
          ch,              \* its channel
          sent,            \* what it has written to its client
          joined,          \* history: fanned when it subscribed
          slow             \* history: its channel has been full

logVars == <<buf, pos, count, pushed, fanned, subNext, state, ch, sent, joined, slow>>
ring == <<buf, pos, count, pushed>>
streams == <<subNext, state, ch, sent, joined, slow>>

LogInit ==
  /\ buf = [i \in 0 .. Capacity - 1 |-> 0]
  /\ pos = 0 /\ count = 0 /\ pushed = 0 /\ fanned = 0
  /\ subNext = 0
  /\ state = [i \in Subscriber |-> "closed"]
  /\ ch = [i \in Subscriber |-> <<>>] /\ sent = [i \in Subscriber |-> <<>>]
  /\ joined = [i \in Subscriber |-> 0] /\ slow = [i \in Subscriber |-> FALSE]

\* Slip: count is not capped at the size of the buffer.
PushUncapped ==
  /\ pushed = fanned /\ pushed < MaxEvents
  /\ pushed' = pushed + 1
  /\ buf' = [buf EXCEPT ![pos] = pushed + 1]
  /\ pos' = (pos + 1) % Capacity
  /\ count' = count + 1
  /\ UNCHANGED <<fanned, streams>>

\* eventRing.Push, the first half of PushEvent.  memberlist calls the event
\* delegate with its node lock held, so one PushEvent ends before the next.
Push ==
  /\ pushed = fanned /\ pushed < MaxEvents
  /\ pushed' = pushed + 1
  /\ buf' = [buf EXCEPT ![pos] = pushed + 1]
  /\ pos' = (pos + 1) % Capacity
  /\ count' = IF count < Capacity THEN count + 1 ELSE count
  /\ UNCHANGED <<fanned, streams>>

Open(i) == state[i] = "open"
HasRoom(i) == Len(ch[i]) < ChanCapacity

\* Slip: only streams whose channel is empty are offered the event.
FanOutToIdle ==
  /\ fanned < pushed
  /\ fanned' = pushed
  /\ ch' = [i \in Subscriber |-> IF Open(i) /\ ch[i] = <<>> THEN Append(ch[i], pushed) ELSE ch[i]]
  /\ slow' = [i \in Subscriber |-> slow[i] \/ (Open(i) /\ ~HasRoom(i))]
  /\ UNCHANGED <<ring, subNext, state, sent, joined>>

\* The second half of PushEvent: every subscriber with room gets the event, the
\* others miss it.  subMu keeps the set of subscribers fixed meanwhile.
FanOut ==
  /\ fanned < pushed
  /\ fanned' = pushed
  /\ ch' = [i \in Subscriber |-> IF Open(i) /\ HasRoom(i) THEN Append(ch[i], pushed) ELSE ch[i]]
  /\ slow' = [i \in Subscriber |-> slow[i] \/ (Open(i) /\ ~HasRoom(i))]
  /\ UNCHANGED <<ring, subNext, state, sent, joined>>

\* Slip: a new stream is started with the latest event of the log.
SubscribeReplaying(i) ==
  /\ i = subNext
  /\ subNext' = subNext + 1
  /\ state' = [state EXCEPT ![i] = "open"]
  /\ joined' = [joined EXCEPT ![i] = fanned]
  /\ ch' = [ch EXCEPT ![i] = IF pushed > 0 THEN <<pushed>> ELSE <<>>]
  /\ UNCHANGED <<ring, fanned, sent, slow>>

\* handleEventStream up to its loop: Subscribe with a new channel.
Subscribe(i) ==
  /\ i = subNext
  /\ subNext' = subNext + 1
  /\ state' = [state EXCEPT ![i] = "open"]
  /\ joined' = [joined EXCEPT ![i] = fanned]
  /\ UNCHANGED <<ring, fanned, ch, sent, slow>>

\* One event taken from the channel and written to the client.
Deliver(i) ==
  /\ Open(i) /\ ch[i] # <<>>
  /\ sent' = [sent EXCEPT ![i] = Append(@, Head(ch[i]))]
  /\ ch' = [ch EXCEPT ![i] = Tail(@)]
  /\ UNCHANGED <<ring, fanned, subNext, state, joined, slow>>

\* The client goes away: the handler returns and unsubscribes, even with events
\* left in the channel.
Unsubscribe(i) ==
  /\ Open(i)
  /\ state' = [state EXCEPT ![i] = "done"]
  /\ UNCHANGED <<ring, fanned, subNext, ch, sent, joined, slow>>

LogNext ==
  \/ Push \/ FanOut
  \/ \E i \in Subscriber : Subscribe(i) \/ Deliver(i) \/ Unsubscribe(i)

LogSpec == LogInit /\ [][LogNext]_logVars

\* The handlers of open streams and the end of a PushEvent are scheduled.
LogFairSpec == LogSpec /\ WF_logVars(FanOut) /\ \A i \in Subscriber : WF_logVars(Deliver(i))

-----------------------------------------------------------------------------
\* buf[a:b] of the code, as a sequence.
Slice(a, b) == [j \in 1 .. b - a |-> buf[a + j - 1]]

\* Slip: the wrapped case forgets the events at the end of the buffer.
RecentUnwrapped(n) ==
  LET m == IF n <= 0 \/ n > count THEN count ELSE n
  IN  IF pos - m < 0 THEN Slice(0, pos) ELSE Slice(pos - m, pos)

\* eventRing.Recent
Recent(n) ==
  LET m == IF n <= 0 \/ n > count THEN count ELSE n
  IN  IF pos - m < 0 THEN Slice(Capacity + pos - m, Capacity) \o Slice(0, pos)
                     ELSE Slice(pos - m, pos)

\* The events a .. b, in the order they were pushed.
Events(a, b) == [j \in 1 .. b - a + 1 |-> a + j - 1]

\* The shape of the state: no counter leaves the buffer and no channel holds
\* more than its capacity.
LogTypeOK ==
  /\ buf \in [0 .. Capacity - 1 -> 0 .. MaxEvents]
  /\ pos \in 0 .. Capacity - 1 /\ count \in 0 .. Capacity
  /\ pushed \in 0 .. MaxEvents /\ fanned \in 0 .. pushed
  /\ subNext \in Nat /\ state \in [Subscriber -> {"closed", "open", "done"}]
  /\ \A i \in Subscriber : Len(ch[i]) <= ChanCapacity /\ sent[i] \in Seq(1 .. MaxEvents)
  /\ joined \in [Subscriber -> 0 .. MaxEvents] /\ slow \in [Subscriber -> BOOLEAN]

\* GET /events: Recent(n) is the last n events, oldest first, as many of them as
\* the ring holds; whatever the position at which the buffer wrapped.
RecentIsNewest ==
  \A n \in 0 .. Capacity + 1 :
    LET kept == IF pushed < Capacity THEN pushed ELSE Capacity
        m == IF n = 0 \/ n > kept THEN kept ELSE n
    IN  Recent(n) = Events(pushed - m + 1, pushed)

\* GET /events/stream: what a stream sends is in the order of the events, none
\* twice.
StreamInOrder ==
  \A i \in Subscriber : \A a, b \in DOMAIN (sent[i] \o ch[i]) :
    a < b => (sent[i] \o ch[i])[a] < (sent[i] \o ch[i])[b]

\* A stream whose channel had room for every event has been given every event
\* whose fan-out came after it subscribed, and no other: one that subscribes
\* between the two halves of a PushEvent starts with the event of that PushEvent.
StreamIsComplete ==
  \A i \in Subscriber : Open(i) /\ ~slow[i] =>
    sent[i] \o ch[i] = Events(joined[i] + 1, fanned)

\* An event that is not yet fanned out when a stream subscribes, or is pushed
\* later, reaches the client of the stream, or the stream misses an event because
\* it was slow, or its client goes away.
EventReachesStream ==
  \A i \in Subscriber, e \in 1 .. MaxEvents :
    (Open(i) /\ pushed = e /\ e > joined[i])
      ~> ((\E j \in DOMAIN sent[i] : sent[i][j] = e) \/ slow[i] \/ ~Open(i))
=============================================================================
