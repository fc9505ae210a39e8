----------------------------- MODULE NodeProofs ------------------------------
(***************************************************************************)
(* What a node does beside its data: a process from start to stop, for     *)
(* every number of clients, peers and HTTP requests; the circular buffer   *)
(* of cluster events, for every capacity, any number of events and any     *)
(* streams; and how it finds other nodes, for any set of nodes and seeds.  *)
(***************************************************************************)
EXTENDS Lifecycle, EventLog, Bootstrap, FiniteSetTheorems, SequenceTheorems, TLAPS

-----------------------------------------------------------------------------
\* Lifecycle: start and stop of the process.

\* Handlers the WaitGroup counts, and with them the connection it does not
\* count yet.
Handlers == {c \in Client : Served(c)}
Active == {c \in Client : conn[c] = "accepted" \/ Served(c)}

\* The Redis server: one connection at most is between Accept and wg.Add; a
\* listener that Shutdown has closed stays closed, and the WaitGroup having been
\* at zero after that leaves only that connection.
ServerInv ==
  /\ ServerTypeOK
  /\ IsFiniteSet(Handlers)
  /\ \A c, d \in Client : conn[c] = "accepted" /\ conn[d] = "accepted" => c = d
  /\ loop = "add" <=> \E c \in Client : conn[c] = "accepted"
  /\ waiter = "none" <=> shutdown \in {"none", "closing"}
  /\ waiter # "none" => ln # "open"
  /\ waiter = "done" => \A c, d \in Active : c = d
  /\ shutdown = "nil" => waiter = "done"

\* The interceptor: the connection it has taken is the one its place in the
\* loop says, and only a connection in the handshake or closed has a deadline.
TransportInv ==
  /\ stream \in [Stream -> {"absent", "offered", "held", "verified", "forwarded", "closed"}]
  /\ deadline \in [Stream -> BOOLEAN]
  /\ \A s \in Stream :
       /\ stream[s] = "held" => interceptor = "handshake"
       /\ stream[s] = "verified" => interceptor = "forward"
       /\ deadline[s] => stream[s] \in {"held", "closed"}
  /\ \A s, t \in Stream : stream[s] \in {"held", "verified"} /\ stream[t] \in {"held", "verified"}
                          => s = t

\* The shape of main's own state.
MainTypeOK ==
  /\ main \in {"setup", "create", "redis", "http", "wait", "stopHTTP", "leave", "leaving",
               "stopRedis", "stopping", "stopped", "fatal", "panic"}
  /\ failed \in BOOLEAN /\ withTLS \in BOOLEAN
  /\ ctx \in {"none", "live", "expired"} /\ member \in {"none", "alive", "left"}
  /\ http \in {"none", "open", "closed"}
  /\ request \in [Request -> {"absent", "running", "ready", "done"}]

Starting == main \in {"setup", "create", "redis", "http"}

\* HTTP: its listener is open only while main waits for a signal, and never in a
\* process that undoes its start.
HTTPInv ==
  /\ http = "open" => main = "wait"
  /\ Starting \/ failed => http = "none"
  /\ http = "none" => \A r \in Request : request[r] = "absent"
  /\ Starting \/ main \in {"wait", "stopHTTP"} => ~failed
  /\ NoRequestAfterLeave

\* Redis: main shuts it down once, after all that needs it.
RedisInv ==
  /\ main \in {"setup", "create", "redis"} => ln = "none" /\ loop = "none"
  /\ main \in {"http", "wait", "stopHTTP"} => ln = "open"
  /\ \/ Starting
     \/ main \in {"wait", "stopHTTP", "stopRedis"}
     \/ main \in {"leave", "leaving"} /\ ~failed
     => shutdown = "none"

\* Nothing has reached the interceptor before setupGossip has made it.
SetupInv == main = "setup" => interceptor = "none"

LifeInv == ServerInv /\ TransportInv /\ MainTypeOK /\ HTTPInv /\ RedisInv /\ SetupInv
-----------------------------------------------------------------------------
\* The WaitGroup goes on counting the handlers when one starts and when one ends.
LEMMA HandlerStarts ==
  ASSUME ServerInv, StartHandler
  PROVE  IsFiniteSet(Handlers') /\ wg' = Cardinality(Handlers')
<1>1. PICK c \in Client : conn[c] = "accepted"
  BY DEF ServerInv, StartHandler
<1>2. \A d \in Client : conn'[d] = IF d = c THEN "reading" ELSE conn[d]
  BY <1>1 DEF ServerInv, StartHandler
<1>3. Handlers' = Handlers \cup {c} /\ c \notin Handlers
  BY <1>1, <1>2 DEF Handlers, Served
<1>4. IsFiniteSet(Handlers) /\ wg = Cardinality(Handlers) /\ wg' = wg + 1
  BY DEF ServerInv, ServerTypeOK, StartHandler, Handlers
<1> QED
  BY <1>3, <1>4, FS_AddElement

LEMMA HandlerEnds ==
  ASSUME ServerInv, NEW c \in Client, HandlerReturns(c)
  PROVE  IsFiniteSet(Handlers') /\ wg' = Cardinality(Handlers')
<1>1. \A d \in Client : conn'[d] = IF d = c THEN "closed" ELSE conn[d]
  BY DEF ServerInv, ServerTypeOK, HandlerReturns
<1>2. Handlers' = Handlers \ {c} /\ c \in Handlers
  BY <1>1 DEF Handlers, Served, HandlerReturns
<1>3. IsFiniteSet(Handlers) /\ wg = Cardinality(Handlers) /\ wg' = wg - 1
  BY DEF ServerInv, ServerTypeOK, HandlerReturns, Handlers
<1> QED
  BY <1>2, <1>3, FS_RemoveElement

\* A WaitGroup at zero: there is no handler.
LEMMA NoHandlerAtZero ==
  ASSUME ServerInv, wg = 0
  PROVE  \A c \in Client : ~Served(c)
<1>1. IsFiniteSet(Handlers) /\ Cardinality(Handlers) = 0
  BY DEF ServerInv, ServerTypeOK, Handlers
<1>2. Handlers = {}
  BY <1>1, FS_EmptySet
<1> QED
  BY <1>2 DEF Handlers

\* A step that starts and ends no handler keeps the count.
LEMMA SameHandlers ==
  ASSUME ServerInv, wg' = wg, Handlers' = Handlers
  PROVE  IsFiniteSet(Handlers') /\ wg' = Cardinality(Handlers')
BY SMTT(30) DEF ServerInv, ServerTypeOK, Handlers

\* Every step of the accept loop, of a handler and of the waiting goroutine
\* keeps the server's invariant.
LEMMA ServerStepInv ==
  ASSUME ServerInv, ServerStep
  PROVE  ServerInv'
<1> USE DEF Served
<1>1. CASE \E c \in Client : Connect(c)
  <2>1. PICK c \in Client : Connect(c)
    BY <1>1
  <2>2. Handlers' = Handlers
    BY <2>1 DEF Connect, Handlers, ServerInv, ServerTypeOK
  <2> QED
    BY <2>1, <2>2, SameHandlers DEF Connect, ServerInv, ServerTypeOK, Active, Handlers
<1>2. CASE \E c \in Client : Accept(c)
  <2>1. PICK c \in Client : Accept(c)
    BY <1>2
  <2>2. Handlers' = Handlers
    BY <2>1 DEF Accept, Handlers, ServerInv, ServerTypeOK
  <2> QED
    BY <2>1, <2>2, SameHandlers, Zenon DEF Accept, ServerInv, ServerTypeOK, Active, Handlers
<1>3. CASE \E c \in Client : RunCommand(c) \/ CommandEnds(c)
  <2>1. PICK c \in Client : RunCommand(c) \/ CommandEnds(c)
    BY <1>3
  <2>2. Handlers' = Handlers
    BY <2>1 DEF RunCommand, CommandEnds, Handlers, ServerInv, ServerTypeOK
  <2> QED
    BY <2>1, <2>2, SameHandlers
    DEF RunCommand, CommandEnds, ServerInv, ServerTypeOK, Active, Handlers
<1>4. CASE \E c \in Client : HandlerReturns(c)
  <2>1. PICK c \in Client : HandlerReturns(c)
    BY <1>4
  <2>2. IsFiniteSet(Handlers') /\ wg' = Cardinality(Handlers')
    BY <2>1, HandlerEnds
  <2>3. /\ ServerTypeOK /\ conn' = [conn EXCEPT ![c] = "closed"] /\ conn[c] = "reading"
        /\ UNCHANGED <<ln, quit, loop, waiter, shutdown>>
    BY <2>1 DEF HandlerReturns, ServerInv
  <2>4. ServerTypeOK'
    BY <2>2, <2>3 DEF ServerTypeOK, Handlers
  <2>5. \A d \in Client : /\ conn'[d] = "accepted" <=> conn[d] = "accepted"
                         /\ d \in Active' => d \in Active
    BY <2>3 DEF ServerTypeOK, Active
  <2> QED
    BY <2>2, <2>3, <2>4, <2>5 DEF ServerInv, Active
<1>5. CASE AcceptFails \/ AfterError
  BY <1>5 DEF AcceptFails, AfterError, ServerInv, ServerTypeOK, Active, Handlers
<1>6. CASE StartHandler
  BY <1>6, HandlerStarts DEF StartHandler, ServerInv, ServerTypeOK, Active, Handlers
<1>7. CASE WaitReturns
  BY <1>7, NoHandlerAtZero DEF WaitReturns, ServerInv, ServerTypeOK, Active, Handlers
<1> QED
  BY <1>1, <1>2, <1>3, <1>4, <1>5, <1>6, <1>7, Zenon DEF ServerStep
\* What main does to the server: it starts it, and it calls Shutdown.
LEMMA MainServerInv ==
  ASSUME ServerInv,
         \/ ListenAndServe /\ ln = "none" /\ loop = "none" /\ shutdown = "none"
         \/ CloseQuit \/ CloseListener
         \/ ShutdownReturns(ctx = "expired")
  PROVE  ServerInv'
<1> USE DEF Served
<1>1. CASE ListenAndServe /\ ln = "none" /\ loop = "none" /\ shutdown = "none"
  BY <1>1 DEF ListenAndServe, ServerInv, ServerTypeOK, Active, Handlers
<1>2. CASE CloseQuit
  BY <1>2, Zenon DEF CloseQuit, ServerInv, ServerTypeOK, Active, Handlers
<1>3. CASE CloseListener
  <2>1. Handlers' = Handlers
    BY <1>3 DEF CloseListener, Handlers, ServerInv, ServerTypeOK
  <2> QED
    BY <1>3, <2>1, SameHandlers DEF CloseListener, ServerInv, ServerTypeOK, Active, Handlers
<1>4. CASE ShutdownReturns(ctx = "expired")
  BY <1>4 DEF ShutdownReturns, ServerInv, ServerTypeOK, Active, Handlers
<1> QED
  BY <1>1, <1>2, <1>3, <1>4

LEMMA ServerStutter ==
  ASSUME ServerInv, UNCHANGED server
  PROVE  ServerInv'
BY DEF server, ServerInv, ServerTypeOK, Active, Handlers, Served

\* Every step of the inner transport and of the interceptor, and what main does
\* to them, keeps the transport's invariant.
LEMMA TransportStepInv ==
  ASSUME TransportInv,
         \/ TransportStep
         \/ NewTLSTransport /\ interceptor = "none"
         \/ CloseShutdownCh
         \/ UNCHANGED transport
  PROVE  TransportInv'
<1>1. CASE \E s \in Stream : Offer(s) \/ Take(s)
  <2>1. ASSUME NEW s \in Stream, Offer(s) PROVE TransportInv'
    BY <2>1 DEF Offer, TransportInv
  <2>2. ASSUME NEW s \in Stream, Take(s) PROVE TransportInv'
    <3>1. /\ interceptor = "select" /\ interceptor' = "handshake"
          /\ stream' = [stream EXCEPT ![s] = "held"] /\ deadline' = [deadline EXCEPT ![s] = TRUE]
      BY <2>2 DEF Take
    <3>2. \A t \in Stream : stream[t] \notin {"held", "verified"}
      BY <3>1 DEF TransportInv
    <3> QED
      BY <3>1, <3>2 DEF TransportInv
  <2> QED
    BY <1>1, <2>1, <2>2
<1>2. CASE \E s \in Stream : HandshakeSucceeds(s)
  BY <1>2 DEF HandshakeSucceeds, TransportInv
<1>3. CASE \E s \in Stream : HandshakeFails(s) \/ Forward(s)
  BY <1>3 DEF HandshakeFails, Forward, TransportInv
<1>4. CASE InterceptorReturns
  BY <1>4 DEF InterceptorReturns, TransportInv
<1>5. CASE \/ InnerShutdown \/ InnerShutdownReturns \/ CloseShutdownCh
           \/ NewTLSTransport /\ interceptor = "none"
           \/ UNCHANGED transport
  BY <1>5, Zenon DEF InnerShutdown, InnerShutdownReturns, CloseShutdownCh, NewTLSTransport, transport,
              TransportInv
<1> QED
  BY <1>1, <1>2, <1>3, <1>4, <1>5 DEF TransportStep

-----------------------------------------------------------------------------
\* The start.
LEMMA StartInv ==
  ASSUME LifeInv, SetupGossip \/ EarlyCallback \/ CreateReturns \/ ListenRedis \/ ListenHTTP
  PROVE  LifeInv'
<1> USE DEF LifeInv, MainTypeOK, HTTPInv, NoRequestAfterLeave, RedisInv, SetupInv, Starting, Goto
<1>1. CASE SetupGossip
  <2>1. TransportInv'
    BY <1>1, TransportStepInv, Zenon DEF SetupGossip
  <2> QED
    BY <1>1, <2>1, ServerStutter DEF SetupGossip, server
<1>2. CASE EarlyCallback
  BY <1>2, ServerStutter, TransportStepInv, Zenon DEF EarlyCallback, server
<1>3. CASE CreateReturns
  BY <1>3, ServerStutter, TransportStepInv DEF CreateReturns, server
<1>4. CASE ListenRedis
  <2>1. ServerInv'
    BY <1>4, ServerStutter, MainServerInv, Zenon DEF ListenRedis
  <2>2. TransportInv'
    BY <1>4, TransportStepInv, Zenon DEF ListenRedis
  <2>3. CASE Undo /\ UNCHANGED server
    BY <1>4, <2>1, <2>2, <2>3, Zenon DEF ListenRedis, Undo, server
  <2>4. CASE Goto("http") /\ ListenAndServe
    BY <1>4, <2>1, <2>2, <2>4, Zenon DEF ListenRedis, ListenAndServe
  <2> QED
    BY <1>4, <2>3, <2>4, Zenon DEF ListenRedis
<1>5. CASE ListenHTTP
  <2>1. ServerInv' /\ TransportInv'
    BY <1>5, ServerStutter, TransportStepInv, Zenon DEF ListenHTTP
  <2>2. CASE Undo
    BY <1>5, <2>1, <2>2, Zenon DEF ListenHTTP, Undo, server
  <2>3. CASE ~Undo
    BY <1>5, <2>1, <2>3 DEF ListenHTTP, server
  <2> QED
    BY <2>2, <2>3, Zenon
<1> QED
  BY <1>1, <1>2, <1>3, <1>4, <1>5, Zenon

\* The stop.
LEMMA StopInv ==
  ASSUME LifeInv,
         \/ Signal \/ HTTPShutdownReturns \/ LeaveFails \/ LeaveSucceeds \/ LeaveReturns
         \/ StopRedis \/ RedisStopped \/ CtxExpires
         \/ CloseListener /\ UNCHANGED <<process, transport>>
  PROVE  LifeInv'
<1> USE DEF LifeInv, MainTypeOK, HTTPInv, NoRequestAfterLeave, RedisInv, SetupInv, Starting, Goto
<1>1. CASE Signal \/ HTTPShutdownReturns \/ CtxExpires
  <2>1. ServerInv' /\ TransportInv'
    BY <1>1, ServerStutter, TransportStepInv, Zenon DEF Signal, HTTPShutdownReturns, CtxExpires
  <2>2. CASE Signal
    BY <2>1, <2>2, Zenon DEF Signal, server
  <2>3. CASE HTTPShutdownReturns
    BY <2>1, <2>3, Zenon DEF HTTPShutdownReturns, server
  <2>4. CASE CtxExpires
    BY <2>1, <2>4, SMTT(30) DEF CtxExpires, server, transport
  <2> QED
    BY <1>1, <2>2, <2>3, <2>4, Zenon
<1>2. CASE LeaveFails \/ LeaveReturns
  BY <1>2, ServerStutter, TransportStepInv DEF LeaveFails, LeaveReturns, AfterLeave, server
<1>3. CASE LeaveSucceeds
  <2>1. ServerInv' /\ TransportInv'
    BY <1>3, ServerStutter, TransportStepInv, Zenon DEF LeaveSucceeds
  <2> QED
    BY <1>3, <2>1, Zenon DEF LeaveSucceeds, AfterLeave, server
<1>4. CASE StopRedis
  <2>1. ServerInv' /\ TransportInv'
    BY <1>4, MainServerInv, TransportStepInv, Zenon DEF StopRedis
  <2> QED
    BY <1>4, <2>1, Zenon DEF StopRedis, CloseQuit, transport
<1>5. CASE RedisStopped
  <2>1. ServerInv' /\ TransportInv'
    BY <1>5, MainServerInv, TransportStepInv, ZenonT(40) DEF RedisStopped
  <2> QED
    BY <1>5, <2>1, Zenon DEF RedisStopped, ShutdownReturns, transport
<1>6. CASE CloseListener /\ UNCHANGED <<process, transport>>
  <2>1. ServerInv' /\ TransportInv'
    BY <1>6, MainServerInv, TransportStepInv, Zenon
  <2> QED
    BY <1>6, <2>1 DEF CloseListener, process, transport, ServerInv
<1> QED
  BY <1>1, <1>2, <1>3, <1>4, <1>5, <1>6, Zenon

\* HTTP requests.
LEMMA RequestInv ==
  ASSUME LifeInv, NEW r \in Request, StartRequest(r) \/ EndRequest(r) \/ HandleReady(r)
  PROVE  LifeInv'
BY ServerStutter, TransportStepInv
DEF StartRequest, EndRequest, HandleReady, server,
    LifeInv, MainTypeOK, HTTPInv, NoRequestAfterLeave, RedisInv, SetupInv, Starting

\* The server's goroutines and the transport's run beside main.
LEMMA BesideMainInv ==
  ASSUME LifeInv,
         \/ ServerStep /\ UNCHANGED <<process, transport>>
         \/ TransportStep /\ UNCHANGED <<process, server>>
  PROVE  LifeInv'
<1> USE DEF LifeInv, MainTypeOK, HTTPInv, NoRequestAfterLeave, RedisInv, SetupInv, Starting, process
<1>1. CASE ServerStep /\ UNCHANGED <<process, transport>>
  <2>1. ServerInv' /\ TransportInv'
    BY <1>1, ServerStepInv, TransportStepInv, Zenon
  <2>2. UNCHANGED <<ln, shutdown>> /\ (loop = "none" => loop' = "none")
    BY <1>1, Zenon DEF ServerStep, Connect, Accept, RunCommand, CommandEnds, HandlerReturns, AcceptFails,
                AfterError, StartHandler, WaitReturns
  <2> QED
    BY <1>1, <2>1, <2>2 DEF transport
<1>2. CASE TransportStep /\ UNCHANGED <<process, server>>
  <2>1. ServerInv' /\ TransportInv'
    BY <1>2, ServerStutter, TransportStepInv, ZenonT(40)
  <2>2. interceptor = "none" => interceptor' = "none"
    BY <1>2 DEF TransportStep, Offer, Take, HandshakeSucceeds, HandshakeFails, Forward,
                InterceptorReturns, InnerShutdown, InnerShutdownReturns, TransportInv
  <2> QED
    BY <1>2, <2>1, <2>2 DEF server
<1> QED
  BY <1>1, <1>2, Zenon
-----------------------------------------------------------------------------
LEMMA LifeInvStep ==
  ASSUME LifeInv, [Next]_vars
  PROVE  LifeInv'
<1>1. CASE Next
  BY <1>1, StartInv, StopInv, RequestInv, BesideMainInv, ZenonT(40) DEF Next, MainStep
<1>2. CASE UNCHANGED vars
  BY <1>2, ServerStutter, TransportStepInv
  DEF vars, process, server, transport, LifeInv, MainTypeOK, HTTPInv, NoRequestAfterLeave, RedisInv,
      SetupInv, Starting
<1> QED
  BY <1>1, <1>2, Zenon

\* The inductive invariant holds in every reachable state of a process.
THEOREM LifecycleInvariant == Spec => []LifeInv
<1>1. Init => LifeInv
  <2> SUFFICES ASSUME Init PROVE LifeInv
    OBVIOUS
  <2>1. Handlers = {}
    BY DEF Init, ServerInit, Handlers, Served
  <2>2. ServerInv
    BY <2>1, FS_EmptySet, Zenon DEF Init, ServerInit, ServerInv, ServerTypeOK, Handlers
  <2>3. TransportInv
    BY DEF Init, TransportInit, TransportInv
  <2> QED
    BY <2>2, <2>3, Zenon DEF Init, ServerInit, TransportInit, LifeInv, MainTypeOK, HTTPInv,
                      NoRequestAfterLeave, RedisInv, SetupInv, Starting
<1> QED
  BY <1>1, LifeInvStep, PTL DEF Spec

\* The state of a process keeps its shape, and the WaitGroup of the Redis server
\* is the number of its handlers at every moment.
THEOREM LifecycleTypes == Spec => []TypeOK
<1>1. LifeInv => TypeOK
  BY DEF LifeInv, ServerInv, TransportInv, MainTypeOK, TypeOK
<1> QED
  BY <1>1, LifecycleInvariant, PTL

\* A Shutdown that returned nil leaves one connection behind at most: the one
\* acceptLoop had not yet added to the WaitGroup.
THEOREM ShutdownLeavesOne == Spec => []AtMostOneLateConnection
<1>1. LifeInv => AtMostOneLateConnection
  <2> SUFFICES ASSUME LifeInv, shutdown = "nil" PROVE Cardinality(Active) <= 1
    BY DEF AtMostOneLateConnection, Active
  <2>1. \A c, d \in Active : c = d
    BY DEF LifeInv, ServerInv
  <2>2. CASE Active = {}
    BY <2>2, FS_EmptySet
  <2>3. CASE Active # {}
    <3>1. PICK c \in Active : TRUE
      BY <2>3
    <3>2. Active = {c}
      BY <2>1, <3>1
    <3>3. Cardinality({c}) = 1
      BY FS_Singleton, Zenon
    <3> QED
      BY <3>2, <3>3
  <2> QED
    BY <2>2, <2>3
<1> QED
  BY <1>1, LifecycleInvariant, PTL

\* The interceptor returns with no connection in its hands, and hands none on
\* with the deadline of the handshake.
THEOREM InterceptorLeaksNothing == Spec => []NoStreamLeaks
<1>1. LifeInv => NoStreamLeaks
  BY DEF LifeInv, TransportInv, NoStreamLeaks
<1> QED
  BY <1>1, LifecycleInvariant, PTL

\* Gossip is left with no HTTP request in progress, or with the context used up.
THEOREM LeaveAfterRequests == Spec => []NoRequestAfterLeave
<1>1. LifeInv => NoRequestAfterLeave
  BY DEF LifeInv, HTTPInv
<1> QED
  BY <1>1, LifecycleInvariant, PTL

\* /readyz answers 200 only while the Redis server listens, or after the context
\* is used up.
THEOREM ReadyWhileServing == Spec => ReadyMeansServing
<1> DEFINE Ready == \A r \in Request : request[r] = "running" /\ request'[r] = "ready"
                                       => ln = "open" \/ ctx = "expired"
<1>1. LifeInv /\ [Next]_vars => [Ready]_vars
  <2> SUFFICES ASSUME LifeInv, Next, NEW r \in Request,
                      request[r] = "running", ctx # "expired"
               PROVE  ln = "open"
    BY DEF LifeInv, MainTypeOK
  <2>1. ~Over
    BY DEF Next
  <2>2. main \in {"wait", "stopHTTP"}
    BY <2>1 DEF LifeInv, MainTypeOK, HTTPInv, NoRequestAfterLeave, Starting, Over
  <2> QED
    BY <2>2 DEF LifeInv, RedisInv
<1> QED
  BY <1>1, LifecycleInvariant, PTL DEF Spec, ReadyMeansServing

-----------------------------------------------------------------------------
\* EventLog: the ring buffer of events and the streams that follow it.

\* The place of the event pushed j events before the latest one.
Place(j) == IF pos - 1 - j >= 0 THEN pos - 1 - j ELSE pos - 1 - j + Capacity

\* RecentIsNewest speaks of all that the buffer holds, in terms of where it is.
RingInv ==
  /\ buf \in [0 .. Capacity - 1 -> 0 .. MaxEvents]
  /\ pos \in 0 .. Capacity - 1
  /\ pushed \in 0 .. MaxEvents
  /\ count = IF pushed < Capacity THEN pushed ELSE Capacity
  /\ pushed < Capacity => pos = pushed
  /\ \A j \in 0 .. count - 1 : buf[Place(j)] = pushed - j

\* The position moves on by one and returns to the start at the end.
LEMMA Wraps ==
  ASSUME NEW C \in Nat \ {0}, NEW p \in 0 .. C - 1
  PROVE  (p + 1) % C = IF p + 1 = C THEN 0 ELSE p + 1
BY Z3

\* Push puts the event after the latest one and forgets the oldest.
LEMMA PushKeeps ==
  ASSUME RingInv, Push
  PROVE  RingInv'
<1>0. Capacity \in Nat \ {0} /\ MaxEvents \in Nat
  BY EventLogAssumption
<1>1. /\ pushed' = pushed + 1
      /\ buf' = [buf EXCEPT ![pos] = pushed + 1]
      /\ count' = IF count < Capacity THEN count + 1 ELSE count
      /\ pos' = IF pos + 1 = Capacity THEN 0 ELSE pos + 1
  BY <1>0, Wraps, Zenon DEF Push, RingInv
<1>2. /\ buf' \in [0 .. Capacity - 1 -> 0 .. MaxEvents] /\ pos' \in 0 .. Capacity - 1
      /\ pushed' \in 0 .. MaxEvents
      /\ count' = IF pushed' < Capacity THEN pushed' ELSE Capacity
      /\ pushed' < Capacity => pos' = pushed'
  BY <1>0, <1>1, SMTT(30) DEF RingInv, Push
<1>3. ASSUME NEW j \in 0 .. count' - 1
      PROVE  buf'[Place(j)'] = pushed' - j
  <2>1. CASE j = 0
    <3>1. Place(j)' = pos
      BY <2>1, <1>0, <1>1, SMTT(30) DEF Place, RingInv
    <3> QED
      BY <3>1, <2>1, <1>0, <1>1, SMTT(30) DEF RingInv
  <2>2. CASE j > 0
    <3>1. j - 1 \in 0 .. count - 1 /\ j < Capacity
      BY <2>2, <1>0, <1>1, SMTT(30) DEF RingInv
    <3>2. Place(j)' = Place(j - 1) /\ Place(j - 1) \in 0 .. Capacity - 1
      BY <3>1, <1>0, <1>1, SMTT(30) DEF Place, RingInv
    <3>3. Place(j - 1) # pos
      BY <3>1, <1>0 DEF Place, RingInv
    <3>4. buf[Place(j - 1)] = pushed - (j - 1)
      BY <3>1 DEF RingInv
    <3> QED
      BY <3>1, <3>2, <3>3, <3>4, <1>0, <1>1, SMTT(30) DEF RingInv
  <2> QED
    BY <1>0, <1>2, <2>1, <2>2
<1> QED
  BY <1>2, <1>3, Zenon DEF RingInv

\* The invariant holds at the start and after every step.
THEOREM RingInvariance == LogSpec => []RingInv
<1>1. LogInit => RingInv
  BY EventLogAssumption, SMTT(30) DEF LogInit, RingInv
<1>2. RingInv /\ [LogNext]_logVars => RingInv'
  <2> SUFFICES ASSUME RingInv, [LogNext]_logVars PROVE RingInv'
    OBVIOUS
  <2>1. CASE Push
    BY <2>1, PushKeeps, Zenon
  <2>2. CASE UNCHANGED ring
    BY <2>2 DEF ring, RingInv, Place
  <2> QED
    BY <2>1, <2>2 DEF LogNext, logVars, ring, FanOut, Subscribe, Deliver, Unsubscribe
<1> QED
  BY <1>1, <1>2, PTL DEF LogSpec

\* Recent(n) is the last n events in order, for every n and capacity.
LEMMA RecentFromRing == RingInv => RecentIsNewest
<1> SUFFICES ASSUME RingInv, NEW n \in 0 .. Capacity + 1
             PROVE  LET kept == IF pushed < Capacity THEN pushed ELSE Capacity
                        m == IF n = 0 \/ n > kept THEN kept ELSE n
                    IN  Recent(n) = Events(pushed - m + 1, pushed)
  BY DEF RecentIsNewest
<1> DEFINE m == IF n = 0 \/ n > count THEN count ELSE n
<1>0. /\ Capacity \in Nat \ {0} /\ pos \in 0 .. Capacity - 1 /\ count \in 0 .. Capacity
      /\ pushed \in Nat /\ count <= pushed
      /\ buf \in [0 .. Capacity - 1 -> Nat] /\ MaxEvents \in Nat
      /\ count = IF pushed < Capacity THEN pushed ELSE Capacity
      /\ count < Capacity => pos = count
  BY EventLogAssumption DEF RingInv
<1>1. m \in 0 .. count /\ m = IF n <= 0 \/ n > count THEN count ELSE n
  BY <1>0, SMTT(30)
<1>2. SUFFICES Recent(n) = Events(pushed - m + 1, pushed)
  BY <1>0
<1> HIDE DEF m
<1>3. Events(pushed - m + 1, pushed) = [j \in 1 .. m |-> pushed - m + j]
  BY <1>0, <1>1, SMTT(30) DEF Events
<1>4. ASSUME NEW j \in 1 .. m
      PROVE  buf[Place(m - j)] = pushed - m + j
  <2>1. m - j \in 0 .. count - 1 /\ pushed - (m - j) = pushed - m + j
    BY <1>0, <1>1
  <2>2. \A i \in 0 .. count - 1 : buf[Place(i)] = pushed - i
    BY DEF RingInv
  <2> QED
    BY <2>1, <2>2, SMTT(30)
<1>5. CASE pos - m >= 0
  <2>1. Recent(n) = Slice(pos - m, pos)
    BY <1>0, <1>1, <1>5, SMTT(30) DEF Recent
  <2>2. Slice(pos - m, pos) = [j \in 1 .. m |-> buf[pos - m + j - 1]]
    BY <1>0, <1>1 DEF Slice
  <2>3. ASSUME NEW j \in 1 .. m
        PROVE  buf[pos - m + j - 1] = pushed - m + j
    <3>1. Place(m - j) = pos - m + j - 1
      BY <1>0, <1>1, <1>5 DEF Place
    <3> QED
      BY <1>4, <3>1, SMTT(30)
  <2> QED
    BY <1>3, <2>1, <2>2, <2>3, ZenonT(40)
<1>6. CASE pos - m < 0
  <2> DEFINE first == Slice(Capacity + pos - m, Capacity)
             second == Slice(0, pos)
  <2>1. Recent(n) = first \o second
    BY <1>0, <1>1, <1>6, Zenon DEF Recent
  <2>2. /\ first = [j \in 1 .. m - pos |-> buf[Capacity + pos - m + j - 1]]
        /\ second = [j \in 1 .. pos |-> buf[j - 1]]
    BY <1>0, <1>1, <1>6, SMTT(30) DEF Slice
  <2>3. /\ \A j \in 1 .. m - pos : buf[Capacity + pos - m + j - 1] \in Nat
        /\ \A j \in 1 .. pos : buf[j - 1] \in Nat
        /\ m - pos \in Nat /\ pos \in Nat
    BY <1>0, <1>1, <1>6, SMTT(30)
  <2>4. /\ first \in Seq(Nat) /\ Len(first) = m - pos
        /\ second \in Seq(Nat) /\ Len(second) = pos
    BY <2>2, <2>3, SMTT(30)
  <2> HIDE DEF first, second
  <2>5. \A j \in 1 .. m : (first \o second)[j] = pushed - m + j
    <3> SUFFICES ASSUME NEW j \in 1 .. m PROVE (first \o second)[j] = pushed - m + j
      BY Zenon
    <3>1. CASE j <= m - pos
      <4>1. (first \o second)[j] = first[j] /\ first[j] = buf[Capacity + pos - m + j - 1]
        <5>1. j \in 1 .. m - pos
          BY <1>0, <1>1, <3>1, SMTT(30)
        <5>2. first[j] = buf[Capacity + pos - m + j - 1]
          BY <2>2, <5>1, SMTT(30)
        <5>3. j \in 1 .. Len(first)
          BY <2>4, <5>1, Zenon
        <5>4. (first \o second)[j] = first[j]
          BY <2>4, <5>3, ConcatProperties, SMTT(30)
        <5> QED
          BY <5>2, <5>4, Zenon
      <4>2. Place(m - j) = Capacity + pos - m + j - 1
        BY <1>0, <1>1, <3>1 DEF Place
      <4> QED
        BY <1>4, <4>1, <4>2, ZenonT(40)
    <3>2. CASE j > m - pos
      <4>1. /\ (first \o second)[j] = second[j - (m - pos)]
            /\ second[j - (m - pos)] = buf[j - (m - pos) - 1]
        <5>1. j - (m - pos) \in 1 .. pos /\ j \in (m - pos) + 1 .. (m - pos) + pos
          BY <1>0, <1>1, <1>6, <3>2, SMTT(30)
        <5>2. second[j - (m - pos)] = buf[j - (m - pos) - 1]
          BY <2>2, <5>1, SMTT(30)
        <5>3. j \in Len(first) + 1 .. Len(first) + Len(second)
          BY <2>4, <5>1, Zenon
        <5>4. (first \o second)[j] = second[j - Len(first)]
          BY <2>4, <5>3, ConcatProperties, SMTT(30)
        <5> QED
          BY <2>4, <5>2, <5>4, Zenon
      <4>2. Place(m - j) = j - (m - pos) - 1
        BY <1>0, <1>1, <3>2 DEF Place
      <4> QED
        BY <1>4, <4>1, <4>2, ZenonT(40)
    <3>3. j <= m - pos \/ j > m - pos
      BY <1>0, <1>1
    <3> QED
      BY <3>1, <3>2, <3>3, Zenon
  <2>6. first \o second \in Seq(Nat) /\ Len(first \o second) = m
    BY <2>4, <1>0, <1>1
  <2>7. first \o second = [j \in 1 .. m |-> (first \o second)[j]]
    <3>1. first \o second \in [1 .. m -> Nat]
      BY <2>6, LenProperties, Zenon
    <3> QED
      BY <3>1, Zenon
  <2> QED
    BY <1>3, <2>1, <2>5, <2>7, Zenon
<1> QED
  BY <1>0, <1>1, <1>5, <1>6, SMTT(30)

\* GET /events answers with the newest events, oldest first.
THEOREM RecentIsAlwaysNewest == LogSpec => []RecentIsNewest
BY RingInvariance, RecentFromRing, PTL

-----------------------------------------------------------------------------
\* What a stream has written to its client and what waits in its channel.
Given(i) == sent[i] \o ch[i]

Increasing(s) == \A a, b \in 1 .. Len(s) : a < b => s[a] < s[b]
Bounded(s, f) == \A a \in 1 .. Len(s) : s[a] <= f

\* One stream.  What a stream that keeps up has been given starts with the first
\* event that was not fanned out when it subscribed.
StreamInv(i) ==
  /\ Len(ch[i]) <= ChanCapacity
  /\ state[i] = "closed" => Given(i) = <<>>
  /\ subNext <= i => state[i] = "closed"
  /\ Increasing(Given(i)) /\ Bounded(Given(i), fanned)
  /\ joined[i] <= fanned
  /\ Open(i) /\ ~slow[i] => Given(i) = Events(joined[i] + 1, fanned)

SInv ==
  /\ fanned \in Nat /\ pushed \in {fanned, fanned + 1}
  /\ subNext \in Nat /\ state \in [Subscriber -> {"closed", "open", "done"}]
  /\ ch \in [Subscriber -> Seq(1 .. MaxEvents)] /\ sent \in [Subscriber -> Seq(1 .. MaxEvents)]
  /\ joined \in [Subscriber -> Nat] /\ slow \in [Subscriber -> BOOLEAN]
  /\ \A i \in Subscriber : StreamInv(i)
\* An event offered to a channel goes behind all that the stream was given.
LEMMA OfferedLast ==
  ASSUME NEW s \in Seq(1 .. MaxEvents), NEW c \in Seq(1 .. MaxEvents), NEW e \in 1 .. MaxEvents
  PROVE  s \o Append(c, e) = Append(s \o c, e)
<1> DEFINE S == 1 .. MaxEvents
<1>0. s \in Seq(S) /\ c \in Seq(S) /\ e \in S
  OBVIOUS
<1> HIDE DEF S
<1>1. /\ s \o Append(c, e) \in Seq(S) /\ Append(s \o c, e) \in Seq(S)
      /\ Len(s \o Append(c, e)) = Len(Append(s \o c, e))
  BY <1>0
<1>2. \A j \in 1 .. Len(s \o Append(c, e)) : (s \o Append(c, e))[j] = Append(s \o c, e)[j]
  BY <1>0
<1> QED
  BY <1>1, <1>2, SeqEqual

\* The event a handler takes from its channel and writes to its client: the
\* stream has been given the same as before.
LEMMA DeliveredSame ==
  ASSUME NEW S, NEW s \in Seq(S), NEW c \in Seq(S), c # <<>>
  PROVE  Append(s, Head(c)) \o Tail(c) = s \o c
<1>1. /\ Head(c) \in S /\ Head(c) = c[1] /\ Tail(c) \in Seq(S) /\ Len(Tail(c)) = Len(c) - 1
      /\ \A j \in 1 .. Len(Tail(c)) : Tail(c)[j] = c[j + 1]
      /\ Len(c) \in Nat \ {0} /\ Len(s) \in Nat
  BY HeadTailProperties, EmptySeq, SMTT(30)
<1>2. /\ Append(s, Head(c)) \in Seq(S) /\ Len(Append(s, Head(c))) = Len(s) + 1
      /\ \A j \in 1 .. Len(s) + 1 :
           Append(s, Head(c))[j] = IF j <= Len(s) THEN s[j] ELSE c[1]
  BY <1>1, SMTT(30)
<1>3. /\ Append(s, Head(c)) \o Tail(c) \in Seq(S) /\ s \o c \in Seq(S)
      /\ Len(Append(s, Head(c)) \o Tail(c)) = Len(s \o c)
      /\ Len(s \o c) = Len(s) + Len(c)
  BY <1>1, <1>2, ConcatProperties, SMTT(30)
<1>4. ASSUME NEW j \in 1 .. Len(s) + Len(c)
      PROVE  (Append(s, Head(c)) \o Tail(c))[j] = (s \o c)[j]
  <2>1. (s \o c)[j] = IF j <= Len(s) THEN s[j] ELSE c[j - Len(s)]
    BY ConcatProperties, Zenon
  <2>2. (Append(s, Head(c)) \o Tail(c))[j] =
          IF j <= Len(s) + 1 THEN Append(s, Head(c))[j] ELSE Tail(c)[j - (Len(s) + 1)]
    BY <1>1, <1>2, ConcatProperties, SMTT(30)
  <2>3. CASE j <= Len(s) + 1
    BY <2>1, <2>2, <2>3, <1>1, <1>2, SMTT(30)
  <2>4. CASE j > Len(s) + 1
    BY <2>1, <2>2, <2>4, <1>1, SMTT(30)
  <2> QED
    BY <2>3, <2>4, <1>1
<1> QED
  BY <1>3, <1>4, SeqEqual, SMTT(30)

\* A later event keeps what a stream was given increasing.
LEMMA LaterEvent ==
  ASSUME NEW f \in Nat, NEW e \in Nat, f < e, NEW s \in Seq(Nat), Increasing(s), Bounded(s, f)
  PROVE  Increasing(Append(s, e)) /\ Bounded(Append(s, e), e)
<1>1. /\ Len(Append(s, e)) = Len(s) + 1 /\ Len(s) \in Nat
      /\ \A j \in 1 .. Len(s) + 1 : Append(s, e)[j] = IF j <= Len(s) THEN s[j] ELSE e
      /\ \A j \in 1 .. Len(s) : s[j] \in Nat
  OBVIOUS
<1> QED
  BY <1>1, SMTT(30) DEF Increasing, Bounded

\* The events a .. f and the next one.
LEMMA OneMoreEvent ==
  ASSUME NEW a \in Nat, NEW f \in Nat, a <= f + 1
  PROVE  Append(Events(a, f), f + 1) = Events(a, f + 1)
<1> DEFINE n == f - a + 1
<1>1. n \in Nat /\ f + 1 - a + 1 = n + 1
  OBVIOUS
<1>2. /\ Events(a, f) = [j \in 1 .. n |-> a + j - 1]
      /\ Events(a, f + 1) = [j \in 1 .. n + 1 |-> a + j - 1]
  BY <1>1 DEF Events
<1>3. f + 1 = a + (n + 1) - 1
  OBVIOUS
<1> HIDE DEF n
<1>4. \A j \in 1 .. n + 1 : a + j - 1 \in Int
  BY <1>1
<1>5. /\ Events(a, f) \in Seq(Int) /\ Len(Events(a, f)) = n
      /\ Events(a, f + 1) \in Seq(Int) /\ Len(Events(a, f + 1)) = n + 1
  BY <1>1, <1>2, <1>4, SMTT(30)
<1>6. /\ Append(Events(a, f), f + 1) \in Seq(Int)
      /\ Len(Append(Events(a, f), f + 1)) = n + 1
  BY <1>5
<1>7. \A j \in 1 .. n + 1 : Append(Events(a, f), f + 1)[j] = Events(a, f + 1)[j]
  BY <1>1, <1>2, <1>3, <1>5, SMTT(30)
<1> QED
  BY <1>5, <1>6, <1>7, SeqEqual, Zenon
\* What a stream was given is a sequence of events.
LEMMA GivenIsSeq ==
  ASSUME SInv, NEW i \in Subscriber
  PROVE  Given(i) \in Seq(1 .. MaxEvents) /\ Given(i) \in Seq(Nat)
<1>1. MaxEvents \in Nat
  BY EventLogAssumption, Zenon
<1>2. Given(i) \in Seq(1 .. MaxEvents)
  BY ConcatProperties, Zenon DEF SInv, Given
<1> QED
  BY <1>1, <1>2, SeqMonotonic

\* The fan-out reaches the streams with room; the others are slow from now on.
LEMMA FanOutKeeps ==
  ASSUME RingInv, SInv, FanOut
  PROVE  SInv'
<1>0. MaxEvents \in Nat /\ ChanCapacity \in Nat \ {0}
  BY EventLogAssumption, Zenon
<1>1. /\ fanned \in Nat /\ pushed = fanned + 1 /\ fanned' = pushed /\ pushed \in 1 .. MaxEvents
      /\ UNCHANGED <<pushed, subNext, state, sent, joined>>
  BY DEF RingInv, SInv, FanOut, ring
<1>2. ch' \in [Subscriber -> Seq(1 .. MaxEvents)] /\ slow' \in [Subscriber -> BOOLEAN]
  <2>1. ASSUME NEW i \in Subscriber
        PROVE  Append(ch[i], pushed) \in Seq(1 .. MaxEvents)
    BY <1>1, AppendProperties DEF SInv
  <2>2. ch' \in [Subscriber -> Seq(1 .. MaxEvents)]
    BY <2>1, Zenon DEF SInv, FanOut
  <2>3. slow' \in [Subscriber -> BOOLEAN]
    BY DEF SInv, FanOut
  <2> QED
    BY <2>2, <2>3, ZenonT(40)
<1>3. ASSUME NEW i \in Subscriber
      PROVE  StreamInv(i)'
  <2>1. StreamInv(i) /\ ch[i] \in Seq(1 .. MaxEvents) /\ sent[i] \in Seq(1 .. MaxEvents)
    BY Zenon DEF SInv
  <2>2. CASE Open(i) /\ HasRoom(i)
    <3>1. ch'[i] = Append(ch[i], pushed) /\ (slow'[i] <=> slow[i]) /\ Open(i)'
      BY <2>2, <1>1 DEF FanOut, SInv, Open
    <3>2. Given(i)' = Append(Given(i), pushed)
      <4>1. sent[i] \o Append(ch[i], pushed) = Append(sent[i] \o ch[i], pushed)
        BY <2>1, <1>1, OfferedLast, Zenon
      <4> QED
        BY <4>1, <3>1, <2>1, <1>1, Zenon DEF Given
    <3>3. Increasing(Given(i)') /\ Bounded(Given(i)', fanned')
      BY <3>2, <2>1, <1>1, LaterEvent, GivenIsSeq, SMTT(30) DEF StreamInv
    <3>4. Len(ch'[i]) <= ChanCapacity
      BY <3>1, <2>1, <2>2, <1>0, <1>1, SMTT(30) DEF HasRoom
    <3>5. ASSUME ~slow[i]
          PROVE  Given(i)' = Events(joined[i] + 1, fanned')
      <4>1. Given(i) = Events(joined[i] + 1, fanned)
        BY <2>1, <2>2, <3>5, Zenon DEF StreamInv
      <4>2. joined[i] + 1 \in Nat /\ joined[i] + 1 <= fanned + 1
        BY <2>1, <1>1 DEF SInv, StreamInv
      <4>3. Append(Events(joined[i] + 1, fanned), fanned + 1) = Events(joined[i] + 1, fanned + 1)
        BY <4>2, <1>1, OneMoreEvent, Zenon
      <4> QED
        BY <4>1, <4>3, <3>2, <1>1, Zenon
    <3>6. joined[i] <= fanned'
      BY <2>1, <1>1 DEF SInv, StreamInv
    <3> QED
      BY <3>1, <3>3, <3>4, <3>5, <3>6, <2>1, <2>2, <1>1, Zenon DEF StreamInv, Open
  <2>3. CASE ~(Open(i) /\ HasRoom(i))
    <3>1. ch'[i] = ch[i] /\ Given(i)' = Given(i) /\ (Open(i) => slow'[i])
      BY <2>3, <1>1, ZenonT(40) DEF FanOut, SInv, Given
    <3>2. Bounded(Given(i)', fanned')
      BY <3>1, <2>1, <1>1, GivenIsSeq, SMTT(30) DEF StreamInv, Bounded
    <3>3. joined[i] <= fanned'
      BY <2>1, <1>1 DEF SInv, StreamInv
    <3> QED
      BY <3>1, <3>2, <3>3, <2>1, <1>1, SMTT(30) DEF StreamInv, Open
  <2> QED
    BY <2>2, <2>3
<1> QED
  BY <1>1, <1>2, <1>3 DEF SInv

\* A new stream has been given nothing: the events after the last one fanned out.
LEMMA SubscribeKeeps ==
  ASSUME RingInv, SInv, NEW k \in Subscriber, Subscribe(k)
  PROVE  SInv'
<1>1. /\ fanned \in Nat /\ pushed \in {fanned, fanned + 1} /\ pushed \in Nat
      /\ k \in Nat /\ subNext = k
  BY EventLogAssumption DEF SInv, Subscribe
<1>2. ASSUME NEW i \in Subscriber
      PROVE  StreamInv(i)'
  <2>1. StreamInv(i) /\ Given(i)' = Given(i) /\ ch'[i] = ch[i]
    BY ZenonT(40) DEF SInv, Subscribe, Given
  <2>2. CASE i = k
    <3>1. Given(i) = <<>>
      BY <2>1, <2>2, <1>1 DEF StreamInv
    <3>2. Events(fanned + 1, fanned) = <<>>
      BY <1>1, SMTT(30) DEF Events
    <3>3. joined'[i] = fanned
      BY <2>2, <1>1 DEF Subscribe, SInv
    <3>4. /\ ~(subNext' <= i) /\ state'[i] = "open" /\ fanned' = fanned
      BY <2>2, <1>1, SMTT(30) DEF Subscribe, SInv
    <3> QED
      BY <2>1, <3>1, <3>2, <3>3, <3>4, <1>1, SMTT(30) DEF StreamInv
  <2>3. CASE i # k
    <3>1. /\ state'[i] = state[i] /\ joined'[i] = joined[i]
          /\ UNCHANGED <<fanned, slow>> /\ i \in Nat /\ subNext' = subNext + 1
      BY <2>3, EventLogAssumption, Zenon DEF Subscribe, SInv
    <3> QED
      BY <2>1, <3>1, <1>1 DEF StreamInv, Open
  <2> QED
    BY <2>2, <2>3, Zenon
<1> QED
  BY <1>1, <1>2, SMTT(30) DEF SInv, Subscribe, ring
\* A handler that writes an event only moves it from the channel to its client.
LEMMA DeliverKeeps ==
  ASSUME SInv, NEW k \in Subscriber, Deliver(k)
  PROVE  SInv'
<1>1. /\ ch[k] \in Seq(1 .. MaxEvents) /\ sent[k] \in Seq(1 .. MaxEvents) /\ ch[k] # <<>>
      /\ UNCHANGED <<pushed, fanned, subNext, state, joined, slow>>
  BY DEF SInv, Deliver, ring
<1>2. /\ Head(ch[k]) \in 1 .. MaxEvents /\ Tail(ch[k]) \in Seq(1 .. MaxEvents)
      /\ Len(Tail(ch[k])) = Len(ch[k]) - 1 /\ Len(ch[k]) \in Nat
  BY <1>1, HeadTailProperties, LenProperties, Zenon
<1>3. Append(sent[k], Head(ch[k])) \in Seq(1 .. MaxEvents)
  BY <1>1, <1>2, AppendProperties, Zenon
<1>4. Append(sent[k], Head(ch[k])) \o Tail(ch[k]) = sent[k] \o ch[k]
  BY <1>1, DeliveredSame, Zenon
<1>5. /\ ch' \in [Subscriber -> Seq(1 .. MaxEvents)] /\ sent' \in [Subscriber -> Seq(1 .. MaxEvents)]
  BY <1>2, <1>3 DEF SInv, Deliver
<1>6. ASSUME NEW i \in Subscriber
      PROVE  StreamInv(i)'
  <2>1. StreamInv(i)
    BY DEF SInv
  <2>2. Given(i)' = Given(i)
    BY <1>4, Zenon DEF SInv, Deliver, Given
  <2>3. Len(ch'[i]) <= ChanCapacity
    BY <2>1, <1>1, <1>2, EventLogAssumption DEF SInv, Deliver, StreamInv
  <2> QED
    BY <2>1, <2>2, <2>3, <1>1, Zenon DEF StreamInv, Open
<1> QED
  BY <1>1, <1>5, <1>6, Zenon DEF SInv

\* Push and the end of a stream leave the channels alone.
LEMMA PushKeepsStreams ==
  ASSUME RingInv, SInv, Push
  PROVE  SInv'
<1>1. UNCHANGED <<fanned, subNext, state, ch, sent, joined, slow>>
  BY DEF Push, streams
<1>2. fanned \in Nat /\ pushed = fanned /\ pushed' = fanned + 1
  BY Zenon DEF SInv, Push
<1> QED
  BY <1>1, <1>2, Zenon DEF SInv, StreamInv, Given, Open

LEMMA UnsubscribeKeeps ==
  ASSUME SInv, NEW k \in Subscriber, Unsubscribe(k)
  PROVE  SInv'
<1>1. ASSUME NEW i \in Subscriber
      PROVE  StreamInv(i)'
  <2>1. StreamInv(i) /\ Given(i)' = Given(i) /\ UNCHANGED <<fanned, subNext, joined, slow, ch>>
    BY SMTT(30) DEF SInv, Unsubscribe, Given
  <2>2. state'[i] = IF i = k THEN "done" ELSE state[i]
    BY DEF SInv, Unsubscribe
  <2> QED
    BY <2>1, <2>2, EventLogAssumption, SMTT(30) DEF StreamInv, Open, Unsubscribe
<1> QED
  BY <1>1, Zenon DEF SInv, Unsubscribe, ring

LEMMA SInvStep ==
  ASSUME RingInv, SInv, [LogNext]_logVars
  PROVE  SInv'
<1>1. CASE UNCHANGED logVars
  BY <1>1, Zenon DEF SInv, StreamInv, Given, Open, logVars
<1> QED
  BY <1>1, PushKeepsStreams, FanOutKeeps, SubscribeKeeps, DeliverKeeps, UnsubscribeKeeps, Zenon DEF LogNext

\* The invariant of the streams holds in every reachable state.
THEOREM StreamInvariance == LogSpec => [](RingInv /\ SInv)
<1>1. LogInit => SInv
  <2> SUFFICES ASSUME LogInit PROVE SInv
    OBVIOUS
  <2>1. \A i \in Subscriber : ch[i] = <<>> /\ sent[i] = <<>> /\ Given(i) = <<>>
    BY DEF LogInit, Given
  <2>2. \A i \in Subscriber : StreamInv(i)
    BY <2>1, EventLogAssumption DEF LogInit, StreamInv, Open, Increasing, Bounded
  <2> QED
    BY <2>2 DEF LogInit, SInv
<1> QED
  BY <1>1, SInvStep, RingInvariance, PTL DEF LogSpec

\* The counters of the ring stay inside the buffer and no channel holds more
\* than its capacity.
THEOREM EventLogTypes == LogSpec => []LogTypeOK
<1>1. RingInv /\ SInv => LogTypeOK
  <2> SUFFICES ASSUME RingInv, SInv PROVE LogTypeOK
    OBVIOUS
  <2>1. Capacity \in Nat \ {0} /\ MaxEvents \in Nat
    BY EventLogAssumption, Zenon
  <2>2. \A i \in Subscriber : Len(ch[i]) <= ChanCapacity /\ sent[i] \in Seq(1 .. MaxEvents)
    BY SMTT(30) DEF SInv, StreamInv
  <2>3. joined \in [Subscriber -> 0 .. MaxEvents]
    BY <2>1, SMTT(30) DEF RingInv, SInv, StreamInv
  <2> QED
    BY <2>1, <2>2, <2>3 DEF RingInv, SInv, LogTypeOK
<1> QED
  BY <1>1, StreamInvariance, PTL

\* GET /events/stream sends each event at most once, in the order of PushEvent.
THEOREM StreamsInOrder == LogSpec => []StreamInOrder
<1>1. RingInv /\ SInv => StreamInOrder
  <2> SUFFICES ASSUME SInv, NEW i \in Subscriber
               PROVE  \A a, b \in DOMAIN Given(i) : a < b => Given(i)[a] < Given(i)[b]
    BY Zenon DEF StreamInOrder, Given
  <2>1. DOMAIN Given(i) = 1 .. Len(Given(i))
    BY GivenIsSeq, LenProperties, SMTT(30)
  <2> QED
    BY <2>1, Zenon DEF SInv, StreamInv, Increasing
<1> QED
  BY <1>1, StreamInvariance, PTL

\* A stream that keeps up is given exactly the events fanned out since it
\* subscribed, the one of a PushEvent it came in the middle of included.
THEOREM StreamsComplete == LogSpec => []StreamIsComplete
<1>1. RingInv /\ SInv => StreamIsComplete
  <2> SUFFICES ASSUME SInv, NEW i \in Subscriber, Open(i), ~slow[i]
               PROVE  Given(i) = Events(joined[i] + 1, fanned)
    BY Zenon DEF StreamIsComplete, Given
  <2> QED
    BY Zenon DEF SInv, StreamInv
<1> QED
  BY <1>1, StreamInvariance, PTL

-----------------------------------------------------------------------------
\* Bootstrap: finding other nodes.

\* A node that is up is on its own list because it only ever joins while it is
\* up; for the joins of retryJoin that takes that Leave ends its loop.
BootInv ==
  /\ BootTypeOK
  /\ \A n \in Node : retry[n] \in {"spawned", "loop"} => phase[n] = "running"

\* transport.Join of a node that is up adds nodes to its list and to the seed's.
LEMMA MeetKeeps ==
  ASSUME BootTypeOK, NEW n \in Node, NEW s \in Node, Up(n), Meet(n, s)
  PROVE  /\ members' \in [Node -> SUBSET Node]
         /\ \A m \in Node : m \in members'[m] <=> Up(m)
<1>1. /\ members \in [Node -> SUBSET Node]
      /\ \A m \in Node : m \in members[m] <=> Up(m)
      /\ s # n /\ Up(s)
      /\ members' = [members EXCEPT ![n] = @ \cup members[s], ![s] = @ \cup {n}]
  BY DEF BootTypeOK, Meet
<1>2. \A m \in Node : members'[m] = IF m = s THEN members[s] \cup {n}
                                    ELSE IF m = n THEN members[n] \cup members[s] ELSE members[m]
  BY <1>1, Zenon
<1>3. members' \in [Node -> SUBSET Node]
  BY <1>1
<1> QED
  BY <1>1, <1>2, <1>3, ZenonT(40)

\* Start up to the first join, and Leave.
LEMMA StartKeeps ==
  ASSUME BootInv, NEW n \in Node,
         \/ StartTransport(n) \/ NoDiscoverer(n) \/ Leave(n)
         \/ DiscoverFails(n) \/ DiscoverFindsNothing(n) \/ DiscoverFindsSeeds(n)
         \/ FirstJoinFails(n) \/ RetryStarts(n) \/ RetryFindsPeers(n)
  PROVE  BootInv'
<1> USE DEF BootInv, BootTypeOK, Set, Up
<1>1. CASE StartTransport(n)
  BY <1>1 DEF StartTransport
<1>2. CASE NoDiscoverer(n)
  BY <1>2, Zenon DEF NoDiscoverer
<1>3. CASE Leave(n)
  BY <1>3, Zenon DEF Leave
<1>4. CASE DiscoverFails(n)
  BY <1>4, Zenon DEF DiscoverFails
<1>5. CASE DiscoverFindsNothing(n)
  BY <1>5, Zenon DEF DiscoverFindsNothing
<1>6. CASE DiscoverFindsSeeds(n)
  BY <1>6, Zenon DEF DiscoverFindsSeeds
<1>7. CASE FirstJoinFails(n)
  BY <1>7, Zenon DEF FirstJoinFails
<1>8. CASE RetryStarts(n)
  BY <1>8, ZenonT(40) DEF RetryStarts
<1>9. CASE RetryFindsPeers(n)
  BY <1>9 DEF RetryFindsPeers
<1> QED
  BY <1>1, <1>2, <1>3, <1>4, <1>5, <1>6, <1>7, <1>8, <1>9, Zenon

\* The three ways to join: by Start, by retryJoin and by POST /join.
LEMMA JoinKeeps ==
  ASSUME BootInv, NEW n \in Node,
         FirstJoinSucceeds(n) \/ RetryJoins(n) \/ \E s \in Node : PostJoin(n, s)
  PROVE  BootInv'
<1>1. Up(n) /\ \E s \in Node : Meet(n, s)
  BY Zenon DEF BootInv, FirstJoinSucceeds, RetryJoins, PostJoin, JoinVia, Up
<1>2. /\ members' \in [Node -> SUBSET Node]
      /\ \A m \in Node : m \in members'[m] <=> Up(m)
  BY <1>1, MeetKeeps, Zenon DEF BootInv
<1>3. CASE FirstJoinSucceeds(n)
  BY <1>2, <1>3, ZenonT(40) DEF BootInv, BootTypeOK, FirstJoinSucceeds, Set, Up
<1>4. CASE RetryJoins(n) \/ \E s \in Node : PostJoin(n, s)
  BY <1>2, <1>4, SMTT(30) DEF BootInv, BootTypeOK, RetryJoins, PostJoin, Set, Up
<1> QED
  BY <1>3, <1>4, Zenon

\* What memberlist does by itself.
LEMMA GossipKeeps ==
  ASSUME BootInv, NEW n \in Node, NEW p \in Node, NEW m \in Node,
         Spread(n, p, m) \/ DropLeft(n, m)
  PROVE  BootInv'
BY DEF BootInv, BootTypeOK, Spread, DropLeft, Up

\* Whatever fails during Start, retryJoin and the joins, a node has itself on its
\* list of members from the start of its transport until it leaves, and at no
\* other time: memberlist never takes it for a stranger or brings it back.
THEOREM BootstrapTypes == BootFairSpec => []BootTypeOK
<1>1. BootInit => BootInv
  BY DEF BootInit, BootInv, BootTypeOK, Up
<1>2. BootInv /\ [BootNext]_bootVars => BootInv'
  <2> SUFFICES ASSUME BootInv, [BootNext]_bootVars PROVE BootInv'
    OBVIOUS
  <2>1. CASE UNCHANGED bootVars
    BY <2>1, Zenon DEF bootVars, BootInv, BootTypeOK, Up
  <2>2. ASSUME NEW n \in Node, StartStep(n) \/ RetryJoins(n) \/ Leave(n)
        PROVE  BootInv'
    BY <2>2, StartKeeps, JoinKeeps, ZenonT(40) DEF StartStep
  <2> QED
    BY <2>1, <2>2, JoinKeeps, GossipKeeps, Zenon DEF BootNext, RetryFails
<1>3. BootInv => BootTypeOK
  BY DEF BootInv
<1> QED
  BY <1>1, <1>2, <1>3, PTL DEF BootFairSpec
=============================================================================
