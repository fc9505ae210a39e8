------------------------------ MODULE Lifecycle ------------------------------
(***************************************************************************)
(* A process from start to stop: main (cmd/hapartition/main.go) brings up  *)
(* gossip, the Redis server and the management server in this order,       *)
(* undoes it when a listener fails, and on a signal stops HTTP, gossip and *)
(* Redis, with one context of five seconds for HTTP and Redis.             *)
(***************************************************************************)
EXTENDS Server, TLSTransport

CONSTANT Request  \* the HTTP requests clients may make

VARIABLES withTLS,  \* is a TLSConfig given
          main,     \* where main is, see below
          failed,   \* has a listener failed, so that main is undoing the start
          ctx,      \* "none", "live", "expired"
          member,   \* this node in memberlist: "none", "alive", "left"
          http,     \* the HTTP listener: "none", "open", "closed"
          request   \* "absent", "running", "ready" (200 of /readyz), "done"

process == <<withTLS, main, failed, ctx, member, http, request>>
vars == <<process, server, transport>>

\* main: "setup", "create" (in memberlist.Create), "redis" and "http" (about to
\* listen), "wait", "stopHTTP", "leave", "leaving", "stopRedis", "stopping", and
\* the ends "stopped", "fatal" (log.Fatalf) and "panic".
Over == main \in {"stopped", "fatal", "panic"}

Init ==
  /\ ServerInit /\ TransportInit
  /\ withTLS \in BOOLEAN
  /\ main = "setup" /\ failed = FALSE /\ ctx = "none" /\ member = "none" /\ http = "none"
  /\ request = [r \in Request |-> "absent"]

Goto(label) == main' = label /\ UNCHANGED <<withTLS, failed, ctx, member, http, request>>

-----------------------------------------------------------------------------
\* setupGossip: transport.Start of the memberlist transport, which makes the
\* TLS transport first and may fail to bind it.
SetupGossip ==
  /\ main = "setup"
  /\ \/ Goto("fatal") /\ UNCHANGED transport
     \/ Goto("create") /\ IF withTLS THEN NewTLSTransport ELSE UNCHANGED transport
  /\ UNCHANGED server

\* A peer that knows this address already sends a request before Create has
\* returned: the answer goes through mlist, and a probe is answered with what
\* broadcasts holds, neither of which is set yet.
EarlyCallback ==
  /\ main = "create" /\ Goto("panic") /\ UNCHANGED <<server, transport>>

CreateReturns ==
  /\ main = "create"
  /\ \/ Goto("fatal")
     \/ /\ main' = "redis" /\ member' = "alive"
        /\ UNCHANGED <<withTLS, failed, ctx, http, request>>
  /\ UNCHANGED <<server, transport>>

\* A listener that cannot be opened: Redis is shut down, with a context of its
\* own, then gossip is left.
Undo ==
  /\ main' = "stopRedis" /\ failed' = TRUE /\ ctx' = "live"
  /\ UNCHANGED <<withTLS, member, http, request>>

\* Slip: the error of the Redis listener is not looked at.
ListenRedisUnchecked ==
  /\ main = "redis" /\ Goto("http")
  /\ ListenAndServe \/ UNCHANGED server
  /\ UNCHANGED transport

ListenRedis ==
  /\ main = "redis"
  /\ \/ Undo /\ UNCHANGED server
     \/ Goto("http") /\ ListenAndServe
  /\ UNCHANGED transport

ListenHTTP ==
  /\ main = "http"
  /\ \/ Undo
     \/ /\ main' = "wait" /\ http' = "open"
        /\ UNCHANGED <<withTLS, failed, ctx, member, request>>
  /\ UNCHANGED <<server, transport>>

-----------------------------------------------------------------------------
\* HTTP requests.  An event stream ends only with its client.
StartRequest(r) ==
  /\ http = "open" /\ request[r] = "absent"
  /\ request' = [request EXCEPT ![r] = "running"]
  /\ UNCHANGED <<withTLS, main, failed, ctx, member, http, server, transport>>

EndRequest(r) ==
  /\ request[r] = "running"
  /\ request' = [request EXCEPT ![r] = "done"]
  /\ UNCHANGED <<withTLS, main, failed, ctx, member, http, server, transport>>

\* handleReady looks for this node, alive, in the list of members.
HandleReady(r) ==
  /\ request[r] = "running" /\ member = "alive"
  /\ request' = [request EXCEPT ![r] = "ready"]
  /\ UNCHANGED <<withTLS, main, failed, ctx, member, http, server, transport>>

-----------------------------------------------------------------------------
Signal ==
  /\ main = "wait"
  /\ main' = "stopHTTP" /\ ctx' = "live" /\ http' = "closed"
  /\ UNCHANGED <<withTLS, failed, member, request, server, transport>>

\* Slip: the requests in progress are not waited for.
HTTPShutdownReturnsAtOnce ==
  /\ main = "stopHTTP" /\ Goto("leave") /\ UNCHANGED <<server, transport>>

\* http.Server.Shutdown closes the listener (with the signal above, nothing
\* comes between) and waits for the requests or for the context.
HTTPShutdownReturns ==
  /\ main = "stopHTTP"
  /\ ctx = "expired" \/ \A r \in Request : request[r] # "running"
  /\ Goto("leave") /\ UNCHANGED <<server, transport>>

AfterLeave == IF failed THEN "fatal" ELSE "stopRedis"

\* Handler.Leave and the Leave of the transport: when memberlist cannot tell the
\* others in time, the error comes back and nothing is shut down.
LeaveFails ==
  /\ main = "leave"
  /\ main' = AfterLeave /\ member' \in {"alive", "left"}
  /\ UNCHANGED <<withTLS, failed, ctx, http, request, server, transport>>

LeaveSucceeds ==
  /\ main = "leave"
  /\ member' = "left"
  /\ IF withTLS THEN main' = "leaving" /\ CloseShutdownCh
     ELSE main' = AfterLeave /\ UNCHANGED transport
  /\ UNCHANGED <<withTLS, failed, ctx, http, request, server>>

LeaveReturns ==
  /\ main = "leaving" /\ tlsShutdown = "done"
  /\ Goto(AfterLeave) /\ UNCHANGED <<server, transport>>

StopRedis ==
  /\ main = "stopRedis"
  /\ Goto("stopping") /\ CloseQuit /\ UNCHANGED transport

RedisStopped ==
  /\ main = "stopping" /\ ShutdownReturns(ctx = "expired")
  /\ Goto(IF failed THEN "leave" ELSE "stopped") /\ UNCHANGED transport

CtxExpires ==
  /\ ctx = "live" /\ ctx' = "expired"
  /\ UNCHANGED <<withTLS, main, failed, member, http, request, server, transport>>

-----------------------------------------------------------------------------
MainStep ==
  \/ SetupGossip \/ CreateReturns \/ ListenRedis \/ ListenHTTP \/ HTTPShutdownReturns
  \/ LeaveFails \/ LeaveSucceeds \/ LeaveReturns \/ StopRedis \/ RedisStopped
  \/ CloseListener /\ UNCHANGED <<process, transport>>

\* When main returns or calls log.Fatalf, or a goroutine panics, nothing else runs.
Next ==
  /\ ~Over
  /\ \/ MainStep \/ EarlyCallback \/ Signal \/ CtxExpires
     \/ \E r \in Request : StartRequest(r) \/ EndRequest(r) \/ HandleReady(r)
     \/ ServerStep /\ UNCHANGED <<process, transport>>
     \/ TransportStep /\ UNCHANGED <<process, server>>

\* Every goroutine that can run is run and the context's timer fires.  Commands may
\* never end (Replication!Send); clients, peers and signals may never come.
Fairness ==
  /\ WF_vars(~Over /\ MainStep) /\ WF_vars(~Over /\ CtxExpires)
  /\ WF_vars(~Over /\ AcceptLoopStep /\ UNCHANGED <<process, transport>>)
  /\ WF_vars(~Over /\ WaitReturns /\ UNCHANGED <<process, transport>>)
  /\ WF_vars(~Over /\ TransportProgress /\ UNCHANGED <<process, server>>)

Spec == Init /\ [][Next]_vars /\ Fairness

-----------------------------------------------------------------------------
\* The shape of the state, that of the server included.
TypeOK ==
  /\ ServerTypeOK
  /\ main \in {"setup", "create", "redis", "http", "wait", "stopHTTP", "leave", "leaving",
               "stopRedis", "stopping", "stopped", "fatal", "panic"}
  /\ failed \in BOOLEAN /\ withTLS \in BOOLEAN
  /\ ctx \in {"none", "live", "expired"} /\ member \in {"none", "alive", "left"}
  /\ http \in {"none", "open", "closed"}
  /\ request \in [Request -> {"absent", "running", "ready", "done"}]
  /\ stream \in [Stream -> {"absent", "offered", "held", "verified", "forwarded", "closed"}]
  /\ deadline \in [Stream -> BOOLEAN]

\* No HTTP request is in progress when gossip is left, so that none joins or
\* lists a cluster this node has left, unless the requests used up the context.
NoRequestAfterLeave ==
  main \in {"leave", "leaving", "stopRedis", "stopping", "stopped"} /\ ctx # "expired"
    => \A r \in Request : request[r] # "running"

\* A 200 of /readyz means that the Redis server accepts connections: no order of
\* start, failed start and stop lets the probe succeed without it, until the
\* context is used up.
ReadyMeansServing ==
  [][\A r \in Request : request[r] = "running" /\ request'[r] = "ready"
                        => ln = "open" \/ ctx = "expired"]_vars

\* The inner transport can be left waiting for someone to take a connection.
StuckOnOffer == tlsShutdown = "inner" /\ Offered

\* After a signal, or the failure of a listener, the process ends, whatever
\* idle clients, open event streams and stalled peers do; the one exception is
\* a peer whose connection nobody takes any more.
ProcessEnds == main = "stopHTTP" \/ failed ~> Over \/ StuckOnOffer

\* A connection the interceptor has taken does not stay with it: a peer that
\* stalls in the handshake holds up the others for the deadline and no longer.
TakenStreamSettles ==
  \A s \in Stream :
    stream[s] \in {"held", "verified"} ~> stream[s] \in {"forwarded", "closed"} \/ Over
=============================================================================
