---------------------------- MODULE TLSTransport ----------------------------
(***************************************************************************)
(* The gossip transport with mutual TLS (internal/gossip/                  *)
(* tls_transport.go): the goroutine streamInterceptor between the inner    *)
(* transport of memberlist, which hands it raw connections one by one, and *)
(* memberlist itself, which takes the verified ones.                       *)
(***************************************************************************)
EXTENDS Naturals

CONSTANT Stream  \* the connections peers may open

VARIABLES inner,        \* the inner transport: "none", "open", "closing", "closed"
          stream,       \* "absent", "offered" on the inner channel, "held", "verified",
                        \* "forwarded" to memberlist, "closed"
          deadline,     \* has the connection a deadline
          interceptor,  \* "none", "select", "handshake", "forward", "returned"
          shutdownCh,   \* is it closed
          tlsShutdown   \* the call of Shutdown: "none", "waiting", "inner", "done"

transport == <<inner, stream, deadline, interceptor, shutdownCh, tlsShutdown>>

TransportInit ==
  /\ inner = "none" /\ interceptor = "none" /\ shutdownCh = FALSE /\ tlsShutdown = "none"
  /\ stream = [s \in Stream |-> "absent"]
  /\ deadline = [s \in Stream |-> FALSE]

Offered == \E s \in Stream : stream[s] = "offered"

-----------------------------------------------------------------------------
NewTLSTransport ==
  /\ inner' = "open" /\ interceptor' = "select"
  /\ UNCHANGED <<stream, deadline, shutdownCh, tlsShutdown>>

\* The listener of the inner transport accepts a connection and waits for
\* someone to take it from the channel, which has no buffer.
Offer(s) ==
  /\ inner = "open" /\ stream[s] = "absent" /\ ~Offered
  /\ stream' = [stream EXCEPT ![s] = "offered"]
  /\ UNCHANGED <<inner, deadline, interceptor, shutdownCh, tlsShutdown>>

\* Slip: the handshake gets no deadline.
TakeWithoutDeadline(s) ==
  /\ interceptor = "select" /\ stream[s] = "offered"
  /\ stream' = [stream EXCEPT ![s] = "held"]
  /\ interceptor' = "handshake"
  /\ UNCHANGED <<inner, deadline, shutdownCh, tlsShutdown>>

Take(s) ==
  /\ interceptor = "select" /\ stream[s] = "offered"
  /\ stream' = [stream EXCEPT ![s] = "held"]
  /\ deadline' = [deadline EXCEPT ![s] = TRUE]
  /\ interceptor' = "handshake"
  /\ UNCHANGED <<inner, shutdownCh, tlsShutdown>>

HandshakeSucceeds(s) ==
  /\ stream[s] = "held"
  /\ stream' = [stream EXCEPT ![s] = "verified"]
  /\ deadline' = [deadline EXCEPT ![s] = FALSE]
  /\ interceptor' = "forward"
  /\ UNCHANGED <<inner, shutdownCh, tlsShutdown>>

\* A bad certificate, a lost connection, or the deadline; also a deadline that
\* cannot be set or cleared.
HandshakeFails(s) ==
  /\ stream[s] = "held"
  /\ stream' = [stream EXCEPT ![s] = "closed"]
  /\ interceptor' = "select"
  /\ UNCHANGED <<inner, deadline, shutdownCh, tlsShutdown>>

Forward(s) ==
  /\ stream[s] = "verified"
  /\ stream' = [stream EXCEPT ![s] = "forwarded"]
  /\ interceptor' = "select"
  /\ UNCHANGED <<inner, deadline, shutdownCh, tlsShutdown>>

\* Slip: the connection is dropped and stays open.
ReturnWithStream ==
  /\ interceptor \in {"select", "forward"} /\ shutdownCh
  /\ interceptor' = "returned"
  /\ UNCHANGED <<inner, stream, deadline, shutdownCh, tlsShutdown>>

\* Either select of the interceptor takes the closed shutdownCh.
InterceptorReturns ==
  /\ interceptor \in {"select", "forward"} /\ shutdownCh
  /\ interceptor' = "returned"
  /\ stream' = [s \in Stream |-> IF stream[s] = "verified" THEN "closed" ELSE stream[s]]
  /\ UNCHANGED <<inner, deadline, shutdownCh, tlsShutdown>>

-----------------------------------------------------------------------------
CloseShutdownCh ==
  /\ tlsShutdown = "none"
  /\ shutdownCh' = TRUE /\ tlsShutdown' = "waiting"
  /\ UNCHANGED <<inner, stream, deadline, interceptor>>

InnerShutdown ==
  /\ tlsShutdown = "waiting" /\ interceptor = "returned"
  /\ inner' = "closing" /\ tlsShutdown' = "inner"
  /\ UNCHANGED <<stream, deadline, interceptor, shutdownCh>>

\* The inner Shutdown may have to wait for its listener, and the listener for
\* someone to take the connection that it offers.
InnerShutdownReturns ==
  /\ tlsShutdown = "inner"
  /\ inner' = "closed" /\ tlsShutdown' = "done"
  /\ UNCHANGED <<stream, deadline, interceptor, shutdownCh>>

-----------------------------------------------------------------------------
TransportStep ==
  \/ \E s \in Stream : \/ Offer(s) \/ Take(s) \/ HandshakeSucceeds(s) \/ HandshakeFails(s)
                       \/ Forward(s)
  \/ InterceptorReturns \/ InnerShutdown \/ InnerShutdownReturns

\* What is bound to happen: a connection with a deadline does not stay in the
\* handshake, memberlist takes verified connections, Shutdown goes on.
TransportProgress ==
  \/ \E s \in Stream : Take(s) \/ (deadline[s] /\ HandshakeFails(s)) \/ Forward(s)
  \/ InterceptorReturns \/ InnerShutdown \/ (~Offered /\ InnerShutdownReturns)

\* No connection that the interceptor has taken is left open behind it: once it
\* has returned, each one has been closed or is memberlist's; and memberlist
\* never gets one on which the handshake's deadline still runs and would cut off
\* a later message.
NoStreamLeaks ==
  /\ interceptor = "returned" => \A s \in Stream : stream[s] \notin {"held", "verified"}
  /\ \A s \in Stream : stream[s] = "forwarded" => ~deadline[s]
=============================================================================
