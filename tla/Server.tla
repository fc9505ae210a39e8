------------------------------- MODULE Server -------------------------------
(***************************************************************************)
(* The Redis server's goroutines (internal/server/server.go): acceptLoop,  *)
(* one handleConn for each connection, Shutdown and the goroutine in which *)
(* it waits for the WaitGroup.  Session has what a handler does with its   *)
(* connection; here it is reading or running a command.                    *)
(***************************************************************************)
EXTENDS Naturals, FiniteSets

CONSTANT Client  \* the connections clients may open

VARIABLES ln,       \* the listener: "none", "open", "closed"
          quit,     \* is the channel quit closed
          loop,     \* acceptLoop: "none", "accept", "add", "error", "returned"
          conn,     \* "absent", "backlog", "accepted", "reading", "running", "closed"
          wg,       \* the counter of the WaitGroup
          waiter,   \* the goroutine of Shutdown: "none", "waiting", "done"
          shutdown  \* the call of Shutdown: "none", "closing", "waiting", "nil", "error"

server == <<ln, quit, loop, conn, wg, waiter, shutdown>>

ServerInit ==
  /\ ln = "none" /\ quit = FALSE /\ loop = "none"
  /\ conn = [c \in Client |-> "absent"]
  /\ wg = 0 /\ waiter = "none" /\ shutdown = "none"

Served(c) == conn[c] \in {"reading", "running"}

-----------------------------------------------------------------------------
ListenAndServe ==
  /\ ln' = "open" /\ loop' = "accept"
  /\ UNCHANGED <<quit, conn, wg, waiter, shutdown>>

\* The kernel completes a connection; Accept may return it later.
Connect(c) ==
  /\ ln = "open" /\ conn[c] = "absent"
  /\ conn' = [conn EXCEPT ![c] = "backlog"]
  /\ UNCHANGED <<ln, quit, loop, wg, waiter, shutdown>>

Accept(c) ==
  /\ loop = "accept" /\ ln = "open" /\ conn[c] = "backlog"
  /\ conn' = [conn EXCEPT ![c] = "accepted"]
  /\ loop' = "add"
  /\ UNCHANGED <<ln, quit, wg, waiter, shutdown>>

\* Accept fails on a closed listener, and on an open one when the process is
\* short of something.
AcceptFails ==
  /\ loop = "accept"
  /\ loop' = "error"
  /\ UNCHANGED <<ln, quit, conn, wg, waiter, shutdown>>

AfterError ==
  /\ loop = "error"
  /\ loop' = (IF quit THEN "returned" ELSE "accept")
  /\ UNCHANGED <<ln, quit, conn, wg, waiter, shutdown>>

\* Slip: the connection is not added to the WaitGroup.
StartHandlerUncounted ==
  /\ loop = "add" /\ loop' = "accept"
  /\ conn' = [c \in Client |-> IF conn[c] = "accepted" THEN "reading" ELSE conn[c]]
  /\ UNCHANGED <<ln, quit, wg, waiter, shutdown>>

\* wg.Add(1) and go handleConn: after Accept, and so perhaps after Shutdown has
\* looked at the WaitGroup.
StartHandler ==
  /\ loop = "add" /\ loop' = "accept"
  /\ conn' = [c \in Client |-> IF conn[c] = "accepted" THEN "reading" ELSE conn[c]]
  /\ wg' = wg + 1
  /\ UNCHANGED <<ln, quit, waiter, shutdown>>

RunCommand(c) ==
  /\ conn[c] = "reading"
  /\ conn' = [conn EXCEPT ![c] = "running"]
  /\ UNCHANGED <<ln, quit, loop, wg, waiter, shutdown>>

CommandEnds(c) ==
  /\ conn[c] = "running"
  /\ conn' = [conn EXCEPT ![c] = "reading"]
  /\ UNCHANGED <<ln, quit, loop, wg, waiter, shutdown>>

\* ReadValue fails, as Session!ReadFails has it; Shutdown does not make it.
HandlerReturns(c) ==
  /\ conn[c] = "reading"
  /\ conn' = [conn EXCEPT ![c] = "closed"]
  /\ wg' = wg - 1
  /\ UNCHANGED <<ln, quit, loop, waiter, shutdown>>

-----------------------------------------------------------------------------
\* Shutdown closes quit, then the listener if there is one; connections that
\* Accept has not returned are reset.  Then it waits.
CloseQuit ==
  /\ shutdown = "none"
  /\ quit' = TRUE /\ shutdown' = "closing"
  /\ UNCHANGED <<ln, loop, conn, wg, waiter>>

\* Slip: the listener stays open.
KeepListener ==
  /\ shutdown = "closing"
  /\ shutdown' = "waiting" /\ waiter' = "waiting"
  /\ UNCHANGED <<ln, quit, loop, conn, wg>>

CloseListener ==
  /\ shutdown = "closing"
  /\ ln' = (IF ln = "none" THEN "none" ELSE "closed")
  /\ conn' = [c \in Client |-> IF conn[c] = "backlog" THEN "closed" ELSE conn[c]]
  /\ shutdown' = "waiting" /\ waiter' = "waiting"
  /\ UNCHANGED <<quit, loop, wg>>

WaitReturns ==
  /\ waiter = "waiting" /\ wg = 0
  /\ waiter' = "done"
  /\ UNCHANGED <<ln, quit, loop, conn, wg, shutdown>>

\* Slip: the end of the context is not looked at.
ShutdownReturnsWhenDone(expired) ==
  /\ shutdown = "waiting" /\ waiter = "done"
  /\ shutdown' = "nil"
  /\ UNCHANGED <<ln, quit, loop, conn, wg, waiter>>

\* The select of Shutdown: with both channels ready it may take either.
ShutdownReturns(expired) ==
  /\ shutdown = "waiting"
  /\ \/ waiter = "done" /\ shutdown' = "nil"
     \/ expired /\ shutdown' = "error"
  /\ UNCHANGED <<ln, quit, loop, conn, wg, waiter>>

-----------------------------------------------------------------------------
AcceptLoopStep == (ln = "closed" /\ AcceptFails) \/ AfterError \/ StartHandler

ServerStep ==
  \/ \E c \in Client : \/ Connect(c) \/ Accept(c) \/ RunCommand(c) \/ CommandEnds(c)
                       \/ HandlerReturns(c)
  \/ AcceptFails \/ AfterError \/ StartHandler
  \/ WaitReturns

\* The shape of the server's state; the WaitGroup counts the handlers.
ServerTypeOK ==
  /\ ln \in {"none", "open", "closed"} /\ quit \in BOOLEAN
  /\ loop \in {"none", "accept", "add", "error", "returned"}
  /\ conn \in [Client -> {"absent", "backlog", "accepted", "reading", "running", "closed"}]
  /\ wg = Cardinality({c \in Client : Served(c)})
  /\ waiter \in {"none", "waiting", "done"}
  /\ shutdown \in {"none", "closing", "waiting", "nil", "error"}

\* When Shutdown has returned nil every command has been answered and every
\* handler has ended, except for at most one connection: the one that the accept
\* loop had taken from the listener and not yet added to the WaitGroup.
AtMostOneLateConnection ==
  shutdown = "nil" => Cardinality({c \in Client : conn[c] = "accepted" \/ Served(c)}) <= 1
=============================================================================
