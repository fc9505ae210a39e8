------------------------------ MODULE Bootstrap ------------------------------
(***************************************************************************)
(* How nodes find each other: Handler.Start, its retryJoin goroutine,      *)
(* Handler.Leave (internal/gossip/gossip.go) and the POST /join of the     *)
(* management server.  Discovery may fail or find nothing, a join may      *)
(* fail, and nodes start and leave at any time.                            *)
(***************************************************************************)
EXTENDS Naturals, FiniteSets

CONSTANTS Node,
          Seeds  \* Seeds[n]: the other nodes whose addresses n's Discoverer
                 \* returns; {} when it has no Discoverer

ASSUME SeedsAssumption ==
  Seeds \in [Node -> SUBSET Node] /\ \A n \in Node : n \notin Seeds[n]

VARIABLES phase,    \* where Start is: "down", "discover", "join", "running", "left"
          found,    \* did the first Discover return any seeds
          retry,    \* retryJoin: "none", "spawned", "loop", "done"
          members,  \* transport.Members(), {} when the transport is not running
          promised  \* history: which failure Start logged as "will retry in background"

bootVars == <<phase, found, retry, members, promised>>

BootInit ==
  /\ phase = [n \in Node |-> "down"]
  /\ found = [n \in Node |-> FALSE]
  /\ retry = [n \in Node |-> "none"]
  /\ members = [n \in Node |-> {}]
  /\ promised = [n \in Node |-> "nothing"]

Set(f, n, v) == [f EXCEPT ![n] = v]
Up(n) == phase[n] \notin {"down", "left"}
Alone(n) == Cardinality(members[n]) <= 1

\* transport.Join: it succeeds when it reaches some seed, and the two nodes then
\* exchange what they know of the membership.
Meet(n, s) ==
  /\ s # n /\ Up(s)
  /\ members' = [members EXCEPT ![n] = @ \cup members[s], ![s] = @ \cup {n}]
JoinVia(n, s) == s \in Seeds[n] /\ Meet(n, s)

\* Slip: the transport starts without the node itself in its list.
StartTransportEmpty(n) ==
  /\ phase[n] = "down"
  /\ phase' = Set(phase, n, "discover")
  /\ UNCHANGED <<found, retry, members, promised>>

\* Start: transport.Start has returned; the transport answers other nodes.
StartTransport(n) ==
  /\ phase[n] = "down"
  /\ phase' = Set(phase, n, "discover")
  /\ members' = Set(members, n, {n})
  /\ UNCHANGED <<found, retry, promised>>

\* Without a Discoverer there is nothing to join and no retryJoin.
NoDiscoverer(n) ==
  /\ phase[n] = "discover" /\ Seeds[n] = {}
  /\ phase' = Set(phase, n, "running")
  /\ UNCHANGED <<found, retry, members, promised>>

\* The first Discover returns an error, no seeds, or the seeds.
DiscoverFails(n) ==
  /\ phase[n] = "discover" /\ Seeds[n] # {}
  /\ phase' = Set(phase, n, "running")
  /\ retry' = Set(retry, n, "spawned")
  /\ promised' = Set(promised, n, "discover")
  /\ UNCHANGED <<found, members>>

DiscoverFindsNothing(n) ==
  /\ phase[n] = "discover" /\ Seeds[n] # {}
  /\ phase' = Set(phase, n, "running")
  /\ retry' = Set(retry, n, "spawned")
  /\ UNCHANGED <<found, members, promised>>

DiscoverFindsSeeds(n) ==
  /\ phase[n] = "discover" /\ Seeds[n] # {}
  /\ phase' = Set(phase, n, "join")
  /\ found' = Set(found, n, TRUE)
  /\ UNCHANGED <<retry, members, promised>>

FirstJoinSucceeds(n) ==
  /\ phase[n] = "join"
  /\ \E s \in Node : JoinVia(n, s)
  /\ phase' = Set(phase, n, "running")
  /\ retry' = Set(retry, n, "spawned")
  /\ UNCHANGED <<found, promised>>

FirstJoinFails(n) ==
  /\ phase[n] = "join"
  /\ phase' = Set(phase, n, "running")
  /\ retry' = Set(retry, n, "spawned")
  /\ promised' = Set(promised, n, "join")
  /\ UNCHANGED <<found, members>>

\* Slip: the test for company reversed.
RetryStartsReversed(n) ==
  /\ retry[n] = "spawned"
  /\ retry' = Set(retry, n, IF ~found[n] \/ Alone(n) THEN "done" ELSE "loop")
  /\ UNCHANGED <<phase, found, members, promised>>

\* retryJoin(seeds) up to its loop: it gives up at once when the first Discover
\* gave it no seeds, or when the node is not alone.
RetryStarts(n) ==
  /\ retry[n] = "spawned"
  /\ retry' = Set(retry, n, IF ~found[n] \/ ~Alone(n) THEN "done" ELSE "loop")
  /\ UNCHANGED <<phase, found, members, promised>>

\* A tick of the loop that finds the node alone and fails to discover or to
\* join leaves everything as it is.
RetryFails(n) == retry[n] = "loop" /\ Alone(n) /\ UNCHANGED bootVars

RetryFindsPeers(n) ==
  /\ retry[n] = "loop" /\ ~Alone(n)
  /\ retry' = Set(retry, n, "done")
  /\ UNCHANGED <<phase, found, members, promised>>

RetryJoins(n) ==
  /\ retry[n] = "loop" /\ Alone(n)
  /\ \E s \in Node : JoinVia(n, s)
  /\ retry' = Set(retry, n, "done")
  /\ UNCHANGED <<phase, found, promised>>

\* POST /join names any address; a request that is refused, and a join that
\* fails, change nothing.
PostJoin(n, s) ==
  /\ phase[n] = "running"
  /\ Meet(n, s)
  /\ UNCHANGED <<phase, found, retry, promised>>

\* Leave closes stopCh, which ends the loop, and leaves the cluster.
Leave(n) ==
  /\ phase[n] = "running"
  /\ phase' = Set(phase, n, "left")
  /\ retry' = Set(retry, n, "done")
  /\ members' = Set(members, n, {})
  /\ UNCHANGED <<found, promised>>

\* memberlist spreads what a node knows to the nodes it knows, and drops nodes
\* that have left.
Spread(n, p, m) ==
  /\ Up(n) /\ Up(p) /\ Up(m) /\ p \in members[n] /\ m \in members[p] \ members[n]
  /\ members' = [members EXCEPT ![n] = @ \cup {m}]
  /\ UNCHANGED <<phase, found, retry, promised>>

DropLeft(n, m) ==
  /\ m \in members[n] /\ phase[m] = "left"
  /\ members' = [members EXCEPT ![n] = @ \ {m}]
  /\ UNCHANGED <<phase, found, retry, promised>>

StartStep(n) ==
  \/ StartTransport(n) \/ NoDiscoverer(n)
  \/ DiscoverFails(n) \/ DiscoverFindsNothing(n) \/ DiscoverFindsSeeds(n)
  \/ FirstJoinSucceeds(n) \/ FirstJoinFails(n)
  \/ RetryStarts(n) \/ RetryFindsPeers(n)

BootNext ==
  \/ \E n \in Node : StartStep(n) \/ RetryFails(n) \/ RetryJoins(n) \/ Leave(n)
  \/ \E n, p, m \in Node : Spread(n, p, m)
  \/ \E n, m \in Node : PostJoin(n, m) \/ DropLeft(n, m)

\* Start and retryJoin are scheduled, and the network does not make every join
\* to a running seed fail.
BootFairSpec ==
  /\ BootInit /\ [][BootNext]_bootVars
  /\ \A n \in Node : WF_bootVars(StartStep(n)) /\ SF_bootVars(RetryJoins(n))

-----------------------------------------------------------------------------
\* The shape of the state; a node that is up is a member of its own list.
BootTypeOK ==
  /\ phase \in [Node -> {"down", "discover", "join", "running", "left"}]
  /\ found \in [Node -> BOOLEAN]
  /\ retry \in [Node -> {"none", "spawned", "loop", "done"}]
  /\ members \in [Node -> SUBSET Node]
  /\ \A n \in Node : n \in members[n] <=> Up(n)
  /\ promised \in [Node -> {"nothing", "discover", "join"}]

\* retryJoin is about to run because of the failure f that Start logged.
Promises(n, f) == promised[n] = f /\ retry[n] = "spawned"
InCompany(n) == ~Alone(n) \/ phase[n] = "left" \/ \A s \in Seeds[n] : phase[s] = "left"

\* A node whose first join failed ends up in company, unless it or all of its
\* seeds leave: "initial join ... (will retry in background)" is kept.
FailedJoinIsRetried == \A n \in Node : Promises(n, "join") ~> InCompany(n)

\* The same promise for a failed discovery: "discover seeds: %v (will retry in
\* background)".
FailedDiscoveryIsRetried == \A n \in Node : Promises(n, "discover") ~> InCompany(n)
=============================================================================
