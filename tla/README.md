# TLA+ models of hapartition

hapartition is a Redis-compatible key/value store that partitions keys over a
cluster by consistent hashing and replicates them by gossip. This directory
holds TLA+ models of its parts, TLC configurations that check them on small
instances, and TLAPS proofs of the main results about the store, a connection,
the hash ring, the cluster, the event log and the life of a process.
`PROJECT.json` lists the runs, the lines of source behind every definition, the
hazards considered and the theorems.

## The system and its models

| Part | Source | Modules |
|---|---|---|
| Versioned store with last-writer-wins merge and tombstones | `pkg/store` | `StoreOps`, `Store` |
| RESP values, reader and encoders | `pkg/api` | `RespTypes`, `Resp` |
| A connection: reading, AUTH, dispatch, replies | `internal/server` | `Session` (on `Store`, `RespTypes`; `MCSession` gives it the reader and the encoder of `Resp`) |
| Consistent hash ring, slot table, cluster reports | `internal/hashring`, `internal/server`, `internal/mgmt` | `HashRing` |
| What the cluster promises | | `ReplicatedMap` (on `StoreOps`) |
| SET and DEL, quorum writes, replication messages, anti-entropy, membership callbacks, restarts | `internal/server`, `internal/gossip` | `Replication` (on `StoreOps`), `ReplicationRefinement` (it implements `ReplicatedMap`) |
| Start-up, discovery, join retries, POST /join, leave | `internal/gossip`, `internal/mgmt` | `Bootstrap` |
| Accept loop, handlers, server shutdown | `internal/server` | `Server` |
| TLS between gossip peers | `internal/gossip` | `TLSTransport` |
| The process from start to stop, readiness | `cmd/hapartition`, `internal/mgmt`, `internal/gossip` | `Lifecycle` (on `Server`, `TLSTransport`) |
| Cluster event log and event stream | `internal/gossip`, `internal/mgmt` | `EventLog` |
| Merkle tree over a store | `pkg/merkle` | `Merkle` (on `StoreOps`) |

The parts interact as follows. A connection's goroutine reads commands and asks
the ring for the owner of a key; the owner writes to its store and asks the
gossip handler to replicate the entry to the key's replicas, which the handler
again takes from the ring. memberlist tells every node on its own who joins and
leaves, and the handler changes that node's ring. A timer sends each node's
whole store to one peer at a time.

The modules compose along these lines. `Session` puts one connection, byte by
byte, on a store that others use as well, with a write concern of 1, for which
`ReplicateWithQuorum` returns after the local write. `Replication` has the
commands with any write concern, without their bytes: it uses `StoreOps` for
every node's store and, for the ring, the summary that `HashRing` establishes
(`ReplicasByPreference`): each key has a fixed order of preference over all
nodes, and a ring's replicas are the first RF members in that order. `Lifecycle`
has the goroutines around the commands, of which it keeps only whether one is
running; a command may run for ever there.

### StoreOps and Store

A store is a record: the tree as a function from keys to entries or `Absent`,
the Lamport clock, and the `length` counter. Each method holds the mutex
throughout, so each is one operator. Strings that Go compares (origins, values)
are represented by their rank. `Del` gives each distinct key of its argument
list its own version, in order, and overwrites what is there without a
comparison. `Store` makes each method an action and remembers every entry
offered for a key.

### RespTypes, Resp and Session

`RespTypes` has the values and what a reader may return, `Resp` the reader and the
encoders. `Session` takes a reader `Read` and an encoder `Write` as constants: what
it promises about the store and AUTH depends on neither, and in the runs they are
those of `Resp`. Bytes are one-character strings, with `CR`, `LF` and `SP` for the white space.
`ReadValue(s)` is what the reader makes of the bytes `s` that have arrived: a
value and the rest, an error, or the need for more. All value types, the inline
form, nesting, negative lengths and signs of numbers are there; the limits are
constants, small in the runs. `Session` lets bytes arrive one at a time, so
every splitting of the stream is covered, and the handler may look after each.
A turn of `handleConn` (read, check, authenticate, dispatch, reply) is one step:
the store call in it is the only access to shared state. Names of commands are
one letter (`A` AUTH, `S` SET, `G` GET, `D` DEL, `J` NODE.JOIN, `C` CLUSTER, `P`
PING, `I` INFO, `L` NODE.LIST, `N` NODE.PING and NODE.LEAVE), in the upper case
to which `handleConn` converts them. The wording of an error is one letter. What
some errors repeat is kept, as the code keeps it: the name of a command or CLUSTER
subcommand that is not known (`server.go:350`, `421`), and the address of a key's
owner (`283`, `372`), which NODE.JOIN takes from a client; `moved` has the
addresses. An error is written as one line, so one that repeats a line end is read
back as something else; `RepliesReadBack` is about the replies before the first
such error. The reader also limits the length of a line, and a name can be
longer than that; the names here are not. A node that NODE.JOIN gave an empty
name owns keys that every node serves itself (`ownerNode != ""`, `server.go:370`).

### HashRing

`entries` is the sorted slice, `nodeReplicas` the map. The hash of virtual-node
labels is chosen in `Init` among all injections into the ring's places, so one
run covers every layout. Two labels with equal 64-bit hashes are not
considered. Keys are represented by their hashes. Filtering and sorting the slice
are one idea, `Arrange`: the elements of some places in the order of a rank, the
place itself or the hash. The loops of `GetReplicas` and `GetSlotRanges` are
recursive functions over the places walked, with the loop body as an operator of
its own (`Collect`, `SlotStep`). CLUSTER SLOTS, NODES and INFO and the node count of
GET /ring are operators on the ring. `NoID` is the empty node ID: NODE.JOIN accepts
it, `GetNode` returns it for an empty ring, and CLUSTER SLOTS, alone of the reports,
writes the host in its place. An address is a record of what `net.SplitHostPort` and
`strconv.Atoi` make of its text, and `Host` the fallback of the reports.

### ReplicatedMap and Replication

`ReplicatedMap` says what clients may rely on, with neither messages nor rings:
a node writes entries newer than its own, learns an entry some client wrote when
it beats its own, forgets everything at a restart, and a write is confirmed when
enough nodes have it. `Replication` implements it; the mapping, in
`ReplicationRefinement`, takes the trees
of the stores for the replicas, W for the quorum, and the successful calls of
`ReplicateWithQuorum` for the confirmations.

In `Replication` one action is the code between two points at which another
goroutine or node can observe or change what it uses. A command goes through
`check` (one `GetNode` call per key), `apply` (`SetFrom` or `Del` under the
lock), `loop` (the next entry to replicate), `send` (one `SendReliable` each)
and `wait` (the select on answers and deadline). A ring may change between any
two of these. Choices made:

* A message never handled is a lost one; messages are handled in any order; an
  answer may be repeated. `SendReliable` fails for unknown members and may
  report failure for a message that arrives. It may never return: the client side
  of the TLS handshake has no deadline (`tls_transport.go:170`), and the peer may
  accept and then stall.
* The nodes a client puts on a ring with NODE.JOIN have a name. (The keys of one
  without are served by every node; `Session` has it.)
* A handler's ring check and the store call after it are one step: a ring
  change between them has the effect of one just after. The lookup of the
  pending channel and the send into it are one step as well; an answer put
  into the channel of a request that has ended is never read.
* The entries of a batch are handled one at a time, in any order, because they
  come from a Go map and each takes the locks anew.
* `Restart` is a crash and a start in one step. Nothing is persistent.
* `acked`, `written`, `inc` and the `inc` in answers are history; no guard reads
  them.
* The test `W <= 0` of the handlers cannot hold: `main` sets W to at least 1.

### Bootstrap

`Start` up to `retryJoin`, the loop of `retryJoin`, POST /join and `Leave`, for
several nodes; memberlist's exchange of memberships is external. Seeds are other
nodes.

### Server, TLSTransport and Lifecycle

`Server` has the accept loop (accept, add to the WaitGroup, start the handler),
the handlers and the two halves of `Shutdown`. `conn.Close` and `wg.Done` of a
handler that returns are one step. `TLSTransport` has the interceptor's select,
handshake and hand-over, and `Shutdown`; the inner transport offers connections
one at a time on a channel without a buffer. The branch for a closed inner
channel is left out, since nothing closes it. `Lifecycle` is `main`: set-up of
gossip, the two listeners with the undoing when one fails, the signal, and the
stop of HTTP, gossip and Redis in this order under one context. Discovery and
join, which `setupGossip` does as well, are in `Bootstrap`. What the model shows
beside the properties:

* memberlist may deliver a message while `Create` still runs; the transport's
  list and broadcast queue are not set yet, and the process panics
  (`EarlyCallback`).
* When `Leave` returns an error memberlist is not shut down.
* An event stream that stays open uses up the context that HTTP and Redis share,
  and the Redis server then gets no time for its commands.
* Gossip is left before Redis stops. With W = 1 a write acknowledged in between
  reaches no other node, although `REVIEW.md:59` says that the order "prevents data
  loss and memberlist disconnection warnings".
* `Shutdown` of the TLS transport stops taking raw connections before it shuts
  down the inner transport, which may wait for a listener that waits for a
  connection to be taken.

### EventLog

The i-th event is the number i. `PushEvent` is two steps, because the ring's
lock is released before the subscribers' lock is taken. memberlist calls the
event delegate with its own lock held, so two `PushEvent` calls do not overlap.
`fanned` counts the events whose second step is done, and `joined` remembers it for
each stream that subscribes: a stream that comes between the two steps is to be
given the event that is already in the ring.

### Merkle

Key hashes are three-bit words that wrap as the 64-bit ones do. A digest is
represented by what was written to it, which takes SHA-256 as collision-free.
With one leaf the width of its range wraps to 0, and `Build` divides by it for the
first live item (`merkle.go:53`, `Panics`); the properties are about the trees that
are built.

## Runs

Passing runs; every property has a slip (an operator marked so, placed before
the definition it replaces) with which TLC finds it violated.

| Run | Instance | What it shows |
|---|---|---|
| `Session.cfg` | one connection, 109 scripts of two or three frames, in every splitting, with and without a password, 1 call by others; and, with no client, 2 keys, 2 origins, 4 store calls | values are read as sent, replies read back up to an error that repeats a line end, nothing is served before AUTH, GET gives the newest entry, every whole frame is answered; the newest entry offered is held, the clock dominates, `length` counts, nothing regresses |
| `HashRing.cfg` | 3 nodes of up to 2 virtual nodes, one with an empty ID, all layouts | the ring is a function of its members; replicas follow a fixed preference; keys move only to or from the node that changes; slot ranges partition the slots; SLOTS, NODES, INFO and /ring agree |
| `QuorumFaults.cfg` | 3 nodes, RF = W = 2, 2 commands at once, 3 ring changes, 1 repeated answer; and 2 nodes, 2 keys, 2 commands (SET, DEL of both keys), 1 restart, 1 ring change, 1 exchange | the cluster implements `ReplicatedMap`; a successful write is held by W nodes; with W = RF it survives the loss of the owner; without restarts version and origin identify a write |
| `AntiEntropy.cfg` | 3 nodes, RF = 3, W = 1, 1 command; one node knows one of its peers at first, 1 ring change | anti-entropy alone reaches every replica, also when the list it takes turns in grows |
| `PartitionHeals.cfg` | 2 nodes that start apart: 2 commands on a key, 2 ring changes; 1 command, 4 ring changes; 1 command on two keys (SET, DEL of both), 2 ring changes | conflicting writes and deletes converge, those of a DEL that stopped half-way included; every command ends, unless a send never returns |
| `Bootstrap.cfg` | 3 nodes | a failed first join is retried until it succeeds |
| `Lifecycle.cfg` | 2 clients, 2 gossip connections, 1 HTTP request, with and without TLS | at most one connection escapes `Shutdown`; no gossip connection is left open or handed over with a deadline; no HTTP request runs after the node has left; ready means serving; the process ends; a stalled handshake ends |
| `EventLog.cfg` | ring of 3, 5 events, 2 streams with channels of 2 | recent events are right at every position; a stream that keeps up is given exactly what was fanned out since it subscribed |
| `Merkle.cfg` | 2 keys, all placings among 8 hashes, 1 to 8 leaves | the number of leaves is right; buckets, ranges and differences agree |

Runs that end in a violation, because the code does something other than a
comment or document says:

| Run | Statement | What happens |
|---|---|---|
| `KeySlot.cfg` | `server.go:417`: the slot is computed "consistently with the hashring" | KEYSLOT uses the key's hash modulo 16384; SLOTS hashes `SLOT:n`; routing uses the key's hash on the ring |
| `JoiningReplicas.cfg` | `server.go:61`: "minimum number of replicas that must acknowledge a write" | a node checks ownership on a small ring, the ring grows, and it counts itself though it is no replica |
| `FailedDiscovery.cfg` | `gossip.go:214`: "will retry in background" | `retryJoin` returns at once when the first discovery gave no seeds |

One more disagreement, not a run of its own: with W = 1 `ReplicateWithQuorum`
returns before it sends anything (`gossip.go:291`), although `README.md:341` says
that the owner "then sends it to replicas"; replicas learn of such writes from
anti-entropy, as `AntiEntropy.cfg` checks.

### Bounds

The bounds are in the configurations (`Budget`, `MaxCalls`, `MaxOthers`,
`MaxEvents`, the scripts) and guard only the environment's steps, never a step of
the code once begun. Two commands are enough for each race of the quorum code: a
command against another on the same key, against a late answer to an earlier
one, and against deletes. Three nodes with RF = 2 have a node that is no
replica; three ring changes let a node leave and come back while another view
differs. In `Session.cfg` each kind of frame, valid, refused or broken, comes
first, after an AUTH and after a SET, and is followed by a GET that shows whether
the reader kept its place; the limits of the reader are set so that the frames
lie on both sides of them. In `Lifecycle.cfg` two clients let one connection be
late while another is open, and two gossip connections let one wait behind a
stalled handshake. Runs stop when the budget is used up, so deadlock is not an
error in them; in `HashRing.cfg` it is checked. `length` and versions are
unbounded in the model; the code's 64-bit clock is not expected to wrap.

### Fairness

* Connection goroutines are scheduled and the two-second deadline of a quorum
  write fires: weak fairness of each connection's steps, in `Replication` and in
  `Session`. A step that waits for `SendReliable` has no fairness, so
  `EveryCommandEnds` has the command that stays in a send as its exception.
* The anti-entropy timer keeps firing, its own sends return, and between two nodes
  that know each other neither every send nor every delivery fails: strong
  fairness of the exchange with each peer whose turn keeps coming, and of the
  delivery of each key's entry, since the handler of a batch goes on to its last
  entry. Convergence is stated only for a membership that becomes complete and
  stays so.
* In `Bootstrap`, `Start` and `retryJoin` are scheduled, and not every join to a
  running seed fails.
* In `EventLog`, the stream handlers and the second half of `PushEvent` run.
* In `Lifecycle`, goroutines that can run are run, the context's timer and the
  handshake's deadline fire. Commands may never end, and clients, peers and
  signals may do nothing for ever: it is the context that ends `Shutdown`. `ProcessEnds` excepts the wait of the
  inner transport for its listener described above (`StuckOnOffer`); whether it can
  last depends on memberlist.

## Proofs

All results hold for every value of the constants that meets the named
assumptions of the modules: keys and nodes are finite sets, ranks are natural
numbers, `Absent` is no entry, 1 <= W <= RF, preferences are total, and so on.

**The store and a connection** (`StoreOpsProofs`, `SessionProofs`).

* `NewestIsUnique`: `newer` is a strict total order on entries (lemmas
  `NewerAsymmetric`, `NewerTransitive`, `NewerTotal`), so a set of entries has at
  most one newest. Two stores offered the same entries therefore agree.
* `StoreInvariant`: `LengthCountsLive`, `ClockDominates` and `HoldsNewestOffered`,
  with the type invariant, for the store on its own.
* `StoreNeverRegresses`: the action property `NeverRegresses`.
* `SessionKeepsStore` and `SessionNeverRegresses`: the same for the store behind a
  connection, with any reader and any encoder, whatever others do meanwhile; and
  one reply has been written for each value read.
* `SessionNothingBeforeAuth`: `NothingBeforeAuth`.
* `SessionGetAnswersNewest`: `GetAnswersNewest`.

`HoldsNewestOffered` alone is not inductive: `Del` overwrites without comparing,
so its tombstone is the newest only because the clock has passed every version
in the tree. The inductive invariant `IInv` adds `GoodStore` (types, `CountsLive`,
`Dominates`) to it. Each operation is first shown to keep a store good
(`SetFromGood`, `SetWithVersionGood`, `DelGood`), on the way of `LiveKeysStep`,
which follows the cardinality of the live keys through the change of one key.
`NewestJoin` then carries the newest entry of a set over to the set with one more
entry, and `StepJoins` shows that every step of the store is such a join at the
keys it touches and leaves the others alone. A turn of the connection is a step
of the store or leaves it as it is (`SessionStoreStep`). `SessionInv` adds to `IInv`
what the connection knows: it is authenticated only if there is no token or the
right AUTH is among the values read, and what it has read is as long as what it
has answered. That a GET is answered from the newest entry then is
`HoldsNewestOffered` at the moment of the answer.

**The hash ring** (`HashRingProofs`), for any nodes, weights, number of slots and
hash function that tells labels apart.

* `RingFollowsMembers`: `RingIsItsMembers`.
* `RingMovesOneNode`: the action property `MovesOnlyTouchOneNode`.
* `RingReplicas`: `ReplicasByPreference`, the fact about the ring on which
  `Replication` is built.
* `RingSlotRanges`: `SlotRangesPartition`.
* `RingReportsAgree`: `ReportsAgree`.

The invariant `RingInv` says that the entries are sorted and that the virtual nodes
of the members, and no others, are among them. `ArrangePlaces` is the lemma under
it: the number of elements of lower rank places each element, places differ and
none is left out, so filtering and sorting keep what they should and leave it
sorted. A lookup then depends on the set of entries only (`First`), and a call
leaves the entries of all nodes but one as they are (`OthersStay`). That the
recursion of a loop defines a function is itself shown by induction over the
places (`SlotLoopIs`, `CollectLoopIs`), the induction being about membership in a
set of numbers (`SetInduction`); the loop invariants are `OpenAt` for the slot table
and `CollectedTo` for the replicas. For `ReplicasByPreference`, `Meets` is the order
in which the walk from a key's hash meets the nodes, defined on labels alone and
so independent of who is a member. `Chosen` says of a sequence that it lists nodes
in that order, up to the count asked for. `GetReplicas` returns such a sequence
(`GetReplicasChosen`), the head of the members' part of the preference is one
(`PresentChosen`), and there is only one (`ChosenIsUnique`). For `ReportsAgree`, each
range of the table carries the first address of its node (`RangesAre`), so that the
line of a node and its ranges name the same host and port; and the nodes of the
table are the owners of the slots (`TableOwners`), because the ranges leave no slot
out (`ChainCovers`), so that GET /ring counts besides the lines just the members
to which no slot is routed.

**The replicated map** (`ReplicatedMapProofs`): `ConfirmedStaysHeld`,
`NothingInvented` and `ReplicasNeverRegress`, from an invariant that adds to these
that no confirmation names a life of a node that has not begun.

**The cluster** (`ReplicationInvariant`, `QuorumProofs`, `ReplicationProofs`, in
this order).

* `QuorumWritesAreHeld`: `AckedWritesAreHeld`, for any number of nodes, commands,
  ring changes, restarts, lost, late and repeated messages.
* `WritesOutliveOwners`: `NextOwnerHoldsAckedWrite`, what W = RF buys when owners
  are lost.
* `VersionsNameWrites`: `StampsAreUnique`.
* `ReplicationTypes`: `TypeOK`, in it that no channel of answers overflows.
* `ClusterImplementsMap`: `ImplementsReplicatedMap`. With it the theorems of
  `ReplicatedMapProofs` hold for the cluster; in particular no node goes back to an
  older entry between restarts.

`AckedWritesAreHeld` is about writes that have succeeded; what makes it hold is
what is under way. The invariant `IInv` of `ReplicationInvariant` says that the
items a command has still to replicate are secured on the command's own node;
that an answer of success, in the network or in a channel, is from a node that
has the item of the request it answers or has restarted since; that a request
number belongs to one item (`SameRequest`), so that a late answer cannot be
counted for another; that the answers counted come from different replicas in the
view with which the command began; that the answers queued fit their channel; and
that everything in stores and messages was written by a client. All of it is
stable when stores only move to newer entries (`Onward`), so one lemma per action
remains: that its step moves onward and that what it adds is in order. For the
refinement, each action then is a write (`Apply`), an offer of a written item to
one store (`HandleRequest`, `HandleBatchEntry`), a restart, a confirmation, or
changes nothing the map shows.

Memberships, positions and the bound on the environment are kept apart, in
`ClusterOK`: no command depends on them. It is needed where `exchangeState` picks a
member by its position: `EveryTurnHasPeer` shows that each position below the
number of peers names one, because places in the order of names are distinct and
as many as the peers.

`NextOwnerHoldsAckedWrite` is a count. A quorum of W = RF nodes among the replicas
of a view, which are RF at most (`AtMostCount`: the number of nodes preferred to a
replica tells replicas apart), is all of them; and a view that has lost nodes
routes the key to one of them, because the owner of a key in a smaller view is
preferred to each replica left in it (`NextOwnerIsReplica`).

`StampsAreUnique` needs that no clock is behind a version that its node has
issued (`StampInv`). An `Apply` issues versions above the clock, the tombstones of
one DEL different ones (`TombstonesDiffer` of `StoreOpsProofs`), and only a
restart sets a clock back (`ClockOnward`).

**The event log** (`NodeProofs`).

* `RecentIsAlwaysNewest`: `RecentIsNewest` for every capacity and number of
  events. The invariant places the event pushed j events before the latest one j
  places behind the last write, around the end of the buffer.
* `StreamsInOrder` and `StreamsComplete`: `StreamInOrder` and `StreamIsComplete`,
  for any number of streams and any capacity of their channels. The invariant
  `SInv` is about what a stream was given, sent or still in its channel: it
  increases, does not go beyond the events already handed to the subscribers, and
  for a stream that was never slow it is all of them from the first one on that
  had not been handed out when it subscribed.
* `EventLogTypes`: `LogTypeOK`.

**The process** (`NodeProofs`), for any number of clients, gossip connections
and HTTP requests.

* `ShutdownLeavesOne`: `AtMostOneLateConnection`. `ServerInv` says that one
  connection at most is between `Accept` and `wg.Add`, that a listener once closed
  stays so, and that after the WaitGroup has been at zero with the listener closed
  no other connection is open; the WaitGroup is the number of handlers.
* `InterceptorLeaksNothing`: `NoStreamLeaks`. `TransportInv` says that the
  connection in the interceptor's hands is the one its place in the loop says,
  and which connections can have a deadline.
* `LeaveAfterRequests`: `NoRequestAfterLeave`; and `ReadyWhileServing`, the action
  property `ReadyMeansServing`. They follow from the order in which `main` starts
  and stops its parts (`HTTPInv`, `RedisInv`).
* `LifecycleTypes`: `TypeOK`.
* `BootstrapTypes`: `BootTypeOK`, for any nodes and seeds; in it that a node is in its
  own list of members exactly while it is up.

Only model-checked:

* liveness under fairness, which TLAPS does not reach: `EveryFrameAnswered`,
  `AntiEntropyConverges`, `EveryCommandEnds`, `FailedJoinIsRetried`,
  `EventReachesStream`, `ProcessEnds`, `TakenStreamSettles`;
* `FramesSurviveSplits` and `RepliesReadBack`, which are about the recursive reader
  of `Resp` on every sequence of bytes: recursion over data is out of the prover's
  reach. So is `SessionTypeOK` in part, since that the bytes left after a frame are
  bytes again is a fact about that reader; its other part is in
  `SessionKeepsStore`;
* `Merkle`: the number of leaves is computed with bitwise operators, of which the
  prover has no theory.

## Not modelled

* Byte formats other than RESP (protobuf, JSON) and the wording of INFO, CLUSTER
  NODES, errors and the dashboard; GET /events with its `n` is `Recent(n)`, GET
  /info only renders.
* TLS itself, gossip encryption and the dialling side of the TLS transport: a
  sequence of library calls without shared state, of which `Replication` has that it
  may fail or never return.
* The memberlist protocol, its broadcast queue and meta data. How it treats a
  seed name that resolves to the node itself, which may end `retryJoin` while the
  node is still alone (`gossip.go:583`), is not in the source.
* Flag parsing, key files, generated protobuf code.
* The Redis addresses in `Replication`: `handleUpdate` leaves the old one on the
  ring (`gossip.go:272`).
* Memory: tombstones are never removed (`store.go:148`).
