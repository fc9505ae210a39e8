----------------------------- MODULE Replication -----------------------------
(***************************************************************************)
(* Client writes in a cluster: the SET and DEL handlers of                 *)
(* internal/server/server.go, the quorum writes, replication handlers and  *)
(* anti-entropy of internal/gossip/gossip.go, each node with its own store *)
(* and its own view of the ring, over a network that delays, loses,        *)
(* reorders and repeats messages, with nodes that restart empty.           *)
(*                                                                         *)
(* One action is the code between two points where another goroutine or    *)
(* node can observe or change what it uses.  Replies are not state: a      *)
(* reply other than success is the return of the connection to idle.       *)
(***************************************************************************)
EXTENDS StoreOps

CONSTANTS Conn,      \* client connections, each serving one command at a time
          Rank,      \* Rank[k][n]: place of n in the ring's order of preference for k
          Setups     \* the clusters to look at, each with
                     \*   nodes   its nodes
                     \*   busy    how many commands may be in progress at once
                     \*   keys, dels  the keys that SET and the lists that DEL may name
                     \*   rf, w   its ReplicaRF and writeConcern
                     \*   view    the members each node knows at the start
                     \*   budget  bounds on the events of BudgetItem; negative: no bound

BudgetItem == {"writes", "churn", "restarts", "syncs", "repeats"}

ASSUME RankAssumption ==
  /\ Rank \in [Key -> [Origin -> Nat]]
  /\ \A k \in Key : \A m, n \in Origin : Rank[k][m] = Rank[k][n] => m = n
ASSUME OriginAssumption == IsFiniteSet(Origin)
ASSUME SetupsAssumption ==
  \A s \in Setups :
    /\ s.nodes \subseteq Origin /\ s.busy \in Nat
    /\ s.keys \subseteq Key /\ s.dels \subseteq Seq(Key)
    /\ s.rf \in Nat \ {0} /\ s.w \in 1..s.rf
    /\ s.view \in [s.nodes -> SUBSET s.nodes] /\ \A n \in s.nodes : n \in s.view[n]
    /\ s.budget \in [BudgetItem -> Int]

VARIABLES
  setup,    \* the one of Setups
  store,    \* each node's Store
  ring,     \* the nodes on each node's hash ring
  members,  \* transport.Members() of each node
  pos,      \* antiEntropyPos of each node
  conn,     \* the command each connection goroutine is executing
  net,      \* messages sent and not yet handled
  nextID,   \* the request IDs (UUIDs) below this one have been used
  inc,      \* history: how often each node has restarted
  acked,    \* history: the quorum writes that returned nil
  written,  \* history: the items that commands wrote
  budget    \* what is left of setup.budget

vars == <<setup, store, ring, members, pos, conn, net, nextID, inc, acked, written, budget>>

Node == setup.nodes
RF == setup.rf
W == setup.w

-----------------------------------------------------------------------------
\* The ring, as HashRing!ReplicasByPreference describes it.
Nobody == 0 - 1

GetReplicas(view, k, count) ==
  {n \in view : Cardinality({m \in view : Rank[k][m] < Rank[k][n]}) < count}

GetNode(view, k) ==
  IF view = {} THEN Nobody
  ELSE CHOOSE n \in view : \A m \in view : Rank[k][n] <= Rank[k][m]

IsReplica(n, k) == n \in GetReplicas(ring[n], k, RF)

Item == [key : Key, entry : Entry]

\* Slip: a store is sent without its deletion marks.
ItemsUnmarked(tree) ==
  {[key |-> k, entry |-> [tree[k] EXCEPT !.deleted = FALSE]] :
     k \in {x \in Key : tree[x] # Absent}}

\* serializeStore: every entry, tombstones included.
Items(tree) == {[key |-> k, entry |-> tree[k]] : k \in {x \in Key : tree[x] # Absent}}

Request(to, from, id, item) ==
  [type |-> "ReplicateReq", to |-> to, from |-> from, id |-> id, item |-> item]
\* inc is history: which life of the node answered.
Response(to, from, id, ok) ==
  [type |-> "ReplicateResp", to |-> to, from |-> from, id |-> id, ok |-> ok,
   inc |-> inc[from]]
Batch(to, from, items) ==
  [type |-> "EntryBatch", to |-> to, from |-> from, items |-> items]

Idle == [pc |-> "idle"]
Pending(c) == conn[c].pc \in {"send", "wait"}

Spend(b) ==
  /\ budget[b] # 0
  /\ budget' = [budget EXCEPT ![b] = IF @ < 0 THEN @ ELSE @ - 1]

Init ==
  /\ setup \in Setups
  /\ store = [n \in Node |-> New]
  /\ ring = setup.view
  /\ members = setup.view
  /\ pos = [n \in Node |-> 0]
  /\ conn = [c \in Conn |-> Idle]
  /\ net = {}
  /\ nextID = 0
  /\ inc = [n \in Node |-> 0]
  /\ acked = {} /\ written = {}
  /\ budget = setup.budget

cluster == <<ring, members, pos, inc>>

-----------------------------------------------------------------------------
\* The SET and DEL handlers.  cmd.keys is the list of keys the ring is asked
\* about, one GetNode call each; the DEL of one key and the SET take one.
Receive(c, n, cmd) ==
  /\ conn[c] = Idle
  /\ Cardinality({d \in Conn : conn[d] # Idle}) < setup.busy
  /\ Spend("writes")
  /\ conn' = [conn EXCEPT ![c] = [pc |-> "check", node |-> n, cmd |-> cmd,
                                  left |-> cmd.keys]]
  /\ UNCHANGED <<store, net, nextID, acked, cluster>>

ReceiveSet(c, n, k, v) == Receive(c, n, [op |-> "SET", keys |-> <<k>>, value |-> v])
ReceiveDel(c, n, ks) == Receive(c, n, [op |-> "DEL", keys |-> ks])

\* A key whose owner is another node ends the command with MOVED.  An empty
\* ring lets it through.
CheckOwner(c) ==
  LET p == conn[c]
      owner == GetNode(ring[p.node], Head(p.left))
  IN  /\ p.pc = "check"
      /\ conn' = [conn EXCEPT ![c] =
                    IF owner \notin {Nobody, p.node} THEN Idle
                    ELSE IF Len(p.left) > 1 THEN [p EXCEPT !.left = Tail(@)]
                    ELSE [pc |-> "apply", node |-> p.node, cmd |-> p.cmd]]
      /\ UNCHANGED <<store, net, nextID, acked, budget, cluster>>

\* store.SetFrom or store.Del, under the store's lock.
Apply(c) ==
  LET p == conn[c]
      n == p.node
      st == store[n]
      ks == p.cmd.keys
      isSet == p.cmd.op = "SET"
      todo == IF isSet
              THEN {[key |-> ks[1], entry |-> SetFromEntry(st, p.cmd.value, n)]}
              ELSE {[key |-> k, entry |-> Tombstone(st, n, ks, k)] : k \in Named(ks)}
  IN  /\ p.pc = "apply"
      /\ store' = [store EXCEPT ![n] = IF isSet THEN SetFrom(st, ks[1], p.cmd.value, n)
                                       ELSE Del(st, n, ks)]
      /\ conn' = [conn EXCEPT ![c] = [pc |-> "loop", node |-> n, todo |-> todo]]
      /\ UNCHANGED <<net, nextID, acked, budget, cluster>>

\* What is left of the command when one of its items is done.
Rest(n, todo, item) ==
  IF todo = {item} THEN Idle ELSE [pc |-> "loop", node |-> n, todo |-> todo \ {item}]

\* ReplicateWithQuorum returns nil; holders are the nodes it counted.
Succeed(c, item, view, holders) ==
  LET p == conn[c]
  IN  /\ conn' = [conn EXCEPT ![c] = Rest(p.node, p.todo, item)]
      /\ acked' = acked \cup
           {[item |-> item, node |-> p.node, view |-> view,
             holders |-> holders \cup {[node |-> p.node, inc |-> inc[p.node]]}]}

\* ReplicateWithQuorum up to its send loop.  The tombstones of a DEL come in
\* the order of a Go map, which is any order; an error abandons the others.
BeginReplicate(c, item) ==
  LET p == conn[c]
      n == p.node
      remote == GetReplicas(ring[n], item.key, RF) \ {n}
  IN  /\ p.pc = "loop"
      /\ store' = [store EXCEPT ![n] = SetWithVersion(@, item.key, item.entry)]
      /\ \/ /\ W <= 1
            /\ Succeed(c, item, ring[n], {})
            /\ UNCHANGED nextID
         \/ /\ W > 1 /\ W > Cardinality(remote) + 1
            /\ conn' = [conn EXCEPT ![c] = Idle]
            /\ UNCHANGED <<nextID, acked>>
         \/ /\ W > 1 /\ W <= Cardinality(remote) + 1
            /\ conn' = [conn EXCEPT ![c] =
                 [pc |-> "send", node |-> n, todo |-> p.todo, item |-> item,
                  id |-> nextID, view |-> ring[n], remote |-> remote, left |-> remote,
                  expected |-> {}, ch |-> <<>>, got |-> {}]]
            /\ nextID' = nextID + 1
            /\ UNCHANGED acked
      /\ UNCHANGED <<net, budget, cluster>>

\* One SendReliable of the send loop, in ring order.  It fails for a node that
\* memberlist does not know; to a known one it may succeed, fail, or report a
\* failure for a message that arrives.  It may also never return: with TLS it
\* dials and waits for the peer's half of the handshake without a deadline.
Send(c, delivered, reported) ==
  LET p == conn[c]
      n == p.node
      r == CHOOSE x \in p.left : \A y \in p.left : Rank[p.item.key][x] <= Rank[p.item.key][y]
      expected == IF reported THEN p.expected \cup {r} ELSE p.expected
  IN  /\ p.pc = "send"
      /\ reported => delivered
      /\ delivered => r \in members[n]
      /\ net' = IF delivered THEN net \cup {Request(r, n, p.id, p.item)} ELSE net
      /\ conn' = [conn EXCEPT ![c] =
           IF p.left # {r} THEN [p EXCEPT !.left = @ \ {r}, !.expected = expected]
           ELSE IF Cardinality(expected) + 1 < W THEN Idle
           ELSE [p EXCEPT !.pc = "wait", !.left = {}, !.expected = expected]]
      /\ UNCHANGED <<store, nextID, acked, budget, cluster>>

\* Slip: a refusal counts like an acknowledgement.
TakeAckCountsRefusals(c) ==
  LET p == conn[c]
      ack == Head(p.ch)
      counts == ack.node \in p.expected /\ \A g \in p.got : g.node # ack.node
      got == IF counts THEN p.got \cup {[node |-> ack.node, inc |-> ack.inc]} ELSE p.got
  IN  /\ p.pc = "wait" /\ p.ch # <<>>
      /\ IF Cardinality(got) + 1 >= W
         THEN Succeed(c, p.item, p.view, got)
         ELSE /\ conn' = [conn EXCEPT ![c] = [p EXCEPT !.ch = Tail(@), !.got = got]]
              /\ UNCHANGED acked
      /\ UNCHANGED <<store, net, nextID, budget, cluster>>

\* One turn of the wait loop that takes an ackResult from the channel.
TakeAck(c) ==
  LET p == conn[c]
      ack == Head(p.ch)
      counts == ack.node \in p.expected /\ ack.ok /\ \A g \in p.got : g.node # ack.node
      got == IF counts THEN p.got \cup {[node |-> ack.node, inc |-> ack.inc]} ELSE p.got
  IN  /\ p.pc = "wait" /\ p.ch # <<>>
      /\ IF Cardinality(got) + 1 >= W
         THEN Succeed(c, p.item, p.view, got)
         ELSE /\ conn' = [conn EXCEPT ![c] = [p EXCEPT !.ch = Tail(@), !.got = got]]
              /\ UNCHANGED acked
      /\ UNCHANGED <<store, net, nextID, budget, cluster>>

\* Slip: the deadline is only looked at when an ackResult arrives.
TimeoutOnAck(c) ==
  /\ conn[c].pc = "wait" /\ conn[c].ch # <<>>
  /\ conn' = [conn EXCEPT ![c] = Idle]
  /\ UNCHANGED <<store, net, nextID, acked, budget, cluster>>

\* The deadline fires; select may prefer it to an ackResult that is ready.
Timeout(c) ==
  /\ conn[c].pc = "wait"
  /\ conn' = [conn EXCEPT ![c] = Idle]
  /\ UNCHANGED <<store, net, nextID, acked, budget, cluster>>

-----------------------------------------------------------------------------
\* Message handlers.  A message that is never handled is a lost one.

\* handleReplicateRequest.  The answer does not depend on whether the store
\* took the entry, and is lost when the sender is not a known member.
HandleRequest(m) ==
  LET r == m.to
      ok == IsReplica(r, m.item.key)
  IN  /\ m.type = "ReplicateReq"
      /\ store' = IF ok THEN [store EXCEPT ![r] = SetWithVersion(@, m.item.key, m.item.entry)]
                  ELSE store
      /\ net' = (net \ {m}) \cup
                  (IF m.from \in members[r] THEN {Response(m.from, r, m.id, ok)} ELSE {})
      /\ UNCHANGED <<conn, nextID, acked, budget, cluster>>

\* Slip: an answer goes to every pending request of the node.
HandleResponseAnyRequest(m) ==
  LET waiting == {c \in Conn : Pending(c) /\ conn[c].node = m.to}
  IN  /\ m.type = "ReplicateResp"
      /\ conn' = [c \in Conn |->
           IF c \in waiting /\ Len(conn[c].ch) < Cardinality(conn[c].remote)
           THEN [conn[c] EXCEPT !.ch = Append(@, [node |-> m.from, ok |-> m.ok, inc |-> m.inc])]
           ELSE conn[c]]
      /\ net' = net \ {m}
      /\ UNCHANGED <<store, nextID, acked, budget, cluster>>

\* Slip: an answer is queued without regard to the channel's capacity.
HandleResponseUnbounded(m) ==
  LET waiting == {c \in Conn : Pending(c) /\ conn[c].node = m.to /\ conn[c].id = m.id}
  IN  /\ m.type = "ReplicateResp"
      /\ conn' = [c \in Conn |->
           IF c \in waiting
           THEN [conn[c] EXCEPT !.ch = Append(@, [node |-> m.from, ok |-> m.ok, inc |-> m.inc])]
           ELSE conn[c]]
      /\ \/ net' = net \ {m} /\ UNCHANGED budget
         \/ Spend("repeats") /\ UNCHANGED net
      /\ UNCHANGED <<store, nextID, acked, cluster>>

\* handleReplicateResponse: an answer nobody waits for, or that finds the
\* channel full, is dropped.
HandleResponse(m) ==
  LET waiting == {c \in Conn : Pending(c) /\ conn[c].node = m.to /\ conn[c].id = m.id}
  IN  /\ m.type = "ReplicateResp"
      /\ conn' = [c \in Conn |->
           IF c \in waiting /\ Len(conn[c].ch) < Cardinality(conn[c].remote)
           THEN [conn[c] EXCEPT !.ch = Append(@, [node |-> m.from, ok |-> m.ok, inc |-> m.inc])]
           ELSE conn[c]]
      /\ \/ net' = net \ {m} /\ UNCHANGED budget
         \/ Spend("repeats") /\ UNCHANGED net
      /\ UNCHANGED <<store, nextID, acked, cluster>>

\* Slip: tombstones in a batch are skipped.
HandleBatchEntryNoTombstones(m, item) ==
  /\ store' = IF IsReplica(m.to, item.key) /\ ~item.entry.deleted
              THEN [store EXCEPT ![m.to] = SetWithVersion(@, item.key, item.entry)]
              ELSE store
  /\ net' = (net \ {m}) \cup
              (IF m.items = {item} THEN {} ELSE {[m EXCEPT !.items = @ \ {item}]})
  /\ UNCHANGED <<conn, nextID, acked, budget, cluster>>

\* HandleReplication, one entry of the batch: each is checked against the ring
\* and applied on its own, and the entries come in the order of a Go map.
HandleBatchEntry(m, item) ==
  /\ store' = IF IsReplica(m.to, item.key)
              THEN [store EXCEPT ![m.to] = SetWithVersion(@, item.key, item.entry)]
              ELSE store
  /\ net' = (net \ {m}) \cup
              (IF m.items = {item} THEN {} ELSE {[m EXCEPT !.items = @ \ {item}]})
  /\ UNCHANGED <<conn, nextID, acked, budget, cluster>>

\* exchangeState: the whole store to the next peer in name order.  The turn
\* passes on whether or not the send succeeds.
Peer(n, i) ==
  CHOOSE p \in members[n] \ {n} : Cardinality({q \in members[n] \ {n} : q < p}) = i

\* Slip: the turn never passes on.
ExchangeStateSamePeer(n, sent) ==
  LET peers == members[n] \ {n}
      items == Items(store[n].tree)
  IN  /\ items # {} /\ peers # {}
      /\ Spend("syncs")
      /\ net' = IF sent THEN net \cup {Batch(Peer(n, pos[n] % Cardinality(peers)), n, items)}
                ELSE net
      /\ UNCHANGED <<store, conn, nextID, acked, cluster>>

ExchangeState(n, sent) ==
  LET peers == members[n] \ {n}
      index == pos[n] % Cardinality(peers)
      items == Items(store[n].tree)
  IN  /\ items # {} /\ peers # {}
      /\ Spend("syncs")
      /\ pos' = [pos EXCEPT ![n] = (index + 1) % Cardinality(peers)]
      /\ net' = IF sent THEN net \cup {Batch(Peer(n, index), n, items)} ELSE net
      /\ UNCHANGED <<store, ring, members, conn, nextID, inc, acked>>

\* handleLocalState, and memberlist carrying its result to the other side of a
\* push/pull exchange, where handleMergeRemoteState receives it as a batch.
PushState(n, p) ==
  /\ p \in members[n] \ {n}
  /\ Items(store[n].tree) # {}
  /\ Spend("syncs")
  /\ net' = net \cup {Batch(p, n, Items(store[n].tree))}
  /\ UNCHANGED <<store, conn, nextID, acked, cluster>>

-----------------------------------------------------------------------------
\* Membership callbacks, at one node n about another node m.
NotifyJoin(n, m) ==
  /\ m \notin members[n]
  /\ Spend("churn")
  /\ members' = [members EXCEPT ![n] = @ \cup {m}]
  /\ ring' = [ring EXCEPT ![n] = @ \cup {m}]
  /\ UNCHANGED <<store, pos, conn, net, nextID, inc, acked>>

NotifyLeave(n, m) ==
  /\ m \in members[n] \ {n}
  /\ Spend("churn")
  /\ members' = [members EXCEPT ![n] = @ \ {m}]
  /\ ring' = [ring EXCEPT ![n] = @ \ {m}]
  /\ UNCHANGED <<store, pos, conn, net, nextID, inc, acked>>

\* NODE.JOIN: a client puts a node on the ring, and not into the membership.
NodeJoin(n, m) ==
  /\ m \notin ring[n]
  /\ Spend("churn")
  /\ ring' = [ring EXCEPT ![n] = @ \cup {m}]
  /\ UNCHANGED <<store, members, pos, conn, net, nextID, inc, acked>>

\* The process ends and starts again: nothing of the store, the clock, the
\* ring or the commands in progress survives.
Restart(n) ==
  /\ Spend("restarts")
  /\ store' = [store EXCEPT ![n] = New]
  /\ ring' = [ring EXCEPT ![n] = {n}]
  /\ members' = [members EXCEPT ![n] = {n}]
  /\ pos' = [pos EXCEPT ![n] = 0]
  /\ conn' = [c \in Conn |-> IF conn[c] # Idle /\ conn[c].node = n THEN Idle ELSE conn[c]]
  /\ inc' = [inc EXCEPT ![n] = @ + 1]
  /\ UNCHANGED <<net, nextID, acked>>

Command(c) ==
  \/ CheckOwner(c)
  \/ Apply(c)
  \/ conn[c].pc = "loop" /\ \E item \in conn[c].todo : BeginReplicate(c, item)
  \/ \E delivered, reported \in BOOLEAN : Send(c, delivered, reported)
  \/ TakeAck(c)
  \/ Timeout(c)

Handle(m) ==
  \/ HandleRequest(m)
  \/ HandleResponse(m)
  \/ m.type = "EntryBatch" /\ \E item \in m.items : HandleBatchEntry(m, item)

Next ==
  \/ \E c \in Conn, n \in Node, k \in setup.keys, v \in Value : ReceiveSet(c, n, k, v)
  \/ \E c \in Conn, n \in Node, ks \in setup.dels : ReceiveDel(c, n, ks)
  \/ \E c \in Conn : Command(c)
  \/ \E m \in net : Handle(m)
  \/ \E n \in Node, sent \in BOOLEAN : ExchangeState(n, sent)
  \/ \E n, p \in Node : PushState(n, p) \/ NotifyJoin(n, p) \/ NotifyLeave(n, p) \/ NodeJoin(n, p)
  \/ \E n \in Node : Restart(n)

\* What goes with every step: the items of an Apply join the history.
Recorded ==
  /\ written' = written \cup UNION {conn'[c].todo :
                    c \in {x \in Conn : conn[x].pc = "apply" /\ conn'[x].pc = "loop"}}
  /\ UNCHANGED setup

Spec == Init /\ [][Next /\ Recorded]_vars

\* Connection goroutines run and the deadline of a quorum write fires.  Nothing
\* makes a SendReliable return.
CommandFairness == \A c \in Conn : WF_vars(conn[c].pc # "send" /\ Command(c) /\ Recorded)

\* The anti-entropy timer of every node keeps firing and its sends return, between
\* two nodes that know each other neither every send nor every delivery fails, and
\* HandleReplication goes on to the last entry of a batch.
ExchangeWith(n, p) ==
  /\ n \in Node /\ members[n] # {n}
  /\ p = Peer(n, pos[n] % Cardinality(members[n] \ {n}))
  /\ ExchangeState(n, TRUE) /\ Recorded
DeliverEntry(n, p, k) ==
  \E m \in net : /\ m.type = "EntryBatch" /\ m.from = n /\ m.to = p
                 /\ \E item \in m.items : item.key = k /\ HandleBatchEntry(m, item) /\ Recorded
SyncFairness ==
  \A n, p \in Origin : n # p =>
    SF_vars(ExchangeWith(n, p)) /\ \A k \in Key : SF_vars(DeliverEntry(n, p, k))

SyncSpec == Spec /\ CommandFairness /\ SyncFairness

-----------------------------------------------------------------------------
Life == [node : Node, inc : Nat]
ClientCommand == [op : {"SET"}, keys : Seq(Key), value : Value] \cup [op : {"DEL"}, keys : Seq(Key)]
Ack == [node : Node, ok : BOOLEAN, inc : Nat]
Message ==
  [type : {"ReplicateReq"}, to : Node, from : Node, id : Nat, item : Item]
  \cup [type : {"ReplicateResp"}, to : Node, from : Node, id : Nat, ok : BOOLEAN, inc : Nat]
  \cup [type : {"EntryBatch"}, to : Node, from : Node, items : SUBSET Item]
Checking == [pc : {"check"}, node : Node, cmd : ClientCommand, left : Seq(Key)]
Applying == [pc : {"apply"}, node : Node, cmd : ClientCommand]
Looping == [pc : {"loop"}, node : Node, todo : SUBSET Item]
Replicating ==
  [pc : {"send", "wait"}, node : Node, todo : SUBSET Item, item : Item, id : Nat,
   view : SUBSET Node, remote : SUBSET Node, left : SUBSET Node,
   expected : SUBSET Node, ch : Seq(Ack), got : SUBSET Life]
Success == [item : Item, node : Node, view : SUBSET Node, holders : SUBSET Life]

\* The shape of the state.  The channel of a pending request never holds more
\* than its capacity, also when answers come twice.
TypeOK ==
  /\ store \in [Node -> StoreState]
  /\ ring \in [Node -> SUBSET Node] /\ members \in [Node -> SUBSET Node]
  /\ pos \in [Node -> Nat]
  /\ conn \in [Conn -> {Idle} \cup Checking \cup Applying \cup Looping \cup Replicating]
  /\ \A c \in Conn : Pending(c) => Len(conn[c].ch) <= Cardinality(conn[c].remote)
  /\ net \subseteq Message
  /\ nextID \in Nat /\ inc \in [Node -> Nat]
  /\ acked \subseteq Success
  /\ written \subseteq Item
  /\ budget \in [BudgetItem -> Int]

Holds(life, item) ==
  inc[life.node] = life.inc => AtLeast(store[life.node].tree[item.key], item.entry)

\* A write that ReplicateWithQuorum reported as successful was counted on W
\* different nodes, and each of them, until it restarts, holds the entry or a
\* newer one: answers that are late, repeated or meant for an earlier request,
\* rejections and failed sends never make up a quorum.
AckedWritesAreHeld ==
  \A a \in acked :
    /\ Cardinality({l.node : l \in a.holders}) >= W
    /\ \A l \in a.holders : Holds(l, a.item)

\* The items on the nodes, in the commands and in the messages.
AllItems ==
  (UNION {Items(store[n].tree) : n \in Node})
  \cup (UNION {conn[c].todo : c \in {x \in Conn : conn[x].pc \in {"loop", "send", "wait"}}})
  \cup {m.item : m \in {x \in net : x.type = "ReplicateReq"}}
  \cup (UNION {m.items : m \in {x \in net : x.type = "EntryBatch"}})

\* Without restarts a version and an origin name one write: wherever two entries
\* with the same version and origin turn up, they are the same entry for the
\* same key, so the later fields of newer never decide between two writes.
StampsAreUnique ==
  (\A n \in Node : inc[n] = 0) =>
    \A i, j \in AllItems :
      i.entry.version = j.entry.version /\ i.entry.origin = j.entry.origin => i = j

\* With W = RF, a write that one of the key's replicas made successfully
\* outlives its owner: in every view that has lost nodes since, and gained none,
\* the node the key is routed to next holds the entry or a newer one, as long
\* as one of the replicas is in the view and the node has not restarted.
NextOwnerHoldsAckedWrite ==
  \A a \in acked, n \in Node :
    LET k == a.item.key
        replicas == GetReplicas(a.view, k, RF)
        owner == GetNode(ring[n], k)
    IN  /\ W = RF /\ a.node \in replicas
        /\ ring[n] \subseteq a.view /\ ring[n] \cap replicas # {}
        /\ inc[owner] = 0
        => AtLeast(store[owner].tree[k], a.item.entry)

\* The nodes that a successful write was counted on include W of the key's
\* replicas: "the minimum number of replicas that must acknowledge a write
\* before OK is returned" (SetWriteConcern).
AckedByReplicas ==
  \A a \in acked :
    Cardinality({l.node : l \in a.holders} \cap GetReplicas(a.view, a.item.key, RF)) >= W

\* Every command is answered: whatever is lost, no connection stays in a
\* handler for ever, unless a SendReliable never returns.
EveryCommandEnds ==
  \A c \in Conn : conn[c].pc # "idle" ~> (conn[c].pc = "idle" \/ [](conn[c].pc = "send"))

\* Every replica of every key holds the newest entry that any node holds.
Converged ==
  \A k \in Key, n \in Node : \A r \in GetReplicas(Node, k, RF) :
    store[n].tree[k] # Absent => AtLeast(store[r].tree[k], store[n].tree[k])

\* Once the membership is complete and stays so, and the writes have ended,
\* anti-entropy brings every replica to the newest entry and keeps it there,
\* also after the nodes have served conflicting writes without knowing of each
\* other, or a quorum write has failed on the way.
AntiEntropyConverges ==
  <>[](\A n \in Node : members[n] = Node /\ ring[n] = Node) => <>[]Converged
=============================================================================
