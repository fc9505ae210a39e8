----------------------- MODULE ReplicationInvariant -------------------------
(***************************************************************************)
(* The invariant behind the theorems of ReplicationProofs, what a step must*)
(* do to keep it, and that the first steps of a command, up to its writes  *)
(* to its own store, anti-entropy, membership changes and restarts do so.  *)
(* On the way, what the order of preference makes of a ring: its replicas, *)
(* and who owns a key next.                                                *)
(***************************************************************************)
EXTENDS Replication, StoreOpsProofs

\* The item, or a newer one, is on a node in a life that has begun, unless that
\* life has ended.
Secured(l, item) == l \in Life /\ l.inc <= inc[l.node] /\ Holds(l, item)

Current(n) == [node |-> n, inc |-> inc[n]]
Stamp(a) == [node |-> a.node, inc |-> a.inc]

InvStores ==
  /\ setup \in Setups
  /\ inc \in [Node -> Nat]
  /\ ring \in [Node -> SUBSET Node]
  /\ nextID \in Nat
  /\ written \subseteq Item
  /\ store \in [Node -> StoreState]
  /\ \A n \in Node : GoodStore(store[n])
  /\ \A n \in Node : Items(store[n].tree) \subseteq written

\* A command in progress: the items it has still to replicate are in its own
\* node's store; the answers it has received or counted are for its item, and
\* those it has counted come from different nodes other than its own, replicas
\* of the item's key in the view with which it began.
CmdInv(p) ==
  p.pc \in {"check", "apply"} =>
    /\ p.pc = "check" => p \in Checking
    /\ p.pc = "apply" => p \in Applying
    /\ p.cmd.keys \in Seq(Key)
    /\ p.cmd.op = "SET" => p.cmd.keys # <<>> /\ p.cmd.value \in Value
TodoInv(p) ==
  p.pc \in {"loop", "send", "wait"} =>
    /\ p.pc = "loop" => p \in Looping
    /\ p.todo \subseteq written /\ \A i \in p.todo : Secured(Current(p.node), i)
PendingInv(p) ==
  p.pc \in {"send", "wait"} =>
    /\ p \in Replicating
    /\ Cardinality(p.remote) \in Nat /\ Len(p.ch) <= Cardinality(p.remote)
    /\ p.item \in p.todo /\ p.id \in Nat /\ p.id < nextID
    /\ p.left \subseteq Node \ {p.node} /\ p.expected \subseteq Node \ {p.node}
    /\ p.pc = "send" => p.left # {}
    /\ p.view \subseteq Node
    /\ p.left \cup p.expected \subseteq GetReplicas(p.view, p.item.key, RF)
AnswersInv(p) ==
  p.pc \in {"send", "wait"} =>
    /\ p.ch \in Seq(Ack)
    /\ \A i \in 1 .. Len(p.ch) : p.ch[i].ok => Secured(Stamp(p.ch[i]), p.item)
    /\ IsFiniteSet(p.got) /\ IsFiniteSet({g.node : g \in p.got})
    /\ \A g \in p.got : Secured(g, p.item) /\ g.node \in p.expected
    /\ Cardinality({g.node : g \in p.got}) = Cardinality(p.got)
ConnInv(p) ==
  p # Idle =>
    /\ p.pc \in {"check", "apply", "loop", "send", "wait"} /\ p.node \in Node
    /\ CmdInv(p) /\ TodoInv(p) /\ PendingInv(p) /\ AnswersInv(p)

\* A message: requests carry their command's item, and an acknowledgement is
\* only under way from a node that has the item of the request it answers.
ReqInv(m) ==
  m.type = "ReplicateReq" =>
    /\ m.to \in Node /\ m.id \in Nat /\ m.id < nextID /\ m.item \in written
    /\ \A c \in Conn : Pending(c) /\ conn[c].id = m.id => conn[c].item = m.item
RespInv(m) ==
  m.type = "ReplicateResp" =>
    /\ m.from \in Node /\ m.ok \in BOOLEAN /\ m.inc \in Nat
    /\ m.id \in Nat /\ m.id < nextID
    /\ m.ok => \A c \in Conn : Pending(c) /\ conn[c].id = m.id =>
                  Secured([node |-> m.from, inc |-> m.inc], conn[c].item)
BatchInv(m) ==
  m.type = "EntryBatch" =>
    m \in [type : {"EntryBatch"}, to : Node, from : Node, items : SUBSET Item]
    /\ m.items \subseteq written
MsgInv(m) == m \in Message /\ ReqInv(m) /\ RespInv(m) /\ BatchInv(m)

AckInv(a) ==
  /\ a \in Success /\ a.item \in written
  /\ Cardinality({l.node : l \in a.holders}) >= W
  /\ \A l \in a.holders : Secured(l, a.item)
  /\ \A l \in a.holders : l.node = a.node \/ l.node \in GetReplicas(a.view, a.item.key, RF)

\* Commands that wait for answers to the same request ID wait for the same item.
SameRequest ==
  \A c, d \in Conn : Pending(c) /\ Pending(d) /\ conn[c].id = conn[d].id =>
    conn[c].item = conn[d].item

IInv ==
  /\ InvStores
  /\ DOMAIN conn = Conn /\ \A c \in Conn : ConnInv(conn[c])
  /\ SameRequest
  /\ \A m \in net : MsgInv(m)
  /\ \A a \in acked : AckInv(a)

-----------------------------------------------------------------------------
\* The part of the state that no command depends on, and that a connection has
\* one command at most.
ClusterOK ==
  /\ setup \in Setups
  /\ members \in [Node -> SUBSET Node] /\ pos \in [Node -> Nat]
  /\ budget \in [BudgetItem -> Int]
  /\ conn = [c \in Conn |-> conn[c]]

\* antiEntropyPos names one of the peers: each has a place of its own in the
\* order of names, below their number, so that every place is taken.
LEMMA EveryTurnHasPeer ==
  ASSUME NEW S \in SUBSET Nat, IsFiniteSet(S), NEW i \in 0 .. Cardinality(S) - 1
  PROVE  \E p \in S : Cardinality({q \in S : q < p}) = i
<1> DEFINE before(n) == {q \in S : q < n}
           place == [n \in S |-> Cardinality(before(n))]
           last == Cardinality(S) - 1
<1>0. Cardinality(S) \in Nat /\ last \in Int
  BY FS_CardinalityType
<1>1. \A n : before(n) \in SUBSET S
  OBVIOUS
<1>2. ASSUME NEW n \in S PROVE Cardinality(before(n)) \in 0 .. last /\ IsFiniteSet(before(n))
  <2>1. n \notin before(n)
    OBVIOUS
  <2> HIDE DEF before
  <2>2. before(n) # S /\ IsFiniteSet(before(n))
    BY <1>1, <2>1, FS_Subset, SMTT(30)
  <2>3. Cardinality(before(n)) <= Cardinality(S) /\ Cardinality(before(n)) # Cardinality(S)
    BY <1>1, <2>2, FS_Subset, SMTT(30)
  <2> QED
    BY <1>0, <2>2, <2>3, FS_CardinalityType
<1>3. ASSUME NEW m \in S, NEW n \in S, m < n
      PROVE  Cardinality(before(m)) # Cardinality(before(n))
  <2>1. \A q \in S : q < m => q < n
    BY <1>3
  <2>2. before(m) \subseteq before(n)
    BY <2>1, Zenon
  <2>3. m \in before(n) /\ m \notin before(m)
    BY <1>3
  <2> HIDE DEF before
  <2> QED
    BY <1>2, <2>2, <2>3, FS_Subset, SMTT(30)
<1> HIDE DEF before
<1>4. place \in [S -> 0 .. last]
  <2> HIDE DEF last
  <2> QED
    BY <1>2
<1>5. ASSUME NEW m \in S, NEW n \in S, place[m] = place[n] PROVE m = n
  <2>1. ~(m < n) /\ ~(n < m)
    BY <1>3, <1>5
  <2> QED
    BY <2>1
<1> HIDE DEF last
<1>6. place \in Injection(S, 0 .. last)
  <2> HIDE DEF place
  <2> QED
    BY <1>4, <1>5 DEF Injection, IsInjective
<1>7. IsFiniteSet(0 .. last) /\ Cardinality(0 .. last) = Cardinality(S)
  BY <1>0, FS_Interval DEF last
<1>8. place \in Surjection(S, 0 .. last)
  <2> HIDE DEF place
  <2> QED
    BY <1>6, <1>7, FS_Injection, Zenon
<1>9. PICK p \in S : place[p] = i
  <2>1. i \in 0 .. last
    BY DEF last
  <2> HIDE DEF place
  <2> QED
    BY <1>8, <2>1 DEF Surjection
<1> QED
  BY <1>9, Zenon DEF before

\* exchangeState sends to a member, and its turn stays a number.
LEMMA ExchangeHasPeer ==
  ASSUME ClusterOK, NEW n \in Node, NEW sent, ExchangeState(n, sent)
  PROVE  /\ \E to \in Node : net' \subseteq net \cup {Batch(to, n, Items(store[n].tree))}
         /\ pos' \in [Node -> Nat]
<1>1. PICK peers, index :
        /\ peers = members[n] \ {n} /\ peers # {} /\ index = pos[n] % Cardinality(peers)
        /\ pos' = [pos EXCEPT ![n] = (index + 1) % Cardinality(peers)]
        /\ net' \subseteq net \cup {Batch(Peer(n, index), n, Items(store[n].tree))}
  BY Zenon DEF ExchangeState
<1>2. /\ pos \in [Node -> Nat] /\ members \in [Node -> SUBSET Node]
      /\ Node \subseteq Origin /\ Origin \subseteq Nat
  BY SetupsAssumption, RanksAssumption, SMTT(30) DEF ClusterOK, Node
<1>3. peers \in SUBSET Nat /\ peers \in SUBSET Origin /\ peers \in SUBSET Node
  BY <1>1, <1>2, Zenon
<1>4. IsFiniteSet(peers) /\ Cardinality(peers) \in Nat /\ Cardinality(peers) # 0
  BY <1>1, <1>3, OriginAssumption, FS_Subset, FS_CardinalityType, FS_EmptySet, Zenon
<1>5. index \in 0 .. Cardinality(peers) - 1 /\ (index + 1) % Cardinality(peers) \in Nat
  BY <1>1, <1>2, <1>4
<1>6. Peer(n, index) \in Node
  <2>1. \E p \in peers : Cardinality({q \in peers : q < p}) = index
    BY <1>3, <1>4, <1>5, EveryTurnHasPeer
  <2>2. Peer(n, index) \in peers
    BY <1>1, <2>1, Zenon DEF Peer
  <2> QED
    BY <1>3, <2>2, ZenonT(40)
<1>7. pos' \in [Node -> Nat]
  BY <1>1, <1>2, <1>5
<1> QED
  BY <1>1, <1>6, <1>7, Zenon

\* What a step may spend stays an integer.
LEMMA SpendsIntegers ==
  ASSUME ClusterOK, NEW b, Spend(b)
  PROVE  budget' \in [BudgetItem -> Int]
<1>1. PICK v : /\ budget' = [budget EXCEPT ![b] = v]
               /\ v = IF budget[b] < 0 THEN budget[b] ELSE budget[b] - 1
  BY Zenon DEF Spend
<1>2. b \in BudgetItem => v \in Int
  BY <1>1 DEF ClusterOK
<1> QED
  BY <1>1, <1>2, Zenon DEF ClusterOK

LEMMA ClusterStep ==
  ASSUME ClusterOK, Next, setup' = setup
  PROVE  ClusterOK'
<1> DEFINE onlyConn == /\ UNCHANGED <<members, pos>>
                       /\ budget' = budget \/ \E b : Spend(b)
                       /\ conn' = conn \/ \E c, q : conn' = [conn EXCEPT ![c] = q]
<1>0. /\ Node' = Node /\ conn = [c \in Conn |-> conn[c]] /\ setup' \in Setups
      /\ members \in [Node -> SUBSET Node] /\ pos \in [Node -> Nat]
  BY DEF ClusterOK, Node
<1>1. CASE onlyConn
  <2>1. budget' \in [BudgetItem -> Int]
    BY <1>1, SpendsIntegers DEF ClusterOK
  <2>2. conn' = [c \in Conn |-> conn'[c]]
    <3>1. ASSUME NEW c, NEW q, conn' = [conn EXCEPT ![c] = q]
          PROVE  conn' = [d \in Conn |-> conn'[d]]
      BY <1>0, <3>1
    <3> QED
      BY <1>0, <1>1, <3>1
  <2> QED
    BY <1>0, <1>1, <2>1, <2>2, Zenon DEF ClusterOK
<1>2. ASSUME NEW c, NEW n, NEW cmd, Receive(c, n, cmd) PROVE onlyConn
  BY <1>2, Zenon DEF Receive, cluster
<1>3. ASSUME NEW c \in Conn, Command(c) PROVE onlyConn
  <2>1. CheckOwner(c) \/ Apply(c) \/ Timeout(c) => onlyConn
    BY Zenon DEF CheckOwner, Apply, Timeout, cluster
  <2>2. ASSUME NEW item, BeginReplicate(c, item) PROVE onlyConn
    BY <2>2, Zenon DEF BeginReplicate, Succeed, cluster
  <2>3. ASSUME NEW delivered, NEW reported, Send(c, delivered, reported) PROVE onlyConn
    BY <2>3, Zenon DEF Send, cluster
  <2>4. TakeAck(c) => onlyConn
    BY Zenon DEF TakeAck, Succeed, cluster
  <2> HIDE DEF onlyConn
  <2> QED
    BY <1>3, <2>1, <2>2, <2>3, <2>4, Zenon DEF Command
<1>4. ASSUME NEW m \in net, Handle(m) PROVE ClusterOK'
  <2>1. CASE HandleRequest(m)
    <3>1. onlyConn
      BY <2>1, Zenon DEF HandleRequest, cluster
    <3> QED
      BY <1>1, <3>1
  <2>2. ASSUME NEW item, HandleBatchEntry(m, item) PROVE ClusterOK'
    <3>1. onlyConn
      BY <2>2, Zenon DEF HandleBatchEntry, cluster
    <3> QED
      BY <1>1, <3>1
  <2>3. CASE HandleResponse(m)
    <3>1. /\ UNCHANGED <<members, pos>> /\ (budget' = budget \/ Spend("repeats"))
          /\ conn' = [c \in Conn |-> conn'[c]]
      BY <2>3 DEF HandleResponse, cluster
    <3> QED
      BY <1>0, <3>1, SpendsIntegers, Zenon DEF ClusterOK
  <2> HIDE DEF onlyConn
  <2> QED
    BY <1>4, <2>1, <2>2, <2>3, Zenon DEF Handle
<1>5. ASSUME NEW n \in Node, NEW sent, ExchangeState(n, sent) PROVE ClusterOK'
  <2>1. conn' = conn /\ members' = members /\ Spend("syncs")
    BY <1>5, Zenon DEF ExchangeState
  <2> QED
    BY <1>0, <1>5, <2>1, ExchangeHasPeer, SpendsIntegers, Zenon DEF ClusterOK
<1>6. ASSUME NEW n \in Node, NEW p \in Node,
             PushState(n, p) \/ NotifyJoin(n, p) \/ NotifyLeave(n, p) \/ NodeJoin(n, p)
      PROVE  ClusterOK'
  <2>1. /\ Spend("syncs") \/ Spend("churn")
        /\ conn' = conn /\ pos' = pos
    BY <1>6, Zenon DEF PushState, NotifyJoin, NotifyLeave, NodeJoin, cluster
  <2>2. members' \in [Node -> SUBSET Node]
    BY <1>0, <1>6 DEF PushState, NotifyJoin, NotifyLeave, NodeJoin, cluster
  <2> QED
    BY <1>0, <2>1, <2>2, SpendsIntegers, Zenon DEF ClusterOK
<1>7. ASSUME NEW n \in Node, Restart(n) PROVE ClusterOK'
  <2>1. /\ Spend("restarts") /\ conn' = [c \in Conn |-> conn'[c]]
        /\ members' \in [Node -> SUBSET Node] /\ pos' \in [Node -> Nat]
    BY <1>0, <1>7 DEF Restart
  <2> QED
    BY <1>0, <2>1, SpendsIntegers, Zenon DEF ClusterOK
<1> HIDE DEF onlyConn
<1> QED
  BY <1>1, <1>2, <1>3, <1>4, <1>5, <1>6, <1>7, Zenon DEF Next, ReceiveSet, ReceiveDel

\* It holds in every state of every behaviour.
LEMMA ClusterInvariance == Spec => []ClusterOK
<1>1. Init => ClusterOK
  BY SetupsAssumption DEF Init, ClusterOK, Node
<1>2. ClusterOK /\ [Next /\ Recorded]_vars => ClusterOK'
  <2> SUFFICES ASSUME ClusterOK, [Next /\ Recorded]_vars PROVE ClusterOK'
    OBVIOUS
  <2>1. CASE Next /\ Recorded
    BY <2>1, ClusterStep DEF Recorded
  <2>2. CASE UNCHANGED vars
    BY <2>2 DEF vars, ClusterOK, Node
  <2> QED
    BY <2>1, <2>2
<1> QED
  BY <1>1, <1>2, PTL DEF Spec

-----------------------------------------------------------------------------
\* The ring's order has a first among any nodes.
LEMMA FirstExists ==
  ASSUME NEW k \in Key, NEW S \in SUBSET Origin, S # {}
  PROVE  \E x \in S : \A y \in S : Rank[k][x] <= Rank[k][y]
<1> DEFINE ranks == {Rank[k][x] : x \in S}
           less == OpToRel(<, Nat)
<1>1. \A x \in S : Rank[k][x] \in Nat
  BY RankAssumption
<1>2. ranks \subseteq Nat /\ ranks # {}
  BY <1>1
<1>3. \E x \in ranks : \A y \in ranks : ~(<<y, x>> \in less)
  <2> HIDE DEF ranks, less
  <2>1. IsWellFoundedOn(less, Nat)
    BY NatLessThanWellFounded, Zenon DEF less
  <2> QED
    BY <1>2, <2>1, WFMin, Zenon
<1>4. PICK x \in S : \A y \in S : ~(<<Rank[k][y], Rank[k][x]>> \in less)
  BY <1>3, Zenon
<1>5. \A y \in S : ~(Rank[k][y] < Rank[k][x])
  BY <1>1, <1>4, ZenonT(40) DEF OpToRel
<1> QED
  BY <1>1, <1>5

\* The ring returns count replicas at most: the number of nodes preferred to it
\* tells each of them apart, and is below count.
LEMMA AtMostCount ==
  ASSUME NEW k \in Key, NEW view \in SUBSET Origin, NEW count \in Nat \ {0}
  PROVE  /\ IsFiniteSet(GetReplicas(view, k, count))
         /\ Cardinality(GetReplicas(view, k, count)) \in Nat
         /\ Cardinality(GetReplicas(view, k, count)) <= count
<1> DEFINE R == GetReplicas(view, k, count)
           before(n) == {m \in view : Rank[k][m] < Rank[k][n]}
           place == [n \in R |-> Cardinality(before(n))]
<1>1. /\ \A n \in Origin : Rank[k][n] \in Nat
      /\ \A m, n \in Origin : Rank[k][m] = Rank[k][n] => m = n
  BY RankAssumption
<1>2. \A n : before(n) \in SUBSET view /\ IsFiniteSet(view)
  BY OriginAssumption, FS_Subset
<1>3. \A n : IsFiniteSet(before(n)) /\ Cardinality(before(n)) \in Nat
  <2> HIDE DEF before
  <2> QED
    BY <1>2, FS_Subset, FS_CardinalityType
<1>4. R \subseteq view /\ \A n \in R : Cardinality(before(n)) < count
  BY DEF GetReplicas
<1>5. ASSUME NEW m \in R, NEW n \in R, Rank[k][m] < Rank[k][n]
      PROVE  Cardinality(before(m)) < Cardinality(before(n))
  <2>1. /\ before(m) \subseteq before(n) /\ m \in before(n) /\ m \notin before(m)
    BY <1>1, <1>4, <1>5
  <2> HIDE DEF before
  <2>2. /\ Cardinality(before(m)) <= Cardinality(before(n))
        /\ Cardinality(before(m)) # Cardinality(before(n))
    BY <1>3, <2>1, FS_Subset, Zenon
  <2> QED
    BY <1>3, <2>2
<1>6. place \in [R -> 0 .. count - 1]
  <2> HIDE DEF before, R
  <2> QED
    BY <1>3, <1>4
<1>7. ASSUME NEW m \in R, NEW n \in R, place[m] = place[n] PROVE m = n
  <2> HIDE DEF before, R
  <2>1. Cardinality(before(m)) = Cardinality(before(n)) /\ m \in Origin /\ n \in Origin
    BY <1>4, <1>7, Zenon
  <2>2. ~(Rank[k][m] < Rank[k][n]) /\ ~(Rank[k][n] < Rank[k][m])
    BY <1>3, <1>5, <2>1
  <2> QED
    BY <1>1, <2>1, <2>2
<1> HIDE DEF R, place
<1>8. place \in Injection(R, 0 .. count - 1)
  BY <1>6, <1>7 DEF Injection, IsInjective
<1>9. IsFiniteSet(0 .. count - 1) /\ Cardinality(0 .. count - 1) = count
  BY FS_Interval
<1>10. IsFiniteSet(R) /\ Cardinality(R) <= Cardinality(0 .. count - 1)
  BY <1>8, <1>9, FS_Injection, Zenon
<1> QED
  BY <1>9, <1>10, FS_CardinalityType DEF R

\* A view that has lost nodes, but not all replicas of a key, routes the key to
\* one of the replicas.
LEMMA NextOwnerIsReplica ==
  ASSUME NEW k \in Key, NEW view \in SUBSET Origin, NEW rest \in SUBSET view,
         NEW count \in Nat, rest \cap GetReplicas(view, k, count) # {}
  PROVE  /\ GetNode(rest, k) \in rest
         /\ GetNode(rest, k) \in GetReplicas(view, k, count)
<1>1. rest # {} /\ rest \in SUBSET Origin /\ \A x \in Origin : Rank[k][x] \in Nat
  BY RankAssumption
<1>2. \E x \in rest : \A y \in rest : Rank[k][x] <= Rank[k][y]
  BY <1>1, FirstExists
<1>3. PICK o : o = GetNode(rest, k)
  OBVIOUS
<1>4. o \in rest /\ \A y \in rest : Rank[k][o] <= Rank[k][y]
  BY <1>1, <1>2, <1>3 DEF GetNode
<1>5. PICK r : r \in rest /\ r \in GetReplicas(view, k, count)
  OBVIOUS
<1> DEFINE before(n) == {m \in view : Rank[k][m] < Rank[k][n]}
<1>6. before(o) \subseteq before(r) /\ before(r) \subseteq view /\ IsFiniteSet(view)
  BY <1>1, <1>4, <1>5, OriginAssumption, FS_Subset
<1>7. Cardinality(before(r)) < count
  BY <1>5 DEF GetReplicas
<1>8. Cardinality(before(o)) < count
  <2> HIDE DEF before
  <2>1. IsFiniteSet(before(r)) /\ IsFiniteSet(before(o))
    BY <1>6, FS_Subset, Zenon
  <2>2. Cardinality(before(o)) <= Cardinality(before(r))
    BY <1>6, <2>1, FS_Subset, SMTT(30), Zenon
  <2> QED
    BY <1>7, <2>1, <2>2, FS_CardinalityType
<1> QED
  BY <1>3, <1>4, <1>8 DEF GetReplicas

-----------------------------------------------------------------------------
LEMMA SameTypes ==
  ASSUME setup' = setup
  PROVE  /\ Node' = Node /\ Life' = Life /\ Ack' = Ack /\ W' = W /\ RF' = RF
         /\ Message' = Message /\ Success' = Success
         /\ Checking' = Checking /\ Applying' = Applying /\ Looping' = Looping
         /\ Replicating' = Replicating
<1>1. Node' = Node /\ W' = W /\ RF' = RF
  BY DEF Node, W, RF
<1>2. Life' = Life /\ Ack' = Ack
  BY <1>1 DEF Life, Ack
<1> QED
  BY <1>1, <1>2, Zenon DEF Message, Success, Checking, Applying, Looping, Replicating

\* What every step does to the parts it shares with others: stores only get
\* newer within a life, lives only end, and histories only grow.
Onward ==
  /\ InvStores'
  /\ setup' = setup /\ written \subseteq written' /\ nextID <= nextID'
  /\ \A n \in Node : inc[n] <= inc'[n]
  /\ \A n \in Node : inc'[n] = inc[n] =>
       \A k \in Key : store[n].tree[k] # Absent =>
                        AtLeast(store'[n].tree[k], store[n].tree[k])

\* What is secured stays so.
LEMMA SecuredOnward ==
  ASSUME InvStores, Onward, NEW l, NEW item \in Item, Secured(l, item)
  PROVE  Secured(l, item)'
<1>0. /\ Node' = Node /\ Life' = Life
      /\ l \in Life /\ l.node \in Node /\ l.inc \in Nat /\ item.key \in Key /\ item.entry \in Entry
      /\ l.inc <= inc[l.node] /\ Holds(l, item)
  BY DEF Onward, Secured, Node, Life, Item
<1>1. inc[l.node] \in Nat /\ inc'[l.node] \in Nat /\ inc[l.node] <= inc'[l.node]
  BY <1>0 DEF Onward, InvStores
<1>2. l.inc <= inc'[l.node]
  BY <1>0, <1>1
<1>3. ASSUME inc'[l.node] = l.inc
      PROVE  AtLeast(store'[l.node].tree[item.key], item.entry)
  <2> DEFINE old == store[l.node].tree[item.key]
             new == store'[l.node].tree[item.key]
  <2>1. inc[l.node] = l.inc /\ inc'[l.node] = inc[l.node]
    BY <1>0, <1>1, <1>3
  <2>2. AtLeast(old, item.entry) /\ old # Absent
    BY <1>0, <2>1 DEF Holds, AtLeast
  <2>3. AtLeast(new, old)
    BY <1>0, <2>1, <2>2, Zenon DEF Onward
  <2>4. store[l.node] \in StoreState /\ store'[l.node] \in StoreState
    BY <1>0, Zenon DEF InvStores, Onward
  <2>5. old \in Entry /\ new \in Entry \cup {Absent}
    BY <1>0, <2>2, <2>4 DEF StoreState
  <2> QED
    BY <1>0, <2>2, <2>3, <2>5, AtLeastTransitive
<1> QED
  BY <1>0, <1>2, <1>3 DEF Secured, Holds

\* A command that a step leaves alone, on a node that does not restart.
LEMMA ConnOnward ==
  ASSUME InvStores, Onward, NEW p, ConnInv(p), p # Idle => inc'[p.node] = inc[p.node]
  PROVE  ConnInv(p)'
<1> SUFFICES ASSUME p # Idle
             PROVE  /\ p.pc \in {"check", "apply", "loop", "send", "wait"} /\ p.node \in Node'
                    /\ CmdInv(p)' /\ TodoInv(p)' /\ PendingInv(p)' /\ AnswersInv(p)'
  BY DEF ConnInv, Idle
<1>0. /\ p.pc \in {"check", "apply", "loop", "send", "wait"} /\ p.node \in Node
      /\ CmdInv(p) /\ TodoInv(p) /\ PendingInv(p) /\ AnswersInv(p)
      /\ Node' = Node /\ Ack' = Ack /\ RF' = RF /\ Checking' = Checking
      /\ Applying' = Applying /\ Looping' = Looping /\ Replicating' = Replicating
      /\ inc'[p.node] = inc[p.node]
      /\ written \subseteq written' /\ written \subseteq Item
  BY SameTypes, Zenon DEF ConnInv, Onward, InvStores
<1>1. CmdInv(p)'
  BY <1>0 DEF CmdInv
<1>2. TodoInv(p)'
  <2> SUFFICES ASSUME p.pc \in {"loop", "send", "wait"}
               PROVE  p.todo \subseteq written' /\ \A i \in p.todo : Secured(Current(p.node), i)'
    BY <1>0 DEF TodoInv
  <2>1. p.todo \subseteq written /\ \A i \in p.todo : Secured(Current(p.node), i)
    BY <1>0 DEF TodoInv
  <2>2. Current(p.node)' = Current(p.node)
    BY <1>0, Zenon DEF Current
  <2> QED
    BY <1>0, <2>1, <2>2, SecuredOnward, Zenon
<1>3. PendingInv(p)'
  BY <1>0, SMTT(30) DEF PendingInv, Onward, InvStores
<1>4. AnswersInv(p)'
  <2> SUFFICES ASSUME p.pc \in {"send", "wait"}
               PROVE  AnswersInv(p)'
    BY DEF AnswersInv
  <2>1. p.item \in Item
    BY <1>0 DEF PendingInv, TodoInv
  <2>2. \A l : Secured(l, p.item) => Secured(l, p.item)'
    BY <2>1, SecuredOnward, Zenon
  <2> QED
    BY <1>0, <2>2, Zenon DEF AnswersInv, Stamp
<1> QED
  BY <1>0, <1>1, <1>2, <1>3, <1>4, Zenon

\* No step makes a request pending under an ID that was used before, and none
\* makes two.
PendingOnward ==
  /\ \A c \in Conn : Pending(c)' /\ conn'[c].id < nextID =>
       Pending(c) /\ conn[c].id = conn'[c].id /\ conn[c].item = conn'[c].item
  /\ \A c, d \in Conn :
       /\ Pending(c)' /\ Pending(d)'
       /\ ~(conn'[c].id < nextID) /\ ~(conn'[d].id < nextID)
       => c = d

\* The IDs of pending requests have been used.
LEMMA PendingIDs ==
  ASSUME IInv, NEW c \in Conn, Pending(c)
  PROVE  conn[c].id \in Nat /\ conn[c].id < nextID
BY DEF IInv, ConnInv, PendingInv, Pending, Idle

\* A message that stays under way.
LEMMA MsgOnward ==
  ASSUME IInv, Onward, PendingOnward, NEW m, MsgInv(m)
  PROVE  MsgInv(m)'
<1>0. /\ Node' = Node /\ written \subseteq written' /\ written \subseteq Item
      /\ nextID \in Nat /\ nextID' \in Nat /\ nextID <= nextID'
      /\ ReqInv(m) /\ RespInv(m) /\ BatchInv(m)
      /\ InvStores /\ m \in Message'
  BY SameTypes, Zenon DEF IInv, InvStores, Onward, MsgInv
<1>1. \A c \in Conn : Pending(c) => conn[c].item \in Item
  BY <1>0 DEF IInv, ConnInv, PendingInv, TodoInv, Pending, Idle
<1>2. ReqInv(m)'
  BY <1>0 DEF ReqInv, PendingOnward
<1>3. RespInv(m)'
  <2> SUFFICES ASSUME m.type = "ReplicateResp", m.ok, NEW c \in Conn,
                      Pending(c)', conn'[c].id = m.id
               PROVE  Secured([node |-> m.from, inc |-> m.inc], conn[c].item)'
    BY <1>0 DEF RespInv
  <2>1. Pending(c) /\ conn[c].id = m.id /\ conn[c].item = conn'[c].item
    BY <1>0, Zenon DEF RespInv, PendingOnward
  <2>2. Secured([node |-> m.from, inc |-> m.inc], conn[c].item) /\ conn[c].item \in Item
    BY <1>0, <1>1, <2>1 DEF RespInv
  <2>3. PICK i : i = conn[c].item
    BY Zenon
  <2>4. Secured([node |-> m.from, inc |-> m.inc], i)'
    BY <1>0, <2>2, <2>3, SecuredOnward, Zenon
  <2> QED
    BY <2>1, <2>3, <2>4, Zenon
<1>4. BatchInv(m)'
  BY <1>0 DEF BatchInv
<1> QED
  BY <1>0, <1>2, <1>3, <1>4, Zenon DEF MsgInv

\* A write that was acknowledged earlier.
LEMMA AckOnward ==
  ASSUME InvStores, Onward, NEW a, AckInv(a)
  PROVE  AckInv(a)'
<1>1. /\ W' = W /\ RF' = RF /\ Success' = Success
      /\ written \subseteq written' /\ a.item \in Item
  BY SameTypes DEF AckInv, Onward, InvStores
<1>2. \A l : Secured(l, a.item) => Secured(l, a.item)'
  BY <1>1, SecuredOnward, Zenon
<1> QED
  BY <1>1, <1>2, Zenon DEF AckInv

-----------------------------------------------------------------------------
\* SetWithVersion of a written item on one store.
LEMMA OfferOnward ==
  ASSUME InvStores, NEW n, NEW i \in written,
         store' = [store EXCEPT ![n] = SetWithVersion(@, i.key, i.entry)],
         setup' = setup, inc' = inc, written' = written, nextID' \in Nat, nextID <= nextID',
         ring' = ring
  PROVE  /\ Onward
         /\ n \in Node => AtLeast(store'[n].tree[i.key], i.entry)
         /\ \A m \in Node : m # n => store'[m] = store[m]
         /\ n \in Node => store'[n].tree = IF AtLeast(store[n].tree[i.key], i.entry)
                                          THEN store[n].tree
                                          ELSE [store[n].tree EXCEPT ![i.key] = i.entry]
<1>0. /\ Node' = Node /\ i.key \in Key /\ i.entry \in Entry /\ i = [key |-> i.key, entry |-> i.entry]
      /\ store \in [Node -> StoreState] /\ DOMAIN store' = Node
      /\ \A m \in Node : GoodStore(store[m]) /\ Items(store[m].tree) \subseteq written
  BY DEF InvStores, Item, Node
<1>1. \A m \in Node : m # n => store'[m] = store[m]
  BY <1>0, Zenon
<1>2. ASSUME n \in Node
      PROVE  /\ GoodStore(store'[n])
             /\ store'[n].tree = IF Accepts(store[n], i.key, i.entry)
                                 THEN [store[n].tree EXCEPT ![i.key] = i.entry]
                                 ELSE store[n].tree
             /\ store[n].tree \in [Key -> Entry \cup {Absent}]
             /\ store[n].tree[i.key] \in Entry \cup {Absent}
  <2>1. store'[n] = SetWithVersion(store[n], i.key, i.entry)
    BY <1>0, <1>2, Zenon
  <2> QED
    BY <1>0, <1>2, <2>1, SetWithVersionGood DEF GoodStore, StoreState
<1>3. ASSUME n \in Node
      PROVE  Accepts(store[n], i.key, i.entry) <=> ~AtLeast(store[n].tree[i.key], i.entry)
  BY <1>0, <1>2, <1>3, NewerTotal, NewerAsymmetric, EntryParts, Zenon DEF Accepts, AtLeast
<1>4. ASSUME n \in Node
      PROVE  /\ AtLeast(store'[n].tree[i.key], i.entry)
             /\ Items(store'[n].tree) \subseteq written
             /\ \A k \in Key : store[n].tree[k] # Absent =>
                                 AtLeast(store'[n].tree[k], store[n].tree[k])
  <2>1. CASE Accepts(store[n], i.key, i.entry)
    <3>1. /\ store'[n].tree[i.key] = i.entry /\ i.entry # Absent
          /\ \A k \in Key : k # i.key => store'[n].tree[k] = store[n].tree[k]
          /\ store[n].tree[i.key] = Absent \/ newer(i.entry, store[n].tree[i.key])
      BY <1>0, <1>2, <1>4, <2>1, EntryParts, ZenonT(40) DEF Accepts
    <3> QED
      BY <1>0, <1>4, <3>1 DEF AtLeast, Items
  <2>2. CASE ~Accepts(store[n], i.key, i.entry)
    BY <1>0, <1>2, <1>3, <1>4, <2>2, Zenon DEF AtLeast
  <2> QED
    BY <2>1, <2>2, Zenon
<1>5. store' \in [Node -> StoreState]
  BY <1>0, <1>1, <1>2, Zenon DEF GoodStore
<1>6. InvStores'
  BY <1>0, <1>1, <1>2, <1>4, <1>5, ZenonT(40) DEF InvStores
<1>7. Onward
  BY <1>0, <1>1, <1>4, <1>6, SMTT(30) DEF Onward, AtLeast, InvStores
<1> QED
  BY <1>1, <1>2, <1>3, <1>4, <1>7, Zenon

\* A step that changes no store, no life and no history but acked.
LEMMA QuietOnward ==
  ASSUME InvStores, store' = store, setup' = setup, inc' = inc, written' = written,
         nextID' \in Nat, nextID <= nextID', ring' \in [Node -> SUBSET Node]
  PROVE  Onward
<1>1. InvStores'
  BY DEF InvStores, Node
<1> QED
  BY <1>1, SMTT(30) DEF Onward, AtLeast, InvStores

-----------------------------------------------------------------------------
\* What is left to show of a step that moves onward: the commands, messages and
\* acknowledgements that it changes.
LEMMA StepKeeps ==
  ASSUME IInv, Onward, PendingOnward, DOMAIN conn' = Conn,
         \A c \in Conn : \/ conn'[c] = conn[c] /\ (conn[c] # Idle => inc'[conn[c].node] = inc[conn[c].node])
                         \/ ConnInv(conn[c])',
         \A m \in net' : m \in net \/ MsgInv(m)',
         \A a \in acked' : a \in acked \/ AckInv(a)'
  PROVE  IInv'
<1>0. InvStores
  BY DEF IInv
<1>1. ASSUME NEW c \in Conn PROVE ConnInv(conn[c])'
  <2>1. CASE conn'[c] = conn[c] /\ (conn[c] # Idle => inc'[conn[c].node] = inc[conn[c].node])
    <3>1. PICK p : p = conn[c]
      OBVIOUS
    <3>2. ConnInv(p) /\ (p # Idle => inc'[p.node] = inc[p.node])
      BY <2>1, <3>1 DEF IInv
    <3>3. ConnInv(p)'
      BY <1>0, <3>2, ConnOnward, Zenon
    <3> QED
      BY <2>1, <3>1, <3>3, ZenonT(40)
  <2> QED
    BY <2>1, Zenon
<1>2. ASSUME NEW m \in net' PROVE MsgInv(m)'
  BY MsgOnward DEF IInv
<1>3. ASSUME NEW a \in acked' PROVE AckInv(a)'
  BY <1>0, AckOnward, Zenon DEF IInv
<1>4. SameRequest'
  BY DEF IInv, SameRequest, PendingOnward
<1> QED
  BY <1>1, <1>2, <1>3, <1>4, ZenonT(40) DEF IInv, Onward

OnlyConn(c) == DOMAIN conn' = Conn /\ \A d \in Conn : d # c => conn'[d] = conn[d]

\* A step that changes one command, and no store, life or written item: the new
\* state of the command must be in order, and pending only if it was or under a
\* new ID.
LEMMA ConnStep ==
  ASSUME IInv, setup' = setup, store' = store, inc' = inc, written' = written,
         ring' = ring, nextID' \in Nat, nextID <= nextID',
         NEW c \in Conn, OnlyConn(c), ConnInv(conn[c])',
         Pending(c)' /\ conn'[c].id < nextID =>
           Pending(c) /\ conn[c].id = conn'[c].id /\ conn[c].item = conn'[c].item,
         \A m \in net' : m \in net \/ MsgInv(m)',
         \A a \in acked' : a \in acked \/ AckInv(a)'
  PROVE  IInv'
<1>0. InvStores /\ DOMAIN conn' = Conn /\ \A d \in Conn : d # c => conn'[d] = conn[d]
  BY Zenon DEF IInv, OnlyConn
<1>2. Onward
  BY <1>0, QuietOnward, Zenon DEF InvStores
<1>3. PendingOnward
  BY <1>0, PendingIDs, ZenonT(40) DEF PendingOnward, Pending
<1>4. ASSUME NEW d \in Conn
      PROVE  conn'[d] = conn[d] \/ ConnInv(conn[d])'
  BY <1>0
<1> QED
  BY <1>0, <1>2, <1>3, <1>4, StepKeeps, Zenon

\* The same for a step that sends and acknowledges nothing, and leaves no command
\* waiting for answers.
LEMMA QuietConnStep ==
  ASSUME IInv, setup' = setup, store' = store, inc' = inc, written' = written,
         ring' = ring, nextID' = nextID, nextID \in Nat, net' = net, acked' = acked,
         NEW c \in Conn, OnlyConn(c), ConnInv(conn[c])', ~Pending(c)'
  PROVE  IInv'
<1>1. nextID' \in Nat /\ nextID <= nextID'
  OBVIOUS
<1> QED
  BY <1>1, ConnStep, Zenon

\* Only Apply writes items.
LEMMA NothingWritten ==
  ASSUME Recorded, \A c \in Conn : conn[c].pc = "apply" => conn'[c].pc # "loop"
  PROVE  written' = written
BY DEF Recorded

\* A connection that executes no command is in order.
LEMMA IdleInOrder == ConnInv(Idle)' /\ Idle.pc = "idle"
BY Zenon DEF ConnInv, Idle

\* handleConn takes a command with well-formed keys.
LEMMA ReceiveKeeps ==
  ASSUME IInv, Recorded, NEW c \in Conn, NEW n \in Node, NEW cmd, Receive(c, n, cmd),
         cmd \in ClientCommand, cmd.keys \in Seq(Key),
         cmd.op = "SET" => cmd.keys # <<>> /\ cmd.value \in Value
  PROVE  IInv'
<1> DEFINE q == [pc |-> "check", node |-> n, cmd |-> cmd, left |-> cmd.keys]
<1>0. /\ conn' = [conn EXCEPT ![c] = q] /\ DOMAIN conn = Conn /\ conn[c] = Idle
      /\ setup' = setup /\ store' = store /\ inc' = inc /\ ring' = ring /\ net' = net
      /\ nextID' = nextID /\ acked' = acked /\ nextID \in Nat
  BY DEF Receive, Recorded, IInv, InvStores, cluster
<1>1. written' = written
  <2>1. \A d \in Conn : conn[d].pc = "apply" => conn'[d].pc # "loop"
    BY <1>0, Zenon
  <2> QED
    BY <2>1, NothingWritten, Zenon
<1>2. ConnInv(q)'
  <2>1. q \in Checking' /\ Node' = Node
    BY <1>0, SameTypes, Zenon DEF Checking
  <2> QED
    BY <2>1, Zenon DEF ConnInv, CmdInv, TodoInv, PendingInv, AnswersInv
<1>3. OnlyConn(c) /\ ConnInv(conn[c])' /\ ~Pending(c)'
  BY <1>0, <1>2, Zenon DEF OnlyConn, Pending
<1> QED
  BY <1>0, <1>1, <1>3, QuietConnStep, ZenonT(40)

\* handleKeyCommand looks up the owner of one key.
LEMMA CheckOwnerKeeps ==
  ASSUME IInv, Recorded, NEW c \in Conn, CheckOwner(c)
  PROVE  IInv' /\ written' = written
<1> DEFINE p == conn[c]
           next == [p EXCEPT !.left = Tail(@)]
           apply == [pc |-> "apply", node |-> p.node, cmd |-> p.cmd]
<1>0. /\ DOMAIN conn = Conn /\ p.pc = "check"
      /\ setup' = setup /\ store' = store /\ inc' = inc /\ ring' = ring /\ net' = net
      /\ nextID' = nextID /\ acked' = acked /\ nextID \in Nat
  BY Zenon DEF CheckOwner, Recorded, IInv, InvStores, cluster
<1>1. ConnInv(p) /\ p # Idle
  BY <1>0 DEF IInv, Idle
<1>2. /\ next.pc = p.pc /\ next.node = p.node /\ next.cmd = p.cmd
      /\ apply \in Applying'
      /\ Len(p.left) > 1 => next \in Checking'
  <2>1. p \in Checking /\ Checking' = Checking /\ Applying' = Applying
    BY <1>0, <1>1, SameTypes, Zenon DEF ConnInv, CmdInv
  <2>2. Len(p.left) > 1 => Tail(p.left) \in Seq(Key)
    BY <2>1 DEF Checking
  <2> QED
    BY <2>1, <2>2, ZenonT(40) DEF Checking, Applying
<1>3. PICK q : /\ q = Idle \/ (q = next /\ Len(p.left) > 1) \/ q = apply
               /\ conn' = [conn EXCEPT ![c] = q]
  <2>1. PICK q : /\ q = IF GetNode(ring[p.node], Head(p.left)) \notin {Nobody, p.node} THEN Idle
                        ELSE IF Len(p.left) > 1 THEN next ELSE apply
                 /\ conn' = [conn EXCEPT ![c] = q]
    BY ZenonT(40) DEF CheckOwner
  <2> HIDE DEF next, apply
  <2> QED
    BY <2>1, Zenon
<1>4. q.pc \in {"idle", "check", "apply"}
  <2>1. Idle.pc = "idle" /\ apply.pc = "apply"
    BY Zenon DEF Idle
  <2> HIDE DEF next, apply, p
  <2> QED
    BY <1>0, <1>2, <1>3, <2>1, Zenon
<1>5. ConnInv(q)'
  <2>1. CASE q = Idle
    BY <2>1, IdleInOrder, Zenon
  <2>2. CASE q = next /\ Len(p.left) > 1
    <3> HIDE DEF next
    <3> QED
      BY <1>0, <1>1, <1>2, <2>2, Zenon
         DEF ConnInv, CmdInv, TodoInv, PendingInv, AnswersInv, Node, Idle
  <2>3. CASE q = apply
    <3>1. q.pc = "apply" /\ q.node = p.node /\ q.cmd = p.cmd /\ q \in Applying'
      BY <1>2, <2>3, Zenon
    <3> HIDE DEF apply
    <3> QED
      BY <1>0, <1>1, <3>1, Zenon DEF ConnInv, CmdInv, TodoInv, PendingInv, AnswersInv, Node
  <2> QED
    BY <1>3, <2>1, <2>2, <2>3, Zenon
<1>6. written' = written
  <2>1. \A d \in Conn : conn[d].pc = "apply" => conn'[d].pc # "loop"
    BY <1>0, <1>3, <1>4, Zenon
  <2> QED
    BY <2>1, NothingWritten
<1>7. OnlyConn(c) /\ ConnInv(conn[c])' /\ ~Pending(c)'
  BY <1>0, <1>3, <1>4, <1>5, ZenonT(40) DEF OnlyConn, Pending
<1> QED
  BY <1>0, <1>6, <1>7, QuietConnStep, Zenon

\* ReplicateWithQuorum gives up at its deadline.
LEMMA TimeoutKeeps ==
  ASSUME IInv, Recorded, NEW c \in Conn, Timeout(c)
  PROVE  IInv' /\ written' = written
<1>0. /\ conn' = [conn EXCEPT ![c] = Idle] /\ DOMAIN conn = Conn
      /\ setup' = setup /\ store' = store /\ inc' = inc /\ ring' = ring /\ net' = net
      /\ nextID' = nextID /\ acked' = acked /\ nextID \in Nat
  BY DEF Timeout, Recorded, IInv, InvStores, cluster
<1>1. OnlyConn(c) /\ conn'[c] = Idle
  BY <1>0 DEF OnlyConn
<1>2. ConnInv(conn[c])' /\ ~Pending(c)' /\ conn'[c].pc # "loop"
  BY <1>1, IdleInOrder, Zenon DEF Pending
<1>3. written' = written
  BY <1>1, <1>2, NothingWritten, Zenon DEF OnlyConn
<1> QED
  BY <1>0, <1>1, <1>2, <1>3, QuietConnStep, ZenonT(40)

-----------------------------------------------------------------------------
\* What a command writes, at its own node: at most one item for a key, each
\* newer than what the store had and with a version of its own above the old
\* clock, and nothing else in the store changes.
Writes(n, todo) ==
  /\ n \in Node /\ todo \subseteq Item
  /\ \A i, j \in todo : i.key = j.key => i = j
  /\ \A i \in todo : /\ store'[n].tree[i.key] = i.entry
                     /\ store[n].tree[i.key] = Absent \/ newer(i.entry, store[n].tree[i.key])
  /\ \A k \in Key : (\A i \in todo : i.key # k) => store'[n].tree[k] = store[n].tree[k]
  /\ GoodStore(store'[n])
  /\ store' \in [Node -> StoreState] /\ \A m \in Node : m # n => store'[m] = store[m]
  /\ store[n].clock <= store'[n].clock
  /\ \A i \in todo : i.entry.origin = n /\ i.entry.version > store[n].clock
  /\ \A i, j \in todo : i.entry.version = j.entry.version => i = j
  /\ written' = written \cup todo

\* What there is to say of one item in a set.
LEMMA OneItem ==
  ASSUME NEW k \in Key, NEW e \in Entry, NEW todo, todo = {[key |-> k, entry |-> e]}
  PROVE  /\ \A i \in todo : i.key = k /\ i.entry = e
         /\ \E i \in todo : i.key = k
         /\ todo \subseteq Item
BY DEF Item

\* A command that is about to send the items it wrote.
LEMMA LoopParts ==
  ASSUME NEW n, NEW todo, NEW q, q = [pc |-> "loop", node |-> n, todo |-> todo]
  PROVE  /\ q.pc = "loop" /\ q.node = n /\ q.todo = todo
         /\ n \in Node /\ todo \in SUBSET Item => q \in Looping
BY DEF Looping

\* SetFrom and Del write just the items the command then replicates.
LEMMA ApplyWrites ==
  ASSUME IInv, Recorded, NEW c \in Conn, Apply(c)
  PROVE  /\ Writes(conn[c].node, conn'[c].todo)
         /\ conn'[c] = [pc |-> "loop", node |-> conn[c].node, todo |-> conn'[c].todo]
         /\ OnlyConn(c)
<1> DEFINE p == conn[c]
           n == p.node
           st == store[n]
           ks == p.cmd.keys
           isSet == p.cmd.op = "SET"
           todo == IF isSet
                   THEN {[key |-> ks[1], entry |-> SetFromEntry(st, p.cmd.value, n)]}
                   ELSE {[key |-> k, entry |-> Tombstone(st, n, ks, k)] : k \in Named(ks)}
<1>0. /\ DOMAIN conn = Conn /\ p.pc = "apply" /\ n \in Node /\ ks \in Seq(Key)
      /\ isSet => ks # <<>> /\ p.cmd.value \in Value
      /\ store \in [Node -> StoreState] /\ GoodStore(st) /\ setup \in Setups
  <2>1. DOMAIN conn = Conn /\ conn[c].pc = "apply" /\ ConnInv(conn[c]) /\ InvStores
    BY Zenon DEF Apply, IInv
  <2> HIDE DEF p
  <2>2. p = conn[c]
    BY Zenon DEF p
  <2>3. p # Idle
    BY <2>1, <2>2, IdleInOrder, Zenon
  <2>4. p.pc = "apply" /\ p.node \in Node /\ CmdInv(p)
    BY <2>1, <2>2, <2>3, Zenon DEF ConnInv
  <2> QED
    BY <2>1, <2>4, Zenon DEF CmdInv, InvStores
<1>1. /\ conn' = [conn EXCEPT ![c] = [pc |-> "loop", node |-> n, todo |-> todo]]
      /\ store' = [store EXCEPT ![n] = IF isSet THEN SetFrom(st, ks[1], p.cmd.value, n)
                                       ELSE Del(st, n, ks)]
  BY Zenon DEF Apply
<1>2. n \in Origin
  BY <1>0, SetupsAssumption, ZenonT(40) DEF Node
<1>3. /\ OnlyConn(c) /\ conn'[c].todo = todo
      /\ conn'[c] = [pc |-> "loop", node |-> n, todo |-> todo]
      /\ DOMAIN store' = Node /\ \A m \in Node : m # n => store'[m] = store[m]
      /\ store'[n] = IF isSet THEN SetFrom(st, ks[1], p.cmd.value, n) ELSE Del(st, n, ks)
  BY <1>0, <1>1, SMTT(30), Zenon DEF OnlyConn
<1>4. written' = written \cup todo
  <2> HIDE DEF todo, st, ks, isSet, n
  <2>0. conn[c].pc = "apply"
    BY <1>0, Zenon
  <2> HIDE DEF p
  <2>1. /\ conn[c].pc = "apply" /\ conn'[c].pc = "loop" /\ conn'[c].todo = todo
        /\ \A d \in Conn : d # c => conn'[d] = conn[d]
    <3>1. PICK q : q = conn'[c]
      BY Zenon
    <3>2. q = [pc |-> "loop", node |-> n, todo |-> todo]
      BY <1>3, <3>1, Zenon
    <3>3. q.pc = "loop" /\ q.todo = todo
      BY <3>2, LoopParts, ZenonT(40)
    <3> QED
      BY <1>3, <2>0, <3>1, <3>3, Zenon DEF OnlyConn
  <2>2. \A d \in Conn : conn[d].pc = "apply" /\ conn'[d].pc = "loop" <=> d = c
    BY <2>1
  <2>3. {d \in Conn : conn[d].pc = "apply" /\ conn'[d].pc = "loop"} = {c}
    BY <2>2
  <2>4. written' = written \cup UNION {conn'[d].todo : d \in {c}}
    BY <2>3 DEF Recorded
  <2> QED
    BY <2>1, <2>4, ZenonT(40)
<1>5. /\ todo \subseteq Item
      /\ \A i, j \in todo : i.key = j.key => i = j
      /\ \A i \in todo : /\ store'[n].tree[i.key] = i.entry
                         /\ st.tree[i.key] = Absent \/ newer(i.entry, st.tree[i.key])
      /\ \A k \in Key : (\A i \in todo : i.key # k) => store'[n].tree[k] = st.tree[k]
      /\ GoodStore(store'[n])
  <2>1. CASE isSet
    <3> DEFINE v == p.cmd.value
               e == SetFromEntry(st, v, n)
               k == ks[1]
    <3>1. k \in Key /\ v \in Value
      BY <1>0, <2>1, SMTT(30), Zenon
    <3>2. todo = {[key |-> k, entry |-> e]} /\ store'[n] = SetFrom(st, k, v, n)
      BY <1>3, <2>1, Zenon
    <3>3. GoodStore(st) /\ n \in Origin
      BY <1>0, <1>2, Zenon
    <3> HIDE DEF k, todo, v, st, n
    <3>4. st.tree \in [Key -> Entry \cup {Absent}]
      BY <3>3, Zenon DEF GoodStore, StoreState
    <3>5. /\ GoodStore(SetFrom(st, k, v, n)) /\ e \in Entry
          /\ SetFrom(st, k, v, n).tree = [st.tree EXCEPT ![k] = e]
          /\ \A x \in Key : st.tree[x] # Absent => newer(e, st.tree[x])
      BY <3>1, <3>3, SetFromGood, SMTT(30)
    <3> HIDE DEF e
    <3>6. \A i \in todo : i.key = k /\ i.entry = e
      BY <3>2
    <3>7. todo \subseteq Item /\ \E i \in todo : i.key = k
      BY <3>1, <3>5, <3>2, OneItem, Zenon
    <3>8. /\ store'[n].tree[k] = e
          /\ \A x \in Key : x # k => store'[n].tree[x] = st.tree[x]
      BY <3>1, <3>5, <3>2, <3>4, ZenonT(40)
    <3> QED
      BY <3>1, <3>5, <3>2, <3>6, <3>7, <3>8, Zenon
  <2>2. CASE ~isSet
    <3>1. todo = {[key |-> k, entry |-> Tombstone(st, n, ks, k)] : k \in Named(ks)}
          /\ store'[n] = Del(st, n, ks)
      BY <1>3, <2>2, Zenon
    <3>2. Named(ks) \subseteq Key
      BY <1>0 DEF Named
    <3>3. \A k \in Named(ks) : Tombstone(st, n, ks, k) \in Entry
      BY <1>0, <1>2, TombstoneVersions, ZenonT(40)
    <3>4. /\ GoodStore(store'[n])
          /\ \A k \in Named(ks) :
               /\ store'[n].tree[k] = Tombstone(st, n, ks, k)
               /\ st.tree[k] # Absent => newer(Tombstone(st, n, ks, k), st.tree[k])
          /\ \A k \in Key \ Named(ks) : store'[n].tree[k] = st.tree[k]
      <4>1. GoodStore(st) /\ n \in Origin /\ ks \in Seq(Key) /\ store'[n] = Del(st, n, ks)
        BY <1>0, <1>2, <3>1, Zenon
      <4> HIDE DEF st, ks, n, todo, isSet
      <4> QED
        BY <4>1, DelGood, SMTT(30), Zenon
    <3> HIDE DEF todo, st, ks, n
    <3>5. /\ \A i \in todo : i.key \in Named(ks) /\ i.entry = Tombstone(st, n, ks, i.key)
          /\ \A i \in todo : i = [key |-> i.key, entry |-> i.entry]
          /\ \A k \in Named(ks) : [key |-> k, entry |-> Tombstone(st, n, ks, k)] \in todo
      BY <3>1
    <3>6. todo \subseteq Item
      BY <3>2, <3>3, <3>5 DEF Item
    <3>7. \A k \in Key : (\A i \in todo : i.key # k) => k \notin Named(ks)
      BY <3>5, ZenonT(40)
    <3> QED
      BY <3>2, <3>4, <3>5, <3>6, <3>7, SMTT(30), Zenon
  <2> QED
    BY <2>1, <2>2, ZenonT(40)
<1>6. store' \in [Node -> StoreState]
  BY <1>0, <1>1, <1>3, <1>5, Zenon DEF GoodStore
<1>7. /\ st.clock <= store'[n].clock
      /\ \A i \in todo : i.entry.origin = n /\ i.entry.version > st.clock
      /\ \A i, j \in todo : i.entry.version = j.entry.version => i = j
  <2>0. st.clock \in Nat
    BY <1>0, Zenon DEF GoodStore, StoreState
  <2>1. CASE isSet
    <3>1. PICK e : e = SetFromEntry(st, p.cmd.value, n)
      BY ZenonT(40)
    <3>2. todo = {[key |-> ks[1], entry |-> e]}
      BY <2>1, <3>1, SMTT(30), Zenon
    <3>3. e.origin = n /\ e.version = st.clock + 1
      BY <3>1 DEF SetFromEntry
    <3>4. store'[n].clock = st.clock + 1
      <4>1. SetFrom(st, ks[1], p.cmd.value, n).clock = st.clock + 1
        BY Zenon DEF SetFrom
      <4> HIDE DEF st, ks, n
      <4> QED
        BY <1>3, <2>1, <4>1, Zenon
    <3> HIDE DEF todo, st, ks, n
    <3> QED
      BY <2>0, <3>2, <3>3, <3>4, SMTT(30)
  <2>2. CASE ~isSet
    <3>1. todo = {[key |-> k, entry |-> Tombstone(st, n, ks, k)] : k \in Named(ks)}
          /\ store'[n] = Del(st, n, ks)
      BY <1>3, <2>2, Zenon
    <3> HIDE DEF todo, st, ks, isSet
    <3>2. store'[n].clock >= st.clock
      BY <1>0, <1>2, <3>1, DelGood, SMTT(30), Zenon
    <3>3. \A k \in Named(ks) : Tombstone(st, n, ks, k).version > st.clock
                              /\ Tombstone(st, n, ks, k).origin = n
      BY <1>0, <1>2, TombstoneVersions, ZenonT(40) DEF Tombstone
    <3>4. \A k, l \in Named(ks) :
            Tombstone(st, n, ks, k).version = Tombstone(st, n, ks, l).version => k = l
      BY <1>0, TombstonesDiffer
    <3> HIDE DEF n
    <3>5. \A i \in todo : i.key \in Named(ks)
                         /\ i = [key |-> i.key, entry |-> Tombstone(st, n, ks, i.key)]
      BY <3>1
    <3>6. \A i \in todo : i.key \in Named(ks) /\ i.entry = Tombstone(st, n, ks, i.key)
      BY <3>5
    <3>7. \A i, j \in todo : i.key = j.key => i = j
      BY <3>5, Zenon
    <3>8. store'[n].clock \in Nat
      BY <1>5 DEF GoodStore, StoreState
    <3> QED
      BY <2>0, <3>2, <3>3, <3>4, <3>6, <3>7, <3>8, SMTT(30)
  <2> QED
    BY <2>1, <2>2, Zenon
<1> HIDE DEF todo
<1>8. Writes(n, todo)
  <2> HIDE DEF n, p
  <2> QED
    BY <1>0, <1>3, <1>4, <1>5, <1>6, <1>7, ZenonT(40) DEF Writes
<1> QED
  BY <1>3, <1>8, ZenonT(40)

\* The writing node, and so the cluster, moves onward and has the items.
LEMMA WritesOnward ==
  ASSUME InvStores, NEW n, NEW todo, Writes(n, todo),
         setup' = setup, inc' = inc, ring' = ring, nextID' = nextID
  PROVE  Onward /\ \A i \in todo : Secured(Current(n), i)'
<1>0. /\ Node' = Node /\ n \in Node /\ store[n] \in StoreState /\ store'[n] \in StoreState
      /\ store[n].tree \in [Key -> Entry \cup {Absent}]
      /\ store'[n].tree \in [Key -> Entry \cup {Absent}]
      /\ Items(store[n].tree) \subseteq written
  BY Zenon DEF InvStores, Writes, Node, GoodStore, StoreState
<1>1. Items(store'[n].tree) \subseteq written'
  <2> SUFFICES ASSUME NEW k \in Key, store'[n].tree[k] # Absent
               PROVE  [key |-> k, entry |-> store'[n].tree[k]] \in written'
    BY ZenonT(40) DEF Items
  <2>1. CASE \E i \in todo : i.key = k
    <3>1. PICK i \in todo : i.key = k
      BY <2>1, Zenon
    <3> QED
      BY <3>1 DEF Writes, Item
  <2>2. CASE \A i \in todo : i.key # k
    BY <2>2, <1>0, SMTT(30), Zenon DEF Writes, Items
  <2> QED
    BY <2>1, <2>2, Zenon
<1>3. InvStores'
  BY <1>0, <1>1, ZenonT(40) DEF InvStores, Writes
<1>4. ASSUME NEW k \in Key, store[n].tree[k] # Absent
      PROVE  AtLeast(store'[n].tree[k], store[n].tree[k])
  BY <1>4, EntryParts, SMTT(30), Zenon DEF Writes, AtLeast, Item
<1>5. Onward
  <2>1. nextID <= nextID' /\ \A m \in Node : inc[m] <= inc'[m]
    BY DEF InvStores
  <2>2. ASSUME NEW m \in Node, NEW k \in Key, store[m].tree[k] # Absent
        PROVE  AtLeast(store'[m].tree[k], store[m].tree[k])
    <3>1. CASE m = n
      BY <1>4, <2>2, <3>1, Zenon
    <3>2. CASE m # n
      BY <2>2, <3>2, Zenon DEF Writes, AtLeast
    <3> QED
      BY <3>1, <3>2, Zenon
  <2> QED
    BY <1>3, <2>1, <2>2, Zenon DEF Onward, Writes
<1>6. \A i \in todo : AtLeast(store'[n].tree[i.key], i.entry)
  BY EntryParts, Zenon DEF Writes, AtLeast, Item
<1> QED
  BY <1>0, <1>3, <1>5, <1>6, SMTT(30), Zenon DEF Secured, Current, Life, Holds, InvStores

\* The command's items are written and on its own node.
LEMMA ApplyKeeps ==
  ASSUME IInv, Recorded, NEW c \in Conn, Apply(c)
  PROVE  IInv'
<1>1. PICK n, todo : n = conn[c].node /\ todo = conn'[c].todo
  BY SMTT(30)
<1>2. /\ Writes(n, todo) /\ OnlyConn(c)
      /\ conn'[c] = [pc |-> "loop", node |-> n, todo |-> todo]
      /\ inc' = inc /\ setup' = setup /\ ring' = ring /\ nextID' = nextID
      /\ net' = net /\ acked' = acked /\ InvStores
  BY <1>1, ApplyWrites, ZenonT(40) DEF Apply, Recorded, cluster, IInv
<1>3. Onward /\ \A i \in todo : Secured(Current(n), i)'
  BY <1>2, WritesOnward, SMTT(30), Zenon
<1>4. ConnInv(conn[c])' /\ conn'[c].pc = "loop"
  <2>1. n \in Node /\ todo \subseteq written'
    BY <1>2, Zenon DEF Writes
  <2>2. Node' = Node /\ Looping' = Looping /\ todo \in SUBSET Item
    BY <1>2, <1>3, <2>1, SameTypes, Zenon DEF Onward, InvStores
  <2>3. /\ conn'[c] \in Looping'
        /\ conn'[c].pc = "loop" /\ conn'[c].node = n /\ conn'[c].todo = todo
    <3>1. PICK q : q = conn'[c]
      BY Zenon
    <3>2. q = [pc |-> "loop", node |-> n, todo |-> todo]
      BY <1>2, <3>1, Zenon
    <3>3. q \in Looping /\ q.pc = "loop" /\ q.node = n /\ q.todo = todo
      BY <2>1, <2>2, <3>2, LoopParts, ZenonT(40)
    <3> QED
      BY <2>2, <3>1, <3>3, Zenon
  <2> QED
    BY <1>3, <2>1, <2>2, <2>3, Zenon DEF ConnInv, CmdInv, TodoInv, PendingInv, AnswersInv
<1>5. PendingOnward
  BY <1>2, <1>4, PendingIDs, Zenon DEF PendingOnward, Pending, OnlyConn
<1> QED
  BY <1>2, <1>3, <1>4, <1>5, StepKeeps, ZenonT(40) DEF OnlyConn

-----------------------------------------------------------------------------
\* A step of the network or the membership: commands change, if at all, only in
\* the answers they have queued.
LEMMA CommandsStay ==
  ASSUME IInv, conn' = conn
  PROVE  PendingOnward /\ DOMAIN conn' = Conn
BY PendingIDs, Zenon DEF PendingOnward, Pending, IInv

\* A batch of written items between nodes.
LEMMA BatchInOrder ==
  ASSUME NEW b \in [type : {"EntryBatch"}, to : Node, from : Node, items : SUBSET Item],
         b.items \subseteq written, setup' = setup, written' = written
  PROVE  MsgInv(b)'
<1>1. b.type = "EntryBatch" /\ b \in Message /\ Node' = Node /\ Message' = Message
  BY SameTypes, Zenon DEF Message
<1> QED
  BY <1>1, Zenon DEF MsgInv, ReqInv, RespInv, BatchInv

\* Anti-entropy brings an item that was written somewhere.
LEMMA HandleBatchEntryKeeps ==
  ASSUME IInv, Recorded, NEW m \in net, m.type = "EntryBatch", NEW item \in m.items,
         HandleBatchEntry(m, item)
  PROVE  /\ IInv' /\ written' = written /\ item \in written
         /\ store' = store \/ store' = [store EXCEPT ![m.to] = SetWithVersion(@, item.key, item.entry)]
<1>0. /\ conn' = conn /\ setup' = setup /\ inc' = inc
      /\ ring' = ring /\ nextID' = nextID /\ acked' = acked /\ nextID \in Nat /\ InvStores
      /\ BatchInv(m) /\ m.items \subseteq written
  BY DEF HandleBatchEntry, Recorded, cluster, IInv, InvStores, MsgInv, BatchInv
<1>1. written' = written
  BY <1>0, NothingWritten
<1>2. PICK n : n = m.to
  OBVIOUS
<1>3. store' = store \/ store' = [store EXCEPT ![n] = SetWithVersion(@, item.key, item.entry)]
  BY <1>2 DEF HandleBatchEntry
<1>4. Onward
  <2>1. nextID' \in Nat /\ nextID <= nextID' /\ item \in written
    BY <1>0
  <2>2. CASE store' = store
    BY <1>0, <1>1, <2>1, <2>2, QuietOnward, Zenon DEF InvStores
  <2>3. CASE store' = [store EXCEPT ![n] = SetWithVersion(@, item.key, item.entry)]
    BY <1>0, <1>1, <2>1, <2>3, OfferOnward, ZenonT(40)
  <2> QED
    BY <1>3, <2>2, <2>3, Zenon
<1>5. ASSUME NEW b, b = [m EXCEPT !.items = @ \ {item}]
      PROVE  MsgInv(b)'
  <2>1. /\ b \in [type : {"EntryBatch"}, to : Node, from : Node, items : SUBSET Item]
        /\ b.items = m.items \ {item}
    BY <1>0, <1>5 DEF BatchInv
  <2> QED
    BY <1>0, <1>1, <2>1, BatchInOrder, SMTT(30), Zenon
<1>6. \A b \in net' : b \in net \/ MsgInv(b)'
  BY <1>5, Zenon DEF HandleBatchEntry
<1> QED
  BY <1>0, <1>1, <1>2, <1>3, <1>4, <1>6, CommandsStay, StepKeeps, ZenonT(40)

\* A node sends what is in its store: written items.
LEMMA BatchSentKeeps ==
  ASSUME IInv, Recorded, NEW n \in Node, NEW to \in Node,
         net' \subseteq net \cup {Batch(to, n, Items(store[n].tree))},
         store' = store, conn' = conn, inc' = inc, ring' = ring, nextID' = nextID,
         acked' = acked
  PROVE  IInv' /\ written' = written
<1>0. setup' = setup /\ nextID \in Nat /\ InvStores /\ Items(store[n].tree) \subseteq written
  BY Zenon DEF Recorded, IInv, InvStores
<1>1. written' = written
  BY NothingWritten, Zenon
<1>2. Onward
  BY <1>0, <1>1, QuietOnward DEF InvStores
<1>3. ASSUME NEW b, b = Batch(to, n, Items(store[n].tree))
      PROVE  MsgInv(b)'
  <2>1. /\ b \in [type : {"EntryBatch"}, to : Node, from : Node, items : SUBSET Item]
        /\ b.items \subseteq written
    BY <1>0, <1>3 DEF Batch, InvStores
  <2> QED
    BY <1>0, <1>1, <2>1, BatchInOrder, SMTT(30), Zenon
<1>4. \A b \in net' : b \in net \/ MsgInv(b)'
  BY <1>3, Zenon
<1> QED
  BY <1>1, <1>2, <1>4, CommandsStay, StepKeeps, Zenon

\* A membership callback or NODE.JOIN changes a ring.
LEMMA RingChangeKeeps ==
  ASSUME IInv, Recorded, NEW n \in Node, NEW m \in Node,
         NotifyJoin(n, m) \/ NotifyLeave(n, m) \/ NodeJoin(n, m)
  PROVE  IInv' /\ written' = written /\ store' = store /\ inc' = inc /\ acked' = acked
<1>0. /\ setup' = setup /\ nextID \in Nat /\ InvStores /\ nextID' = nextID
      /\ store' = store /\ conn' = conn /\ inc' = inc /\ acked' = acked /\ net' = net
      /\ ring \in [Node -> SUBSET Node]
      /\ ring' = [ring EXCEPT ![n] = @ \cup {m}] \/ ring' = [ring EXCEPT ![n] = @ \ {m}]
  BY Zenon DEF Recorded, IInv, InvStores, NotifyJoin, NotifyLeave, NodeJoin
<1>1. written' = written
  BY <1>0, NothingWritten, SMTT(30)
<1>2. ring' \in [Node -> SUBSET Node]
  BY <1>0
<1>3. Onward
  BY <1>0, <1>1, <1>2, QuietOnward
<1> QED
  BY <1>0, <1>1, <1>3, CommandsStay, StepKeeps, Zenon

\* The store of a new process.
LEMMA NewInOrder == New \in StoreState /\ GoodStore(New) /\ Items(New.tree) = {}
<1>1. New.tree = [k \in Key |-> Absent] /\ New.clock = 0 /\ New.length = 0
  BY DEF New
<1>2. New \in StoreState
  BY DEF New, StoreState
<1>3. LiveKeys(New) = {}
  BY <1>1, Zenon DEF LiveKeys, Live
<1> QED
  BY <1>1, <1>2, <1>3, FS_EmptySet, ZenonT(40) DEF GoodStore, CountsLive, Dominates, Items

\* A restart ends the node's life: its commands are gone, and what its old life
\* acknowledged is no longer claimed of it.
LEMMA RestartKeeps ==
  ASSUME IInv, Recorded, NEW n \in Node, Restart(n)
  PROVE  IInv' /\ written' = written
<1>0. /\ setup' = setup /\ nextID \in Nat /\ InvStores /\ nextID' = nextID
      /\ acked' = acked /\ net' = net
      /\ store' = [store EXCEPT ![n] = New]
      /\ ring' = [ring EXCEPT ![n] = {n}]
      /\ inc' = [inc EXCEPT ![n] = @ + 1]
      /\ conn' = [c \in Conn |-> IF conn[c] # Idle /\ conn[c].node = n THEN Idle ELSE conn[c]]
  BY Zenon DEF Recorded, IInv, InvStores, Restart
<1>1. /\ DOMAIN conn' = Conn
      /\ \A c \in Conn : \/ conn'[c] = Idle
                         \/ conn'[c] = conn[c] /\ (conn[c] # Idle => conn[c].node # n)
  BY <1>0, Zenon
<1>2. written' = written
  <2>1. \A c \in Conn : conn[c].pc = "apply" => conn'[c].pc # "loop"
    BY <1>1, IdleInOrder, Zenon
  <2> QED
    BY <2>1, NothingWritten
<1>3. /\ inc \in [Node -> Nat] /\ store \in [Node -> StoreState] /\ ring \in [Node -> SUBSET Node]
      /\ Node' = Node
  BY <1>0, Zenon DEF InvStores, Node
<1>4. /\ inc' \in [Node -> Nat] /\ inc'[n] = inc[n] + 1
      /\ \A m \in Node : m # n => inc'[m] = inc[m] /\ store'[m] = store[m]
      /\ ring' \in [Node -> SUBSET Node]
      /\ store'[n] = New
  BY <1>0, <1>3
<1>5. New \in StoreState /\ GoodStore(New) /\ Items(New.tree) = {}
  BY NewInOrder, Zenon
<1>6. store' \in [Node -> StoreState]
  BY <1>0, <1>3, <1>5, ZenonT(40)
<1>7. InvStores'
  BY <1>0, <1>2, <1>3, <1>4, <1>5, <1>6, SMTT(30), Zenon DEF InvStores
<1>8. Onward
  <2>1. \A m \in Node : inc[m] <= inc'[m] /\ (inc'[m] = inc[m] => m # n)
    BY <1>3, <1>4
  <2> QED
    BY <1>0, <1>2, <1>4, <1>7, <2>1, SMTT(30) DEF Onward, AtLeast
<1>9. PendingOnward
  <2>1. \A c \in Conn : Pending(c)' => Pending(c) /\ conn'[c] = conn[c]
    BY <1>1, IdleInOrder, Zenon DEF Pending
  <2> QED
    BY <2>1, PendingIDs, Zenon DEF PendingOnward
<1>10. ASSUME NEW c \in Conn
       PROVE  \/ conn'[c] = conn[c] /\ (conn[c] # Idle => inc'[conn[c].node] = inc[conn[c].node])
              \/ ConnInv(conn[c])'
  <2>1. CASE conn'[c] = Idle
    BY <2>1, IdleInOrder, ZenonT(40)
  <2>2. CASE conn'[c] = conn[c] /\ (conn[c] # Idle => conn[c].node # n)
    BY <2>2, <1>4 DEF IInv, ConnInv
  <2> QED
    BY <1>1, <2>1, <2>2, Zenon
<1> QED
  BY <1>0, <1>1, <1>2, <1>8, <1>9, <1>10, StepKeeps, SMTT(30), Zenon
=============================================================================
