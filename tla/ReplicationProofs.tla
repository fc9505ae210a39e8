------------------------- MODULE ReplicationProofs --------------------------
(***************************************************************************)
(* Quorum writes, for every number of nodes, connections, keys, commands,  *)
(* membership changes, restarts and repeated messages: channels stay within*)
(* their capacity, a write reported as successful is held by W nodes and,  *)
(* with W = RF, by the next owner of its key, versions name writes, and the*)
(* cluster implements ReplicatedMap.                                       *)
(***************************************************************************)
EXTENDS QuorumProofs, ReplicationRefinement

\* At the start nothing is stored, sent or acknowledged.
LEMMA InitInOrder == Init => IInv
<1> SUFFICES ASSUME Init PROVE IInv
  OBVIOUS
<1>1. /\ setup \in Setups /\ inc = [n \in Node |-> 0] /\ ring = setup.view /\ nextID = 0
      /\ written = {} /\ acked = {} /\ net = {} /\ store = [n \in Node |-> New]
      /\ conn = [c \in Conn |-> Idle]
  BY DEF Init
<1>2. New \in StoreState /\ GoodStore(New) /\ Items(New.tree) = {}
  BY NewInOrder
<1>3. ring \in [Node -> SUBSET Node]
  BY <1>1, SetupsAssumption, Zenon DEF Node
<1>4. InvStores
  BY <1>1, <1>2, <1>3, Zenon DEF InvStores
<1>5. \A c \in Conn : conn[c] = Idle /\ ~Pending(c)
  BY <1>1 DEF Pending, Idle
<1> QED
  BY <1>1, <1>4, <1>5, Zenon DEF IInv, ConnInv, SameRequest

\* The commands a client sends name keys and values.
LEMMA ReceivedKeeps ==
  ASSUME IInv, Recorded, NEW c \in Conn, NEW n \in Node,
         \/ \E k \in setup.keys, v \in Value : ReceiveSet(c, n, k, v)
         \/ \E ks \in setup.dels : ReceiveDel(c, n, ks)
  PROVE  /\ IInv' /\ written' = written
         /\ store' = store /\ inc' = inc /\ acked' = acked
<1>0. setup \in Setups /\ setup.keys \subseteq Key /\ setup.dels \subseteq Seq(Key)
  BY SetupsAssumption DEF IInv, InvStores
<1>1. PICK cmd : /\ Receive(c, n, cmd) /\ cmd \in ClientCommand /\ cmd.keys \in Seq(Key)
                 /\ cmd.op = "SET" => cmd.keys # <<>> /\ cmd.value \in Value
  <2>1. ASSUME NEW k \in setup.keys, NEW v \in Value, ReceiveSet(c, n, k, v)
        PROVE  \E cmd : /\ Receive(c, n, cmd) /\ cmd \in ClientCommand /\ cmd.keys \in Seq(Key)
                        /\ cmd.op = "SET" => cmd.keys # <<>> /\ cmd.value \in Value
    <3>1. PICK cmd : cmd = [op |-> "SET", keys |-> <<k>>, value |-> v]
      BY Zenon
    <3>2. Receive(c, n, cmd)
      BY <2>1, <3>1, Zenon DEF ReceiveSet
    <3>3. /\ cmd.keys \in Seq(Key) /\ cmd.keys # <<>> /\ cmd.value \in Value
          /\ cmd \in ClientCommand
      BY <1>0, <3>1 DEF ClientCommand
    <3> QED
      BY <3>2, <3>3, Zenon
  <2>2. ASSUME NEW ks \in setup.dels, ReceiveDel(c, n, ks)
        PROVE  \E cmd : /\ Receive(c, n, cmd) /\ cmd \in ClientCommand /\ cmd.keys \in Seq(Key)
                        /\ cmd.op = "SET" => cmd.keys # <<>> /\ cmd.value \in Value
    <3>1. PICK cmd : cmd = [op |-> "DEL", keys |-> ks]
      BY Zenon
    <3>2. Receive(c, n, cmd)
      BY <2>2, <3>1, Zenon DEF ReceiveDel
    <3>3. cmd.keys \in Seq(Key) /\ cmd.op # "SET" /\ cmd \in ClientCommand
      BY <1>0, <3>1, Zenon DEF ClientCommand
    <3> QED
      BY <3>2, <3>3, Zenon
  <2> QED
    BY <2>1, <2>2, Zenon
<1>2. IInv'
  BY <1>1, ReceiveKeeps, Zenon
<1>3. store' = store /\ inc' = inc /\ acked' = acked
  BY <1>1 DEF Receive, cluster
<1>4. written' = written
  <2>1. /\ conn' = [conn EXCEPT ![c] = [pc |-> "check", node |-> n, cmd |-> cmd,
                                        left |-> cmd.keys]]
        /\ DOMAIN conn = Conn
    BY <1>1 DEF Receive, IInv
  <2>2. \A d \in Conn : conn[d].pc = "apply" => conn'[d].pc # "loop"
    BY <2>1, Zenon
  <2> QED
    BY <2>2, NothingWritten, Zenon
<1> QED
  BY <1>2, <1>3, <1>4, SMTT(30)

-----------------------------------------------------------------------------
\* The steps of the abstract map that the cluster's steps are.
AbsWrite == \E n, todo : Writes(n, todo) /\ inc' = inc /\ acked' = acked
AbsOffer == \E n, i :
  /\ i \in written /\ written' = written /\ inc' = inc /\ acked' = acked
  /\ ring' = ring /\ nextID' = nextID
  /\ store' = [store EXCEPT ![n] = SetWithVersion(@, i.key, i.entry)]
AbsForget == \E n \in Node :
  /\ store' = [store EXCEPT ![n] = New] /\ inc' = [inc EXCEPT ![n] = @ + 1]
  /\ written' = written /\ acked' = acked
AbsConfirm ==
  /\ store' = store /\ inc' = inc /\ written' = written
  /\ \E a : acked' = acked \cup {a} /\ AckInv(a)
AbsNothing == store' = store /\ inc' = inc /\ written' = written /\ acked' = acked
AbsStep == AbsWrite \/ AbsOffer \/ AbsForget \/ AbsConfirm \/ AbsNothing

\* Every step keeps the invariant and is one of those.
LEMMA StepInOrder ==
  ASSUME IInv, ClusterOK, Next, Recorded
  PROVE  IInv' /\ AbsStep
<1>1. ASSUME NEW c \in Conn, NEW n \in Node,
             \/ \E k \in setup.keys, v \in Value : ReceiveSet(c, n, k, v)
             \/ \E ks \in setup.dels : ReceiveDel(c, n, ks)
      PROVE  IInv' /\ AbsStep
  BY <1>1, ReceivedKeeps, Zenon DEF AbsStep, AbsNothing
<1>2. ASSUME NEW c \in Conn, Command(c)
      PROVE  IInv' /\ AbsStep
  <2>1. CASE CheckOwner(c)
    <3>1. IInv' /\ written' = written
      BY <2>1, CheckOwnerKeeps
    <3> QED
      BY <2>1, <3>1 DEF AbsStep, AbsNothing, CheckOwner, cluster
  <2>2. CASE Apply(c)
    <3>1. IInv' /\ \E n, todo : Writes(n, todo)
      BY <2>2, ApplyKeeps, ApplyWrites, Zenon
    <3> QED
      BY <2>2, <3>1, Zenon DEF AbsStep, AbsWrite, Apply, cluster
  <2>3. ASSUME conn[c].pc = "loop", NEW item \in conn[c].todo, BeginReplicate(c, item)
        PROVE  IInv' /\ AbsStep
    <3>1. /\ IInv' /\ written' = written /\ store' = store
          /\ acked' = acked \/ \E a : acked' = acked \cup {a} /\ AckInv(a)
      BY <2>3, BeginReplicateKeeps, Zenon
    <3> QED
      BY <2>3, <3>1, Zenon DEF AbsStep, AbsNothing, AbsConfirm, BeginReplicate, cluster
  <2>4. ASSUME NEW delivered \in BOOLEAN, NEW reported \in BOOLEAN, Send(c, delivered, reported)
        PROVE  IInv' /\ AbsStep
    <3>1. IInv' /\ written' = written
      BY <2>4, SendKeeps, Zenon
    <3> QED
      BY <2>4, <3>1, Zenon DEF AbsStep, AbsNothing, Send, cluster
  <2>5. CASE TakeAck(c)
    <3>1. /\ IInv' /\ written' = written
          /\ acked' = acked \/ \E a : acked' = acked \cup {a} /\ AckInv(a)
      BY <2>5, TakeAckKeeps
    <3> QED
      BY <2>5, <3>1, Zenon DEF AbsStep, AbsNothing, AbsConfirm, TakeAck, cluster
  <2>6. CASE Timeout(c)
    <3>1. IInv' /\ written' = written
      BY <2>6, TimeoutKeeps
    <3> QED
      BY <2>6, <3>1, Zenon DEF AbsStep, AbsNothing, Timeout, cluster
  <2> QED
    BY <1>2, <2>1, <2>2, <2>3, <2>4, <2>5, <2>6, SMTT(30) DEF Command
<1>3. ASSUME NEW m \in net, Handle(m)
      PROVE  IInv' /\ AbsStep
  <2>1. CASE HandleRequest(m)
    <3>1. inc' = inc /\ acked' = acked /\ ring' = ring /\ nextID' = nextID
      BY <2>1 DEF HandleRequest, cluster
    <3> QED
      BY <2>1, <3>1, HandleRequestKeeps, Zenon DEF AbsStep, AbsNothing, AbsOffer
  <2>2. CASE HandleResponse(m)
    <3>1. store' = store /\ inc' = inc /\ acked' = acked
      BY <2>2 DEF HandleResponse, cluster
    <3> QED
      BY <2>2, <3>1, HandleResponseKeeps, Zenon DEF AbsStep, AbsNothing
  <2>3. ASSUME m.type = "EntryBatch", NEW item \in m.items, HandleBatchEntry(m, item)
        PROVE  IInv' /\ AbsStep
    <3>1. inc' = inc /\ acked' = acked /\ ring' = ring /\ nextID' = nextID
      BY <2>3 DEF HandleBatchEntry, cluster
    <3> QED
      BY <2>3, <3>1, HandleBatchEntryKeeps, Zenon DEF AbsStep, AbsNothing, AbsOffer
  <2> QED
    BY <1>3, <2>1, <2>2, <2>3, Zenon DEF Handle
<1>4. ASSUME NEW n \in Node, NEW sent \in BOOLEAN, ExchangeState(n, sent)
      PROVE  IInv' /\ AbsStep
  <2>1. PICK to \in Node : net' \subseteq net \cup {Batch(to, n, Items(store[n].tree))}
    BY <1>4, ExchangeHasPeer, Zenon
  <2>2. /\ store' = store /\ conn' = conn /\ inc' = inc /\ ring' = ring /\ nextID' = nextID
        /\ acked' = acked
    BY <1>4, Zenon DEF ExchangeState
  <2> QED
    BY <2>1, <2>2, BatchSentKeeps, ZenonT(40) DEF AbsStep, AbsNothing
<1>5. ASSUME NEW n \in Node, NEW p \in Node, PushState(n, p)
      PROVE  IInv' /\ AbsStep
  <2>1. /\ store' = store /\ conn' = conn /\ inc' = inc /\ ring' = ring /\ nextID' = nextID
        /\ acked' = acked /\ net' \subseteq net \cup {Batch(p, n, Items(store[n].tree))}
    BY <1>5, Zenon DEF PushState, cluster
  <2> QED
    BY <2>1, BatchSentKeeps, Zenon DEF AbsStep, AbsNothing
<1>6. ASSUME NEW n \in Node, NEW p \in Node,
             NotifyJoin(n, p) \/ NotifyLeave(n, p) \/ NodeJoin(n, p)
      PROVE  IInv' /\ AbsStep
  BY <1>6, RingChangeKeeps, ZenonT(40) DEF AbsStep, AbsNothing
<1>7. ASSUME NEW n \in Node, Restart(n)
      PROVE  IInv' /\ AbsStep
  BY <1>7, RestartKeeps, Zenon DEF AbsStep, AbsForget, Restart
<1> QED
  BY <1>1, <1>2, <1>3, <1>4, <1>5, <1>6, <1>7, SMTT(30) DEF Next

\* The invariant holds in every state of every behaviour.
THEOREM Invariance == Spec => []IInv
<1>1. Init => IInv
  BY InitInOrder
<1>2. IInv /\ ClusterOK /\ [Next /\ Recorded]_vars => IInv'
  <2> SUFFICES ASSUME IInv, ClusterOK, [Next /\ Recorded]_vars PROVE IInv'
    OBVIOUS
  <2>1. CASE Next /\ Recorded
    BY <2>1, StepInOrder, Zenon
  <2>2. CASE UNCHANGED vars
    <3>1. /\ InvStores /\ setup' = setup /\ store' = store /\ inc' = inc /\ written' = written
          /\ nextID' = nextID /\ nextID \in Nat /\ ring' = ring /\ ring \in [Node -> SUBSET Node]
          /\ conn' = conn /\ net' = net /\ acked' = acked
      BY <2>2 DEF vars, IInv, InvStores
    <3>2. Onward
      BY <3>1, QuietOnward, SMTT(30)
    <3> QED
      BY <3>1, <3>2, CommandsStay, StepKeeps, Zenon
  <2> QED
    BY <2>1, <2>2, Zenon
<1> QED
  BY <1>1, <1>2, ClusterInvariance, PTL DEF Spec

\* The shape of the state; in it, that the channel of a pending request never
\* holds more answers than its capacity, however often answers are repeated.
THEOREM ReplicationTypes == Spec => []TypeOK
<1> DEFINE Progress == {Idle} \cup Checking \cup Applying \cup Looping \cup Replicating
<1>1. ASSUME IInv, ClusterOK PROVE TypeOK
  <2>1. /\ store \in [Node -> StoreState] /\ ring \in [Node -> SUBSET Node] /\ nextID \in Nat
        /\ inc \in [Node -> Nat] /\ written \subseteq Item
    BY <1>1, Zenon DEF IInv, InvStores
  <2>2. net \subseteq Message /\ acked \subseteq Success
    BY <1>1, Zenon DEF IInv, MsgInv, AckInv
  <2>3. ASSUME NEW c \in Conn
        PROVE  /\ conn[c] \in Progress
               /\ Pending(c) => Len(conn[c].ch) <= Cardinality(conn[c].remote)
    <3>1. CASE conn[c] = Idle
      BY <3>1, IdleInOrder, Zenon DEF Pending
    <3>2. CASE conn[c] # Idle
      <4>1. /\ conn[c].pc \in {"check", "apply", "loop", "send", "wait"}
            /\ CmdInv(conn[c]) /\ TodoInv(conn[c]) /\ PendingInv(conn[c])
        BY <1>1, <3>2, ZenonT(40) DEF IInv, ConnInv
      <4>2. conn[c] \in Checking \cup Applying \cup Looping \cup Replicating
        BY <4>1 DEF CmdInv, TodoInv, PendingInv
      <4> QED
        BY <4>1, <4>2, Zenon DEF PendingInv, Pending
    <3> QED
      BY <3>1, <3>2, Zenon
  <2>4. conn \in [Conn -> Progress]
    <3> HIDE DEF Progress
    <3>1. conn = [c \in Conn |-> conn[c]]
      BY <1>1, Zenon DEF ClusterOK
    <3> QED
      BY <2>3, <3>1, Zenon
  <2> QED
    BY <1>1, <2>1, <2>2, <2>3, <2>4, Zenon DEF TypeOK, ClusterOK
<1> QED
  BY <1>1, Invariance, ClusterInvariance, PTL

\* ReplicateWithQuorum returns nil only for a write that W different nodes, the
\* writer among them, hold until they restart.
THEOREM QuorumWritesAreHeld == Spec => []AckedWritesAreHeld
<1>1. IInv => AckedWritesAreHeld
  BY Zenon DEF IInv, AckInv, AckedWritesAreHeld, Secured
<1> QED
  BY <1>1, Invariance, PTL

-----------------------------------------------------------------------------
\* Versions that no clock has reached are not in use, and those in use name one
\* item each, as long as no clock has gone back to zero.
StampInv ==
  (\A n \in Node : inc[n] = 0) =>
    /\ \A i \in written : /\ i.entry.origin \in Node
                          /\ i.entry.version <= store[i.entry.origin].clock
    /\ \A i, j \in written :
         i.entry.version = j.entry.version /\ i.entry.origin = j.entry.origin => i = j

\* Only a restart sets a clock back.
LEMMA ClockOnward ==
  ASSUME InvStores, AbsStep, setup' = setup
  PROVE  /\ \A n \in Node : inc'[n] = inc[n] => store[n].clock <= store'[n].clock
         /\ (\A n \in Node : inc'[n] = 0) => inc' = inc
<1>0. /\ store \in [Node -> StoreState] /\ \A n \in Node : GoodStore(store[n])
      /\ \A n \in Node : store[n].clock \in Nat
      /\ inc \in [Node -> Nat] /\ written \subseteq Item
  BY Zenon DEF InvStores, StoreState
<1>1. CASE AbsWrite
  BY <1>0, <1>1, SMTT(30) DEF AbsWrite, Writes
<1>2. CASE AbsOffer
  <2>1. PICK n, i : /\ i \in written /\ inc' = inc
                    /\ store' = [store EXCEPT ![n] = SetWithVersion(@, i.key, i.entry)]
    BY <1>2, Zenon DEF AbsOffer
  <2>2. i.key \in Key /\ i.entry \in Entry
    BY <1>0, <2>1, Zenon DEF Item
  <2>3. \A m \in Node : store'[m] = IF m = n THEN SetWithVersion(store[m], i.key, i.entry)
                                    ELSE store[m]
    BY <1>0, <2>1, Zenon
  <2>4. ASSUME NEW m \in Node PROVE store[m].clock <= store'[m].clock
    <3>1. SetWithVersion(store[m], i.key, i.entry).clock >= store[m].clock
      BY <1>0, <2>2, SetWithVersionGood, Zenon
    <3> QED
      BY <1>0, <2>3, <3>1, SMTT(30)
  <2> QED
    BY <2>1, <2>4, Zenon
<1>3. CASE AbsForget
  BY <1>0, <1>3, SMTT(30) DEF AbsForget
<1>4. CASE AbsConfirm \/ AbsNothing
  BY <1>0, <1>4, SMTT(30) DEF AbsConfirm, AbsNothing
<1> QED
  BY <1>1, <1>2, <1>3, <1>4, Zenon DEF AbsStep

LEMMA StampStep ==
  ASSUME InvStores, InvStores', StampInv, AbsStep, setup' = setup
  PROVE  StampInv'
<1> SUFFICES ASSUME \A n \in Node : inc'[n] = 0
             PROVE  /\ \A i \in written' : /\ i.entry.origin \in Node
                                           /\ i.entry.version <= store'[i.entry.origin].clock
                    /\ \A i, j \in written' :
                         /\ i.entry.version = j.entry.version
                         /\ i.entry.origin = j.entry.origin
                         => i = j
  BY Zenon DEF StampInv, Node
<1>0. /\ Node' = Node /\ inc' = inc
      /\ \A n \in Node : store[n].clock \in Nat /\ store'[n].clock \in Nat
                         /\ store[n].clock <= store'[n].clock
  BY ClockOnward, Zenon DEF InvStores, StoreState, Node
<1>1. /\ \A i \in written : /\ i.entry.origin \in Node /\ i.entry.version \in Nat
                            /\ i.entry.version <= store[i.entry.origin].clock
      /\ \A i, j \in written :
           i.entry.version = j.entry.version /\ i.entry.origin = j.entry.origin => i = j
  BY <1>0, EntryParts, Zenon DEF StampInv, InvStores, Item
<1>2. CASE written' = written
  BY <1>0, <1>1, <1>2, SMTT(30)
<1>3. CASE AbsWrite
  <2>1. PICK n, todo : Writes(n, todo)
    BY <1>3, Zenon DEF AbsWrite
  <2>2. /\ n \in Node /\ written' = written \cup todo /\ todo \subseteq Item
        /\ \A i \in todo : i.entry.origin = n /\ i.entry.version > store[n].clock
        /\ \A i, j \in todo : i.entry.version = j.entry.version => i = j
    BY <2>1, Zenon DEF Writes
  <2>3. ASSUME NEW i \in todo PROVE i.entry.version \in Nat /\ i.entry.version <= store'[n].clock
    <3>1. i.entry \in Entry /\ i.key \in Key /\ store'[n].tree[i.key] = i.entry /\ GoodStore(store'[n])
      BY <2>1, ZenonT(40) DEF Writes, Item
    <3> QED
      BY <3>1, EntryParts, Zenon DEF GoodStore, Dominates
  <2>4. \A i \in written' : /\ i.entry.origin \in Node
                            /\ i.entry.version <= store'[i.entry.origin].clock
    BY <1>0, <1>1, <2>2, <2>3, SMTT(30)
  <2>5. ASSUME NEW i \in written, NEW j \in todo
        PROVE  ~(i.entry.version = j.entry.version /\ i.entry.origin = j.entry.origin)
    BY <1>0, <1>1, <2>2, <2>3
  <2> QED
    BY <1>1, <2>2, <2>4, <2>5, SMTT(30)
<1> QED
  BY <1>2, <1>3, Zenon DEF AbsStep, AbsOffer, AbsForget, AbsConfirm, AbsNothing

\* All that is anywhere was written.
LEMMA AllItemsWritten == IInv => AllItems \subseteq written
<1> SUFFICES ASSUME IInv, NEW i \in AllItems PROVE i \in written
  BY Zenon
<1>1. CASE \E n \in Node : i \in Items(store[n].tree)
  BY <1>1, Zenon DEF IInv, InvStores
<1>2. CASE \E c \in Conn : conn[c].pc \in {"loop", "send", "wait"} /\ i \in conn[c].todo
  BY <1>2 DEF IInv, ConnInv, TodoInv, Idle
<1>3. CASE \E m \in net : m.type = "ReplicateReq" /\ i = m.item
  BY <1>3, Zenon DEF IInv, MsgInv, ReqInv
<1>4. CASE \E m \in net : m.type = "EntryBatch" /\ i \in m.items
  BY <1>4, Zenon DEF IInv, MsgInv, BatchInv
<1> DEFINE A == UNION {Items(store[n].tree) : n \in Node}
           B == UNION {conn[c].todo : c \in {x \in Conn : conn[x].pc \in {"loop", "send", "wait"}}}
           C == {m.item : m \in {x \in net : x.type = "ReplicateReq"}}
           D == UNION {m.items : m \in {x \in net : x.type = "EntryBatch"}}
<1>5. AllItems = A \cup B \cup C \cup D
  BY Zenon DEF AllItems
<1>6. i \in A => \E n \in Node : i \in Items(store[n].tree)
  BY Zenon
<1>7. i \in B => \E c \in Conn : conn[c].pc \in {"loop", "send", "wait"} /\ i \in conn[c].todo
  BY Zenon
<1>8. i \in C => \E m \in net : m.type = "ReplicateReq" /\ i = m.item
  BY Zenon
<1>9. i \in D => \E m \in net : m.type = "EntryBatch" /\ i \in m.items
  BY Zenon
<1> HIDE DEF A, B, C, D
<1> QED
  BY <1>1, <1>2, <1>3, <1>4, <1>5, <1>6, <1>7, <1>8, <1>9, Zenon

\* In a cluster without restarts a version and the name of its node belong to
\* one write, so that all nodes order any two writes alike.
THEOREM VersionsNameWrites == Spec => []StampsAreUnique
<1>1. Init => StampInv
  BY DEF Init, StampInv
<1>2. IInv /\ ClusterOK /\ IInv' /\ StampInv /\ [Next /\ Recorded]_vars => StampInv'
  <2> SUFFICES ASSUME IInv, ClusterOK, IInv', StampInv, [Next /\ Recorded]_vars PROVE StampInv'
    OBVIOUS
  <2>1. CASE Next /\ Recorded
    <3>1. AbsStep /\ InvStores /\ InvStores' /\ setup' = setup
      BY <2>1, StepInOrder, Zenon DEF IInv, Recorded
    <3> QED
      BY <3>1, StampStep, Zenon
  <2>2. CASE UNCHANGED vars
    BY <2>2, Zenon DEF vars, StampInv, Node
  <2> QED
    BY <2>1, <2>2, Zenon
<1>3. IInv /\ StampInv => StampsAreUnique
  BY AllItemsWritten DEF StampInv, StampsAreUnique
<1> QED
  BY <1>1, <1>2, <1>3, Invariance, ClusterInvariance, PTL DEF Spec

\* With W = RF the next owner of a key has every write that a replica confirmed:
\* a quorum as large as the replica set is the replica set.
THEOREM WritesOutliveOwners == Spec => []NextOwnerHoldsAckedWrite
<1>1. ASSUME IInv PROVE NextOwnerHoldsAckedWrite
  <2> SUFFICES ASSUME NEW a \in acked, NEW n \in Node, W = RF,
                      a.node \in GetReplicas(a.view, a.item.key, RF),
                      ring[n] \subseteq a.view,
                      ring[n] \cap GetReplicas(a.view, a.item.key, RF) # {},
                      inc[GetNode(ring[n], a.item.key)] = 0
               PROVE  AtLeast(store[GetNode(ring[n], a.item.key)].tree[a.item.key],
                              a.item.entry)
    BY Zenon DEF NextOwnerHoldsAckedWrite
  <2>1. /\ a.item \in Item /\ a.item.key \in Key /\ a.view \in SUBSET Origin
        /\ RF \in Nat \ {0} /\ Node \subseteq Origin /\ AckInv(a)
        /\ inc \in [Node -> Nat]
    <3>1. AckInv(a) /\ a.item \in Item /\ a.view \subseteq Node /\ inc \in [Node -> Nat]
      BY <1>1, Zenon DEF IInv, InvStores, AckInv, Success
    <3>2. RF \in Nat \ {0} /\ Node \subseteq Origin
      BY <1>1, SetupsAssumption, Zenon DEF IInv, InvStores, RF, Node
    <3> QED
      BY <3>1, <3>2, Zenon DEF Item
  <2>2. PICK R : R = GetReplicas(a.view, a.item.key, RF)
    OBVIOUS
  <2>3. PICK H : H = {l.node : l \in a.holders}
    BY Zenon
  <2>4. IsFiniteSet(R) /\ Cardinality(R) \in Nat /\ Cardinality(R) <= RF
    BY <2>1, <2>2, AtMostCount, Zenon
  <2>5. H \subseteq R /\ Cardinality(H) >= RF
    BY <2>1, <2>2, <2>3, Zenon DEF AckInv
  <2>6. H = R
    BY <2>1, <2>4, <2>5, FS_Subset, FS_CardinalityType, SMTT(30)
  <2>7. PICK o : o = GetNode(ring[n], a.item.key)
    OBVIOUS
  <2>8. o \in R
    BY <2>1, <2>2, <2>7, NextOwnerIsReplica, Zenon
  <2>9. PICK l \in a.holders : l.node = o
    BY <2>3, <2>6, <2>8, Zenon
  <2>10. Secured(l, a.item) /\ inc[o] = 0
    BY <2>1, <2>7, Zenon DEF AckInv
  <2> QED
    BY <2>1, <2>7, <2>9, <2>10, SMTT(30) DEF Secured, Holds, Life
<1> QED
  BY <1>1, Invariance, PTL

-----------------------------------------------------------------------------
\* The refinement mapping.
Trees == [n \in Node |-> store[n].tree]
Reported == {[item |-> a.item, holders |-> a.holders] : a \in acked}

\* ReplicatedMap compares entries as the stores do.
LEMMA SameOrder ==
  /\ RM!Item = Item /\ RM!Empty = [k \in Key |-> Absent]
  /\ \A a, b : RM!newer(a, b) <=> newer(a, b)
  /\ \A a, b : RM!AtLeast(a, b) <=> AtLeast(a, b)
  /\ \A S : RM!Cardinality(S) = Cardinality(S)
<1>1. \A a, b : RM!newer(a, b) <=> newer(a, b)
  BY DEF newer, RM!newer
<1>2. RM!Item = Item
  BY DEF RM!Item, Item, RM!Entry, Entry, RM!EmptyString, EmptyString
<1>3. \A S : RM!Cardinality(S) = Cardinality(S)
  BY Zenon DEF RM!Cardinality, Cardinality
<1> QED
  BY <1>1, <1>2, <1>3, Zenon DEF RM!Empty, AtLeast, RM!AtLeast

\* The empty cluster is the empty map.
LEMMA InitMaps == Init => RM!Init
<1> SUFFICES ASSUME Init PROVE RM!Init
  OBVIOUS
<1>1. W \in Nat /\ Node \in SUBSET Origin
  BY SetupsAssumption DEF Init, W, Node
<1>2. Trees = [n \in Node |-> RM!Empty]
  BY SameOrder, Zenon DEF Trees, Init, New
<1>3. Reported = {} /\ written = {} /\ inc = [n \in Node |-> 0]
  BY DEF Reported, Init
<1> QED
  BY <1>1, <1>2, <1>3, Zenon DEF RM!Init, Trees, Reported

\* A step that leaves stores and histories alone leaves the map alone.
LEMMA NothingMaps ==
  ASSUME AbsNothing, setup' = setup
  PROVE  UNCHANGED RM!vars
BY Zenon DEF AbsNothing, RM!vars, W, Node

\* SetFrom and Del are the map's Write.
LEMMA WriteMaps ==
  ASSUME InvStores, AbsWrite, setup' = setup
  PROVE  RM!Next
<1>1. PICK n, todo : Writes(n, todo) /\ inc' = inc /\ acked' = acked
  BY Zenon DEF AbsWrite
<1>2. /\ n \in Node /\ Node' = Node /\ W' = W /\ Reported' = Reported
      /\ DOMAIN Trees = Node /\ Trees[n] = store[n].tree /\ Trees' = [m \in Node |-> store'[m].tree]
  BY <1>1, Zenon DEF Writes, Trees, Reported, Node, W
<1>3. \A i \in todo : Trees[n][i.key] = Absent \/ RM!newer(i.entry, Trees[n][i.key])
  <2>1. \A i \in todo : store[n].tree[i.key] = Absent \/ newer(i.entry, store[n].tree[i.key])
    BY <1>1, Zenon DEF Writes
  <2>2. \A a, b : RM!newer(a, b) <=> newer(a, b)
    BY SameOrder, Zenon
  <2> QED
    BY <1>2, <2>1, <2>2, Zenon
<1>4. Trees' = [Trees EXCEPT ![n] =
                  [k \in Key |-> IF \E i \in todo : i.key = k
                                 THEN (CHOOSE i \in todo : i.key = k).entry ELSE @[k]]]
  <2> DEFINE f == [k \in Key |-> IF \E i \in todo : i.key = k
                                 THEN (CHOOSE i \in todo : i.key = k).entry
                                 ELSE store[n].tree[k]]
  <2>1. store'[n].tree = f
    <3>1. store'[n].tree = [k \in Key |-> store'[n].tree[k]]
      BY <1>1, Zenon DEF Writes, GoodStore, StoreState
    <3>2. ASSUME NEW k \in Key PROVE store'[n].tree[k] = f[k]
      <4>1. CASE \E i \in todo : i.key = k
        <5>1. PICK i : i \in todo /\ i.key = k /\ i = CHOOSE j \in todo : j.key = k
          BY <4>1, Zenon
        <5> QED
          BY <1>1, <4>1, <5>1, Zenon DEF Writes
      <4>2. CASE ~\E i \in todo : i.key = k
        BY <1>1, <4>2, Zenon DEF Writes
      <4> QED
        BY <4>1, <4>2, Zenon
    <3> HIDE DEF f
    <3>3. f = [k \in Key |-> f[k]]
      BY Zenon DEF f
    <3> QED
      BY <3>1, <3>2, <3>3, Zenon
  <2>2. \A m \in Node : m # n => store'[m].tree = store[m].tree
    BY <1>1 DEF Writes
  <2>3. Trees' = [Trees EXCEPT ![n] = f]
    <3> HIDE DEF f
    <3> QED
      BY <1>2, <2>1, <2>2, ZenonT(40) DEF Trees
  <2> QED
    BY <1>2, <2>3, Zenon
<1>5. RM!Write(n, todo)
  BY <1>1, <1>2, <1>3, <1>4, SameOrder, SMTT(30) DEF RM!Write, Writes, Trees, Reported
<1> QED
  BY <1>1, <1>2, <1>5, Zenon DEF RM!Next, Writes, Trees

\* SetWithVersion is the map's Learn, or nothing when the entry is not newer.
LEMMA OfferMaps ==
  ASSUME InvStores, AbsOffer, setup' = setup
  PROVE  RM!Next \/ UNCHANGED RM!vars
<1>1. PICK n, i : /\ i \in written /\ written' = written /\ inc' = inc /\ acked' = acked
                  /\ ring' = ring /\ nextID' = nextID
                  /\ store' = [store EXCEPT ![n] = SetWithVersion(@, i.key, i.entry)]
  BY Zenon DEF AbsOffer
<1>2. /\ \A m \in Node : m # n => store'[m] = store[m]
      /\ n \in Node => store'[n].tree = IF AtLeast(store[n].tree[i.key], i.entry)
                                       THEN store[n].tree
                                       ELSE [store[n].tree EXCEPT ![i.key] = i.entry]
  <2>1. nextID' \in Nat /\ nextID <= nextID'
    BY <1>1 DEF InvStores
  <2> QED
    BY <1>1, <2>1, OfferOnward, ZenonT(40)
<1>3. /\ Node' = Node /\ W' = W /\ Reported' = Reported
      /\ DOMAIN Trees = Node /\ Trees' = [m \in Node |-> store'[m].tree]
  BY <1>1 DEF Trees, Reported, Node, W
<1>4. CASE n \in Node /\ ~AtLeast(store[n].tree[i.key], i.entry)
  <2>1. Trees' = [Trees EXCEPT ![n][i.key] = i.entry] /\ Trees[n] = store[n].tree
    BY <1>2, <1>3, <1>4, ZenonT(40) DEF Trees
  <2>2. RM!Learn(n, i)
    <3>1. ~RM!Has(n, i)
      BY <1>4, <2>1, SameOrder, Zenon DEF RM!Has
    <3> QED
      BY <1>1, <1>3, <2>1, <3>1, Zenon DEF RM!Learn, Trees, Reported
  <2> QED
    BY <1>1, <1>3, <1>4, <2>2 DEF RM!Next, Trees
<1>5. CASE ~(n \in Node /\ ~AtLeast(store[n].tree[i.key], i.entry))
  <2>1. \A m \in Node : store'[m].tree = store[m].tree
    BY <1>2, <1>5, Zenon
  <2>2. Trees' = Trees
    BY <1>3, <2>1, Zenon DEF Trees
  <2> QED
    BY <1>1, <1>3, <2>2, Zenon DEF RM!vars, Trees, Reported
<1> QED
  BY <1>4, <1>5, Zenon

\* A restart is the map's Forget.
LEMMA ForgetMaps ==
  ASSUME InvStores, AbsForget, setup' = setup
  PROVE  RM!Next
<1>1. PICK n \in Node : /\ store' = [store EXCEPT ![n] = New] /\ inc' = [inc EXCEPT ![n] = @ + 1]
                        /\ written' = written /\ acked' = acked
  BY Zenon DEF AbsForget
<1>2. /\ Node' = Node /\ W' = W /\ Reported' = Reported
      /\ DOMAIN Trees = Node /\ Trees' = [m \in Node |-> store'[m].tree]
      /\ DOMAIN store = Node
  BY <1>1, Zenon DEF Trees, Reported, Node, W, InvStores
<1>3. Trees' = [Trees EXCEPT ![n] = RM!Empty]
  BY <1>1, <1>2, SameOrder, Zenon DEF Trees, New
<1>4. RM!Forget(n)
  BY <1>1, <1>2, <1>3, Zenon DEF RM!Forget, Trees, Reported
<1> QED
  BY <1>2, <1>4, Zenon DEF RM!Next, Trees

\* A quorum that is reached is the map's Confirm.
LEMMA ConfirmMaps ==
  ASSUME InvStores, AbsConfirm, setup' = setup
  PROVE  RM!Next
<1>1. PICK a : acked' = acked \cup {a} /\ AckInv(a)
  BY DEF AbsConfirm
<1>2. PICK c : c = [item |-> a.item, holders |-> a.holders]
  BY ZenonT(40)
<1>3. /\ Node' = Node /\ W' = W /\ Trees' = Trees /\ inc' = inc /\ written' = written
      /\ DOMAIN Trees = Node /\ \A n \in Node : Trees[n] = store[n].tree
  BY Zenon DEF Trees, Node, W, AbsConfirm
<1>4. Reported' = Reported \cup {c}
  BY <1>1, <1>2, Zenon DEF Reported
<1>5. /\ c.item \in written
      /\ Cardinality({h.node : h \in c.holders}) >= W
      /\ \A h \in c.holders : h \in [node : Node, inc : Nat] /\ h.inc <= inc[h.node]
                              /\ (inc[h.node] = h.inc => AtLeast(store[h.node].tree[c.item.key], c.item.entry))
  BY <1>1, <1>2, Zenon DEF AckInv, Secured, Life, Holds
<1>6. \A h \in c.holders : RM!HolderHas(h, c.item)
  BY <1>3, <1>5, SameOrder, SMTT(30) DEF RM!HolderHas, RM!Has, Trees
<1>7. RM!Confirm(c)
  <2>1. c.holders \subseteq [node : DOMAIN Trees, inc : Nat]
    BY <1>3, <1>5, SMTT(30)
  <2>2. \A h \in c.holders : h.inc <= inc[h.node] /\ RM!HolderHas(h, c.item)
    BY <1>5, <1>6, Zenon
  <2> QED
    BY <1>3, <1>4, <1>5, <2>1, <2>2, SameOrder, SMTT(30), Zenon DEF RM!Confirm, Trees, Reported
<1> QED
  BY <1>4, <1>7, Zenon DEF RM!Next, Reported

\* The cluster of servers implements the replicated map: SET, DEL, quorum
\* replication, anti-entropy, membership changes and restarts, whatever the
\* network does, show a client nothing but writes, entries on their way between
\* nodes, restarts, and confirmations of writes that W nodes have.
THEOREM ClusterImplementsMap == Spec => ImplementsReplicatedMap
<1>1. Init => RM!Init
  BY InitMaps
<1>2. IInv /\ ClusterOK /\ [Next /\ Recorded]_vars => [RM!Next]_(RM!vars)
  <2> SUFFICES ASSUME IInv, ClusterOK, [Next /\ Recorded]_vars PROVE RM!Next \/ UNCHANGED RM!vars
    OBVIOUS
  <2>1. CASE UNCHANGED vars
    BY <2>1, NothingMaps, Zenon DEF vars, AbsNothing
  <2>2. CASE Next /\ Recorded
    <3>1. AbsStep /\ InvStores /\ setup' = setup
      BY <2>2, StepInOrder, Zenon DEF IInv, Recorded
    <3> QED
      BY <3>1, NothingMaps, WriteMaps, OfferMaps, ForgetMaps, ConfirmMaps, SMTT(30) DEF AbsStep
  <2> QED
    BY <2>1, <2>2, Zenon
<1> QED
  BY <1>1, <1>2, Invariance, ClusterInvariance, PTL DEF Spec, ImplementsReplicatedMap, RM!Spec
=============================================================================
