--------------------------- MODULE QuorumProofs -----------------------------
(***************************************************************************)
(* ReplicateWithQuorum keeps the invariant: the local success at W = 1, the*)
(* requests, the answers it counts and the success it then reports; and so *)
(* do the handlers of requests and answers.                                *)
(***************************************************************************)
EXTENDS ReplicationInvariant

\* A write is reported as successful with holders that have it.
LEMMA SucceedKeeps ==
  ASSUME IInv, Recorded, NEW c \in Conn, conn[c].pc \in {"loop", "send", "wait"},
         NEW item \in conn[c].todo, NEW view, NEW holders, Succeed(c, item, view, holders),
         view \subseteq Node,
         \A h \in holders : Secured(h, item) /\ h.node \in GetReplicas(view, item.key, RF),
         Cardinality({l.node : l \in holders \cup {Current(conn[c].node)}}) >= W,
         store' = store, inc' = inc, ring' = ring, net' = net, nextID' = nextID
  PROVE  /\ IInv' /\ written' = written
         /\ \E a : acked' = acked \cup {a} /\ AckInv(a)
<1>0. /\ DOMAIN conn = Conn /\ conn[c].node \in Node /\ TodoInv(conn[c]) /\ nextID \in Nat
      /\ setup' = setup /\ written \subseteq Item
  BY DEF IInv, ConnInv, Idle, Recorded, InvStores
<1>1. /\ conn' = [conn EXCEPT ![c] = Rest(conn[c].node, conn[c].todo, item)]
      /\ acked' = acked \cup
           {[item |-> item, node |-> conn[c].node, view |-> view,
             holders |-> holders \cup {Current(conn[c].node)}]}
  BY DEF Succeed, Current
<1>2. OnlyConn(c) /\ conn'[c] = Rest(conn[c].node, conn[c].todo, item)
  BY <1>0, <1>1 DEF OnlyConn
<1>3. PICK n, todo : n = conn[c].node /\ todo = conn[c].todo
  BY Zenon
<1>4. written' = written
  BY <1>2, NothingWritten DEF OnlyConn
<1>5. n \in Node /\ todo \subseteq written /\ \A i \in todo : Secured(Current(n), i)
  BY <1>0, <1>3, Zenon DEF TodoInv
<1>6. \A l, i : Secured(l, i) => Secured(l, i)'
  BY <1>0 DEF Secured, Life, Node, Holds
<1>7. ConnInv(conn[c])' /\ ~Pending(c)'
  <2>1. Current(n)' = Current(n) /\ Node' = Node
    BY <1>0 DEF Current, Node
  <2>2. CASE todo = {item}
    BY <2>2, <1>2, <1>3, IdleInOrder, Zenon DEF Rest, Pending
  <2>3. CASE todo # {item}
    <3>1. conn'[c] = [pc |-> "loop", node |-> n, todo |-> todo \ {item}]
      BY <2>3, <1>2, <1>3, Zenon DEF Rest
    <3>2. conn'[c] \in Looping'
      BY <3>1, <1>0, <1>5, <2>1 DEF Looping
    <3> QED
      BY <3>1, <3>2, <1>4, <1>5, <1>6, <2>1, SMTT(30)
         DEF ConnInv, CmdInv, TodoInv, PendingInv, AnswersInv, Pending
  <2> QED
    BY <2>2, <2>3, Zenon
<1>8. PICK a : a = [item |-> item, node |-> conn[c].node, view |-> view,
                    holders |-> holders \cup {Current(conn[c].node)}]
  BY Zenon
<1>9. acked' = acked \cup {a} /\ AckInv(a)
  <2>1. /\ a.item = item /\ a.holders = holders \cup {Current(conn[c].node)}
        /\ a.view = view /\ a.node = conn[c].node /\ Current(conn[c].node).node = conn[c].node
    BY <1>8 DEF Current
  <2>2. item \in written /\ Secured(Current(conn[c].node), item)
    BY <1>3, <1>5, Zenon
  <2>3. a.holders \subseteq Life /\ \A l \in a.holders : Secured(l, item)
    BY <2>1, <2>2, Zenon DEF Secured
  <2>4. a \in Success
    BY <1>0, <1>8, <2>1, <2>2, <2>3, Zenon DEF Success
  <2> QED
    BY <1>1, <1>8, <2>1, <2>2, <2>3, <2>4, Zenon DEF AckInv
<1>10. AckInv(a)'
  <2>1. W' = W /\ RF' = RF /\ Success' = Success
    BY <1>0, SameTypes, Zenon
  <2> QED
    BY <1>4, <1>6, <1>9, <2>1, Zenon DEF AckInv
<1>11. \A b \in acked' : b \in acked \/ AckInv(b)'
  BY <1>9, <1>10, Zenon
<1> QED
  BY <1>0, <1>2, <1>4, <1>7, <1>9, <1>11, ConnStep, SMTT(30)

\* What a step that changes neither stores nor lives keeps.
LEMMA SecuredQuiet ==
  ASSUME setup' = setup, store' = store, inc' = inc
  PROVE  /\ \A l, i : Secured(l, i) => Secured(l, i)'
         /\ \A n : Current(n)' = Current(n)
BY SameTypes DEF Secured, Holds, Current

\* The node's own store already has the item of the command.
LEMMA OwnOfferIsNothing ==
  ASSUME InvStores, NEW n \in Node, NEW item \in Item, Secured(Current(n), item)
  PROVE  [store EXCEPT ![n] = SetWithVersion(@, item.key, item.entry)] = store
<1>1. AtLeast(store[n].tree[item.key], item.entry)
  BY DEF Secured, Current, Holds
<1>2. /\ store \in [Node -> StoreState] /\ item.entry \in Entry
      /\ store[n].tree[item.key] \in Entry \cup {Absent}
  BY ZenonT(40) DEF InvStores, Item, StoreState
<1>3. ~Accepts(store[n], item.key, item.entry)
  BY <1>1, <1>2, NewerAsymmetric, EntryParts, ZenonT(40) DEF Accepts, AtLeast, newer
<1>4. SetWithVersion(store[n], item.key, item.entry) = store[n]
  BY <1>3, ZenonT(40) DEF SetWithVersion
<1> QED
  BY <1>2, <1>4, Zenon

\* ReplicateWithQuorum takes up an item: at W = 1 it succeeds at once.
LEMMA BeginReplicateKeeps ==
  ASSUME IInv, Recorded, NEW c \in Conn, conn[c].pc = "loop",
         NEW item \in conn[c].todo, BeginReplicate(c, item)
  PROVE  /\ IInv' /\ written' = written /\ store' = store
         /\ acked' = acked \/ \E a : acked' = acked \cup {a} /\ AckInv(a)
<1>0. /\ DOMAIN conn = Conn /\ conn[c].node \in Node /\ TodoInv(conn[c]) /\ nextID \in Nat
      /\ setup' = setup /\ inc' = inc /\ ring' = ring /\ net' = net
      /\ ring[conn[c].node] \subseteq Node /\ setup \in Setups
      /\ InvStores /\ Node \subseteq Origin /\ RF \in Nat \ {0}
  BY SetupsAssumption DEF IInv, ConnInv, Idle, Recorded, InvStores, BeginReplicate, cluster, Node, RF
<1>1. PICK n, todo : n = conn[c].node /\ todo = conn[c].todo
  BY Zenon
<1>2. /\ n \in Node /\ todo \subseteq written /\ written \subseteq Item /\ item \in todo
      /\ \A i \in todo : Secured(Current(n), i)
  BY <1>0, <1>1, Zenon DEF TodoInv, InvStores
<1>3. store' = store
  BY <1>0, <1>1, <1>2, OwnOfferIsNothing, SMTT(30), Zenon DEF BeginReplicate
<1>4. W \in Nat
  BY <1>0, SetupsAssumption, SMTT(30), Zenon DEF W
<1> DEFINE remote == GetReplicas(ring[n], item.key, RF) \ {n}
<1>5. CASE W <= 1 /\ Succeed(c, item, ring[n], {}) /\ nextID' = nextID
  <2>1. {l.node : l \in {} \cup {Current(conn[c].node)}} = {n}
    BY <1>1 DEF Current
  <2>2. Cardinality({l.node : l \in {} \cup {Current(conn[c].node)}}) >= W
    BY <1>4, <1>5, <2>1, FS_Singleton, Zenon
  <2> QED
    BY <1>0, <1>1, <1>3, <1>5, <2>2, SucceedKeeps, SMTT(30), Zenon
<1>6. CASE conn' = [conn EXCEPT ![c] = Idle] /\ nextID' = nextID /\ acked' = acked
  <2>1. OnlyConn(c) /\ conn'[c] = Idle
    BY <1>0, <1>6 DEF OnlyConn
  <2>2. ConnInv(conn[c])' /\ ~Pending(c)'
    BY <2>1, IdleInOrder, Zenon DEF Pending
  <2>3. written' = written
    BY <2>1, IdleInOrder, NothingWritten, Zenon DEF OnlyConn
  <2> QED
    BY <1>0, <1>3, <1>6, <2>1, <2>2, <2>3, ConnStep, SMTT(30), Zenon
<1>7. CASE /\ W > 1 /\ W <= Cardinality(remote) + 1
           /\ conn' = [conn EXCEPT ![c] =
                [pc |-> "send", node |-> n, todo |-> todo, item |-> item,
                 id |-> nextID, view |-> ring[n], remote |-> remote, left |-> remote,
                 expected |-> {}, ch |-> <<>>, got |-> {}]]
           /\ nextID' = nextID + 1 /\ acked' = acked
  <2>1. /\ remote \subseteq Node \ {n} /\ ring[n] \subseteq Node
        /\ remote \subseteq GetReplicas(ring[n], item.key, RF)
    BY <1>0, <1>1, Zenon DEF GetReplicas
  <2>2. remote # {} /\ Cardinality(remote) \in Nat
    <3>1. remote # {}
      BY <1>4, <1>7, FS_EmptySet, SMTT(30), Zenon
    <3>2. remote \in SUBSET Origin
      BY <1>0, <2>1
    <3> HIDE DEF remote
    <3> QED
      BY <3>1, <3>2, OriginAssumption, FS_Subset, FS_CardinalityType
  <2>3. PICK far : far = remote
    BY Zenon
  <2> HIDE DEF remote
  <2>4. OnlyConn(c) /\ conn'[c] = [pc |-> "send", node |-> n, todo |-> todo, item |-> item,
                 id |-> nextID, view |-> ring[n], remote |-> far, left |-> far,
                 expected |-> {}, ch |-> <<>>, got |-> {}]
    BY <1>0, <1>7, <2>3, Zenon DEF OnlyConn
  <2>5. written' = written
    BY <2>4, NothingWritten, Zenon DEF OnlyConn
  <2>6. PICK q : q = conn'[c]
    OBVIOUS
  <2>7. /\ q.pc = "send" /\ q.node = n /\ q.todo = todo /\ q.item = item /\ q.id = nextID
        /\ q.left = far /\ q.expected = {} /\ q.ch = <<>> /\ q.got = {} /\ q.view = ring[n]
        /\ q.remote = far
    BY <2>4, <2>6
  <2>8. /\ \A i \in todo : Secured(Current(n), i)'
        /\ Current(n)' = Current(n) /\ Node' = Node /\ RF' = RF /\ Replicating' = Replicating
    BY <1>0, <1>2, <1>3, SecuredQuiet, SameTypes, SMTT(30), Zenon
  <2>11. q \in Replicating /\ Len(q.ch) <= Cardinality(q.remote)
    <3>1. n \in Node /\ todo \in SUBSET Item /\ item \in Item /\ far \in SUBSET Node
      BY <1>2, <2>1, <2>3, ZenonT(40)
    <3>2. ring[n] \in SUBSET Node /\ <<>> \in Seq(Ack) /\ {} \in SUBSET Life /\ nextID \in Nat
      BY <1>0, <2>1, SMTT(30)
    <3>3. q \in Replicating
      BY <2>4, <2>6, <3>1, <3>2, SMTT(30), Zenon DEF Replicating
    <3> QED
      BY <2>2, <2>3, <2>7, <3>3
  <2>9. ConnInv(q)'
    <3>1. TodoInv(q)' /\ CmdInv(q)'
      BY <1>2, <2>5, <2>7, <2>8, SMTT(30), Zenon DEF TodoInv, CmdInv
    <3>2. PendingInv(q)'
      BY <1>0, <1>2, <1>7, <2>1, <2>2, <2>3, <2>7, <2>8, <2>11, SMTT(30), Zenon DEF PendingInv
    <3>3. AnswersInv(q)'
      <4>1. {g.node : g \in q.got} = {}
        BY <2>7
      <4>2. q.ch \in Seq(Ack') /\ Len(q.ch) = 0
        BY <2>7
      <4>3. /\ IsFiniteSet(q.got) /\ IsFiniteSet({g.node : g \in q.got})
            /\ Cardinality({g.node : g \in q.got}) = Cardinality(q.got)
        BY <2>7, <4>1, FS_EmptySet, Zenon
      <4>4. \A i \in 1 .. Len(q.ch) : FALSE
        BY <4>2, SMTT(30)
      <4> QED
        BY <2>7, <4>2, <4>3, <4>4, Zenon DEF AnswersInv
    <3> QED
      BY <1>2, <2>7, <2>8, <3>1, <3>2, <3>3, SMTT(30), Zenon DEF ConnInv
  <2>10. /\ nextID' \in Nat /\ nextID <= nextID' /\ ConnInv(conn[c])'
         /\ ~(conn'[c].id < nextID)
    BY <1>0, <1>7, <2>6, <2>7, <2>9, SMTT(30)
  <2> QED
    BY <1>0, <1>3, <1>7, <2>4, <2>5, <2>10, ConnStep, ZenonT(40)
<1> QED
  BY <1>1, <1>5, <1>6, <1>7, SMTT(30), Zenon DEF BeginReplicate

-----------------------------------------------------------------------------
\* A request goes out with the command's own item.
LEMMA SendKeeps ==
  ASSUME IInv, Recorded, NEW c \in Conn, NEW delivered, NEW reported,
         Send(c, delivered, reported)
  PROVE  IInv' /\ written' = written
<1> DEFINE first == CHOOSE x \in conn[c].left :
                      \A y \in conn[c].left : Rank[conn[c].item.key][x] <= Rank[conn[c].item.key][y]
<1>0. /\ DOMAIN conn = Conn /\ conn[c].pc = "send" /\ ConnInv(conn[c]) /\ nextID \in Nat
      /\ setup' = setup /\ inc' = inc /\ ring' = ring /\ store' = store
      /\ nextID' = nextID /\ acked' = acked
      /\ setup \in Setups /\ written \subseteq Item /\ InvStores
  BY Zenon DEF IInv, Recorded, InvStores, Send, cluster
<1>1. PICK p : p = conn[c]
  BY Zenon
<1>2. /\ p # Idle /\ p.pc = "send" /\ p.node \in Node
      /\ TodoInv(p) /\ PendingInv(p) /\ AnswersInv(p) /\ CmdInv(p)
      /\ p.left \subseteq Node \ {p.node} /\ p.left # {}
      /\ p.item \in written /\ p.item \in Item /\ p \in Replicating
  <2>1. /\ p # Idle /\ p.pc = "send" /\ p.node \in Node
        /\ TodoInv(p) /\ PendingInv(p) /\ AnswersInv(p) /\ CmdInv(p)
    BY <1>0, <1>1 DEF ConnInv, Idle
  <2>2. p.left \subseteq Node \ {p.node} /\ p.left # {} /\ p.item \in p.todo /\ p \in Replicating
    BY <2>1 DEF PendingInv
  <2>3. p.todo \subseteq written
    BY <2>1, Zenon DEF TodoInv
  <2> QED
    BY <1>0, <2>1, <2>2, <2>3, Zenon
<1>3. PICK r : r = first
  BY SMTT(30)
<1>4. r \in p.left
  <2>1. p.left \in SUBSET Origin /\ p.item.key \in Key
    BY <1>0, <1>2, SetupsAssumption, Zenon DEF Node, Item
  <2> QED
    BY <1>1, <1>2, <1>3, <2>1, FirstExists, SMTT(30), Zenon
<1> HIDE DEF first
<1>5. PICK expected : expected = IF reported THEN p.expected \cup {r} ELSE p.expected
  BY Zenon
<1> DEFINE more == [p EXCEPT !.left = @ \ {r}, !.expected = expected]
           wait == [p EXCEPT !.pc = "wait", !.left = {}, !.expected = expected]
<1>6. /\ conn' = [conn EXCEPT ![c] = IF p.left # {r} THEN more
                                     ELSE IF Cardinality(expected) + 1 < W THEN Idle ELSE wait]
      /\ net' = IF delivered THEN net \cup {Request(r, p.node, p.id, p.item)} ELSE net
  BY <1>1, <1>3, <1>5, ZenonT(40) DEF Send, first
<1>7. PICK q : /\ q = conn'[c] /\ OnlyConn(c)
               /\ \/ q = more /\ p.left # {r}
                  \/ q = Idle
                  \/ q = wait
  BY <1>0, <1>6 DEF OnlyConn
<1>8. /\ expected \subseteq Node \ {p.node} /\ p.expected \subseteq expected
      /\ p.left \cup expected \subseteq GetReplicas(p.view, p.item.key, RF)
  BY <1>2, <1>4, <1>5, SMTT(30), Zenon DEF PendingInv
<1>9. ASSUME q # Idle
      PROVE  /\ ConnInv(q) /\ q.pc \in {"send", "wait"}
             /\ q.node = p.node /\ q.id = p.id /\ q.item = p.item
  <2>1. /\ q.pc \in {"send", "wait"} /\ q.node = p.node /\ q.todo = p.todo /\ q.item = p.item
        /\ q.id = p.id /\ q.expected = expected /\ q.ch = p.ch /\ q.got = p.got
        /\ q \in Replicating /\ q.view = p.view /\ q.remote = p.remote
        /\ q.left \subseteq p.left /\ (q.pc = "send" => q.left # {})
    <3>1. CASE q = more /\ p.left # {r}
      <4>1. /\ q.pc = "send" /\ q.node = p.node /\ q.todo = p.todo /\ q.item = p.item
            /\ q.id = p.id /\ q.expected = expected /\ q.ch = p.ch /\ q.got = p.got
            /\ q \in Replicating /\ q.left = p.left \ {r} /\ q.view = p.view /\ q.remote = p.remote
        BY <1>2, <1>8, <3>1, Zenon DEF Replicating
      <4> HIDE DEF more
      <4> QED
        BY <1>4, <3>1, <4>1, Zenon
    <3>2. CASE q = wait
      <4>1. /\ q.pc = "wait" /\ q.node = p.node /\ q.todo = p.todo /\ q.item = p.item
            /\ q.id = p.id /\ q.expected = expected /\ q.ch = p.ch /\ q.got = p.got
            /\ q \in Replicating /\ q.left = {} /\ q.view = p.view /\ q.remote = p.remote
        BY <1>2, <1>8, <3>2, ZenonT(40) DEF Replicating
      <4> HIDE DEF wait
      <4> QED
        BY <4>1
    <3> HIDE DEF more, wait
    <3> QED
      BY <1>7, <1>9, <3>1, <3>2, Zenon
  <2> HIDE DEF more, wait
  <2>2. TodoInv(q) /\ CmdInv(q)
    BY <1>2, <2>1, Zenon DEF TodoInv, CmdInv
  <2>3. PendingInv(q)
    BY <1>2, <1>8, <2>1, ZenonT(40) DEF PendingInv
  <2>4. AnswersInv(q)
    BY <1>2, <1>8, <2>1, Zenon DEF AnswersInv
  <2> QED
    BY <1>2, <2>1, <2>2, <2>3, <2>4, ZenonT(40) DEF ConnInv
<1> HIDE DEF more, wait
<1>10. /\ ConnInv(q) /\ q.pc # "loop"
       /\ q.pc \in {"send", "wait"} => q.id = p.id /\ q.item = p.item
  BY <1>9 DEF ConnInv, Idle
<1>11. written' = written
  BY <1>7, <1>10, NothingWritten, Zenon DEF OnlyConn
<1>12. ConnInv(conn[c])'
  <2>1. Onward
    BY <1>0, <1>11, QuietOnward, SMTT(30) DEF InvStores
  <2>2. ConnInv(q)'
    BY <1>0, <1>10, <2>1, ConnOnward, SMTT(30)
  <2> QED
    BY <1>7, <2>2, SMTT(30)
<1>13. Pending(c) /\ (Pending(c)' => conn'[c].id = conn[c].id /\ conn'[c].item = conn[c].item)
  BY <1>1, <1>2, <1>7, <1>10, SMTT(30), Zenon DEF Pending
<1>14. ASSUME NEW m, m = Request(r, p.node, p.id, p.item)
       PROVE  MsgInv(m)'
  <2>1. m.type = "ReplicateReq" /\ m.to = r /\ m.id = p.id /\ m.item = p.item
    BY <1>14, SMTT(30) DEF Request
  <2>2. ASSUME NEW d \in Conn, Pending(d)', conn'[d].id = p.id
        PROVE  conn'[d].item = p.item
    BY <1>1, <1>7, <1>13, <2>2, SMTT(30) DEF IInv, SameRequest, OnlyConn, Pending
  <2>3. r \in Node' /\ p.id \in Nat /\ p.id < nextID' /\ p.item \in written'
    BY <1>0, <1>2, <1>4, <1>11, SMTT(30), Zenon DEF Node, PendingInv
  <2>4. m \in Message'
    <3>1. m \in Message
      BY <1>2, <1>4, <1>14, <2>3, ZenonT(40) DEF Request, Message
    <3> QED
      BY <1>0, <3>1, SameTypes, Zenon
  <2> QED
    BY <2>1, <2>2, <2>3, <2>4, Zenon DEF MsgInv, ReqInv, RespInv, BatchInv
<1>15. \A m \in net' : m \in net \/ MsgInv(m)'
  BY <1>6, <1>14
<1> QED
  BY <1>0, <1>7, <1>11, <1>12, <1>13, <1>15, ConnStep, SMTT(30), Zenon

\* The answers counted so far, with one more: still one for each node.
LEMMA CountedOnce ==
  ASSUME NEW got, NEW g, IsFiniteSet(got), IsFiniteSet({x.node : x \in got}),
         Cardinality({x.node : x \in got}) = Cardinality(got),
         \A x \in got : x.node # g.node
  PROVE  /\ IsFiniteSet(got \cup {g}) /\ IsFiniteSet({x.node : x \in got \cup {g}})
         /\ Cardinality({x.node : x \in got \cup {g}}) = Cardinality(got \cup {g})
         /\ Cardinality({x.node : x \in got \cup {g}}) = Cardinality({x.node : x \in got}) + 1
<1>1. {x.node : x \in got \cup {g}} = {x.node : x \in got} \cup {g.node}
  OBVIOUS
<1>2. g \notin got /\ g.node \notin {x.node : x \in got}
  OBVIOUS
<1> QED
  BY <1>1, <1>2, FS_AddElement, ZenonT(40)

\* An answer is counted, and the last one needed reports the write.
LEMMA TakeAckKeeps ==
  ASSUME IInv, Recorded, NEW c \in Conn, TakeAck(c)
  PROVE  /\ IInv' /\ written' = written
         /\ acked' = acked \/ \E a : acked' = acked \cup {a} /\ AckInv(a)
<1>0. /\ DOMAIN conn = Conn /\ conn[c].pc = "wait" /\ conn[c].ch # <<>> /\ ConnInv(conn[c])
      /\ setup' = setup /\ inc' = inc /\ ring' = ring /\ store' = store /\ net' = net
      /\ nextID' = nextID /\ nextID \in Nat
      /\ setup \in Setups /\ written \subseteq Item /\ InvStores
  BY DEF IInv, Recorded, InvStores, TakeAck, cluster
<1>1. PICK p : p = conn[c]
  BY Zenon
<1>2. /\ p # Idle /\ p.pc = "wait" /\ p.node \in Node
      /\ TodoInv(p) /\ PendingInv(p) /\ AnswersInv(p) /\ CmdInv(p)
      /\ p.ch \in Seq(Ack) /\ p.ch # <<>> /\ p.item \in p.todo
      /\ p.expected \subseteq Node \ {p.node}
      /\ p.view \subseteq Node /\ p.expected \subseteq GetReplicas(p.view, p.item.key, RF)
      /\ p \in Replicating /\ Len(p.ch) <= Cardinality(p.remote) /\ Cardinality(p.remote) \in Nat
  <2>1. /\ p # Idle /\ p.pc = "wait" /\ p.node \in Node /\ p.ch # <<>>
        /\ TodoInv(p) /\ PendingInv(p) /\ AnswersInv(p) /\ CmdInv(p)
    BY <1>0, <1>1 DEF ConnInv, Idle
  <2>2. p.ch \in Seq(Ack)
    BY <2>1 DEF AnswersInv
  <2> QED
    BY <2>1, <2>2, Zenon DEF PendingInv
<1>3. PICK ack : ack = Head(p.ch)
  OBVIOUS
<1>4. ack = p.ch[1] /\ 1 \in 1 .. Len(p.ch) /\ ack \in Ack
  BY <1>2, <1>3, SMTT(30), Zenon
<1>5. ack.ok => Secured(Stamp(ack), p.item)
  BY <1>2, <1>4, Zenon DEF AnswersInv
<1> DEFINE counts == ack.node \in p.expected /\ ack.ok /\ \A g \in p.got : g.node # ack.node
<1>6. PICK got : got = IF counts THEN p.got \cup {Stamp(ack)} ELSE p.got
  BY Zenon
<1>7. /\ IsFiniteSet(got) /\ IsFiniteSet({g.node : g \in got})
      /\ Cardinality({g.node : g \in got}) = Cardinality(got)
      /\ \A g \in got : Secured(g, p.item) /\ g.node \in p.expected
  <2>1. CASE counts
    <3>1. Stamp(ack).node = ack.node
      BY DEF Stamp
    <3> QED
      BY <2>1, <3>1, <1>2, <1>5, <1>6, CountedOnce, ZenonT(40) DEF AnswersInv
  <2>2. CASE ~counts
    BY <2>2, <1>2, <1>6, ZenonT(40) DEF AnswersInv
  <2> QED
    BY <2>1, <2>2
<1> DEFINE more == [p EXCEPT !.ch = Tail(@), !.got = got]
<1>8. IF Cardinality(got) + 1 >= W
      THEN Succeed(c, p.item, p.view, got)
      ELSE conn' = [conn EXCEPT ![c] = more] /\ acked' = acked
  BY <1>1, <1>3, <1>6, Zenon DEF TakeAck, Stamp
<1>9. CASE Cardinality(got) + 1 >= W
  <2>1. {l.node : l \in got \cup {Current(p.node)}} = {l.node : l \in got} \cup {p.node}
    <3>1. Current(p.node).node = p.node
      BY Zenon DEF Current
    <3> QED
      BY <3>1, Zenon
  <2>2. p.node \notin {l.node : l \in got}
    BY <1>2, <1>7
  <2>3. Cardinality({l.node : l \in got \cup {Current(p.node)}}) >= W
    BY <1>7, <1>9, <2>1, <2>2, FS_AddElement, ZenonT(40)
  <2> QED
    BY <1>0, <1>1, <1>2, <1>7, <1>8, <1>9, <2>3, SucceedKeeps, SMTT(30)
<1>10. CASE ~(Cardinality(got) + 1 >= W)
  <2>1. PICK q : q = more
    OBVIOUS
  <2>2. /\ q.pc = "wait" /\ q.node = p.node /\ q.todo = p.todo /\ q.item = p.item
        /\ q.id = p.id /\ q.expected = p.expected /\ q.left = p.left
        /\ q.ch = Tail(p.ch) /\ q.got = got /\ q.view = p.view /\ q.remote = p.remote
    BY <1>2, <2>1, Zenon DEF Replicating
  <2>3. OnlyConn(c) /\ conn'[c] = q
    BY <1>0, <1>8, <1>10, <2>1, SMTT(30) DEF OnlyConn
  <2>11. q \in Replicating
    <3>1. Tail(p.ch) \in Seq(Ack) /\ got \in SUBSET Life
      BY <1>2, <1>7 DEF Secured
    <3> QED
      BY <1>2, <2>1, <3>1, ZenonT(40) DEF Replicating
  <2> HIDE DEF more
  <2>4. /\ q.ch \in Seq(Ack) /\ Len(q.ch) <= Cardinality(q.remote)
        /\ \A i \in 1 .. Len(q.ch) : q.ch[i] = p.ch[i + 1] /\ i + 1 \in 1 .. Len(p.ch)
    BY <1>2, <2>2, SMTT(30), Zenon
  <2>5. AnswersInv(q)
    BY <1>2, <1>7, <2>2, <2>4, SMTT(30), Zenon DEF AnswersInv
  <2>6. ConnInv(q)
    <3>1. TodoInv(q) /\ CmdInv(q)
      BY <1>2, <2>2, ZenonT(40) DEF TodoInv, CmdInv
    <3>2. PendingInv(q)
      BY <1>2, <2>2, <2>4, <2>11, Zenon DEF PendingInv
    <3> QED
      BY <1>2, <2>2, <2>5, <3>1, <3>2 DEF ConnInv
  <2>7. written' = written
    BY <2>2, <2>3, NothingWritten, SMTT(30) DEF OnlyConn
  <2>8. Onward
    BY <1>0, <2>7, QuietOnward, SMTT(30) DEF InvStores
  <2>9. ConnInv(conn[c])'
    BY <1>0, <2>3, <2>6, <2>8, ConnOnward, SMTT(30)
  <2>10. Pending(c) /\ conn'[c].id = conn[c].id /\ conn'[c].item = conn[c].item
    BY <1>1, <1>2, <2>2, <2>3, SMTT(30) DEF Pending
  <2> QED
    BY <1>0, <1>8, <1>10, <2>3, <2>7, <2>9, <2>10, ConnStep, SMTT(30)
<1> QED
  BY <1>9, <1>10, Zenon

-----------------------------------------------------------------------------
\* A replica answers success only after its store was offered the item.
LEMMA HandleRequestKeeps ==
  ASSUME IInv, Recorded, NEW m \in net, HandleRequest(m)
  PROVE  /\ IInv' /\ written' = written
         /\ store' = store \/ /\ m.item \in written
                              /\ store' = [store EXCEPT ![m.to] = SetWithVersion(@, m.item.key, m.item.entry)]
<1>0. /\ m.type = "ReplicateReq" /\ conn' = conn /\ setup' = setup /\ inc' = inc
      /\ ring' = ring /\ nextID' = nextID /\ acked' = acked /\ nextID \in Nat /\ InvStores
      /\ ReqInv(m) /\ m \in Message
  BY DEF HandleRequest, Recorded, cluster, IInv, InvStores, MsgInv
<1>1. written' = written
  BY <1>0, NothingWritten, SMTT(30), Zenon
<1>2. /\ m.to \in Node /\ m.from \in Node /\ m.item \in written /\ m.id \in Nat /\ m.id < nextID
      /\ \A c \in Conn : Pending(c) /\ conn[c].id = m.id => conn[c].item = m.item
  <2>1. m.from \in Node
    BY <1>0 DEF Message
  <2> QED
    BY <1>0, <2>1, Zenon DEF ReqInv
<1>3. PICK ok : ok = IsReplica(m.to, m.item.key)
  BY Zenon
<1>4. /\ store' = IF ok THEN [store EXCEPT ![m.to] = SetWithVersion(@, m.item.key, m.item.entry)]
                  ELSE store
      /\ net' \subseteq net \cup {Response(m.from, m.to, m.id, ok)}
      /\ ok \in BOOLEAN
  <2>1. ok \in BOOLEAN
    BY <1>3, SMTT(30) DEF IsReplica
  <2>2. store' = IF ok THEN [store EXCEPT ![m.to] = SetWithVersion(@, m.item.key, m.item.entry)]
                 ELSE store
    BY <1>3 DEF HandleRequest
  <2>3. net' \subseteq net \cup {Response(m.from, m.to, m.id, ok)}
    BY <1>3, Zenon DEF HandleRequest
  <2> QED
    BY <2>1, <2>2, <2>3, Zenon
<1>5. Onward /\ (ok => AtLeast(store'[m.to].tree[m.item.key], m.item.entry))
  <2>1. CASE ok
    <3>1. PICK n, i : n = m.to /\ i = m.item
      BY ZenonT(40)
    <3>2. /\ store' = [store EXCEPT ![n] = SetWithVersion(@, i.key, i.entry)]
          /\ nextID' \in Nat /\ nextID <= nextID' /\ i \in written
      BY <1>0, <1>2, <1>4, <2>1, <3>1
    <3>3. Onward /\ (n \in Node => AtLeast(store'[n].tree[i.key], i.entry))
      BY <1>0, <1>1, <3>2, OfferOnward, ZenonT(40)
    <3> QED
      BY <1>2, <3>1, <3>3, Zenon
  <2>2. CASE ~ok
    BY <1>0, <1>1, <1>4, <2>2, QuietOnward, SMTT(30) DEF InvStores
  <2> QED
    BY <2>1, <2>2, Zenon
<1>6. ASSUME NEW a, a = Response(m.from, m.to, m.id, ok)
      PROVE  MsgInv(a)'
  <2>1. /\ a.type = "ReplicateResp" /\ a.from = m.to /\ a.id = m.id /\ a.ok = ok
        /\ a.inc = inc[m.to]
    BY <1>6, SMTT(30), Zenon DEF Response
  <2>2. /\ m.to \in Node' /\ inc'[m.to] = inc[m.to] /\ inc[m.to] \in Nat
        /\ inc' \in [Node' -> Nat]
    <3>1. Node' = Node
      BY <1>0, Zenon DEF Node
    <3>2. inc \in [Node -> Nat]
      BY <1>0, Zenon DEF InvStores
    <3> QED
      BY <1>0, <1>2, <3>1, <3>2, Zenon
  <2>3. ASSUME ok, NEW c \in Conn, Pending(c)', conn'[c].id = m.id
        PROVE  Secured([node |-> m.to, inc |-> inc[m.to]], m.item)' /\ conn'[c].item = m.item
    <3>1. conn'[c].item = m.item
      BY <1>0, <1>2, <2>3, Zenon DEF Pending
    <3>2. PICK l : l = [node |-> m.to, inc |-> inc'[m.to]]
      BY Zenon
    <3>3. l.node = m.to /\ l.inc = inc'[m.to] /\ l \in Life'
      BY <2>2, <3>2 DEF Life
    <3>4. l.inc <= inc'[l.node]
      BY <2>2, <3>3
    <3>5. Holds(l, m.item)'
      BY <1>5, <2>3, <3>3, Zenon DEF Holds
    <3> QED
      BY <3>1, <3>2, <3>3, <3>4, <3>5, Zenon DEF Secured, Holds
  <2>4. PICK i : i = inc[m.to]
    OBVIOUS
  <2>5. a \in Message'
    <3>1. a \in Message
      BY <1>2, <1>4, <1>6, <2>2, Zenon DEF Response, Message
    <3> QED
      BY <1>0, <3>1, SameTypes, ZenonT(40)
  <2> QED
    BY <1>0, <1>2, <1>4, <2>1, <2>2, <2>3, <2>4, <2>5, ZenonT(40) DEF MsgInv, ReqInv, RespInv, BatchInv
<1>7. \A a \in net' : a \in net \/ MsgInv(a)'
  BY <1>4, <1>6, Zenon
<1> QED
  BY <1>0, <1>1, <1>2, <1>4, <1>5, <1>7, CommandsStay, StepKeeps, ZenonT(40)

\* An answer is queued at a command: it is for the command's item.
LEMMA QueueInOrder ==
  ASSUME NEW p, ConnInv(p), p.pc \in {"send", "wait"}, NEW a \in Ack,
         a.ok => Secured(Stamp(a), p.item), Len(p.ch) < Cardinality(p.remote)
  PROVE  /\ ConnInv([p EXCEPT !.ch = Append(@, a)])
         /\ [p EXCEPT !.ch = Append(@, a)].pc = p.pc
         /\ [p EXCEPT !.ch = Append(@, a)].id = p.id
         /\ [p EXCEPT !.ch = Append(@, a)].item = p.item
<1>0. /\ p # Idle /\ p.node \in Node
      /\ TodoInv(p) /\ PendingInv(p) /\ AnswersInv(p) /\ p.ch \in Seq(Ack)
      /\ p \in Replicating /\ Cardinality(p.remote) \in Nat
  <2>1. /\ p # Idle /\ p.node \in Node /\ TodoInv(p) /\ PendingInv(p) /\ AnswersInv(p)
    BY DEF ConnInv, Idle
  <2>2. p.ch \in Seq(Ack)
    BY <2>1 DEF AnswersInv
  <2> QED
    BY <2>1, <2>2, Zenon DEF PendingInv
<1>1. PICK q : q = [p EXCEPT !.ch = Append(@, a)]
  BY Zenon
<1>2. /\ q.pc = p.pc /\ q.node = p.node /\ q.todo = p.todo /\ q.item = p.item
      /\ q.id = p.id /\ q.expected = p.expected /\ q.left = p.left
      /\ q.ch = Append(p.ch, a) /\ q.got = p.got /\ q.view = p.view /\ q.remote = p.remote
      /\ q \in Replicating
  <2>1. Append(p.ch, a) \in Seq(Ack)
    BY <1>0
  <2> QED
    BY <1>0, <1>1, <2>1, Zenon DEF Replicating
<1>3. /\ q.ch \in Seq(Ack) /\ Len(q.ch) <= Cardinality(q.remote)
      /\ \A i \in 1 .. Len(q.ch) : q.ch[i] = a \/ (i \in 1 .. Len(p.ch) /\ q.ch[i] = p.ch[i])
  BY <1>0, <1>2, SMTT(30)
<1>4. AnswersInv(q)
  <2>1. \A i \in 1 .. Len(q.ch) : q.ch[i].ok => Secured(Stamp(q.ch[i]), q.item)
    BY <1>0, <1>2, <1>3, Zenon DEF AnswersInv
  <2> QED
    BY <1>0, <1>2, <1>3, <2>1, Zenon DEF AnswersInv
<1>5. ConnInv(q)
  <2>1. TodoInv(q) /\ CmdInv(q)
    BY <1>0, <1>2, ZenonT(40) DEF TodoInv, CmdInv
  <2>2. PendingInv(q)
    BY <1>0, <1>2, <1>3, Zenon DEF PendingInv
  <2> QED
    BY <1>0, <1>2, <1>4, <2>1, <2>2, ZenonT(40) DEF ConnInv
<1> QED
  BY <1>1, <1>2, <1>5, SMTT(30), Zenon

\* An answer joins the channel of the command that waits for its request.
LEMMA HandleResponseKeeps ==
  ASSUME IInv, Recorded, NEW m \in net, HandleResponse(m)
  PROVE  IInv' /\ written' = written
<1>0. /\ m.type = "ReplicateResp" /\ setup' = setup /\ inc' = inc /\ store' = store
      /\ ring' = ring /\ nextID' = nextID /\ acked' = acked /\ nextID \in Nat /\ InvStores
      /\ RespInv(m) /\ net' \subseteq net
  BY DEF HandleResponse, Recorded, cluster, IInv, InvStores, MsgInv
<1>1. PICK a : a = [node |-> m.from, ok |-> m.ok, inc |-> m.inc]
  BY Zenon
<1>2. /\ DOMAIN conn' = Conn
      /\ \A c \in Conn :
           \/ conn'[c] = conn[c]
           \/ /\ Pending(c) /\ conn[c].id = m.id
              /\ Len(conn[c].ch) < Cardinality(conn[c].remote)
              /\ conn'[c] = [conn[c] EXCEPT !.ch = Append(@, a)]
  BY <1>1, Zenon DEF HandleResponse
<1>3. a \in Ack /\ a.ok = m.ok /\ Stamp(a) = [node |-> m.from, inc |-> m.inc]
  BY <1>0, <1>1, Zenon DEF RespInv, Ack, Stamp
<1>4. ASSUME NEW c \in Conn, conn'[c] # conn[c]
      PROVE  /\ ConnInv(conn'[c]) /\ conn'[c].pc = conn[c].pc
             /\ conn'[c].id = conn[c].id /\ conn'[c].item = conn[c].item
  <2>1. PICK p : p = conn[c]
    OBVIOUS
  <2>2. /\ ConnInv(p) /\ p.pc \in {"send", "wait"} /\ p.id = m.id
        /\ Len(p.ch) < Cardinality(p.remote)
        /\ conn'[c] = [p EXCEPT !.ch = Append(@, a)]
    BY <1>2, <1>4, <2>1, Zenon DEF IInv, Pending
  <2>3. a.ok => Secured(Stamp(a), p.item)
    BY <1>0, <1>3, <2>1, <2>2, SMTT(30) DEF RespInv, Pending
  <2> QED
    BY <1>3, <2>1, <2>2, <2>3, QueueInOrder, SMTT(30)
<1>5. written' = written
  <2>1. \A c \in Conn : conn'[c].pc = conn[c].pc
    BY <1>4, Zenon
  <2> QED
    BY <2>1, NothingWritten, Zenon
<1>6. Onward
  BY <1>0, <1>5, QuietOnward, SMTT(30), Zenon DEF InvStores
<1>7. PendingOnward
  BY <1>4, PendingIDs, Zenon DEF PendingOnward, Pending
<1>8. ASSUME NEW c \in Conn
      PROVE  conn'[c] = conn[c] \/ ConnInv(conn[c])'
  <2>1. PICK q : q = conn'[c]
    BY Zenon
  <2>2. CASE conn'[c] # conn[c]
    <3>0. ConnInv(q) /\ InvStores /\ inc' = inc
      BY <1>0, <1>4, <2>1, <2>2, Zenon
    <3>1. ConnInv(q)'
      BY <1>6, <3>0, ConnOnward, Zenon
    <3> QED
      BY <2>1, <3>1, SMTT(30), Zenon
  <2> QED
    BY <2>2
<1> QED
  BY <1>0, <1>2, <1>5, <1>6, <1>7, <1>8, StepKeeps, SMTT(30)
=============================================================================
