------------------------------ MODULE HashRing ------------------------------
(***************************************************************************)
(* The consistent hash ring of internal/hashring/hashring.go, and the slot *)
(* commands the server answers from it.  A key is represented by its hash. *)
(* hashKey (xxHash) is an arbitrary function that gives different labels   *)
(* "node:i" different hashes; it is chosen once, in Init.                  *)
(***************************************************************************)
EXTENDS Integers, Sequences, FiniteSets, FiniteSetsExt

CONSTANTS Node,        \* node IDs
          NoID,        \* the empty string, which NODE.JOIN takes for a node ID as well
          Address,     \* Redis addresses, records: ok, does net.SplitHostPort take it;
                       \* host; port, 0 when its text is not a number
          VirtualNodes, \* the most virtual nodes AddNode is asked for
          DefaultReplicas, \* virtual nodes when AddNode is given a count <= 0
          LabelHash,   \* the hashes of virtual node labels
          KeyHash,     \* the hashes of keys and slots
          NumSlots,    \* 16384 in the code
          SlotHash     \* hashKey("SLOT:" + slot)

ASSUME HashAssumption == LabelHash \cup KeyHash \subseteq Nat
ASSUME SlotAssumption == NumSlots \in Nat \ {0} /\ SlotHash \in [0..(NumSlots - 1) -> KeyHash]
ASSUME AddressAssumption == Address \subseteq [ok : BOOLEAN, host : STRING, port : Nat]
ASSUME CountAssumption == VirtualNodes \in Nat /\ DefaultReplicas \in 1..VirtualNodes
ASSUME NodeAssumption == IsFiniteSet(Node)

VARIABLES hashKey,      \* the hash of each label <<node, i>>; never changes
          entries,      \* []ringEntry
          nodeReplicas  \* map[string]int; its domain is the nodes map

vars == <<hashKey, entries, nodeReplicas>>

Labels == Node \X (0..(VirtualNodes - 1))
RingEntry == [hash : LabelHash, nodeID : Node, address : Address]

nodes == DOMAIN nodeReplicas

Init ==
  /\ hashKey \in Injection(Labels, LabelHash)
  /\ entries = <<>>
  /\ nodeReplicas = [n \in {} |-> 0]

-----------------------------------------------------------------------------
\* The elements of es at the places rank is defined for, in the order of their
\* ranks, which differ: what filtering and sorting a slice have in common.
Arrange(es, rank) ==
  LET before(i) == {k \in DOMAIN rank : rank[k] < rank[i]}
  IN  [j \in 1..Cardinality(DOMAIN rank) |->
         es[CHOOSE i \in DOMAIN rank : Cardinality(before(i)) = j - 1]]

\* The elements at the places D, in their order.
AtPlaces(es, D) == Arrange(es, [i \in D |-> i])

\* removeNodeLocked: the entries that stay.
Filtered(n) == AtPlaces(entries, {i \in 1..Len(entries) : entries[i].nodeID # n})

\* sort.Slice by hash; no two labels have the same.
SortedByHash(es) == Arrange(es, [i \in 1..Len(es) |-> es[i].hash])

Appended(n, a, count) ==
  [i \in 1..count |-> [hash |-> hashKey[<<n, i - 1>>], nodeID |-> n, address |-> a]]

Added(n, count, es) ==
  /\ entries' = es
  /\ nodeReplicas' = [m \in nodes \cup {n} |-> IF m = n THEN count ELSE nodeReplicas[m]]
  /\ UNCHANGED hashKey

VirtualCount(replicas) == IF replicas <= 0 THEN DefaultReplicas ELSE replicas

\* Slip: the new entries stay at the end.
AddNodeWithoutSort(n, a, replicas) ==
  LET count == VirtualCount(replicas)
  IN  Added(n, count, Filtered(n) \o Appended(n, a, count))

AddNode(n, a, replicas) ==
  LET count == VirtualCount(replicas)
  IN  Added(n, count, SortedByHash(Filtered(n) \o Appended(n, a, count)))

RemoveNode(n) ==
  /\ entries' = Filtered(n)
  /\ nodeReplicas' = [m \in nodes \ {n} |-> nodeReplicas[m]]
  /\ UNCHANGED hashKey

Next ==
  \/ \E n \in Node, a \in Address, r \in 0..VirtualNodes : AddNode(n, a, r)
  \/ \E n \in Node : RemoveNode(n)

Spec == Init /\ [][Next]_vars

-----------------------------------------------------------------------------
\* The lookups, on a sequence of entries es that is not empty.

\* Slip: keys are dealt to the entries in turn.
SuccessorModulo(es, h) == (h % Len(es)) + 1

\* sort.Search and the wrap-around: the place of the first entry at or after h.
Successor(es, h) ==
  LET after == {i \in 1..Len(es) : es[i].hash >= h}
  IN  IF after = {} THEN 1 ELSE Min(after)

GetNode(es, h) == IF es = <<>> THEN NoID ELSE es[Successor(es, h)].nodeID

\* The clockwise walk from place idx: all entries, each once.
Walk(es, idx) == [i \in 1..Len(es) |-> es[((idx + i - 2) % Len(es)) + 1]]

\* Slip: a node whose virtual nodes are met twice is collected twice.
CollectRepeating(found, n, count) ==
  IF Len(found) >= count THEN found ELSE Append(found, n)

\* The loop body: a node that is not seen yet is collected, until there are count.
Collect(found, n, count) ==
  IF Len(found) >= count \/ n \in Range(found) THEN found ELSE Append(found, n)

\* The loop over the walk.
CollectLoop(walk, count) ==
  LET found[i \in 0..Len(walk)] ==
        IF i = 0 THEN <<>> ELSE Collect(found[i - 1], walk[i].nodeID, count)
  IN  found[Len(walk)]

GetReplicas(es, h, count) ==
  IF es = <<>> \/ count <= 0 THEN <<>> ELSE CollectLoop(Walk(es, Successor(es, h)), count)

SlotOwner(es, slot) == es[Successor(es, SlotHash[slot])].nodeID

\* The map nodeAddrs.
AddressOf(es, n) == es[Min({i \in 1..Len(es) : es[i].nodeID = n})].address

\* The range that is open, closed at end.
SlotRange(es, open, end) ==
  [start |-> open.start, end |-> end, node |-> open.owner, address |-> AddressOf(es, open.owner)]

\* The loop body: at a slot that has another owner the range is closed, gap slots
\* before it, and the next one opened.
SlotStep(es, gap, open, slot) ==
  IF SlotOwner(es, slot) = open.owner THEN open
  ELSE [ranges |-> Append(open.ranges, SlotRange(es, open, slot - gap)),
        start |-> slot, owner |-> SlotOwner(es, slot)]

\* The loop over the slots.
SlotLoop(es, gap) ==
  LET after[slot \in 0..(NumSlots - 1)] ==
        IF slot = 0 THEN [ranges |-> <<>>, start |-> 0, owner |-> SlotOwner(es, 0)]
        ELSE SlotStep(es, gap, after[slot - 1], slot)
  IN  after[NumSlots - 1]

SlotRanges(es, gap) ==
  LET last == SlotLoop(es, gap)
  IN  Append(last.ranges, SlotRange(es, last, NumSlots - 1))

\* Slip: a range is closed at the slot that starts the next one.
GetSlotRangesOverlapping(es) ==
  IF es = <<>> THEN <<>> ELSE SlotRanges(es, 0)

GetSlotRanges(es) ==
  IF es = <<>> THEN <<>> ELSE SlotRanges(es, 1)

-----------------------------------------------------------------------------
\* What the server and the management API tell of the ring.

Host(a) == IF ~a.ok \/ a.host = "" THEN "127.0.0.1" ELSE a.host

\* CLUSTER SLOTS: one element for each range.  A node without an ID is shown by
\* its host.
ClusterSlots(es) ==
  {[start |-> r.start, end |-> r.end, host |-> Host(r.address),
    port |-> IF r.address.port = 0 THEN 6379 ELSE r.address.port,
    node |-> IF r.node = NoID THEN Host(r.address) ELSE r.node] :
     r \in Range(GetSlotRanges(es))}

\* Slip: the list of a node's ranges is overwritten, not appended to.
ClusterNodesLastRange(es) ==
  LET ranges == GetSlotRanges(es)
      last(n) == Max({i \in DOMAIN ranges : ranges[i].node = n})
  IN  {[node |-> r.node, host |-> Host(r.address), port |-> r.address.port,
        slots |-> {ranges[last(r.node)]}] : r \in Range(ranges)}

\* CLUSTER NODES: one line for each node that has slots, with all its ranges.
ClusterNodes(es) ==
  LET ranges == Range(GetSlotRanges(es))
  IN  {[node |-> r.node, host |-> Host(r.address), port |-> r.address.port,
        slots |-> {q \in ranges : q.node = r.node}] : r \in ranges}

\* CLUSTER INFO: cluster_known_nodes and cluster_size.
ClusterSize(es) == Cardinality({r.node : r \in Range(GetSlotRanges(es))})

\* GET /ring: node_count.
RingNodeCount(es) == Cardinality({e.nodeID : e \in Range(es)})

\* CLUSTER KEYSLOT (server.go).
KeySlot(h) == h % NumSlots

-----------------------------------------------------------------------------
\* After any sequence of AddNode and RemoveNode the ring depends on nothing but
\* the present members: it is sorted, and holds exactly the labels of each
\* member, at least one, all with one address.  Two nodes that saw the same
\* members join and leave in different orders route alike.
RingIsItsMembers ==
  /\ entries \in Seq(RingEntry)
  /\ \A i, j \in 1..Len(entries) : i < j => entries[i].hash < entries[j].hash
  /\ {<<e.nodeID, e.hash>> : e \in Range(entries)} =
       UNION {{<<n, hashKey[<<n, i>>]>> : i \in 0..(nodeReplicas[n] - 1)} : n \in nodes}
  /\ \A n \in nodes : nodeReplicas[n] > 0
  /\ \A e, f \in Range(entries) : e.nodeID = f.nodeID => e.address = f.address

\* The order in which the ring with every node on it, at full weight, meets the
\* nodes from h: the fixed order of preference for the keys with hash h.
Preference(h) ==
  LET full == Arrange([l \in Labels |-> [hash |-> hashKey[l], nodeID |-> l[1]]], hashKey)
  IN  GetReplicas(full, h, Cardinality(Node))

\* GetReplicas is the head of the key's order of preference restricted to the
\* members: distinct nodes, as many as asked for or as there are, the owner that
\* GetNode names first.  A node that joins or leaves never reorders the others,
\* so two rings that differ in one member differ in at most one replica of a
\* key.  All callers add nodes with the same weight, so the weights are full.
ReplicasByPreference ==
  (\A n \in nodes : nodeReplicas[n] = VirtualNodes) =>
     \A h \in KeyHash :
       LET all == Preference(h)
           present == AtPlaces(all, {i \in 1..Len(all) : all[i] \in nodes})
       IN  \A count \in 0..(Cardinality(Node) + 1) :
             LET expected == SubSeq(present, 1, Min({count, Len(present)}))
             IN  /\ GetReplicas(entries, h, count) = expected
                 /\ count > 0 /\ nodes # {} => GetNode(entries, h) = Head(expected)

\* Keys move only to the node that joins or from the node that leaves, at any
\* weights: one AddNode or RemoveNode call never moves a key between two others.
MovesOnlyTouchOneNode ==
  [][\E n \in Node : \A h \in KeyHash :
       \/ GetNode(entries', h) = GetNode(entries, h)
       \/ GetNode(entries', h) = n
       \/ GetNode(entries, h) = n]_vars

\* GetSlotRanges covers every slot once, in order, names for each slot the owner
\* of the slot's own hash, and never splits a run of slots of one owner.
SlotRangesPartition ==
  LET rs == GetSlotRanges(entries)
  IN  entries # <<>> =>
        /\ rs[1].start = 0 /\ rs[Len(rs)].end = NumSlots - 1
        /\ \A i \in 1..Len(rs) :
             /\ rs[i].start <= rs[i].end
             /\ \A slot \in rs[i].start..rs[i].end : rs[i].node = GetNode(entries, SlotHash[slot])
             /\ i > 1 => rs[i].start = rs[i - 1].end + 1 /\ rs[i].node # rs[i - 1].node

\* The answers about the cluster agree: each range on a line of CLUSTER NODES is
\* an element of CLUSTER SLOTS, and each element is on one line, with the same
\* host, the same port if it is a number, and the same node ID, or the host in
\* place of an empty one.  CLUSTER INFO counts the lines, GET /ring the members,
\* and what is between the two numbers are the members that own no slot.
ReportsAgree ==
  LET lines == ClusterNodes(entries)
      ranges == ClusterSlots(entries)
      Alike(l, q, r) ==
        /\ r.start = q.start /\ r.end = q.end /\ r.host = l.host
        /\ r.node = IF l.node = NoID THEN l.host ELSE l.node
        /\ l.port # 0 => r.port = l.port
  IN  /\ \A l \in lines : \A q \in l.slots : \E r \in ranges : Alike(l, q, r)
      /\ \A r \in ranges : \E l \in lines : \E q \in l.slots : Alike(l, q, r)
      /\ \A l, m \in lines : l # m => l.slots \cap m.slots = {}
      /\ Cardinality(lines) = ClusterSize(entries)
      /\ RingNodeCount(entries) = Cardinality(nodes)
      /\ RingNodeCount(entries) - ClusterSize(entries) =
           Cardinality({n \in nodes : \A slot \in 0..(NumSlots - 1) :
                                      GetNode(entries, SlotHash[slot]) # n})

\* The slot that CLUSTER KEYSLOT names for a key belongs, in CLUSTER SLOTS, to
\* the node that serves the key: "Compute slot consistently with the hashring".
KeySlotRoutesToOwner ==
  \A h \in KeyHash : entries # <<>> =>
    \E r \in Range(GetSlotRanges(entries)) :
      KeySlot(h) \in r.start..r.end /\ r.node = GetNode(entries, h)
=============================================================================
