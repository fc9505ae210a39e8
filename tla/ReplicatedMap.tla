--------------------------- MODULE ReplicatedMap ---------------------------
(***************************************************************************)
(* What the cluster promises its clients, without messages, rings, quorum  *)
(* bookkeeping or commands in progress: nodes write entries, learn entries *)
(* from each other one at a time and in any order, keep the newer of two,  *)
(* lose everything when they restart, and confirm a write only when enough *)
(* nodes have it.                                                          *)
(***************************************************************************)
EXTENDS StoreOps

VARIABLES
  quorum,    \* how many nodes must have a write before it is confirmed
  written,   \* every item a client has written
  replica,   \* the entry each node has for each key
  life,      \* how often each node has restarted
  confirmed  \* the writes reported as successful, with the nodes that had them

vars == <<quorum, written, replica, life, confirmed>>

Item == [key : Key, entry : Entry]
Empty == [k \in Key |-> Absent]

Has(n, i) == AtLeast(replica[n][i.key], i.entry)

Init ==
  /\ quorum \in Nat
  /\ written = {} /\ confirmed = {}
  /\ \E nodes \in SUBSET Origin :
       replica = [n \in nodes |-> Empty] /\ life = [n \in nodes |-> 0]

\* One command writes items, at most one for a key, at one node.  Each is newer
\* than what the node has.
Write(n, items) ==
  /\ items \subseteq Item
  /\ \A i, j \in items : i.key = j.key => i = j
  /\ \A i \in items : replica[n][i.key] = Absent \/ newer(i.entry, replica[n][i.key])
  /\ written' = written \cup items
  /\ replica' = [replica EXCEPT ![n] =
       [k \in Key |-> IF \E i \in items : i.key = k
                      THEN (CHOOSE i \in items : i.key = k).entry ELSE @[k]]]
  /\ UNCHANGED <<quorum, life, confirmed>>

\* A node receives an item that was written somewhere, and it is news to it.
Learn(n, i) ==
  /\ i \in written
  /\ ~Has(n, i)
  /\ replica' = [replica EXCEPT ![n][i.key] = i.entry]
  /\ UNCHANGED <<quorum, written, life, confirmed>>

Forget(n) ==
  /\ replica' = [replica EXCEPT ![n] = Empty]
  /\ life' = [life EXCEPT ![n] = @ + 1]
  /\ UNCHANGED <<quorum, written, confirmed>>

\* A holder is a node in one of its lives.
HolderHas(h, i) == life[h.node] = h.inc => Has(h.node, i)

Confirm(c) ==
  /\ c.item \in written
  /\ c.holders \subseteq [node : DOMAIN replica, inc : Nat]
  /\ Cardinality({h.node : h \in c.holders}) >= quorum
  /\ \A h \in c.holders : h.inc <= life[h.node] /\ HolderHas(h, c.item)
  /\ confirmed' = confirmed \cup {c}
  /\ UNCHANGED <<quorum, written, replica, life>>

Next ==
  \/ \E n \in DOMAIN replica : \E items \in SUBSET written' : Write(n, items)
  \/ \E n \in DOMAIN replica, i \in written : Learn(n, i)
  \/ \E n \in DOMAIN replica : Forget(n)
  \/ \E c \in confirmed' : Confirm(c)

Spec == Init /\ [][Next]_vars

-----------------------------------------------------------------------------
\* A confirmed write was with quorum many nodes, and those of them that have not
\* restarted since still have it or something newer.
ConfirmedIsHeld ==
  \A c \in confirmed :
    /\ Cardinality({h.node : h \in c.holders}) >= quorum
    /\ \A h \in c.holders : HolderHas(h, c.item)

\* No node has an entry that no client wrote.
OnlyWritten ==
  \A n \in DOMAIN replica, k \in Key :
    replica[n][k] # Absent => [key |-> k, entry |-> replica[n][k]] \in written

\* Between restarts an entry is only ever replaced by a newer one.
NeverRegresses ==
  [][\A n \in DOMAIN replica, k \in Key :
       \/ life'[n] # life[n]
       \/ replica[n][k] = Absent
       \/ AtLeast(replica'[n][k], replica[n][k])]_vars
=============================================================================
