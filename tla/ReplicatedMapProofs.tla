------------------------- MODULE ReplicatedMapProofs -------------------------
(***************************************************************************)
(* What the cluster's specification promises, for every set of nodes, keys *)
(* and values, every quorum, any number of writes and restarts.            *)
(***************************************************************************)
EXTENDS ReplicatedMap, StoreOpsProofs

Member == DOMAIN replica

TypeInv ==
  /\ replica \in [Member -> [Key -> Entry \cup {Absent}]]
  /\ life \in [Member -> Nat]
  /\ written \subseteq Item
  /\ \A c \in confirmed : c.item \in written /\ c.holders \subseteq [node : Member, inc : Nat]

\* A holder's life has begun; without it a life that is still to come could
\* turn up among the holders of an old write.
LivesBegan == \A c \in confirmed : \A h \in c.holders : h.inc <= life[h.node]

IInv == TypeInv /\ OnlyWritten /\ LivesBegan /\ ConfirmedIsHeld

\* A step either restarts a node or only makes entries newer; what it brings in
\* has been written.
Improves ==
  /\ DOMAIN replica' = Member
  /\ replica' \in [Member -> [Key -> Entry \cup {Absent}]]
  /\ written \subseteq written' /\ written' \subseteq Item
  /\ life' = life /\ quorum' = quorum
  /\ \A n \in Member, k \in Key :
       \/ replica'[n][k] = replica[n][k]
       \/ /\ [key |-> k, entry |-> replica'[n][k]] \in written'
          /\ replica[n][k] = Absent \/ newer(replica'[n][k], replica[n][k])

\* Writing replaces entries of one node by newer ones.
LEMMA WriteImproves ==
  ASSUME IInv, NEW n \in Member, NEW items, Write(n, items)
  PROVE  Improves /\ confirmed' = confirmed
<1> DEFINE new(k) == CHOOSE i \in items : i.key = k
<1>0. /\ replica \in [Member -> [Key -> Entry \cup {Absent}]] /\ written \subseteq Item
      /\ items \subseteq Item
  BY DEF IInv, TypeInv, Write
<1>1. ASSUME NEW k \in Key, \E i \in items : i.key = k
      PROVE  /\ new(k) \in items /\ new(k).key = k /\ new(k).entry \in Entry
             /\ new(k) = [key |-> k, entry |-> new(k).entry]
             /\ replica[n][k] = Absent \/ newer(new(k).entry, replica[n][k])
  <2>1. new(k) \in items /\ new(k).key = k
    BY <1>1
  <2> HIDE DEF new
  <2>2. new(k) \in Item
    BY <1>0, <2>1
  <2> QED
    BY <2>1, <2>2 DEF Item, Write
<1>2. /\ DOMAIN replica' = Member
      /\ \A m \in Member : m # n => replica'[m] = replica[m]
      /\ replica'[n] = [k \in Key |-> IF \E i \in items : i.key = k
                                      THEN new(k).entry ELSE replica[n][k]]
      /\ \A m \in Member : replica'[m] \in [Key -> Entry \cup {Absent}]
      /\ replica' = [m \in Member |-> replica'[m]]
  <2> DEFINE held == [k \in Key |-> IF \E i \in items : i.key = k
                                  THEN new(k).entry ELSE replica[n][k]]
  <2>1. replica' = [replica EXCEPT ![n] = held]
    BY DEF Write
  <2>2. held \in [Key -> Entry \cup {Absent}]
    BY <1>0, <1>1, Zenon
  <2> HIDE DEF held
  <2>3. /\ DOMAIN replica' = Member /\ replica'[n] = held
        /\ \A m \in Member : m # n => replica'[m] = replica[m]
        /\ replica' = [m \in Member |-> replica'[m]]
    BY <1>0, <2>1, Zenon
  <2>4. \A m \in Member : replica'[m] \in [Key -> Entry \cup {Absent}]
    BY <1>0, <2>2, <2>3
  <2> QED
    BY <2>3, <2>4, Zenon DEF held
<1>3. replica' \in [Member -> [Key -> Entry \cup {Absent}]]
  BY <1>2
<1>4. /\ written' = written \cup items /\ written' \subseteq Item
      /\ life' = life /\ quorum' = quorum /\ confirmed' = confirmed
  BY <1>0 DEF Write
<1>5. ASSUME NEW m \in Member, NEW k \in Key
      PROVE  \/ replica'[m][k] = replica[m][k]
             \/ /\ [key |-> k, entry |-> replica'[m][k]] \in written'
                /\ replica[m][k] = Absent \/ newer(replica'[m][k], replica[m][k])
  <2>1. CASE m = n /\ \E i \in items : i.key = k
    BY <2>1, <1>1, <1>2, <1>4
  <2>2. CASE ~(m = n /\ \E i \in items : i.key = k)
    BY <2>2, <1>2
  <2> QED
    BY <2>1, <2>2
<1> QED
  BY <1>2, <1>3, <1>4, <1>5 DEF Improves

\* Learning replaces one entry of one node by a newer one that was written.
LEMMA LearnImproves ==
  ASSUME IInv, NEW n \in Member, NEW i \in written, Learn(n, i)
  PROVE  Improves /\ confirmed' = confirmed
<1>1. /\ replica \in [Member -> [Key -> Entry \cup {Absent}]] /\ written \subseteq Item
      /\ i.key \in Key /\ i.entry \in Entry /\ i = [key |-> i.key, entry |-> i.entry]
  BY DEF IInv, TypeInv, Item
<1>2. replica[n][i.key] = Absent \/ newer(i.entry, replica[n][i.key])
  <2>1. ~AtLeast(replica[n][i.key], i.entry) /\ replica[n][i.key] \in Entry \cup {Absent}
    BY <1>1 DEF Learn, Has
  <2> QED
    BY <1>1, <2>1, NewerTotal DEF AtLeast
<1>3. /\ replica' = [replica EXCEPT ![n] = [replica[n] EXCEPT ![i.key] = i.entry]]
      /\ written' = written /\ life' = life /\ quorum' = quorum /\ confirmed' = confirmed
  BY DEF Learn
<1>4. replica' \in [Member -> [Key -> Entry \cup {Absent}]] /\ DOMAIN replica' = Member
  BY <1>1, <1>3
<1>5. ASSUME NEW m \in Member, NEW k \in Key
      PROVE  \/ replica'[m][k] = replica[m][k]
             \/ /\ [key |-> k, entry |-> replica'[m][k]] \in written'
                /\ replica[m][k] = Absent \/ newer(replica'[m][k], replica[m][k])
  <2>1. CASE m = n /\ k = i.key
    <3>1. replica'[m][k] = i.entry
      BY <2>1, <1>1, <1>3
    <3> QED
      BY <3>1, <2>1, <1>1, <1>2, <1>3
  <2>2. CASE ~(m = n /\ k = i.key)
    BY <2>2, <1>1, <1>3
  <2> QED
    BY <2>1, <2>2
<1> QED
  BY <1>1, <1>3, <1>4, <1>5 DEF Improves

\* A step that improves keeps every holder of a confirmed write.
LEMMA ImprovesKeeps ==
  ASSUME IInv, Improves, confirmed' = confirmed
  PROVE  IInv'
<1>0. /\ replica \in [Member -> [Key -> Entry \cup {Absent}]] /\ life \in [Member -> Nat]
      /\ written \subseteq Item
      /\ \A c \in confirmed :
           c.item \in written /\ c.holders \subseteq [node : Member, inc : Nat]
  BY DEF IInv, TypeInv
<1>1. Member' = Member
  BY DEF Improves, Member
<1>2. TypeInv'
  BY <1>0, <1>1 DEF TypeInv, Improves
<1>3. OnlyWritten'
  BY <1>1 DEF IInv, OnlyWritten, Improves, Member
<1>4. LivesBegan'
  BY DEF IInv, LivesBegan, Improves
<1>5. ASSUME NEW c \in confirmed, NEW h \in c.holders
      PROVE  HolderHas(h, c.item)'
  <2>1. /\ h.node \in Member /\ c.item.key \in Key /\ c.item.entry \in Entry
        /\ HolderHas(h, c.item)
    BY <1>0, Zenon DEF IInv, ConfirmedIsHeld, Item
  <2> DEFINE old == replica[h.node][c.item.key]
             new == replica'[h.node][c.item.key]
  <2>2. old \in Entry \cup {Absent} /\ new \in Entry \cup {Absent}
    BY <1>0, <2>1 DEF Improves
  <2>3. new = old \/ /\ new \in Entry
                     /\ old = Absent \/ newer(new, old)
    BY <2>1, Zenon DEF Improves, Item
  <2>4. life[h.node] = h.inc => AtLeast(old, c.item.entry)
    BY <2>1 DEF HolderHas, Has
  <2> SUFFICES ASSUME AtLeast(old, c.item.entry) PROVE AtLeast(new, c.item.entry)
    BY <2>4 DEF HolderHas, Has, Improves
  <2>5. old \in Entry /\ AtLeast(new, old)
    BY <2>2, <2>3, EntryParts DEF AtLeast
  <2> QED
    BY <2>1, <2>2, <2>5, AtLeastTransitive
<1>6. ConfirmedIsHeld'
  BY <1>5 DEF IInv, ConfirmedIsHeld, Improves
<1> QED
  BY <1>2, <1>3, <1>4, <1>6 DEF IInv

\* A restart leaves nothing to be held by the life that ended.
LEMMA ForgetKeeps ==
  ASSUME IInv, NEW n \in Member, Forget(n)
  PROVE  IInv'
<1>0. /\ replica \in [Member -> [Key -> Entry \cup {Absent}]] /\ life \in [Member -> Nat]
      /\ written \subseteq Item
      /\ \A c \in confirmed :
           c.item \in written /\ c.holders \subseteq [node : Member, inc : Nat]
  BY DEF IInv, TypeInv
<1>1. /\ replica' = [replica EXCEPT ![n] = Empty] /\ life' = [life EXCEPT ![n] = @ + 1]
      /\ written' = written /\ quorum' = quorum /\ confirmed' = confirmed
  BY DEF Forget
<1>2. Empty \in [Key -> Entry \cup {Absent}] /\ \A k \in Key : Empty[k] = Absent
  BY DEF Empty
<1>3. Member' = Member
  BY <1>0, <1>1 DEF Member
<1>4. /\ replica' \in [Member -> [Key -> Entry \cup {Absent}]] /\ life' \in [Member -> Nat]
      /\ replica'[n] = Empty /\ \A m \in Member : m # n => replica'[m] = replica[m]
      /\ life'[n] = life[n] + 1 /\ \A m \in Member : m # n => life'[m] = life[m]
  BY <1>0, <1>1, <1>2
<1>5. TypeInv'
  BY <1>0, <1>1, <1>3, <1>4 DEF TypeInv
<1>6. OnlyWritten'
  BY <1>1, <1>2, <1>3, <1>4 DEF IInv, OnlyWritten, Member
<1>7. ASSUME NEW c \in confirmed, NEW h \in c.holders
      PROVE  h.inc <= life'[h.node] /\ HolderHas(h, c.item)'
  <2>1. /\ h.node \in Member /\ h.inc \in Nat /\ life[h.node] \in Nat
        /\ h.inc <= life[h.node] /\ HolderHas(h, c.item)
    BY <1>0, Zenon DEF IInv, ConfirmedIsHeld, LivesBegan
  <2>2. CASE h.node = n
    <3>1. h.inc <= life'[h.node] /\ life'[h.node] # h.inc
      BY <2>1, <2>2, <1>4
    <3> QED
      BY <3>1 DEF HolderHas
  <2>3. CASE h.node # n
    BY <2>1, <2>3, <1>4 DEF HolderHas, Has
  <2> QED
    BY <2>2, <2>3
<1>8. LivesBegan' /\ ConfirmedIsHeld'
  BY <1>1, <1>7 DEF IInv, ConfirmedIsHeld, LivesBegan
<1> QED
  BY <1>5, <1>6, <1>8 DEF IInv

\* A write is confirmed with holders that have it.
LEMMA ConfirmKeeps ==
  ASSUME IInv, NEW c, Confirm(c)
  PROVE  IInv'
<1>1. /\ replica' = replica /\ life' = life /\ written' = written /\ quorum' = quorum
      /\ confirmed' = confirmed \cup {c}
      /\ c.item \in written /\ c.holders \subseteq [node : Member, inc : Nat]
      /\ Cardinality({h.node : h \in c.holders}) >= quorum
      /\ \A h \in c.holders : h.inc <= life[h.node] /\ HolderHas(h, c.item)
  BY DEF Confirm, Member
<1>2. \A h, i : HolderHas(h, i)' <=> HolderHas(h, i)
  BY <1>1 DEF HolderHas, Has
<1>3. TypeInv' /\ OnlyWritten' /\ LivesBegan'
  BY <1>1 DEF IInv, TypeInv, OnlyWritten, LivesBegan, Member
<1>4. ConfirmedIsHeld'
  BY <1>1, <1>2, Zenon DEF IInv, ConfirmedIsHeld
<1> QED
  BY <1>3, <1>4 DEF IInv

\* The invariant holds at the start and is kept by every step.
THEOREM Invariance == Spec => []IInv
<1>1. Init => IInv
  <2> SUFFICES ASSUME Init PROVE IInv
    OBVIOUS
  <2>1. PICK nodes \in SUBSET Origin :
          replica = [n \in nodes |-> Empty] /\ life = [n \in nodes |-> 0]
    BY DEF Init
  <2>2. Member = nodes /\ written = {} /\ confirmed = {}
    BY <2>1 DEF Member, Init
  <2> QED
    BY <2>1, <2>2
       DEF IInv, TypeInv, OnlyWritten, LivesBegan, ConfirmedIsHeld, Empty, Member
<1>2. IInv /\ [Next]_vars => IInv'
  <2> SUFFICES ASSUME IInv, [Next]_vars PROVE IInv'
    OBVIOUS
  <2>1. CASE Next
    BY <2>1, WriteImproves, LearnImproves, ImprovesKeeps, ForgetKeeps, ConfirmKeeps
       DEF Next, Member
  <2>2. CASE UNCHANGED vars
    BY <2>2, Zenon DEF vars, IInv, TypeInv, OnlyWritten, LivesBegan, ConfirmedIsHeld,
                HolderHas, Has, Member
  <2> QED
    BY <2>1, <2>2
<1> QED
  BY <1>1, <1>2, PTL DEF Spec

\* A confirmed write stays with the nodes it was counted on until they restart.
THEOREM ConfirmedStaysHeld == Spec => []ConfirmedIsHeld
BY Invariance, PTL DEF IInv

\* Nodes never have an entry that no client wrote.
THEOREM NothingInvented == Spec => []OnlyWritten
BY Invariance, PTL DEF IInv

\* Between restarts a node's entry is only replaced by a newer one.
THEOREM ReplicasNeverRegress == Spec => NeverRegresses
<1> DEFINE Forward == \A n \in DOMAIN replica, k \in Key :
                        \/ life'[n] # life[n]
                        \/ replica[n][k] = Absent
                        \/ AtLeast(replica'[n][k], replica[n][k])
<1>1. IInv /\ [Next]_vars => [Forward]_vars
  <2> SUFFICES ASSUME IInv, Next PROVE Forward
    OBVIOUS
  <2>0. replica \in [Member -> [Key -> Entry \cup {Absent}]] /\ life \in [Member -> Nat]
    BY DEF IInv, TypeInv
  <2>1. CASE Improves
    <3> SUFFICES ASSUME NEW n \in Member, NEW k \in Key, replica[n][k] # Absent
                 PROVE  AtLeast(replica'[n][k], replica[n][k])
      BY DEF Member
    <3>1. CASE replica'[n][k] = replica[n][k]
      BY <3>1 DEF AtLeast
    <3>2. CASE replica'[n][k] # replica[n][k]
      <4>1. /\ [key |-> k, entry |-> replica'[n][k]] \in Item
            /\ newer(replica'[n][k], replica[n][k])
        BY <2>1, <3>2 DEF Improves
      <4> QED
        BY <4>1, EntryParts DEF AtLeast, Item
    <3> QED
      BY <3>1, <3>2
  <2>2. ASSUME NEW m \in Member, Forget(m) PROVE Forward
    <3>1. life'[m] # life[m]
      BY <2>0, <2>2 DEF Forget
    <3>2. \A n \in Member : n # m => replica'[n] = replica[n]
      BY <2>0, <2>2 DEF Forget
    <3> QED
      BY <3>1, <3>2 DEF AtLeast, Member
  <2>3. ASSUME NEW c, Confirm(c) PROVE Forward
    BY <2>3 DEF Confirm, AtLeast
  <2> QED
    BY <2>1, <2>2, <2>3, WriteImproves, LearnImproves DEF Next, Member
<1> QED
  BY <1>1, Invariance, PTL DEF Spec, NeverRegresses
=============================================================================
