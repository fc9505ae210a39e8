--------------------------- MODULE HashRingProofs ----------------------------
(***************************************************************************)
(* The hash ring, for every set of nodes, every number of virtual nodes,   *)
(* every hash function that tells labels apart and any number of slots.    *)
(***************************************************************************)
EXTENDS HashRing, FiniteSetTheorems, TLAPS

\* A set of numbers has a least one, and Min is it.
LEMMA MinIsLeast ==
  ASSUME NEW S \in SUBSET Nat, S # {}
  PROVE  Min(S) \in S /\ \A y \in S : Min(S) <= y
<1> DEFINE less == OpToRel(<, Nat)
<1>1. IsWellFoundedOn(less, Nat)
  BY NatLessThanWellFounded, Zenon DEF less
<1>2. PICK x \in S : \A y \in S : ~(<<y, x>> \in less)
  <2> HIDE DEF less
  <2> QED
    BY <1>1, WFMin, Zenon
<1>3. \A y \in S : ~(y < x)
  BY <1>2, Zenon DEF OpToRel
<1>4. \A y \in S : x <= y
  BY <1>3
<1> QED
  BY <1>4, Zenon DEF Min

\* A set of numbers that holds 0 and with a number the next holds them all.
LEMMA SetInduction ==
  ASSUME NEW S \in SUBSET Nat, 0 \in S, \A n \in S : n + 1 \in S
  PROVE  \A n \in Nat : n \in S
<1> DEFINE rest == Nat \ S
<1> SUFFICES ASSUME rest # {} PROVE FALSE
  OBVIOUS
<1>1. Min(rest) \in rest /\ \A y \in rest : Min(rest) <= y
  BY MinIsLeast
<1>2. PICK x \in rest : \A y \in rest : x <= y
  BY <1>1, Zenon
<1>3. x - 1 \in Nat /\ x - 1 \in S
  BY <1>2
<1> QED
  BY <1>2, <1>3

\* place lists D, n places, in the order of rank.
IsPlacing(place, D, rank, n) ==
  /\ place \in [1..n -> D]
  /\ \A i \in D : \E j \in 1..n : place[j] = i
  /\ \A j, k \in 1..n : j < k => rank[place[j]] < rank[place[k]]
  /\ \A es : Arrange(es, rank) = [j \in 1..n |-> es[place[j]]]

\* What Arrange returns: each element once, at places that increase in rank.
LEMMA ArrangePlaces ==
  ASSUME NEW D, IsFiniteSet(D), NEW rank \in [D -> Nat],
         \A i, k \in D : rank[i] = rank[k] => i = k
  PROVE  Cardinality(D) \in Nat /\ \E place : IsPlacing(place, D, rank, Cardinality(D))
<1> DEFINE n == Cardinality(D)
           before(i) == {k \in D : rank[k] < rank[i]}
           c == [i \in D |-> Cardinality(before(i))]
           place == [j \in 1..n |-> CHOOSE i \in D : Cardinality(before(i)) = j - 1]
<1>1. n \in Nat
  BY FS_CardinalityType
<1>2. ASSUME NEW i \in D
      PROVE  IsFiniteSet(before(i)) /\ Cardinality(before(i)) \in 0..n - 1
  <2>1. before(i) \subseteq D \ {i}
    OBVIOUS
  <2>2. IsFiniteSet(D \ {i}) /\ Cardinality(D \ {i}) = n - 1
    BY FS_RemoveElement
  <2>3. IsFiniteSet(before(i)) /\ Cardinality(before(i)) <= n - 1
    BY <2>1, <2>2, FS_Subset
  <2>4. Cardinality(before(i)) \in Nat
    BY <2>3, FS_CardinalityType
  <2> QED
    BY <1>1, <2>3, <2>4
<1>3. c \in [D -> 0..n - 1] /\ \A i \in D : c[i] = Cardinality(before(i))
  BY <1>2, Zenon
<1>4. ASSUME NEW i \in D, NEW k \in D, rank[i] < rank[k]
      PROVE  c[i] < c[k]
  <2>1. before(i) \cup {i} \subseteq before(k) /\ i \notin before(i)
    BY <1>4
  <2> HIDE DEF before, c, n
  <2>2. /\ IsFiniteSet(before(i) \cup {i})
        /\ Cardinality(before(i) \cup {i}) = Cardinality(before(i)) + 1
    BY <1>2, <2>1, FS_AddElement
  <2>3. Cardinality(before(i) \cup {i}) <= Cardinality(before(k))
    BY <1>2, <2>1, FS_Subset
  <2> QED
    BY <1>1, <1>3, <2>2, <2>3
<1>5. \A i, k \in D : c[i] = c[k] => i = k
  <2> HIDE DEF c, n
  <2>1. \A i \in D : c[i] \in Nat /\ rank[i] \in Nat
    BY <1>1, <1>3
  <2> QED
    BY <1>4, <2>1
<1>6. c \in Surjection(D, 0..n - 1)
  <2>1. IsFiniteSet(0..n - 1) /\ Cardinality(0..n - 1) = n
    BY <1>1, FS_Interval, SMTT(30)
  <2> HIDE DEF c
  <2>2. c \in Injection(D, 0..n - 1)
    BY <1>3, <1>5 DEF Injection, IsInjective
  <2> QED
    BY <2>1, <2>2, FS_Injection
<1>7. ASSUME NEW j \in 1..n
      PROVE  place[j] \in D /\ c[place[j]] = j - 1
  <2>1. j - 1 \in 0..n - 1
    BY <1>1
  <2>2. \E i \in D : Cardinality(before(i)) = j - 1
    <3> HIDE DEF c, n, before
    <3> QED
      BY <1>3, <1>6, <2>1 DEF Surjection
  <2>3. place[j] \in D /\ Cardinality(before(place[j])) = j - 1
    <3> HIDE DEF c, n, before
    <3> QED
      BY <2>2
  <2> QED
    BY <2>3
<1>8. place \in [1..n -> D]
  BY <1>7, Zenon
<1>9. \A es : Arrange(es, rank) = [j \in 1..n |-> es[place[j]]]
  BY DEF Arrange
<1> HIDE DEF place, n, c, before
<1>10. \A j \in 1..n : place[j] \in D /\ c[place[j]] = j - 1 /\ rank[place[j]] \in Nat
  BY <1>7
<1>11. ASSUME NEW i \in D PROVE \E j \in 1..n : place[j] = i
  <2>1. PICK j \in 1..n : j - 1 = c[i]
    <3>1. c[i] \in 0..n - 1
      BY <1>3
    <3>2. c[i] + 1 \in 1..n /\ (c[i] + 1) - 1 = c[i]
      BY <1>1, <3>1
    <3> QED
      BY <3>2
  <2>2. place[j] \in D /\ c[place[j]] = c[i]
    BY <1>10, <2>1
  <2>3. place[j] = i
    BY <1>5, <2>2
  <2> QED
    BY <2>3
<1>12. ASSUME NEW j \in 1..n, NEW k \in 1..n, j < k
       PROVE  rank[place[j]] < rank[place[k]]
  <2>1. /\ place[j] \in D /\ place[k] \in D
        /\ rank[place[j]] \in Nat /\ rank[place[k]] \in Nat
        /\ c[place[j]] = j - 1 /\ c[place[k]] = k - 1
    BY <1>10
  <2>2. ~(rank[place[k]] < rank[place[j]])
    BY <1>1, <1>4, <1>12, <2>1
  <2>3. place[j] # place[k]
    BY <1>1, <1>12, <2>1
  <2>4. rank[place[j]] # rank[place[k]]
    BY <2>1, <2>3
  <2> QED
    BY <2>1, <2>2, <2>4
<1>13. IsPlacing(place, D, rank, n)
  BY <1>8, <1>9, <1>11, <1>12 DEF IsPlacing
<1> QED
  BY <1>1, <1>13, Zenon DEF n

\* The elements of a sequence.
LEMMA RangeElements ==
  ASSUME NEW s \in Seq(RingEntry)
  PROVE  \A x : x \in Range(s) <=> \E i \in 1..Len(s) : x = s[i]
BY DEF Range

\* The entries are sorted by hash, no two with one hash.
Sorted(es) == \A i, j \in 1..Len(es) : i < j => es[i].hash < es[j].hash

\* removeNodeLocked leaves a sorted ring sorted.
LEMMA FilteredParts ==
  ASSUME entries \in Seq(RingEntry), Sorted(entries), NEW n
  PROVE  /\ Filtered(n) \in Seq(RingEntry) /\ Sorted(Filtered(n))
         /\ Range(Filtered(n)) = {e \in Range(entries) : e.nodeID # n}
<1> DEFINE D == {i \in 1..Len(entries) : entries[i].nodeID # n}
           rank == [i \in D |-> i]
           m == Cardinality(D)
           f == Filtered(n)
<1>1. rank \in [D -> Nat] /\ \A i, k \in D : rank[i] = rank[k] => i = k
  OBVIOUS
<1>2. IsFiniteSet(D) /\ m \in Nat
  <2>1. IsFiniteSet(1..Len(entries)) /\ D \subseteq 1..Len(entries)
    BY FS_Interval
  <2>2. IsFiniteSet(D)
    BY <2>1, FS_Subset
  <2> QED
    BY <2>2, FS_CardinalityType
<1>3. f = Arrange(entries, rank)
  BY DEF Filtered, AtPlaces
<1>4. \A i : /\ i \in D <=> i \in 1..Len(entries) /\ entries[i].nodeID # n
             /\ i \in D => rank[i] = i /\ entries[i] \in RingEntry
  OBVIOUS
<1> HIDE DEF D, rank
<1>5. PICK place \in [1..m -> D] :
        /\ \A i \in D : \E j \in 1..m : place[j] = i
        /\ \A j, k \in 1..m : j < k => rank[place[j]] < rank[place[k]]
        /\ \A s : Arrange(s, rank) = [j \in 1..m |-> s[place[j]]]
  <2>1. \E place : IsPlacing(place, D, rank, m)
    BY <1>1, <1>2, ArrangePlaces
  <2> QED
    BY <2>1, Zenon DEF IsPlacing
<1>6. f = [j \in 1..m |-> entries[place[j]]]
  BY <1>3, <1>5, Zenon
<1> HIDE DEF m, f
<1>7. f \in [1..m -> RingEntry]
  BY <1>4, <1>6
<1>8. f \in Seq(RingEntry) /\ Len(f) = m /\ DOMAIN f = 1..m
  BY <1>2, <1>7
<1>9. Sorted(f)
  <2>1. ASSUME NEW j \in 1..m, NEW k \in 1..m, j < k PROVE f[j].hash < f[k].hash
    <3>1. /\ place[j] \in 1..Len(entries) /\ place[k] \in 1..Len(entries)
          /\ place[j] < place[k] /\ f[j] = entries[place[j]] /\ f[k] = entries[place[k]]
      BY <1>4, <1>5, <1>6, <2>1
    <3> QED
      BY <3>1 DEF Sorted
  <2> QED
    BY <1>8, <2>1 DEF Sorted
<1>10. \A x : x \in Range(f) <=> \E j \in 1..m : x = entries[place[j]]
  <2>1. DOMAIN f = 1..m /\ \A j \in 1..m : f[j] = entries[place[j]]
    BY <1>6, Zenon
  <2>2. \A x : x \in Range(f) <=> \E j \in 1..m : x = f[j]
    BY <2>1 DEF Range
  <2> QED
    BY <2>1, <2>2
<1>11. \A x : x \in Range(entries) <=> \E i \in 1..Len(entries) : x = entries[i]
  BY RangeElements
<1>12. \A x : x \in Range(f) <=> x \in Range(entries) /\ x.nodeID # n
  BY <1>4, <1>5, <1>10, <1>11
<1> QED
  BY <1>8, <1>9, <1>12 DEF f

\* sort.Slice sorts and keeps the entries.
LEMMA SortedByHashParts ==
  ASSUME NEW es \in Seq(RingEntry), \A i, k \in 1..Len(es) : es[i].hash = es[k].hash => i = k
  PROVE  /\ SortedByHash(es) \in Seq(RingEntry) /\ Sorted(SortedByHash(es))
         /\ Range(SortedByHash(es)) = Range(es)
<1> DEFINE D == 1..Len(es)
           rank == [i \in D |-> es[i].hash]
           m == Cardinality(D)
           f == SortedByHash(es)
<1>1. \A i \in D : es[i] \in RingEntry /\ es[i].hash \in Nat
  <2>1. \A i \in D : es[i] \in RingEntry
    OBVIOUS
  <2> QED
    BY <2>1, HashAssumption DEF RingEntry
<1>2. rank \in [D -> Nat] /\ \A i, k \in D : rank[i] = rank[k] => i = k
  BY <1>1
<1>3. IsFiniteSet(D) /\ m \in Nat
  BY FS_Interval, FS_CardinalityType
<1>4. f = Arrange(es, rank)
  BY DEF SortedByHash
<1>5. \A i : i \in D => rank[i] = es[i].hash
  OBVIOUS
<1>6. \A x : x \in Range(es) <=> \E i \in D : x = es[i]
  BY RangeElements
<1> HIDE DEF D, rank
<1>7. PICK place \in [1..m -> D] :
        /\ \A i \in D : \E j \in 1..m : place[j] = i
        /\ \A j, k \in 1..m : j < k => rank[place[j]] < rank[place[k]]
        /\ \A s : Arrange(s, rank) = [j \in 1..m |-> s[place[j]]]
  <2>1. \E place : IsPlacing(place, D, rank, m)
    BY <1>2, <1>3, ArrangePlaces
  <2> QED
    BY <2>1, Zenon DEF IsPlacing
<1>8. f = [j \in 1..m |-> es[place[j]]]
  BY <1>4, <1>7, Zenon
<1> HIDE DEF m, f
<1>9. f \in [1..m -> RingEntry]
  BY <1>1, <1>8
<1>10. f \in Seq(RingEntry) /\ Len(f) = m /\ DOMAIN f = 1..m
  BY <1>3, <1>9
<1>11. Sorted(f)
  <2>1. ASSUME NEW j \in 1..m, NEW k \in 1..m, j < k PROVE f[j].hash < f[k].hash
    BY <1>5, <1>7, <1>8, <2>1
  <2> QED
    BY <1>10, <2>1 DEF Sorted
<1>12. \A x : x \in Range(f) <=> \E j \in 1..m : x = es[place[j]]
  <2>1. DOMAIN f = 1..m /\ \A j \in 1..m : f[j] = es[place[j]]
    BY <1>8, Zenon
  <2>2. \A x : x \in Range(f) <=> \E j \in 1..m : x = f[j]
    BY <2>1 DEF Range
  <2> QED
    BY <2>1, <2>2
<1>13. \A x : x \in Range(f) <=> x \in Range(es)
  BY <1>6, <1>7, <1>12
<1> QED
  BY <1>10, <1>11, <1>13, Zenon DEF f

\* The ring is sorted, and is what its members make of it.
RingInv ==
  /\ hashKey \in Injection(Labels, LabelHash)
  /\ nodes \subseteq Node /\ nodeReplicas \in [nodes -> 1..VirtualNodes]
  /\ entries \in Seq(RingEntry) /\ Sorted(entries)
  /\ \A e \in Range(entries) :
       /\ e.nodeID \in nodes
       /\ \E i \in 0..(nodeReplicas[e.nodeID] - 1) : e.hash = hashKey[<<e.nodeID, i>>]
  /\ \A n \in nodes : \A i \in 0..(nodeReplicas[n] - 1) :
       \E e \in Range(entries) : e.nodeID = n /\ e.hash = hashKey[<<n, i>>]
  /\ \A e, f \in Range(entries) : e.nodeID = f.nodeID => e.address = f.address

\* hashKey gives two labels two hashes.
LEMMA HashesDiffer ==
  ASSUME hashKey \in Injection(Labels, LabelHash)
  PROVE  /\ \A n \in Node, i \in 0..(VirtualNodes - 1) : hashKey[<<n, i>>] \in LabelHash
         /\ \A n, m \in Node, i, k \in 0..(VirtualNodes - 1) :
              hashKey[<<n, i>>] = hashKey[<<m, k>>] => n = m /\ i = k
<1>1. hashKey \in [Labels -> LabelHash]
      /\ \A l, q \in Labels : hashKey[l] = hashKey[q] => l = q
  BY DEF Injection, IsInjective
<1>2. \A n \in Node, i \in 0..(VirtualNodes - 1) : <<n, i>> \in Labels
  BY DEF Labels
<1> QED
  BY <1>1, <1>2

\* The virtual nodes AddNode appends, before the sort.
LEMMA AppendedParts ==
  ASSUME hashKey \in Injection(Labels, LabelHash),
         NEW n \in Node, NEW a \in Address, NEW count \in 1..VirtualNodes
  PROVE  /\ Appended(n, a, count) \in Seq(RingEntry) /\ Len(Appended(n, a, count)) = count
         /\ \A i \in 1..count : Appended(n, a, count)[i] =
                [hash |-> hashKey[<<n, i - 1>>], nodeID |-> n, address |-> a]
<1> DEFINE p == Appended(n, a, count)
           e(i) == [hash |-> hashKey[<<n, i - 1>>], nodeID |-> n, address |-> a]
<1>1. count \in Nat /\ \A i \in 1..count : i - 1 \in 0..(VirtualNodes - 1)
  BY CountAssumption
<1>2. \A i \in 1..count : e(i) \in RingEntry
  BY <1>1, HashesDiffer DEF RingEntry
<1>3. p = [i \in 1..count |-> e(i)]
  BY DEF Appended
<1> HIDE DEF e, p
<1>4. p \in [1..count -> RingEntry] /\ \A i \in 1..count : p[i] = e(i)
  BY <1>2, <1>3
<1>5. p \in Seq(RingEntry) /\ Len(p) = count
  BY <1>1, <1>4
<1> QED
  BY <1>4, <1>5 DEF e, p

\* u is s followed by t, place by place.
IsConcat(u, s, t) ==
  /\ u \in Seq(RingEntry) /\ Len(u) = Len(s) + Len(t)
  /\ \A i \in 1..Len(s) : u[i] = s[i]
  /\ \A i \in 1..Len(u) : i \notin 1..Len(s) =>
       i - Len(s) \in 1..Len(t) /\ u[i] = t[i - Len(s)]
  /\ \A i \in 1..Len(t) : Len(s) + i \in 1..Len(u) /\ u[Len(s) + i] = t[i]

\* The places of a concatenation.
LEMMA ConcatPlaces ==
  ASSUME NEW s \in Seq(RingEntry), NEW t \in Seq(RingEntry)
  PROVE  IsConcat(s \o t, s, t)
<1>1. PICK u : u = s \o t
  BY Zenon
<1> QED
  BY <1>1 DEF IsConcat

\* What AddNode sorts: the entries of the other members and those of n, no two with
\* one hash.
Merged(es, n, a, count) ==
  /\ es \in Seq(RingEntry)
  /\ \A i, k \in 1..Len(es) : es[i].hash = es[k].hash => i = k
  /\ \A x : x \in Range(es) <=>
       \/ x \in Range(entries) /\ x.nodeID # n
       \/ \E i \in 0..(count - 1) :
            x = [hash |-> hashKey[<<n, i>>], nodeID |-> n, address |-> a]

\* The filtered entries followed by the appended ones are that.
LEMMA BeforeSort ==
  ASSUME RingInv, NEW n \in Node, NEW a \in Address, NEW count \in 1..VirtualNodes,
         NEW es, es = Filtered(n) \o Appended(n, a, count)
  PROVE  Merged(es, n, a, count)
<1> DEFINE f == Filtered(n)
           p == Appended(n, a, count)
           e(i) == [hash |-> hashKey[<<n, i>>], nodeID |-> n, address |-> a]
<1>1. /\ f \in Seq(RingEntry) /\ Sorted(f)
      /\ \A x : x \in Range(f) <=> x \in Range(entries) /\ x.nodeID # n
  BY FilteredParts DEF RingInv
<1>2. /\ p \in Seq(RingEntry) /\ Len(p) = count /\ \A i \in 1..count : p[i] = e(i - 1)
  BY AppendedParts DEF RingInv
<1>3. hashKey \in Injection(Labels, LabelHash)
  BY DEF RingInv
<1>4. \A i \in 1..Len(f) : /\ f[i].nodeID # n /\ f[i].nodeID \in Node
                           /\ \E v \in 0..(VirtualNodes - 1) : f[i].hash = hashKey[<<f[i].nodeID, v>>]
  <2> SUFFICES ASSUME NEW i \in 1..Len(f) PROVE <1>4!(i)
    OBVIOUS
  <2>1. f[i] \in Range(f)
    BY <1>1 DEF Range
  <2>2. f[i] \in Range(entries) /\ f[i].nodeID # n
    BY <1>1, <2>1
  <2>3. f[i].nodeID \in nodes /\ nodes \subseteq Node /\ nodeReplicas[f[i].nodeID] \in 1..VirtualNodes
    BY <2>2 DEF RingInv
  <2>4. PICK v \in 0..(nodeReplicas[f[i].nodeID] - 1) : f[i].hash = hashKey[<<f[i].nodeID, v>>]
    BY <2>2, Zenon DEF RingInv
  <2>5. v \in 0..(VirtualNodes - 1)
    BY <2>3, <2>4, CountAssumption, SMTT(30)
  <2> QED
    BY <2>2, <2>3, <2>4, <2>5, Zenon
<1>5. count \in Nat /\ \A i \in 1..count : i - 1 \in 0..(VirtualNodes - 1) /\ i - 1 \in 0..(count - 1)
  BY CountAssumption
<1> HIDE DEF f, p
<1>6. /\ es \in Seq(RingEntry) /\ Len(es) = Len(f) + count
      /\ \A i \in 1..Len(f) : es[i] = f[i]
      /\ \A i \in 1..Len(es) : i \notin 1..Len(f) => i - Len(f) \in 1..count /\ es[i] = p[i - Len(f)]
      /\ \A i \in 1..count : Len(f) + i \in 1..Len(es) /\ es[Len(f) + i] = p[i]
  <2>1. IsConcat(f \o p, f, p)
    BY <1>1, <1>2, ConcatPlaces
  <2>2. IsConcat(es, f, p)
    BY <2>1 DEF f, p
  <2> QED
    BY <1>2, <2>2, Zenon DEF IsConcat
<1>7. ASSUME NEW i \in 1..Len(es), NEW k \in 1..Len(es), es[i].hash = es[k].hash
      PROVE  i = k
  <2> DEFINE lf == Len(f)
  <2>1. lf \in Nat
    BY <1>1
  <2>2. ASSUME NEW x \in 1..lf, NEW y \in 1..Len(es), y \notin 1..lf PROVE es[x].hash # es[y].hash
    <3>1. /\ es[x] = f[x] /\ y - lf \in 1..count /\ es[y] = e(y - lf - 1)
          /\ y - lf - 1 \in 0..(VirtualNodes - 1)
      BY <1>2, <1>5, <1>6, <2>2, Zenon
    <3>2. PICK v \in 0..(VirtualNodes - 1) : f[x].hash = hashKey[<<f[x].nodeID, v>>]
      BY <1>4
    <3>3. f[x].nodeID # n /\ f[x].nodeID \in Node
      BY <1>4
    <3>4. hashKey[<<f[x].nodeID, v>>] # hashKey[<<n, y - lf - 1>>]
      BY <1>3, <3>1, <3>3, HashesDiffer, SMTT(30)
    <3> QED
      BY <3>1, <3>2, <3>4
  <2>3. CASE i \in 1..lf /\ k \in 1..lf
    <3>1. es[i] = f[i] /\ es[k] = f[k]
      BY <1>6, <2>3, Zenon
    <3>2. f[i] \in RingEntry
      BY <1>1, <2>3
    <3>3. f[i].hash = f[k].hash /\ f[i].hash \in Nat
      BY <1>7, <3>1, <3>2, HashAssumption DEF RingEntry
    <3> QED
      BY <2>1, <2>3, <3>3, <1>1 DEF Sorted
  <2>4. CASE i \notin 1..lf /\ k \notin 1..lf
    <3>1. /\ es[i] = e(i - lf - 1) /\ i - lf - 1 \in 0..(VirtualNodes - 1)
          /\ es[k] = e(k - lf - 1) /\ k - lf - 1 \in 0..(VirtualNodes - 1)
      BY <1>2, <1>5, <1>6, <2>4, Zenon
    <3>2. i - lf - 1 = k - lf - 1
      BY <1>3, <1>7, <3>1, HashesDiffer
    <3> QED
      BY <2>1, <3>2
  <2> QED
    BY <1>7, <2>2, <2>3, <2>4
<1>8. ASSUME NEW x
      PROVE  x \in Range(es) <=> x \in Range(f) \/ \E i \in 0..(count - 1) : x = e(i)
  <2>1. /\ x \in Range(es) <=> \E i \in 1..Len(es) : x = es[i]
        /\ x \in Range(f) <=> \E i \in 1..Len(f) : x = f[i]
    <3>1. es \in Seq(RingEntry) /\ f \in Seq(RingEntry)
      BY <1>1, <1>6
    <3> QED
      BY <3>1, RangeElements, Zenon
  <2>2. \A i \in 1..Len(f) : i \in 1..Len(es)
    BY <1>1, <1>5, <1>6
  <2>3. ASSUME x \in Range(es) PROVE x \in Range(f) \/ \E i \in 0..(count - 1) : x = e(i)
    <3>1. PICK k \in 1..Len(es) : x = es[k]
      BY <2>1, <2>3
    <3>2. CASE k \in 1..Len(f)
      BY <1>6, <2>1, <3>1, <3>2
    <3>3. CASE k \notin 1..Len(f)
      <4>1. k - Len(f) - 1 \in 0..(count - 1) /\ x = e(k - Len(f) - 1)
        BY <1>2, <1>5, <1>6, <3>1, <3>3, SMTT(30)
      <4> QED
        BY <4>1, Zenon
    <3> QED
      BY <3>2, <3>3, Zenon
  <2>4. ASSUME NEW i \in 0..(count - 1), x = e(i) PROVE x \in Range(es)
    <3>1. i + 1 \in 1..count /\ (i + 1) - 1 = i
      BY <1>5
    <3>2. x = p[i + 1]
      BY <1>2, <2>4, <3>1
    <3> QED
      BY <1>6, <2>1, <3>1, <3>2, Zenon
  <2> QED
    BY <1>6, <2>1, <2>2, <2>3, <2>4, Zenon
<1>9. \A x : x \in Range(es) <=> \/ x \in Range(entries) /\ x.nodeID # n
                                \/ \E i \in 0..(count - 1) : x = e(i)
  BY <1>1, <1>8, Zenon
<1>10. \A i, k \in 1..Len(es) : es[i].hash = es[k].hash => i = k
  BY <1>7
<1> QED
  BY <1>6, <1>9, <1>10, Zenon DEF Merged

\* RemoveNode keeps the ring in step with its members.
LEMMA RemoveNodeKeeps ==
  ASSUME RingInv, NEW n \in Node, RemoveNode(n)
  PROVE  RingInv'
<1>1. /\ hashKey' = hashKey /\ nodes' = nodes \ {n}
      /\ nodeReplicas' = [m \in nodes \ {n} |-> nodeReplicas[m]]
  BY DEF RemoveNode, nodes
<1>2. /\ entries' \in Seq(RingEntry) /\ Sorted(entries')
      /\ \A x : x \in Range(entries') <=> x \in Range(entries) /\ x.nodeID # n
  BY FilteredParts DEF RingInv, RemoveNode
<1>3. \A m \in nodes' : m \in nodes /\ m # n /\ nodeReplicas'[m] = nodeReplicas[m]
  BY <1>1
<1>4. (hashKey \in Injection(Labels, LabelHash))'
  BY <1>1 DEF RingInv, Labels
<1>5. nodes' \subseteq Node /\ nodeReplicas' \in [nodes' -> 1..VirtualNodes]
  BY <1>1 DEF RingInv
<1>6. ASSUME NEW e \in Range(entries')
      PROVE  /\ e.nodeID \in nodes'
             /\ \E i \in 0..(nodeReplicas'[e.nodeID] - 1) : e.hash = hashKey'[<<e.nodeID, i>>]
  <2>1. e \in Range(entries) /\ e.nodeID \in nodes /\ e.nodeID # n
    BY <1>2 DEF RingInv
  <2>2. e.nodeID \in nodes' /\ nodeReplicas'[e.nodeID] = nodeReplicas[e.nodeID]
    BY <1>1, <2>1
  <2>3. \E i \in 0..(nodeReplicas[e.nodeID] - 1) : e.hash = hashKey[<<e.nodeID, i>>]
    BY <2>1 DEF RingInv
  <2> QED
    BY <1>1, <2>2, <2>3, Zenon
<1>7. ASSUME NEW m \in nodes', NEW i \in 0..(nodeReplicas'[m] - 1)
      PROVE  \E e \in Range(entries') : e.nodeID = m /\ e.hash = hashKey'[<<m, i>>]
  <2>1. m \in nodes /\ m # n /\ i \in 0..(nodeReplicas[m] - 1)
    BY <1>3
  <2>2. PICK e \in Range(entries) : e.nodeID = m /\ e.hash = hashKey[<<m, i>>]
    BY <2>1 DEF RingInv
  <2> QED
    BY <1>1, <1>2, <2>1, <2>2
<1>8. \A e, f \in Range(entries') : e.nodeID = f.nodeID => e.address = f.address
  BY <1>2 DEF RingInv
<1> QED
  BY <1>2, <1>4, <1>5, <1>6, <1>7, <1>8 DEF RingInv, Sorted

\* After the sort of AddNode: the entries, sorted, are those of the other members
\* and those of n.
LEMMA AddNodeEntries ==
  ASSUME RingInv, NEW n \in Node, NEW a \in Address, NEW count \in 1..VirtualNodes,
         entries' = SortedByHash(Filtered(n) \o Appended(n, a, count))
  PROVE  /\ entries' \in Seq(RingEntry) /\ Sorted(entries')
         /\ \A x : x \in Range(entries') <=>
              \/ x \in Range(entries) /\ x.nodeID # n
              \/ \E i \in 0..(count - 1) :
                   x = [hash |-> hashKey[<<n, i>>], nodeID |-> n, address |-> a]
<1>1. PICK es : es = Filtered(n) \o Appended(n, a, count)
  BY Zenon
<1>2. Merged(es, n, a, count)
  BY <1>1, BeforeSort, Zenon
<1>3. es \in Seq(RingEntry) /\ \A i, k \in 1..Len(es) : es[i].hash = es[k].hash => i = k
  BY <1>2 DEF Merged
<1>4. /\ entries' \in Seq(RingEntry) /\ Sorted(entries') /\ Range(entries') = Range(es)
  BY <1>1, <1>3, SortedByHashParts, Zenon
<1> QED
  BY <1>2, <1>4, Zenon DEF Merged

\* AddNode keeps it too, for a new node and for one that changes its weight or
\* its address.
LEMMA AddNodeKeeps ==
  ASSUME RingInv, NEW n \in Node, NEW a \in Address, NEW r \in 0..VirtualNodes,
         AddNode(n, a, r)
  PROVE  RingInv'
<1> DEFINE count == VirtualCount(r)
           e(i) == [hash |-> hashKey[<<n, i>>], nodeID |-> n, address |-> a]
<1>1. count \in 1..VirtualNodes
  BY CountAssumption DEF VirtualCount
<1>2. entries' = SortedByHash(Filtered(n) \o Appended(n, a, count))
  BY DEF AddNode, Added
<1>3. /\ hashKey' = hashKey
      /\ nodeReplicas' = [m \in nodes \cup {n} |-> IF m = n THEN count ELSE nodeReplicas[m]]
      /\ nodes' = nodes \cup {n}
  BY DEF AddNode, Added, nodes
<1> HIDE DEF count
<1>4. /\ entries' \in Seq(RingEntry) /\ Sorted(entries')
      /\ \A x : x \in Range(entries') <=> \/ x \in Range(entries) /\ x.nodeID # n
                                          \/ \E i \in 0..(count - 1) : x = e(i)
  BY <1>1, <1>2, AddNodeEntries
<1>5. entries' \in Seq(RingEntry) /\ Sorted(entries')
  BY <1>4
<1>6. \A x : x \in Range(entries') <=> \/ x \in Range(entries) /\ x.nodeID # n
                                       \/ \E i \in 0..(count - 1) : x = e(i)
  BY <1>4
<1>7. \A m \in nodes' : IF m = n THEN nodeReplicas'[m] = count
                        ELSE m \in nodes /\ nodeReplicas'[m] = nodeReplicas[m]
  BY <1>3
<1>8. (hashKey \in Injection(Labels, LabelHash))'
  BY <1>3 DEF RingInv, Labels
<1>9. nodes' \subseteq Node /\ nodeReplicas' \in [nodes' -> 1..VirtualNodes]
  BY <1>1, <1>3 DEF RingInv
<1>10. ASSUME NEW x \in Range(entries')
       PROVE  /\ x.nodeID \in nodes'
              /\ \E i \in 0..(nodeReplicas'[x.nodeID] - 1) : x.hash = hashKey'[<<x.nodeID, i>>]
  <2>1. CASE x \in Range(entries) /\ x.nodeID # n
    <3>1. /\ x.nodeID \in nodes
          /\ \E i \in 0..(nodeReplicas[x.nodeID] - 1) : x.hash = hashKey[<<x.nodeID, i>>]
      BY <2>1, Zenon DEF RingInv
    <3>2. x.nodeID \in nodes' /\ nodeReplicas'[x.nodeID] = nodeReplicas[x.nodeID]
      BY <1>3, <2>1, <3>1
    <3> QED
      BY <1>3, <3>1, <3>2, Zenon
  <2>2. CASE \E i \in 0..(count - 1) : x = e(i)
    <3>1. PICK i \in 0..(count - 1) : x = e(i)
      BY <2>2
    <3>2. x.nodeID = n /\ x.hash = hashKey'[<<x.nodeID, i>>]
      BY <1>3, <3>1
    <3>3. n \in nodes' /\ nodeReplicas'[x.nodeID] = count
      BY <1>3, <3>2
    <3> QED
      BY <3>2, <3>3
  <2> QED
    BY <1>6, <2>1, <2>2
<1>11. ASSUME NEW m \in nodes', NEW i \in 0..(nodeReplicas'[m] - 1)
       PROVE  \E x \in Range(entries') : x.nodeID = m /\ x.hash = hashKey'[<<m, i>>]
  <2>1. CASE m = n
    <3>1. i \in 0..(count - 1)
      BY <1>7, <2>1
    <3>2. e(i) \in Range(entries') /\ e(i).nodeID = m /\ e(i).hash = hashKey'[<<m, i>>]
      BY <1>3, <1>6, <2>1, <3>1
    <3> QED
      BY <3>2
  <2>2. CASE m # n
    <3>1. m \in nodes /\ i \in 0..(nodeReplicas[m] - 1)
      BY <1>7, <2>2
    <3>2. PICK x \in Range(entries) : x.nodeID = m /\ x.hash = hashKey[<<m, i>>]
      BY <3>1 DEF RingInv
    <3> QED
      BY <1>3, <1>6, <2>2, <3>2
  <2> QED
    BY <2>1, <2>2
<1>12. ASSUME NEW x \in Range(entries'), NEW y \in Range(entries'), x.nodeID = y.nodeID
       PROVE  x.address = y.address
  <2>1. \A i : e(i).nodeID = n /\ e(i).address = a
    OBVIOUS
  <2> HIDE DEF e
  <2>2. \A z \in Range(entries') : \/ z \in Range(entries) /\ z.nodeID # n
                                   \/ z.nodeID = n /\ z.address = a
    BY <1>6, <2>1
  <2>3. \A w, z \in Range(entries) : w.nodeID = z.nodeID => w.address = z.address
    BY DEF RingInv
  <2> QED
    BY <1>12, <2>2, <2>3
<1> QED
  BY <1>5, <1>8, <1>9, <1>10, <1>11, <1>12, Zenon DEF RingInv, Sorted

\* The ring stays in step with its members.
LEMMA RingInvariant == Spec => []RingInv
<1>1. ASSUME Init PROVE RingInv
  <2>1. entries = <<>> /\ nodeReplicas = [n \in {} |-> 0] /\ nodes = {}
    BY <1>1 DEF Init, nodes
  <2>2. entries \in Seq(RingEntry) /\ Len(entries) = 0 /\ Range(entries) = {}
    BY <2>1 DEF Range
  <2>3. Sorted(entries)
    BY <2>2 DEF Sorted
  <2>4. nodeReplicas \in [nodes -> 1..VirtualNodes]
    BY <2>1
  <2> QED
    BY <1>1, <2>1, <2>2, <2>3, <2>4 DEF Init, RingInv
<1>2. ASSUME RingInv, [Next]_vars PROVE RingInv'
  <2>1. ASSUME NEW n \in Node, NEW a \in Address, NEW r \in 0..VirtualNodes, AddNode(n, a, r)
        PROVE  RingInv'
    BY <1>2, <2>1, AddNodeKeeps
  <2>2. ASSUME NEW n \in Node, RemoveNode(n) PROVE RingInv'
    BY <1>2, <2>2, RemoveNodeKeeps
  <2>3. CASE UNCHANGED vars
    BY <1>2, <2>3, Zenon DEF vars, RingInv, Sorted, nodes, Labels
  <2> QED
    BY <1>2, <2>1, <2>2, <2>3 DEF Next
<1> QED
  BY <1>1, <1>2, PTL DEF Spec

\* On every ring, whatever the labels hash to and however many nodes and virtual
\* nodes: after any AddNode and RemoveNode calls the entries are sorted and are
\* exactly the virtual nodes of the present members.
THEOREM RingFollowsMembers == Spec => []RingIsItsMembers
<1>1. ASSUME RingInv PROVE RingIsItsMembers
  <2> DEFINE left == {<<e.nodeID, e.hash>> : e \in Range(entries)}
             of(n) == {<<n, hashKey[<<n, i>>]>> : i \in 0..(nodeReplicas[n] - 1)}
             right == UNION {of(n) : n \in nodes}
  <2>1. /\ entries \in Seq(RingEntry)
        /\ \A i, j \in 1..Len(entries) : i < j => entries[i].hash < entries[j].hash
    BY <1>1 DEF RingInv, Sorted
  <2>2. \A n \in nodes : nodeReplicas[n] > 0
    BY <1>1 DEF RingInv
  <2>3. ASSUME NEW e \in Range(entries) PROVE <<e.nodeID, e.hash>> \in right
    <3>1. PICK i \in 0..(nodeReplicas[e.nodeID] - 1) : e.hash = hashKey[<<e.nodeID, i>>]
      BY <1>1 DEF RingInv
    <3>2. e.nodeID \in nodes
      BY <1>1 DEF RingInv
    <3>3. <<e.nodeID, e.hash>> \in of(e.nodeID)
      BY <3>1
    <3> QED
      BY <3>2, <3>3, Zenon
  <2>4. ASSUME NEW n \in nodes, NEW i \in 0..(nodeReplicas[n] - 1)
        PROVE  <<n, hashKey[<<n, i>>]>> \in left
    <3>1. PICK e \in Range(entries) : e.nodeID = n /\ e.hash = hashKey[<<n, i>>]
      BY <1>1 DEF RingInv
    <3> QED
      BY <3>1
  <2>5. left \subseteq right
    BY <2>3
  <2>6. right \subseteq left
    <3> SUFFICES ASSUME NEW x \in right PROVE x \in left
      BY Zenon
    <3>1. PICK n \in nodes : x \in of(n)
      BY Zenon
    <3>2. PICK i \in 0..(nodeReplicas[n] - 1) : x = <<n, hashKey[<<n, i>>]>>
      BY <3>1
    <3> QED
      BY <2>4, <3>2
  <2>7. \A e, f \in Range(entries) : e.nodeID = f.nodeID => e.address = f.address
    BY <1>1 DEF RingInv
  <2> QED
    BY <2>1, <2>2, <2>5, <2>6, <2>7, Zenon DEF RingIsItsMembers
<1> QED
  BY <1>1, RingInvariant, PTL

\* One call leaves the entries of all nodes but one as they are.
LEMMA OthersStay ==
  ASSUME RingInv, Next
  PROVE  \E n \in Node : \A x : x.nodeID # n => (x \in Range(entries) <=> x \in Range(entries'))
<1>1. ASSUME NEW n \in Node, NEW a \in Address, NEW r \in 0..VirtualNodes, AddNode(n, a, r)
      PROVE  \A x : x.nodeID # n => (x \in Range(entries) <=> x \in Range(entries'))
  <2> DEFINE count == VirtualCount(r)
             e(i) == [hash |-> hashKey[<<n, i>>], nodeID |-> n, address |-> a]
  <2>1. count \in 1..VirtualNodes
    BY CountAssumption DEF VirtualCount
  <2>2. entries' = SortedByHash(Filtered(n) \o Appended(n, a, count))
    BY <1>1 DEF AddNode, Added
  <2> HIDE DEF count
  <2>3. \A x : x \in Range(entries') <=> \/ x \in Range(entries) /\ x.nodeID # n
                                         \/ \E i \in 0..(count - 1) : x = e(i)
    BY <2>1, <2>2, AddNodeEntries, Zenon
  <2>4. \A i : e(i).nodeID = n
    OBVIOUS
  <2> HIDE DEF e
  <2> QED
    BY <2>3, <2>4
<1>2. ASSUME NEW n \in Node, RemoveNode(n)
      PROVE  \A x : x.nodeID # n => (x \in Range(entries) <=> x \in Range(entries'))
  BY <1>2, FilteredParts DEF RingInv, RemoveNode
<1>3. CASE \E n \in Node, a \in Address, r \in 0..VirtualNodes : AddNode(n, a, r)
  BY <1>1, <1>3
<1>4. CASE \E n \in Node : RemoveNode(n)
  BY <1>2, <1>4
<1> QED
  BY <1>3, <1>4 DEF Next

\* e is the first entry of E at or after h, or the first of all past the last.
First(E, e, h) ==
  /\ e \in E
  /\ \/ e.hash >= h /\ \A f \in E : f.hash >= h => e.hash <= f.hash
     \/ \A f \in E : f.hash < h /\ e.hash <= f.hash

\* The binary search and the wrap-around of GetNode on a sorted ring.
LEMMA GetNodeFirst ==
  ASSUME NEW es \in Seq(RingEntry), Sorted(es), es # <<>>, NEW h \in KeyHash
  PROVE  /\ Successor(es, h) \in 1..Len(es)
         /\ \E e : First(Range(es), e, h) /\ GetNode(es, h) = e.nodeID
<1> DEFINE after == {i \in 1..Len(es) : es[i].hash >= h}
           k == Successor(es, h)
<1>1. Len(es) \in Nat \ {0}
  OBVIOUS
<1>2. h \in Nat /\ \A i \in 1..Len(es) : es[i].hash \in Nat
  <2>1. \A i \in 1..Len(es) : es[i] \in RingEntry
    OBVIOUS
  <2> QED
    BY <2>1, HashAssumption DEF RingEntry
<1>3. \A i, j \in 1..Len(es) : i <= j => es[i].hash <= es[j].hash
  BY <1>1, <1>2 DEF Sorted
<1>4. k = IF after = {} THEN 1 ELSE Min(after)
  BY DEF Successor
<1>5. /\ k \in 1..Len(es)
      /\ \/ es[k].hash >= h /\ \A i \in 1..Len(es) : es[i].hash >= h => k <= i
         \/ \A i \in 1..Len(es) : es[i].hash < h /\ k <= i
  <2>1. CASE after = {}
    BY <1>1, <1>2, <1>4, <2>1
  <2>2. CASE after # {}
    <3>1. after \subseteq Nat /\ after # {}
      BY <2>2
    <3>2. k \in after /\ \A i \in after : k <= i
      BY <1>4, <2>2, <3>1, MinIsLeast, Zenon
    <3> QED
      BY <3>2
  <2> QED
    BY <2>1, <2>2
<1> HIDE DEF k, after
<1>6. GetNode(es, h) = es[k].nodeID
  BY DEF GetNode, k
<1>7. es[k] \in Range(es) /\ \A f \in Range(es) : \E i \in 1..Len(es) : f = es[i]
  BY <1>5, RangeElements
<1>8. First(Range(es), es[k], h)
  BY <1>2, <1>3, <1>5, <1>7, Zenon DEF First
<1> QED
  BY <1>5, <1>6, <1>8 DEF k

\* Two entries of a sorted ring with one hash are one entry.
LEMMA SortedHashes ==
  ASSUME NEW es \in Seq(RingEntry), Sorted(es), NEW e \in Range(es), NEW f \in Range(es),
         e.hash = f.hash
  PROVE  e = f
<1>1. PICK i \in 1..Len(es) : e = es[i]
  BY RangeElements
<1>2. PICK j \in 1..Len(es) : f = es[j]
  BY RangeElements
<1>3. es[i] \in RingEntry
  OBVIOUS
<1>4. es[i].hash \in Nat
  BY <1>3, HashAssumption DEF RingEntry
<1> QED
  BY <1>1, <1>2, <1>4 DEF Sorted

\* Two rings that agree on all nodes but n: a key has one owner in both, or n owns
\* it in one of them.
LEMMA OwnerStays ==
  ASSUME NEW es \in Seq(RingEntry), Sorted(es), NEW fs \in Seq(RingEntry), Sorted(fs), NEW n,
         \A x : x.nodeID # n => (x \in Range(es) <=> x \in Range(fs)),
         NEW h \in KeyHash
  PROVE  GetNode(fs, h) = GetNode(es, h) \/ GetNode(fs, h) = n \/ GetNode(es, h) = n
<1> DEFINE E == Range(es)
           F == Range(fs)
<1>1. h \in Nat /\ \A x \in E \cup F : x.hash \in Nat
  <2>1. E \cup F \subseteq RingEntry
    BY RangeElements
  <2> QED
    BY <2>1, HashAssumption DEF RingEntry
<1>2. CASE es = <<>> \/ fs = <<>>
  <2>1. \A s : s = <<>> => Range(s) = {} /\ GetNode(s, h) = NoID
    BY DEF Range, GetNode
  <2>2. ASSUME NEW s \in Seq(RingEntry), Sorted(s), \A x \in Range(s) : x.nodeID = n
        PROVE  GetNode(s, h) = NoID \/ GetNode(s, h) = n
    <3>1. CASE s = <<>>
      BY <2>1, <3>1
    <3>2. CASE s # <<>>
      <4>1. PICK e : First(Range(s), e, h) /\ GetNode(s, h) = e.nodeID
        BY <2>2, <3>2, GetNodeFirst
      <4> QED
        BY <2>2, <4>1 DEF First
    <3> QED
      BY <3>1, <3>2
  <2>3. CASE es = <<>>
    <3>1. GetNode(es, h) = NoID /\ \A x \in F : x.nodeID = n
      BY <2>1, <2>3
    <3>2. GetNode(fs, h) = NoID \/ GetNode(fs, h) = n
      BY <2>2, <3>1
    <3> QED
      BY <3>1, <3>2
  <2>4. CASE fs = <<>>
    <3>1. GetNode(fs, h) = NoID /\ \A x \in E : x.nodeID = n
      BY <2>1, <2>4
    <3>2. GetNode(es, h) = NoID \/ GetNode(es, h) = n
      BY <2>2, <3>1
    <3> QED
      BY <3>1, <3>2
  <2> QED
    BY <1>2, <2>3, <2>4
<1>3. CASE es # <<>> /\ fs # <<>>
  <2>1. PICK e : First(E, e, h) /\ GetNode(es, h) = e.nodeID
    BY <1>3, GetNodeFirst
  <2>2. PICK f : First(F, f, h) /\ GetNode(fs, h) = f.nodeID
    BY <1>3, GetNodeFirst
  <2>3. CASE e.nodeID # n /\ f.nodeID # n
    <3> HIDE DEF E, F
    <3>1. e \in E /\ e \in F /\ f \in E /\ f \in F
      <4>1. e \in E /\ f \in F
        BY <2>1, <2>2 DEF First
      <4> QED
        BY <2>3, <4>1 DEF E, F
    <3>2. /\ \/ e.hash >= h /\ \A x \in E : x.hash >= h => e.hash <= x.hash
             \/ \A x \in E : x.hash < h /\ e.hash <= x.hash
          /\ \/ f.hash >= h /\ \A x \in F : x.hash >= h => f.hash <= x.hash
             \/ \A x \in F : x.hash < h /\ f.hash <= x.hash
      BY <2>1, <2>2 DEF First
    <3>3. e.hash \in Nat /\ f.hash \in Nat /\ h \in Nat
      BY <1>1, <3>1
    <3>4. e.hash = f.hash
      BY <3>1, <3>2, <3>3
    <3>5. e = f
      BY <3>1, <3>4, SortedHashes DEF E
    <3> QED
      BY <2>1, <2>2, <3>5
  <2> QED
    BY <2>1, <2>2, <2>3
<1> QED
  BY <1>2, <1>3

\* On every ring: a call of AddNode or RemoveNode changes the owner of a key only
\* to or from the one node it is about.
THEOREM RingMovesOneNode == Spec => MovesOnlyTouchOneNode
<1>1. ASSUME RingInv, RingInv', Next
      PROVE  \E n \in Node : \A h \in KeyHash :
               \/ GetNode(entries', h) = GetNode(entries, h)
               \/ GetNode(entries', h) = n
               \/ GetNode(entries, h) = n
  <2>1. PICK n \in Node : \A x : x.nodeID # n => (x \in Range(entries) <=> x \in Range(entries'))
    BY <1>1, OthersStay
  <2>2. entries \in Seq(RingEntry) /\ Sorted(entries) /\ entries' \in Seq(RingEntry) /\ Sorted(entries')
    BY <1>1 DEF RingInv, Sorted
  <2> QED
    BY <2>1, <2>2, OwnerStays
<1> QED
  BY <1>1, RingInvariant, PTL DEF Spec, MovesOnlyTouchOneNode

\* The recursion of the loop over the slots defines a function.
LEMMA SlotLoopIs ==
  ASSUME NEW es
  PROVE  \E after : /\ after[0] = [ranges |-> <<>>, start |-> 0, owner |-> SlotOwner(es, 0)]
                    /\ \A slot \in 1..(NumSlots - 1) :
                         after[slot] = SlotStep(es, 1, after[slot - 1], slot)
                    /\ SlotLoop(es, 1) = after[NumSlots - 1]
<1> DEFINE zero == [ranges |-> <<>>, start |-> 0, owner |-> SlotOwner(es, 0)]
           step(open, slot) == SlotStep(es, 1, open, slot)
           Defined(f, n) ==
             f = [slot \in 0..n |-> IF slot = 0 THEN zero ELSE step(f[slot - 1], slot)]
           S == {n \in Nat : \E f : Defined(f, n)}
           loop == CHOOSE f : Defined(f, NumSlots - 1)
<1>1. SlotLoop(es, 1) = loop[NumSlots - 1]
  BY DEF SlotLoop
<1>2. NumSlots - 1 \in Nat
  BY SlotAssumption
<1> HIDE DEF zero, step
<1>3. 0 \in S
  <2>1. Defined([slot \in 0..0 |-> zero], 0)
    OBVIOUS
  <2> QED
    BY <2>1, Zenon
<1>4. ASSUME NEW n \in S PROVE n + 1 \in S
  <2>1. PICK f : Defined(f, n)
    OBVIOUS
  <2> DEFINE g == [slot \in 0..(n + 1) |-> IF slot = n + 1 THEN step(f[n], n + 1) ELSE f[slot]]
  <2>2. n \in Nat /\ \A slot \in 0..n : f[slot] = IF slot = 0 THEN zero ELSE step(f[slot - 1], slot)
    BY <2>1
  <2>3. /\ g[n + 1] = step(f[n], n + 1) /\ \A slot \in 0..n : g[slot] = f[slot]
    BY <2>2
  <2>4. ASSUME NEW slot \in 0..(n + 1)
        PROVE  g[slot] = IF slot = 0 THEN zero ELSE step(g[slot - 1], slot)
    <3>1. CASE slot = n + 1
      <4>1. n \in 0..n /\ slot # 0 /\ slot - 1 = n
        BY <2>2, <3>1
      <4> QED
        BY <2>3, <3>1, <4>1
    <3>2. CASE slot = 0
      BY <2>2, <2>3, <3>2
    <3>3. CASE slot # n + 1 /\ slot # 0
      <4>1. slot \in 0..n /\ slot - 1 \in 0..n
        BY <2>2, <3>3
      <4> QED
        BY <2>2, <2>3, <3>3, <4>1
    <3> QED
      BY <3>1, <3>2, <3>3
  <2>5. Defined(g, n + 1)
    <3>1. g = [slot \in 0..(n + 1) |-> g[slot]]
      OBVIOUS
    <3> HIDE DEF g
    <3> QED
      BY <2>4, <3>1, Zenon
  <2>6. n + 1 \in Nat /\ \E f1 : Defined(f1, n + 1)
    <3> HIDE DEF Defined, g
    <3> QED
      BY <2>2, <2>5
  <2> HIDE DEF Defined
  <2> QED
    BY <2>6
<1>5. NumSlots - 1 \in S
  BY <1>2, <1>3, <1>4, SetInduction, Zenon
<1>6. Defined(loop, NumSlots - 1)
  BY <1>5
<1> HIDE DEF loop
<1>7. \A slot \in 0..(NumSlots - 1) :
        loop[slot] = IF slot = 0 THEN zero ELSE step(loop[slot - 1], slot)
  BY <1>6, Zenon
<1>8. loop[0] = zero /\ \A slot \in 1..(NumSlots - 1) : loop[slot] = step(loop[slot - 1], slot)
  BY <1>2, <1>7
<1> QED
  BY <1>1, <1>8 DEF zero, step

\* The nodes with an entry.
Owners(es) == {e.nodeID : e \in Range(es)}

\* The ranges of the table.
SlotRangeOf(es) ==
  [start : Nat, end : Nat, node : Owners(es), address : {AddressOf(es, n) : n \in Owners(es)}]

\* The ranges rs follow one another from slot 0, each of one owner that is not the
\* next one's.
Chained(es, rs) ==
  /\ rs \in Seq(SlotRangeOf(es))
  /\ Len(rs) > 0 => rs[1].start = 0
  /\ \A i \in 1..Len(rs) :
       /\ rs[i].start <= rs[i].end /\ rs[i].address = AddressOf(es, rs[i].node)
       /\ \A slot \in rs[i].start..rs[i].end : rs[i].node = SlotOwner(es, slot)
       /\ i > 1 => rs[i].start = rs[i - 1].end + 1 /\ rs[i].node # rs[i - 1].node

\* The open range starts where the last closed one ends, and has had one owner up
\* to slot.
OpenAt(es, open, slot) ==
  /\ Chained(es, open.ranges)
  /\ open.start \in 0..slot /\ open.owner \in Owners(es)
  /\ \A s \in open.start..slot : open.owner = SlotOwner(es, s)
  /\ IF Len(open.ranges) = 0 THEN open.start = 0
     ELSE /\ open.ranges[Len(open.ranges)].end + 1 = open.start
          /\ open.ranges[Len(open.ranges)].node # open.owner

\* The last of the chain of ranges ends at slot and is owner's.
Closed(es, rs, slot, owner) ==
  Chained(es, rs) /\ Len(rs) > 0 /\ rs[Len(rs)].end = slot /\ rs[Len(rs)].node = owner

\* Closing the open range at slot lengthens the chain.
LEMMA CloseRange ==
  ASSUME NEW es, NEW open, NEW slot \in Nat, OpenAt(es, open, slot),
         NEW rs, rs = Append(open.ranges, SlotRange(es, open, slot))
  PROVE  Closed(es, rs, slot, open.owner)
<1> DEFINE old == open.ranges
           r == SlotRange(es, open, slot)
<1>1. /\ r.start = open.start /\ r.end = slot /\ r.node = open.owner
      /\ r.address = AddressOf(es, open.owner) /\ r \in SlotRangeOf(es)
  BY DEF OpenAt, SlotRange, SlotRangeOf
<1>2. old \in Seq(SlotRangeOf(es)) /\ Len(old) \in Nat
  BY DEF OpenAt, Chained
<1> HIDE DEF old, r
<1>3. rs = Append(old, r)
  BY DEF old, r
<1>4. /\ rs \in Seq(SlotRangeOf(es)) /\ Len(rs) = Len(old) + 1
      /\ rs[Len(old) + 1] = r /\ \A i \in 1..Len(old) : rs[i] = old[i]
  BY <1>1, <1>2, <1>3
<1>5. /\ Len(old) > 0 => old[1].start = 0
      /\ \A i \in 1..Len(old) :
           /\ old[i].start <= old[i].end /\ old[i].address = AddressOf(es, old[i].node)
           /\ \A s \in old[i].start..old[i].end : old[i].node = SlotOwner(es, s)
           /\ i > 1 => old[i].start = old[i - 1].end + 1 /\ old[i].node # old[i - 1].node
  BY DEF OpenAt, Chained, old
<1>6. /\ open.start \in 0..slot
      /\ \A s \in open.start..slot : open.owner = SlotOwner(es, s)
      /\ Len(old) = 0 => open.start = 0
      /\ Len(old) # 0 => old[Len(old)].end + 1 = open.start /\ old[Len(old)].node # open.owner
  BY DEF OpenAt, old
<1>7. rs[1].start = 0
  <2>1. CASE Len(old) = 0
    <3>1. Len(old) + 1 = 1 /\ rs[Len(old) + 1] = r
      BY <1>4, <2>1
    <3> QED
      BY <1>1, <1>6, <2>1, <3>1
  <2>2. CASE Len(old) # 0
    <3>1. 1 \in 1..Len(old) /\ Len(old) > 0
      BY <1>2, <2>2
    <3> QED
      BY <1>4, <1>5, <3>1
  <2> QED
    BY <2>1, <2>2
<1>8. ASSUME NEW i \in 1..Len(rs)
      PROVE  /\ rs[i].start <= rs[i].end /\ rs[i].address = AddressOf(es, rs[i].node)
             /\ \A s \in rs[i].start..rs[i].end : rs[i].node = SlotOwner(es, s)
             /\ i > 1 => rs[i].start = rs[i - 1].end + 1 /\ rs[i].node # rs[i - 1].node
  <2>1. CASE i \in 1..Len(old)
    <3>1. i > 1 => i - 1 \in 1..Len(old)
      BY <1>2, <2>1
    <3>2. rs[i] = old[i] /\ (i > 1 => rs[i - 1] = old[i - 1])
      BY <1>4, <2>1, <3>1, Zenon
    <3> QED
      BY <1>5, <2>1, <3>2
  <2>2. CASE i = Len(old) + 1
    <3>1. rs[i] = r
      BY <1>4, <2>2
    <3>2. r.start <= r.end /\ r.address = AddressOf(es, r.node)
          /\ \A s \in r.start..r.end : r.node = SlotOwner(es, s)
      BY <1>1, <1>6
    <3>3. ASSUME i > 1 PROVE r.start = rs[i - 1].end + 1 /\ r.node # rs[i - 1].node
      <4>1. Len(old) # 0 /\ Len(old) \in 1..Len(old) /\ i - 1 = Len(old)
        BY <1>2, <2>2, <3>3
      <4>2. rs[i - 1] = old[Len(old)]
        BY <1>4, <4>1
      <4> QED
        BY <1>1, <1>6, <4>1, <4>2
    <3> QED
      BY <3>1, <3>2, <3>3
  <2>3. i \in 1..Len(old) \/ i = Len(old) + 1
    BY <1>2, <1>4
  <2> QED
    BY <2>1, <2>2, <2>3, Zenon
<1>9. Chained(es, rs)
  BY <1>4, <1>7, <1>8 DEF Chained
<1> QED
  BY <1>1, <1>2, <1>4, <1>9 DEF Closed

\* A slot has an owner on a ring that is not empty, and GetNode names it.
LEMMA SlotOwnerIsMember ==
  ASSUME NEW es \in Seq(RingEntry), Sorted(es), es # <<>>, NEW slot \in 0..(NumSlots - 1)
  PROVE  SlotOwner(es, slot) = GetNode(es, SlotHash[slot]) /\ SlotOwner(es, slot) \in Owners(es)
<1>1. SlotHash[slot] \in KeyHash
  BY SlotAssumption
<1>2. PICK k : k = Successor(es, SlotHash[slot])
  OBVIOUS
<1>3. k \in 1..Len(es)
  BY <1>1, <1>2, GetNodeFirst
<1>4. es[k] \in Range(es)
  BY <1>3, RangeElements
<1>5. SlotOwner(es, slot) = es[k].nodeID /\ GetNode(es, SlotHash[slot]) = es[k].nodeID
  BY <1>2 DEF SlotOwner, GetNode
<1> QED
  BY <1>4, <1>5 DEF Owners

\* GetSlotRanges on a sorted ring that is not empty.
LEMMA SlotRangesChained ==
  ASSUME NEW es \in Seq(RingEntry), Sorted(es), es # <<>>
  PROVE  LET rs == GetSlotRanges(es)
         IN  Chained(es, rs) /\ Len(rs) > 0 /\ rs[Len(rs)].end = NumSlots - 1
<1> DEFINE last == NumSlots - 1
<1>1. last \in Nat
  BY SlotAssumption
<1>2. PICK after :
        /\ after[0] = [ranges |-> <<>>, start |-> 0, owner |-> SlotOwner(es, 0)]
        /\ \A slot \in 1..last : after[slot] = SlotStep(es, 1, after[slot - 1], slot)
        /\ SlotLoop(es, 1) = after[last]
  BY SlotLoopIs
<1>3. \A slot \in 0..last : SlotOwner(es, slot) \in Owners(es)
  BY SlotOwnerIsMember
<1> HIDE DEF last
<1> DEFINE S == {slot \in Nat : slot <= last => OpenAt(es, after[slot], slot)}
<1>4. OpenAt(es, after[0], 0)
  <2>1. after[0].ranges = <<>> /\ after[0].start = 0 /\ after[0].owner = SlotOwner(es, 0)
    BY <1>2
  <2>2. Chained(es, <<>>)
    BY DEF Chained
  <2>3. SlotOwner(es, 0) \in Owners(es)
    BY <1>1, <1>3
  <2> QED
    BY <2>1, <2>2, <2>3 DEF OpenAt
<1>5. ASSUME NEW slot \in Nat, slot + 1 <= last, OpenAt(es, after[slot], slot)
      PROVE  OpenAt(es, after[slot + 1], slot + 1)
  <2> DEFINE open == after[slot]
             next == after[slot + 1]
             owner == SlotOwner(es, slot + 1)
             rs == Append(open.ranges, SlotRange(es, open, slot))
  <2>1. next = SlotStep(es, 1, open, slot + 1) /\ owner \in Owners(es)
    <3>1. slot + 1 \in 1..last /\ (slot + 1) - 1 = slot
      BY <1>1, <1>5
    <3> QED
      BY <1>2, <1>3, <3>1
  <2>2. OpenAt(es, open, slot)
    BY <1>5
  <2> HIDE DEF open, next
  <2>3. CASE owner = open.owner
    <3>1. next = open
      BY <2>1, <2>3 DEF SlotStep
    <3>2. \A s \in open.start..(slot + 1) : open.owner = SlotOwner(es, s)
      BY <2>2, <2>3 DEF OpenAt
    <3>3. open.start \in 0..(slot + 1)
      BY <2>2 DEF OpenAt
    <3>4. OpenAt(es, open, slot + 1)
      BY <2>2, <3>2, <3>3 DEF OpenAt
    <3> QED
      BY <3>1, <3>4 DEF next
  <2>4. CASE owner # open.owner
    <3>1. next = [ranges |-> rs, start |-> slot + 1, owner |-> owner]
      <4>1. (slot + 1) - 1 = slot
        OBVIOUS
      <4> QED
        BY <2>1, <2>4, <4>1 DEF SlotStep
    <3>2. Chained(es, rs) /\ Len(rs) > 0 /\ rs[Len(rs)].end = slot /\ rs[Len(rs)].node = open.owner
      <4>1. Closed(es, rs, slot, open.owner)
        BY <2>2, CloseRange, Zenon
      <4> QED
        BY <4>1 DEF Closed
    <3> HIDE DEF rs, owner
    <3>3. next.ranges = rs /\ next.start = slot + 1 /\ next.owner = owner
      BY <3>1
    <3>4. \A s \in (slot + 1)..(slot + 1) : owner = SlotOwner(es, s)
      BY DEF owner
    <3>5. OpenAt(es, next, slot + 1)
      BY <2>1, <2>4, <3>2, <3>3, <3>4 DEF OpenAt
    <3> QED
      BY <3>5 DEF next
  <2> QED
    BY <2>3, <2>4
<1>6. 0 \in S /\ \A slot \in S : slot + 1 \in S
  BY <1>1, <1>4, <1>5
<1>7. OpenAt(es, after[last], last)
  <2>1. last \in S
    BY <1>1, <1>6, SetInduction, Zenon
  <2> QED
    BY <1>1, <2>1
<1>8. GetSlotRanges(es) = Append(after[last].ranges, SlotRange(es, after[last], last))
  BY <1>2, Zenon DEF GetSlotRanges, SlotRanges, last
<1>9. Closed(es, GetSlotRanges(es), last, after[last].owner)
  BY <1>1, <1>7, <1>8, CloseRange, Zenon
<1> QED
  BY <1>9 DEF Closed, last

\* On every ring, for any number of slots: GetSlotRanges gives each slot to one
\* range, of the node GetNode names for the slot's hash, and adjacent ranges to
\* different nodes.
THEOREM RingSlotRanges == Spec => []SlotRangesPartition
<1>1. ASSUME RingInv PROVE SlotRangesPartition
  <2> SUFFICES ASSUME entries # <<>> PROVE SlotRangesPartition
    BY DEF SlotRangesPartition
  <2> DEFINE rs == GetSlotRanges(entries)
  <2>1. entries \in Seq(RingEntry) /\ Sorted(entries)
    BY <1>1 DEF RingInv
  <2>2. Chained(entries, rs) /\ Len(rs) > 0 /\ rs[Len(rs)].end = NumSlots - 1
    BY <2>1, SlotRangesChained
  <2>3. \A slot : SlotOwner(entries, slot) = GetNode(entries, SlotHash[slot])
    BY DEF SlotOwner, GetNode
  <2> HIDE DEF rs
  <2>4. /\ rs[1].start = 0
        /\ \A i \in 1..Len(rs) :
             /\ rs[i].start <= rs[i].end
             /\ \A slot \in rs[i].start..rs[i].end : rs[i].node = GetNode(entries, SlotHash[slot])
             /\ i > 1 => rs[i].start = rs[i - 1].end + 1 /\ rs[i].node # rs[i - 1].node
    BY <2>2, <2>3 DEF Chained
  <2> QED
    BY <2>2, <2>4, Zenon DEF SlotRangesPartition, rs
<1> QED
  BY <1>1, RingInvariant, PTL

\* Every range of the table has a slot, and the address of a node of the ring.
LEMMA RangesAre ==
  ASSUME NEW es \in Seq(RingEntry), Sorted(es), NEW r \in Range(GetSlotRanges(es))
  PROVE  /\ r.start \in Nat /\ r.end \in Nat /\ r.start <= r.end
         /\ r.node \in Owners(es) /\ r.address = AddressOf(es, r.node)
<1> DEFINE rs == GetSlotRanges(es)
<1>1. es # <<>>
  BY DEF GetSlotRanges, Range
<1>2. Chained(es, rs)
  BY <1>1, SlotRangesChained, Zenon
<1>3. rs \in Seq(SlotRangeOf(es))
  BY <1>2 DEF Chained
<1> HIDE DEF rs
<1>4. PICK i \in 1..Len(rs) : r = rs[i]
  BY <1>3 DEF Range, rs
<1>5. r \in SlotRangeOf(es)
  BY <1>3, <1>4
<1>6. r.start <= r.end /\ r.address = AddressOf(es, r.node)
  BY <1>2, <1>4 DEF Chained
<1> QED
  BY <1>5, <1>6 DEF SlotRangeOf

\* The members are the nodes with an entry.
LEMMA OwnersAreNodes ==
  ASSUME RingInv
  PROVE  Owners(entries) = nodes /\ IsFiniteSet(nodes)
<1>1. ASSUME NEW n \in nodes PROVE n \in Owners(entries)
  <2>1. 0 \in 0..(nodeReplicas[n] - 1)
    BY DEF RingInv
  <2>2. PICK e \in Range(entries) : e.nodeID = n
    BY <2>1, Zenon DEF RingInv
  <2> QED
    BY <2>2 DEF Owners
<1>2. ASSUME NEW n \in Owners(entries) PROVE n \in nodes
  BY DEF Owners, RingInv
<1>3. nodes \subseteq Node
  BY DEF RingInv
<1>4. IsFiniteSet(nodes)
  BY <1>3, NodeAssumption, FS_Subset, Zenon
<1> QED
  BY <1>1, <1>2, <1>4

\* The ranges of a chain that ends at the last slot are ranges of slots, and every
\* slot is in one of them.
LEMMA ChainCovers ==
  ASSUME NEW es, NEW rs, Chained(es, rs), NEW last \in Nat,
         Len(rs) > 0, rs[Len(rs)].end = last
  PROVE  /\ \A i \in 1..Len(rs) : rs[i].start \in 0..last /\ rs[i].start \in rs[i].start..rs[i].end
         /\ \A slot \in 0..last : \E i \in 1..Len(rs) : slot \in rs[i].start..rs[i].end
<1> DEFINE N == Len(rs)
<1>1. /\ N \in Nat /\ N > 0 /\ rs[1].start = 0
      /\ \A i \in 1..N : rs[i].start \in Nat /\ rs[i].end \in Nat /\ rs[i].start <= rs[i].end
      /\ \A i \in 1..N : i > 1 => rs[i].start = rs[i - 1].end + 1
  <2>1. rs \in Seq(SlotRangeOf(es))
    BY Zenon DEF Chained
  <2>2. \A i \in 1..Len(rs) : rs[i] \in SlotRangeOf(es)
    BY <2>1
  <2>3. \A r \in SlotRangeOf(es) : r.start \in Nat /\ r.end \in Nat
    BY DEF SlotRangeOf
  <2>4. N \in Nat
    BY <2>1
  <2> QED
    BY <2>2, <2>3, <2>4, Zenon DEF Chained
<1> HIDE DEF N
<1>2. rs[N].end = last
  BY DEF N
<1>3. ASSUME NEW i \in 1..N PROVE rs[i].end <= last
  <2> DEFINE Beyond == {k \in 0..(N - 1) : rs[N - k].end > last}
  <2> SUFFICES ASSUME N - i \in Beyond PROVE FALSE
    BY <1>1, SMTT(30)
  <2>1. Beyond \subseteq Nat /\ Beyond # {}
    OBVIOUS
  <2> DEFINE k == Min(Beyond)
  <2>2. k \in Beyond /\ \A y \in Beyond : k <= y
    BY <2>1, MinIsLeast
  <2> HIDE DEF k
  <2>3. k # 0
    BY <1>1, <1>2, <2>2, SMTT(30)
  <2>4. k - 1 \in 0..(N - 1) /\ N - (k - 1) \in 1..N /\ N - (k - 1) > 1
    <3>1. k \in 0..(N - 1)
      BY <2>2
    <3> QED
      BY <1>1, <2>3, <3>1, SMTT(30)
  <2>5. rs[N - (k - 1)].end <= last
    <3>1. k - 1 \notin Beyond
      <4>1. k \in Nat /\ ~(k <= k - 1)
        BY <2>1, <2>2, SMTT(30)
      <4> HIDE DEF Beyond
      <4> QED
        BY <2>2, <4>1, Zenon
    <3>2. rs[N - (k - 1)].end \in Nat
      BY <1>1, <2>4, Zenon
    <3> QED
      BY <2>4, <3>1, <3>2, SMTT(30)
  <2>6. (N - (k - 1)) - 1 = N - k
    BY <1>1, <2>2, SMTT(30)
  <2>7. rs[N - (k - 1)].start = rs[N - k].end + 1
    BY <1>1, <2>4, <2>6, Zenon
  <2>8. N - k \in 1..N /\ rs[N - k].end > last
    BY <1>1, <2>2, SMTT(30)
  <2>9. /\ rs[N - k].end \in Nat /\ rs[N - (k - 1)].end \in Nat
        /\ rs[N - (k - 1)].start <= rs[N - (k - 1)].end
    BY <1>1, <2>4, <2>8, Zenon
  <2> HIDE DEF Beyond
  <2> QED
    BY <2>5, <2>7, <2>8, <2>9, SMTT(30)
<1>4. ASSUME NEW slot \in 0..last PROVE \E i \in 1..N : slot \in rs[i].start..rs[i].end
  <2> DEFINE Reach == {i \in 1..N : slot <= rs[i].end}
  <2>1. Reach \subseteq Nat /\ N \in Reach
    BY <1>1, <1>2, SMTT(30)
  <2> DEFINE i == Min(Reach)
  <2>2. i \in Reach /\ \A y \in Reach : i <= y
    BY <2>1, MinIsLeast
  <2> HIDE DEF i
  <2>3. CASE i = 1
    BY <1>1, <2>2, <2>3, SMTT(30)
  <2>4. CASE i # 1
    <3>1. i > 1 /\ i - 1 \in 1..N /\ i - 1 \notin Reach
      BY <1>1, <2>2, <2>4, SMTT(30)
    <3>2. rs[i - 1].end < slot /\ rs[i].start = rs[i - 1].end + 1
      BY <1>1, <2>2, <3>1, SMTT(30)
    <3> QED
      BY <1>1, <2>2, <3>1, <3>2, SMTT(30)
  <2> QED
    BY <2>3, <2>4
<1>5. \A i \in 1..N : rs[i].start \in 0..last /\ rs[i].start \in rs[i].start..rs[i].end
  BY <1>1, <1>3, SMTT(30)
<1> QED
  BY <1>4, <1>5 DEF N

\* The nodes of the table are the owners of the slots.
LEMMA TableOwners ==
  ASSUME RingInv, NEW n \in nodes
  PROVE  (\E r \in Range(GetSlotRanges(entries)) : r.node = n) <=>
         (\E slot \in 0..(NumSlots - 1) : GetNode(entries, SlotHash[slot]) = n)
<1> DEFINE rs == GetSlotRanges(entries)
           last == NumSlots - 1
<1>1. entries \in Seq(RingEntry) /\ Sorted(entries) /\ Owners(entries) = nodes
  BY OwnersAreNodes, Zenon DEF RingInv
<1>2. entries # <<>>
  BY <1>1 DEF Owners, Range
<1>3. Chained(entries, rs) /\ Len(rs) > 0 /\ rs[Len(rs)].end = last
  BY <1>1, <1>2, SlotRangesChained
<1>4. \A slot : SlotOwner(entries, slot) = GetNode(entries, SlotHash[slot])
  BY <1>2 DEF SlotOwner, GetNode
<1>5. last \in Nat
  BY SlotAssumption
<1> HIDE DEF rs, last
<1>6. /\ \A i \in 1..Len(rs) : rs[i].start \in 0..last /\ rs[i].start \in rs[i].start..rs[i].end
      /\ \A slot \in 0..last : \E i \in 1..Len(rs) : slot \in rs[i].start..rs[i].end
  BY <1>3, <1>5, ChainCovers, Zenon
<1>7. \A r : r \in Range(rs) <=> \E i \in 1..Len(rs) : r = rs[i]
  <2>1. rs \in Seq(SlotRangeOf(entries))
    BY <1>3, Zenon DEF Chained
  <2> QED
    BY <2>1 DEF Range
<1>8. \A i \in 1..Len(rs) : \A slot \in rs[i].start..rs[i].end :
         rs[i].node = GetNode(entries, SlotHash[slot])
  BY <1>3, <1>4, Zenon DEF Chained
<1>9. (\E r \in Range(rs) : r.node = n) <=>
      (\E slot \in 0..last : GetNode(entries, SlotHash[slot]) = n)
  <2>1. ASSUME NEW r \in Range(rs), r.node = n
        PROVE  \E slot \in 0..last : GetNode(entries, SlotHash[slot]) = n
    <3>1. PICK i \in 1..Len(rs) : r = rs[i]
      BY <1>7, Zenon
    <3>2. rs[i].start \in 0..last /\ rs[i].node = GetNode(entries, SlotHash[rs[i].start])
      BY <1>6, <1>8, Zenon
    <3> QED
      BY <2>1, <3>1, <3>2, Zenon
  <2>2. ASSUME NEW slot \in 0..last, GetNode(entries, SlotHash[slot]) = n
        PROVE  \E r \in Range(rs) : r.node = n
    <3>1. PICK i \in 1..Len(rs) : slot \in rs[i].start..rs[i].end
      BY <1>6, Zenon
    <3>2. rs[i].node = n
      BY <1>8, <2>2, <3>1, Zenon
    <3> QED
      BY <1>7, <3>2, Zenon
  <2> QED
    BY <2>1, <2>2, Zenon
<1> QED
  BY <1>9, Zenon DEF rs, last

\* On every ring: CLUSTER NODES, CLUSTER SLOTS, CLUSTER INFO and GET /ring agree,
\* up to the host that CLUSTER SLOTS puts in place of an empty node ID.
THEOREM RingReportsAgree == Spec => []ReportsAgree
<1>1. ASSUME RingInv PROVE ReportsAgree
  <2> DEFINE R == Range(GetSlotRanges(entries))
             O == {r.node : r \in R}
             at(n) == AddressOf(entries, n)
             slots(n) == {q \in R : q.node = n}
             line(n) == [node |-> n, host |-> Host(at(n)), port |-> at(n).port, slots |-> slots(n)]
             told(r) == [start |-> r.start, end |-> r.end, host |-> Host(r.address),
                         port |-> IF r.address.port = 0 THEN 6379 ELSE r.address.port,
                         node |-> IF r.node = NoID THEN Host(r.address) ELSE r.node]
             lines == ClusterNodes(entries)
             ranges == ClusterSlots(entries)
             alike(l, q, r) ==
               /\ r.start = q.start /\ r.end = q.end /\ r.host = l.host
               /\ r.node = IF l.node = NoID THEN l.host ELSE l.node
               /\ l.port # 0 => r.port = l.port
             slotless == {n \in nodes : \A slot \in 0..(NumSlots - 1) :
                                          GetNode(entries, SlotHash[slot]) # n}
  <2>1. \A r \in R : r.node \in nodes /\ r.address = at(r.node)
    <3>1. entries \in Seq(RingEntry) /\ Sorted(entries) /\ Owners(entries) = nodes
      BY <1>1, OwnersAreNodes, Zenon DEF RingInv
    <3> QED
      BY <3>1, RangesAre, Zenon
  <2>2. \A x : x \in ranges <=> \E r \in R : x = told(r)
    BY DEF ClusterSlots
  <2>3. \A x : x \in lines <=> \E r \in R : x = line(r.node)
    <3>1. lines = {[node |-> r.node, host |-> Host(r.address), port |-> r.address.port,
                    slots |-> slots(r.node)] : r \in R}
      BY DEF ClusterNodes
    <3>2. \A r \in R : [node |-> r.node, host |-> Host(r.address), port |-> r.address.port,
                        slots |-> slots(r.node)] = line(r.node)
      <4> SUFFICES ASSUME NEW r \in R
                   PROVE  [node |-> r.node, host |-> Host(r.address), port |-> r.address.port,
                           slots |-> slots(r.node)] = line(r.node)
        BY Zenon
      <4>1. r.address = at(r.node)
        BY <2>1, Zenon
      <4> HIDE DEF at, slots
      <4> QED
        BY <4>1, Zenon
    <3> HIDE DEF lines, line, slots, R
    <3> QED
      BY <3>1, <3>2, Zenon
  <2>4. O \subseteq nodes /\ IsFiniteSet(nodes) /\ IsFiniteSet(O)
    <3>1. O \subseteq nodes
      BY <2>1
    <3>2. IsFiniteSet(nodes)
      BY <1>1, OwnersAreNodes, Zenon
    <3> QED
      BY <3>1, <3>2, FS_Subset, Zenon
  <2>5. /\ Cardinality(nodes) \in Nat /\ ClusterSize(entries) = Cardinality(O)
        /\ RingNodeCount(entries) = Cardinality(nodes)
    <3>1. RingNodeCount(entries) = Cardinality(Owners(entries))
      BY DEF RingNodeCount, Owners
    <3> QED
      BY <1>1, <2>4, <3>1, OwnersAreNodes, FS_CardinalityType, Zenon DEF ClusterSize
  <2>6. Cardinality(lines) = Cardinality(O)
    <3> DEFINE f == [n \in O |-> line(n)]
    <3>1. \A n : line(n).node = n
      OBVIOUS
    <3>2. \A x : x \in O <=> \E r \in R : x = r.node
      OBVIOUS
    <3> HIDE DEF lines, line, O, R
    <3>3. f \in [O -> lines] /\ \A x \in lines : \E n \in O : f[n] = x
      BY <2>3, <3>2
    <3>4. \A n, m \in O : f[n] = f[m] => n = m
      BY <3>1
    <3> HIDE DEF f
    <3>5. f \in Surjection(O, lines) /\ f \in Injection(O, lines)
      BY <3>3, <3>4 DEF Surjection, Injection, IsInjective
    <3> QED
      BY <2>4, <3>5, FS_Surjection
  <2>7. ASSUME NEW r \in R PROVE alike(line(r.node), r, told(r))
    <3>1. r.address = at(r.node)
      BY <2>1
    <3>2. /\ line(r.node).node = r.node /\ line(r.node).host = Host(at(r.node))
          /\ line(r.node).port = at(r.node).port
      OBVIOUS
    <3>3. /\ told(r).start = r.start /\ told(r).end = r.end /\ told(r).host = Host(r.address)
          /\ told(r).node = IF r.node = NoID THEN Host(r.address) ELSE r.node
          /\ r.address.port # 0 => told(r).port = r.address.port
      OBVIOUS
    <3> HIDE DEF line, told, at, R
    <3> QED
      BY <3>1, <3>2, <3>3, Zenon
  <2>8. \A n : line(n).slots = slots(n)
    OBVIOUS
  <2>9. /\ \A n : \A q \in slots(n) : q \in R /\ q.node = n
        /\ \A r \in R : r \in slots(r.node)
    OBVIOUS
  <2> HIDE DEF line, told, slots, R, lines, ranges, alike
  <2>10. \A l \in lines : \A q \in l.slots : \E r \in ranges : alike(l, q, r)
    <3> SUFFICES ASSUME NEW l \in lines, NEW q \in l.slots
                 PROVE  \E r \in ranges : alike(l, q, r)
      BY Zenon
    <3>1. PICK r \in R : l = line(r.node)
      BY <2>3, Zenon
    <3>2. q \in R /\ q.node = r.node
      BY <2>8, <2>9, <3>1, Zenon
    <3> QED
      BY <2>2, <2>7, <3>1, <3>2, Zenon
  <2>11. \A r \in ranges : \E l \in lines : \E q \in l.slots : alike(l, q, r)
    <3> SUFFICES ASSUME NEW x \in ranges
                 PROVE  \E l \in lines : \E q \in l.slots : alike(l, q, x)
      BY Zenon
    <3>1. PICK r \in R : x = told(r)
      BY <2>2, Zenon
    <3>2. line(r.node) \in lines /\ r \in line(r.node).slots
      BY <2>3, <2>8, <2>9, Zenon
    <3> QED
      BY <2>7, <3>1, <3>2, Zenon
  <2>12. \A l, m \in lines : l # m => l.slots \cap m.slots = {}
    <3> SUFFICES ASSUME NEW l \in lines, NEW m \in lines, NEW q \in l.slots \cap m.slots
                 PROVE  l = m
      BY Zenon
    <3>1. PICK r \in R : l = line(r.node)
      BY <2>3, Zenon
    <3>2. PICK s \in R : m = line(s.node)
      BY <2>3, Zenon
    <3>3. q.node = r.node /\ q.node = s.node
      BY <2>8, <2>9, <3>1, <3>2, Zenon
    <3> QED
      BY <3>1, <3>2, <3>3, Zenon
  <2>13. Cardinality(nodes) - Cardinality(O) = Cardinality(slotless)
    <3>1. slotless = nodes \ O /\ nodes \cap O = O
      <4>1. ASSUME NEW n \in nodes PROVE n \in O <=> n \notin slotless
        <5>1. n \in O <=> \E r \in R : r.node = n
          OBVIOUS
        <5>2. (\E r \in R : r.node = n) <=>
              (\E slot \in 0..(NumSlots - 1) : GetNode(entries, SlotHash[slot]) = n)
          BY <1>1, TableOwners, Zenon DEF R
        <5> HIDE DEF O
        <5> QED
          BY <5>1, <5>2, Zenon
      <4>2. slotless \subseteq nodes
        OBVIOUS
      <4> HIDE DEF O, slotless
      <4> QED
        BY <2>4, <4>1, <4>2
    <3> HIDE DEF O, slotless
    <3>2. Cardinality(nodes \ O) = Cardinality(nodes) - Cardinality(nodes \cap O)
      BY <2>4, FS_Difference
    <3> QED
      BY <3>1, <3>2, Zenon
  <2> QED
    <3> HIDE DEF O
    <3> QED
      BY <2>5, <2>6, <2>10, <2>11, <2>12, <2>13, Zenon
         DEF ReportsAgree, lines, ranges, alike
<1> QED
  BY <1>1, RingInvariant, PTL

\* The recursion of the loop over the walk defines a function.
LEMMA CollectLoopIs ==
  ASSUME NEW walk, Len(walk) \in Nat, NEW count
  PROVE  \E found : /\ found[0] = <<>>
                    /\ \A i \in 1..Len(walk) :
                         found[i] = Collect(found[i - 1], walk[i].nodeID, count)
                    /\ CollectLoop(walk, count) = found[Len(walk)]
<1> DEFINE step(found, i) == Collect(found, walk[i].nodeID, count)
           Defined(f, n) ==
             f = [i \in 0..n |-> IF i = 0 THEN <<>> ELSE step(f[i - 1], i)]
           S == {n \in Nat : \E f : Defined(f, n)}
           loop == CHOOSE f : Defined(f, Len(walk))
<1>1. CollectLoop(walk, count) = loop[Len(walk)]
  BY DEF CollectLoop
<1> HIDE DEF step
<1>2. 0 \in S
  <2>1. Defined([i \in 0..0 |-> <<>>], 0)
    OBVIOUS
  <2> QED
    BY <2>1, Zenon
<1>3. ASSUME NEW n \in S PROVE n + 1 \in S
  <2>1. PICK f : Defined(f, n)
    OBVIOUS
  <2> DEFINE g == [i \in 0..(n + 1) |-> IF i = n + 1 THEN step(f[n], n + 1) ELSE f[i]]
  <2>2. n \in Nat /\ \A i \in 0..n : f[i] = IF i = 0 THEN <<>> ELSE step(f[i - 1], i)
    BY <2>1
  <2>3. g[n + 1] = step(f[n], n + 1) /\ \A i \in 0..n : g[i] = f[i]
    BY <2>2, SMTT(30)
  <2>4. ASSUME NEW i \in 0..(n + 1)
        PROVE  g[i] = IF i = 0 THEN <<>> ELSE step(g[i - 1], i)
    <3>1. CASE i = n + 1
      <4>1. n \in 0..n /\ i # 0 /\ i - 1 = n
        BY <2>2, <3>1, SMTT(30)
      <4> QED
        BY <2>3, <3>1, <4>1
    <3>2. CASE i = 0
      BY <2>2, <2>3, <3>2, SMTT(30)
    <3>3. CASE i # n + 1 /\ i # 0
      <4>1. i \in 0..n /\ i - 1 \in 0..n
        BY <2>2, <3>3
      <4> QED
        BY <2>2, <2>3, <3>3, <4>1
    <3> QED
      BY <3>1, <3>2, <3>3, SMTT(30)
  <2>5. Defined(g, n + 1)
    <3>1. g = [i \in 0..(n + 1) |-> g[i]]
      OBVIOUS
    <3> HIDE DEF g
    <3> QED
      BY <2>4, <3>1, Zenon
  <2>6. n + 1 \in Nat /\ \E f1 : Defined(f1, n + 1)
    <3> HIDE DEF Defined, g
    <3> QED
      BY <2>2, <2>5
  <2> HIDE DEF Defined
  <2> QED
    BY <2>6
<1>4. Len(walk) \in S
  BY <1>2, <1>3, SetInduction, Zenon
<1>5. Defined(loop, Len(walk))
  BY <1>4
<1> HIDE DEF loop
<1>6. \A i \in 0..Len(walk) : loop[i] = IF i = 0 THEN <<>> ELSE step(loop[i - 1], i)
  BY <1>5, Zenon
<1>7. loop[0] = <<>> /\ \A i \in 1..Len(walk) : loop[i] = step(loop[i - 1], i)
  BY <1>6
<1> QED
  BY <1>1, <1>7 DEF step

\* s lists N in the order in which w meets it, as far as i and up to count nodes:
\* what w holds up to the place of s[a] is among s[1], ..., s[a].
CollectedTo(s, w, N, count, i) ==
  /\ s \in Seq(N) /\ Len(s) <= count
  /\ \A a, b \in 1..Len(s) : a # b => s[a] # s[b]
  /\ \A a \in 1..Len(s) : \E p \in 1..i :
       /\ w[p].nodeID = s[a]
       /\ \A q \in 1..p : \E b \in 1..a : w[q].nodeID = s[b]
  /\ Len(s) = count \/ \A q \in 1..i : \E b \in 1..Len(s) : w[q].nodeID = s[b]
  /\ i > 0 => Len(s) > 0 /\ s[1] = w[1].nodeID

\* The loop body of GetReplicas keeps that order.
LEMMA CollectKeeps ==
  ASSUME NEW w, NEW N, NEW count \in Nat \ {0}, NEW i \in Nat \ {0}, NEW s,
         CollectedTo(s, w, N, count, i - 1), w[i].nodeID \in N
  PROVE  CollectedTo(Collect(s, w[i].nodeID, count), w, N, count, i)
<1> DEFINE n == w[i].nodeID
<1>1. s \in Seq(N) /\ Len(s) <= count
  BY Zenon DEF CollectedTo
<1>2. \A a, b \in 1..Len(s) : a # b => s[a] # s[b]
  BY Zenon DEF CollectedTo
<1>3. \A a \in 1..Len(s) : \E p \in 1..(i - 1) :
        /\ w[p].nodeID = s[a]
        /\ \A q \in 1..p : \E b \in 1..a : w[q].nodeID = s[b]
  BY Zenon DEF CollectedTo
<1>4. Len(s) # count => \A q \in 1..(i - 1) : \E b \in 1..Len(s) : w[q].nodeID = s[b]
  BY Zenon DEF CollectedTo
<1>5. i - 1 > 0 => Len(s) > 0 /\ s[1] = w[1].nodeID
  BY Zenon DEF CollectedTo
<1>6. Len(s) \in Nat /\ DOMAIN s = 1..Len(s)
  BY <1>1
<1>7. \A x : x \in Range(s) <=> \E b \in 1..Len(s) : x = s[b]
  BY <1>6 DEF Range
<1>8. /\ \A p \in 1..(i - 1) : p \in 1..i
      /\ \A q \in 1..i : q = i \/ q \in 1..(i - 1)
      /\ i \in 1..i
  OBVIOUS
<1>9. i = 1 => Len(s) = 0
  <2> SUFFICES ASSUME i = 1, 1 \in 1..Len(s) PROVE FALSE
    BY <1>6
  <2>1. PICK p \in 1..(i - 1) : w[p].nodeID = s[1]
    BY <1>3, Zenon
  <2> QED
    BY <2>1
<1>10. CASE Len(s) >= count \/ n \in Range(s)
  <2>1. Collect(s, n, count) = s
    BY <1>10, Zenon DEF Collect
  <2>2. ASSUME Len(s) # count, NEW q \in 1..i PROVE \E b \in 1..Len(s) : w[q].nodeID = s[b]
    <3>1. n \in Range(s)
      <4>1. \A x \in Nat : x <= count /\ x >= count => x = count
        OBVIOUS
      <4> QED
        BY <1>1, <1>6, <1>10, <2>2, <4>1, Zenon
    <3>2. CASE q = i
      BY <1>7, <3>1, <3>2, Zenon
    <3>3. CASE q \in 1..(i - 1)
      BY <1>4, <2>2, <3>3, Zenon
    <3> QED
      BY <1>8, <3>2, <3>3, Zenon
  <2>3. Len(s) > 0
    <3>1. CASE n \in Range(s)
      <4>1. \E b \in 1..Len(s) : n = s[b]
        BY <1>7, <3>1, Zenon
      <4> QED
        BY <1>6, <4>1
    <3>2. CASE Len(s) >= count
      BY <1>6, <3>2
    <3> QED
      BY <1>10, <3>1, <3>2
  <2>4. s[1] = w[1].nodeID
    <3>1. i - 1 > 0
      BY <1>9, <2>3
    <3> QED
      BY <1>5, <3>1, Zenon
  <2>5. ASSUME NEW a \in 1..Len(s)
        PROVE  \E p \in 1..i : /\ w[p].nodeID = s[a]
                               /\ \A q \in 1..p : \E b \in 1..a : w[q].nodeID = s[b]
    <3>1. PICK p \in 1..(i - 1) : /\ w[p].nodeID = s[a]
                                  /\ \A q \in 1..p : \E b \in 1..a : w[q].nodeID = s[b]
      BY <1>3, Zenon
    <3> QED
      BY <1>8, <3>1, Zenon
  <2>6. CollectedTo(s, w, N, count, i)
    BY <1>1, <1>2, <2>2, <2>3, <2>4, <2>5, Zenon DEF CollectedTo
  <2> QED
    BY <2>1, <2>6, Zenon
<1>11. CASE Len(s) < count /\ n \notin Range(s)
  <2> DEFINE t == Append(s, n)
  <2>1. Collect(s, n, count) = t
    BY <1>6, <1>11 DEF Collect
  <2>2. /\ t \in Seq(N) /\ Len(t) = Len(s) + 1 /\ t[Len(s) + 1] = n
        /\ \A a \in 1..Len(s) : t[a] = s[a]
    BY <1>1
  <2> HIDE DEF t
  <2>3. /\ Len(s) # count /\ Len(t) <= count /\ Len(t) > 0 /\ Len(s) + 1 \in 1..Len(t)
        /\ \A a \in 1..Len(t) : a = Len(s) + 1 \/ a \in 1..Len(s)
        /\ \A a \in 1..Len(s) : a \in 1..Len(t) /\ \A b \in 1..a : b \in 1..Len(s)
    <3>1. Len(s) \in Nat /\ Len(s) < count /\ Len(t) = Len(s) + 1
      BY <1>6, <1>11, <2>2, Zenon
    <3> QED
      BY <3>1
  <2>4. ASSUME NEW a \in 1..Len(t), NEW b \in 1..Len(t), a # b PROVE t[a] # t[b]
    <3>1. \A c \in 1..Len(s) : t[c] # n
      BY <1>7, <1>11, <2>2, Zenon
    <3>2. CASE a \in 1..Len(s) /\ b \in 1..Len(s)
      <4>1. s[a] # s[b] /\ t[a] = s[a] /\ t[b] = s[b]
        BY <1>2, <2>2, <2>4, <3>2, Zenon
      <4> QED
        BY <4>1, Zenon
    <3>3. CASE a = Len(s) + 1 /\ b \in 1..Len(s)
      BY <2>2, <3>1, <3>3, Zenon
    <3>4. CASE a \in 1..Len(s) /\ b = Len(s) + 1
      BY <2>2, <3>1, <3>4, Zenon
    <3> QED
      BY <2>3, <2>4, <3>2, <3>3, <3>4, Zenon
  <2>5. ASSUME NEW q \in 1..i PROVE \E b \in 1..Len(t) : w[q].nodeID = t[b]
    <3>1. CASE q = i
      BY <2>2, <2>3, <3>1, Zenon
    <3>2. CASE q \in 1..(i - 1)
      <4>1. PICK b \in 1..Len(s) : w[q].nodeID = s[b]
        BY <1>4, <2>3, <3>2, Zenon
      <4>2. b \in 1..Len(t) /\ t[b] = s[b]
        BY <2>2, <2>3, Zenon
      <4> QED
        BY <4>1, <4>2, Zenon
    <3> QED
      BY <1>8, <3>1, <3>2, Zenon
  <2>6. ASSUME NEW a \in 1..Len(t)
        PROVE  \E p \in 1..i : /\ w[p].nodeID = t[a]
                               /\ \A q \in 1..p : \E b \in 1..a : w[q].nodeID = t[b]
    <3>1. CASE a = Len(s) + 1
      <4>1. a = Len(t) /\ w[i].nodeID = t[a]
        BY <2>2, <3>1, Zenon
      <4> QED
        BY <1>8, <2>5, <4>1, Zenon
    <3>2. CASE a \in 1..Len(s)
      <4>1. PICK p \in 1..(i - 1) : /\ w[p].nodeID = s[a]
                                    /\ \A q \in 1..p : \E b \in 1..a : w[q].nodeID = s[b]
        BY <1>3, <3>2, Zenon
      <4>2. t[a] = s[a] /\ \A b \in 1..a : t[b] = s[b]
        BY <2>2, <2>3, <3>2, Zenon
      <4>3. ASSUME NEW q \in 1..p PROVE \E b \in 1..a : w[q].nodeID = t[b]
        <5>1. PICK b \in 1..a : w[q].nodeID = s[b]
          BY <4>1, Zenon
        <5> QED
          BY <4>2, <5>1, Zenon
      <4>4. p \in 1..i /\ w[p].nodeID = t[a]
        BY <1>8, <4>1, <4>2, Zenon
      <4> QED
        BY <4>3, <4>4, Zenon
    <3> QED
      BY <2>3, <3>1, <3>2, Zenon
  <2>7. t[1] = w[1].nodeID
    <3>1. CASE i = 1
      <4>1. Len(s) + 1 = 1
        BY <1>9, <3>1
      <4> QED
        BY <2>2, <3>1, <4>1, Zenon
    <3>2. CASE i # 1
      <4>1. i - 1 > 0
        BY <3>2
      <4>2. s[1] = w[1].nodeID /\ 1 \in 1..Len(s)
        BY <1>5, <1>6, <4>1
      <4> QED
        BY <2>2, <4>2, Zenon
    <3> QED
      BY <3>1, <3>2, Zenon
  <2>8. CollectedTo(t, w, N, count, i)
    BY <2>2, <2>3, <2>4, <2>5, <2>6, <2>7, Zenon DEF CollectedTo
  <2> QED
    BY <2>1, <2>8, Zenon
<1>12. Len(s) >= count \/ Len(s) < count
  BY <1>6
<1> QED
  BY <1>10, <1>11, <1>12, Zenon

\* The loop of GetReplicas over the whole walk.
LEMMA CollectLoopOrder ==
  ASSUME NEW w, Len(w) \in Nat, NEW N, \A i \in 1..Len(w) : w[i].nodeID \in N,
         NEW count \in Nat \ {0}
  PROVE  CollectedTo(CollectLoop(w, count), w, N, count, Len(w))
<1>1. PICK found : /\ found[0] = <<>>
                   /\ \A i \in 1..Len(w) : found[i] = Collect(found[i - 1], w[i].nodeID, count)
                   /\ CollectLoop(w, count) = found[Len(w)]
  BY CollectLoopIs
<1> DEFINE S == {i \in Nat : i <= Len(w) => CollectedTo(found[i], w, N, count, i)}
<1>2. 0 \in S
  <2>1. found[0] \in Seq(N) /\ Len(found[0]) = 0
    BY <1>1
  <2>2. CollectedTo(found[0], w, N, count, 0)
    BY <2>1 DEF CollectedTo
  <2> QED
    BY <2>2
<1>3. ASSUME NEW i \in S PROVE i + 1 \in S
  <2> SUFFICES ASSUME i + 1 <= Len(w) PROVE CollectedTo(found[i + 1], w, N, count, i + 1)
    OBVIOUS
  <2>1. i \in Nat /\ i + 1 \in 1..Len(w) /\ (i + 1) - 1 = i /\ i + 1 \in Nat \ {0}
    OBVIOUS
  <2>2. CollectedTo(found[i], w, N, count, (i + 1) - 1)
    BY <2>1
  <2>3. found[i + 1] = Collect(found[i], w[i + 1].nodeID, count) /\ w[i + 1].nodeID \in N
    BY <1>1, <2>1
  <2>4. CollectedTo(Collect(found[i], w[i + 1].nodeID, count), w, N, count, i + 1)
    BY <2>1, <2>2, <2>3, CollectKeeps
  <2> QED
    BY <2>3, <2>4
<1>4. Len(w) \in S
  BY <1>2, <1>3, SetInduction, Zenon
<1> QED
  BY <1>1, <1>4

\* Walking up from h and round, hash a comes before hash b.
Precedes(h, a, b) == IF (a >= h) = (b >= h) THEN a < b ELSE a >= h

\* From h the walk meets n before m: a label of n precedes all labels of m.
Meets(h, n, m) ==
  \E i \in 0..(VirtualNodes - 1) : \A k \in 0..(VirtualNodes - 1) :
    Precedes(h, hashKey[<<n, i>>], hashKey[<<m, k>>])

\* No two nodes are met before each other.
LEMMA MeetsOneWay ==
  ASSUME hashKey \in Injection(Labels, LabelHash), NEW h \in Nat, NEW n \in Node, NEW m \in Node,
         Meets(h, n, m), Meets(h, m, n)
  PROVE  FALSE
<1>1. PICK i \in 0..(VirtualNodes - 1) : \A k \in 0..(VirtualNodes - 1) :
        Precedes(h, hashKey[<<n, i>>], hashKey[<<m, k>>])
  BY Zenon DEF Meets
<1>2. PICK k \in 0..(VirtualNodes - 1) : \A j \in 0..(VirtualNodes - 1) :
        Precedes(h, hashKey[<<m, k>>], hashKey[<<n, j>>])
  BY Zenon DEF Meets
<1>3. hashKey[<<n, i>>] \in Nat /\ hashKey[<<m, k>>] \in Nat
  BY HashesDiffer, HashAssumption
<1>4. /\ Precedes(h, hashKey[<<n, i>>], hashKey[<<m, k>>])
      /\ Precedes(h, hashKey[<<m, k>>], hashKey[<<n, i>>])
  BY <1>1, <1>2
<1> QED
  BY <1>3, <1>4 DEF Precedes

\* es holds the labels of the nodes N, all of them, and no others.
RingOf(es, N) ==
  /\ Len(es) \in Nat /\ DOMAIN es = 1..Len(es) /\ (es = <<>> <=> Len(es) = 0)
  /\ \A p \in 1..Len(es) :
       /\ es[p].nodeID \in N
       /\ \E i \in 0..(VirtualNodes - 1) : es[p].hash = hashKey[<<es[p].nodeID, i>>]
  /\ \A n \in N, i \in 0..(VirtualNodes - 1) :
       \E p \in 1..Len(es) : es[p].nodeID = n /\ es[p].hash = hashKey[<<n, i>>]

\* The walk of GetReplicas meets every entry, in the order of Precedes.
LEMMA WalkOrder ==
  ASSUME hashKey \in Injection(Labels, LabelHash), NEW N \in SUBSET Node, NEW es,
         RingOf(es, N), Sorted(es), es # <<>>, NEW h \in Nat
  PROVE  LET w == Walk(es, Successor(es, h))
         IN  /\ RingOf(w, N) /\ w # <<>> /\ w[1] = es[Successor(es, h)]
             /\ \A p, q \in 1..Len(w) : p < q => Precedes(h, w[p].hash, w[q].hash)
<1> DEFINE L == Len(es)
           after == {i \in 1..L : es[i].hash >= h}
           k == Successor(es, h)
           w == Walk(es, k)
           at(i) == ((k + i - 2) % L) + 1
<1>1. L \in Nat \ {0} /\ DOMAIN es = 1..L
  BY DEF RingOf
<1>2. \A p \in 1..L : es[p].hash \in Nat
  <2> SUFFICES ASSUME NEW p \in 1..L PROVE es[p].hash \in Nat
    OBVIOUS
  <2>1. PICK i \in 0..(VirtualNodes - 1) : es[p].nodeID \in Node /\ es[p].hash = hashKey[<<es[p].nodeID, i>>]
    BY DEF RingOf
  <2>2. hashKey[<<es[p].nodeID, i>>] \in LabelHash
    BY <2>1, HashesDiffer
  <2> QED
    BY <2>1, <2>2, HashAssumption
<1>3. \A i, j \in 1..L : i < j => es[i].hash < es[j].hash
  BY DEF Sorted
<1>4. k = IF after = {} THEN 1 ELSE Min(after)
  BY DEF Successor
<1>5. /\ k \in 1..L
      /\ \/ \A i \in 1..L : es[i].hash >= h <=> k <= i
         \/ k = 1 /\ \A i \in 1..L : es[i].hash < h
  <2>1. CASE after = {}
    <3>1. k = 1
      BY <1>4, <2>1, Zenon
    <3>2. \A i \in 1..L : ~(es[i].hash >= h)
      BY <2>1, Zenon
    <3>3. \A i \in 1..L : es[i].hash < h
      BY <1>2, <3>2
    <3> HIDE DEF after, k
    <3> QED
      BY <1>1, <3>1, <3>3
  <2>2. CASE after # {}
    <3>1. after \subseteq Nat /\ after # {}
      BY <2>2
    <3>2. k \in after /\ \A i \in after : k <= i
      BY <1>4, <2>2, <3>1, MinIsLeast, ZenonT(40)
    <3>3. ASSUME NEW i \in 1..L PROVE es[i].hash >= h <=> k <= i
      BY <1>2, <1>3, <3>2, <3>3
    <3> QED
      BY <3>2, <3>3
  <2> QED
    BY <2>1, <2>2
<1>6. w = [i \in 1..L |-> es[at(i)]]
  BY DEF Walk
<1> HIDE DEF k, after, w, L
<1> HIDE DEF at
<1>7. ASSUME NEW i \in 1..L
      PROVE  at(i) = IF k + i - 1 <= L THEN k + i - 1 ELSE k + i - 1 - L
  <2> DEFINE x == k + i - 2
  <2>1. x = k + i - 2 /\ at(i) = (x % L) + 1
    BY DEF at
  <2> HIDE DEF x
  <2>2. x \in Nat /\ x < 2 * L
    BY <1>1, <1>5, <2>1
  <2>3. x % L = IF x < L THEN x ELSE x - L
    BY <1>1, <2>2
  <2>4. (x < L => at(i) = x + 1) /\ (~(x < L) => at(i) = (x - L) + 1)
    BY <2>1, <2>3, Zenon
  <2>5. x = k + i - 2
    BY <2>1
  <2> QED
    BY <1>1, <1>5, <2>4, <2>5
<1>8. \A i \in 1..L : at(i) \in 1..L /\ w[i] = es[at(i)]
  BY <1>1, <1>5, <1>6, <1>7, SMTT(30)
<1>9. \A j \in 1..L : \E i \in 1..L : at(i) = j
  <2> SUFFICES ASSUME NEW j \in 1..L PROVE \E i \in 1..L : at(i) = j
    OBVIOUS
  <2> DEFINE i == IF k <= j THEN j - k + 1 ELSE j - k + 1 + L
  <2>1. i \in 1..L /\ at(i) = j
    BY <1>1, <1>5, <1>7, SMTT(30)
  <2> QED
    BY <2>1
<1>10. DOMAIN w = 1..L /\ Len(w) = L /\ w # <<>>
  BY <1>1, <1>6
<1>11. w[1] = es[k]
  <2>1. 1 \in 1..L /\ k + 1 - 1 = k /\ k <= L
    BY <1>1, <1>5
  <2>2. at(1) = k
    BY <1>7, <2>1, SMTT(30)
  <2> QED
    BY <1>8, <2>1, <2>2
<1>12. RingOf(w, N)
  <2>1. ASSUME NEW p \in 1..L
        PROVE  /\ w[p].nodeID \in N
               /\ \E i \in 0..(VirtualNodes - 1) : w[p].hash = hashKey[<<w[p].nodeID, i>>]
    <3>1. at(p) \in 1..Len(es) /\ w[p] = es[at(p)]
      BY <1>8 DEF L
    <3>2. /\ es[at(p)].nodeID \in N
          /\ \E i \in 0..(VirtualNodes - 1) : es[at(p)].hash = hashKey[<<es[at(p)].nodeID, i>>]
      BY <3>1, Zenon DEF RingOf
    <3> QED
      BY <3>1, <3>2, Zenon
  <2>2. ASSUME NEW n \in N, NEW i \in 0..(VirtualNodes - 1)
        PROVE  \E p \in 1..L : w[p].nodeID = n /\ w[p].hash = hashKey[<<n, i>>]
    <3>1. PICK j \in 1..L : es[j].nodeID = n /\ es[j].hash = hashKey[<<n, i>>]
      BY Zenon DEF RingOf, L
    <3>2. PICK p \in 1..L : at(p) = j
      BY <1>9, Zenon
    <3> QED
      BY <1>8, <3>1, <3>2, Zenon
  <2> QED
    BY <1>1, <1>10, <2>1, <2>2 DEF RingOf
<1>13. ASSUME NEW p \in 1..L, NEW q \in 1..L, p < q
       PROVE  Precedes(h, w[p].hash, w[q].hash)
  <2>1. /\ at(p) \in 1..L /\ at(q) \in 1..L /\ w[p] = es[at(p)] /\ w[q] = es[at(q)]
        /\ es[at(p)].hash \in Nat /\ es[at(q)].hash \in Nat
    BY <1>2, <1>8, SMTT(30)
  <2>2. \/ at(p) < at(q) /\ (k <= at(p) <=> k <= at(q))
        \/ k <= at(p) /\ at(q) < k
    BY <1>1, <1>5, <1>7, <1>13, SMTT(30)
  <2>3. \/ at(p) < at(q) /\ (es[at(p)].hash >= h <=> es[at(q)].hash >= h)
        \/ es[at(p)].hash >= h /\ es[at(q)].hash < h
    BY <1>1, <1>5, <2>1, <2>2, SMTT(30)
  <2>4. at(p) < at(q) => es[at(p)].hash < es[at(q)].hash
    BY <1>3, <2>1
  <2> QED
    BY <2>1, <2>3, <2>4, SMTT(30) DEF Precedes
<1> QED
  BY <1>10, <1>11, <1>12, <1>13, SMTT(30) DEF w, k

\* s is what GetReplicas promises of a ring of the nodes N: up to count different
\* nodes, each met before all that are not listed up to it, and fewer than count
\* only when it is all of N.
Chosen(s, N, h, count) ==
  /\ s \in Seq(N) /\ Len(s) <= count
  /\ \A a, b \in 1..Len(s) : a # b => s[a] # s[b]
  /\ \A a \in 1..Len(s), m \in N : (\A b \in 1..a : s[b] # m) => Meets(h, s[a], m)
  /\ Len(s) = count \/ \A m \in N : \E b \in 1..Len(s) : m = s[b]

\* GetReplicas keeps that promise on every ring, and its first replica is the node
\* that GetNode returns.
LEMMA GetReplicasChosen ==
  ASSUME hashKey \in Injection(Labels, LabelHash), NEW N \in SUBSET Node, NEW es,
         RingOf(es, N), Sorted(es), NEW h \in Nat, NEW count \in Nat
  PROVE  /\ Chosen(GetReplicas(es, h, count), N, h, count)
         /\ es # <<>> /\ count > 0 => GetReplicas(es, h, count)[1] = GetNode(es, h)
<1> DEFINE s == GetReplicas(es, h, count)
<1>0. \A n \in N : 0 \in 0..(VirtualNodes - 1)
  BY CountAssumption
<1>1. CASE es = <<>> \/ count = 0
  <2>1. s = <<>>
    BY <1>1 DEF GetReplicas
  <2>2. s \in Seq(N) /\ Len(s) = 0
    BY <2>1
  <2>3. Len(s) = count \/ \A m \in N : \E b \in 1..Len(s) : m = s[b]
    <3>1. CASE count = 0
      BY <2>2, <3>1
    <3>2. CASE es = <<>>
      <4>1. \A p \in 1..Len(es) : FALSE
        BY <3>2
      <4>2. \A n \in N : FALSE
        BY <1>0, <4>1, Zenon DEF RingOf
      <4> QED
        BY <4>2
    <3> QED
      BY <1>1, <3>1, <3>2
  <2>4. Chosen(s, N, h, count)
    BY <2>2, <2>3 DEF Chosen
  <2> QED
    BY <1>1, <2>4
<1>2. CASE es # <<>> /\ count # 0
  <2> DEFINE w == Walk(es, Successor(es, h))
  <2>1. /\ RingOf(w, N) /\ w # <<>> /\ w[1] = es[Successor(es, h)]
        /\ \A p, q \in 1..Len(w) : p < q => Precedes(h, w[p].hash, w[q].hash)
    BY <1>2, WalkOrder, Zenon
  <2>2. s = CollectLoop(w, count)
    BY <1>2 DEF GetReplicas
  <2>3. GetNode(es, h) = w[1].nodeID
    BY <1>2, <2>1 DEF GetNode
  <2> HIDE DEF w, s
  <2>4. Len(w) \in Nat /\ Len(w) > 0 /\ \A i \in 1..Len(w) : w[i].nodeID \in N
    BY <2>1 DEF RingOf
  <2>5. CollectedTo(s, w, N, count, Len(w))
    <3>1. count \in Nat \ {0}
      BY <1>2
    <3> QED
      BY <2>2, <2>4, <3>1, CollectLoopOrder
  <2>6. /\ s \in Seq(N) /\ Len(s) <= count
        /\ \A a, b \in 1..Len(s) : a # b => s[a] # s[b]
        /\ \A a \in 1..Len(s) : \E p \in 1..Len(w) :
             /\ w[p].nodeID = s[a]
             /\ \A q \in 1..p : \E b \in 1..a : w[q].nodeID = s[b]
        /\ Len(s) = count \/ \A q \in 1..Len(w) : \E b \in 1..Len(s) : w[q].nodeID = s[b]
        /\ s[1] = w[1].nodeID
    BY <2>4, <2>5, Zenon DEF CollectedTo
  <2>7. ASSUME NEW a \in 1..Len(s), NEW m \in N, \A b \in 1..a : s[b] # m
        PROVE  Meets(h, s[a], m)
    <3>1. PICK p \in 1..Len(w) : /\ w[p].nodeID = s[a]
                                 /\ \A q \in 1..p : \E b \in 1..a : w[q].nodeID = s[b]
      BY <2>6, Zenon
    <3>2. PICK i \in 0..(VirtualNodes - 1) : w[p].hash = hashKey[<<s[a], i>>]
      <4>1. PICK i \in 0..(VirtualNodes - 1) : w[p].hash = hashKey[<<w[p].nodeID, i>>]
        BY <2>1, Zenon DEF RingOf
      <4> QED
        BY <3>1, <4>1, Zenon
    <3>3. ASSUME NEW k \in 0..(VirtualNodes - 1)
          PROVE  Precedes(h, hashKey[<<s[a], i>>], hashKey[<<m, k>>])
      <4>1. PICK q \in 1..Len(w) : w[q].nodeID = m /\ w[q].hash = hashKey[<<m, k>>]
        BY <2>1, Zenon DEF RingOf
      <4>2. ~(q \in 1..p)
        BY <2>7, <3>1, <4>1, Zenon
      <4>3. p < q
        BY <4>2
      <4> QED
        BY <2>1, <3>2, <4>1, <4>3, Zenon
    <3> QED
      BY <3>3, Zenon DEF Meets
  <2>8. Len(s) = count \/ \A m \in N : \E b \in 1..Len(s) : m = s[b]
    <3>1. \A m \in N : \E q \in 1..Len(w) : w[q].nodeID = m
      BY <1>0, <2>1, Zenon DEF RingOf
    <3>2. ASSUME Len(s) # count, NEW m \in N PROVE \E b \in 1..Len(s) : m = s[b]
      <4>1. PICK q \in 1..Len(w) : w[q].nodeID = m
        BY <3>1, Zenon
      <4>2. PICK b \in 1..Len(s) : w[q].nodeID = s[b]
        BY <2>6, <3>2, Zenon
      <4> QED
        BY <4>1, <4>2, Zenon
    <3> QED
      BY <3>2, Zenon
  <2>9. Chosen(s, N, h, count)
    BY <2>6, <2>7, <2>8, Zenon DEF Chosen
  <2> QED
    BY <2>3, <2>6, <2>9, Zenon DEF s
<1> QED
  BY <1>1, <1>2

\* One sequence of nodes at most keeps it.
LEMMA ChosenIsUnique ==
  ASSUME hashKey \in Injection(Labels, LabelHash), NEW N \in SUBSET Node, NEW h \in Nat,
         NEW count \in Nat, NEW s, NEW t, Chosen(s, N, h, count), Chosen(t, N, h, count)
  PROVE  s = t
<1> DEFINE both(a) == a \in 1..Len(s) /\ a \in 1..Len(t)
           differ == {a \in Nat : both(a) /\ s[a] # t[a]}
<1>1. /\ s \in Seq(N) /\ Len(s) \in Nat /\ Len(s) <= count
      /\ t \in Seq(N) /\ Len(t) \in Nat /\ Len(t) <= count
  BY DEF Chosen
<1>2. /\ \A a, b \in 1..Len(s) : a # b => s[a] # s[b]
      /\ \A a, b \in 1..Len(t) : a # b => t[a] # t[b]
  BY Zenon DEF Chosen
<1>3. differ = {}
  <2> SUFFICES ASSUME differ # {} PROVE FALSE
    OBVIOUS
  <2>1. PICK a \in differ : \A b \in differ : a <= b
    <3>1. differ \in SUBSET Nat
      BY Zenon
    <3> HIDE DEF differ
    <3> QED
      BY <3>1, MinIsLeast, Zenon
  <2>2. /\ a \in 1..Len(s) /\ a \in 1..Len(t) /\ s[a] # t[a]
        /\ \A b \in 1..a : b # a => s[b] = t[b]
    BY <1>1, <2>1
  <2>3. \A b \in 1..a : b \in 1..Len(s) /\ b \in 1..Len(t)
    BY <1>1, <2>2
  <2>4. /\ \A b \in 1..a : s[b] # t[a]
        /\ \A b \in 1..a : t[b] # s[a]
    BY <1>2, <2>2, <2>3, Zenon
  <2>5. s[a] \in N /\ t[a] \in N /\ s[a] \in Node /\ t[a] \in Node
    BY <1>1, <2>2
  <2>6. Meets(h, s[a], t[a]) /\ Meets(h, t[a], s[a])
    BY <2>2, <2>4, <2>5, Zenon DEF Chosen
  <2> QED
    BY <2>5, <2>6, MeetsOneWay
<1>4. \A a : both(a) => s[a] = t[a]
  BY <1>1, <1>3
<1>5. ASSUME NEW u, NEW v, Chosen(u, N, h, count), Chosen(v, N, h, count),
             \A a : a \in 1..Len(u) /\ a \in 1..Len(v) => u[a] = v[a]
      PROVE  ~(Len(u) < Len(v))
  <2> SUFFICES ASSUME Len(u) < Len(v) PROVE FALSE
    OBVIOUS
  <2>1. u \in Seq(N) /\ Len(u) \in Nat /\ v \in Seq(N) /\ Len(v) \in Nat /\ Len(v) <= count
    <3>1. u \in Seq(N) /\ v \in Seq(N) /\ Len(v) <= count
      BY <1>5, Zenon DEF Chosen
    <3> QED
      BY <3>1
  <2> DEFINE c == Len(u) + 1
  <2>2. Len(u) # count /\ c \in 1..Len(v) /\ ~(c \in 1..Len(u))
    BY <2>1
  <2> HIDE DEF c
  <2>3. v[c] \in N
    BY <2>1, <2>2
  <2>4. PICK b \in 1..Len(u) : v[c] = u[b]
    BY <1>5, <2>2, <2>3, Zenon DEF Chosen
  <2>5. b \in 1..Len(v)
    BY <2>1
  <2>6. v[c] = v[b] /\ b # c
    BY <1>5, <2>2, <2>4, <2>5, Zenon
  <2> QED
    BY <1>5, <2>2, <2>5, <2>6, Zenon DEF Chosen
<1>6. Len(s) = Len(t)
  <2>1. ~(Len(s) < Len(t))
    BY <1>4, <1>5, Zenon
  <2>2. ~(Len(t) < Len(s))
    BY <1>4, <1>5, Zenon
  <2> QED
    BY <1>1, <2>1, <2>2
<1> QED
  BY <1>1, <1>4, <1>6

\* The ring with every node on it, and the order of preference it gives.
LEMMA PreferenceChosen ==
  ASSUME hashKey \in Injection(Labels, LabelHash), NEW h \in Nat
  PROVE  /\ Chosen(Preference(h), Node, h, Cardinality(Node))
         /\ \A n \in Node : \E b \in 1..Len(Preference(h)) : n = Preference(h)[b]
<1> DEFINE entry == [l \in Labels |-> [hash |-> hashKey[l], nodeID |-> l[1]]]
           full == Arrange(entry, hashKey)
           c == Cardinality(Labels)
           V == 0..(VirtualNodes - 1)
           all == Preference(h)
<1>1. /\ hashKey \in [Labels -> LabelHash] /\ hashKey \in [Labels -> Nat]
      /\ \A l, k \in Labels : hashKey[l] = hashKey[k] => l = k
  BY HashAssumption DEF Injection, IsInjective
<1>2. IsFiniteSet(Labels) /\ c \in Nat
  <2>1. IsFiniteSet(V)
    BY CountAssumption, FS_Interval
  <2>2. IsFiniteSet(Node \X V)
    BY <2>1, NodeAssumption, FS_Product, Zenon
  <2> QED
    BY <2>2, FS_CardinalityType DEF Labels
<1>3. PICK place : IsPlacing(place, Labels, hashKey, c)
  BY <1>1, <1>2, ArrangePlaces
<1>4. /\ place \in [1..c -> Labels]
      /\ \A l \in Labels : \E j \in 1..c : place[j] = l
      /\ \A j, k \in 1..c : j < k => hashKey[place[j]] < hashKey[place[k]]
      /\ full = [j \in 1..c |-> entry[place[j]]]
  BY <1>3, Zenon DEF IsPlacing
<1> HIDE DEF full, c, entry
<1>5. DOMAIN full = 1..c /\ Len(full) = c /\ (full = <<>> <=> c = 0)
  BY <1>2, <1>4
<1>6. \A j \in 1..c : /\ place[j] \in Labels
                      /\ full[j].hash = hashKey[place[j]] /\ full[j].nodeID = place[j][1]
  BY <1>4 DEF entry
<1>7. \A l \in Labels : /\ l[1] \in Node /\ l[2] \in V /\ l = <<l[1], l[2]>>
  BY DEF Labels
<1>8. Sorted(full)
  <2>1. ASSUME NEW j \in 1..c, NEW k \in 1..c, j < k PROVE full[j].hash < full[k].hash
    <3>1. full[j].hash = hashKey[place[j]] /\ full[k].hash = hashKey[place[k]]
      BY <1>6, Zenon
    <3>2. hashKey[place[j]] < hashKey[place[k]]
      BY <1>4, <2>1, Zenon
    <3> QED
      BY <3>1, <3>2, Zenon
  <2> QED
    BY <1>5, <2>1, Zenon DEF Sorted
<1>9. RingOf(full, Node)
  <2>1. ASSUME NEW p \in 1..c
        PROVE  full[p].nodeID \in Node /\ \E i \in V : full[p].hash = hashKey[<<full[p].nodeID, i>>]
    <3>1. /\ place[p][1] \in Node /\ place[p][2] \in V
          /\ place[p] = <<place[p][1], place[p][2]>>
      BY <1>6, <1>7
    <3>2. full[p].hash = hashKey[<<full[p].nodeID, place[p][2]>>]
      BY <1>6, <3>1
    <3> QED
      BY <1>6, <3>1, <3>2, Zenon
  <2>2. ASSUME NEW n \in Node, NEW i \in V
        PROVE  \E p \in 1..c : full[p].nodeID = n /\ full[p].hash = hashKey[<<n, i>>]
    <3>1. <<n, i>> \in Labels /\ <<n, i>>[1] = n
      BY DEF Labels
    <3>2. PICK p \in 1..c : place[p] = <<n, i>>
      BY <1>4, <3>1, Zenon
    <3> QED
      BY <1>6, <3>1, <3>2
  <2> QED
    BY <1>2, <1>5, <2>1, <2>2, Zenon DEF RingOf
<1>10. all = GetReplicas(full, h, Cardinality(Node))
  BY Zenon DEF Preference, full, entry
<1>11. Cardinality(Node) \in Nat
  BY NodeAssumption, FS_CardinalityType
<1>12. Chosen(all, Node, h, Cardinality(Node))
  BY <1>8, <1>9, <1>10, <1>11, GetReplicasChosen
<1> HIDE DEF all
<1>13. /\ all \in Seq(Node)
       /\ \A a, b \in 1..Len(all) : a # b => all[a] # all[b]
       /\ Len(all) = Cardinality(Node) \/ \A n \in Node : \E b \in 1..Len(all) : n = all[b]
  BY <1>12, Zenon DEF Chosen
<1>14. CASE Len(all) = Cardinality(Node)
  <2> DEFINE D == 1..Cardinality(Node)
  <2>1. IsFiniteSet(D) /\ Cardinality(D) = Cardinality(Node)
    BY <1>11, FS_Interval
  <2>2. all \in [D -> Node] /\ \A a, b \in D : all[a] = all[b] => a = b
    BY <1>13, <1>14
  <2>3. all \in Injection(D, Node)
    BY <2>2, Zenon DEF Injection, IsInjective
  <2>4. all \in Surjection(D, Node)
    <3> HIDE DEF D
    <3> QED
      BY <2>1, <2>3, NodeAssumption, FS_Injection
  <2>5. \A n \in Node : \E b \in D : n = all[b]
    BY <2>4 DEF Surjection
  <2> QED
    BY <1>12, <1>14, <2>5 DEF all
<1> QED
  BY <1>12, <1>13, <1>14, Zenon DEF all

\* The members, in the order of preference, as far as count.
LEMMA PresentChosen ==
  ASSUME hashKey \in Injection(Labels, LabelHash), NEW h \in Nat, NEW count \in Nat,
         NEW N \in SUBSET Node
  PROVE  LET all == Preference(h)
             present == AtPlaces(all, {i \in 1..Len(all) : all[i] \in N})
         IN  Chosen(SubSeq(present, 1, Min({count, Len(present)})), N, h, count)
<1> DEFINE all == Preference(h)
           D == {i \in 1..Len(all) : all[i] \in N}
           rank == [i \in D |-> i]
           c == Cardinality(D)
           present == AtPlaces(all, D)
           least == Min({count, Len(present)})
           s == SubSeq(present, 1, least)
<1>1. /\ Chosen(all, Node, h, Cardinality(Node))
      /\ \A n \in Node : \E b \in 1..Len(all) : n = all[b]
  BY PreferenceChosen, Zenon
<1> HIDE DEF all
<1>2. all \in Seq(Node) /\ \A a, b \in 1..Len(all) : a # b => all[a] # all[b]
  BY <1>1, Zenon DEF Chosen
<1>3. IsFiniteSet(D) /\ c \in Nat
  <2>1. IsFiniteSet(1..Len(all)) /\ D \subseteq 1..Len(all)
    BY <1>2, FS_Interval
  <2>2. IsFiniteSet(D)
    BY <2>1, FS_Subset
  <2> QED
    BY <2>2, FS_CardinalityType
<1>4. rank \in [D -> Nat] /\ \A i, k \in D : rank[i] = rank[k] => i = k
  BY <1>2
<1>5. \A i : /\ i \in D <=> i \in 1..Len(all) /\ all[i] \in N
             /\ i \in D => rank[i] = i
  OBVIOUS
<1>6. present = Arrange(all, rank)
  BY DEF AtPlaces
<1> HIDE DEF D, rank, c
<1>7. PICK place : IsPlacing(place, D, rank, c)
  BY <1>3, <1>4, ArrangePlaces DEF c
<1>8. /\ place \in [1..c -> D]
      /\ \A i \in D : \E j \in 1..c : place[j] = i
      /\ \A j, k \in 1..c : j < k => rank[place[j]] < rank[place[k]]
      /\ present = [j \in 1..c |-> all[place[j]]]
  BY <1>6, <1>7, Zenon DEF IsPlacing
<1> HIDE DEF present
<1>9. \A j \in 1..c : place[j] \in 1..Len(all) /\ place[j] \in D /\ all[place[j]] \in N
  BY <1>5, <1>8
<1>10. \A j, k \in 1..c : j < k => place[j] < place[k]
  BY <1>5, <1>8, <1>9
<1>11. present \in Seq(N) /\ Len(present) = c /\ \A j \in 1..c : present[j] = all[place[j]]
  <2>1. present \in [1..c -> N]
    BY <1>8, <1>9
  <2> QED
    BY <1>3, <1>8, <2>1
<1>12. /\ least \in {count, c} /\ least <= count /\ least <= c
  <2>1. {count, Len(present)} \in SUBSET Nat /\ {count, Len(present)} # {}
    BY <1>3, <1>11
  <2>2. least \in {count, Len(present)} /\ \A y \in {count, Len(present)} : least <= y
    BY <2>1, MinIsLeast
  <2> HIDE DEF least
  <2> QED
    BY <1>11, <2>2
<1> HIDE DEF least
<1>13. /\ s \in Seq(N) /\ Len(s) = least
       /\ \A j \in 1..least : j \in 1..c /\ s[j] = all[place[j]]
  BY <1>3, <1>11, <1>12
<1> HIDE DEF s
<1>14. least \in Nat
  BY <1>3, <1>12
<1>15. ASSUME NEW a \in 1..least, NEW b \in 1..least, a # b PROVE s[a] # s[b]
  <2>1. a \in 1..c /\ b \in 1..c /\ (a < b \/ b < a)
    BY <1>13, <1>14, <1>15
  <2>2. place[a] # place[b]
    BY <1>9, <1>10, <2>1
  <2>3. all[place[a]] # all[place[b]]
    BY <1>2, <1>9, <2>1, <2>2, Zenon
  <2>4. s[a] = all[place[a]] /\ s[b] = all[place[b]]
    BY <1>13, Zenon
  <2> QED
    BY <2>3, <2>4, Zenon
<1>16. ASSUME NEW a \in 1..least, NEW m \in N, \A b \in 1..a : s[b] # m
       PROVE  Meets(h, s[a], m)
  <2>1. ASSUME NEW i \in 1..place[a], all[i] = m PROVE FALSE
    <3>1. a \in 1..c /\ place[a] \in 1..Len(all)
      BY <1>9, <1>13, SMTT(30)
    <3>2. i \in D
      BY <1>2, <1>5, <2>1, <3>1
    <3>3. PICK j \in 1..c : place[j] = i
      BY <1>8, <3>2, Zenon
    <3>4. ~(a < j)
      <4>1. a < j => place[a] < i
        BY <1>10, <3>1, <3>3, Zenon
      <4> QED
        BY <1>2, <3>1, <4>1
    <3>5. j \in 1..a /\ j \in 1..least
      BY <1>3, <1>14, <3>1, <3>4, SMTT(30)
    <3> QED
      BY <1>13, <1>16, <2>1, <3>3, <3>5, ZenonT(40)
  <2>2. place[a] \in 1..Len(all) /\ s[a] = all[place[a]] /\ m \in Node
    BY <1>9, <1>13
  <2>3. \A i \in 1..place[a] : all[i] # m
    BY <2>1, Zenon
  <2>4. Meets(h, all[place[a]], m)
    BY <1>1, <2>2, <2>3, Zenon DEF Chosen
  <2> QED
    BY <2>2, <2>4, Zenon
<1>17. ASSUME least # count, NEW m \in N PROVE \E b \in 1..least : m = s[b]
  <2>1. least = c
    BY <1>12, <1>17
  <2>2. PICK i \in 1..Len(all) : m = all[i]
    BY <1>1
  <2>3. PICK j \in 1..c : place[j] = i
    BY <1>5, <1>8, <2>2, Zenon
  <2> QED
    BY <1>13, <2>1, <2>2, <2>3, Zenon
<1>18. Chosen(s, N, h, count)
  BY <1>12, <1>13, <1>15, <1>16, <1>17, Zenon DEF Chosen
<1> QED
  BY <1>18, Zenon DEF s, least, present, D, all

\* On every ring, when the members have the same weight: the replicas of a key are
\* the first members in the key's order of preference, whatever joined or left,
\* and the first of them is the node that GetNode returns.
THEOREM RingReplicas == Spec => []ReplicasByPreference
<1>1. ASSUME RingInv PROVE ReplicasByPreference
  <2> SUFFICES ASSUME \A n \in nodes : nodeReplicas[n] = VirtualNodes, NEW h \in KeyHash,
                      NEW count \in 0..(Cardinality(Node) + 1)
               PROVE  LET all == Preference(h)
                          present == AtPlaces(all, {i \in 1..Len(all) : all[i] \in nodes})
                          expected == SubSeq(present, 1, Min({count, Len(present)}))
                      IN  /\ GetReplicas(entries, h, count) = expected
                          /\ count > 0 /\ nodes # {} => GetNode(entries, h) = Head(expected)
    BY Zenon DEF ReplicasByPreference
  <2> DEFINE all == Preference(h)
             present == AtPlaces(all, {i \in 1..Len(all) : all[i] \in nodes})
             expected == SubSeq(present, 1, Min({count, Len(present)}))
             s == GetReplicas(entries, h, count)
  <2>1. h \in Nat /\ count \in Nat
    BY HashAssumption, SMTT(30)
  <2>2. /\ hashKey \in Injection(Labels, LabelHash) /\ nodes \in SUBSET Node
        /\ entries \in Seq(RingEntry) /\ Sorted(entries)
    BY <1>1 DEF RingInv
  <2>3. RingOf(entries, nodes)
    <3>1. /\ Len(entries) \in Nat /\ DOMAIN entries = 1..Len(entries)
          /\ (entries = <<>> <=> Len(entries) = 0)
      BY <2>2
    <3>2. \A x : x \in Range(entries) <=> \E p \in 1..Len(entries) : x = entries[p]
      BY <2>2, RangeElements, SMTT(30)
    <3>3. ASSUME NEW p \in 1..Len(entries)
          PROVE  /\ entries[p].nodeID \in nodes
                 /\ \E i \in 0..(VirtualNodes - 1) :
                      entries[p].hash = hashKey[<<entries[p].nodeID, i>>]
      <4>1. entries[p] \in Range(entries)
        BY <3>2
      <4>2. /\ entries[p].nodeID \in nodes
            /\ \E i \in 0..(nodeReplicas[entries[p].nodeID] - 1) :
                 entries[p].hash = hashKey[<<entries[p].nodeID, i>>]
        BY <1>1, <4>1, ZenonT(40) DEF RingInv
      <4>3. nodeReplicas[entries[p].nodeID] = VirtualNodes
        BY <4>2
      <4> QED
        BY <4>2, <4>3, SMTT(30)
    <3>4. ASSUME NEW n \in nodes, NEW i \in 0..(VirtualNodes - 1)
          PROVE  \E p \in 1..Len(entries) : entries[p].nodeID = n /\ entries[p].hash = hashKey[<<n, i>>]
      <4>1. i \in 0..(nodeReplicas[n] - 1)
        OBVIOUS
      <4>2. PICK e \in Range(entries) : e.nodeID = n /\ e.hash = hashKey[<<n, i>>]
        BY <1>1, <4>1, Zenon DEF RingInv
      <4>3. PICK p \in 1..Len(entries) : e = entries[p]
        BY <3>2, Zenon
      <4> QED
        BY <4>2, <4>3, Zenon
    <3> QED
      BY <3>1, <3>3, <3>4, Zenon DEF RingOf
  <2>4. /\ Chosen(s, nodes, h, count)
        /\ entries # <<>> /\ count > 0 => s[1] = GetNode(entries, h)
    BY <2>1, <2>2, <2>3, GetReplicasChosen
  <2>5. Chosen(expected, nodes, h, count)
    BY <2>1, <2>2, PresentChosen
  <2>6. s = expected
    <3> HIDE DEF s, expected
    <3> QED
      BY <2>1, <2>2, <2>4, <2>5, ChosenIsUnique
  <2>7. count > 0 /\ nodes # {} => GetNode(entries, h) = Head(expected)
    <3> SUFFICES ASSUME count > 0, nodes # {} PROVE GetNode(entries, h) = Head(expected)
      BY Zenon
    <3>1. entries # <<>>
      <4>1. PICK n \in nodes : TRUE
        OBVIOUS
      <4>2. 0 \in 0..(VirtualNodes - 1)
        BY CountAssumption
      <4>3. \E p \in 1..Len(entries) : entries[p].nodeID = n
        BY <2>3, <4>2, Zenon DEF RingOf
      <4> QED
        BY <4>3
    <3> HIDE DEF s, expected
    <3>2. Head(expected) = expected[1]
      OBVIOUS
    <3> QED
      BY <2>4, <2>6, <3>1, <3>2
  <2> QED
    BY <2>6, <2>7, Zenon
<1> QED
  BY <1>1, RingInvariant, PTL
=============================================================================
