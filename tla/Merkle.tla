------------------------------- MODULE Merkle -------------------------------
(***************************************************************************)
(* The Merkle trees of pkg/merkle/merkle.go, built from two stores that    *)
(* change independently and replicate to each other.  Key hashes are words *)
(* of Bits bits (64 in the code), and arithmetic on them wraps.  SHA-256   *)
(* is taken to be free of collisions: a digest is represented by what was  *)
(* written to it.                                                          *)
(***************************************************************************)
EXTENDS StoreOps, Bitwise

CONSTANTS Bits,       \* the width of a key hash
          NumLeaves,  \* the values Build is called with
          DefaultNumLeaves,
          MaxCalls    \* bound: the calls made on the two stores in a run

ASSUME MerkleAssumption ==
  /\ Bits \in Nat \ {0}
  /\ NumLeaves \subseteq Int /\ DefaultNumLeaves \in Nat \ {0, 1}

VARIABLES stores,   \* the stores of the nodes
          hashKey,  \* the hash of each key; never changes
          nl,       \* the numLeaves argument; never changes
          calls

vars == <<stores, hashKey, nl, calls>>

maxUint64 == 2^Bits - 1
Word(x) == x % 2^Bits

Init ==
  /\ stores = [n \in Origin |-> New]
  /\ hashKey \in [Key -> 0 .. maxUint64]
  /\ nl \in NumLeaves
  /\ calls = 0

Update(n, s) ==
  /\ calls < MaxCalls
  /\ calls' = calls + 1
  /\ stores' = [stores EXCEPT ![n] = s]
  /\ UNCHANGED <<hashKey, nl>>

\* A client writes or deletes on one node; a node receives another's entry.
Write(n, k, v) == Update(n, SetFrom(stores[n], k, v, n))
Delete(n, k) == Update(n, Del(stores[n], n, <<k>>))
Replicate(n, m, k) ==
  /\ stores[m].tree[k] # Absent
  /\ Update(n, SetWithVersion(stores[n], k, stores[m].tree[k]))

Next ==
  \E n \in Origin, k \in Key :
    \/ \E v \in Value : Write(n, k, v)
    \/ Delete(n, k)
    \/ \E m \in Origin \ {n} : Replicate(n, m, k)

Spec == Init /\ [][Next]_vars

-----------------------------------------------------------------------------
\* Slip: the decrement before the shifts left out.
roundUpNoDecrement(n) ==
  LET smear(x, i) == x | shiftR(x, i)
  IN  IF n <= 0 THEN 0
      ELSE smear(smear(smear(smear(smear(n, 1), 2), 4), 8), 16) + 1

roundUpPowerOfTwo(n) ==
  LET smear(x, i) == x | shiftR(x, i)
  IN  IF n <= 0 THEN 0
      ELSE smear(smear(smear(smear(smear(n - 1, 1), 2), 4), 8), 16) + 1

Leaves(n) == IF roundUpPowerOfTwo(n) <= 0 THEN DefaultNumLeaves ELSE roundUpPowerOfTwo(n)

\* The width of a leaf's range of hashes.
Step(leaves) == Word((maxUint64 \div leaves) + 1)

\* With one leaf the width wraps to zero, and Build divides the hash of the first
\* item by it.
Panics(s, leaves) == Step(leaves) = 0 /\ LiveKeys(s) # {}

\* Slip: hashes are dealt to the leaves in turn.
BucketIndexModulo(leaves, h) == h % leaves

\* The leaf Build puts a hash in.
BucketIndex(leaves, h) ==
  LET idx == h \div Step(leaves)
  IN  IF idx >= leaves THEN leaves - 1 ELSE idx

\* What Iterate shows of the live items, and leafHash hashes: key, value and
\* version.  A bucket sorted by key is determined by its set of items.
Visible(s, keys) ==
  {[key |-> k, value |-> s.tree[k].value, ver |-> s.tree[k].version] : k \in keys}

\* Slip: the version is not written to the digest.
BucketWithoutVersion(s, leaves, i) ==
  {[key |-> k, value |-> s.tree[k].value, ver |-> 0] :
     k \in {x \in LiveKeys(s) : BucketIndex(leaves, hashKey[x]) = i}}

Bucket(s, leaves, i) ==
  Visible(s, {k \in LiveKeys(s) : BucketIndex(leaves, hashKey[k]) = i})

\* The complete binary tree, as an array with the children of i at 2i+1, 2i+2.
Build(s, leaves) ==
  LET first == leaves - 1
      hashes[i \in 0 .. 2 * leaves - 2] ==
        IF i >= first THEN [bucket |-> Bucket(s, leaves, i - first)]
        ELSE [left |-> hashes[2 * i + 1], right |-> hashes[2 * i + 2]]
      keyCounts[i \in 0 .. 2 * leaves - 2] ==
        IF i >= first THEN Cardinality(hashes[i].bucket)
        ELSE keyCounts[2 * i + 1] + keyCounts[2 * i + 2]
  IN  [numLeaves |-> leaves, hashes |-> hashes, keyCounts |-> keyCounts]

RootHash(t) == t.hashes[0]
LeafKeyCount(t, i) == t.keyCounts[t.numLeaves - 1 + i]

LeafBounds(leaves, i) ==
  [start |-> Word(i * Step(leaves)),
   end |-> IF i = leaves - 1 THEN maxUint64 ELSE Word((i + 1) * Step(leaves))]

\* Slip: the largest hash belongs to no leaf.
inLeafRangeExclusive(h, b, final) == h >= b.start /\ h < b.end

inLeafRange(h, b, final) == h >= b.start /\ (h < b.end \/ (final /\ h = maxUint64))

\* The keys of the entries LeafEntries returns.
LeafEntries(s, leaves, i) ==
  {k \in LiveKeys(s) : inLeafRange(hashKey[k], LeafBounds(leaves, i), i = leaves - 1)}

Diff(a, b) ==
  IF a.numLeaves # b.numLeaves THEN {}
  ELSE {i \in 0 .. a.numLeaves - 1 :
          a.hashes[a.numLeaves - 1 + i] # b.hashes[b.numLeaves - 1 + i]}

-----------------------------------------------------------------------------
\* The number of leaves is the least power of two that is not below the one
\* asked for.
LeavesArePowerOfTwo ==
  nl > 0 => \E e \in 0 .. 10 : Leaves(nl) = 2^e /\ nl <= 2^e /\ (e > 0 => 2^(e - 1) < nl)

\* Build and LeafEntries agree: every live key is in the range of one leaf, the
\* one whose bucket counts it, the largest hash included; and the root counts
\* what Len reports.  This and DiffIsExact are about the trees that are built: of
\* a store with live items that excludes one leaf.
LeavesPartitionStore ==
  \A n \in Origin :
    LET leaves == Leaves(nl)
        t == Build(stores[n], leaves)
    IN  ~Panics(stores[n], leaves) =>
        /\ \A k \in LiveKeys(stores[n]), i \in 0 .. leaves - 1 :
             k \in LeafEntries(stores[n], leaves, i) <=> BucketIndex(leaves, hashKey[k]) = i
        /\ \A i \in 0 .. leaves - 1 :
             LeafKeyCount(t, i) = Cardinality(LeafEntries(stores[n], leaves, i))
        /\ t.keyCounts[0] = stores[n].length

\* Diff names exactly the leaves in which the live keys, values or versions of
\* two stores differ, and finds none exactly when the roots are equal.  Equal
\* trees leave open who wrote an entry and which keys have tombstones.
DiffIsExact ==
  \A n, m \in Origin :
    LET leaves == Leaves(nl)
        a == Build(stores[n], leaves)
        b == Build(stores[m], leaves)
        content(s, i) == Visible(s, LeafEntries(s, leaves, i))
    IN  ~Panics(stores[n], leaves) /\ ~Panics(stores[m], leaves) =>
        /\ Diff(a, b) = {i \in 0 .. leaves - 1 : content(stores[n], i) # content(stores[m], i)}
        /\ Diff(a, b) = {} <=> RootHash(a) = RootHash(b)
=============================================================================
