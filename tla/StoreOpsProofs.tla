--------------------------- MODULE StoreOpsProofs ---------------------------
(***************************************************************************)
(* What the store's methods preserve, for every set of keys, values and    *)
(* origins and every store they may be called on.                          *)
(***************************************************************************)
EXTENDS StoreOps, FiniteSetTheorems, TLAPS

\* The parts of an entry, as the provers need them.
LEMMA EntryParts ==
  ASSUME NEW e \in Entry
  PROVE  /\ e.version \in Nat /\ e.origin \in Nat /\ e.value \in Nat
         /\ e.deleted \in BOOLEAN
         /\ e # Absent
<1>1. e # Absent
  BY AbsentAssumption
<1>2. Value \cup {EmptyString} \subseteq Nat
  BY RanksAssumption DEF EmptyString
<1>3. e.version \in Nat /\ e.origin \in Nat /\ e.value \in Nat
  BY <1>2, RanksAssumption, Zenon DEF Entry
<1>4. e.deleted \in BOOLEAN
  BY DEF Entry
<1> QED
  BY <1>1, <1>3, <1>4

\* newer never holds of an entry and itself, nor both ways round.
LEMMA NewerAsymmetric ==
  ASSUME NEW a \in Entry, NEW b \in Entry, newer(a, b)
  PROVE  ~newer(b, a)
BY EntryParts DEF newer

\* newer is transitive: merging is independent of the grouping of entries.
LEMMA NewerTransitive ==
  ASSUME NEW a \in Entry, NEW b \in Entry, NEW c \in Entry,
         newer(a, b), newer(b, c)
  PROVE  newer(a, c)
BY EntryParts DEF newer

\* Being at least as new as an entry is transitive.
LEMMA AtLeastTransitive ==
  ASSUME NEW a \in Entry \cup {Absent}, NEW b \in Entry, NEW e \in Entry,
         AtLeast(a, b), AtLeast(b, e)
  PROVE  AtLeast(a, e)
BY NewerTransitive, AbsentAssumption DEF AtLeast

\* newer is total: of two different entries one beats the other, so that no
\* two replicas can hold different entries that neither gives up.
LEMMA NewerTotal ==
  ASSUME NEW a \in Entry, NEW b \in Entry, a # b
  PROVE  newer(a, b) \/ newer(b, a)
<1>1. a = [version |-> a.version, origin |-> a.origin,
           deleted |-> a.deleted, value |-> a.value]
  BY DEF Entry
<1>2. b = [version |-> b.version, origin |-> b.origin,
           deleted |-> b.deleted, value |-> b.value]
  BY DEF Entry
<1>3. \/ a.version # b.version \/ a.origin # b.origin
      \/ a.deleted # b.deleted \/ a.value # b.value
  BY <1>1, <1>2
<1> QED
  BY <1>3, EntryParts DEF newer

\* A set of entries has at most one newest entry: two stores that were given
\* the same entries for a key, in any two orders, hold the same entry.
THEOREM NewestIsUnique ==
  ASSUME NEW S \in SUBSET Entry, NEW a, NEW b, IsNewest(a, S), IsNewest(b, S)
  PROVE  a = b
<1>1. a \in Entry /\ b \in Entry
  BY DEF IsNewest
<1>2. SUFFICES ASSUME a # b PROVE FALSE
  OBVIOUS
<1>3. newer(a, b) /\ newer(b, a)
  BY <1>2 DEF IsNewest
<1> QED
  BY <1>1, <1>3, NewerAsymmetric

\* Joining an entry to a set: the newest of the larger set.
LEMMA NewestJoin ==
  ASSUME NEW S \in SUBSET Entry, NEW a, IsNewest(a, S), NEW e \in Entry
  PROVE  /\ newer(e, a) => IsNewest(e, S \cup {e})
         /\ ~newer(e, a) => IsNewest(a, S \cup {e})
<1>1. a \in Entry /\ a \in S
  BY DEF IsNewest
<1>2. ASSUME newer(e, a) PROVE IsNewest(e, S \cup {e})
  <2>1. ASSUME NEW f \in S PROVE newer(e, f)
    <3>1. f \in Entry /\ (f = a \/ newer(a, f))
      BY DEF IsNewest
    <3> QED
      BY <1>1, <1>2, <3>1, NewerTransitive
  <2> QED
    BY <2>1 DEF IsNewest
<1>3. ASSUME ~newer(e, a) PROVE IsNewest(a, S \cup {e})
  BY <1>1, <1>3, NewerTotal DEF IsNewest
<1> QED
  BY <1>2, <1>3

\* Writing one item moves the set of live keys by that key alone.
LEMMA LiveKeysStep ==
  ASSUME NEW s \in StoreState, NEW t, NEW k \in Key, NEW e \in Entry,
         t.tree = [s.tree EXCEPT ![k] = e]
  PROVE  /\ IsFiniteSet(LiveKeys(s))
         /\ Cardinality(LiveKeys(s)) \in Nat
         /\ Cardinality(LiveKeys(t)) \in Nat
         /\ Cardinality(LiveKeys(t)) =
              Cardinality(LiveKeys(s)) + LengthChange(s.tree[k], e)
<1>1. IsFiniteSet(LiveKeys(s)) /\ Cardinality(LiveKeys(s)) \in Nat
  BY KeyAssumption, FS_Subset, FS_CardinalityType DEF LiveKeys
<1>2. s.tree \in [Key -> Entry \cup {Absent}] /\ t.tree[k] = e
      /\ \A x \in Key : x # k => t.tree[x] = s.tree[x]
  BY DEF StoreState
<1>3. e # Absent
  BY EntryParts
<1>4. CASE ~e.deleted
  <2>1. LiveKeys(t) = LiveKeys(s) \cup {k}
    BY <1>2, <1>3, <1>4 DEF LiveKeys, Live
  <2>2. k \in LiveKeys(s) <=> Live(s.tree[k])
    BY DEF LiveKeys
  <2> QED
    BY <2>1, <2>2, <1>1, <1>4, FS_AddElement, FS_CardinalityType DEF LengthChange
<1>5. CASE e.deleted
  <2>1. LiveKeys(t) = LiveKeys(s) \ {k}
    BY <1>2, <1>3, <1>5 DEF LiveKeys, Live
  <2>2. k \in LiveKeys(s) <=> Live(s.tree[k])
    BY DEF LiveKeys
  <2> QED
    BY <2>1, <2>2, <1>1, <1>5, FS_RemoveElement, FS_CardinalityType DEF LengthChange
<1> QED
  BY <1>1, <1>4, <1>5

\* SetFrom on a good store: its entry always takes effect, because the version
\* it draws is larger than the stored one, and the result is a good store.
LEMMA SetFromGood ==
  ASSUME NEW s, GoodStore(s), NEW k \in Key, NEW v \in Value, NEW o \in Origin
  PROVE  /\ GoodStore(SetFrom(s, k, v, o))
         /\ SetFromEntry(s, v, o) \in Entry
         /\ SetFrom(s, k, v, o).tree = [s.tree EXCEPT ![k] = SetFromEntry(s, v, o)]
         /\ \A x \in Key : s.tree[x] # Absent => newer(SetFromEntry(s, v, o), s.tree[x])
<1> DEFINE e == SetFromEntry(s, v, o)
           t == SetFrom(s, k, v, o)
<1>1. s.tree \in [Key -> Entry \cup {Absent}] /\ s.clock \in Nat /\ s.length \in Nat
  BY DEF GoodStore, StoreState
<1>2. e \in Entry /\ e.version = s.clock + 1 /\ ~e.deleted
  BY <1>1 DEF SetFromEntry, Entry
<1>3. ASSUME NEW x \in Key, s.tree[x] # Absent
      PROVE  newer(e, s.tree[x])
  <2>1. s.tree[x] \in Entry /\ s.tree[x].version <= s.clock
    BY <1>1, <1>3 DEF GoodStore, Dominates
  <2> QED
    BY <2>1, <1>1, <1>2, EntryParts DEF newer
<1>4. /\ t.tree = [s.tree EXCEPT ![k] = e]
      /\ t.clock = s.clock + 1
      /\ t.length = s.length + LengthChange(s.tree[k], e)
      /\ t = [tree |-> t.tree, clock |-> t.clock, length |-> t.length]
  BY <1>1, <1>2, <1>3 DEF SetFrom, LengthChange
<1> HIDE DEF e, t
<1>5. t.tree \in [Key -> Entry \cup {Absent}]
  BY <1>1, <1>2, <1>4
<1>6. s \in StoreState /\ s.length = Cardinality(LiveKeys(s))
  BY DEF GoodStore, CountsLive
<1>7. t.length \in Nat /\ CountsLive(t)
  BY <1>2, <1>4, <1>6, LiveKeysStep DEF CountsLive
<1>8. t \in StoreState
  BY <1>1, <1>4, <1>5, <1>7 DEF StoreState
<1>9. Dominates(t)
  BY <1>1, <1>2, <1>4, EntryParts DEF Dominates, GoodStore
<1> QED
  BY <1>2, <1>3, <1>4, <1>7, <1>8, <1>9 DEF GoodStore, e, t

\* SetWithVersion on a good store leaves the newer of the two entries.
LEMMA SetWithVersionGood ==
  ASSUME NEW s, GoodStore(s), NEW k \in Key, NEW e \in Entry
  PROVE  /\ GoodStore(SetWithVersion(s, k, e))
         /\ SetWithVersion(s, k, e).tree =
              IF Accepts(s, k, e) THEN [s.tree EXCEPT ![k] = e] ELSE s.tree
         /\ SetWithVersion(s, k, e).clock >= s.clock
<1> DEFINE t == SetWithVersion(s, k, e)
<1>1. /\ s.tree \in [Key -> Entry \cup {Absent}] /\ s.clock \in Nat /\ s.length \in Nat
      /\ s \in StoreState /\ s.length = Cardinality(LiveKeys(s))
  BY DEF GoodStore, StoreState, CountsLive
<1>2. CASE ~Accepts(s, k, e)
  <2>1. t = s
    BY <1>2 DEF SetWithVersion
  <2> QED
    BY <2>1, <1>1, <1>2
<1>3. CASE Accepts(s, k, e)
  <2>1. /\ t.tree = [s.tree EXCEPT ![k] = e]
        /\ t.clock = IF e.version > s.clock THEN e.version ELSE s.clock
        /\ t.length = s.length + LengthChange(s.tree[k], e)
        /\ t = [tree |-> t.tree, clock |-> t.clock, length |-> t.length]
    BY <1>3 DEF SetWithVersion
  <2> HIDE DEF t
  <2>2. e.version \in Nat
    BY EntryParts
  <2>3. t.tree \in [Key -> Entry \cup {Absent}] /\ t.clock \in Nat
        /\ t.clock >= s.clock /\ t.clock >= e.version
    BY <1>1, <2>1, <2>2
  <2>4. t.length \in Nat /\ CountsLive(t)
    BY <1>1, <2>1, LiveKeysStep DEF CountsLive
  <2>5. t \in StoreState
    BY <2>1, <2>3, <2>4 DEF StoreState
  <2>6. Dominates(t)
    <3> SUFFICES ASSUME NEW x \in Key, t.tree[x] # Absent
                 PROVE  t.tree[x].version <= t.clock
      BY DEF Dominates
    <3>1. CASE x = k
      BY <3>1, <1>1, <2>1, <2>3
    <3>2. CASE x # k
      <4>1. t.tree[x] = s.tree[x] /\ s.tree[x] \in Entry /\ s.tree[x].version <= s.clock
        BY <3>2, <1>1, <2>1 DEF GoodStore, Dominates
      <4> QED
        BY <4>1, <1>1, <2>3, EntryParts
    <3> QED
      BY <3>1, <3>2
  <2> QED
    BY <1>3, <2>1, <2>3, <2>4, <2>5, <2>6 DEF GoodStore, t
<1> QED
  BY <1>2, <1>3

\* The versions Del draws lie strictly above the old clock and at most at the
\* new one.
LEMMA TombstoneVersions ==
  ASSUME NEW s, GoodStore(s), NEW o \in Origin, NEW ks \in Seq(Key),
         NEW k \in Named(ks)
  PROVE  /\ Tombstone(s, o, ks, k) \in Entry
         /\ Tombstone(s, o, ks, k).deleted
         /\ Tombstone(s, o, ks, k).version > s.clock
         /\ Tombstone(s, o, ks, k).version <= s.clock + Cardinality(Named(ks))
         /\ Cardinality(Named(ks)) \in Nat
<1>1. IsFiniteSet(Named(ks)) /\ Cardinality(Named(ks)) \in Nat
  <2>1. Named(ks) \subseteq Key
    BY DEF Named
  <2> QED
    BY <2>1, KeyAssumption, FS_Subset, FS_CardinalityType
<1>2. NamedUpTo(ks, k) \subseteq Named(ks)
  BY DEF NamedUpTo
<1>3. NamedUpTo(ks, k) # {}
  <2>1. Len(ks) \in Nat /\ 1 \in 1..Len(ks) /\ ks[1] \in Named(ks)
    BY DEF Named
  <2> QED
    BY <2>1 DEF NamedUpTo
<1>4. /\ Cardinality(NamedUpTo(ks, k)) \in Nat
      /\ Cardinality(NamedUpTo(ks, k)) <= Cardinality(Named(ks))
      /\ Cardinality(NamedUpTo(ks, k)) # 0
  BY <1>1, <1>2, <1>3, FS_Subset, FS_CardinalityType, FS_EmptySet
<1>5. s.clock \in Nat
  BY DEF GoodStore, StoreState
<1>6. Tombstone(s, o, ks, k) \in Entry
  BY <1>4, <1>5 DEF Tombstone, Entry
<1> QED
  BY <1>1, <1>4, <1>5, <1>6 DEF Tombstone

\* The versions Del draws for different keys differ: of two keys one comes first
\* in the argument list, and its version is the smaller one.
LEMMA TombstonesDiffer ==
  ASSUME NEW s, GoodStore(s), NEW o, NEW ks \in Seq(Key),
         NEW k \in Named(ks), NEW l \in Named(ks), k # l
  PROVE  Tombstone(s, o, ks, k).version # Tombstone(s, o, ks, l).version
<1> DEFINE Before(x, y) == \E i \in 1..Len(ks) : ks[i] = x /\ \A j \in 1..(i - 1) : ks[j] # y
           less == OpToRel(<, Nat)
<1>0. Len(ks) \in Nat
  OBVIOUS
<1>1. ASSUME NEW x \in Named(ks), NEW y \in Named(ks)
      PROVE  Before(x, y) \/ Before(y, x)
  <2> DEFINE at == {i \in 1..Len(ks) : ks[i] = x \/ ks[i] = y}
  <2>1. at \subseteq Nat /\ at # {}
    BY <1>0 DEF Named
  <2>2. PICK i \in at : \A j \in at : ~(<<j, i>> \in less)
    <3> HIDE DEF at, less
    <3>1. IsWellFoundedOn(less, Nat)
      BY NatLessThanWellFounded, Zenon DEF less
    <3> QED
      BY <2>1, <3>1, WFMin, Zenon
  <2>3. \A j \in at : ~(j < i)
    <3> HIDE DEF at
    <3> QED
      BY <2>1, <2>2, ZenonT(40) DEF OpToRel
  <2>4. \A j \in 1..(i - 1) : j \notin at /\ j \in 1..Len(ks)
    BY <1>0, <2>3
  <2> QED
    BY <2>2, <2>4, Zenon
<1>2. ASSUME NEW x, NEW y, x # y, Before(x, y)
      PROVE  ~Before(y, x)
  <2>1. PICK i \in 1..Len(ks) : ks[i] = x /\ \A j \in 1..(i - 1) : ks[j] # y
    BY <1>2
  <2>2. ASSUME NEW m \in 1..Len(ks), ks[m] = y, \A j \in 1..(m - 1) : ks[j] # x
        PROVE  FALSE
    <3>1. i < m \/ m < i \/ i = m
      BY <1>0
    <3> QED
      BY <1>0, <1>2, <2>1, <2>2, <3>1
  <2> QED
    BY <2>2
<1>3. ASSUME NEW x \in Named(ks), NEW y \in Named(ks), x # y, Before(x, y)
      PROVE  Cardinality(NamedUpTo(ks, x)) < Cardinality(NamedUpTo(ks, y))
  <2>1. \A z, w : z \in NamedUpTo(ks, w) <=> z \in Named(ks) /\ Before(z, w)
    BY DEF NamedUpTo
  <2>2. ~Before(y, x) /\ Before(y, y)
    BY <1>1, <1>2, <1>3
  <2>3. ASSUME NEW z, Before(z, x)
        PROVE  Before(z, y)
    <3>1. PICK i \in 1..Len(ks) : ks[i] = z /\ \A j \in 1..(i - 1) : ks[j] # x
      BY <2>3
    <3>2. \A j \in 1..(i - 1) : ks[j] # y
      <4> SUFFICES ASSUME NEW j \in 1..(i - 1), ks[j] = y PROVE FALSE
        OBVIOUS
      <4>1. j \in 1..Len(ks) /\ \A m \in 1..(j - 1) : ks[m] # x
        BY <1>0, <3>1
      <4> QED
        BY <2>2, <4>1
    <3> QED
      BY <3>1, <3>2
  <2> HIDE DEF Before
  <2>4. NamedUpTo(ks, x) \subseteq NamedUpTo(ks, y) /\ y \notin NamedUpTo(ks, x)
        /\ y \in NamedUpTo(ks, y)
    BY <2>1, <2>2, <2>3
  <2>5. NamedUpTo(ks, y) \subseteq Key
    BY DEF NamedUpTo, Named
  <2>6. IsFiniteSet(NamedUpTo(ks, y))
    BY <2>5, KeyAssumption, FS_Subset
  <2> QED
    BY <2>4, <2>6, FS_Subset, FS_CardinalityType
<1>4. /\ Cardinality(NamedUpTo(ks, k)) \in Nat /\ Cardinality(NamedUpTo(ks, l)) \in Nat
      /\ s.clock \in Nat
  <2>1. NamedUpTo(ks, k) \subseteq Key /\ NamedUpTo(ks, l) \subseteq Key
    BY DEF NamedUpTo, Named
  <2> QED
    BY <2>1, KeyAssumption, FS_Subset, FS_CardinalityType DEF GoodStore, StoreState
<1>5. Cardinality(NamedUpTo(ks, k)) # Cardinality(NamedUpTo(ks, l))
  <2> HIDE DEF Before
  <2> QED
    BY <1>1, <1>3, <1>4
<1> QED
  BY <1>4, <1>5 DEF Tombstone

\* Del on a good store: every named key gets a tombstone newer than what it
\* held, although Del does not compare the two.
LEMMA DelGood ==
  ASSUME NEW s, GoodStore(s), NEW o \in Origin, NEW ks \in Seq(Key)
  PROVE  /\ GoodStore(Del(s, o, ks))
         /\ Del(s, o, ks).clock >= s.clock
         /\ \A k \in Named(ks) :
              /\ Del(s, o, ks).tree[k] = Tombstone(s, o, ks, k)
              /\ s.tree[k] # Absent => newer(Tombstone(s, o, ks, k), s.tree[k])
         /\ \A k \in Key \ Named(ks) : Del(s, o, ks).tree[k] = s.tree[k]
<1> DEFINE t == Del(s, o, ks)
           gone == {k \in Named(ks) : Live(s.tree[k])}
<1>1. /\ s.tree \in [Key -> Entry \cup {Absent}] /\ s.clock \in Nat /\ s.length \in Nat
      /\ s \in StoreState /\ s.length = Cardinality(LiveKeys(s))
  BY DEF GoodStore, StoreState, CountsLive
<1>2. Named(ks) \subseteq Key
  BY DEF Named
<1>3. Cardinality(Named(ks)) \in Nat
  BY <1>2, KeyAssumption, FS_Subset, FS_CardinalityType
<1>4. /\ t.tree = [k \in Key |-> IF k \in Named(ks) THEN Tombstone(s, o, ks, k)
                                ELSE s.tree[k]]
      /\ t.clock = s.clock + Cardinality(Named(ks))
      /\ t.length = s.length - Cardinality(gone)
      /\ t = [tree |-> t.tree, clock |-> t.clock, length |-> t.length]
  BY DEF Del
<1> HIDE DEF t
<1>5. t.tree \in [Key -> Entry \cup {Absent}] /\ t.clock \in Nat /\ t.clock >= s.clock
  BY <1>1, <1>3, <1>4, TombstoneVersions
<1>6. t.length = Cardinality(LiveKeys(t)) /\ t.length \in Nat
  <2>1. LiveKeys(t) = LiveKeys(s) \ gone
    <3>1. ASSUME NEW k \in Named(ks) PROVE ~Live(t.tree[k])
      BY <1>2, <1>4, TombstoneVersions DEF Live
    <3>2. ASSUME NEW k \in Key, k \notin Named(ks) PROVE t.tree[k] = s.tree[k]
      BY <1>4, <3>2
    <3> HIDE DEF gone
    <3>3. \A k \in Key : k \in gone <=> k \in Named(ks) /\ Live(s.tree[k])
      BY DEF gone
    <3> QED
      BY <3>1, <3>2, <3>3 DEF LiveKeys
  <2>2. gone \subseteq LiveKeys(s)
    BY <1>2 DEF LiveKeys
  <2> HIDE DEF gone
  <2>3. IsFiniteSet(LiveKeys(s)) /\ IsFiniteSet(gone)
    BY <2>2, KeyAssumption, FS_Subset DEF LiveKeys
  <2>4. LiveKeys(s) \cap gone = gone
    BY <2>2
  <2>5. /\ IsFiniteSet(LiveKeys(t))
        /\ Cardinality(LiveKeys(t)) = Cardinality(LiveKeys(s)) - Cardinality(gone)
    BY <2>1, <2>3, <2>4, FS_Difference, Zenon
  <2> QED
    BY <2>5, <1>1, <1>4, FS_CardinalityType
<1>7. t \in StoreState
  BY <1>4, <1>5, <1>6 DEF StoreState
<1>8. Dominates(t)
  <2> SUFFICES ASSUME NEW x \in Key, t.tree[x] # Absent
               PROVE  t.tree[x].version <= t.clock
    BY DEF Dominates
  <2>1. CASE x \in Named(ks)
    BY <2>1, <1>4, TombstoneVersions
  <2>2. CASE x \notin Named(ks)
    <3>1. t.tree[x] = s.tree[x] /\ s.tree[x] \in Entry /\ s.tree[x].version <= s.clock
      BY <2>2, <1>1, <1>4 DEF GoodStore, Dominates
    <3> QED
      BY <3>1, <1>1, <1>5, EntryParts
  <2> QED
    BY <2>1, <2>2
<1>9. ASSUME NEW k \in Named(ks), s.tree[k] # Absent
      PROVE  newer(Tombstone(s, o, ks, k), s.tree[k])
  <2>1. s.tree[k] \in Entry /\ s.tree[k].version <= s.clock
    BY <1>1, <1>2, <1>9 DEF GoodStore, Dominates
  <2> QED
    BY <2>1, <1>1, TombstoneVersions, EntryParts, SMTT(30) DEF newer
<1>10. \A k \in Named(ks) : t.tree[k] = Tombstone(s, o, ks, k)
  BY <1>2, <1>4
<1>11. \A k \in Key \ Named(ks) : t.tree[k] = s.tree[k]
  BY <1>4
<1>12. GoodStore(t)
  BY <1>6, <1>7, <1>8 DEF GoodStore, CountsLive
<1> QED
  BY <1>5, <1>9, <1>10, <1>11, <1>12 DEF t
=============================================================================
