------------------------------ MODULE StoreOps ------------------------------
(***************************************************************************)
(* The versioned key/value map of pkg/store/store.go, as operators on one  *)
(* store value.  Every method of Store holds the mutex s.mu from its first *)
(* access to its last, so one method call is one operator.                 *)
(*                                                                         *)
(* Go compares Origin and Value as strings.  Node names and values are     *)
(* represented here by their rank in the string order, and the empty       *)
(* string has rank 0.                                                      *)
(***************************************************************************)
EXTENDS Integers, Sequences, FiniteSets

CONSTANTS Key,     \* the keys
          Value,   \* ranks of the values clients write
          Origin,  \* ranks of the node names
          Absent   \* what the tree holds for a key with no item

EmptyString == 0

Entry == [version : Nat, origin : Origin, deleted : BOOLEAN,
          value : Value \cup {EmptyString}]

ASSUME RanksAssumption == Value \subseteq Nat /\ Origin \subseteq Nat
ASSUME AbsentAssumption == Absent \notin Entry
ASSUME KeyAssumption == IsFiniteSet(Key)

StoreState == [tree : [Key -> Entry \cup {Absent}], clock : Nat, length : Nat]

New == [tree |-> [k \in Key |-> Absent], clock |-> 0, length |-> 0]

\* store.newer: lexicographic on version, origin, deletion mark and value.
newer(a, b) ==
  \/ a.version > b.version
  \/ a.version = b.version /\ a.origin > b.origin
  \/ a.version = b.version /\ a.origin = b.origin /\ a.deleted /\ ~b.deleted
  \/ /\ a.version = b.version /\ a.origin = b.origin /\ a.deleted = b.deleted
     /\ a.value > b.value

\* e is the one entry of the set S that no other entry of S beats.
IsNewest(e, S) == e \in S /\ \A f \in S : f = e \/ newer(e, f)

\* A tree item at least as new as entry e.
AtLeast(item, e) == item # Absent /\ (item = e \/ newer(item, e))

Live(item) == item # Absent /\ ~item.deleted

LiveKeys(s) == {k \in Key : Live(s.tree[k])}

\* What every method of Store preserves: length counts the live keys, and the
\* clock is at least every stored version.
CountsLive(s) == s.length = Cardinality(LiveKeys(s))
Dominates(s) == \A k \in Key : s.tree[k] # Absent => s.tree[k].version <= s.clock
GoodStore(s) == s \in StoreState /\ CountsLive(s) /\ Dominates(s)

\* The entry SetFrom builds and returns, whether or not it is stored.
SetFromEntry(s, v, o) ==
  [version |-> s.clock + 1, origin |-> o, deleted |-> FALSE, value |-> v]

SetFrom(s, k, v, o) ==
  LET e == SetFromEntry(s, v, o)
      old == s.tree[k]
      stores == old = Absent \/ newer(e, old)
  IN  [tree   |-> IF stores THEN [s.tree EXCEPT ![k] = e] ELSE s.tree,
       clock  |-> s.clock + 1,
       length |-> IF stores /\ ~Live(old) THEN s.length + 1 ELSE s.length]

\* Slip: versions alone decide, and the later arrival wins a tie.
AcceptsByVersion(s, k, e) == s.tree[k] = Absent \/ e.version >= s.tree[k].version

\* The result SetWithVersion returns: does the entry beat the stored one?
Accepts(s, k, e) == s.tree[k] = Absent \/ newer(e, s.tree[k])

\* What replacing item old by e adds to length.
LengthChange(old, e) == IF ~e.deleted /\ ~Live(old) THEN 1
                        ELSE IF e.deleted /\ Live(old) THEN -1 ELSE 0

\* Slip: the clock does not follow the versions that peers send.
SetWithVersionKeepsClock(s, k, e) ==
  IF ~Accepts(s, k, e) THEN s
  ELSE [tree   |-> [s.tree EXCEPT ![k] = e],
        clock  |-> s.clock,
        length |-> s.length + LengthChange(s.tree[k], e)]

SetWithVersion(s, k, e) ==
  LET old == s.tree[k]
  IN  IF ~Accepts(s, k, e) THEN s
      ELSE [tree   |-> [s.tree EXCEPT ![k] = e],
            clock  |-> IF e.version > s.clock THEN e.version ELSE s.clock,
            length |-> s.length + LengthChange(old, e)]

\* The keys a DEL argument list names, and the place of a key among them when
\* repetitions are skipped: Del draws one version per distinct key, in order.
Named(ks) == {ks[i] : i \in 1..Len(ks)}
NamedUpTo(ks, k) ==
  {x \in Named(ks) : \E i \in 1..Len(ks) :
                        ks[i] = x /\ \A j \in 1..(i - 1) : ks[j] # k}

\* Slip: all tombstones of one call get the same version.
TombstoneSameVersion(s, o, ks, k) ==
  [version |-> s.clock + 1, origin |-> o, deleted |-> TRUE, value |-> EmptyString]

Tombstone(s, o, ks, k) ==
  [version |-> s.clock + Cardinality(NamedUpTo(ks, k)), origin |-> o,
   deleted |-> TRUE, value |-> EmptyString]

\* Slip: every named key is counted out of length, tombstones included.
DelCountsEveryKey(s, o, ks) ==
  [tree   |-> [k \in Key |-> IF k \in Named(ks) THEN Tombstone(s, o, ks, k)
                             ELSE s.tree[k]],
   clock  |-> s.clock + Cardinality(Named(ks)),
   length |-> s.length - Cardinality({k \in Named(ks) : s.tree[k] # Absent})]

\* Del writes a tombstone over every named key, present or not, without
\* comparing it with what it replaces.
Del(s, o, ks) ==
  [tree   |-> [k \in Key |-> IF k \in Named(ks) THEN Tombstone(s, o, ks, k)
                             ELSE s.tree[k]],
   clock  |-> s.clock + Cardinality(Named(ks)),
   length |-> s.length - Cardinality({k \in Named(ks) : Live(s.tree[k])})]
=============================================================================
