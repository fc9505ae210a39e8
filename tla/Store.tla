-------------------------------- MODULE Store --------------------------------
(***************************************************************************)
(* One node's store (pkg/store/store.go) under every sequence of calls its *)
(* users make: client writes (SetFrom, Del), versioned entries arriving    *)
(* from peers or from a quorum write (SetWithVersion).                     *)
(***************************************************************************)
EXTENDS StoreOps

CONSTANTS Self,        \* the origin of this node's own writes
          Remote,      \* the entries peers may send
          DelArgs,     \* the argument lists of DEL
          MaxCalls     \* bound on the number of calls in a behaviour

VARIABLES st,       \* the Store value
          offered,  \* history: the entries each key was ever given
          calls     \* history: the calls made so far

vars == <<st, offered, calls>>

ASSUME SelfAssumption == Self \in Origin
ASSUME RemoteAssumption == Remote \subseteq Entry
ASSUME DelArgsAssumption == DelArgs \subseteq Seq(Key)

Init == st = New /\ offered = [k \in Key |-> {}] /\ calls = 0

Call == calls < MaxCalls /\ calls' = calls + 1

\* SetFrom(key, value, origin); Set is the same call with the origin "".
CallSetFrom(k, v, o) ==
  /\ Call
  /\ st' = SetFrom(st, k, v, o)
  /\ offered' = [offered EXCEPT ![k] = @ \cup {SetFromEntry(st, v, o)}]

CallSetWithVersion(k, e) ==
  /\ Call
  /\ st' = SetWithVersion(st, k, e)
  /\ offered' = [offered EXCEPT ![k] = @ \cup {e}]

CallDel(o, ks) ==
  /\ Call
  /\ st' = Del(st, o, ks)
  /\ offered' = [k \in Key |-> IF k \in Named(ks)
                               THEN offered[k] \cup {Tombstone(st, o, ks, k)}
                               ELSE offered[k]]

Next ==
  \/ \E k \in Key, v \in Value : CallSetFrom(k, v, Self)
  \/ \E k \in Key, e \in Remote : CallSetWithVersion(k, e)
  \/ \E ks \in DelArgs : CallDel(Self, ks)

Spec == Init /\ [][Next]_vars

-----------------------------------------------------------------------------
\* The shape of the store and of its history.
TypeOK ==
  /\ st \in StoreState
  /\ offered \in [Key -> SUBSET Entry]
  /\ calls \in Nat

\* Len() is right: the counter that SetFrom, SetWithVersion and Del each adjust
\* in their own way equals the number of keys that hold a live entry.
LengthCountsLive == CountsLive(st)

\* The local clock has caught up with every version in the tree, although
\* SetWithVersion raises it only when it accepts the entry.  This is what makes
\* the version drawn by the next SetFrom or Del larger than any stored one.
ClockDominates == Dominates(st)

\* Last writer wins: each key holds the newest, in the order of newer, of all
\* the entries it was ever given, in whatever order they came and whether they
\* came through SetFrom, SetWithVersion or the unconditional replace in Del.
HoldsNewestOffered ==
  \A k \in Key :
    /\ st.tree[k] = Absent <=> offered[k] = {}
    /\ st.tree[k] # Absent => IsNewest(st.tree[k], offered[k])

\* No call takes a key back to an older entry, or forgets it: a deleted key
\* keeps its tombstone until something newer arrives.
NeverRegresses ==
  [][\A k \in Key :
       \/ st'.tree[k] = st.tree[k]
       \/ st.tree[k] = Absent
       \/ st'.tree[k] # Absent /\ newer(st'.tree[k], st.tree[k])]_vars
=============================================================================
