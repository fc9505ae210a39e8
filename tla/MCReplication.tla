---------------------------- MODULE MCReplication ----------------------------
(* Clusters of two and three nodes.  Node i is the one whose name has rank i. *)
EXTENDS ReplicationRefinement, TLC

MCKey == {"k"}
MCTwoKeys == {"j", "k"}
MCValue == {1}
MCTwo == {1, 2}
MCThree == {1, 2, 3}
MCRank == [k \in Key |-> [n \in Origin |-> n]]

Formed(ns) == [n \in ns |-> ns]
Separate(ns) == [n \in ns |-> {n}]

Allow(writes, churn, restarts, syncs, repeats) ==
  [writes |-> writes, churn |-> churn, restarts |-> restarts, syncs |-> syncs,
   repeats |-> repeats]
Setup(view, rf, w, busy, dels, allowed) ==
  [nodes |-> DOMAIN view, view |-> view, rf |-> rf, w |-> w, busy |-> busy,
   keys |-> UNION {Named(ks) : ks \in dels}, dels |-> dels, budget |-> allowed]

\* Two commands at once for a key while the rings change; a restart while two
\* keys are set and deleted, with a full-state exchange.
FaultSetups ==
  {Setup(Formed(MCThree), 2, 2, 2, {<<"k">>}, Allow(2, 3, 0, 0, 1)),
   Setup(Formed(MCTwo), 2, 2, 1, {<<"j", "k">>}, Allow(2, 1, 1, 1, 0))}
JoinSetups == {Setup(Separate(MCThree), 2, 2, 1, {<<"k">>}, Allow(1, 3, 0, 0, 0))}
\* One write, while the turns go round and a node still has to learn of another.
Late == [Formed(MCThree) EXCEPT ![1] = {1, 2}]
SyncSetups == {Setup(Late, 3, 1, 1, {<<"k">>}, Allow(1, 1, 0, 0 - 1, 0))}
\* Writes to one key on both sides of a partition; a write while a node is put on
\* the ring, found and lost; a DEL of two keys that may stop after the first.
HealSetups ==
  {Setup(Separate(MCTwo), 2, 2, 1, {<<"k">>}, Allow(2, 2, 0, 0 - 1, 0)),
   Setup(Separate(MCTwo), 2, 2, 1, {<<"k">>}, Allow(1, 4, 0, 0 - 1, 0)),
   Setup(Separate(MCTwo), 2, 2, 1, {<<"j", "k">>}, Allow(1, 2, 0, 0 - 1, 0))}
ConnSymmetry == Permutations(Conn)
=============================================================================
