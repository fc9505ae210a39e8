----------------------- MODULE ReplicationRefinement ------------------------
(***************************************************************************)
(* What a client may observe of a cluster, as ReplicatedMap describes it:  *)
(* the entries on the nodes, the lives of the nodes, and the writes that   *)
(* were reported as successful with the nodes they were counted on.        *)
(***************************************************************************)
EXTENDS Replication

\* The cluster implements ReplicatedMap: behind the messages, retries, late
\* answers and ring changes each step of SET, DEL, the replication handlers and
\* anti-entropy is a client's write, the arrival at one node of an entry that a
\* client wrote and that beats the node's own, a restart, or the confirmation of
\* a write that W nodes have -- or changes nothing a client could see.
RM == INSTANCE ReplicatedMap
      WITH quorum <- W, replica <- [n \in Node |-> store[n].tree], life <- inc,
           confirmed <- {[item |-> a.item, holders |-> a.holders] : a \in acked}
ImplementsReplicatedMap == RM!Spec
=============================================================================
