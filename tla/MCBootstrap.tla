---------------------------- MODULE MCBootstrap ----------------------------
(* Three nodes: the first is started without --join, the others name each   *)
(* other and the first.                                                     *)
EXTENDS Bootstrap

MCSeeds == [n \in Node |-> IF n = 1 THEN {} ELSE Node \ {n}]
=============================================================================
