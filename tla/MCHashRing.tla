----------------------------- MODULE MCHashRing -----------------------------
(* Three nodes of up to two virtual nodes each, laid out in every order on a  *)
(* ring of six places, with keys on each place and past the last.  One of the *)
(* nodes has the empty ID.                                                    *)
EXTENDS HashRing, TLC

MCLabelHash == 0..5
MCKeyHash == 0..6
MCSlotHash == [slot \in 0..3 |-> <<5, 2, 6, 0>>[slot + 1]]
\* "h:7", and "8", which has no colon.
MCAddress == {[ok |-> TRUE, host |-> "h", port |-> 7], [ok |-> FALSE, host |-> "", port |-> 8]}
NodeSymmetry == Permutations(Node \ {NoID})
=============================================================================
