------------------------------ MODULE MCMerkle ------------------------------
(* Two stores with two keys whose hashes take every value of three bits.     *)
EXTENDS Merkle

MCKey == {"a", "b"}
MCValue == {1}
MCOrigin == {1, 2}
SomeLeaves == {0, 1, 2, 3, 4, 5}
=============================================================================
