---------------------------- MODULE MCPoolQueue ----------------------------
(***************************************************************************)
(* PoolQueue for TLC: the consumers and the items are interchangeable.     *)
(***************************************************************************)
EXTENDS PoolQueue

Symmetry == Permutations(Consumer) \union Permutations(Item)
=============================================================================
