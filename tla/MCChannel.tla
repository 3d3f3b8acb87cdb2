----------------------------- MODULE MCChannel -----------------------------
(***************************************************************************)
(* Channel for TLC: an unbuffered and a buffered channel; the goroutines   *)
(* are interchangeable.                                                    *)
(***************************************************************************)
EXTENDS Channel

CONSTANTS unbuffered, buffered, size

Sizes == [c \in Chan |-> IF c = buffered THEN size ELSE 0]
Symmetry == Permutations(G)
=============================================================================
