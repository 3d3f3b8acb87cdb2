----------------------------- MODULE MCContext -----------------------------
(***************************************************************************)
(* Context for TLC.                                                        *)
(***************************************************************************)
EXTENDS Context

Symmetry == Permutations(User) \union Permutations(timed) \union Permutations(Ctx \ timed)
=============================================================================
