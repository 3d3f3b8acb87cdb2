----------------------------- MODULE MCSyncMap -----------------------------
(***************************************************************************)
(* SyncMap for TLC: goroutines, keys and values are interchangeable, and   *)
(* the contents of an entry that nothing refers to do not matter.          *)
(***************************************************************************)
EXTENDS SyncMap

Symmetry == Permutations(Proc) \union Permutations(Key) \union Permutations(Value)

View == <<read, dirty, misses, mu, [e \in Entry |-> IF e \in Live THEN p_[e] ELSE nil],
          pc, call, e_, rest, m_, hist>>
=============================================================================
