------------------------------ MODULE MapSpec ------------------------------
(***************************************************************************)
(* What sync.Map promises: its operations on one key take effect at one    *)
(* moment between call and return, on a map that holds a value or nothing  *)
(* under the key.  A monitor of the calls and answers of one key keeps     *)
(* every order of effects that agrees with the answers so far, so that an  *)
(* answer nobody can account for leaves none.                              *)
(***************************************************************************)
EXTENDS SequencesExt, Integers

CONSTANTS
    Proc,       \* the goroutines
    Value,
    None        \* nothing: no value, no call, no answer

(* What a call answers: a value or nothing, and a flag. *)
Answers == [v : Value \union {None}, ok : BOOLEAN]

ASSUME MapSpecConstants == IsFiniteSet(Proc) /\ None \notin Value /\ None \notin Answers

(* A call of the map on key k; Range loads every key. *)
Call(name, k, v) == [name |-> name, k |-> k, v |-> v]

(* The value that a call leaves, and its answer. *)
After(c, cur) ==
    CASE c.name = "Load" -> cur
      [] c.name = "Store" -> c.v
      [] c.name = "LoadOrStore" -> IF cur = None THEN c.v ELSE cur
      [] c.name = "LoadAndDelete" -> None

Answer(c, cur) ==
    CASE c.name \in {"Load", "LoadAndDelete"} -> [v |-> cur, ok |-> cur # None]
      [] c.name = "Store" -> [v |-> c.v, ok |-> TRUE]
      [] c.name = "LoadOrStore" -> [v |-> IF cur = None THEN c.v ELSE cur, ok |-> cur # None]

(* The monitor of a key: the calls in progress, and what the map may hold  *)
(* together with the answers of the calls that have taken effect.          *)
NoCalls ==
    [calls |-> [p \in Proc |-> None],
     poss |-> {[cur |-> None, ans |-> [p \in Proc |-> None]]}]

(* The call of p takes effect. *)
Effect(calls, c, p) ==
    [cur |-> After(calls[p], c.cur), ans |-> [c.ans EXCEPT ![p] = Answer(calls[p], c.cur)]]

(* Any number of the calls in progress take effect, in any order. *)
Closure(calls, poss) ==
    LET more(C) == C \union UNION {{Effect(calls, c, p) : p \in {q \in Proc : calls[q] # None /\ c.ans[q] = None}}
                                   : c \in C}
        upTo[n \in 0..Cardinality(Proc)] == IF n = 0 THEN poss ELSE more(upTo[n - 1])
    IN  upTo[Cardinality(Proc)]

Called(h, p, c) ==
    LET calls == [h.calls EXCEPT ![p] = c]
    IN  [calls |-> calls, poss |-> Closure(calls, h.poss)]

Answered(h, p, a) ==
    [calls |-> [h.calls EXCEPT ![p] = None],
     poss |-> {[c EXCEPT !.ans[p] = None] : c \in {c \in h.poss : c.ans[p] = a}}]

(* A Range that stops early does not look at the key. *)
Withdrawn(h, p) ==
    [calls |-> [h.calls EXCEPT ![p] = None],
     poss |-> {[c EXCEPT !.ans[p] = None] : c \in h.poss}]

Explained(h) == h.poss # {}
=============================================================================
