------------------------------ MODULE ListSpec ------------------------------
(***************************************************************************)
(* What package container/list promises, with no pointers: a list is the   *)
(* sequence es[l] of the elements it holds and the sequence vs[l] of their *)
(* values (the Es() and Vs() of the package's Gobra contracts).  An        *)
(* element enters a list once in its life: every insertion allocates a     *)
(* new Element, so used only grows.                                        *)
(***************************************************************************)
EXTENDS SequencesExt

CONSTANTS
    Lists,      \* the list headers
    Elems,      \* the heap cells an Element may occupy
    Values      \* the values an Element may carry

VARIABLES
    es,         \* es[l]: the elements of l in list order
    vs,         \* vs[l]: their values
    used        \* the elements allocated so far

absVars == <<es, vs, used>>

Init ==
    /\ es = [l \in Lists |-> <<>>]
    /\ vs = [l \in Lists |-> <<>>]
    /\ used = {}

(* Init of a list that may hold elements: it ends up empty. *)
Clear(l) ==
    /\ es' = [es EXCEPT ![l] = <<>>]
    /\ vs' = [vs EXCEPT ![l] = <<>>]
    /\ UNCHANGED used

(* PushFront, PushBack, InsertBefore and InsertAfter: a new element enters *)
(* at position i.                                                          *)
Insert(l, i, e, v) ==
    /\ i \in 1..Len(es[l]) + 1
    /\ e \in Elems \ used
    /\ es' = [es EXCEPT ![l] = InsertAt(@, i, e)]
    /\ vs' = [vs EXCEPT ![l] = InsertAt(@, i, v)]
    /\ used' = used \union {e}

(* Remove of the element at position i. *)
Delete(l, i) ==
    /\ i \in 1..Len(es[l])
    /\ es' = [es EXCEPT ![l] = RemoveAt(@, i)]
    /\ vs' = [vs EXCEPT ![l] = RemoveAt(@, i)]
    /\ UNCHANGED used

(* The four Move operations: the element at i leaves its place and is put  *)
(* back at position j of what remains.                                     *)
Relocate(l, i, j) ==
    /\ i \in 1..Len(es[l])
    /\ j \in 1..Len(es[l])
    /\ es' = [es EXCEPT ![l] = InsertAt(RemoveAt(@, i), j, es[l][i])]
    /\ vs' = [vs EXCEPT ![l] = InsertAt(RemoveAt(@, i), j, vs[l][i])]
    /\ UNCHANGED used

(* PushBackList and PushFrontList: in one step l gains a copy of everything *)
(* other held when the call began, in other's order and in new elements;    *)
(* other may be l itself.                                                   *)
Concat(l, other, atBack) ==
    \E new \in Injection(1..Len(es[other]), Elems \ used) :
        /\ es' = [es EXCEPT ![l] = IF atBack THEN @ \o new ELSE new \o @]
        /\ vs' = [vs EXCEPT ![l] = IF atBack THEN @ \o vs[other] ELSE vs[other] \o @]
        /\ used' = used \union Range(new)

Next ==
    \/ \E l \in Lists : Clear(l)
    \/ \E l \in Lists, e \in Elems, v \in Values :
            \E i \in 1..Len(es[l]) + 1 : Insert(l, i, e, v)
    \/ \E l \in Lists : \E i \in 1..Len(es[l]) : Delete(l, i)
    \/ \E l \in Lists : \E i, j \in 1..Len(es[l]) : Relocate(l, i, j)
    \/ \E l, other \in Lists, atBack \in BOOLEAN : Concat(l, other, atBack)

Spec == Init /\ [][Next]_absVars
=============================================================================
