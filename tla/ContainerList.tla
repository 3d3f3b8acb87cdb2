--------------------------- MODULE ContainerList ---------------------------
(***************************************************************************)
(* Package container/list: the pointer structure of list.go.               *)
(*                                                                         *)
(* A list header and its sentinel element share an identity: &l.root is    *)
(* the node l.  heap holds the fields of every Element and the length of   *)
(* every List.  es is the ghost field of the same name in list.go's proof  *)
(* annotations: it follows what each operation's doc comment promises and  *)
(* no guard or heap update reads it.                                       *)
(*                                                                         *)
(* The package is not safe for concurrent use, so a call is one step.      *)
(* PushBackList and PushFrontList are loops that call back into the list   *)
(* they read; each iteration is a step, and no other call starts before    *)
(* the loop ends.                                                          *)
(***************************************************************************)
EXTENDS SequencesExt

CONSTANTS
    Lists,          \* the list headers
    Elems,          \* the heap cells an Element may occupy (bounds the model)
    Values,         \* what the Value field may hold
    Nil,            \* the nil pointer
    ReuseCleared    \* may clients pass elements that an Init() cut off?

ASSUME ListConstants ==
    /\ Lists \intersect Elems = {}
    /\ Nil \notin Lists \union Elems
    /\ ReuseCleared \in BOOLEAN

VARIABLES
    heap,       \* the fields next, prev, list, Value and length
    used,       \* the elements allocated so far
    cleared,    \* elements that were in a list when its Init() was called
    copy,       \* the loop variables of a PushBackList or PushFrontList
    es          \* es[l]: what l should hold, in order

vars == <<heap, used, cleared, copy, es>>

Node == Lists \union Elems

(* No PushBackList or PushFrontList in progress: its counter i is 0. *)
NoCopy == [l |-> Nil, other |-> Nil, i |-> 0, e |-> Nil, atBack |-> FALSE, n0 |-> 0]

Init ==
    /\ heap = [next   |-> [n \in Node |-> Nil],
               prev   |-> [n \in Node |-> Nil],
               list   |-> [e \in Elems |-> Nil],
               Value  |-> [e \in Elems |-> Nil],
               length |-> [l \in Lists |-> 0]]
    /\ used = {}
    /\ cleared = {}
    /\ copy = NoCopy
    /\ es = [l \in Lists |-> <<>>]

-----------------------------------------------------------------------------
(* The private helpers of list.go, as functions of the heap. *)

(* Puts e between at and at.next. *)
Splice(h, e, at) ==
    [h EXCEPT !.next[e] = h.next[at], !.next[at] = e,
              !.prev[e] = at, !.prev[h.next[at]] = e]

(* Joins the two neighbours of e. *)
Unlink(h, e) ==
    [h EXCEPT !.next[h.prev[e]] = h.next[e], !.prev[h.next[e]] = h.prev[e]]

InitList(h, l) == [h EXCEPT !.next[l] = l, !.prev[l] = l, !.length[l] = 0]

(* Mutant: the zero List is not initialised on first use. *)
lazyInitSkipped(h, l) == h

lazyInit(h, l) == IF h.next[l] = Nil THEN InitList(h, l) ELSE h

(* insertValue allocates the element that insert links in. *)
insert(h, l, e, v, at) ==
    [Splice(h, e, at) EXCEPT !.list[e] = l, !.Value[e] = v, !.length[l] = @ + 1]

(* Mutant: without the "avoid memory leaks" assignments. *)
removeLeaky(h, l, e) ==
    [Unlink(h, e) EXCEPT !.list[e] = Nil, !.length[l] = @ - 1]

remove(h, l, e) ==
    [Unlink(h, e) EXCEPT !.next[e] = Nil, !.prev[e] = Nil, !.list[e] = Nil,
                         !.length[l] = @ - 1]

(* Mutant: without the test for e == at. *)
moveUnguarded(h, e, at) == Splice(Unlink(h, e), e, at)

move(h, e, at) == IF e = at THEN h ELSE Splice(Unlink(h, e), e, at)

(* Mutant: Next does not stop at the sentinel. *)
ElemNextPastEnd(h, e) == IF h.list[e] # Nil THEN h.next[e] ELSE Nil

(* The read-only methods Next, Prev, Front and Back. *)
ElemNext(h, e) ==
    IF h.list[e] # Nil /\ h.next[e] # h.list[e] THEN h.next[e] ELSE Nil

ElemPrev(h, e) ==
    IF h.list[e] # Nil /\ h.prev[e] # h.list[e] THEN h.prev[e] ELSE Nil

ListFront(h, l) == IF h.length[l] = 0 THEN Nil ELSE h.next[l]

ListBack(h, l) == IF h.length[l] = 0 THEN Nil ELSE h.prev[l]

-----------------------------------------------------------------------------
(* What the doc comments promise of the sequence of elements. *)

Index(s, e) == CHOOSE i \in DOMAIN s : s[i] = e

InsertedBefore(s, e, mark) ==
    IF mark \in Range(s) THEN InsertAt(s, Index(s, mark), e) ELSE s

InsertedAfter(s, e, mark) ==
    IF mark \in Range(s) THEN InsertAt(s, Index(s, mark) + 1, e) ELSE s

Removed(s, e) == IF e \in Range(s) THEN RemoveAt(s, Index(s, e)) ELSE s

(* The element e leaves its place and goes to place i of what remains. *)
Moved(s, e, i) == InsertAt(Removed(s, e), i, e)

MovedToFront(s, e) == IF e \in Range(s) THEN Moved(s, e, 1) ELSE s

MovedToBack(s, e) == IF e \in Range(s) THEN Moved(s, e, Len(s)) ELSE s

MovedBefore(s, e, mark) ==
    IF {e, mark} \subseteq Range(s)
    THEN Moved(s, e, Index(Removed(s, e), mark)) ELSE s

MovedAfter(s, e, mark) ==
    IF {e, mark} \subseteq Range(s)
    THEN Moved(s, e, Index(Removed(s, e), mark) + 1) ELSE s

-----------------------------------------------------------------------------
(* The calls a client makes.  An action is the path that changes the list;  *)
(* its guards are the code's conditions for taking it.  A call that returns *)
(* early changes nothing: it is a stuttering step of the specification.     *)
(* An element that Remove took out has the fields of a new(Element), so it  *)
(* stands for the zero Elements a client may pass as well.                  *)

Idle == copy.i = 0

(* The elements a client may pass: it has a pointer to every one allocated. *)
(* The Gobra contracts take away its right to use the ones Init cut off.    *)
Known == IF ReuseCleared THEN used ELSE used \ cleared

(* (l *List) Init, and New for a List that is still the zero value. *)
ClearList(l) ==
    /\ Idle
    /\ heap' = InitList(heap, l)
    /\ cleared' = cleared \union Range(es[l])
    /\ es' = [es EXCEPT ![l] = <<>>]
    /\ UNCHANGED <<used, copy>>

PushFront(l, e, v) ==
    /\ Idle
    /\ e \notin used
    /\ heap' = insert(lazyInit(heap, l), l, e, v, l)
    /\ used' = used \union {e}
    /\ es' = [es EXCEPT ![l] = InsertAt(@, 1, e)]
    /\ UNCHANGED <<cleared, copy>>

PushBack(l, e, v) ==
    /\ Idle
    /\ e \notin used
    /\ LET h == lazyInit(heap, l) IN heap' = insert(h, l, e, v, h.prev[l])
    /\ used' = used \union {e}
    /\ es' = [es EXCEPT ![l] = InsertAt(@, Len(@) + 1, e)]
    /\ UNCHANGED <<cleared, copy>>

InsertBefore(l, e, v, mark) ==
    /\ Idle
    /\ mark \in Known
    /\ heap.list[mark] = l
    /\ e \notin used
    /\ heap' = insert(heap, l, e, v, heap.prev[mark])
    /\ used' = used \union {e}
    /\ es' = [es EXCEPT ![l] = InsertedBefore(@, e, mark)]
    /\ UNCHANGED <<cleared, copy>>

InsertAfter(l, e, v, mark) ==
    /\ Idle
    /\ mark \in Known
    /\ heap.list[mark] = l
    /\ e \notin used
    /\ heap' = insert(heap, l, e, v, mark)
    /\ used' = used \union {e}
    /\ es' = [es EXCEPT ![l] = InsertedAfter(@, e, mark)]
    /\ UNCHANGED <<cleared, copy>>

Remove_(l, e) ==
    /\ Idle
    /\ e \in Known
    /\ heap.list[e] = l
    /\ heap' = remove(heap, l, e)
    /\ es' = [es EXCEPT ![l] = Removed(@, e)]
    /\ UNCHANGED <<used, cleared, copy>>

MoveToFront(l, e) ==
    /\ Idle
    /\ e \in Known
    /\ heap.list[e] = l
    /\ heap.next[l] # e
    /\ heap' = move(heap, e, l)
    /\ es' = [es EXCEPT ![l] = MovedToFront(@, e)]
    /\ UNCHANGED <<used, cleared, copy>>

MoveToBack(l, e) ==
    /\ Idle
    /\ e \in Known
    /\ heap.list[e] = l
    /\ heap.prev[l] # e
    /\ heap' = move(heap, e, heap.prev[l])
    /\ es' = [es EXCEPT ![l] = MovedToBack(@, e)]
    /\ UNCHANGED <<used, cleared, copy>>

MoveBefore(l, e, mark) ==
    /\ Idle
    /\ {e, mark} \subseteq Known
    /\ heap.list[e] = l /\ heap.list[mark] = l /\ e # mark
    /\ heap' = move(heap, e, heap.prev[mark])
    /\ es' = [es EXCEPT ![l] = MovedBefore(@, e, mark)]
    /\ UNCHANGED <<used, cleared, copy>>

MoveAfter(l, e, mark) ==
    /\ Idle
    /\ {e, mark} \subseteq Known
    /\ heap.list[e] = l /\ heap.list[mark] = l /\ e # mark
    /\ heap' = move(heap, e, mark)
    /\ es' = [es EXCEPT ![l] = MovedAfter(@, e, mark)]
    /\ UNCHANGED <<used, cleared, copy>>

(* Mutant: the loop of PushBackList starts at the back. *)
CopyBeginAtBack(l, other, atBack) ==
    LET h == lazyInit(heap, l)
    IN  /\ Idle
        /\ h.length[other] <= Cardinality(Elems \ used)
        /\ heap' = h
        /\ copy' = IF h.length[other] > 0
                   THEN [l |-> l, other |-> other, i |-> h.length[other],
                         e |-> ListBack(h, other), atBack |-> atBack, n0 |-> Len(es[l])]
                   ELSE NoCopy
        /\ UNCHANGED <<used, cleared, es>>

(* PushBackList(other) and PushFrontList(other), up to the loop's first    *)
(* test.  The heap must have room for the copies: a bound of the model.    *)
CopyBegin(l, other, atBack) ==
    LET h == lazyInit(heap, l)
    IN  /\ Idle
        /\ h.length[other] <= Cardinality(Elems \ used)
        /\ heap' = h
        /\ copy' = IF h.length[other] > 0
                   THEN [l |-> l, other |-> other, i |-> h.length[other],
                         e |-> IF atBack THEN ListFront(h, other) ELSE ListBack(h, other),
                         atBack |-> atBack, n0 |-> Len(es[l])]
                   ELSE NoCopy
        /\ UNCHANGED <<used, cleared, es>>

(* Mutant: the loop test lets one more iteration start. *)
CopyStepTooFar(e) ==
    LET l == copy.l
        h == insert(heap, l, e, heap.Value[copy.e],
                    IF copy.atBack THEN heap.prev[l] ELSE l)
    IN  /\ ~Idle
        /\ e \notin used
        /\ heap' = h
        /\ used' = used \union {e}
        /\ es' = [es EXCEPT ![l] = InsertAt(@, IF copy.atBack THEN Len(@) + 1 ELSE 1, e)]
        /\ copy' = [copy EXCEPT !.i = @ - 1,
                                !.e = IF copy.atBack THEN ElemNext(h, copy.e)
                                                     ELSE ElemPrev(h, copy.e)]
        /\ UNCHANGED cleared

(* One iteration: insertValue, then e.Next() or e.Prev() in the changed list. *)
CopyStep(e) ==
    LET l == copy.l
        h == insert(heap, l, e, heap.Value[copy.e],
                    IF copy.atBack THEN heap.prev[l] ELSE l)
    IN  /\ ~Idle
        /\ e \notin used
        /\ heap' = h
        /\ used' = used \union {e}
        /\ es' = [es EXCEPT ![l] = InsertAt(@, IF copy.atBack THEN Len(@) + 1 ELSE 1, e)]
        /\ copy' = IF copy.i > 1
                   THEN [copy EXCEPT !.i = @ - 1,
                                     !.e = IF copy.atBack THEN ElemNext(h, copy.e)
                                                          ELSE ElemPrev(h, copy.e)]
                   ELSE NoCopy
        /\ UNCHANGED cleared

Next ==
    \/ \E l \in Lists : ClearList(l)
    \/ \E l \in Lists, e \in Elems, v \in Values : PushFront(l, e, v)
    \/ \E l \in Lists, e \in Elems, v \in Values : PushBack(l, e, v)
    \/ \E l \in Lists, e, mark \in Elems, v \in Values : InsertBefore(l, e, v, mark)
    \/ \E l \in Lists, e, mark \in Elems, v \in Values : InsertAfter(l, e, v, mark)
    \/ \E l \in Lists, e \in Elems : Remove_(l, e)
    \/ \E l \in Lists, e \in Elems : MoveToFront(l, e)
    \/ \E l \in Lists, e \in Elems : MoveToBack(l, e)
    \/ \E l \in Lists, e, mark \in Elems : MoveBefore(l, e, mark)
    \/ \E l \in Lists, e, mark \in Elems : MoveAfter(l, e, mark)
    \/ \E l, other \in Lists, atBack \in BOOLEAN : CopyBegin(l, other, atBack)
    \/ \E e \in Elems : CopyStep(e)

Spec == Init /\ [][Next]_vars

-----------------------------------------------------------------------------
Heap ==
    [next : [Node -> Node \union {Nil}], prev : [Node -> Node \union {Nil}],
     list : [Elems -> Lists \union {Nil}], Value : [Elems -> Values \union {Nil}],
     length : [Lists -> Nat]]

TypeOK ==
    /\ heap \in Heap
    /\ used \in SUBSET Elems
    /\ cleared \in SUBSET used
    /\ es \in [Lists -> Seq(used)]
    /\ \/ copy = NoCopy
       \/ copy \in [l : Lists, other : Lists, i : Nat \ {0}, e : used,
                    atBack : BOOLEAN, n0 : Nat]

(* The i-th node of the ring of list l holding s; both ends are the sentinel. *)
Nth(l, s, i) == IF i \in 1..Len(s) THEN s[i] ELSE l

(* The doubly linked ring through the sentinel l visits exactly s, in order, *)
(* in both directions.                                                       *)
Ring(h, l, s) ==
    \A i \in 0..Len(s) :
        /\ h.next[Nth(l, s, i)] = Nth(l, s, i + 1)
        /\ h.prev[Nth(l, s, i + 1)] = Nth(l, s, i)

(* list.go's pointer surgery (insert, remove, move) does to the ring exactly  *)
(* what the doc comments say it does to the list: after any sequence of calls *)
(* on several lists, each ring links the promised elements in the promised    *)
(* order, length counts them, an element points to the list it is in, and a   *)
(* zero List is empty.                                                        *)
Mem ==
    \A l \in Lists :
        /\ heap.length[l] = Len(es[l])
        /\ IsInjective(es[l])
        /\ \A e \in Elems : e \in Range(es[l]) <=> heap.list[e] = l /\ e \notin cleared
        /\ \/ heap.next[l] # Nil /\ Ring(heap, l, es[l])
           \/ heap.next[l] = Nil /\ heap.prev[l] = Nil /\ es[l] = <<>>

(* The loops of PushBackList and PushFrontList never run off the list they     *)
(* read, even when it is the list they extend: with i iterations to go, e is   *)
(* the element whose turn it is among the m elements other held at the call.   *)
CopyLoop ==
    ~Idle =>
        LET l == copy.l
            other == copy.other
            m == IF other = l THEN copy.n0 ELSE Len(es[other])
        IN  /\ copy.i <= m
            /\ Len(es[l]) = copy.n0 + (m - copy.i)
            /\ heap.next[l] # Nil
            /\ copy.e = es[other][IF copy.atBack THEN m - copy.i + 1
                                 ELSE IF other = l THEN m ELSE copy.i]

(* An element that Remove took out keeps no pointer into the list it left     *)
(* (the "avoid memory leaks" assignments), so Next and Prev on it return nil. *)
Detached ==
    \A e \in used : heap.list[e] = Nil => heap.next[e] = Nil /\ heap.prev[e] = Nil

-----------------------------------------------------------------------------
(* What a client sees that follows the pointers. *)

(* The node reached from n by following step i times. *)
Walk(step, n, i) ==
    LET at[k \in 0..i] ==
            IF k = 0 THEN n
            ELSE IF at[k - 1] = Nil THEN Nil ELSE step[at[k - 1]]
    IN  at[i]

(* What the pointers say l holds: Len() steps along next. *)
Contents(l) == [i \in 1..heap.length[l] |-> Walk(heap.next, l, i)]

(* While a copy loop runs, its new elements are not yet in the abstract    *)
(* list: the loop's effect appears at once, with its last iteration.       *)
Committed(l) ==
    IF Idle \/ copy.l # l THEN Contents(l)
    ELSE IF copy.atBack THEN SubSeq(Contents(l), 1, copy.n0)
    ELSE SubSeq(Contents(l), Len(Contents(l)) - copy.n0 + 1, Len(Contents(l)))

Pending ==
    IF Idle THEN {} ELSE Range(Contents(copy.l)) \ Range(Committed(copy.l))

(* A walk over a damaged ring may meet a list header, which has no value. *)
ValueOf(n) == IF n \in Elems THEN heap.Value[n] ELSE Nil

(* The abstract state that the heap stands for. *)
AbsEs == [l \in Lists |-> Committed(l)]

AbsVs == [l \in Lists |-> [i \in 1..Len(Committed(l)) |-> ValueOf(Committed(l)[i])]]

AbsUsed == used \ Pending

Abs == INSTANCE ListSpec WITH es <- AbsEs, vs <- AbsVs, used <- AbsUsed

(* The linked lists of list.go implement sequences: seen through a walk    *)
(* along next that never looks at es, every call is the documented change  *)
(* of the sequences, and PushBackList/PushFrontList add exactly a copy of  *)
(* what other held when the call began, also when other is the list itself *)
(* and grows while it is read.                                             *)
RefinesListSpec == Abs!Spec

(* The loop "for e := l.Front(); e != nil; e = e.Next()" of the package    *)
(* documentation visits the elements in order and ends after Len() of      *)
(* them, and the loop from Back() with Prev() visits them in reverse.      *)
Traversal ==
    LET fwd == [e \in Elems |-> ElemNext(heap, e)]
        bwd == [e \in Elems |-> ElemPrev(heap, e)]
    IN  \A l \in Lists :
            LET n == Len(es[l]) IN
            /\ \A i \in 0..n :
                 Walk(fwd, ListFront(heap, l), i) = (IF i < n THEN es[l][i + 1] ELSE Nil)
            /\ \A i \in 0..n :
                 Walk(bwd, ListBack(heap, l), i) = (IF i < n THEN es[l][n - i] ELSE Nil)

(* "If mark is not an element of l, the list is not modified" and the like: *)
(* a call that by its documentation leaves l's elements alone leaves Len()  *)
(* alone.                                                                   *)
UnknownElementLeavesList ==
    [][\A l \in Lists : es'[l] = es[l] => heap'.length[l] = heap.length[l]]_vars
=============================================================================
