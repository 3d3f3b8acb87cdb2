------------------------- MODULE ListAndPoolProofs -------------------------
(***************************************************************************)
(* Proofs about ContainerList and, in the second half, about PoolQueue:    *)
(* nodes that link each other, and rings of slots that link each other.    *)
(***************************************************************************)
EXTENDS ContainerList, PoolQueue, SequenceTheorems, FiniteSetTheorems,
        WellFoundedInduction, TLAPS

(* What inserting into and removing from a sequence does at each index. *)
LEMMA InsertAtFacts ==
    ASSUME NEW S, NEW s \in Seq(S), NEW x \in S, NEW i \in 1..Len(s) + 1
    PROVE  /\ InsertAt(s, i, x) \in Seq(S)
           /\ Len(InsertAt(s, i, x)) = Len(s) + 1
           /\ \A k \in 1..Len(s) + 1 :
                InsertAt(s, i, x)[k] =
                    IF k < i THEN s[k] ELSE IF k = i THEN x ELSE s[k - 1]
<1>0. Len(s) \in Nat /\ i \in Nat
  OBVIOUS
<1> DEFINE a == SubSeq(s, 1, i - 1)
           b == SubSeq(s, i, Len(s))
<1>1. /\ a \in Seq(S) /\ Len(a) = i - 1
      /\ \A k \in 1..i - 1 : a[k] = s[k]
  BY SMT
<1>2. /\ b \in Seq(S) /\ Len(b) = Len(s) - i + 1
      /\ \A k \in 1..Len(s) - i + 1 : b[k] = s[i + k - 1]
  BY SMT
<1> HIDE DEF a, b
<1>3. InsertAt(s, i, x) = a \o <<x>> \o b
  BY DEF InsertAt, a, b
<1>4. /\ a \o <<x>> \in Seq(S) /\ Len(a \o <<x>>) = i
      /\ \A k \in 1..i : (a \o <<x>>)[k] = IF k < i THEN s[k] ELSE x
  BY <1>1
<1> DEFINE c == a \o <<x>>
<1>5. /\ c \in Seq(S) /\ Len(c) = i
      /\ \A k \in 1..i : c[k] = IF k < i THEN s[k] ELSE x
  BY <1>4
<1>6. InsertAt(s, i, x) = c \o b
  BY <1>3
<1> HIDE DEF c
<1>7. c \o b \in Seq(S) /\ Len(c \o b) = Len(s) + 1
  <2>1. c \o b \in Seq(S) /\ Len(c \o b) = Len(c) + Len(b)
    BY <1>2, <1>5, ConcatProperties
  <2> QED
    BY <2>1, <1>0, <1>2, <1>5
<1>8. ASSUME NEW k \in 1..Len(s) + 1
      PROVE  (c \o b)[k] = IF k < i THEN s[k] ELSE IF k = i THEN x ELSE s[k - 1]
  <2>1. CASE k <= i
    BY <2>1, <1>2, <1>5
  <2>2. CASE k > i
    <3>1. (c \o b)[k] = b[k - i]
      BY <2>2, <1>2, <1>5
    <3>2. k - i \in 1..Len(s) - i + 1 /\ i + (k - i) - 1 = k - 1
      BY <2>2
    <3> QED
      BY <3>1, <3>2, <1>2, <2>2
  <2>3. k <= i \/ k > i
    BY <1>0
  <2> QED
    BY <2>1, <2>2, <2>3, Zenon
<1> QED
  BY <1>6, <1>7, <1>8

(* The inserted element is where InsertAt put it. *)
LEMMA InsertAtIndex ==
    ASSUME NEW S, NEW s \in Seq(S), NEW x \in S, NEW i \in 1..Len(s) + 1,
           NEW k \in 1..Len(s) + 1
    PROVE  InsertAt(s, i, x)[k] = IF k < i THEN s[k] ELSE IF k = i THEN x ELSE s[k - 1]
  BY InsertAtFacts

(* Removing the element at i shortens a sequence by one and moves the *)
(* later ones down.                                                   *)
LEMMA RemoveAtFacts ==
    ASSUME NEW S, NEW s \in Seq(S), NEW i \in 1..Len(s)
    PROVE  /\ RemoveAt(s, i) \in Seq(S)
           /\ Len(RemoveAt(s, i)) = Len(s) - 1
           /\ \A k \in 1..Len(s) - 1 :
                RemoveAt(s, i)[k] = IF k < i THEN s[k] ELSE s[k + 1]
<1>0. Len(s) \in Nat /\ i \in Nat
  OBVIOUS
<1> DEFINE a == SubSeq(s, 1, i - 1)
           b == SubSeq(s, i + 1, Len(s))
<1>1. /\ a \in Seq(S) /\ Len(a) = i - 1
      /\ \A k \in 1..i - 1 : a[k] = s[k]
  BY SMT
<1>2. /\ b \in Seq(S) /\ Len(b) = Len(s) - i
      /\ \A k \in 1..Len(s) - i : b[k] = s[i + k]
  BY SMT
<1> HIDE DEF a, b
<1>3. RemoveAt(s, i) = a \o b
  BY DEF RemoveAt, a, b
<1>4. a \o b \in Seq(S) /\ Len(a \o b) = Len(s) - 1
  <2>1. a \o b \in Seq(S) /\ Len(a \o b) = Len(a) + Len(b)
    BY <1>1, <1>2, ConcatProperties
  <2> QED
    BY <2>1, <1>0, <1>1, <1>2
<1>5. ASSUME NEW k \in 1..Len(s) - 1
      PROVE  (a \o b)[k] = IF k < i THEN s[k] ELSE s[k + 1]
  <2>1. CASE k < i
    BY <2>1, <1>1, <1>2
  <2>2. CASE k >= i
    <3>1. (a \o b)[k] = b[k - (i - 1)]
      BY <2>2, <1>1, <1>2
    <3>2. k - (i - 1) \in 1..Len(s) - i /\ i + (k - (i - 1)) = k + 1
      BY <2>2
    <3> QED
      BY <3>1, <3>2, <1>2, <2>2
  <2>3. k < i \/ k >= i
    BY <1>0
  <2> QED
    BY <2>1, <2>2, <2>3, Zenon
<1> QED
  BY <1>3, <1>4, <1>5

(* Inserting a new element and removing one keep a sequence free of        *)
(* repetitions and change its range as expected.                           *)
LEMMA InsertAtRange ==
    ASSUME NEW S, NEW s \in Seq(S), NEW x \in S, NEW i \in 1..Len(s) + 1
    PROVE  /\ Range(InsertAt(s, i, x)) = Range(s) \union {x}
           /\ IsInjective(s) /\ x \notin Range(s) => IsInjective(InsertAt(s, i, x))
<1> DEFINE t == InsertAt(s, i, x)
<1>0. Len(s) \in Nat /\ i \in Nat /\ DOMAIN s = 1..Len(s)
  OBVIOUS
<1>1. /\ t \in Seq(S) /\ DOMAIN t = 1..Len(s) + 1
      /\ \A k \in 1..Len(s) + 1 : t[k] = IF k < i THEN s[k] ELSE IF k = i THEN x ELSE s[k - 1]
  <2>1. t \in Seq(S) /\ Len(t) = Len(s) + 1
    BY InsertAtFacts
  <2>2. \A k \in 1..Len(s) + 1 : t[k] = IF k < i THEN s[k] ELSE IF k = i THEN x ELSE s[k - 1]
    BY InsertAtFacts
  <2> HIDE DEF t
  <2> QED
    BY <2>1, <2>2
<1> HIDE DEF t
<1>2. ASSUME NEW k \in 1..Len(s) + 1 PROVE t[k] \in Range(s) \union {x}
  BY <1>0, <1>1 DEF Range
<1>3. ASSUME NEW k \in 1..Len(s) PROVE s[k] \in Range(t)
  <2>1. CASE k < i
    BY <1>0, <1>1, <2>1 DEF Range
  <2>2. CASE k >= i
    <3>1. k + 1 \in 1..Len(s) + 1 /\ k + 1 # i /\ ~(k + 1 < i) /\ (k + 1) - 1 = k
      BY <1>0, <2>2
    <3> QED
      BY <1>1, <3>1 DEF Range
  <2> QED
    BY <1>0, <2>1, <2>2
<1>4. x \in Range(t)
  BY <1>0, <1>1 DEF Range
<1>5. Range(t) = Range(s) \union {x}
  BY <1>0, <1>1, <1>2, <1>3, <1>4 DEF Range
<1>6. ASSUME IsInjective(s), x \notin Range(s),
             NEW j \in 1..Len(s) + 1, NEW k \in 1..Len(s) + 1, t[j] = t[k]
      PROVE  j = k
  <2>1. /\ \A m \in 1..Len(s) : s[m] # x
        /\ \A m, n \in 1..Len(s) : s[m] = s[n] => m = n
    BY <1>0, <1>6 DEF Range, IsInjective
  <2> QED
    BY <1>0, <1>1, <1>6, <2>1
<1> QED
  BY <1>1, <1>5, <1>6 DEF IsInjective, t

(* Removing from a duplicate-free sequence removes exactly that element *)
(* from its range.                                                      *)
LEMMA RemoveAtRange ==
    ASSUME NEW S, NEW s \in Seq(S), NEW i \in 1..Len(s), IsInjective(s)
    PROVE  /\ Range(RemoveAt(s, i)) = Range(s) \ {s[i]}
           /\ IsInjective(RemoveAt(s, i))
<1> DEFINE t == RemoveAt(s, i)
<1>0. Len(s) \in Nat /\ i \in Nat /\ DOMAIN s = 1..Len(s)
  OBVIOUS
<1>1. /\ t \in Seq(S) /\ DOMAIN t = 1..Len(s) - 1
      /\ \A k \in 1..Len(s) - 1 : t[k] = IF k < i THEN s[k] ELSE s[k + 1]
  BY RemoveAtFacts
<1> HIDE DEF t
<1>2. \A m, n \in 1..Len(s) : s[m] = s[n] => m = n
  BY <1>0 DEF IsInjective
<1>3. ASSUME NEW k \in 1..Len(s) - 1 PROVE t[k] \in Range(s) \ {s[i]}
  <2>1. PICK m \in 1..Len(s) : t[k] = s[m] /\ m # i
    <3>1. CASE k < i
      BY <1>0, <1>1, <3>1
    <3>2. CASE k >= i
      <4>1. t[k] = s[k + 1] /\ k + 1 \in 1..Len(s) /\ k + 1 # i
        BY <1>0, <1>1, <3>2
      <4> QED
        BY <4>1
    <3> QED
      BY <1>0, <3>1, <3>2
  <2> QED
    BY <1>0, <1>2, <2>1 DEF Range
<1>4. ASSUME NEW k \in 1..Len(s), k # i PROVE s[k] \in Range(t)
  <2>1. CASE k < i
    BY <1>0, <1>1, <2>1 DEF Range
  <2>2. CASE k > i
    <3>1. k - 1 \in 1..Len(s) - 1 /\ ~(k - 1 < i) /\ (k - 1) + 1 = k
      BY <1>0, <2>2
    <3> QED
      BY <1>1, <3>1 DEF Range
  <2> QED
    BY <1>0, <1>4, <2>1, <2>2
<1>5. Range(t) = Range(s) \ {s[i]}
  BY <1>0, <1>1, <1>3, <1>4 DEF Range
<1>6. IsInjective(t)
  <2>1. \A k \in 1..Len(s) - 1 : LET f == IF k < i THEN k ELSE k + 1
                                 IN  f \in 1..Len(s) /\ t[k] = s[f]
    BY <1>0, <1>1
  <2>2. ASSUME NEW j \in 1..Len(s) - 1, NEW k \in 1..Len(s) - 1, t[j] = t[k]
        PROVE  j = k
    <3>1. (IF j < i THEN j ELSE j + 1) = (IF k < i THEN k ELSE k + 1)
      BY <1>2, <2>1, <2>2
    <3> QED
      BY <1>0, <3>1
  <2> QED
    BY <1>1, <2>2 DEF IsInjective
<1> QED
  BY <1>5, <1>6 DEF t

-----------------------------------------------------------------------------
(* What the pointer surgery of list.go does, field by field. *)

(* The four link assignments of insert and move, field by field. *)
LEMMA SpliceFacts ==
    ASSUME NEW h \in Heap, NEW e \in Elems, NEW at \in Node, h.next[at] \in Node, e # at
    PROVE  LET g == Splice(h, e, at) IN
           /\ g \in Heap
           /\ g.list = h.list /\ g.Value = h.Value /\ g.length = h.length
           /\ \A n \in Node : g.next[n] = IF n = at THEN e
                                          ELSE IF n = e THEN h.next[at] ELSE h.next[n]
           /\ \A n \in Node : g.prev[n] = IF n = h.next[at] THEN e
                                          ELSE IF n = e THEN at ELSE h.prev[n]
  BY DEF Splice, Heap, Node

(* The two link assignments that take an element out of its ring, field *)
(* by field.                                                            *)
LEMMA UnlinkFacts ==
    ASSUME NEW h \in Heap, NEW e \in Elems, h.next[e] \in Node, h.prev[e] \in Node
    PROVE  LET g == Unlink(h, e) IN
           /\ g \in Heap
           /\ g.list = h.list /\ g.Value = h.Value /\ g.length = h.length
           /\ \A n \in Node : g.next[n] = IF n = h.prev[e] THEN h.next[e] ELSE h.next[n]
           /\ \A n \in Node : g.prev[n] = IF n = h.next[e] THEN h.prev[e] ELSE h.prev[n]
  BY DEF Unlink, Heap, Node

(* Init makes the sentinel a ring of its own and leaves every other node *)
(* alone.                                                                *)
LEMMA InitListFacts ==
    ASSUME NEW h \in Heap, NEW l \in Lists
    PROVE  LET g == InitList(h, l) IN
           /\ g \in Heap
           /\ g.list = h.list /\ g.Value = h.Value
           /\ \A m \in Lists : g.length[m] = IF m = l THEN 0 ELSE h.length[m]
           /\ \A n \in Node : g.next[n] = IF n = l THEN l ELSE h.next[n]
           /\ \A n \in Node : g.prev[n] = IF n = l THEN l ELSE h.prev[n]
  BY DEF InitList, Heap, Node

(* The distinct nodes of a ring: positions 0..Len(s), and 1..Len(s)+1. *)
LEMMA NthFacts ==
    ASSUME NEW l \in Lists, NEW s \in Seq(Elems), IsInjective(s)
    PROVE  /\ \A i \in 0..Len(s) + 1 : Nth(l, s, i) \in Node
           /\ \A i \in 0..Len(s) + 1 : Nth(l, s, i) \in Range(s) \union {l}
           /\ \A i, j \in 0..Len(s) : Nth(l, s, i) = Nth(l, s, j) => i = j
           /\ \A i, j \in 1..Len(s) + 1 : Nth(l, s, i) = Nth(l, s, j) => i = j
<1>1. /\ Len(s) \in Nat /\ DOMAIN s = 1..Len(s)
      /\ \A i \in 1..Len(s) : s[i] \in Elems /\ s[i] # l
  BY ListConstants
<1>2. \A i, j \in 1..Len(s) : s[i] = s[j] => i = j
  BY <1>1 DEF IsInjective
<1> QED
  BY <1>1, <1>2 DEF Nth, Node, Range

(* How the nodes of a ring are renumbered when an element is inserted. *)
LEMMA NthInsertAt ==
    ASSUME NEW l \in Lists, NEW s \in Seq(Elems), NEW e \in Elems, NEW i \in 1..Len(s) + 1
    PROVE  \A k \in 0..Len(s) + 2 :
               Nth(l, InsertAt(s, i, e), k) =
                   IF k < i THEN Nth(l, s, k) ELSE IF k = i THEN e ELSE Nth(l, s, k - 1)
<1> DEFINE t == InsertAt(s, i, e)
<1>1. Len(s) \in Nat /\ i \in Nat
  OBVIOUS
<1>2. Len(t) = Len(s) + 1
  BY InsertAtFacts
<1>3. \A k \in 1..Len(s) + 1 : t[k] = IF k < i THEN s[k] ELSE IF k = i THEN e ELSE s[k - 1]
  BY InsertAtIndex
<1> HIDE DEF t
<1>4. \A k \in 0..Len(s) + 2 :
          Nth(l, t, k) = IF k < i THEN Nth(l, s, k) ELSE IF k = i THEN e ELSE Nth(l, s, k - 1)
  BY <1>1, <1>2, <1>3 DEF Nth
<1> QED
  BY <1>4 DEF t

(* How the nodes of a ring are renumbered when an element is removed. *)
LEMMA NthRemoveAt ==
    ASSUME NEW l \in Lists, NEW s \in Seq(Elems), NEW i \in 1..Len(s)
    PROVE  \A k \in 0..Len(s) :
               Nth(l, RemoveAt(s, i), k) = IF k < i THEN Nth(l, s, k) ELSE Nth(l, s, k + 1)
<1> DEFINE t == RemoveAt(s, i)
<1>1. Len(s) \in Nat /\ i \in Nat
  OBVIOUS
<1>2. Len(t) = Len(s) - 1
  BY RemoveAtFacts
<1>3. \A k \in 1..Len(s) - 1 : t[k] = IF k < i THEN s[k] ELSE s[k + 1]
  BY RemoveAtFacts
<1> HIDE DEF t
<1>4. \A k \in 0..Len(s) :
          Nth(l, t, k) = IF k < i THEN Nth(l, s, k) ELSE Nth(l, s, k + 1)
  BY <1>1, <1>2, <1>3 DEF Nth
<1> QED
  BY <1>4 DEF t

(* Two heaps that agree on the nodes of a ring have the same ring. *)
LEMMA RingFrame ==
    ASSUME NEW g, NEW h, NEW l \in Lists, NEW s \in Seq(Elems), IsInjective(s),
           Ring(h, l, s),
           \A n \in Range(s) \union {l} : g.next[n] = h.next[n] /\ g.prev[n] = h.prev[n]
    PROVE  Ring(g, l, s)
<1>1. Len(s) \in Nat
  OBVIOUS
<1>2. \A i \in 0..Len(s) + 1 : Nth(l, s, i) \in Range(s) \union {l}
  BY NthFacts
<1> QED
  BY <1>1, <1>2 DEF Ring

(* The neighbours a ring gives to its nodes. *)
LEMMA RingFacts ==
    ASSUME NEW h, NEW l \in Lists, NEW s \in Seq(Elems), IsInjective(s), Ring(h, l, s)
    PROVE  \A i \in 0..Len(s) :
               /\ h.next[Nth(l, s, i)] = Nth(l, s, i + 1)
               /\ h.prev[Nth(l, s, i + 1)] = Nth(l, s, i)
  BY DEF Ring

(* Splicing e in after position i - 1 makes it the element at position i. *)
LEMMA SpliceRing ==
    ASSUME NEW h \in Heap, NEW l \in Lists, NEW s \in Seq(Elems), IsInjective(s),
           Ring(h, l, s), NEW e \in Elems, e \notin Range(s), NEW i \in 1..Len(s) + 1
    PROVE  /\ Ring(Splice(h, e, Nth(l, s, i - 1)), l, InsertAt(s, i, e))
           /\ Nth(l, s, i - 1) \in (Range(s) \union {l}) /\ Nth(l, s, i - 1) # e
           /\ h.next[Nth(l, s, i - 1)] \in (Range(s) \union {l})
<1> DEFINE N(k) == Nth(l, s, k)
           at == N(i - 1)
           t == InsertAt(s, i, e)
           T(k) == Nth(l, t, k)
           g == Splice(h, e, at)
<1>0. Len(s) \in Nat /\ i \in Nat /\ i - 1 \in 0..Len(s) /\ (i - 1) + 1 = i
  OBVIOUS
<1>1. /\ \A k \in 0..Len(s) + 1 : N(k) \in Node /\ N(k) \in Range(s) \union {l}
      /\ \A j, k \in 0..Len(s) : N(j) = N(k) => j = k
      /\ \A j, k \in 1..Len(s) + 1 : N(j) = N(k) => j = k
  BY NthFacts
<1>2. \A k \in 0..Len(s) : h.next[N(k)] = N(k + 1) /\ h.prev[N(k + 1)] = N(k)
  BY RingFacts
<1>3. Len(t) = Len(s) + 1
  BY InsertAtFacts
<1>4. \A k \in 0..Len(s) + 2 : T(k) = IF k < i THEN N(k) ELSE IF k = i THEN e ELSE N(k - 1)
  BY NthInsertAt
<1>5. e \in Node /\ \A k \in 0..Len(s) + 1 : N(k) # e
  BY <1>1, ListConstants DEF Node
<1> HIDE DEF N, T, t
<1>6. h.next[at] = N(i) /\ at \in Node /\ at # e /\ N(i) \in Node
  BY <1>0, <1>1, <1>2, <1>5
<1>7. /\ \A n \in Node : g.next[n] = IF n = at THEN e ELSE IF n = e THEN N(i) ELSE h.next[n]
      /\ \A n \in Node : g.prev[n] = IF n = N(i) THEN e ELSE IF n = e THEN at ELSE h.prev[n]
  BY <1>6, SpliceFacts
<1> HIDE DEF at, g
<1>8. ASSUME NEW k \in 0..Len(t) PROVE g.next[T(k)] = T(k + 1)
  <2>1. CASE k < i - 1
    BY <2>1, <1>0, <1>1, <1>2, <1>3, <1>4, <1>5, <1>7 DEF at
  <2>2. CASE k = i - 1
    BY <2>2, <1>0, <1>1, <1>3, <1>4, <1>6, <1>7 DEF at
  <2>3. CASE k = i
    BY <2>3, <1>0, <1>3, <1>4, <1>5, <1>6, <1>7
  <2>4. CASE k > i
    <3>1. k - 1 \in 0..Len(s) /\ k - 1 # i - 1 /\ T(k) = N(k - 1) /\ T(k + 1) = N(k)
      BY <2>4, <1>0, <1>3, <1>4
    <3>2. N(k - 1) # at /\ N(k - 1) # e /\ N(k - 1) \in Node /\ h.next[N(k - 1)] = N(k)
      BY <3>1, <1>0, <1>1, <1>2, <1>5, <1>3 DEF at
    <3> QED
      BY <3>1, <3>2, <1>7
  <2>5. k < i - 1 \/ k = i - 1 \/ k = i \/ k > i
    BY <1>0, <1>3
  <2> QED
    BY <2>1, <2>2, <2>3, <2>4, <2>5, Zenon
<1>9. ASSUME NEW k \in 0..Len(t) PROVE g.prev[T(k + 1)] = T(k)
  <2>1. CASE k < i - 1
    <3>1. k + 1 \in 1..Len(s) + 1 /\ k + 1 # i /\ T(k + 1) = N(k + 1) /\ T(k) = N(k)
      BY <2>1, <1>0, <1>3, <1>4
    <3>2. N(k + 1) # N(i) /\ N(k + 1) # e /\ N(k + 1) \in Node /\ h.prev[N(k + 1)] = N(k)
      BY <2>1, <3>1, <1>0, <1>1, <1>2, <1>5, <1>3
    <3> QED
      BY <3>1, <3>2, <1>7
  <2>2. CASE k = i - 1
    BY <2>2, <1>0, <1>1, <1>3, <1>4, <1>5, <1>6, <1>7 DEF at
  <2>3. CASE k = i
    BY <2>3, <1>0, <1>3, <1>4, <1>5, <1>6, <1>7
  <2>4. CASE k > i
    <3>1. k \in 1..Len(s) + 1 /\ k # i /\ T(k) = N(k - 1) /\ T(k + 1) = N(k)
      BY <2>4, <1>0, <1>3, <1>4
    <3>2. N(k) # N(i) /\ N(k) # e /\ N(k) \in Node /\ h.prev[N(k)] = N(k - 1)
      BY <2>4, <3>1, <1>0, <1>1, <1>2, <1>5, <1>3
    <3> QED
      BY <3>1, <3>2, <1>7
  <2>5. k < i - 1 \/ k = i - 1 \/ k = i \/ k > i
    BY <1>0, <1>3
  <2> QED
    BY <2>1, <2>2, <2>3, <2>4, <2>5, Zenon
<1>10. Ring(g, l, t)
  BY <1>8, <1>9 DEF Ring, T
<1>11. at \in Range(s) \union {l} /\ h.next[at] \in Range(s) \union {l}
  BY <1>0, <1>1, <1>6 DEF at
<1> QED
  BY <1>6, <1>10, <1>11 DEF g, t, at, N

(* Unlinking the element at position i takes exactly that element out. *)
LEMMA UnlinkRing ==
    ASSUME NEW h \in Heap, NEW l \in Lists, NEW s \in Seq(Elems), IsInjective(s),
           Ring(h, l, s), NEW i \in 1..Len(s)
    PROVE  /\ Ring(Unlink(h, s[i]), l, RemoveAt(s, i))
           /\ h.next[s[i]] \in Range(s) \union {l} /\ h.next[s[i]] \in Node
           /\ h.prev[s[i]] \in Range(s) \union {l} /\ h.prev[s[i]] \in Node
<1> DEFINE N(k) == Nth(l, s, k)
           e == s[i]
           t == RemoveAt(s, i)
           T(k) == Nth(l, t, k)
           g == Unlink(h, e)
<1>0. Len(s) \in Nat /\ i \in Nat /\ i - 1 \in 0..Len(s) /\ (i - 1) + 1 = i
  OBVIOUS
<1>1. /\ \A k \in 0..Len(s) + 1 : N(k) \in Node /\ N(k) \in Range(s) \union {l}
      /\ \A j, k \in 0..Len(s) : N(j) = N(k) => j = k
      /\ \A j, k \in 1..Len(s) + 1 : N(j) = N(k) => j = k
  BY NthFacts
<1>2. \A k \in 0..Len(s) : h.next[N(k)] = N(k + 1) /\ h.prev[N(k + 1)] = N(k)
  BY RingFacts
<1>3. Len(t) = Len(s) - 1
  BY RemoveAtFacts
<1>4. \A k \in 0..Len(s) : T(k) = IF k < i THEN N(k) ELSE N(k + 1)
  BY NthRemoveAt
<1>5. e = N(i) /\ e \in Elems
  BY <1>0 DEF Nth
<1> HIDE DEF N, T, t, e
<1>6. h.next[e] = N(i + 1) /\ h.prev[e] = N(i - 1) /\ N(i + 1) \in Node /\ N(i - 1) \in Node
  BY <1>0, <1>1, <1>2, <1>5
<1>7. /\ \A n \in Node : g.next[n] = IF n = N(i - 1) THEN N(i + 1) ELSE h.next[n]
      /\ \A n \in Node : g.prev[n] = IF n = N(i + 1) THEN N(i - 1) ELSE h.prev[n]
  BY <1>5, <1>6, UnlinkFacts
<1> HIDE DEF g
<1>8. ASSUME NEW k \in 0..Len(t) PROVE g.next[T(k)] = T(k + 1)
  <2>1. CASE k < i - 1
    <3>1. T(k) = N(k) /\ T(k + 1) = N(k + 1)
      BY <2>1, <1>0, <1>3, <1>4
    <3>2. N(k) # N(i - 1) /\ N(k) \in Node /\ h.next[N(k)] = N(k + 1)
      BY <2>1, <1>0, <1>1, <1>2, <1>3
    <3> QED
      BY <3>1, <3>2, <1>7
  <2>2. CASE k = i - 1
    BY <2>2, <1>0, <1>1, <1>3, <1>4, <1>7
  <2>3. CASE k >= i
    <3>1. k + 1 \in 0..Len(s) /\ k + 1 # i - 1 /\ T(k) = N(k + 1) /\ T(k + 1) = N((k + 1) + 1)
      BY <2>3, <1>0, <1>3, <1>4
    <3>2. N(k + 1) # N(i - 1) /\ N(k + 1) \in Node /\ h.next[N(k + 1)] = N((k + 1) + 1)
      BY <3>1, <1>0, <1>1, <1>2, <1>3
    <3> QED
      BY <3>1, <3>2, <1>7
  <2>5. k < i - 1 \/ k = i - 1 \/ k >= i
    BY <1>0, <1>3
  <2> QED
    BY <2>1, <2>2, <2>3, <2>5, Zenon
<1>9. ASSUME NEW k \in 0..Len(t) PROVE g.prev[T(k + 1)] = T(k)
  <2>1. CASE k < i - 1
    <3>1. k + 1 \in 1..Len(s) + 1 /\ k + 1 # i + 1 /\ T(k + 1) = N(k + 1) /\ T(k) = N(k)
      BY <2>1, <1>0, <1>3, <1>4
    <3>2. N(k + 1) # N(i + 1) /\ N(k + 1) \in Node /\ h.prev[N(k + 1)] = N(k)
      BY <2>1, <3>1, <1>0, <1>1, <1>2, <1>3
    <3> QED
      BY <3>1, <3>2, <1>7
  <2>2. CASE k = i - 1
    BY <2>2, <1>0, <1>1, <1>3, <1>4, <1>7
  <2>3. CASE k >= i
    <3>1. /\ (k + 1) + 1 \in 1..Len(s) + 1 /\ (k + 1) + 1 # i + 1
          /\ k + 1 \in 0..Len(s)
          /\ T(k) = N(k + 1) /\ T(k + 1) = N((k + 1) + 1)
      BY <2>3, <1>0, <1>3, <1>4
    <3>2. /\ N((k + 1) + 1) # N(i + 1) /\ N((k + 1) + 1) \in Node
          /\ h.prev[N((k + 1) + 1)] = N(k + 1)
      BY <3>1, <1>0, <1>1, <1>2, <1>3
    <3> QED
      BY <3>1, <3>2, <1>7
  <2>5. k < i - 1 \/ k = i - 1 \/ k >= i
    BY <1>0, <1>3
  <2> QED
    BY <2>1, <2>2, <2>3, <2>5, Zenon
<1>10. Ring(g, l, t)
  BY <1>8, <1>9 DEF Ring, T
<1>11. /\ h.next[e] \in Range(s) \union {l} /\ h.next[e] \in Node
       /\ h.prev[e] \in Range(s) \union {l} /\ h.prev[e] \in Node
  BY <1>0, <1>1, <1>6
<1> QED
  BY <1>10, <1>11 DEF g, t, e

(* Moving an element back to where it was changes nothing. *)
LEMMA RemoveInsertSame ==
    ASSUME NEW s \in Seq(Elems), NEW i \in 1..Len(s)
    PROVE  InsertAt(RemoveAt(s, i), i, s[i]) = s
<1> DEFINE t == RemoveAt(s, i)
           u == InsertAt(t, i, s[i])
<1>0. Len(s) \in Nat /\ i \in Nat /\ s[i] \in Elems
  OBVIOUS
<1>1. t \in Seq(Elems) /\ Len(t) = Len(s) - 1
  BY RemoveAtFacts
<1>2. \A k \in 1..Len(s) - 1 : t[k] = IF k < i THEN s[k] ELSE s[k + 1]
  BY RemoveAtFacts
<1> HIDE DEF t
<1>3. i \in 1..Len(t) + 1
  BY <1>0, <1>1
<1>4. u \in Seq(Elems) /\ Len(u) = Len(s)
  BY <1>0, <1>1, <1>3, InsertAtFacts
<1>5. ASSUME NEW k \in 1..Len(s) PROVE u[k] = s[k]
  <2>1. k \in 1..Len(t) + 1
    BY <1>0, <1>1
  <2>2. u[k] = IF k < i THEN t[k] ELSE IF k = i THEN s[i] ELSE t[k - 1]
    BY <1>0, <1>1, <1>3, <2>1, InsertAtIndex
  <2> HIDE DEF u
  <2> QED
    BY <1>0, <1>2, <2>2
<1> HIDE DEF u
<1>6. u = s
  BY <1>4, <1>5, SeqEqual
<1> QED
  BY <1>6 DEF u, t

-----------------------------------------------------------------------------
(* One list at a time: h holds exactly the elements s of l. *)
Holds(h, l, s) ==
    /\ h.length[l] = Len(s)
    /\ IsInjective(s)
    /\ \/ h.next[l] # Nil /\ Ring(h, l, s)
       \/ h.next[l] = Nil /\ h.prev[l] = Nil /\ s = <<>>

(* g and h differ only in l and in the given elements. *)
SameOutside(g, h, l, E) ==
    /\ \A m \in Lists \ {l} : g.length[m] = h.length[m]
    /\ \A n \in Node \ (E \union {l}) : g.next[n] = h.next[n] /\ g.prev[n] = h.prev[n]

(* The sentinel of a ring has a successor, and the last node precedes it. *)
LEMMA RingNotNil ==
    ASSUME NEW h, NEW l \in Lists, NEW s \in Seq(Elems), IsInjective(s), Ring(h, l, s)
    PROVE  h.next[l] # Nil /\ h.next[l] \in Node /\ h.prev[l] = Nth(l, s, Len(s))
<1>1. Len(s) \in Nat /\ 0 \in 0..Len(s) /\ Len(s) \in 0..Len(s)
  OBVIOUS
<1>2. Nth(l, s, 0) = l /\ Nth(l, s, Len(s) + 1) = l
  BY <1>1 DEF Nth
<1>3. h.next[Nth(l, s, 0)] = Nth(l, s, 0 + 1) /\ h.prev[Nth(l, s, Len(s) + 1)] = Nth(l, s, Len(s))
  BY <1>1, RingFacts
<1>4. Nth(l, s, 0 + 1) \in Node
  BY <1>1, NthFacts
<1> QED
  BY <1>2, <1>3, <1>4, ListConstants DEF Node

(* The heap insert leaves, field by field, from the spliced heap. *)
InsertedFields(g, sp, l, e, v) ==
    /\ g \in Heap /\ g.next = sp.next /\ g.prev = sp.prev
    /\ g.list = [sp.list EXCEPT ![e] = l]
    /\ g.Value = [sp.Value EXCEPT ![e] = v]
    /\ g.length = [sp.length EXCEPT ![l] = sp.length[l] + 1]

(* The heap remove leaves, field by field, from the unlinked heap. *)
RemovedFields(g, u, l, e) ==
    /\ g \in Heap
    /\ g.next = [u.next EXCEPT ![e] = Nil] /\ g.prev = [u.prev EXCEPT ![e] = Nil]
    /\ g.list = [u.list EXCEPT ![e] = Nil]
    /\ g.length = [u.length EXCEPT ![l] = u.length[l] - 1]

(* The other fields that insert and remove assign. *)
LEMMA InsertFacts ==
    ASSUME NEW h \in Heap, NEW l \in Lists, NEW e \in Elems, NEW v \in Values \union {Nil},
           NEW at \in Node, Splice(h, e, at) \in Heap
    PROVE  InsertedFields(insert(h, l, e, v, at), Splice(h, e, at), l, e, v)
<1> DEFINE sp == Splice(h, e, at)
           len == [sp.length EXCEPT ![l] = @ + 1]
<1> HIDE DEF sp
<1>1. sp \in Heap /\ sp.length[l] \in Nat /\ sp.length[l] + 1 \in Nat
  BY DEF Heap, sp
<1>2. len \in [Lists -> Nat]
  BY <1>1 DEF Heap
<1> HIDE DEF len
<1>3. LET g == [sp EXCEPT !.list[e] = l, !.Value[e] = v, !.length = len]
      IN  /\ g \in Heap /\ g.next = sp.next /\ g.prev = sp.prev
          /\ g.list = [sp.list EXCEPT ![e] = l]
          /\ g.Value = [sp.Value EXCEPT ![e] = v]
          /\ g.length = len
  BY <1>1, <1>2 DEF Heap
<1>4. [sp EXCEPT !.list[e] = l, !.Value[e] = v, !.length = len] = insert(h, l, e, v, at)
  BY <1>1 DEF insert, sp, len
<1> QED
  BY <1>3, <1>4 DEF len, sp, InsertedFields

(* What remove does to each field of the heap. *)
LEMMA RemoveFacts ==
    ASSUME NEW h \in Heap, NEW l \in Lists, NEW e \in Elems,
           Unlink(h, e) \in Heap, Unlink(h, e).length[l] # 0
    PROVE  RemovedFields(remove(h, l, e), Unlink(h, e), l, e)
<1> DEFINE u == Unlink(h, e)
           len == [u.length EXCEPT ![l] = @ - 1]
<1> HIDE DEF u
<1>1. u \in Heap /\ u.length[l] \in Nat /\ u.length[l] - 1 \in Nat
  BY DEF Heap, u
<1>2. len \in [Lists -> Nat]
  BY <1>1 DEF Heap
<1> HIDE DEF len
<1>3. LET g == [u EXCEPT !.next[e] = Nil, !.prev[e] = Nil, !.list[e] = Nil, !.length = len]
      IN  /\ g \in Heap
          /\ g.next = [u.next EXCEPT ![e] = Nil] /\ g.prev = [u.prev EXCEPT ![e] = Nil]
          /\ g.list = [u.list EXCEPT ![e] = Nil]
          /\ g.length = len
  BY <1>1, <1>2 DEF Heap, Node
<1>4. [u EXCEPT !.next[e] = Nil, !.prev[e] = Nil, !.list[e] = Nil, !.length = len]
        = remove(h, l, e)
  BY <1>1 DEF remove, u, len
<1> QED
  BY <1>3, <1>4 DEF len, u, RemovedFields

(* In heap g list l holds t, which it got from s in heap h by gaining, by   *)
(* losing or by moving the element e; no other list has changed.           *)
Inserted(g, h, l, s, t, e) ==
    /\ g \in Heap /\ t \in Seq(Elems) /\ Range(t) = Range(s) \union {e}
    /\ Holds(g, l, t) /\ Ring(g, l, t) /\ g.next[l] # Nil
    /\ g.list = [h.list EXCEPT ![e] = l]
    /\ SameOutside(g, h, l, Range(s) \union {e})

Deleted(g, h, l, s, t, e) ==
    /\ g \in Heap /\ t \in Seq(Elems) /\ Range(t) = Range(s) \ {e}
    /\ Holds(g, l, t)
    /\ g.list = [h.list EXCEPT ![e] = Nil]
    /\ g.next[e] = Nil /\ g.prev[e] = Nil
    /\ SameOutside(g, h, l, Range(s))

Rearranged(g, h, l, s, t) ==
    /\ g \in Heap /\ t \in Seq(Elems) /\ Range(t) = Range(s)
    /\ Holds(g, l, t)
    /\ g.list = h.list
    /\ SameOutside(g, h, l, Range(s))

(* insert puts a new element at position i and touches nothing else. *)
LEMMA InsertHolds ==
    ASSUME NEW h \in Heap, NEW l \in Lists, NEW s \in Seq(Elems),
           Holds(h, l, s), h.next[l] # Nil,
           NEW e \in Elems, e \notin Range(s), NEW v \in Values \union {Nil},
           NEW i \in 1..Len(s) + 1, NEW at, at = Nth(l, s, i - 1)
    PROVE  Inserted(insert(h, l, e, v, at), h, l, s, InsertAt(s, i, e), e)
<1> DEFINE g == insert(h, l, e, v, at)
           sp == Splice(h, e, at)
           t == InsertAt(s, i, e)
<1>1. IsInjective(s) /\ Ring(h, l, s) /\ h.length[l] = Len(s) /\ Len(s) \in Nat
  BY DEF Holds
<1>2. Ring(sp, l, t) /\ at # e /\ at \in Range(s) \union {l} /\ h.next[at] \in Range(s) \union {l}
  BY <1>1, SpliceRing
<1>3. Range(s) \union {l} \subseteq Node
  BY DEF Range, Node
<1>4. at \in Node /\ h.next[at] \in Node
  BY <1>2, <1>3
<1>5. /\ sp \in Heap /\ sp.list = h.list /\ sp.Value = h.Value /\ sp.length = h.length
      /\ \A n \in Node : sp.next[n] = IF n = at THEN e ELSE IF n = e THEN h.next[at] ELSE h.next[n]
      /\ \A n \in Node : sp.prev[n] = IF n = h.next[at] THEN e ELSE IF n = e THEN at ELSE h.prev[n]
  BY <1>2, <1>4, SpliceFacts
<1>6. t \in Seq(Elems) /\ Len(t) = Len(s) + 1
  BY InsertAtFacts
<1>7. Range(t) = Range(s) \union {e} /\ IsInjective(t)
  BY <1>1, InsertAtRange
<1> HIDE DEF sp, t
<1>9. /\ g \in Heap /\ g.next = sp.next /\ g.prev = sp.prev
      /\ g.list = [h.list EXCEPT ![e] = l]
      /\ g.Value = [h.Value EXCEPT ![e] = v]
      /\ g.length = [h.length EXCEPT ![l] = @ + 1]
  <2>1. Splice(h, e, at) \in Heap
    BY <1>5 DEF sp
  <2>2. InsertedFields(g, sp, l, e, v)
    BY <1>4, <2>1, InsertFacts, Zenon DEF sp
  <2> HIDE DEF g
  <2> QED
    BY <1>5, <2>2 DEF InsertedFields
<1> HIDE DEF g
<1>10. Ring(g, l, t)
  BY <1>2, <1>9 DEF Ring
<1>11. g.length[l] = Len(t)
  BY <1>1, <1>6, <1>9 DEF Heap
<1>12. g.next[l] # Nil
  BY <1>6, <1>7, <1>10, RingNotNil
<1>13. SameOutside(g, h, l, Range(s) \union {e})
  <2>1. \A n \in Node \ (Range(s) \union {e, l}) : g.next[n] = h.next[n] /\ g.prev[n] = h.prev[n]
    BY <1>2, <1>5, <1>9
  <2>3. \A m \in Lists \ {l} : g.length[m] = h.length[m]
    BY <1>9 DEF Heap
  <2> QED
    BY <2>1, <2>3 DEF SameOutside
<1>14. Holds(g, l, t)
  BY <1>7, <1>10, <1>11, <1>12 DEF Holds
<1> QED
  BY <1>6, <1>7, <1>9, <1>10, <1>12, <1>13, <1>14 DEF g, t, Inserted

(* remove takes out the element at position i and clears its pointers. *)
LEMMA RemoveHolds ==
    ASSUME NEW h \in Heap, NEW l \in Lists, NEW s \in Seq(Elems),
           Holds(h, l, s), NEW i \in 1..Len(s)
    PROVE  Deleted(remove(h, l, s[i]), h, l, s, RemoveAt(s, i), s[i])
<1> DEFINE e == s[i]
           g == remove(h, l, e)
           u == Unlink(h, e)
           t == RemoveAt(s, i)
<1>0. e \in Elems /\ e \in Range(s) /\ e # l
  BY ListConstants DEF Range
<1>1. IsInjective(s) /\ Ring(h, l, s) /\ h.length[l] = Len(s) /\ Len(s) \in Nat /\ Len(s) # 0
  BY DEF Holds
<1>2. /\ Ring(u, l, t)
      /\ h.next[e] \in Range(s) \union {l} /\ h.next[e] \in Node
      /\ h.prev[e] \in Range(s) \union {l} /\ h.prev[e] \in Node
  BY <1>1, UnlinkRing
<1>3. t \in Seq(Elems) /\ Len(t) = Len(s) - 1
  BY RemoveAtFacts
<1>4. Range(t) = Range(s) \ {e} /\ IsInjective(t)
  BY <1>1, RemoveAtRange
<1> HIDE DEF e, t
<1>5. /\ u \in Heap /\ u.list = h.list /\ u.Value = h.Value /\ u.length = h.length
      /\ \A n \in Node : u.next[n] = IF n = h.prev[e] THEN h.next[e] ELSE h.next[n]
      /\ \A n \in Node : u.prev[n] = IF n = h.next[e] THEN h.prev[e] ELSE h.prev[n]
  BY <1>0, <1>2, UnlinkFacts
<1> HIDE DEF u
<1>7. /\ g \in Heap
      /\ g.next = [u.next EXCEPT ![e] = Nil] /\ g.prev = [u.prev EXCEPT ![e] = Nil]
      /\ g.list = [h.list EXCEPT ![e] = Nil]
      /\ g.length = [h.length EXCEPT ![l] = @ - 1]
  <2>1. Unlink(h, e) \in Heap /\ Unlink(h, e).length[l] # 0
    BY <1>1, <1>5 DEF u
  <2>2. RemovedFields(g, u, l, e)
    BY <1>0, <2>1, RemoveFacts, Zenon DEF u
  <2> HIDE DEF g
  <2> QED
    BY <1>5, <2>2 DEF RemovedFields
<1> HIDE DEF g
<1>8. g.length[l] = Len(t)
  BY <1>1, <1>3, <1>7 DEF Heap
<1>10. \A n \in Node \ {e} : g.next[n] = u.next[n] /\ g.prev[n] = u.prev[n]
  BY <1>5, <1>7 DEF Heap
<1>11. g.next[e] = Nil /\ g.prev[e] = Nil
  BY <1>0, <1>5, <1>7 DEF Heap, Node
<1>12. Range(t) \union {l} \subseteq Node \ {e}
  <2>1. Range(t) \subseteq Elems
    BY <1>3 DEF Range
  <2> QED
    BY <1>0, <1>4, <2>1 DEF Node
<1>13. Ring(g, l, t)
  BY <1>2, <1>3, <1>4, <1>10, <1>12, RingFrame
<1>14. g.next[l] # Nil
  BY <1>3, <1>4, <1>13, RingNotNil
<1>15. SameOutside(g, h, l, Range(s))
  BY <1>0, <1>2, <1>5, <1>7, <1>10 DEF SameOutside, Heap
<1>16. Holds(g, l, t)
  BY <1>4, <1>8, <1>13, <1>14 DEF Holds
<1> QED
  BY <1>3, <1>4, <1>7, <1>11, <1>15, <1>16 DEF g, t, e, Deleted

(* move takes out the element at position i and puts it back at position j *)
(* of what remains.                                                        *)
LEMMA MoveHolds ==
    ASSUME NEW h \in Heap, NEW l \in Lists, NEW s \in Seq(Elems), Holds(h, l, s),
           NEW i \in 1..Len(s), NEW j \in 1..Len(s),
           NEW at, at = Nth(l, RemoveAt(s, i), j - 1)
    PROVE  Rearranged(move(h, s[i], at), h, l, s, InsertAt(RemoveAt(s, i), j, s[i]))
<1> DEFINE e == s[i]
           r == RemoveAt(s, i)
           t == InsertAt(r, j, e)
           u == Unlink(h, e)
           g == Splice(u, e, at)
<1>0. e \in Elems /\ e \in Range(s) /\ e # l /\ Range(s) \subseteq Elems
  BY ListConstants DEF Range
<1>1. IsInjective(s) /\ Ring(h, l, s) /\ h.length[l] = Len(s) /\ Len(s) \in Nat /\ Len(s) # 0
  BY DEF Holds
<1>2. /\ Ring(u, l, r)
      /\ h.next[e] \in Range(s) \union {l} /\ h.next[e] \in Node
      /\ h.prev[e] \in Range(s) \union {l} /\ h.prev[e] \in Node
  BY <1>1, UnlinkRing
<1>3. r \in Seq(Elems) /\ Len(r) = Len(s) - 1
  BY RemoveAtFacts
<1>4. Range(r) = Range(s) \ {e} /\ IsInjective(r)
  BY <1>1, RemoveAtRange
<1>a. at = Nth(l, r, j - 1)
  OBVIOUS
<1> HIDE DEF e, r
<1>5. /\ u \in Heap /\ u.list = h.list /\ u.length = h.length
      /\ \A n \in Node : u.next[n] = IF n = h.prev[e] THEN h.next[e] ELSE h.next[n]
      /\ \A n \in Node : u.prev[n] = IF n = h.next[e] THEN h.prev[e] ELSE h.prev[n]
  BY <1>0, <1>2, UnlinkFacts
<1> HIDE DEF u
<1>6. j \in 1..Len(r) + 1 /\ e \notin Range(r) /\ u \in Heap
  BY <1>1, <1>3, <1>4, <1>5
<1>7. /\ Ring(g, l, t) /\ at # e
      /\ at \in Range(r) \union {l} /\ u.next[at] \in Range(r) \union {l}
  BY <1>0, <1>2, <1>3, <1>4, <1>6, <1>a, SpliceRing
<1>8. at \in Node /\ u.next[at] \in Node
  BY <1>0, <1>4, <1>7 DEF Node
<1>9. /\ g \in Heap /\ g.list = u.list /\ g.length = u.length
      /\ \A n \in Node : g.next[n] = IF n = at THEN e ELSE IF n = e THEN u.next[at] ELSE u.next[n]
      /\ \A n \in Node : g.prev[n] = IF n = u.next[at] THEN e ELSE IF n = e THEN at ELSE u.prev[n]
  BY <1>0, <1>6, <1>7, <1>8, SpliceFacts
<1> HIDE DEF g
<1>10. t \in Seq(Elems) /\ Len(t) = Len(r) + 1
  BY <1>0, <1>3, <1>6, InsertAtFacts
<1>11. Range(t) = Range(r) \union {e} /\ IsInjective(t)
  BY <1>0, <1>3, <1>4, <1>6, InsertAtRange
<1> HIDE DEF t
<1>12. Range(t) = Range(s)
  BY <1>0, <1>4, <1>11
<1>13. g.next[l] # Nil
  BY <1>7, <1>10, <1>11, RingNotNil
<1>14. Holds(g, l, t)
  BY <1>1, <1>3, <1>5, <1>7, <1>9, <1>10, <1>11, <1>13 DEF Holds
<1>15. \A n \in Node \ (Range(s) \union {l}) :
            /\ n # at /\ n # e /\ n # u.next[at] /\ n # h.prev[e] /\ n # h.next[e]
  BY <1>0, <1>2, <1>4, <1>7
<1>16. \A n \in Node \ (Range(s) \union {l}) : g.next[n] = h.next[n] /\ g.prev[n] = h.prev[n]
  BY <1>5, <1>9, <1>15
<1>17. SameOutside(g, h, l, Range(s))
  BY <1>5, <1>9, <1>16 DEF SameOutside
<1>18. g = move(h, e, at)
  BY <1>7 DEF g, u, move
<1> QED
  BY <1>5, <1>9, <1>10, <1>12, <1>14, <1>17, <1>18 DEF t, e, r, Rearranged

(* Index finds a place of a member of the sequence. *)
LEMMA IndexFacts ==
    ASSUME NEW s \in Seq(Elems), NEW x \in Range(s)
    PROVE  Index(s, x) \in 1..Len(s) /\ s[Index(s, x)] = x
<1>1. \E k \in DOMAIN s : s[k] = x
  BY DEF Range
<1>2. DOMAIN s = 1..Len(s)
  OBVIOUS
<1> QED
  BY <1>1, <1>2 DEF Index

(* A step that changes one list leaves the others as they were. *)
LEMMA OneListStep ==
    ASSUME TypeOK, Mem, NEW l \in Lists, NEW t, NEW E \in SUBSET Elems,
           es' = [es EXCEPT ![l] = t],
           Holds(heap', l, t), SameOutside(heap', heap, l, E),
           \A m \in Lists \ {l} : E \intersect Range(es[m]) = {},
           \A e \in Elems : e \in Range(t) <=> heap'.list[e] = l /\ e \notin cleared',
           \A m \in Lists \ {l}, e \in Elems :
               (heap'.list[e] = m /\ e \notin cleared') <=> (heap.list[e] = m /\ e \notin cleared)
    PROVE  Mem'
<1> SUFFICES ASSUME NEW m \in Lists
             PROVE  /\ Holds(heap', m, es'[m])
                    /\ \A e \in Elems : e \in Range(es'[m]) <=> heap'.list[e] = m /\ e \notin cleared'
  BY DEF Mem, Holds
<1>1. CASE m = l
  BY <1>1 DEF TypeOK
<1>2. CASE m # l
  <2>1. es'[m] = es[m] /\ es[m] \in Seq(Elems)
    <3>1. es[m] \in Seq(used) /\ used \subseteq Elems
      BY DEF TypeOK
    <3> QED
      BY <3>1, <1>2 DEF TypeOK
  <2>2. Holds(heap, m, es[m])
    BY DEF Mem, Holds
  <2>3. Range(es[m]) \subseteq Elems
    BY <2>1 DEF Range
  <2>4. \A n \in Range(es[m]) \union {m} :
            heap'.next[n] = heap.next[n] /\ heap'.prev[n] = heap.prev[n]
    BY <1>2, <2>3, ListConstants DEF SameOutside, Node
  <2>5. Ring(heap, m, es[m]) => Ring(heap', m, es[m])
    BY <2>1, <2>2, <2>4, RingFrame DEF Holds
  <2>6. heap'.length[m] = heap.length[m]
    BY <1>2 DEF SameOutside
  <2>7. Holds(heap', m, es'[m])
    BY <2>1, <2>2, <2>4, <2>5, <2>6 DEF Holds
  <2> QED
    BY <1>2, <2>1, <2>7 DEF Mem
<1> QED
  BY <1>1, <1>2

(* Facts about a list in a state that satisfies the invariant. *)
LEMMA ListFacts ==
    ASSUME TypeOK, Mem, NEW l \in Lists
    PROVE  /\ heap \in Heap
           /\ Holds(heap, l, es[l])
           /\ es[l] \in Seq(used) /\ es[l] \in Seq(Elems)
           /\ Range(es[l]) \subseteq used /\ Range(es[l]) \subseteq Elems
           /\ \A m \in Lists \ {l} : Range(es[l]) \intersect Range(es[m]) = {}
           /\ \A e \in Range(es[l]) : heap.list[e] = l /\ e \notin cleared
           /\ \A e \in used \ cleared : heap.list[e] = l => e \in Range(es[l])
           /\ used \subseteq Elems /\ cleared \subseteq used
<1>1. es[l] \in Seq(used) /\ used \subseteq Elems /\ cleared \subseteq used /\ heap \in Heap
  BY DEF TypeOK
<1>2. es[l] \in Seq(Elems) /\ Range(es[l]) \subseteq used
  BY <1>1 DEF Range
<1>3. Holds(heap, l, es[l])
  BY DEF Mem, Holds
<1>4. \A m \in Lists : \A e \in Elems : e \in Range(es[m]) <=> heap.list[e] = m /\ e \notin cleared
  BY DEF Mem
<1> QED
  BY <1>1, <1>2, <1>3, <1>4

(* lazyInit makes a zero List an empty ring and changes no other list. *)
LEMMA LazyHolds ==
    ASSUME NEW h \in Heap, NEW l \in Lists, NEW s \in Seq(Elems), Holds(h, l, s)
    PROVE  LET g == lazyInit(h, l) IN
           /\ g \in Heap /\ g.list = h.list
           /\ Holds(g, l, s) /\ g.next[l] # Nil
           /\ SameOutside(g, h, l, {})
           /\ h.next[l] # Nil => g = h
<1>1. CASE h.next[l] # Nil
  BY <1>1 DEF lazyInit, SameOutside
<1>2. CASE h.next[l] = Nil
  <2> DEFINE g == InitList(h, l)
  <2>1. lazyInit(h, l) = g
    BY <1>2 DEF lazyInit
  <2>2. s = <<>> /\ h.length[l] = Len(s) /\ IsInjective(s)
    BY <1>2 DEF Holds
  <2>3. /\ g \in Heap /\ g.list = h.list
        /\ \A m \in Lists : g.length[m] = IF m = l THEN 0 ELSE h.length[m]
        /\ \A n \in Node : g.next[n] = IF n = l THEN l ELSE h.next[n]
        /\ \A n \in Node : g.prev[n] = IF n = l THEN l ELSE h.prev[n]
    BY InitListFacts
  <2> HIDE DEF g
  <2>4. l \in Node /\ l # Nil
    BY ListConstants DEF Node
  <2>5. Ring(g, l, <<>>)
    BY <2>3, <2>4 DEF Ring, Nth
  <2>6. Holds(g, l, s) /\ g.next[l] # Nil
    BY <2>2, <2>3, <2>4, <2>5 DEF Holds
  <2>7. SameOutside(g, h, l, {})
    BY <2>3 DEF SameOutside
  <2> QED
    BY <1>2, <2>1, <2>3, <2>6, <2>7
<1> QED
  BY <1>1, <1>2

(* Every insertion: PushFront, PushBack, InsertBefore, InsertAfter and one *)
(* iteration of PushBackList and PushFrontList.                            *)
LEMMA InsertStep ==
    ASSUME TypeOK, Mem, Detached, NEW l \in Lists, NEW e \in Elems, e \notin used,
           NEW v \in Values \union {Nil}, NEW i \in 1..Len(es[l]) + 1,
           NEW at, at = Nth(l, es[l], i - 1),
           heap' = insert(lazyInit(heap, l), l, e, v, at),
           used' = used \union {e}, cleared' = cleared,
           es' = [es EXCEPT ![l] = InsertAt(@, i, e)]
    PROVE  /\ heap' \in Heap /\ es' \in [Lists -> Seq(used')]
           /\ Mem' /\ Detached'
           /\ heap'.next[l] # Nil /\ Ring(heap', l, es'[l])
<1> DEFINE s == es[l]
           h == lazyInit(heap, l)
           g == insert(h, l, e, v, at)
           t == InsertAt(s, i, e)
<1>1. /\ heap \in Heap /\ Holds(heap, l, s) /\ s \in Seq(used) /\ s \in Seq(Elems)
      /\ Range(s) \subseteq used /\ Range(s) \subseteq Elems
      /\ \A m \in Lists \ {l} : Range(s) \intersect Range(es[m]) = {}
      /\ \A x \in Range(s) : heap.list[x] = l /\ x \notin cleared
      /\ cleared \subseteq used
  BY ListFacts
<1>2. \A m \in Lists : Range(es[m]) \subseteq used
  BY ListFacts
<1>3. /\ h \in Heap /\ h.list = heap.list /\ Holds(h, l, s) /\ h.next[l] # Nil
      /\ SameOutside(h, heap, l, {})
  BY <1>1, LazyHolds
<1> HIDE DEF h
<1>4. e \notin Range(s) /\ i \in 1..Len(s) + 1 /\ at = Nth(l, s, i - 1)
  BY <1>1
<1>5. /\ g \in Heap /\ t \in Seq(Elems) /\ Range(t) = Range(s) \union {e}
      /\ Holds(g, l, t) /\ Ring(g, l, t) /\ g.next[l] # Nil
      /\ g.list = [h.list EXCEPT ![e] = l]
      /\ SameOutside(g, h, l, Range(s) \union {e})
  <2>1. h \in Heap /\ s \in Seq(Elems) /\ Holds(h, l, s) /\ h.next[l] # Nil
    BY <1>1, <1>3
  <2> HIDE DEF s
  <2>2. Inserted(g, h, l, s, t, e)
    BY <1>4, <2>1, InsertHolds
  <2> QED
    BY <2>2 DEF Inserted
<1>6. heap' = g /\ es' = [es EXCEPT ![l] = t]
  BY DEF h
<1>7. t \in Seq(used')
  <2>1. s \in Seq(used') /\ e \in used'
    BY <1>1
  <2> QED
    BY <1>4, <2>1, InsertAtFacts
<1> HIDE DEF g, t
<1>8. SameOutside(heap', heap, l, Range(s) \union {e})
  BY <1>3, <1>5, <1>6 DEF SameOutside
<1>9. heap.list \in [Elems -> Lists \union {Nil}]
  BY <1>1 DEF Heap
<1>10. \A x \in Elems : heap'.list[x] = IF x = e THEN l ELSE heap.list[x]
  BY <1>3, <1>5, <1>6, <1>9
<1>11. \A x \in Elems : x \in Range(s) <=> heap.list[x] = l /\ x \notin cleared
  BY DEF Mem
<1>12. Mem'
  <2> DEFINE E == Range(s) \union {e}
  <2>1. E \in SUBSET Elems /\ SameOutside(heap', heap, l, E)
    BY <1>1, <1>8
  <2>2. \A m \in Lists \ {l} : E \intersect Range(es[m]) = {}
    BY <1>1, <1>2
  <2> HIDE DEF E
  <2>3. \A x \in Elems : x \in Range(t) <=> heap'.list[x] = l /\ x \notin cleared'
    BY <1>1, <1>5, <1>10, <1>11
  <2>4. heap.list[e] \in Lists => e \in cleared
    BY <1>1, <1>2 DEF Mem
  <2>5. \A m \in Lists \ {l}, x \in Elems :
            (heap'.list[x] = m /\ x \notin cleared') <=> (heap.list[x] = m /\ x \notin cleared)
    BY <1>10, <2>4
  <2>6. Holds(heap', l, t)
    BY <1>5, <1>6
  <2> QED
    BY <1>6, <2>1, <2>2, <2>3, <2>5, <2>6, OneListStep
<1>13. Detached'
  <2> SUFFICES ASSUME NEW x \in used', heap'.list[x] = Nil
               PROVE  heap'.next[x] = Nil /\ heap'.prev[x] = Nil
    BY DEF Detached
  <2>1. x \in Elems /\ l # Nil /\ x # l
    BY ListConstants, ListFacts
  <2>2. x # e /\ heap.list[x] = Nil
    BY <1>10, <2>1
  <2>3. x \in used /\ x \notin Range(s)
    BY <1>1, <2>1, <2>2
  <2> QED
    BY <1>8, <2>1, <2>2, <2>3 DEF Detached, SameOutside, Node
<1>14. es' \in [Lists -> Seq(used')]
  <2>1. es \in [Lists -> Seq(used')]
    BY DEF TypeOK
  <2> QED
    BY <1>6, <1>7, <2>1
<1>15. es'[l] = t
  BY <1>6 DEF TypeOK
<1> QED
  BY <1>5, <1>6, <1>12, <1>13, <1>14, <1>15

(* Remove of the element at position i. *)
LEMMA RemoveStep ==
    ASSUME TypeOK, Mem, Detached, NEW l \in Lists, NEW i \in 1..Len(es[l]),
           NEW e, e = es[l][i],
           heap' = remove(heap, l, e), used' = used, cleared' = cleared,
           es' = [es EXCEPT ![l] = RemoveAt(@, i)]
    PROVE  /\ heap' \in Heap /\ es' \in [Lists -> Seq(used')]
           /\ Mem' /\ Detached'
<1> DEFINE s == es[l]
           t == RemoveAt(s, i)
<1>1. /\ heap \in Heap /\ Holds(heap, l, s) /\ s \in Seq(used) /\ s \in Seq(Elems)
      /\ Range(s) \subseteq used /\ Range(s) \subseteq Elems
      /\ \A m \in Lists \ {l} : Range(s) \intersect Range(es[m]) = {}
      /\ \A x \in Range(s) : heap.list[x] = l /\ x \notin cleared
  BY ListFacts
<1>2. \A x \in Elems : x \in Range(s) <=> heap.list[x] = l /\ x \notin cleared
  BY DEF Mem
<1>3. e = s[i] /\ i \in 1..Len(s) /\ es' = [es EXCEPT ![l] = t]
  OBVIOUS
<1>4. t \in Seq(used')
  BY <1>1, <1>3, RemoveAtFacts
<1>5. e \in Range(s)
  BY <1>1, <1>3 DEF Range
<1>6. Deleted(remove(heap, l, s[i]), heap, l, s, RemoveAt(s, i), s[i])
  <2> HIDE DEF s
  <2> QED
    BY <1>1, <1>3, RemoveHolds
<1>7. /\ heap' \in Heap /\ Range(t) = Range(s) \ {e} /\ Holds(heap', l, t)
      /\ heap'.list = [heap.list EXCEPT ![e] = Nil]
      /\ heap'.next[e] = Nil /\ heap'.prev[e] = Nil
      /\ SameOutside(heap', heap, l, Range(s))
  BY <1>3, <1>6 DEF Deleted
<1> HIDE DEF t
<1>8. \A x \in Elems : heap'.list[x] = IF x = e THEN Nil ELSE heap.list[x]
  BY <1>1, <1>7 DEF Heap
<1>9. heap.list[e] = l /\ Nil \notin Lists
  BY <1>1, <1>5, ListConstants
<1>10. Mem'
  <2> DEFINE E == Range(s)
  <2>1. E \in SUBSET Elems /\ SameOutside(heap', heap, l, E)
    BY <1>1, <1>7
  <2>2. \A m \in Lists \ {l} : E \intersect Range(es[m]) = {}
    BY <1>1
  <2> HIDE DEF E
  <2>3. \A x \in Elems : x \in Range(t) <=> heap'.list[x] = l /\ x \notin cleared'
    BY <1>2, <1>7, <1>8, <1>9
  <2>4. \A m \in Lists \ {l}, x \in Elems :
            (heap'.list[x] = m /\ x \notin cleared') <=> (heap.list[x] = m /\ x \notin cleared)
    BY <1>8, <1>9
  <2> QED
    BY <1>3, <1>7, <2>1, <2>2, <2>3, <2>4, OneListStep
<1>11. Detached'
  <2> SUFFICES ASSUME NEW x \in used', heap'.list[x] = Nil
               PROVE  heap'.next[x] = Nil /\ heap'.prev[x] = Nil
    BY DEF Detached
  <2>1. x \in Elems /\ x # l /\ x \in used
    BY ListConstants, ListFacts
  <2>2. CASE x = e
    BY <1>7, <2>2
  <2>3. CASE x # e
    <3>1. heap.list[x] = Nil /\ x \notin Range(s)
      BY <1>1, <1>8, <1>9, <2>1, <2>3
    <3> QED
      BY <1>7, <2>1, <3>1 DEF Detached, SameOutside, Node
  <2> QED
    BY <2>2, <2>3
<1>12. es' \in [Lists -> Seq(used')]
  BY <1>3, <1>4 DEF TypeOK
<1> QED
  BY <1>7, <1>10, <1>11, <1>12

(* A Move of the element at position i, to position j of what remains. *)
LEMMA MoveStep ==
    ASSUME TypeOK, Mem, Detached, NEW l \in Lists,
           NEW i \in 1..Len(es[l]), NEW j \in 1..Len(es[l]),
           NEW e, e = es[l][i],
           NEW at, at = Nth(l, RemoveAt(es[l], i), j - 1),
           heap' = move(heap, e, at), used' = used, cleared' = cleared,
           es' = [es EXCEPT ![l] = InsertAt(RemoveAt(@, i), j, e)]
    PROVE  /\ heap' \in Heap /\ es' \in [Lists -> Seq(used')]
           /\ Mem' /\ Detached'
<1> DEFINE s == es[l]
           t == InsertAt(RemoveAt(s, i), j, e)
<1>1. /\ heap \in Heap /\ Holds(heap, l, s) /\ s \in Seq(used) /\ s \in Seq(Elems)
      /\ Range(s) \subseteq used /\ Range(s) \subseteq Elems
      /\ \A m \in Lists \ {l} : Range(s) \intersect Range(es[m]) = {}
      /\ \A x \in Range(s) : heap.list[x] = l /\ x \notin cleared
  BY ListFacts
<1>2. \A x \in Elems : x \in Range(s) <=> heap.list[x] = l /\ x \notin cleared
  BY DEF Mem
<1>3. /\ e = s[i] /\ i \in 1..Len(s) /\ j \in 1..Len(s) /\ es' = [es EXCEPT ![l] = t]
      /\ at = Nth(l, RemoveAt(s, i), j - 1)
  OBVIOUS
<1>4. Rearranged(move(heap, s[i], at), heap, l, s, InsertAt(RemoveAt(s, i), j, s[i]))
  <2> HIDE DEF s
  <2> QED
    BY <1>1, <1>3, MoveHolds
<1>5. /\ heap' \in Heap /\ t \in Seq(Elems) /\ Range(t) = Range(s) /\ Holds(heap', l, t)
      /\ heap'.list = heap.list
      /\ SameOutside(heap', heap, l, Range(s))
  BY <1>3, <1>4 DEF Rearranged
<1> HIDE DEF t
<1>6. t \in Seq(used')
  <2>1. \A k \in 1..Len(t) : t[k] \in Range(t)
    BY <1>5 DEF Range
  <2>2. Range(t) \subseteq used'
    BY <1>1, <1>5
  <2> QED
    BY <1>5, <2>1, <2>2
<1>7. Mem'
  <2> DEFINE E == Range(s)
  <2>1. E \in SUBSET Elems /\ SameOutside(heap', heap, l, E)
    BY <1>1, <1>5
  <2>2. \A m \in Lists \ {l} : E \intersect Range(es[m]) = {}
    BY <1>1
  <2> HIDE DEF E
  <2>3. \A x \in Elems : x \in Range(t) <=> heap'.list[x] = l /\ x \notin cleared'
    BY <1>2, <1>5
  <2>4. \A m \in Lists \ {l}, x \in Elems :
            (heap'.list[x] = m /\ x \notin cleared') <=> (heap.list[x] = m /\ x \notin cleared)
    BY <1>5
  <2> QED
    BY <1>3, <1>5, <2>1, <2>2, <2>3, <2>4, OneListStep
<1>8. Detached'
  <2> SUFFICES ASSUME NEW x \in used', heap'.list[x] = Nil
               PROVE  heap'.next[x] = Nil /\ heap'.prev[x] = Nil
    BY DEF Detached
  <2>1. x \in Elems /\ x # l /\ x \in used /\ l # Nil
    BY ListConstants, ListFacts
  <2>2. heap.list[x] = Nil /\ x \notin Range(s)
    BY <1>1, <1>5, <2>1
  <2> QED
    BY <1>5, <2>1, <2>2 DEF Detached, SameOutside, Node
<1>9. es' \in [Lists -> Seq(used')]
  BY <1>3, <1>6 DEF TypeOK
<1> QED
  BY <1>5, <1>7, <1>8, <1>9

-----------------------------------------------------------------------------
(* The inductive invariant: Mem alone says nothing of a copy loop's cursor, *)
(* and CopyLoop needs Mem to follow it along the ring.                      *)
IInv == TypeOK /\ Mem /\ Detached /\ CopyLoop

(* Zero lists and unallocated elements satisfy the inductive invariant. *)
LEMMA InitIInv == Init => IInv
<1> SUFFICES ASSUME Init PROVE IInv
  OBVIOUS
<1>1. heap \in Heap
  BY DEF Init, Heap
<1>2. TypeOK
  BY <1>1 DEF Init, TypeOK, NoCopy
<1>3. Mem
  <2>1. IsInjective(<<>>) /\ Range(<<>>) = {} /\ Len(<<>>) = 0
    BY DEF IsInjective, Range
  <2>2. \A l \in Lists : es[l] = <<>> /\ heap.length[l] = 0 /\ heap.next[l] = Nil /\ heap.prev[l] = Nil
    BY DEF Init, Node
  <2>3. \A e \in Elems, l \in Lists : heap.list[e] # l
    BY ListConstants DEF Init
  <2> QED
    BY <2>1, <2>2, <2>3 DEF Mem
<1>4. Detached
  BY DEF Init, Detached
<1>5. CopyLoop
  BY DEF Init, CopyLoop, Idle, NoCopy
<1> QED
  BY <1>2, <1>3, <1>4, <1>5 DEF IInv

(* A call that runs in one step leaves no copy loop in progress. *)
LEMMA IdleStep ==
    ASSUME IInv, Idle, copy' = copy, heap' \in Heap, used' \in SUBSET Elems,
           cleared' \in SUBSET used', es' \in [Lists -> Seq(used')], Mem', Detached'
    PROVE  IInv'
<1>1. copy = NoCopy
  BY DEF IInv, TypeOK, Idle
<1>2. TypeOK'
  BY <1>1 DEF TypeOK
<1>3. CopyLoop'
  BY DEF CopyLoop, Idle
<1> QED
  BY <1>2, <1>3 DEF IInv

(* List.Init preserves the invariant: the elements it cuts off become *)
(* cleared.                                                              *)
LEMMA ClearIInv ==
    ASSUME IInv, NEW l \in Lists, ClearList(l)
    PROVE  IInv'
<1>1. TypeOK /\ Mem /\ Detached /\ Idle
  BY DEF IInv, ClearList
<1>2. /\ heap \in Heap /\ Range(es[l]) \subseteq used /\ Range(es[l]) \subseteq Elems
      /\ used \subseteq Elems /\ cleared \subseteq used
      /\ \A x \in Range(es[l]) : heap.list[x] = l
  BY <1>1, ListFacts
<1>3. /\ heap' = InitList(heap, l) /\ es' = [es EXCEPT ![l] = <<>>]
      /\ cleared' = cleared \union Range(es[l]) /\ used' = used /\ copy' = copy
  BY DEF ClearList
<1>4. /\ heap' \in Heap /\ heap'.list = heap.list
      /\ \A m \in Lists : heap'.length[m] = IF m = l THEN 0 ELSE heap.length[m]
      /\ \A n \in Node : heap'.next[n] = IF n = l THEN l ELSE heap.next[n]
      /\ \A n \in Node : heap'.prev[n] = IF n = l THEN l ELSE heap.prev[n]
  BY <1>2, <1>3, InitListFacts
<1>5. l \in Node /\ l # Nil
  BY ListConstants DEF Node
<1>6. Ring(heap', l, <<>>)
  BY <1>4, <1>5 DEF Ring, Nth
<1>7. Holds(heap', l, <<>>)
  BY <1>4, <1>5, <1>6 DEF Holds, IsInjective
<1>8. SameOutside(heap', heap, l, {})
  BY <1>4 DEF SameOutside
<1>9. \A x \in Elems : x \in Range(es[l]) <=> heap.list[x] = l /\ x \notin cleared
  BY <1>1 DEF Mem
<1>10. \A x \in Elems : x \in Range(<<>>) <=> heap'.list[x] = l /\ x \notin cleared'
  BY <1>3, <1>4, <1>9 DEF Range
<1>11. \A m \in Lists \ {l}, x \in Elems :
            (heap'.list[x] = m /\ x \notin cleared') <=> (heap.list[x] = m /\ x \notin cleared)
  BY <1>2, <1>3, <1>4
<1>12. Mem'
  <2>1. {} \in SUBSET Elems /\ \A m \in Lists \ {l} : {} \intersect Range(es[m]) = {}
    OBVIOUS
  <2> QED
    BY <1>1, <1>3, <1>7, <1>8, <1>10, <1>11, <2>1, OneListStep
<1>13. Detached'
  BY <1>1, <1>2, <1>3, <1>4, ListConstants DEF Detached, Node
<1>14. es' \in [Lists -> Seq(used')]
  BY <1>1, <1>3 DEF TypeOK
<1> QED
  BY <1>1, <1>2, <1>3, <1>4, <1>12, <1>13, <1>14, IdleStep

(* The four calls that insert at a position i. *)
LEMMA InsertIInv ==
    ASSUME IInv, Idle, NEW l \in Lists, NEW e \in Elems, e \notin used, NEW v \in Values,
           NEW i \in 1..Len(es[l]) + 1, NEW at, at = Nth(l, es[l], i - 1),
           heap' = insert(lazyInit(heap, l), l, e, v, at),
           used' = used \union {e}, UNCHANGED <<cleared, copy>>,
           es' = [es EXCEPT ![l] = InsertAt(@, i, e)]
    PROVE  IInv'
<1>1. TypeOK /\ Mem /\ Detached
  BY DEF IInv
<1>2. used \subseteq Elems /\ cleared \subseteq used
  BY <1>1, ListFacts
<1>3. v \in Values \union {Nil} /\ cleared' = cleared /\ copy' = copy
  OBVIOUS
<1>4. heap' \in Heap /\ es' \in [Lists -> Seq(used')] /\ Mem' /\ Detached'
  BY <1>1, <1>3, InsertStep
<1> QED
  BY <1>2, <1>3, <1>4, IdleStep

(* PushFront preserves the invariant. *)
LEMMA PushFrontIInv ==
    ASSUME IInv, NEW l \in Lists, NEW e \in Elems, NEW v \in Values, PushFront(l, e, v)
    PROVE  IInv'
<1>1. es[l] \in Seq(Elems) /\ Len(es[l]) \in Nat
  BY ListFacts DEF IInv
<1>2. 1 \in 1..Len(es[l]) + 1 /\ l = Nth(l, es[l], 1 - 1)
  BY <1>1 DEF Nth
<1> QED
  BY <1>2, InsertIInv DEF PushFront

(* PushBack preserves the invariant. *)
LEMMA PushBackIInv ==
    ASSUME IInv, NEW l \in Lists, NEW e \in Elems, NEW v \in Values, PushBack(l, e, v)
    PROVE  IInv'
<1> DEFINE h == lazyInit(heap, l)
           i == Len(es[l]) + 1
<1>1. es[l] \in Seq(Elems) /\ Len(es[l]) \in Nat /\ heap \in Heap /\ Holds(heap, l, es[l])
  BY ListFacts DEF IInv
<1>2. Holds(h, l, es[l]) /\ h.next[l] # Nil
  BY <1>1, LazyHolds
<1>3. h.prev[l] = Nth(l, es[l], Len(es[l]))
  BY <1>1, <1>2, RingNotNil DEF Holds
<1>4. i \in 1..Len(es[l]) + 1 /\ h.prev[l] = Nth(l, es[l], i - 1)
  BY <1>1, <1>3
<1> QED
  BY <1>4, InsertIInv DEF PushBack

(* An element whose list field is l and that Init did not cut off is at    *)
(* exactly one position k of l, and lazyInit has nothing to do.            *)
LEMMA MemberFacts ==
    ASSUME IInv, NEW l \in Lists, NEW e \in Known, ~ReuseCleared, heap.list[e] = l
    PROVE  /\ e \in Range(es[l])
           /\ Index(es[l], e) \in 1..Len(es[l]) /\ es[l][Index(es[l], e)] = e
           /\ es[l] \in Seq(Elems) /\ IsInjective(es[l]) /\ Ring(heap, l, es[l])
           /\ lazyInit(heap, l) = heap
<1>1. e \in Range(es[l])
  BY ListFacts DEF IInv, Known
<1>2. es[l] \in Seq(Elems) /\ Holds(heap, l, es[l])
  BY ListFacts DEF IInv
<1>3. Index(es[l], e) \in 1..Len(es[l]) /\ es[l][Index(es[l], e)] = e
  BY <1>1, <1>2, IndexFacts
<1>4. es[l] # <<>>
  BY <1>1 DEF Range
<1> QED
  BY <1>1, <1>2, <1>3, <1>4 DEF Holds, lazyInit

(* InsertBefore preserves the invariant: mark.prev is the node before *)
(* mark.                                                              *)
LEMMA InsertBeforeIInv ==
    ASSUME IInv, ~ReuseCleared, NEW l \in Lists, NEW e \in Elems, NEW v \in Values,
           NEW mark \in Elems, InsertBefore(l, e, v, mark)
    PROVE  IInv'
<1> DEFINE s == es[l]
           k == Index(s, mark)
           at == heap.prev[mark]
<1>1. mark \in Known /\ heap.list[mark] = l
  BY DEF InsertBefore
<1>2. /\ mark \in Range(s) /\ k \in 1..Len(s) /\ s[k] = mark /\ s \in Seq(Elems)
      /\ IsInjective(s) /\ Ring(heap, l, s) /\ lazyInit(heap, l) = heap
  BY <1>1, MemberFacts
<1>3. InsertedBefore(s, e, mark) = InsertAt(s, k, e)
  BY <1>2 DEF InsertedBefore
<1> HIDE DEF k
<1>4. k \in 1..Len(s) + 1 /\ mark = Nth(l, s, (k - 1) + 1) /\ k - 1 \in 0..Len(s)
  BY <1>2 DEF Nth
<1>5. at = Nth(l, s, k - 1)
  <2>1. \A m \in 0..Len(s) : heap.prev[Nth(l, s, m + 1)] = Nth(l, s, m)
    BY <1>2, RingFacts
  <2>2. heap.prev[Nth(l, s, (k - 1) + 1)] = Nth(l, s, k - 1)
    BY <1>4, <2>1, Zenon
  <2> QED
    BY <1>4, <2>2, Zenon
<1>6. /\ Idle /\ e \notin used /\ heap' = insert(lazyInit(heap, l), l, e, v, at)
      /\ used' = used \union {e} /\ UNCHANGED <<cleared, copy>>
      /\ es' = [es EXCEPT ![l] = InsertAt(@, k, e)]
  BY <1>2, <1>3 DEF InsertBefore
<1> HIDE DEF at
<1> QED
  BY <1>4, <1>5, <1>6, InsertIInv

(* InsertAfter preserves the invariant. *)
LEMMA InsertAfterIInv ==
    ASSUME IInv, ~ReuseCleared, NEW l \in Lists, NEW e \in Elems, NEW v \in Values,
           NEW mark \in Elems, InsertAfter(l, e, v, mark)
    PROVE  IInv'
<1> DEFINE s == es[l]
           k == Index(s, mark)
           i == k + 1
<1>1. mark \in Known /\ heap.list[mark] = l
  BY DEF InsertAfter
<1>2. /\ mark \in Range(s) /\ k \in 1..Len(s) /\ s[k] = mark /\ s \in Seq(Elems)
      /\ lazyInit(heap, l) = heap
  BY <1>1, MemberFacts
<1>3. InsertedAfter(s, e, mark) = InsertAt(s, i, e)
  BY <1>2 DEF InsertedAfter
<1> HIDE DEF k
<1>4. i \in 1..Len(s) + 1 /\ mark = Nth(l, s, i - 1)
  BY <1>2 DEF Nth
<1> HIDE DEF i
<1>5. /\ Idle /\ e \notin used /\ heap' = insert(lazyInit(heap, l), l, e, v, mark)
      /\ used' = used \union {e} /\ UNCHANGED <<cleared, copy>>
      /\ es' = [es EXCEPT ![l] = InsertAt(@, i, e)]
  BY <1>2, <1>3 DEF InsertAfter
<1> QED
  BY <1>4, <1>5, InsertIInv

(* Remove preserves the invariant and leaves the element detached. *)
LEMMA RemoveIInv ==
    ASSUME IInv, ~ReuseCleared, NEW l \in Lists, NEW e \in Elems, Remove_(l, e)
    PROVE  IInv'
<1> DEFINE s == es[l]
           i == Index(s, e)
<1>1. e \in Known /\ heap.list[e] = l
  BY DEF Remove_
<1>2. e \in Range(s) /\ i \in 1..Len(s) /\ s[i] = e
  BY <1>1, MemberFacts
<1>3. Removed(s, e) = RemoveAt(s, i)
  BY <1>2 DEF Removed
<1> HIDE DEF i
<1>4. /\ Idle /\ heap' = remove(heap, l, e) /\ used' = used /\ cleared' = cleared /\ copy' = copy
      /\ es' = [es EXCEPT ![l] = RemoveAt(@, i)]
  BY <1>3 DEF Remove_
<1>5. TypeOK /\ Mem /\ Detached /\ used \subseteq Elems /\ cleared \subseteq used
  BY DEF IInv, TypeOK
<1>6. heap' \in Heap /\ es' \in [Lists -> Seq(used')] /\ Mem' /\ Detached'
  BY <1>2, <1>4, <1>5, RemoveStep
<1> QED
  BY <1>4, <1>5, <1>6, IdleStep

(* A move of an element of l that follows the documented sequence *)
(* preserves the invariant.                                       *)
LEMMA MoveIInv ==
    ASSUME IInv, Idle, NEW l \in Lists,
           NEW i \in 1..Len(es[l]), NEW j \in 1..Len(es[l]), NEW e, e = es[l][i],
           NEW at, at = Nth(l, RemoveAt(es[l], i), j - 1),
           heap' = move(heap, e, at), UNCHANGED <<used, cleared, copy>>,
           es' = [es EXCEPT ![l] = InsertAt(RemoveAt(@, i), j, e)]
    PROVE  IInv'
<1>1. TypeOK /\ Mem /\ Detached /\ used \subseteq Elems /\ cleared \subseteq used
  BY DEF IInv, TypeOK
<1>2. used' = used /\ cleared' = cleared /\ copy' = copy
  OBVIOUS
<1>3. heap' \in Heap /\ es' \in [Lists -> Seq(used')] /\ Mem' /\ Detached'
  BY <1>1, <1>2, MoveStep
<1> QED
  BY <1>1, <1>2, <1>3, IdleStep

(* MoveToFront preserves the invariant. *)
LEMMA MoveToFrontIInv ==
    ASSUME IInv, ~ReuseCleared, NEW l \in Lists, NEW e \in Elems, MoveToFront(l, e)
    PROVE  IInv'
<1> DEFINE s == es[l]
           i == Index(s, e)
<1>1. e \in Known /\ heap.list[e] = l
  BY DEF MoveToFront
<1>2. e \in Range(s) /\ i \in 1..Len(s) /\ s[i] = e /\ s \in Seq(Elems)
  BY <1>1, MemberFacts
<1>3. MovedToFront(s, e) = InsertAt(RemoveAt(s, i), 1, e)
  BY <1>2 DEF MovedToFront, Moved, Removed
<1> HIDE DEF i
<1>4. 1 \in 1..Len(s) /\ l = Nth(l, RemoveAt(s, i), 1 - 1)
  BY <1>2 DEF Nth
<1>5. /\ Idle /\ heap' = move(heap, e, l) /\ UNCHANGED <<used, cleared, copy>>
      /\ es' = [es EXCEPT ![l] = InsertAt(RemoveAt(@, i), 1, e)]
  BY <1>3 DEF MoveToFront
<1> QED
  BY <1>2, <1>4, <1>5, MoveIInv

(* MoveToBack preserves the invariant. *)
LEMMA MoveToBackIInv ==
    ASSUME IInv, ~ReuseCleared, NEW l \in Lists, NEW e \in Elems, MoveToBack(l, e)
    PROVE  IInv'
<1> DEFINE s == es[l]
           i == Index(s, e)
           j == Len(s)
           at == heap.prev[l]
<1>1. e \in Known /\ heap.list[e] = l /\ at # e
  BY DEF MoveToBack
<1>2. /\ e \in Range(s) /\ i \in 1..Len(s) /\ s[i] = e /\ s \in Seq(Elems)
      /\ IsInjective(s) /\ Ring(heap, l, s)
  BY <1>1, MemberFacts
<1>3. MovedToBack(s, e) = InsertAt(RemoveAt(s, i), j, e)
  BY <1>2 DEF MovedToBack, Moved, Removed
<1> HIDE DEF i
<1>4. at = Nth(l, s, Len(s)) /\ Len(s) \in Nat
  BY <1>2, RingNotNil
<1>5. i # Len(s) /\ j \in 1..Len(s)
  BY <1>1, <1>2, <1>4 DEF Nth
<1>6. at = Nth(l, RemoveAt(s, i), j - 1)
  <2>1. j - 1 \in 0..Len(s) /\ ~(j - 1 < i) /\ (j - 1) + 1 = Len(s)
    BY <1>2, <1>4, <1>5
  <2> QED
    BY <1>2, <1>4, <2>1, NthRemoveAt
<1>7. /\ Idle /\ heap' = move(heap, e, at) /\ UNCHANGED <<used, cleared, copy>>
      /\ es' = [es EXCEPT ![l] = InsertAt(RemoveAt(@, i), j, e)]
  BY <1>3 DEF MoveToBack
<1> HIDE DEF at, j
<1> QED
  BY <1>2, <1>5, <1>6, <1>7, MoveIInv

(* Where mark is once e has been taken out. *)
LEMMA MarkFacts ==
    ASSUME NEW l \in Lists, NEW s \in Seq(Elems), IsInjective(s), NEW i \in 1..Len(s),
           NEW mark \in Range(s), mark # s[i]
    PROVE  LET r == RemoveAt(s, i)
               j == Index(r, mark)
           IN  /\ mark \in Range(r) /\ j \in 1..Len(s) - 1 /\ r[j] = mark
               /\ mark = Nth(l, r, j)
               /\ mark = Nth(l, s, IF j < i THEN j ELSE j + 1)
<1> DEFINE r == RemoveAt(s, i)
           j == Index(r, mark)
<1>1. r \in Seq(Elems) /\ Len(r) = Len(s) - 1
  BY RemoveAtFacts
<1>2. Range(r) = Range(s) \ {s[i]}
  BY RemoveAtRange
<1> HIDE DEF r
<1>3. mark \in Range(r)
  BY <1>2
<1>4. j \in 1..Len(r) /\ r[j] = mark
  BY <1>1, <1>3, IndexFacts
<1> HIDE DEF j
<1>5. j \in 1..Len(s) - 1 /\ mark = Nth(l, r, j)
  BY <1>1, <1>4 DEF Nth
<1>6. mark = Nth(l, s, IF j < i THEN j ELSE j + 1)
  <2>1. j \in 0..Len(s) /\ Len(s) \in Nat
    BY <1>5
  <2>2. Nth(l, r, j) = IF j < i THEN Nth(l, s, j) ELSE Nth(l, s, j + 1)
    BY <2>1, NthRemoveAt DEF r
  <2> QED
    BY <1>5, <2>2
<1> QED
  BY <1>3, <1>4, <1>5, <1>6 DEF r, j

(* MoveBefore preserves the invariant, also when e already precedes mark *)
(* and move returns at once.                                             *)
LEMMA MoveBeforeIInv ==
    ASSUME IInv, ~ReuseCleared, NEW l \in Lists, NEW e \in Elems, NEW mark \in Elems,
           MoveBefore(l, e, mark)
    PROVE  IInv'
<1> DEFINE s == es[l]
           i == Index(s, e)
           r == RemoveAt(s, i)
           j == Index(r, mark)
           k == IF j < i THEN j ELSE j + 1
           at == heap.prev[mark]
<1>1. e \in Known /\ mark \in Known /\ heap.list[e] = l /\ heap.list[mark] = l /\ e # mark
  BY DEF MoveBefore
<1>2. /\ e \in Range(s) /\ i \in 1..Len(s) /\ s[i] = e /\ s \in Seq(Elems)
      /\ IsInjective(s) /\ Ring(heap, l, s) /\ mark \in Range(s)
  BY <1>1, MemberFacts
<1>3. MovedBefore(s, e, mark) = InsertAt(RemoveAt(s, i), j, e)
  BY <1>2 DEF MovedBefore, Moved, Removed
<1>4. /\ Idle /\ heap' = move(heap, e, at) /\ UNCHANGED <<used, cleared, copy>>
      /\ es' = [es EXCEPT ![l] = InsertAt(RemoveAt(@, i), j, e)]
  BY <1>3 DEF MoveBefore
<1> HIDE DEF i
<1>5. j \in 1..Len(s) - 1 /\ mark = Nth(l, s, k) /\ Len(s) \in Nat
  BY <1>1, <1>2, MarkFacts
<1> HIDE DEF r, j
<1>6. k \in 1..Len(s) /\ k - 1 \in 0..Len(s) /\ (k - 1) + 1 = k /\ j - 1 \in 0..Len(s)
  BY <1>2, <1>5
<1>7. at = Nth(l, s, k - 1)
  <2> HIDE DEF k
  <2>1. \A m \in 0..Len(s) : heap.prev[Nth(l, s, m + 1)] = Nth(l, s, m)
    BY <1>2, RingFacts
  <2>2. heap.prev[Nth(l, s, (k - 1) + 1)] = Nth(l, s, k - 1)
    BY <1>6, <2>1, Zenon
  <2> QED
    BY <1>5, <1>6, <2>2, Zenon
<1>8. CASE at = e
  <2>1. e = Nth(l, s, i)
    BY <1>2 DEF Nth
  <2>2. k - 1 = i
    BY <1>2, <1>6, <1>7, <1>8, <2>1, NthFacts
  <2>3. j = i
    BY <1>2, <1>5, <2>2
  <2>4. InsertAt(RemoveAt(s, i), j, e) = s
    BY <1>2, <2>3, RemoveInsertSame
  <2>5. es' = es
    BY <1>4, <2>4 DEF IInv, TypeOK
  <2>6. heap' = heap
    BY <1>4, <1>8 DEF move
  <2> QED
    BY <1>4, <2>5, <2>6 DEF IInv, TypeOK, Mem, Detached, CopyLoop, Idle
<1>9. CASE at # e
  <2>1. e = Nth(l, s, i)
    BY <1>2 DEF Nth
  <2>2. k - 1 # i
    BY <1>7, <1>9, <2>1
  <2>3. Nth(l, RemoveAt(s, i), j - 1) = IF j - 1 < i THEN Nth(l, s, j - 1) ELSE Nth(l, s, (j - 1) + 1)
    BY <1>2, <1>6, NthRemoveAt
  <2>4. (IF j - 1 < i THEN j - 1 ELSE (j - 1) + 1) = k - 1
    BY <1>2, <1>5, <2>2
  <2>5. at = Nth(l, RemoveAt(s, i), j - 1)
    BY <1>7, <2>3, <2>4
  <2>6. j \in 1..Len(s)
    BY <1>5
  <2> HIDE DEF at
  <2> QED
    BY <1>2, <1>4, <2>5, <2>6, MoveIInv
<1> QED
  BY <1>8, <1>9

(* MoveAfter preserves the invariant. *)
LEMMA MoveAfterIInv ==
    ASSUME IInv, ~ReuseCleared, NEW l \in Lists, NEW e \in Elems, NEW mark \in Elems,
           MoveAfter(l, e, mark)
    PROVE  IInv'
<1> DEFINE s == es[l]
           i == Index(s, e)
           p == Index(RemoveAt(s, i), mark)
           j == p + 1
<1>1. e \in Known /\ mark \in Known /\ heap.list[e] = l /\ heap.list[mark] = l /\ e # mark
  BY DEF MoveAfter
<1>2. /\ e \in Range(s) /\ i \in 1..Len(s) /\ s[i] = e /\ s \in Seq(Elems)
      /\ IsInjective(s) /\ mark \in Range(s)
  BY <1>1, MemberFacts
<1>3. MovedAfter(s, e, mark) = InsertAt(RemoveAt(s, i), j, e)
  BY <1>2 DEF MovedAfter, Moved, Removed
<1>4. /\ Idle /\ heap' = move(heap, e, mark) /\ UNCHANGED <<used, cleared, copy>>
      /\ es' = [es EXCEPT ![l] = InsertAt(RemoveAt(@, i), j, e)]
  BY <1>3 DEF MoveAfter
<1> HIDE DEF i
<1>5. p \in 1..Len(s) - 1 /\ mark = Nth(l, RemoveAt(s, i), p) /\ Len(s) \in Nat
  BY <1>1, <1>2, MarkFacts
<1> HIDE DEF p
<1>6. j \in 1..Len(s) /\ j - 1 = p
  BY <1>5
<1>7. mark = Nth(l, RemoveAt(s, i), j - 1)
  BY <1>5, <1>6
<1> HIDE DEF j
<1> QED
  BY <1>2, <1>4, <1>6, <1>7, MoveIInv

(* Next and Prev go to the neighbour in the list. *)
LEMMA NeighbourFacts ==
    ASSUME NEW h, NEW l \in Lists, NEW s \in Seq(Elems), IsInjective(s), Ring(h, l, s),
           NEW c \in 1..Len(s), h.list[s[c]] = l
    PROVE  /\ c < Len(s) => ElemNext(h, s[c]) = s[c + 1] /\ s[c + 1] \in Elems
           /\ c > 1 => ElemPrev(h, s[c]) = s[c - 1] /\ s[c - 1] \in Elems
           /\ c = Len(s) => ElemNext(h, s[c]) = Nil
           /\ c = 1 => ElemPrev(h, s[c]) = Nil
<1>1. Len(s) \in Nat /\ c \in 0..Len(s) /\ c - 1 \in 0..Len(s) /\ (c - 1) + 1 = c
  OBVIOUS
<1>2. Nth(l, s, c) = s[c] /\ l # Nil
  BY <1>1, ListConstants DEF Nth
<1>3. h.next[s[c]] = Nth(l, s, c + 1) /\ h.prev[s[c]] = Nth(l, s, c - 1)
  <2>1. \A k \in 0..Len(s) : /\ h.next[Nth(l, s, k)] = Nth(l, s, k + 1)
                             /\ h.prev[Nth(l, s, k + 1)] = Nth(l, s, k)
    BY RingFacts
  <2>2. h.prev[Nth(l, s, (c - 1) + 1)] = Nth(l, s, c - 1)
    BY <1>1, <2>1
  <2> QED
    BY <1>1, <1>2, <2>1, <2>2
<1>4. ASSUME c < Len(s) PROVE ElemNext(h, s[c]) = s[c + 1] /\ s[c + 1] \in Elems
  <2>1. Nth(l, s, c + 1) = s[c + 1] /\ s[c + 1] \in Elems /\ s[c + 1] # l
    BY <1>1, <1>4, ListConstants DEF Nth
  <2> QED
    BY <1>2, <1>3, <2>1 DEF ElemNext
<1>5. ASSUME c > 1 PROVE ElemPrev(h, s[c]) = s[c - 1] /\ s[c - 1] \in Elems
  <2>1. Nth(l, s, c - 1) = s[c - 1] /\ s[c - 1] \in Elems /\ s[c - 1] # l
    BY <1>1, <1>5, ListConstants DEF Nth
  <2> QED
    BY <1>2, <1>3, <2>1 DEF ElemPrev
<1>6. ASSUME c = Len(s) PROVE ElemNext(h, s[c]) = Nil
  <2>1. Nth(l, s, c + 1) = l
    BY <1>1, <1>6 DEF Nth
  <2> QED
    BY <1>3, <2>1 DEF ElemNext
<1>7. ASSUME c = 1 PROVE ElemPrev(h, s[c]) = Nil
  <2>1. Nth(l, s, c - 1) = l
    BY <1>1, <1>7 DEF Nth
  <2> QED
    BY <1>3, <2>1 DEF ElemPrev
<1> QED
  BY <1>4, <1>5, <1>6, <1>7

(* PushBackList and PushFrontList enter their loops at the first element *)
(* to copy.                                                              *)
LEMMA CopyBeginIInv ==
    ASSUME IInv, NEW l \in Lists, NEW other \in Lists, NEW atBack \in BOOLEAN,
           CopyBegin(l, other, atBack)
    PROVE  IInv'
<1> DEFINE n == Len(es[other])
<1>1. TypeOK /\ Mem /\ Detached /\ Idle
  BY DEF IInv, CopyBegin
<1>2. /\ heap \in Heap /\ Holds(heap, l, es[l]) /\ es[l] \in Seq(Elems)
      /\ used \subseteq Elems /\ cleared \subseteq used
  BY <1>1, ListFacts
<1>3. /\ heap' = lazyInit(heap, l) /\ used' = used /\ cleared' = cleared /\ es' = es
  BY DEF CopyBegin
<1>4. /\ heap' \in Heap /\ heap'.list = heap.list /\ Holds(heap', l, es[l]) /\ heap'.next[l] # Nil
      /\ SameOutside(heap', heap, l, {})
  BY <1>2, <1>3, LazyHolds
<1>5. Mem'
  <2>1. es' = [es EXCEPT ![l] = es[l]]
    BY <1>1, <1>3 DEF TypeOK
  <2>2. \A x \in Elems : x \in Range(es[l]) <=> heap'.list[x] = l /\ x \notin cleared'
    BY <1>1, <1>3, <1>4 DEF Mem
  <2>3. \A m \in Lists \ {l}, x \in Elems :
            (heap'.list[x] = m /\ x \notin cleared') <=> (heap.list[x] = m /\ x \notin cleared)
    BY <1>3, <1>4
  <2>4. {} \in SUBSET Elems /\ \A m \in Lists \ {l} : {} \intersect Range(es[m]) = {}
    OBVIOUS
  <2> QED
    BY <1>1, <1>4, <2>1, <2>2, <2>3, <2>4, OneListStep
<1>6. Detached'
  BY <1>1, <1>2, <1>3, <1>4, ListConstants DEF Detached, SameOutside, Node
<1>7. es' \in [Lists -> Seq(used')] /\ used' \in SUBSET Elems /\ cleared' \in SUBSET used'
  BY <1>1, <1>3 DEF TypeOK
<1>8. Holds(heap', other, es[other]) /\ heap'.length[other] = n
  BY <1>3, <1>5 DEF Mem, Holds
<1>9. es[other] \in Seq(used) /\ es[other] \in Seq(Elems) /\ n \in Nat
  BY <1>1, ListFacts
<1>10. CASE n = 0
  <2>1. copy' = NoCopy
    BY <1>3, <1>8, <1>10 DEF CopyBegin
  <2>2. CopyLoop'
    BY <2>1 DEF CopyLoop, Idle, NoCopy
  <2>3. TypeOK'
    BY <1>4, <1>7, <2>1 DEF TypeOK
  <2> QED
    BY <1>5, <1>6, <2>2, <2>3 DEF IInv
<1>11. CASE n # 0
  <2> DEFINE x == IF atBack THEN es[other][1] ELSE es[other][n]
  <2>1. es[other] # <<>> /\ heap'.next[other] # Nil /\ Ring(heap', other, es[other])
        /\ IsInjective(es[other])
    BY <1>8, <1>9, <1>11 DEF Holds
  <2>2. 0 \in 0..n /\ n \in 0..n /\ Nth(other, es[other], 0) = other
        /\ Nth(other, es[other], n + 1) = other
        /\ Nth(other, es[other], 0 + 1) = es[other][1] /\ Nth(other, es[other], n) = es[other][n]
    BY <1>9, <1>11 DEF Nth
  <2>3. heap'.next[other] = es[other][1] /\ heap'.prev[other] = es[other][n]
    <3>1. \A k \in 0..n : /\ heap'.next[Nth(other, es[other], k)] = Nth(other, es[other], k + 1)
                          /\ heap'.prev[Nth(other, es[other], k + 1)] = Nth(other, es[other], k)
      BY <1>9, <2>1, RingFacts
    <3> QED
      BY <2>2, <3>1
  <2>4. ListFront(heap', other) = es[other][1] /\ ListBack(heap', other) = es[other][n]
    BY <1>8, <1>11, <2>3 DEF ListFront, ListBack
  <2>5. copy' = [l |-> l, other |-> other, i |-> n, e |-> x, atBack |-> atBack, n0 |-> Len(es[l])]
    BY <1>3, <1>8, <1>9, <1>11, <2>4 DEF CopyBegin
  <2>6. x \in used /\ Len(es[l]) \in Nat /\ n \in Nat \ {0}
    BY <1>2, <1>9, <1>11
  <2> HIDE DEF x
  <2>7. /\ copy'.l = l /\ copy'.other = other /\ copy'.i = n /\ copy'.e = x
        /\ copy'.atBack = atBack /\ copy'.n0 = Len(es[l])
    BY <2>5
  <2>8. copy' \in [l : Lists, other : Lists, i : Nat \ {0}, e : used', atBack : BOOLEAN, n0 : Nat]
    BY <1>3, <2>5, <2>6
  <2>9. TypeOK'
    BY <1>4, <1>7, <2>8 DEF TypeOK
  <2>10. CopyLoop'
    <3> DEFINE m == IF other = l THEN Len(es[l]) ELSE Len(es[other])
               c == IF atBack THEN m - n + 1 ELSE IF other = l THEN m ELSE n
    <3> HIDE DEF n
    <3>1. m = n
      BY DEF n
    <3>a. c = IF atBack THEN 1 ELSE n
      <4> HIDE DEF m
      <4> QED
        BY <1>9, <3>1
    <3>2. x = es[other][c]
      BY <3>a DEF x
    <3>3. n <= m /\ Len(es[l]) = Len(es[l]) + (m - n)
      <4> HIDE DEF m
      <4> QED
        BY <1>9, <2>6, <3>1
    <3> QED
      BY <1>3, <1>4, <2>7, <3>2, <3>3 DEF CopyLoop
  <2> QED
    BY <1>5, <1>6, <2>9, <2>10 DEF IInv
<1> QED
  BY <1>10, <1>11

(* The counters of a copy loop, before and after an iteration. *)
LEMMA CopyCounters ==
    ASSUME NEW i \in Nat, NEW m \in Nat, NEW n0 \in Nat, NEW len, i <= m, len = n0 + (m - i)
    PROVE  /\ i - 1 <= m
           /\ len + 1 = n0 + (m - (i - 1))
           /\ m = n0 => m <= len
           /\ i > 1 => m > 1
  OBVIOUS

(* The position that a loop at the back has reached is in its list. *)
LEMMA CopyBackPosition ==
    ASSUME NEW i \in Nat, NEW m \in Nat, i <= m, i > 1
    PROVE  (m - i) + 1 \in Nat /\ (m - i) + 1 >= 1 /\ (m - i) + 1 <= m + (m - i)
  OBVIOUS

(* One iteration of a copy loop preserves the invariant: Next or Prev,    *)
(* called on the list that has just changed, finds the element whose turn *)
(* it is.                                                                 *)
LEMMA CopyStepIInv ==
    ASSUME IInv, NEW e \in Elems, CopyStep(e)
    PROVE  IInv'
<1> DEFINE l == copy.l
           other == copy.other
           i == copy.i
           m == IF other = l THEN copy.n0 ELSE Len(es[other])
           x == copy.e
           c == IF copy.atBack THEN m - i + 1 ELSE IF other = l THEN m ELSE i
           at == IF copy.atBack THEN heap.prev[l] ELSE l
           p == IF copy.atBack THEN Len(es[l]) + 1 ELSE 1
<1>1. TypeOK /\ Mem /\ Detached /\ ~Idle
  BY DEF IInv, CopyStep
<1>2. copy \in [l : Lists, other : Lists, i : Nat \ {0}, e : used, atBack : BOOLEAN, n0 : Nat]
  BY <1>1 DEF TypeOK, Idle, NoCopy
<1>3. l \in Lists /\ other \in Lists /\ i \in Nat /\ i # 0 /\ x \in used /\ copy.n0 \in Nat
      /\ copy.atBack \in BOOLEAN
  BY <1>2
<1>4. /\ heap \in Heap /\ Holds(heap, l, es[l]) /\ es[l] \in Seq(Elems)
      /\ used \subseteq Elems /\ cleared \subseteq used /\ Len(es[l]) \in Nat
  BY <1>1, <1>3, ListFacts
<1>5. es[other] \in Seq(Elems) /\ es[other] \in Seq(used) /\ Len(es[other]) \in Nat
      /\ IsInjective(es[other])
  BY <1>1, <1>3, ListFacts DEF Holds
<1>6. i <= m /\ Len(es[l]) = copy.n0 + (m - i) /\ heap.next[l] # Nil /\ x = es[other][c]
  BY <1>1 DEF IInv, CopyLoop
<1>m. m \in Nat
  BY <1>3, <1>5
<1>7. Ring(heap, l, es[l]) /\ IsInjective(es[l]) /\ lazyInit(heap, l) = heap
  BY <1>4, <1>6 DEF Holds, lazyInit
<1>8. p \in 1..Len(es[l]) + 1 /\ at = Nth(l, es[l], p - 1)
  <2>1. CASE copy.atBack
    <3>1. heap.prev[l] = Nth(l, es[l], Len(es[l]))
      BY <1>3, <1>4, <1>7, RingNotNil
    <3> QED
      BY <1>4, <2>1, <3>1
  <2>2. CASE ~copy.atBack
    BY <1>4, <2>2 DEF Nth
  <2> QED
    BY <2>1, <2>2
<1>9. heap.Value[x] \in Values \union {Nil}
  BY <1>3, <1>4 DEF Heap
<1>10. /\ e \notin used /\ used' = used \union {e} /\ cleared' = cleared
       /\ heap' = insert(lazyInit(heap, l), l, e, heap.Value[x], at)
       /\ es' = [es EXCEPT ![l] = InsertAt(@, p, e)]
  BY <1>7 DEF CopyStep
<1>11. copy' = IF i > 1
               THEN [copy EXCEPT !.i = i - 1,
                                 !.e = IF copy.atBack THEN ElemNext(heap', x) ELSE ElemPrev(heap', x)]
               ELSE NoCopy
  BY DEF CopyStep
<1> HIDE DEF at, p
<1>12. /\ heap' \in Heap /\ es' \in [Lists -> Seq(used')] /\ Mem' /\ Detached'
       /\ heap'.next[l] # Nil /\ Ring(heap', l, es'[l])
  <2> HIDE DEF l, x
  <2> QED
    BY <1>1, <1>3, <1>8, <1>9, <1>10, InsertStep
<1>13. used' \in SUBSET Elems /\ cleared' \in SUBSET used'
  BY <1>4, <1>10
<1>14. CASE ~(i > 1)
  <2>1. copy' = NoCopy
    BY <1>11, <1>14
  <2>2. CopyLoop'
    BY <2>1 DEF CopyLoop, Idle, NoCopy
  <2>3. TypeOK'
    BY <1>12, <1>13, <2>1 DEF TypeOK
  <2> QED
    BY <1>12, <2>2, <2>3 DEF IInv
<1>15. CASE i > 1
  <2> DEFINE q == es'[other]
             d == IF ~copy.atBack /\ other = l THEN c + 1 ELSE c
             f == IF copy.atBack THEN d + 1 ELSE d - 1
  <2>1. es'[l] = InsertAt(es[l], p, e) /\ Len(es'[l]) = Len(es[l]) + 1
    <3>1. es'[l] = InsertAt(es[l], p, e)
      BY <1>1, <1>3, <1>10 DEF TypeOK
    <3>2. Len(InsertAt(es[l], p, e)) = Len(es[l]) + 1
      BY <1>4, <1>8, InsertAtFacts
    <3> QED
      BY <3>1, <3>2
  <2>2. other # l => q = es[other]
    BY <1>1, <1>3, <1>10 DEF TypeOK
  <2>3. q \in Seq(Elems) /\ q \in Seq(used') /\ Len(q) \in Nat
    <3>1. q \in Seq(used')
      BY <1>3, <1>12
    <3> QED
      BY <1>13, <3>1
  <2>4. Len(q) = IF other = l THEN Len(es[l]) + 1 ELSE Len(es[other])
    BY <2>1, <2>2
  <2>5. IsInjective(q) /\ Holds(heap', other, q)
    BY <1>3, <1>12 DEF Mem, Holds
  <2>6. c \in 1..Len(es[other]) /\ d \in 1..Len(q) /\ f \in 1..Len(q)
        /\ (copy.atBack => d < Len(q)) /\ (~copy.atBack => d > 1)
    <3> HIDE DEF q
    <3>1. CASE copy.atBack /\ other = l
      <4>1. c = (m - i) + 1 /\ d = c /\ f = d + 1 /\ m = copy.n0
        BY <3>1, <1>3
      <4>2. Len(q) = Len(es[l]) + 1 /\ Len(es[other]) = Len(es[l]) /\ Len(es[l]) \in Nat
        BY <1>4, <2>4, <3>1
      <4>3. i \in Nat /\ i <= m /\ Len(es[l]) = m + (m - i) /\ i > 1 /\ m \in Nat
        BY <1>3, <1>6, <1>15, <1>m, <4>1
      <4> HIDE DEF i, m, c, d, f, l, other
      <4>4. c \in 1..Len(es[l]) /\ d < Len(q) /\ d \in 1..Len(q) /\ f \in 1..Len(q)
        <5>1. /\ (m - i) + 1 \in Nat /\ (m - i) + 1 >= 1
              /\ (m - i) + 1 <= m + (m - i)
          BY <4>3, CopyBackPosition
        <5>2. c \in Nat /\ c >= 1 /\ c <= Len(es[l])
          BY <4>1, <4>3, <5>1, Zenon
        <5> HIDE DEF c
        <5> QED
          BY <4>1, <4>2, <5>2
      <4> QED
        BY <3>1, <4>2, <4>4
    <3>2. CASE copy.atBack /\ other # l
      BY <1>3, <1>5, <1>6, <1>15, <2>4, <3>2
    <3>3. CASE ~copy.atBack /\ other = l
      <4>1. c = m /\ d = m + 1 /\ f = d - 1 /\ m = copy.n0
        BY <3>3
      <4>2. Len(q) = Len(es[l]) + 1 /\ Len(es[other]) = Len(es[l])
        BY <2>4, <3>3
      <4>3. m <= Len(es[l]) /\ m > 1 /\ m \in Nat /\ Len(es[l]) \in Nat
        <5>1. i \in Nat /\ copy.n0 \in Nat /\ i <= m /\ Len(es[l]) = copy.n0 + (m - i)
          BY <1>3, <1>6
        <5>2. m = copy.n0
          BY <4>1
        <5> HIDE DEF i, m, l
        <5>3. m <= Len(es[l])
          BY <1>m, <5>1, <5>2, CopyCounters
        <5>4. m > 1
          BY <1>15, <1>m, <5>1
        <5> QED
          BY <1>4, <1>m, <5>3, <5>4
      <4> HIDE DEF m, c, d, f, l, other
      <4> QED
        BY <3>3, <4>1, <4>2, <4>3
    <3>4. CASE ~copy.atBack /\ other # l
      BY <1>3, <1>5, <1>6, <1>15, <2>4, <3>4
    <3> QED
      BY <1>3, <3>1, <3>2, <3>3, <3>4
  <2>7. q[d] = x
    <3>1. CASE other # l
      BY <1>6, <2>2, <3>1
    <3>2. CASE other = l
      <4>1. d \in 1..Len(es[l]) + 1
        BY <2>4, <2>6, <3>2
      <4>2. q[d] = IF d < p THEN es[l][d] ELSE IF d = p THEN e ELSE es[l][d - 1]
        <5>1. q = InsertAt(es[l], p, e)
          BY <2>1, <3>2
        <5> HIDE DEF q, d, l
        <5> QED
          BY <1>4, <1>8, <4>1, <5>1, InsertAtIndex
      <4>3. IF copy.atBack THEN d = c /\ d < p ELSE d - 1 = c /\ d > p
        <5>1. CASE copy.atBack
          BY <1>3, <1>4, <1>6, <3>2, <5>1 DEF p
        <5>2. CASE ~copy.atBack
          <6>1. c = m /\ d = m + 1 /\ p = 1
            BY <3>2, <5>2 DEF p
          <6> HIDE DEF c, d, m
          <6> QED
            BY <1>3, <1>6, <1>15, <1>m, <5>2, <6>1
        <5> QED
          BY <5>1, <5>2
      <4> QED
        BY <1>3, <1>6, <2>6, <3>2, <4>2, <4>3, <1>8
    <3> QED
      BY <3>1, <3>2
  <2> HIDE DEF q
  <2>8. heap'.list[x] = other /\ heap'.next[other] # Nil /\ Ring(heap', other, q)
    <3>1. x \in Range(q) /\ q # <<>>
      BY <2>3, <2>6, <2>7 DEF Range
    <3>2. heap'.list[x] = other
      BY <1>3, <1>4, <1>12, <3>1 DEF Mem, q
    <3> QED
      BY <2>5, <3>1, <3>2 DEF Holds
  <2>n. /\ d < Len(q) => ElemNext(heap', x) = q[d + 1]
        /\ d > 1 => ElemPrev(heap', x) = q[d - 1]
    <3> HIDE DEF q, d, f, x, other
    <3> QED
      BY <1>3, <2>3, <2>5, <2>6, <2>7, <2>8, NeighbourFacts
  <2>9. copy.atBack => ElemNext(heap', x) = q[f]
    BY <2>6, <2>n
  <2>10. ~copy.atBack => ElemPrev(heap', x) = q[f]
    BY <2>6, <2>n
  <2>11. copy' = [copy EXCEPT !.i = i - 1, !.e = q[f]]
    BY <1>3, <1>11, <1>15, <2>9, <2>10
  <2>12. q[f] \in used' /\ i - 1 \in Nat \ {0}
    BY <1>3, <1>15, <2>3, <2>6
  <2>13. copy' \in [l : Lists, other : Lists, i : Nat \ {0}, e : used', atBack : BOOLEAN, n0 : Nat]
    BY <1>2, <1>10, <2>11, <2>12
  <2>14. /\ copy'.l = l /\ copy'.other = other /\ copy'.i = i - 1 /\ copy'.e = q[f]
         /\ copy'.atBack = copy.atBack /\ copy'.n0 = copy.n0
    BY <1>2, <2>11
  <2>15. m = IF other = l THEN copy.n0 ELSE Len(q)
    BY <2>4
  <2>16. f = IF copy.atBack THEN m - (i - 1) + 1 ELSE IF other = l THEN m ELSE i - 1
    BY <1>3, <1>4, <1>5
  <2> HIDE DEF l, other, i, m, c, d, f
  <2>17. i - 1 <= m /\ Len(es'[l]) = copy.n0 + (m - (i - 1)) /\ m \in Nat
    <3>1. i - 1 <= m /\ Len(es[l]) + 1 = copy.n0 + (m - (i - 1))
      BY <1>3, <1>6, <1>m, CopyCounters
    <3> QED
      BY <1>m, <2>1, <3>1
  <2>18. CopyLoop'
    BY <1>12, <2>14, <2>15, <2>16, <2>17 DEF CopyLoop, q
  <2>19. TypeOK'
    BY <1>12, <1>13, <2>13 DEF TypeOK
  <2> QED
    BY <1>12, <2>18, <2>19 DEF IInv
<1> QED
  BY <1>14, <1>15

(* One step per action of Next. *)
LEMMA NextIInv == ~ReuseCleared /\ IInv /\ [Next]_vars => IInv'
<1> SUFFICES ASSUME ~ReuseCleared, IInv, [Next]_vars PROVE IInv'
  OBVIOUS
<1>1. ASSUME NEW l \in Lists, ClearList(l) PROVE IInv'
  BY <1>1, ClearIInv
<1>2. ASSUME NEW l \in Lists, NEW e \in Elems, NEW v \in Values, PushFront(l, e, v) PROVE IInv'
  BY <1>2, PushFrontIInv
<1>3. ASSUME NEW l \in Lists, NEW e \in Elems, NEW v \in Values, PushBack(l, e, v) PROVE IInv'
  BY <1>3, PushBackIInv
<1>4. ASSUME NEW l \in Lists, NEW e \in Elems, NEW mark \in Elems, NEW v \in Values,
             InsertBefore(l, e, v, mark)
      PROVE  IInv'
  BY <1>4, InsertBeforeIInv
<1>5. ASSUME NEW l \in Lists, NEW e \in Elems, NEW mark \in Elems, NEW v \in Values,
             InsertAfter(l, e, v, mark)
      PROVE  IInv'
  BY <1>5, InsertAfterIInv
<1>6. ASSUME NEW l \in Lists, NEW e \in Elems, Remove_(l, e) PROVE IInv'
  BY <1>6, RemoveIInv
<1>7. ASSUME NEW l \in Lists, NEW e \in Elems, MoveToFront(l, e) PROVE IInv'
  BY <1>7, MoveToFrontIInv
<1>8. ASSUME NEW l \in Lists, NEW e \in Elems, MoveToBack(l, e) PROVE IInv'
  BY <1>8, MoveToBackIInv
<1>9. ASSUME NEW l \in Lists, NEW e \in Elems, NEW mark \in Elems, MoveBefore(l, e, mark)
      PROVE  IInv'
  BY <1>9, MoveBeforeIInv
<1>10. ASSUME NEW l \in Lists, NEW e \in Elems, NEW mark \in Elems, MoveAfter(l, e, mark)
       PROVE  IInv'
  BY <1>10, MoveAfterIInv
<1>11. ASSUME NEW l \in Lists, NEW other \in Lists, NEW atBack \in BOOLEAN,
              CopyBegin(l, other, atBack)
       PROVE  IInv'
  BY <1>11, CopyBeginIInv
<1>12. ASSUME NEW e \in Elems, CopyStep(e) PROVE IInv'
  BY <1>12, CopyStepIInv
<1>13. CASE UNCHANGED vars
  BY <1>13 DEF vars, IInv, TypeOK, Mem, Detached, CopyLoop, Idle
<1> QED
  BY <1>1, <1>2, <1>3, <1>4, <1>5, <1>6, <1>7, <1>8, <1>9, <1>10, <1>11, <1>12, <1>13 DEF Next

(* While clients keep to elements that no Init cut off, the invariant holds *)
(* of every reachable state.                                                *)
THEOREM ListInvariant == ~ReuseCleared => (Spec => []IInv)
<1> SUFFICES ASSUME ~ReuseCleared PROVE Spec => []IInv
  OBVIOUS
<1>1. IInv /\ [Next]_vars => IInv'
  BY NextIInv
<1> QED
  BY InitIInv, <1>1, PTL DEF Spec

(* list.go keeps its fields well typed: no pointer field ever points        *)
(* outside the nodes of the package and length never goes negative.         *)
THEOREM ListTypeCorrect == ~ReuseCleared => (Spec => []TypeOK)
<1>1. IInv => TypeOK
  BY DEF IInv
<1> QED
  BY ListInvariant, <1>1, PTL

(* For any number of lists and elements, the pointer surgery of insert,     *)
(* remove and move keeps every ring equal to the documented sequence.       *)
THEOREM ListCorrect == ~ReuseCleared => (Spec => []Mem)
<1>1. IInv => Mem
  BY DEF IInv
<1> QED
  BY ListInvariant, <1>1, PTL

(* PushBackList and PushFrontList never read past the elements other held   *)
(* at the call, even when other is the list they extend.                    *)
THEOREM ListCopyLoop == ~ReuseCleared => (Spec => []CopyLoop)
<1>1. IInv => CopyLoop
  BY DEF IInv
<1> QED
  BY ListInvariant, <1>1, PTL

(* Remove leaves no pointer from the element into the list it left.         *)
THEOREM ListDetached == ~ReuseCleared => (Spec => []Detached)
<1>1. IInv => Detached
  BY DEF IInv
<1> QED
  BY ListInvariant, <1>1, PTL

-----------------------------------------------------------------------------
(* What a walk along the pointers meets.  Walk is a recursive function: it  *)
(* is compared with the function that it should be at the first step where  *)
(* the two differ.                                                          *)

(* A set of numbers has a least one. *)
LEMMA LeastNumber ==
    ASSUME NEW T \in SUBSET Nat, T # {}
    PROVE  \E x \in T : \A y \in T : x <= y
<1> DEFINE R == OpToRel(<, Nat)
<1>1. IsWellFoundedOn(R, Nat)
  BY NatLessThanWellFounded
<1>2. \A x \in Nat, y \in Nat : y < x => <<y, x>> \in R
  BY DEF OpToRel
<1> HIDE DEF R
<1>3. PICK x \in T : \A y \in T : ~(<<y, x>> \in R)
  BY <1>1, WFMin
<1>4. ASSUME NEW y \in T PROVE x <= y
  <2>1. x \in Nat /\ y \in Nat /\ ~(y < x)
    BY <1>2, <1>3
  <2> QED
    BY <2>1
<1> QED
  BY <1>4

(* The places w[0], w[1], ... w[i]: each step leads from one to the next. *)
Follows(w, step, n, i) ==
    /\ i \in Nat /\ w = [k \in 0..i |-> w[k]] /\ w[0] = n
    /\ \A k \in 1..i : w[k] = IF w[k - 1] = Nil THEN Nil ELSE step[w[k - 1]]

(* Walk returns the i-th of nodes that follow one another in this way. *)
LEMMA WalkFollows ==
    ASSUME NEW step, NEW n, NEW i, NEW w, Follows(w, step, n, i)
    PROVE  Walk(step, n, i) = w[i]
<1>0. /\ i \in Nat /\ w = [k \in 0..i |-> w[k]] /\ w[0] = n
      /\ \A k \in 1..i : w[k] = IF w[k - 1] = Nil THEN Nil ELSE step[w[k - 1]]
  BY DEF Follows
<1> DEFINE Def(f) == [k \in 0..i |-> IF k = 0 THEN n
                                     ELSE IF f[k - 1] = Nil THEN Nil ELSE step[f[k - 1]]]
           at == CHOOSE f : f = Def(f)
<1>1. w = Def(w)
  <2>1. ASSUME NEW k \in 0..i PROVE w[k] = Def(w)[k]
    <3>1. CASE k = 0
      BY <3>1, <1>0
    <3>2. CASE k \in 1..i
      BY <3>2, <1>0
    <3> QED
      BY <3>1, <3>2, <1>0
  <2> HIDE DEF Def
  <2>2. DOMAIN Def(w) = 0..i /\ Def(w) = [k \in 0..i |-> Def(w)[k]]
    BY DEF Def
  <2> QED
    BY <2>1, <2>2, <1>0
<1>2. at = Def(at)
  BY <1>1
<1>3. Walk(step, n, i) = at[i]
  BY DEF Walk
<1> HIDE DEF at
<1>4. at[0] = n /\ \A k \in 1..i : at[k] = IF at[k - 1] = Nil THEN Nil ELSE step[at[k - 1]]
  <2>1. ASSUME NEW k \in 0..i PROVE at[k] = Def(at)[k]
    BY <1>2
  <2>2. Def(at)[0] = n
    BY <1>0
  <2>3. ASSUME NEW k \in 1..i
        PROVE  Def(at)[k] = IF at[k - 1] = Nil THEN Nil ELSE step[at[k - 1]]
    BY <1>0
  <2> HIDE DEF Def
  <2> QED
    BY <2>1, <2>2, <2>3, <1>0
<1> HIDE DEF Def
<1>5. SUFFICES ASSUME at[i] # w[i] PROVE FALSE
  BY <1>3
<1> DEFINE T == {k \in 0..i : at[k] # w[k]}
<1>6. T \in SUBSET Nat /\ i \in T
  BY <1>5, <1>0
<1>7. PICK m \in T : \A y \in T : m <= y
  BY <1>6, LeastNumber
<1>8. m \in 1..i /\ m - 1 \in 0..i /\ ~(m <= m - 1)
  BY <1>4, <1>7, <1>0
<1>9. at[m - 1] = w[m - 1]
  BY <1>7, <1>8
<1> QED
  BY <1>4, <1>7, <1>8, <1>9, <1>0

(* The documented loops over the elements of one list. *)
LEMMA LoopFacts ==
    ASSUME IInv, NEW l \in Lists, NEW i \in 0..Len(es[l])
    PROVE  LET n == Len(es[l]) IN
           /\ Walk([e \in Elems |-> ElemNext(heap, e)], ListFront(heap, l), i)
                  = (IF i < n THEN es[l][i + 1] ELSE Nil)
           /\ Walk([e \in Elems |-> ElemPrev(heap, e)], ListBack(heap, l), i)
                  = (IF i < n THEN es[l][n - i] ELSE Nil)
<1> DEFINE s == es[l]
           n == Len(s)
           fwd == [e \in Elems |-> ElemNext(heap, e)]
           bwd == [e \in Elems |-> ElemPrev(heap, e)]
           f == [k \in 0..i |-> IF k < n THEN s[k + 1] ELSE Nil]
           b == [k \in 0..i |-> IF k < n THEN s[n - k] ELSE Nil]
<1>1. /\ s \in Seq(Elems) /\ IsInjective(s) /\ heap.length[l] = n /\ n \in Nat /\ i \in 0..n
      /\ Range(s) \subseteq Elems
      /\ \A e \in Elems : e \in Range(s) => heap.list[e] = l
      /\ Ring(heap, l, s) \/ n = 0
  BY ListFacts DEF IInv, Mem
<1>2. ASSUME NEW c \in 1..n PROVE s[c] \in Elems /\ s[c] # Nil /\ heap.list[s[c]] = l
  <2>1. s[c] \in Range(s)
    BY <1>1 DEF Range
  <2> QED
    BY <2>1, <1>1, ListConstants
<1>3. ASSUME NEW c \in 1..n
      PROVE  /\ c < n => fwd[s[c]] = s[c + 1]
             /\ c = n => fwd[s[c]] = Nil
             /\ c > 1 => bwd[s[c]] = s[c - 1]
             /\ c = 1 => bwd[s[c]] = Nil
  <2>1. Ring(heap, l, s) /\ s[c] \in Elems /\ heap.list[s[c]] = l
    BY <1>1, <1>2
  <2>2. fwd[s[c]] = ElemNext(heap, s[c]) /\ bwd[s[c]] = ElemPrev(heap, s[c])
    BY <2>1
  <2> HIDE DEF s, fwd, bwd
  <2>3. /\ c < n => ElemNext(heap, s[c]) = s[c + 1]
        /\ c = n => ElemNext(heap, s[c]) = Nil
        /\ c > 1 => ElemPrev(heap, s[c]) = s[c - 1]
        /\ c = 1 => ElemPrev(heap, s[c]) = Nil
    BY <2>1, <1>1, NeighbourFacts
  <2> QED
    BY <2>2, <2>3
<1>4. /\ n = 0 => ListFront(heap, l) = Nil /\ ListBack(heap, l) = Nil
      /\ n > 0 => ListFront(heap, l) = s[1] /\ ListBack(heap, l) = s[n]
  <2>1. CASE n = 0
    BY <2>1, <1>1 DEF ListFront, ListBack
  <2>2. CASE n > 0
    <3>1. 0 \in 0..n /\ n \in 0..n /\ Ring(heap, l, s)
      BY <2>2, <1>1
    <3> HIDE DEF s
    <3>2. /\ heap.next[Nth(l, s, 0)] = Nth(l, s, 0 + 1)
          /\ heap.prev[Nth(l, s, n + 1)] = Nth(l, s, n)
      BY <3>1 DEF Ring
    <3>3. /\ Nth(l, s, 0) = l /\ Nth(l, s, n + 1) = l
          /\ Nth(l, s, 0 + 1) = s[1] /\ Nth(l, s, n) = s[n]
      BY <2>2, <1>1 DEF Nth
    <3> QED
      BY <2>2, <3>2, <3>3, <1>1 DEF ListFront, ListBack
  <2> QED
    BY <2>1, <2>2, <1>1
<1> HIDE DEF s, n, fwd, bwd
<1>5. Walk(fwd, ListFront(heap, l), i) = f[i]
  <2>1. i \in Nat /\ f = [k \in 0..i |-> f[k]]
    BY <1>1
  <2>2. f[0] = ListFront(heap, l)
    BY <1>1, <1>4
  <2>3. ASSUME NEW k \in 1..i PROVE f[k] = IF f[k - 1] = Nil THEN Nil ELSE fwd[f[k - 1]]
    <3>1. k \in 1..n /\ f[k - 1] = s[k] /\ f[k] = IF k < n THEN s[k + 1] ELSE Nil
      BY <1>1
    <3>2. s[k] # Nil
      BY <3>1, <1>2
    <3>3. fwd[s[k]] = IF k < n THEN s[k + 1] ELSE Nil
      BY <3>1, <1>1, <1>3
    <3> QED
      BY <3>1, <3>2, <3>3
  <2> HIDE DEF f
  <2>4. Follows(f, fwd, ListFront(heap, l), i)
    BY <2>1, <2>2, <2>3 DEF Follows
  <2> QED
    BY <2>4, WalkFollows
<1>6. Walk(bwd, ListBack(heap, l), i) = b[i]
  <2>1. i \in Nat /\ b = [k \in 0..i |-> b[k]]
    BY <1>1
  <2>2. b[0] = ListBack(heap, l)
    BY <1>1, <1>4
  <2>3. ASSUME NEW k \in 1..i PROVE b[k] = IF b[k - 1] = Nil THEN Nil ELSE bwd[b[k - 1]]
    <3>1. /\ n - (k - 1) \in 1..n /\ b[k - 1] = s[n - (k - 1)] /\ n - (k - 1) - 1 = n - k
          /\ b[k] = IF k < n THEN s[n - k] ELSE Nil
          /\ (n - (k - 1) > 1 <=> k < n) /\ (n - (k - 1) = 1 <=> ~(k < n))
      BY <1>1
    <3>2. s[n - (k - 1)] # Nil
      BY <3>1, <1>2
    <3>3. bwd[s[n - (k - 1)]] = IF k < n THEN s[n - k] ELSE Nil
      BY <3>1, <1>3
    <3> QED
      BY <3>1, <3>2, <3>3
  <2> HIDE DEF b
  <2>4. Follows(b, bwd, ListBack(heap, l), i)
    BY <2>1, <2>2, <2>3 DEF Follows
  <2> QED
    BY <2>4, WalkFollows
<1>7. i \in 0..i
  BY <1>1
<1> QED
  BY <1>5, <1>6, <1>7 DEF s, n, fwd, bwd

(* However long the lists and whatever calls made them, the documented      *)
(* loops from Front with Next and from Back with Prev visit exactly the     *)
(* elements, in order, and end.                                             *)
THEOREM ListTraversal == ~ReuseCleared => (Spec => []Traversal)
<1>1. IInv => Traversal
  BY LoopFacts DEF Traversal
<1> QED
  BY ListInvariant, <1>1, PTL

-----------------------------------------------------------------------------
(* The refinement of ListSpec *)

(* The values of the elements of s. *)
ValuesOf(V, s) == [i \in 1..Len(s) |-> V[s[i]]]

(* What was in l before the copy loop, if one is under way, and the copies  *)
(* that it has made.                                                        *)
Kept(l) ==
    IF Idle \/ copy.l # l THEN es[l]
    ELSE IF copy.atBack THEN SubSeq(es[l], 1, copy.n0)
    ELSE SubSeq(es[l], Len(es[l]) - copy.n0 + 1, Len(es[l]))

Copies ==
    IF Idle THEN <<>>
    ELSE IF copy.atBack THEN SubSeq(es[copy.l], copy.n0 + 1, Len(es[copy.l]))
    ELSE SubSeq(es[copy.l], 1, Len(es[copy.l]) - copy.n0)

(* The abstract state, in terms of the sequences that the rings hold. *)
View ==
    /\ AbsEs = [l \in Lists |-> Kept(l)]
    /\ AbsVs = [l \in Lists |-> ValuesOf(heap.Value, Kept(l))]
    /\ AbsUsed = used \ Range(Copies)

(* The copies have the values of what is copied. *)
CopyValues ==
    ~Idle => \A j \in 1..Len(Copies) :
        heap.Value[Copies[j]] =
            heap.Value[Kept(copy.other)[IF copy.atBack THEN j ELSE copy.i + j]]

(* Cutting a sequence in two. *)
LEMMA CutFacts ==
    ASSUME NEW S, NEW s \in Seq(S), NEW k \in 0..Len(s)
    PROVE  /\ SubSeq(s, 1, k) \in Seq(S) /\ Len(SubSeq(s, 1, k)) = k
           /\ \A j \in 1..k : SubSeq(s, 1, k)[j] = s[j]
           /\ SubSeq(s, k + 1, Len(s)) \in Seq(S) /\ Len(SubSeq(s, k + 1, Len(s))) = Len(s) - k
           /\ \A j \in 1..Len(s) - k : SubSeq(s, k + 1, Len(s))[j] = s[k + j]
<1>1. Len(s) \in Nat /\ k \in Nat /\ k <= Len(s)
  OBVIOUS
<1>2. SubSeq(s, 1, k) \in Seq(S) /\ Len(SubSeq(s, 1, k)) = k
  BY <1>1
<1>3. \A j \in 1..k : SubSeq(s, 1, k)[j] = s[j]
  BY <1>1
<1>4. SubSeq(s, k + 1, Len(s)) \in Seq(S) /\ Len(SubSeq(s, k + 1, Len(s))) = Len(s) - k
  BY <1>1
<1>5. \A j \in 1..Len(s) - k : SubSeq(s, k + 1, Len(s))[j] = s[k + j]
  BY <1>1
<1> QED
  BY <1>2, <1>3, <1>4, <1>5

(* Equal elements, equal sequences. *)
LEMMA SameSeq ==
    ASSUME NEW S, NEW T, NEW s \in Seq(S), NEW t \in Seq(T), Len(s) = Len(t),
           \A j \in 1..Len(s) : s[j] = t[j]
    PROVE  s = t
<1>1. s = [j \in 1..Len(s) |-> s[j]] /\ t = [j \in 1..Len(t) |-> t[j]]
  OBVIOUS
<1> QED
  BY <1>1

(* If nothing is in s twice, the two parts share nothing. *)
LEMMA CutRange ==
    ASSUME NEW S, NEW s \in Seq(S), NEW k \in 0..Len(s), IsInjective(s)
    PROVE  /\ Range(SubSeq(s, 1, k)) = Range(s) \ Range(SubSeq(s, k + 1, Len(s)))
           /\ Range(SubSeq(s, k + 1, Len(s))) = Range(s) \ Range(SubSeq(s, 1, k))
<1> DEFINE a == SubSeq(s, 1, k)
           b == SubSeq(s, k + 1, Len(s))
<1>1. /\ a \in Seq(S) /\ Len(a) = k /\ \A j \in 1..k : a[j] = s[j]
      /\ b \in Seq(S) /\ Len(b) = Len(s) - k /\ \A j \in 1..Len(s) - k : b[j] = s[k + j]
  BY CutFacts
<1> HIDE DEF a, b
<1>2. /\ Len(s) \in Nat /\ k \in Nat /\ k <= Len(s)
      /\ DOMAIN s = 1..Len(s) /\ DOMAIN a = 1..k /\ DOMAIN b = 1..Len(s) - k
  BY <1>1
<1>3. \A i, j \in 1..Len(s) : s[i] = s[j] => i = j
  BY <1>2 DEF IsInjective
<1>4. ASSUME NEW y PROVE y \in Range(a) <=> \E j \in 1..Len(s) : j <= k /\ y = s[j]
  <2>1. \A j : j \in 1..k <=> j \in 1..Len(s) /\ j <= k
    BY <1>2
  <2>2. y \in Range(a) <=> \E j \in 1..k : y = a[j]
    BY <1>2 DEF Range
  <2> QED
    BY <1>1, <2>1, <2>2, Zenon
<1>5. ASSUME NEW y PROVE y \in Range(b) <=> \E j \in 1..Len(s) : j > k /\ y = s[j]
  <2>1. ASSUME NEW j \in 1..Len(s), j > k, y = s[j] PROVE y \in Range(b)
    <3>1. j - k \in 1..Len(s) - k /\ k + (j - k) = j
      BY <2>1, <1>2
    <3>2. b[j - k] = y /\ j - k \in DOMAIN b
      BY <3>1, <1>1, <1>2, <2>1
    <3> QED
      BY <3>2 DEF Range
  <2>2. ASSUME y \in Range(b) PROVE \E j \in 1..Len(s) : j > k /\ y = s[j]
    <3>1. PICK j \in 1..Len(s) - k : y = b[j]
      BY <2>2, <1>2 DEF Range
    <3>2. k + j \in 1..Len(s) /\ k + j > k /\ y = s[k + j]
      BY <3>1, <1>1, <1>2
    <3> QED
      BY <3>2
  <2> QED
    BY <2>1, <2>2
<1>6. ASSUME NEW y PROVE y \in Range(s) <=> \E j \in 1..Len(s) : y = s[j]
  BY <1>2 DEF Range
<1>7. ASSUME NEW y
      PROVE  (y \in Range(a) <=> y \in Range(s) /\ y \notin Range(b))
             /\ (y \in Range(b) <=> y \in Range(s) /\ y \notin Range(a))
  <2>1. \A i, j \in 1..Len(s) : y = s[i] /\ y = s[j] => i = j
    BY <1>3
  <2>2. \A j \in 1..Len(s) : j <= k <=> ~(j > k)
    BY <1>2
  <2> QED
    BY <1>4, <1>5, <1>6, <2>1, <2>2, Zenon
<1> QED
  BY <1>7 DEF a, b

(* Following next from the sentinel, one finds what the list holds. *)
LEMMA ContentsAre ==
    ASSUME IInv, NEW l \in Lists
    PROVE  Contents(l) = es[l]
<1> DEFINE s == es[l]
           n == Len(s)
<1>1. /\ s \in Seq(Elems) /\ heap.length[l] = n /\ n \in Nat
      /\ Ring(heap, l, s) \/ n = 0
  BY ListFacts DEF IInv, Mem
<1> HIDE DEF s
<1>2. ASSUME NEW i \in 1..n PROVE Walk(heap.next, l, i) = s[i]
  <2> DEFINE w == [k \in 0..i |-> Nth(l, s, k)]
  <2>1. i \in Nat /\ w = [k \in 0..i |-> w[k]] /\ w[0] = l /\ w[i] = s[i]
    BY <1>1 DEF Nth
  <2>2. ASSUME NEW k \in 1..i PROVE w[k] = IF w[k - 1] = Nil THEN Nil ELSE heap.next[w[k - 1]]
    <3>1. k - 1 \in 0..n /\ (k - 1) + 1 = k /\ Ring(heap, l, s) /\ k - 1 \in 0..i /\ k \in 0..i
      BY <1>1
    <3>2. heap.next[Nth(l, s, k - 1)] = Nth(l, s, (k - 1) + 1)
      BY <3>1 DEF Ring
    <3>3. Nth(l, s, k - 1) # Nil
      BY <1>1, ListConstants DEF Nth
    <3>4. w[k] = Nth(l, s, k) /\ w[k - 1] = Nth(l, s, k - 1)
      BY <3>1
    <3> QED
      BY <3>1, <3>2, <3>3, <3>4
  <2> HIDE DEF w
  <2>3. Follows(w, heap.next, l, i)
    BY <2>1, <2>2 DEF Follows
  <2> QED
    BY <2>1, <2>3, WalkFollows
<1>3. Contents(l) = [i \in 1..n |-> s[i]]
  BY <1>1, <1>2 DEF Contents
<1> QED
  BY <1>1, <1>3 DEF s

(* The counters of a copy loop under way, and what it has to do with the    *)
(* sequences.                                                               *)
LEMMA CopyFacts ==
    ASSUME IInv, ~Idle
    PROVE  LET l == copy.l
               m == Len(Kept(copy.other))
           IN  /\ l \in Lists /\ copy.other \in Lists /\ copy.atBack \in BOOLEAN
               /\ copy.n0 \in 0..Len(es[l]) /\ copy.i \in 1..m /\ m \in Nat
               /\ Len(es[l]) - copy.n0 = m - copy.i
               /\ Kept(copy.other) \in Seq(Elems)
               /\ copy.e = Kept(copy.other)[IF copy.atBack THEN m - copy.i + 1 ELSE copy.i]
<1> DEFINE l == copy.l
           other == copy.other
           n == IF other = l THEN copy.n0 ELSE Len(es[other])
<1>1. /\ l \in Lists /\ other \in Lists /\ copy.i \in Nat \ {0} /\ copy.n0 \in Nat
      /\ copy.atBack \in BOOLEAN
  BY DEF IInv, TypeOK, Idle, NoCopy
<1>2. es[l] \in Seq(Elems) /\ es[other] \in Seq(Elems) /\ Len(es[l]) \in Nat /\ Len(es[other]) \in Nat
  BY <1>1, ListFacts DEF IInv
<1>3. /\ copy.i <= n /\ Len(es[l]) = copy.n0 + (n - copy.i)
      /\ copy.e = es[other][IF copy.atBack THEN n - copy.i + 1
                            ELSE IF other = l THEN n ELSE copy.i]
  BY DEF IInv, CopyLoop
<1>4. n \in Nat /\ copy.n0 \in 0..Len(es[l]) /\ Len(es[l]) - copy.n0 = n - copy.i
      /\ copy.i \in 1..n
  BY <1>1, <1>2, <1>3
<1>5. CASE other # l
  <2>1. Kept(other) = es[other] /\ n = Len(es[other])
    BY <1>5 DEF Kept
  <2> QED
    BY <2>1, <1>1, <1>2, <1>3, <1>4, <1>5
<1>6. CASE other = l /\ copy.atBack
  <2>1. Kept(other) = SubSeq(es[l], 1, copy.n0) /\ n = copy.n0
    BY <1>6 DEF Kept
  <2>2. /\ Kept(other) \in Seq(Elems) /\ Len(Kept(other)) = n
        /\ \A j \in 1..n : Kept(other)[j] = es[l][j]
    BY <2>1, <1>2, <1>4, CutFacts
  <2>3. n - copy.i + 1 \in 1..n
    BY <1>4
  <2>4. copy.e = Kept(other)[n - copy.i + 1]
    BY <2>2, <2>3, <1>3, <1>6
  <2> QED
    BY <2>2, <2>4, <1>1, <1>4, <1>6
<1>7. CASE other = l /\ ~copy.atBack
  <2> DEFINE k == Len(es[l]) - copy.n0
  <2>1. Kept(other) = SubSeq(es[l], k + 1, Len(es[l])) /\ n = copy.n0
    BY <1>7 DEF Kept
  <2>0. copy.e = es[l][n]
    BY <1>3, <1>7
  <2> HIDE DEF n
  <2>2. k \in 0..Len(es[l]) /\ Len(es[l]) - k = n /\ k + copy.i = n
    <3>1. Len(es[l]) \in Int /\ copy.n0 \in Int /\ copy.i \in Int /\ n \in Int
      BY <1>1, <1>2, <1>4
    <3>2. k = n - copy.i /\ copy.n0 = n /\ 0 <= copy.n0 /\ copy.n0 <= Len(es[l])
      BY <2>1, <1>1, <1>4
    <3> QED
      BY <3>1, <3>2
  <2> HIDE DEF k
  <2>3. /\ Kept(other) \in Seq(Elems) /\ Len(Kept(other)) = n
        /\ \A j \in 1..n : Kept(other)[j] = es[l][k + j]
    BY <2>1, <2>2, <1>2, CutFacts
  <2>4. copy.e = Kept(other)[copy.i]
    BY <2>0, <2>2, <2>3, <1>4
  <2> QED
    BY <2>3, <2>4, <1>1, <1>4, <1>7
<1> QED
  BY <1>1, <1>5, <1>6, <1>7

(* Every Kept(l) is a part of es[l], and the copies are the rest. *)
LEMMA KeptFacts ==
    ASSUME IInv, NEW l \in Lists
    PROVE  /\ Kept(l) \in Seq(Elems) /\ Range(Kept(l)) \subseteq used
           /\ Idle \/ copy.l # l => Kept(l) = es[l]
           /\ ~Idle /\ copy.l = l => Range(Copies) = Range(es[l]) \ Range(Kept(l))
<1>1. es[l] \in Seq(Elems) /\ Range(es[l]) \subseteq used /\ IsInjective(es[l])
  BY ListFacts DEF IInv, Holds
<1>2. CASE Idle \/ copy.l # l
  BY <1>1, <1>2 DEF Kept
<1>3. CASE ~Idle /\ copy.l = l /\ copy.atBack
  <2>1. copy.n0 \in 0..Len(es[l])
    BY <1>3, CopyFacts
  <2>2. Kept(l) = SubSeq(es[l], 1, copy.n0) /\ Copies = SubSeq(es[l], copy.n0 + 1, Len(es[l]))
    BY <1>3 DEF Kept, Copies
  <2> QED
    BY <1>1, <1>3, <2>1, <2>2, CutFacts, CutRange
<1>4. CASE ~Idle /\ copy.l = l /\ ~copy.atBack
  <2> DEFINE k == Len(es[l]) - copy.n0
  <2>1. k \in 0..Len(es[l])
    BY <1>1, <1>4, CopyFacts
  <2>2. Kept(l) = SubSeq(es[l], k + 1, Len(es[l])) /\ Copies = SubSeq(es[l], 1, k)
    BY <1>4 DEF Kept, Copies
  <2> HIDE DEF k
  <2> QED
    BY <1>1, <1>4, <2>1, <2>2, CutFacts, CutRange
<1> QED
  BY <1>2, <1>3, <1>4

(* The abstract state is what the rings hold, without unfinished copies. *)
LEMMA ViewIs == IInv => View
<1> SUFFICES ASSUME IInv PROVE View
  OBVIOUS
<1>1. ASSUME NEW l \in Lists PROVE Committed(l) = Kept(l)
  BY ContentsAre DEF Committed, Kept
<1>2. AbsEs = [l \in Lists |-> Kept(l)]
  BY <1>1 DEF AbsEs
<1>3. AbsVs = [l \in Lists |-> ValuesOf(heap.Value, Kept(l))]
  <2>1. ASSUME NEW l \in Lists
        PROVE  [i \in 1..Len(Committed(l)) |-> ValueOf(Committed(l)[i])] = ValuesOf(heap.Value, Kept(l))
    <3>1. Kept(l) \in Seq(Elems)
      BY KeptFacts
    <3>2. ASSUME NEW i \in 1..Len(Kept(l)) PROVE ValueOf(Kept(l)[i]) = heap.Value[Kept(l)[i]]
      BY <3>1 DEF ValueOf
    <3> QED
      BY <1>1, <3>2 DEF ValuesOf
  <2> QED
    BY <2>1 DEF AbsVs
<1>4. AbsUsed = used \ Range(Copies)
  <2>1. CASE Idle
    BY <2>1 DEF AbsUsed, Pending, Copies, Range
  <2>2. CASE ~Idle
    <3>1. copy.l \in Lists
      BY <2>2, CopyFacts
    <3>2. Pending = Range(es[copy.l]) \ Range(Kept(copy.l))
      BY <2>2, <3>1, <1>1, ContentsAre DEF Pending
    <3> QED
      BY <2>2, <3>1, <3>2, KeptFacts DEF AbsUsed
  <2> QED
    BY <2>1, <2>2
<1> QED
  BY <1>2, <1>3, <1>4 DEF View

(* Between calls nothing is under way. *)
IdleView ==
    /\ AbsEs = es
    /\ AbsVs = [l \in Lists |-> ValuesOf(heap.Value, es[l])]
    /\ AbsUsed = used

(* Outside a copy loop the abstract lists are the documented ones. *)
LEMMA IdleViewIs == IInv /\ Idle => IdleView
<1> SUFFICES ASSUME IInv, Idle PROVE IdleView
  OBVIOUS
<1>1. View /\ (\A l \in Lists : Kept(l) = es[l]) /\ Copies = <<>>
  BY ViewIs DEF Kept, Copies
<1>2. es = [l \in Lists |-> es[l]]
  BY DEF IInv, TypeOK
<1>3. Range(<<>>) = {}
  BY DEF Range
<1> QED
  BY <1>1, <1>2, <1>3 DEF View, IdleView

-----------------------------------------------------------------------------
(* The values follow the elements. *)

Val == Values \union {Nil}

(* What ValuesOf is at an index. *)
LEMMA ValuesFacts ==
    ASSUME NEW s \in Seq(Elems), NEW V \in [Elems -> Val]
    PROVE  /\ ValuesOf(V, s) \in Seq(Val) /\ Len(ValuesOf(V, s)) = Len(s)
           /\ \A k \in 1..Len(s) : ValuesOf(V, s)[k] = V[s[k]] /\ V[s[k]] \in Val
<1>1. Len(s) \in Nat /\ \A k \in 1..Len(s) : s[k] \in Elems
  OBVIOUS
<1> QED
  BY <1>1 DEF ValuesOf

(* V and W agree on what is in s. *)
Agree(V, W, s) == \A k \in 1..Len(s) : W[s[k]] = V[s[k]]

(* The values of a list depend on its own elements only. *)
LEMMA ValuesSame ==
    ASSUME NEW s, NEW V, NEW W, Agree(V, W, s)
    PROVE  ValuesOf(W, s) = ValuesOf(V, s)
  BY DEF Agree, ValuesOf

(* Inserting an element inserts its value at the same index ... *)
LEMMA ValuesInsert ==
    ASSUME NEW s \in Seq(Elems), NEW e \in Elems, NEW i \in 1..Len(s) + 1,
           NEW V \in [Elems -> Val], NEW W \in [Elems -> Val], Agree(V, W, s)
    PROVE  ValuesOf(W, InsertAt(s, i, e)) = InsertAt(ValuesOf(V, s), i, W[e])
<1> DEFINE u == InsertAt(s, i, e)
           a == ValuesOf(V, s)
           b == InsertAt(a, i, W[e])
           c == ValuesOf(W, u)
           n == Len(s) + 1
<1>1. /\ u \in Seq(Elems) /\ Len(u) = n
      /\ \A k \in 1..n : u[k] = IF k < i THEN s[k] ELSE IF k = i THEN e ELSE s[k - 1]
  BY InsertAtFacts
<1>2. a \in Seq(Val) /\ Len(a) = Len(s) /\ \A k \in 1..Len(s) : a[k] = W[s[k]]
  BY ValuesFacts DEF Agree
<1> HIDE DEF a, u
<1>3. /\ b \in Seq(Val) /\ Len(b) = n
      /\ \A k \in 1..n : b[k] = IF k < i THEN a[k] ELSE IF k = i THEN W[e] ELSE a[k - 1]
  <2>1. i \in 1..Len(a) + 1 /\ W[e] \in Val
    BY <1>2
  <2> QED
    BY <2>1, <1>2, InsertAtFacts
<1>4. c \in Seq(Val) /\ Len(c) = n /\ \A k \in 1..n : c[k] = W[u[k]]
  BY <1>1, ValuesFacts
<1> HIDE DEF b, c
<1>5. ASSUME NEW k \in 1..n PROVE c[k] = b[k]
  <2>1. Len(s) \in Nat /\ i \in Nat /\ k \in Nat
    OBVIOUS
  <2>2. CASE k < i
    <3>1. k \in 1..Len(s)
      BY <2>1, <2>2
    <3>2. u[k] = s[k] /\ b[k] = a[k] /\ a[k] = W[s[k]] /\ c[k] = W[u[k]]
      BY <3>1, <2>2, <1>1, <1>2, <1>3, <1>4
    <3> QED
      BY <3>2, Zenon
  <2>3. CASE k = i
    BY <2>1, <2>3, <1>1, <1>3, <1>4
  <2>4. CASE k > i
    <3>1. k - 1 \in 1..Len(s) /\ ~(k < i) /\ k # i
      BY <2>1, <2>4
    <3>2. u[k] = s[k - 1] /\ b[k] = a[k - 1] /\ a[k - 1] = W[s[k - 1]] /\ c[k] = W[u[k]]
      BY <3>1, <1>1, <1>2, <1>3, <1>4
    <3> QED
      BY <3>2, Zenon
  <2> QED
    BY <2>1, <2>2, <2>3, <2>4
<1>6. c = b
  BY <1>3, <1>4, <1>5, SameSeq
<1> QED
  BY <1>6 DEF a, b, c, u

(* ... and removing one removes its value. *)
LEMMA ValuesRemove ==
    ASSUME NEW s \in Seq(Elems), NEW i \in 1..Len(s), NEW V \in [Elems -> Val]
    PROVE  ValuesOf(V, RemoveAt(s, i)) = RemoveAt(ValuesOf(V, s), i)
<1> DEFINE u == RemoveAt(s, i)
           a == ValuesOf(V, s)
           b == RemoveAt(a, i)
           c == ValuesOf(V, u)
           n == Len(s) - 1
<1>1. /\ u \in Seq(Elems) /\ Len(u) = n
      /\ \A k \in 1..n : u[k] = IF k < i THEN s[k] ELSE s[k + 1]
  BY RemoveAtFacts
<1>2. a \in Seq(Val) /\ Len(a) = Len(s) /\ \A k \in 1..Len(s) : a[k] = V[s[k]]
  BY ValuesFacts
<1> HIDE DEF a, u
<1>3. /\ b \in Seq(Val) /\ Len(b) = n
      /\ \A k \in 1..n : b[k] = IF k < i THEN a[k] ELSE a[k + 1]
  <2>1. i \in 1..Len(a)
    BY <1>2
  <2> QED
    BY <2>1, <1>2, RemoveAtFacts
<1>4. c \in Seq(Val) /\ Len(c) = n /\ \A k \in 1..n : c[k] = V[u[k]]
  BY <1>1, ValuesFacts
<1> HIDE DEF b, c
<1>5. ASSUME NEW k \in 1..n PROVE c[k] = b[k]
  <2>1. Len(s) \in Nat /\ k \in 1..Len(s) /\ k + 1 \in 1..Len(s)
    OBVIOUS
  <2> QED
    BY <2>1, <1>1, <1>2, <1>3, <1>4
<1>6. c = b
  BY <1>3, <1>4, <1>5, SameSeq
<1> QED
  BY <1>6 DEF a, b, c, u

(* The library's operators mean the same in ListSpec. *)
LEMMA AbsInsertAt == \A s, i, x : Abs!InsertAt(s, i, x) = InsertAt(s, i, x)
  BY DEF Abs!InsertAt, InsertAt

(* RemoveAt of ListSpec is RemoveAt of the model. *)
LEMMA AbsRemoveAt == \A s, i : Abs!RemoveAt(s, i) = RemoveAt(s, i)
  BY DEF Abs!RemoveAt, RemoveAt

(* Range likewise. *)
LEMMA AbsRange == \A s : Abs!Range(s) = Range(s)
  BY DEF Abs!Range, Range

(* What Injection of ListSpec stands for. *)
LEMMA AbsInjection == \A S, T : Abs!Injection(S, T) = {f \in [S -> T] : IsInjective(f)}
  BY DEF Abs!Injection, Abs!IsInjective, IsInjective

(* What a step between calls looks like from outside. *)
LEMMA OutsideStep ==
    ASSUME IInv, IInv', Idle, copy' = copy, NEW l \in Lists, NEW u,
           es' = [es EXCEPT ![l] = u],
           \A m \in Lists \ {l} : Agree(heap.Value, heap'.Value, es[m])
    PROVE  /\ IdleView /\ IdleView'
           /\ heap.Value \in [Elems -> Val] /\ heap'.Value \in [Elems -> Val]
           /\ es[l] \in Seq(Elems) /\ es'[l] = u
           /\ AbsEs' = [AbsEs EXCEPT ![l] = u]
           /\ AbsVs' = [AbsVs EXCEPT ![l] = ValuesOf(heap'.Value, u)]
<1>1. Idle'
  BY DEF Idle
<1>2. IdleView
  BY IdleViewIs
<1>3. (IInv /\ Idle)' => IdleView'
  BY IdleViewIs, PTL
<1>4. IdleView'
  BY <1>1, <1>3
<1>5. heap.Value \in [Elems -> Val] /\ es[l] \in Seq(Elems) /\ es = [m \in Lists |-> es[m]]
  BY ListFacts DEF IInv, TypeOK, Heap, Val
<1>6. heap'.Value \in [Elems -> Val]
  BY DEF IInv, TypeOK, Heap, Val
<1>7. es'[l] = u /\ \A m \in Lists : m # l => es'[m] = es[m]
  BY <1>5
<1>8. AbsEs' = [AbsEs EXCEPT ![l] = u]
  BY <1>2, <1>4 DEF IdleView
<1>9. AbsVs' = [AbsVs EXCEPT ![l] = ValuesOf(heap'.Value, u)]
  <2>1. AbsVs' = [m \in Lists |-> ValuesOf(heap'.Value, es'[m])]
    BY <1>4 DEF IdleView
  <2>2. AbsVs = [m \in Lists |-> ValuesOf(heap.Value, es[m])]
    BY <1>2 DEF IdleView
  <2>3. ASSUME NEW m \in Lists, m # l
        PROVE  ValuesOf(heap'.Value, es'[m]) = ValuesOf(heap.Value, es[m])
    BY <2>3, <1>7, ValuesSame
  <2> QED
    BY <1>7, <2>1, <2>2, <2>3
<1> QED
  BY <1>2, <1>4, <1>5, <1>6, <1>7, <1>8, <1>9

(* The helpers of list.go assign Value only when an element is new. *)
LEMMA InsertValue ==
    ASSUME NEW h \in Heap, NEW l, NEW e \in Elems, NEW v, NEW at
    PROVE  /\ insert(h, l, e, v, at).Value[e] = v
           /\ \A x \in Elems : x # e => insert(h, l, e, v, at).Value[x] = h.Value[x]
  BY DEF insert, Splice, Heap

(* Init and lazyInit assign no Value ... *)
LEMMA LazyValue ==
    ASSUME NEW h \in Heap, NEW l
    PROVE  lazyInit(h, l).Value = h.Value /\ InitList(h, l).Value = h.Value
  BY DEF lazyInit, InitList, Heap

(* ... and neither do remove and move. *)
LEMMA RemoveValue ==
    ASSUME NEW h \in Heap, NEW l, NEW e, NEW at
    PROVE  remove(h, l, e).Value = h.Value /\ move(h, e, at).Value = h.Value
  BY DEF remove, move, Unlink, Splice, Heap

(* Init is Clear. *)
LEMMA ClearAbs ==
    ASSUME IInv, IInv', NEW l \in Lists, ClearList(l)
    PROVE  Abs!Next
<1>1. /\ Idle /\ copy' = copy /\ used' = used /\ es' = [es EXCEPT ![l] = <<>>]
      /\ heap' = InitList(heap, l)
  BY DEF ClearList
<1>2. heap'.Value = heap.Value
  BY <1>1, LazyValue DEF IInv, TypeOK
<1>3. \A m \in Lists \ {l} : Agree(heap.Value, heap'.Value, es[m])
  BY <1>2 DEF Agree
<1>4. /\ IdleView /\ IdleView' /\ AbsEs' = [AbsEs EXCEPT ![l] = <<>>]
      /\ AbsVs' = [AbsVs EXCEPT ![l] = ValuesOf(heap'.Value, <<>>)]
  BY <1>1, <1>3, OutsideStep
<1>5. ValuesOf(heap'.Value, <<>>) = <<>>
  BY DEF ValuesOf
<1>6. AbsUsed' = AbsUsed
  BY <1>1, <1>4 DEF IdleView
<1>7. Abs!Clear(l)
  BY <1>4, <1>5, <1>6 DEF Abs!Clear
<1> QED
  BY <1>7 DEF Abs!Next

(* Every call that puts one new element into a list is an Insert. *)
LEMMA InsertAbs ==
    ASSUME IInv, IInv', Idle, copy' = copy, NEW l \in Lists, NEW e \in Elems, e \notin used,
           NEW v \in Values, NEW i \in 1..Len(es[l]) + 1, NEW at,
           heap' = insert(lazyInit(heap, l), l, e, v, at),
           used' = used \union {e},
           es' = [es EXCEPT ![l] = InsertAt(@, i, e)]
    PROVE  Abs!Next
<1> DEFINE u == InsertAt(es[l], i, e)
           V == heap.Value
           W == heap'.Value
<1>1. W[e] = v /\ \A x \in Elems : x # e => W[x] = V[x]
  <2>1. heap \in Heap /\ heap.next[l] \in Node \union {Nil}
    BY DEF IInv, TypeOK, Heap, Node
  <2> DEFINE h == lazyInit(heap, l)
  <2>2. h \in Heap
    BY <2>1, InitListFacts DEF lazyInit
  <2>4. h.Value = heap.Value
    BY <2>1, LazyValue
  <2> HIDE DEF h
  <2>3. /\ insert(h, l, e, v, at).Value[e] = v
        /\ \A x \in Elems : x # e => insert(h, l, e, v, at).Value[x] = h.Value[x]
    BY <2>2, InsertValue
  <2> QED
    BY <2>3, <2>4 DEF h
<1>2. ASSUME NEW m \in Lists PROVE Agree(V, W, es[m])
  <2>1. es[m] \in Seq(Elems) /\ Range(es[m]) \subseteq used
    BY ListFacts DEF IInv
  <2>2. \A k \in 1..Len(es[m]) : es[m][k] # e /\ es[m][k] \in Elems
    BY <2>1 DEF Range
  <2> QED
    BY <1>1, <2>2 DEF Agree
<1>3. es' = [es EXCEPT ![l] = u]
  OBVIOUS
<1> HIDE DEF u
<1>4. /\ IdleView /\ IdleView' /\ AbsEs' = [AbsEs EXCEPT ![l] = u]
      /\ AbsVs' = [AbsVs EXCEPT ![l] = ValuesOf(W, u)]
      /\ V \in [Elems -> Val] /\ W \in [Elems -> Val] /\ es[l] \in Seq(Elems)
  BY <1>2, <1>3, OutsideStep
<1>8. W[e] = v /\ Agree(V, W, es[l])
  BY <1>1, <1>2
<1> HIDE DEF V, W
<1>5. ValuesOf(W, u) = InsertAt(ValuesOf(V, es[l]), i, W[e])
  <2> DEFINE s == es[l]
  <2>1. /\ s \in Seq(Elems) /\ V \in [Elems -> Val] /\ W \in [Elems -> Val]
        /\ i \in 1..Len(s) + 1 /\ e \in Elems /\ Agree(V, W, s)
    BY <1>4, <1>8
  <2> HIDE DEF s
  <2>2. ValuesOf(W, InsertAt(s, i, e)) = InsertAt(ValuesOf(V, s), i, W[e])
    BY ONLY <2>1, ValuesInsert
  <2> QED
    BY <2>2 DEF u, s
<1>6. AbsEs[l] = es[l] /\ AbsVs[l] = ValuesOf(V, es[l]) /\ AbsUsed = used /\ AbsUsed' = used'
  BY <1>4 DEF IdleView, V
<1>7. Abs!Insert(l, i, e, v)
  BY <1>8, <1>4, <1>5, <1>6, AbsInsertAt DEF Abs!Insert, u
<1> QED
  BY <1>6, <1>7 DEF Abs!Next

(* Remove is Delete. *)
LEMMA RemoveAbs ==
    ASSUME IInv, IInv', ~ReuseCleared, NEW l \in Lists, NEW e \in Elems, Remove_(l, e)
    PROVE  Abs!Next
<1> DEFINE s == es[l]
           i == Index(s, e)
           u == RemoveAt(s, i)
           V == heap.Value
<1>1. e \in Known /\ heap.list[e] = l
  BY DEF Remove_
<1>2. e \in Range(s) /\ i \in 1..Len(s) /\ s[i] = e
  BY <1>1, MemberFacts
<1>3. /\ Idle /\ copy' = copy /\ used' = used /\ es' = [es EXCEPT ![l] = u]
      /\ heap' = remove(heap, l, e)
  BY <1>2 DEF Remove_, Removed
<1>4. heap'.Value = V
  <2>1. heap \in Heap
    BY DEF IInv, TypeOK
  <2>2. remove(heap, l, e).Value = heap.Value
    BY <2>1, RemoveValue
  <2> QED
    BY <2>2, <1>3
<1>5. \A m \in Lists \ {l} : Agree(V, heap'.Value, es[m])
  BY <1>4 DEF Agree
<1> HIDE DEF u, i
<1>6. /\ IdleView /\ IdleView' /\ AbsEs' = [AbsEs EXCEPT ![l] = u]
      /\ AbsVs' = [AbsVs EXCEPT ![l] = ValuesOf(heap'.Value, u)]
      /\ V \in [Elems -> Val] /\ s \in Seq(Elems)
  BY <1>3, <1>5, OutsideStep
<1>7. ValuesOf(V, u) = RemoveAt(ValuesOf(V, s), i)
  BY <1>2, <1>6, ValuesRemove DEF u
<1>8. AbsEs[l] = s /\ AbsVs[l] = ValuesOf(V, s) /\ AbsUsed = used /\ AbsUsed' = used'
  BY <1>6 DEF IdleView
<1> HIDE DEF V, s
<1>9. Abs!Delete(l, i)
  BY <1>2, <1>3, <1>4, <1>6, <1>7, <1>8, AbsRemoveAt DEF Abs!Delete, u
<1> QED
  BY <1>2, <1>8, <1>9 DEF Abs!Next

(* The four moves are Relocate. *)
LEMMA MoveAbs ==
    ASSUME IInv, IInv', Idle, copy' = copy, NEW l \in Lists,
           NEW i \in 1..Len(es[l]), NEW j \in 1..Len(es[l]), NEW e, e = es[l][i], NEW at,
           heap' = move(heap, e, at), used' = used,
           es' = [es EXCEPT ![l] = InsertAt(RemoveAt(@, i), j, e)]
    PROVE  Abs!Next
<1> DEFINE s == es[l]
           r == RemoveAt(s, i)
           u == InsertAt(r, j, e)
           V == heap.Value
<1>1. heap'.Value = V
  <2>1. heap \in Heap
    BY DEF IInv, TypeOK
  <2>2. move(heap, e, at).Value = heap.Value
    BY <2>1, RemoveValue
  <2> QED
    BY <2>2
<1>2. \A m \in Lists \ {l} : Agree(V, heap'.Value, es[m])
  BY <1>1 DEF Agree
<1>3. es' = [es EXCEPT ![l] = u]
  OBVIOUS
<1> HIDE DEF u
<1>4. /\ IdleView /\ IdleView' /\ AbsEs' = [AbsEs EXCEPT ![l] = u]
      /\ AbsVs' = [AbsVs EXCEPT ![l] = ValuesOf(heap'.Value, u)]
      /\ V \in [Elems -> Val] /\ s \in Seq(Elems)
  BY <1>2, <1>3, OutsideStep
<1> HIDE DEF V, s, r
<1>5. /\ i \in 1..Len(s) /\ j \in 1..Len(s) /\ e = s[i] /\ e \in Elems
      /\ ValuesOf(V, s)[i] = V[e]
  <2>1. i \in 1..Len(s) /\ j \in 1..Len(s) /\ e = s[i]
    BY DEF s
  <2> QED
    BY <2>1, <1>4, ValuesFacts
<1>6. r \in Seq(Elems) /\ Len(r) = Len(s) - 1 /\ ValuesOf(V, r) = RemoveAt(ValuesOf(V, s), i)
  BY <1>4, <1>5, RemoveAtFacts, ValuesRemove DEF r
<1>7. j \in 1..Len(r) + 1
  BY <1>4, <1>5, <1>6
<1>8. ValuesOf(V, u) = InsertAt(RemoveAt(ValuesOf(V, s), i), j, ValuesOf(V, s)[i])
  <2>1. Agree(V, V, r)
    BY DEF Agree
  <2>2. ValuesOf(V, InsertAt(r, j, e)) = InsertAt(ValuesOf(V, r), j, V[e])
    BY <2>1, <1>4, <1>5, <1>6, <1>7, ValuesInsert
  <2> QED
    BY <2>2, <1>5, <1>6 DEF u
<1>9. AbsEs[l] = s /\ AbsVs[l] = ValuesOf(V, s) /\ AbsUsed = used /\ AbsUsed' = used'
  BY <1>4 DEF IdleView, s, V
<1>10. Abs!Relocate(l, i, j)
  BY <1>1, <1>4, <1>5, <1>8, <1>9, AbsRemoveAt, AbsInsertAt DEF Abs!Relocate, u, r
<1> QED
  BY <1>5, <1>9, <1>10 DEF Abs!Next

(* Each call that changes one list, as a step of ListSpec. *)
LEMMA PushFrontAbs ==
    ASSUME IInv, IInv', NEW l \in Lists, NEW e \in Elems, NEW v \in Values, PushFront(l, e, v)
    PROVE  Abs!Next
<1>1. Len(es[l]) \in Nat /\ 1 \in 1..Len(es[l]) + 1
  BY ListFacts DEF IInv
<1> QED
  BY <1>1, InsertAbs DEF PushFront

(* PushBack inserts at index Len + 1. *)
LEMMA PushBackAbs ==
    ASSUME IInv, IInv', NEW l \in Lists, NEW e \in Elems, NEW v \in Values, PushBack(l, e, v)
    PROVE  Abs!Next
<1> DEFINE i == Len(es[l]) + 1
           at == lazyInit(heap, l).prev[l]
<1>1. i \in 1..Len(es[l]) + 1
  BY ListFacts DEF IInv
<1>2. /\ Idle /\ copy' = copy /\ e \notin used /\ used' = used \union {e}
      /\ heap' = insert(lazyInit(heap, l), l, e, v, at)
      /\ es' = [es EXCEPT ![l] = InsertAt(@, i, e)]
  BY DEF PushBack
<1> HIDE DEF i, at
<1> QED
  BY <1>1, <1>2, InsertAbs

(* InsertBefore inserts at the index of mark. *)
LEMMA InsertBeforeAbs ==
    ASSUME IInv, IInv', ~ReuseCleared, NEW l \in Lists, NEW e \in Elems, NEW v \in Values,
           NEW mark \in Elems, InsertBefore(l, e, v, mark)
    PROVE  Abs!Next
<1> DEFINE i == Index(es[l], mark)
           at == heap.prev[mark]
<1>1. mark \in Known /\ heap.list[mark] = l
  BY DEF InsertBefore
<1>2. mark \in Range(es[l]) /\ i \in 1..Len(es[l]) /\ lazyInit(heap, l) = heap
      /\ es[l] \in Seq(Elems)
  BY <1>1, MemberFacts
<1>3. /\ Idle /\ copy' = copy /\ e \notin used /\ used' = used \union {e}
      /\ heap' = insert(lazyInit(heap, l), l, e, v, at)
      /\ es' = [es EXCEPT ![l] = InsertAt(@, i, e)]
  BY <1>2 DEF InsertBefore, InsertedBefore
<1> HIDE DEF i, at
<1>4. i \in 1..Len(es[l]) + 1
  BY <1>2
<1> QED
  BY <1>3, <1>4, InsertAbs

(* InsertAfter inserts at the index after mark. *)
LEMMA InsertAfterAbs ==
    ASSUME IInv, IInv', ~ReuseCleared, NEW l \in Lists, NEW e \in Elems, NEW v \in Values,
           NEW mark \in Elems, InsertAfter(l, e, v, mark)
    PROVE  Abs!Next
<1> DEFINE k == Index(es[l], mark)
           i == k + 1
<1>1. mark \in Known /\ heap.list[mark] = l
  BY DEF InsertAfter
<1>2. mark \in Range(es[l]) /\ k \in 1..Len(es[l]) /\ lazyInit(heap, l) = heap
      /\ es[l] \in Seq(Elems)
  BY <1>1, MemberFacts
<1>3. /\ Idle /\ copy' = copy /\ e \notin used /\ used' = used \union {e}
      /\ heap' = insert(lazyInit(heap, l), l, e, v, mark)
      /\ es' = [es EXCEPT ![l] = InsertAt(@, i, e)]
  BY <1>2 DEF InsertAfter, InsertedAfter
<1> HIDE DEF k
<1>4. i \in 1..Len(es[l]) + 1
  BY <1>2
<1> HIDE DEF i
<1> QED
  BY <1>3, <1>4, InsertAbs

(* MoveToFront relocates to index 1. *)
LEMMA MoveToFrontAbs ==
    ASSUME IInv, IInv', ~ReuseCleared, NEW l \in Lists, NEW e \in Elems, MoveToFront(l, e)
    PROVE  Abs!Next
<1> DEFINE s == es[l]
           i == Index(s, e)
<1>1. e \in Known /\ heap.list[e] = l
  BY DEF MoveToFront
<1>2. e \in Range(s) /\ i \in 1..Len(s) /\ s[i] = e /\ s \in Seq(Elems)
  BY <1>1, MemberFacts
<1>3. /\ Idle /\ copy' = copy /\ used' = used /\ heap' = move(heap, e, l)
      /\ es' = [es EXCEPT ![l] = InsertAt(RemoveAt(@, i), 1, e)]
  BY <1>2 DEF MoveToFront, MovedToFront, Moved, Removed
<1> HIDE DEF i
<1>4. 1 \in 1..Len(s)
  BY <1>2
<1> QED
  BY <1>2, <1>3, <1>4, MoveAbs

(* MoveToBack relocates to the last index. *)
LEMMA MoveToBackAbs ==
    ASSUME IInv, IInv', ~ReuseCleared, NEW l \in Lists, NEW e \in Elems, MoveToBack(l, e)
    PROVE  Abs!Next
<1> DEFINE s == es[l]
           i == Index(s, e)
           j == Len(s)
           at == heap.prev[l]
<1>1. e \in Known /\ heap.list[e] = l
  BY DEF MoveToBack
<1>2. e \in Range(s) /\ i \in 1..Len(s) /\ s[i] = e /\ s \in Seq(Elems)
  BY <1>1, MemberFacts
<1>3. /\ Idle /\ copy' = copy /\ used' = used /\ heap' = move(heap, e, at)
      /\ es' = [es EXCEPT ![l] = InsertAt(RemoveAt(@, i), j, e)]
  BY <1>2 DEF MoveToBack, MovedToBack, Moved, Removed
<1> HIDE DEF i
<1>4. j \in 1..Len(s)
  BY <1>2
<1> HIDE DEF j, at
<1> QED
  BY <1>2, <1>3, <1>4, MoveAbs

(* MoveBefore relocates to where mark is once e is out. *)
LEMMA MoveBeforeAbs ==
    ASSUME IInv, IInv', ~ReuseCleared, NEW l \in Lists, NEW e \in Elems, NEW mark \in Elems,
           MoveBefore(l, e, mark)
    PROVE  Abs!Next
<1> DEFINE s == es[l]
           i == Index(s, e)
           j == Index(RemoveAt(s, i), mark)
           at == heap.prev[mark]
<1>1. e \in Known /\ mark \in Known /\ heap.list[e] = l /\ heap.list[mark] = l /\ e # mark
  BY DEF MoveBefore
<1>2. /\ e \in Range(s) /\ i \in 1..Len(s) /\ s[i] = e /\ s \in Seq(Elems)
      /\ IsInjective(s) /\ mark \in Range(s)
  BY <1>1, MemberFacts
<1>3. /\ Idle /\ copy' = copy /\ used' = used /\ heap' = move(heap, e, at)
      /\ es' = [es EXCEPT ![l] = InsertAt(RemoveAt(@, i), j, e)]
  BY <1>2 DEF MoveBefore, MovedBefore, Moved, Removed
<1> HIDE DEF i
<1>4. j \in 1..Len(s) - 1
  BY <1>1, <1>2, MarkFacts
<1> HIDE DEF j, at
<1>5. j \in 1..Len(s)
  BY <1>2, <1>4
<1> QED
  BY <1>2, <1>3, <1>5, MoveAbs

(* MoveAfter relocates to the index after that. *)
LEMMA MoveAfterAbs ==
    ASSUME IInv, IInv', ~ReuseCleared, NEW l \in Lists, NEW e \in Elems, NEW mark \in Elems,
           MoveAfter(l, e, mark)
    PROVE  Abs!Next
<1> DEFINE s == es[l]
           i == Index(s, e)
           p == Index(RemoveAt(s, i), mark)
           j == p + 1
<1>1. e \in Known /\ mark \in Known /\ heap.list[e] = l /\ heap.list[mark] = l /\ e # mark
  BY DEF MoveAfter
<1>2. /\ e \in Range(s) /\ i \in 1..Len(s) /\ s[i] = e /\ s \in Seq(Elems)
      /\ IsInjective(s) /\ mark \in Range(s)
  BY <1>1, MemberFacts
<1>3. /\ Idle /\ copy' = copy /\ used' = used /\ heap' = move(heap, e, mark)
      /\ es' = [es EXCEPT ![l] = InsertAt(RemoveAt(@, i), j, e)]
  BY <1>2 DEF MoveAfter, MovedAfter, Moved, Removed
<1> HIDE DEF i
<1>4. p \in 1..Len(s) - 1
  BY <1>1, <1>2, MarkFacts
<1> HIDE DEF p
<1>5. j \in 1..Len(s)
  BY <1>2, <1>4
<1> HIDE DEF j
<1> QED
  BY <1>2, <1>3, <1>5, MoveAbs

-----------------------------------------------------------------------------
(* The copy loops *)

(* The two parts make up the whole. *)
LEMMA CutJoin ==
    ASSUME NEW S, NEW s \in Seq(S), NEW k \in 0..Len(s)
    PROVE  s = SubSeq(s, 1, k) \o SubSeq(s, k + 1, Len(s))
<1> DEFINE a == SubSeq(s, 1, k)
           b == SubSeq(s, k + 1, Len(s))
           t == a \o b
<1>1. /\ a \in Seq(S) /\ Len(a) = k /\ \A j \in 1..k : a[j] = s[j]
      /\ b \in Seq(S) /\ Len(b) = Len(s) - k /\ \A j \in 1..Len(s) - k : b[j] = s[k + j]
  BY CutFacts
<1> HIDE DEF a, b
<1>2. Len(s) \in Nat /\ k \in Nat /\ k <= Len(s)
  OBVIOUS
<1>3. /\ t \in Seq(S) /\ Len(t) = Len(s)
      /\ \A j \in 1..Len(s) : t[j] = IF j <= k THEN a[j] ELSE b[j - k]
  <2>1. t \in Seq(S) /\ Len(t) = Len(a) + Len(b)
    BY <1>1, ConcatProperties
  <2>2. \A j \in 1..Len(a) + Len(b) : t[j] = IF j <= Len(a) THEN a[j] ELSE b[j - Len(a)]
    BY <1>1, ConcatProperties
  <2>3. Len(a) + Len(b) = Len(s)
    BY <1>1, <1>2
  <2> HIDE DEF t
  <2> QED
    BY <2>1, <2>2, <2>3, <1>1
<1> HIDE DEF t
<1>4. ASSUME NEW j \in 1..Len(s) PROVE s[j] = t[j]
  <2>1. CASE j <= k
    BY <2>1, <1>1, <1>2, <1>3
  <2>2. CASE ~(j <= k)
    <3>1. j - k \in 1..Len(s) - k /\ k + (j - k) = j
      BY <2>2, <1>2
    <3> QED
      BY <3>1, <2>2, <1>1, <1>3
  <2> QED
    BY <2>1, <2>2
<1>5. s = t
  BY <1>3, <1>4, SameSeq
<1> QED
  BY <1>5 DEF a, b, t

(* Growing at the back and at the front. *)
LEMMA InsertAtBack ==
    ASSUME NEW S, NEW s \in Seq(S), NEW x \in S, NEW p, p = Len(s) + 1, NEW j \in 1..p
    PROVE  /\ InsertAt(s, p, x) \in Seq(S) /\ Len(InsertAt(s, p, x)) = p
           /\ InsertAt(s, p, x)[j] = IF j <= Len(s) THEN s[j] ELSE x
<1>1. Len(s) \in Nat /\ p \in 1..Len(s) + 1 /\ j \in 1..Len(s) + 1
  OBVIOUS
<1>2. InsertAt(s, p, x) \in Seq(S) /\ Len(InsertAt(s, p, x)) = Len(s) + 1
  BY <1>1, InsertAtFacts
<1>3. InsertAt(s, p, x)[j] = IF j < p THEN s[j] ELSE IF j = p THEN x ELSE s[j - 1]
  BY <1>1, InsertAtIndex
<1> QED
  BY <1>1, <1>2, <1>3

(* What InsertAt does at index 1. *)
LEMMA InsertAtFront ==
    ASSUME NEW S, NEW s \in Seq(S), NEW x \in S, NEW p, p = Len(s) + 1, NEW j \in 1..p
    PROVE  /\ InsertAt(s, 1, x) \in Seq(S) /\ Len(InsertAt(s, 1, x)) = p
           /\ InsertAt(s, 1, x)[j] = IF j = 1 THEN x ELSE s[j - 1]
<1>1. Len(s) \in Nat /\ 1 \in 1..Len(s) + 1 /\ j \in 1..Len(s) + 1
  OBVIOUS
<1>2. InsertAt(s, 1, x) \in Seq(S) /\ Len(InsertAt(s, 1, x)) = Len(s) + 1
  BY <1>1, InsertAtFacts
<1>3. InsertAt(s, 1, x)[j] = IF j < 1 THEN s[j] ELSE IF j = 1 THEN x ELSE s[j - 1]
  BY <1>1, InsertAtIndex
<1> QED
  BY <1>1, <1>2, <1>3

(* Cutting a sequence that has grown by x at the back ... *)
GrownBack(S, s, x, k, u) ==
    /\ u \in Seq(S) /\ Len(u) = Len(s) + 1
    /\ SubSeq(u, 1, k) = SubSeq(s, 1, k)
    /\ SubSeq(u, k + 1, Len(u)) = InsertAt(SubSeq(s, k + 1, Len(s)), Len(s) - k + 1, x)

(* Appending x leaves the first part and adds x to the second. *)
LEMMA CutAppend ==
    ASSUME NEW S, NEW s \in Seq(S), NEW x \in S, NEW k \in 0..Len(s),
           NEW u, u = InsertAt(s, Len(s) + 1, x)
    PROVE  GrownBack(S, s, x, k, u)
<1> DEFINE b == SubSeq(s, k + 1, Len(s))
           n == Len(s) - k
           d == InsertAt(b, n + 1, x)
           a == SubSeq(u, 1, k)
           c == SubSeq(u, k + 1, Len(u))
           o == SubSeq(s, 1, k)
<1>1. Len(s) \in Nat /\ k \in Nat /\ k <= Len(s) /\ Len(s) + 1 \in 1..Len(s) + 1
      /\ n \in Nat
  OBVIOUS
<1>2. /\ u \in Seq(S) /\ Len(u) = Len(s) + 1
      /\ \A j \in 1..Len(s) + 1 : u[j] = IF j <= Len(s) THEN s[j] ELSE x
  <2> DEFINE p == Len(s) + 1
  <2>1. u = InsertAt(s, p, x) /\ p = Len(s) + 1
    OBVIOUS
  <2>2. p \in 1..p
    BY <1>1
  <2> HIDE DEF p
  <2>3. ASSUME NEW j \in 1..p
        PROVE  u \in Seq(S) /\ Len(u) = p /\ u[j] = IF j <= Len(s) THEN s[j] ELSE x
    <3>1. /\ InsertAt(s, p, x) \in Seq(S) /\ Len(InsertAt(s, p, x)) = p
          /\ InsertAt(s, p, x)[j] = IF j <= Len(s) THEN s[j] ELSE x
      BY ONLY <2>1, s \in Seq(S), x \in S, j \in 1..p, InsertAtBack
    <3> QED
      BY <3>1, <2>1
  <2> QED
    BY <2>1, <2>2, <2>3
<1>3. /\ o \in Seq(S) /\ Len(o) = k /\ \A j \in 1..k : o[j] = s[j]
      /\ b \in Seq(S) /\ Len(b) = n /\ \A j \in 1..n : b[j] = s[k + j]
  BY CutFacts
<1>4. /\ a \in Seq(S) /\ Len(a) = k /\ \A j \in 1..k : a[j] = u[j]
      /\ c \in Seq(S) /\ Len(c) = Len(u) - k /\ \A j \in 1..Len(u) - k : c[j] = u[k + j]
  <2>1. k \in 0..Len(u)
    BY <1>1, <1>2
  <2> QED
    BY <2>1, <1>2, CutFacts
<1> HIDE DEF a, b, c, o, n
<1>5. /\ d \in Seq(S) /\ Len(d) = n + 1
      /\ \A j \in 1..n + 1 : d[j] = IF j <= n THEN b[j] ELSE x
  <2> DEFINE p == n + 1
  <2>1. d = InsertAt(b, p, x) /\ p = Len(b) + 1
    BY <1>3
  <2>2. p \in 1..p
    BY <1>1
  <2> HIDE DEF d, p
  <2>3. ASSUME NEW j \in 1..p
        PROVE  d \in Seq(S) /\ Len(d) = p /\ d[j] = IF j <= Len(b) THEN b[j] ELSE x
    <3>1. b \in Seq(S) /\ x \in S /\ p = Len(b) + 1
      BY <2>1, <1>3
    <3>2. /\ InsertAt(b, p, x) \in Seq(S) /\ Len(InsertAt(b, p, x)) = p
          /\ InsertAt(b, p, x)[j] = IF j <= Len(b) THEN b[j] ELSE x
      BY ONLY <3>1, j \in 1..p, InsertAtBack
    <3> QED
      BY <3>2, <2>1
  <2> QED
    BY <2>2, <2>3, <1>3 DEF p
<1> HIDE DEF d
<1>6. a = o
  <2>1. ASSUME NEW j \in 1..k PROVE a[j] = o[j]
    <3>1. j \in 1..Len(s) + 1 /\ j <= Len(s)
      BY <1>1
    <3>2. a[j] = u[j] /\ u[j] = s[j] /\ o[j] = s[j]
      BY <3>1, <1>2, <1>3, <1>4
    <3> QED
      BY <3>2, Zenon
  <2> QED
    BY <2>1, <1>3, <1>4, SameSeq
<1>7. c = d
  <2>1. Len(u) - k = n + 1 /\ k + n = Len(s)
    BY <1>1, <1>2 DEF n
  <2>2. ASSUME NEW j \in 1..n + 1 PROVE c[j] = d[j]
    <3>1. c[j] = u[k + j] /\ k + j \in 1..Len(s) + 1
      BY <2>1, <1>1, <1>4
    <3>2. CASE j <= n
      <4>1. k + j <= Len(s) /\ j \in 1..n
        BY <3>2, <2>1, <1>1
      <4>2. u[k + j] = s[k + j] /\ d[j] = b[j] /\ b[j] = s[k + j]
        BY <4>1, <3>1, <3>2, <1>2, <1>3, <1>5
      <4> QED
        BY <4>2, <3>1, Zenon
    <3>3. CASE ~(j <= n)
      <4>1. ~(k + j <= Len(s))
        BY <3>3, <2>1, <1>1
      <4> QED
        BY <4>1, <3>1, <3>3, <1>2, <1>5
    <3> QED
      BY <3>2, <3>3
  <2> QED
    BY <2>1, <2>2, <1>4, <1>5, SameSeq
<1> QED
  BY <1>2, <1>6, <1>7 DEF a, b, c, d, o, n, GrownBack

(* ... and at the front. *)
GrownFront(S, s, x, k, u) ==
    /\ u \in Seq(S) /\ Len(u) = Len(s) + 1
    /\ SubSeq(u, 1, k + 1) = InsertAt(SubSeq(s, 1, k), 1, x)
    /\ SubSeq(u, (k + 1) + 1, Len(u)) = SubSeq(s, k + 1, Len(s))

(* Prepending x adds x to the first part and leaves the second. *)
LEMMA CutPrepend ==
    ASSUME NEW S, NEW s \in Seq(S), NEW x \in S, NEW k \in 0..Len(s),
           NEW u, u = InsertAt(s, 1, x)
    PROVE  GrownFront(S, s, x, k, u)
<1> DEFINE b == SubSeq(s, 1, k)
           d == InsertAt(b, 1, x)
           a == SubSeq(u, 1, k + 1)
           c == SubSeq(u, (k + 1) + 1, Len(u))
           o == SubSeq(s, k + 1, Len(s))
           n == Len(s) - k
<1>1. Len(s) \in Nat /\ k \in Nat /\ k <= Len(s) /\ 1 \in 1..Len(s) + 1 /\ n \in Nat
  OBVIOUS
<1>2. /\ u \in Seq(S) /\ Len(u) = Len(s) + 1
      /\ \A j \in 1..Len(s) + 1 : u[j] = IF j = 1 THEN x ELSE s[j - 1]
  <2> DEFINE p == Len(s) + 1
  <2>1. p = Len(s) + 1 /\ p \in 1..p
    BY <1>1
  <2> HIDE DEF p
  <2>2. ASSUME NEW j \in 1..p
        PROVE  u \in Seq(S) /\ Len(u) = p /\ u[j] = IF j = 1 THEN x ELSE s[j - 1]
    <3>1. /\ InsertAt(s, 1, x) \in Seq(S) /\ Len(InsertAt(s, 1, x)) = p
          /\ InsertAt(s, 1, x)[j] = IF j = 1 THEN x ELSE s[j - 1]
      BY ONLY <2>1, s \in Seq(S), x \in S, j \in 1..p, InsertAtFront
    <3> QED
      BY <3>1
  <2> QED
    BY <2>1, <2>2
<1>3. /\ b \in Seq(S) /\ Len(b) = k /\ \A j \in 1..k : b[j] = s[j]
      /\ o \in Seq(S) /\ Len(o) = n /\ \A j \in 1..n : o[j] = s[k + j]
  BY CutFacts
<1>4. /\ a \in Seq(S) /\ Len(a) = k + 1 /\ \A j \in 1..k + 1 : a[j] = u[j]
      /\ c \in Seq(S) /\ Len(c) = Len(u) - (k + 1)
      /\ \A j \in 1..Len(u) - (k + 1) : c[j] = u[(k + 1) + j]
  <2> DEFINE q == k + 1
  <2>1. q \in 0..Len(u)
    BY <1>1, <1>2
  <2> HIDE DEF q
  <2>2. /\ SubSeq(u, 1, q) \in Seq(S) /\ Len(SubSeq(u, 1, q)) = q
        /\ \A j \in 1..q : SubSeq(u, 1, q)[j] = u[j]
        /\ SubSeq(u, q + 1, Len(u)) \in Seq(S)
        /\ Len(SubSeq(u, q + 1, Len(u))) = Len(u) - q
        /\ \A j \in 1..Len(u) - q : SubSeq(u, q + 1, Len(u))[j] = u[q + j]
    BY <2>1, <1>2, CutFacts
  <2> QED
    BY <2>2 DEF q
<1> HIDE DEF a, b, c, o, n
<1>5. /\ d \in Seq(S) /\ Len(d) = k + 1
      /\ \A j \in 1..k + 1 : d[j] = IF j = 1 THEN x ELSE b[j - 1]
  <2> DEFINE p == k + 1
  <2>1. p = Len(b) + 1 /\ p \in 1..p
    BY <1>1, <1>3
  <2> HIDE DEF p
  <2>2. ASSUME NEW j \in 1..p
        PROVE  d \in Seq(S) /\ Len(d) = p /\ d[j] = IF j = 1 THEN x ELSE b[j - 1]
    <3>1. b \in Seq(S) /\ x \in S /\ p = Len(b) + 1
      BY <2>1, <1>3
    <3> QED
      BY ONLY <3>1, j \in 1..p, InsertAtFront
  <2> HIDE DEF d
  <2> QED
    BY <2>1, <2>2 DEF p
<1> HIDE DEF d
<1>6. a = d
  <2>1. ASSUME NEW j \in 1..k + 1 PROVE a[j] = d[j]
    <3>1. a[j] = u[j] /\ j \in 1..Len(s) + 1
      BY <1>1, <1>4
    <3>2. CASE j = 1
      BY <3>1, <3>2, <1>2, <1>5
    <3>3. CASE j # 1
      <4>1. j - 1 \in 1..k
        BY <3>3, <1>1
      <4>2. u[j] = s[j - 1] /\ d[j] = b[j - 1] /\ b[j - 1] = s[j - 1]
        BY <4>1, <3>1, <3>3, <1>2, <1>3, <1>5
      <4> QED
        BY <4>2, <3>1, Zenon
    <3> QED
      BY <3>2, <3>3
  <2> QED
    BY <2>1, <1>4, <1>5, SameSeq
<1>7. c = o
  <2>1. Len(u) - (k + 1) = n /\ k + n = Len(s)
    BY <1>1, <1>2 DEF n
  <2>2. ASSUME NEW j \in 1..n PROVE c[j] = o[j]
    <3>1. c[j] = u[(k + 1) + j] /\ (k + 1) + j \in 1..Len(s) + 1
          /\ (k + 1) + j # 1 /\ ((k + 1) + j) - 1 = k + j
      BY <2>1, <1>1, <1>4
    <3>2. u[(k + 1) + j] = s[((k + 1) + j) - 1] /\ o[j] = s[k + j]
      BY <3>1, <1>2, <1>3
    <3> QED
      BY <3>1, <3>2
  <2> QED
    BY <2>1, <2>2, <1>3, <1>4, SameSeq
<1> QED
  BY <1>2, <1>6, <1>7 DEF a, b, c, d, o, GrownFront

(* A copy loop that begins has copied nothing: nobody can tell. *)
LEMMA CopyBeginAbs ==
    ASSUME IInv, IInv', NEW l \in Lists, NEW other \in Lists, NEW atBack \in BOOLEAN,
           CopyBegin(l, other, atBack)
    PROVE  UNCHANGED <<AbsEs, AbsVs, AbsUsed>> /\ CopyValues'
<1>1. /\ Idle /\ es' = es /\ used' = used /\ heap' = lazyInit(heap, l)
      /\ \/ copy' = NoCopy
         \/ /\ copy'.l = l /\ copy'.n0 = Len(es[l]) /\ copy'.atBack = atBack
            /\ copy'.i # 0
  BY DEF CopyBegin, Idle
<1>2. heap'.Value = heap.Value
  BY <1>1, LazyValue DEF IInv, TypeOK
<1>3. IdleView
  BY <1>1, IdleViewIs
<1>4. IInv' => View'
  BY ViewIs, PTL
<1>5. es[l] \in Seq(Elems)
  BY ListFacts DEF IInv
<1>6. (\A m \in Lists : Kept(m)' = es[m]) /\ Copies' = <<>>
  <2>1. CASE copy' = NoCopy
    BY <2>1, <1>1 DEF NoCopy, Kept, Copies, Idle
  <2>2. CASE copy'.l = l /\ copy'.n0 = Len(es[l]) /\ copy'.atBack = atBack /\ copy'.i # 0
    <3> DEFINE s == es[l]
               n == Len(s)
    <3>1. n \in Nat /\ n \in 0..n /\ 0 \in 0..n /\ n - n = 0
      BY <1>5
    <3>2. SubSeq(s, 1, n) = s /\ SubSeq(s, n + 1, n) = <<>>
          /\ SubSeq(s, 0 + 1, n) = s /\ SubSeq(s, 1, 0) = <<>>
      BY <1>5
    <3>3. ASSUME NEW m \in Lists, m # l PROVE Kept(m)' = es[m]
      BY <3>3, <2>2, <1>1 DEF Kept
    <3>4. ~Idle'
      BY <2>2 DEF Idle
    <3>5. CASE atBack
      <4>1. Kept(l)' = SubSeq(s, 1, n) /\ Copies' = SubSeq(s, n + 1, n)
        BY <3>4, <3>5, <2>2, <1>1 DEF Kept, Copies
      <4> QED
        BY <4>1, <3>2, <3>3
    <3>6. CASE ~atBack
      <4>1. Kept(l)' = SubSeq(s, n - n + 1, n) /\ Copies' = SubSeq(s, 1, n - n)
        BY <3>4, <3>6, <2>2, <1>1 DEF Kept, Copies
      <4> HIDE DEF n
      <4>2. Kept(l)' = s /\ Copies' = <<>>
        BY <4>1, <3>1, <3>2
      <4> QED
        BY <4>2, <3>3
    <3> QED
      BY <3>5, <3>6
  <2> QED
    BY <1>1, <2>1, <2>2
<1>7. CopyValues'
  BY <1>6 DEF CopyValues
<1>8. es = [m \in Lists |-> es[m]] /\ Range(<<>>) = {}
  BY DEF IInv, TypeOK, Range
<1>9. UNCHANGED <<AbsEs, AbsVs, AbsUsed>>
  <2>1. AbsEs' = [m \in Lists |-> Kept(m)']
    BY <1>4 DEF View
  <2>2. AbsVs' = [m \in Lists |-> ValuesOf(heap'.Value, Kept(m)')]
    BY <1>4 DEF View
  <2>3. AbsUsed' = used' \ Range(Copies')
    BY <1>4 DEF View
  <2> QED
    BY <2>1, <2>2, <2>3, <1>1, <1>2, <1>3, <1>6, <1>8 DEF IdleView
<1> QED
  BY <1>7, <1>9

(* The values of a concatenation. *)
LEMMA ValuesCat ==
    ASSUME NEW a \in Seq(Elems), NEW b \in Seq(Elems), NEW W \in [Elems -> Val]
    PROVE  ValuesOf(W, a \o b) = ValuesOf(W, a) \o ValuesOf(W, b)
<1> DEFINE t == a \o b
           x == ValuesOf(W, a)
           y == ValuesOf(W, b)
           c == ValuesOf(W, t)
           d == x \o y
<1>1. /\ t \in Seq(Elems) /\ Len(t) = Len(a) + Len(b)
      /\ \A j \in 1..Len(a) + Len(b) : t[j] = IF j <= Len(a) THEN a[j] ELSE b[j - Len(a)]
  BY ConcatProperties
<1>2. /\ x \in Seq(Val) /\ Len(x) = Len(a) /\ \A j \in 1..Len(a) : x[j] = W[a[j]]
      /\ y \in Seq(Val) /\ Len(y) = Len(b) /\ \A j \in 1..Len(b) : y[j] = W[b[j]]
  BY ValuesFacts
<1> HIDE DEF t, x, y
<1>3. /\ d \in Seq(Val) /\ Len(d) = Len(a) + Len(b)
      /\ \A j \in 1..Len(a) + Len(b) : d[j] = IF j <= Len(a) THEN x[j] ELSE y[j - Len(a)]
  <2>1. d \in Seq(Val) /\ Len(d) = Len(x) + Len(y)
    BY <1>2, ConcatProperties
  <2>2. \A j \in 1..Len(x) + Len(y) : d[j] = IF j <= Len(x) THEN x[j] ELSE y[j - Len(x)]
    BY <1>2, ConcatProperties
  <2> HIDE DEF d
  <2> QED
    BY <2>1, <2>2, <1>2
<1>4. c \in Seq(Val) /\ Len(c) = Len(t) /\ \A j \in 1..Len(t) : c[j] = W[t[j]]
  BY <1>1, ValuesFacts
<1> HIDE DEF c, d
<1>5. ASSUME NEW j \in 1..Len(a) + Len(b) PROVE c[j] = d[j]
  <2>1. Len(a) \in Nat /\ Len(b) \in Nat
    OBVIOUS
  <2>2. CASE j <= Len(a)
    <3>1. c[j] = W[t[j]] /\ t[j] = a[j] /\ d[j] = x[j] /\ x[j] = W[a[j]]
      BY <2>1, <2>2, <1>1, <1>2, <1>3, <1>4
    <3> QED
      BY <3>1, Zenon
  <2>3. CASE ~(j <= Len(a))
    <3>1. j - Len(a) \in 1..Len(b)
      BY <2>1, <2>3
    <3>2. /\ c[j] = W[t[j]] /\ t[j] = b[j - Len(a)]
          /\ d[j] = y[j - Len(a)] /\ y[j - Len(a)] = W[b[j - Len(a)]]
      BY <3>1, <2>3, <1>1, <1>2, <1>3, <1>4
    <3> QED
      BY <3>2, Zenon
  <2> QED
    BY <2>2, <2>3
<1>6. c = d
  BY <1>1, <1>3, <1>4, <1>5, SameSeq
<1> QED
  BY <1>6 DEF c, d, t, x, y

(* The copies made so far. *)
LEMMA CopiesFacts ==
    ASSUME IInv, ~Idle
    PROVE  /\ Copies \in Seq(Elems) /\ Len(Copies) = Len(Kept(copy.other)) - copy.i
           /\ Range(Copies) \subseteq used
<1> DEFINE l == copy.l
           s == es[l]
           k == Len(s) - copy.n0
<1>1. /\ l \in Lists /\ copy.n0 \in 0..Len(s) /\ k = Len(Kept(copy.other)) - copy.i
  BY CopyFacts
<1>2. s \in Seq(Elems) /\ Range(s) \subseteq used
  BY <1>1, ListFacts DEF IInv
<1>3. Range(Copies) = Range(s) \ Range(Kept(l))
  BY <1>1, KeptFacts
<1>4. k \in 0..Len(s)
  BY <1>1, <1>2
<1>5. Copies = IF copy.atBack THEN SubSeq(s, copy.n0 + 1, Len(s)) ELSE SubSeq(s, 1, k)
  BY DEF Copies
<1> HIDE DEF k, s
<1>6. Copies \in Seq(Elems) /\ Len(Copies) = k
  <2>1. CASE copy.atBack
    BY <2>1, <1>1, <1>2, <1>5, CutFacts DEF k
  <2>2. CASE ~copy.atBack
    BY <2>2, <1>2, <1>4, <1>5, CutFacts
  <2> QED
    BY <2>1, <2>2
<1> QED
  BY <1>1, <1>2, <1>3, <1>6

(* The copies with the one that is being made. *)
NewCopies(e) == InsertAt(Copies, IF copy.atBack THEN Len(Copies) + 1 ELSE 1, e)

(* One iteration adds e to the copies, behind them or in front. *)
LEMMA NewCopiesFacts ==
    ASSUME IInv, ~Idle, NEW e \in Elems
    PROVE  /\ NewCopies(e) \in Seq(Elems) /\ Len(NewCopies(e)) = Len(Copies) + 1
           /\ Range(NewCopies(e)) = Range(Copies) \union {e}
           /\ \A j \in 1..Len(Copies) + 1 :
                 NewCopies(e)[j] = IF copy.atBack
                                   THEN IF j <= Len(Copies) THEN Copies[j] ELSE e
                                   ELSE IF j = 1 THEN e ELSE Copies[j - 1]
<1> DEFINE p == IF copy.atBack THEN Len(Copies) + 1 ELSE 1
<1>1. Copies \in Seq(Elems) /\ Len(Copies) \in Nat
  BY CopiesFacts
<1>2. p \in 1..Len(Copies) + 1 /\ NewCopies(e) = InsertAt(Copies, p, e)
      /\ p = IF copy.atBack THEN Len(Copies) + 1 ELSE 1
  BY <1>1 DEF NewCopies
<1> HIDE DEF p
<1>3. NewCopies(e) \in Seq(Elems) /\ Len(NewCopies(e)) = Len(Copies) + 1
  BY <1>1, <1>2, InsertAtFacts
<1>4. Range(NewCopies(e)) = Range(Copies) \union {e}
  BY <1>1, <1>2, InsertAtRange
<1>5. ASSUME NEW j \in 1..Len(Copies) + 1
      PROVE  NewCopies(e)[j] = IF copy.atBack
                               THEN IF j <= Len(Copies) THEN Copies[j] ELSE e
                               ELSE IF j = 1 THEN e ELSE Copies[j - 1]
  <2>1. NewCopies(e)[j] = IF j < p THEN Copies[j] ELSE IF j = p THEN e ELSE Copies[j - 1]
    BY <1>1, <1>2, InsertAtIndex
  <2> QED
    BY <2>1, <1>1, <1>2
<1> QED
  BY <1>3, <1>4, <1>5

(* One iteration: the list grows by the copy, on the side of the copies. *)
LEMMA CopyStepCut ==
    ASSUME IInv, NEW e \in Elems, CopyStep(e), NEW u, u = es'[copy.l]
    PROVE  /\ u \in Seq(Elems)
           /\ copy.atBack =>
                 /\ SubSeq(u, 1, copy.n0) = Kept(copy.l)
                 /\ SubSeq(u, copy.n0 + 1, Len(u)) = NewCopies(e)
                 /\ u = Kept(copy.l) \o NewCopies(e)
           /\ ~copy.atBack =>
                 /\ SubSeq(u, 1, Len(u) - copy.n0) = NewCopies(e)
                 /\ SubSeq(u, Len(u) - copy.n0 + 1, Len(u)) = Kept(copy.l)
                 /\ u = NewCopies(e) \o Kept(copy.l)
<1> DEFINE l == copy.l
           s == es[l]
           k == Len(s) - copy.n0
<1>1. ~Idle /\ es' = [es EXCEPT ![l] = InsertAt(@, IF copy.atBack THEN Len(@) + 1 ELSE 1, e)]
  BY DEF CopyStep
<1>2. l \in Lists /\ copy.n0 \in 0..Len(s) /\ es = [m \in Lists |-> es[m]]
  BY <1>1, CopyFacts DEF IInv, TypeOK
<1>3. s \in Seq(Elems) /\ Len(s) \in Nat
  BY <1>2, ListFacts DEF IInv
<1>4. k \in 0..Len(s) /\ copy.n0 = Len(s) - k /\ copy.n0 \in Nat
  BY <1>2, <1>3
<1>5. u = InsertAt(s, IF copy.atBack THEN Len(s) + 1 ELSE 1, e)
  BY <1>1, <1>2
<1>6. /\ copy.atBack => Kept(l) = SubSeq(s, 1, copy.n0) /\ Copies = SubSeq(s, copy.n0 + 1, Len(s))
      /\ ~copy.atBack => Kept(l) = SubSeq(s, k + 1, Len(s)) /\ Copies = SubSeq(s, 1, k)
  BY <1>1 DEF Kept, Copies
<1>7. Len(Copies) = k
  BY <1>1, CopiesFacts, CopyFacts
<1> HIDE DEF k, s, l
<1>8. CASE copy.atBack
  <2>1. u = InsertAt(s, Len(s) + 1, e) /\ NewCopies(e) = InsertAt(Copies, k + 1, e)
    BY <1>5, <1>7, <1>8 DEF NewCopies
  <2>2. /\ u \in Seq(Elems) /\ Len(u) = Len(s) + 1
        /\ SubSeq(u, 1, copy.n0) = SubSeq(s, 1, copy.n0)
        /\ SubSeq(u, copy.n0 + 1, Len(u))
              = InsertAt(SubSeq(s, copy.n0 + 1, Len(s)), Len(s) - copy.n0 + 1, e)
    <3>1. GrownBack(Elems, s, e, copy.n0, u)
      BY <2>1, <1>2, <1>3, CutAppend
    <3> QED
      BY <3>1 DEF GrownBack
  <2>3. Len(s) - copy.n0 + 1 = k + 1
    BY <1>3, <1>4
  <2>4. SubSeq(u, 1, copy.n0) = Kept(l) /\ SubSeq(u, copy.n0 + 1, Len(u)) = NewCopies(e)
    BY <2>1, <2>2, <2>3, <1>6, <1>8
  <2>5. copy.n0 \in 0..Len(u)
    BY <2>2, <1>2, <1>3
  <2>6. u = SubSeq(u, 1, copy.n0) \o SubSeq(u, copy.n0 + 1, Len(u))
    BY <2>2, <2>5, CutJoin
  <2> QED
    BY <2>2, <2>4, <2>6, <1>8 DEF l
<1>9. CASE ~copy.atBack
  <2>1. u = InsertAt(s, 1, e) /\ NewCopies(e) = InsertAt(Copies, 1, e)
    BY <1>5, <1>9 DEF NewCopies
  <2>2. /\ u \in Seq(Elems) /\ Len(u) = Len(s) + 1
        /\ SubSeq(u, 1, k + 1) = InsertAt(SubSeq(s, 1, k), 1, e)
        /\ SubSeq(u, (k + 1) + 1, Len(u)) = SubSeq(s, k + 1, Len(s))
    <3>1. GrownFront(Elems, s, e, k, u)
      BY <2>1, <1>3, <1>4, CutPrepend
    <3> QED
      BY <3>1 DEF GrownFront
  <2>3. Len(u) - copy.n0 = k + 1
    BY <2>2, <1>3, <1>4
  <2>4. k + 1 \in 0..Len(u)
    BY <2>2, <1>3, <1>4
  <2>5. u = SubSeq(u, 1, k + 1) \o SubSeq(u, (k + 1) + 1, Len(u))
    BY <2>2, <2>4, CutJoin
  <2> QED
    BY <2>1, <2>2, <2>3, <2>5, <1>6, <1>9 DEF l
<1> QED
  BY <1>8, <1>9

(* A part of a sequence repeats nothing if the whole does not. *)
LEMMA CutInjective ==
    ASSUME NEW S, NEW s \in Seq(S), NEW k \in 0..Len(s), IsInjective(s)
    PROVE  IsInjective(SubSeq(s, 1, k)) /\ IsInjective(SubSeq(s, k + 1, Len(s)))
<1> DEFINE a == SubSeq(s, 1, k)
           b == SubSeq(s, k + 1, Len(s))
<1>1. /\ a \in Seq(S) /\ Len(a) = k /\ \A j \in 1..k : a[j] = s[j]
      /\ b \in Seq(S) /\ Len(b) = Len(s) - k /\ \A j \in 1..Len(s) - k : b[j] = s[k + j]
  BY CutFacts
<1> HIDE DEF a, b
<1>2. /\ Len(s) \in Nat /\ k \in Nat /\ k <= Len(s)
      /\ DOMAIN s = 1..Len(s) /\ DOMAIN a = 1..k /\ DOMAIN b = 1..Len(s) - k
  BY <1>1
<1>3. \A i, j \in 1..Len(s) : s[i] = s[j] => i = j
  BY <1>2 DEF IsInjective
<1>4. IsInjective(a)
  <2>1. ASSUME NEW i \in 1..k, NEW j \in 1..k, a[i] = a[j] PROVE i = j
    BY <2>1, <1>1, <1>2, <1>3
  <2> QED
    BY <2>1, <1>2 DEF IsInjective
<1>5. IsInjective(b)
  <2>1. ASSUME NEW i \in 1..Len(s) - k, NEW j \in 1..Len(s) - k, b[i] = b[j] PROVE i = j
    <3>1. k + i \in 1..Len(s) /\ k + j \in 1..Len(s) /\ s[k + i] = s[k + j]
      BY <2>1, <1>1, <1>2
    <3>2. k + i = k + j
      BY <3>1, <1>3
    <3> QED
      BY <3>2, <1>2
  <2> QED
    BY <2>1, <1>2 DEF IsInjective
<1> QED
  BY <1>4, <1>5 DEF a, b

(* What one iteration does to the values. *)
LEMMA CopyStepValues ==
    ASSUME IInv, CopyValues, NEW e \in Elems, CopyStep(e)
    PROVE  /\ \A q \in Lists : Agree(heap.Value, heap'.Value, Kept(q))
           /\ \A j \in 1..Len(Copies) + 1 :
                 heap'.Value[NewCopies(e)[j]] =
                     heap.Value[Kept(copy.other)[IF copy.atBack THEN j ELSE (copy.i - 1) + j]]
<1> DEFINE V == heap.Value
           W == heap'.Value
           C == Copies
           K == Kept(copy.other)
           n == Len(C)
<1>1. ~Idle /\ e \notin used
  BY DEF CopyStep
<1>2. W[e] = V[copy.e] /\ \A x \in Elems : x # e => W[x] = V[x]
  <2> DEFINE at == IF copy.atBack THEN heap.prev[copy.l] ELSE copy.l
  <2>1. heap' = insert(heap, copy.l, e, heap.Value[copy.e], at) /\ heap \in Heap
    BY DEF CopyStep, IInv, TypeOK
  <2> HIDE DEF at
  <2> QED
    BY <2>1, InsertValue
<1> HIDE DEF V, W
<1>3. ASSUME NEW q \in Lists PROVE Agree(V, W, Kept(q))
  <2>1. Kept(q) \in Seq(Elems) /\ Range(Kept(q)) \subseteq used
    BY KeptFacts
  <2>2. \A k \in 1..Len(Kept(q)) : Kept(q)[k] # e /\ Kept(q)[k] \in Elems
    BY <2>1, <1>1 DEF Range
  <2> QED
    BY <2>2, <1>2 DEF Agree
<1>4. /\ C \in Seq(Elems) /\ n = Len(K) - copy.i /\ Range(C) \subseteq used
      /\ copy.i \in 1..Len(K) /\ Len(K) \in Nat
      /\ copy.e = K[IF copy.atBack THEN Len(K) - copy.i + 1 ELSE copy.i]
  BY <1>1, CopiesFacts, CopyFacts
<1>5. ASSUME NEW j \in 1..n
      PROVE  W[C[j]] = V[K[IF copy.atBack THEN j ELSE copy.i + j]]
  <2>1. V[C[j]] = V[K[IF copy.atBack THEN j ELSE copy.i + j]]
    BY <1>1 DEF CopyValues, V
  <2>2. C[j] # e /\ C[j] \in Elems
    BY <1>1, <1>4 DEF Range
  <2> QED
    BY <2>1, <2>2, <1>2
<1>6. \A j \in 1..n + 1 :
         NewCopies(e)[j] = IF copy.atBack THEN IF j <= n THEN C[j] ELSE e
                           ELSE IF j = 1 THEN e ELSE C[j - 1]
  BY <1>1, NewCopiesFacts
<1> HIDE DEF C, K, n
<1>7. ASSUME NEW j \in 1..n + 1
      PROVE  W[NewCopies(e)[j]] = V[K[IF copy.atBack THEN j ELSE (copy.i - 1) + j]]
  <2>0. n \in Nat
    BY <1>4
  <2>1. CASE copy.atBack /\ j <= n
    <3>1. j \in 1..n /\ NewCopies(e)[j] = C[j]
      BY <2>0, <2>1, <1>6
    <3> QED
      BY <3>1, <2>1, <1>5
  <2>2. CASE copy.atBack /\ ~(j <= n)
    <3>1. j = Len(K) - copy.i + 1 /\ NewCopies(e)[j] = e
      BY <2>0, <2>2, <1>4, <1>6
    <3>2. copy.e = K[j]
      BY <3>1, <2>2, <1>4
    <3> QED
      BY <3>1, <3>2, <2>2, <1>2
  <2>3. CASE ~copy.atBack /\ j = 1
    <3>1. (copy.i - 1) + j = copy.i /\ NewCopies(e)[j] = e /\ copy.e = K[copy.i]
      BY <2>3, <1>4, <1>6
    <3> QED
      BY <3>1, <2>3, <1>2
  <2>4. CASE ~copy.atBack /\ j # 1
    <3>0. j \in Int /\ copy.i \in Int
      BY <2>0, <1>4
    <3>3. NewCopies(e)[j] = C[j - 1]
      BY <2>4, <1>6
    <3>4. j - 1 \in 1..n
      BY <2>0, <2>4
    <3>5. copy.i + (j - 1) = (copy.i - 1) + j
      BY <3>0
    <3>1. /\ j - 1 \in 1..n /\ copy.i + (j - 1) = (copy.i - 1) + j
          /\ NewCopies(e)[j] = C[j - 1]
      BY <3>3, <3>4, <3>5
    <3>2. W[C[j - 1]] = V[K[copy.i + (j - 1)]]
      BY <3>1, <2>4, <1>5
    <3> QED
      BY <3>1, <3>2, <2>4
  <2> QED
    BY <2>1, <2>2, <2>3, <2>4
<1> QED
  BY <1>3, <1>7 DEF V, W, C, K, n

(* The iterations of a copy loop change nothing that can be seen before the *)
(* last, and the last is Concat.                                            *)
LEMMA CopyGoesOn ==
    ASSUME IInv, IInv', CopyValues, NEW e \in Elems, CopyStep(e), copy.i > 1
    PROVE  UNCHANGED <<AbsEs, AbsVs, AbsUsed>> /\ CopyValues'
<1> DEFINE l == copy.l
           m == Len(Kept(copy.other))
<1>1. /\ ~Idle /\ e \notin used /\ used' = used \union {e}
      /\ es' = [es EXCEPT ![l] = InsertAt(@, IF copy.atBack THEN Len(@) + 1 ELSE 1, e)]
  BY DEF CopyStep
<1>2. /\ copy'.l = l /\ copy'.other = copy.other /\ copy'.atBack = copy.atBack
      /\ copy'.n0 = copy.n0 /\ copy'.i = copy.i - 1
  <2>1. copy \in [l : Lists, other : Lists, i : Nat \ {0}, e : used, atBack : BOOLEAN, n0 : Nat]
    BY <1>1 DEF IInv, TypeOK, Idle, NoCopy
  <2>2. PICK x : copy' = [copy EXCEPT !.i = @ - 1, !.e = x]
    BY DEF CopyStep
  <2> QED
    BY <2>1, <2>2
<1>3. /\ l \in Lists /\ copy.other \in Lists /\ copy.i \in 1..m /\ m \in Nat
      /\ Kept(copy.other) \in Seq(Elems)
  BY <1>1, CopyFacts
<1>4. ~Idle'
  BY <1>2, <1>3 DEF Idle
<1>5. /\ copy.atBack =>
            /\ SubSeq(es'[l], 1, copy.n0) = Kept(l)
            /\ SubSeq(es'[l], copy.n0 + 1, Len(es'[l])) = NewCopies(e)
      /\ ~copy.atBack =>
            /\ SubSeq(es'[l], 1, Len(es'[l]) - copy.n0) = NewCopies(e)
            /\ SubSeq(es'[l], Len(es'[l]) - copy.n0 + 1, Len(es'[l])) = Kept(l)
  BY CopyStepCut
<1>6. ASSUME NEW q \in Lists PROVE Kept(q)' = Kept(q)
  <2>1. CASE q # l
    <3>1. es'[q] = es[q]
      BY <2>1, <1>1 DEF IInv, TypeOK
    <3> QED
      BY <3>1, <2>1, <1>2 DEF Kept
  <2>2. CASE q = l
    <3>1. Kept(q)' = IF copy.atBack THEN SubSeq(es'[q], 1, copy.n0)
                     ELSE SubSeq(es'[q], Len(es'[q]) - copy.n0 + 1, Len(es'[q]))
      BY <2>2, <1>2, <1>4 DEF Kept
    <3> QED
      BY <3>1, <2>2, <1>5
  <2> QED
    BY <2>1, <2>2
<1>7. Copies' = NewCopies(e)
  <2>1. Copies' = IF copy.atBack THEN SubSeq(es'[l], copy.n0 + 1, Len(es'[l]))
                  ELSE SubSeq(es'[l], 1, Len(es'[l]) - copy.n0)
    BY <1>2, <1>4 DEF Copies
  <2> QED
    BY <2>1, <1>5
<1>8. /\ \A q \in Lists : Agree(heap.Value, heap'.Value, Kept(q))
      /\ \A j \in 1..Len(Copies) + 1 :
           heap'.Value[NewCopies(e)[j]] =
               heap.Value[Kept(copy.other)[IF copy.atBack THEN j ELSE (copy.i - 1) + j]]
  BY CopyStepValues
<1>9. Len(NewCopies(e)) = Len(Copies) + 1 /\ Range(NewCopies(e)) = Range(Copies) \union {e}
      /\ Len(Copies) = m - copy.i
  BY <1>1, NewCopiesFacts, CopiesFacts
<1>10. CopyValues'
  <2>1. SUFFICES ASSUME NEW j \in 1..Len(Copies) + 1
                 PROVE  heap'.Value[NewCopies(e)[j]] =
                          heap'.Value[Kept(copy.other)[IF copy.atBack THEN j ELSE (copy.i - 1) + j]]
    <3>1. PICK o \in Lists : o = copy.other /\ o = copy'.other
      BY <1>2, <1>3
    <3>2. Kept(copy.other)' = Kept(o)' /\ Kept(o)' = Kept(o) /\ Kept(o) = Kept(copy.other)
      BY <3>1, <1>6 DEF Kept
    <3> QED
      BY <3>2, <1>2, <1>7, <1>9 DEF CopyValues
  <2> DEFINE k == IF copy.atBack THEN j ELSE (copy.i - 1) + j
  <2>2. k \in 1..m
    BY <1>3, <1>9
  <2> HIDE DEF k
  <2>3. heap'.Value[Kept(copy.other)[k]] = heap.Value[Kept(copy.other)[k]]
    BY <2>2, <1>3, <1>8 DEF Agree
  <2> QED
    BY <2>3, <1>8 DEF k
<1>11. View /\ View'
  <2>1. IInv' => View'
    BY ViewIs, PTL
  <2> QED
    BY <2>1, ViewIs
<1>12. UNCHANGED AbsEs
  <2>1. AbsEs' = [q \in Lists |-> Kept(q)'] /\ AbsEs = [q \in Lists |-> Kept(q)]
    BY <1>11 DEF View
  <2> QED
    BY <2>1, <1>6
<1>13. UNCHANGED AbsVs
  <2>1. AbsVs' = [q \in Lists |-> ValuesOf(heap'.Value, Kept(q)')]
    BY <1>11 DEF View
  <2>2. AbsVs = [q \in Lists |-> ValuesOf(heap.Value, Kept(q))]
    BY <1>11 DEF View
  <2>3. ASSUME NEW q \in Lists
        PROVE  ValuesOf(heap'.Value, Kept(q)) = ValuesOf(heap.Value, Kept(q))
    BY <1>8, ValuesSame
  <2> QED
    BY <2>1, <2>2, <2>3, <1>6
<1>14. UNCHANGED AbsUsed
  <2>1. AbsUsed = used \ Range(Copies) /\ AbsUsed' = used' \ Range(Copies')
    BY <1>11 DEF View
  <2> QED
    BY <2>1, <1>1, <1>7, <1>9
<1> QED
  BY <1>10, <1>12, <1>13, <1>14

(* The last iteration of a copy loop is Concat. *)
LEMMA CopyEnds ==
    ASSUME IInv, IInv', CopyValues, NEW e \in Elems, CopyStep(e), ~(copy.i > 1)
    PROVE  Abs!Next /\ CopyValues'
<1> DEFINE l == copy.l
           other == copy.other
           m == Len(Kept(other))
           N == NewCopies(e)
           u == es'[l]
           V == heap.Value
           W == heap'.Value
<1>1. /\ ~Idle /\ e \notin used /\ used' = used \union {e} /\ copy' = NoCopy
      /\ es' = [es EXCEPT ![l] = InsertAt(@, IF copy.atBack THEN Len(@) + 1 ELSE 1, e)]
  BY DEF CopyStep
<1>2. /\ l \in Lists /\ other \in Lists /\ copy.i \in 1..m /\ m \in Nat /\ copy.atBack \in BOOLEAN
      /\ copy.n0 \in 0..Len(es[l])
  BY <1>1, CopyFacts
<1>3. copy.i = 1
  BY <1>2
<1>4. Idle' /\ CopyValues'
  BY <1>1 DEF Idle, NoCopy, CopyValues
<1>5. View /\ IdleView'
  <2>1. (IInv /\ Idle)' => IdleView'
    BY IdleViewIs, PTL
  <2> QED
    BY <2>1, <1>4, ViewIs
<1>6. /\ u \in Seq(Elems)
      /\ copy.atBack =>
            /\ SubSeq(u, copy.n0 + 1, Len(u)) = N
            /\ u = Kept(l) \o N
      /\ ~copy.atBack =>
            /\ SubSeq(u, 1, Len(u) - copy.n0) = N
            /\ u = N \o Kept(l)
  BY CopyStepCut
<1>7. /\ N \in Seq(Elems) /\ Len(N) = m /\ Range(N) = Range(Copies) \union {e}
      /\ Range(Copies) \subseteq used /\ m = Len(Copies) + 1
  <2>1. /\ N \in Seq(Elems) /\ Len(N) = Len(Copies) + 1 /\ Range(N) = Range(Copies) \union {e}
    BY <1>1, NewCopiesFacts
  <2>2. Range(Copies) \subseteq used /\ Len(Copies) = m - copy.i
    BY <1>1, CopiesFacts
  <2> QED
    BY <2>1, <2>2, <1>2, <1>3
<1>8. IsInjective(N)
  <2>1. IsInjective(u)
    BY <1>2 DEF IInv, Mem
  <2>2. Len(u) = Len(es[l]) + 1 /\ Len(es[l]) \in Nat
    <3>1. es[l] \in Seq(Elems)
      BY <1>2, ListFacts DEF IInv
    <3>2. u = InsertAt(es[l], IF copy.atBack THEN Len(es[l]) + 1 ELSE 1, e)
      BY <1>1, <1>2 DEF IInv, TypeOK
    <3> DEFINE p == IF copy.atBack THEN Len(es[l]) + 1 ELSE 1
    <3>3. p \in 1..Len(es[l]) + 1 /\ u = InsertAt(es[l], p, e)
      BY <3>1, <3>2
    <3> HIDE DEF p, u
    <3> QED
      BY <3>1, <3>3, InsertAtFacts
  <2> HIDE DEF u
  <2>3. copy.n0 \in 0..Len(u) /\ Len(u) - copy.n0 \in 0..Len(u)
    BY <2>2, <1>2
  <2> QED
    BY <2>1, <2>3, <1>2, <1>6, CutInjective
<1>9. N \in Abs!Injection(1..Len(AbsEs[other]), Elems \ AbsUsed)
  <2>1. AbsEs[other] = Kept(other) /\ AbsUsed = used \ Range(Copies)
    BY <1>2, <1>5 DEF View
  <2>2. N = [j \in 1..m |-> N[j]] /\ \A j \in 1..m : N[j] \in Range(N)
    BY <1>7 DEF Range
  <2>3. \A j \in 1..m : N[j] \in Elems \ AbsUsed
    BY <2>1, <2>2, <1>1, <1>7
  <2>4. N \in [1..m -> Elems \ AbsUsed]
    BY <2>2, <2>3
  <2> QED
    BY <2>1, <2>4, <1>8, AbsInjection
<1>10. AbsUsed' = AbsUsed \union Abs!Range(N)
  <2>1. AbsUsed = used \ Range(Copies) /\ AbsUsed' = used'
    BY <1>5 DEF View, IdleView
  <2> QED
    BY <2>1, <1>1, <1>7, AbsRange
<1>11. AbsEs' = [AbsEs EXCEPT ![l] = u]
  <2>1. AbsEs' = es' /\ AbsEs = [q \in Lists |-> Kept(q)]
    BY <1>5 DEF View, IdleView
  <2>2. es' = [q \in Lists |-> es'[q]] /\ \A q \in Lists : q # l => es'[q] = es[q]
    BY <1>1 DEF IInv, TypeOK
  <2>3. \A q \in Lists : q # l => Kept(q) = es[q]
    BY DEF Kept
  <2> QED
    BY <2>1, <2>2, <2>3
<1>12. AbsVs' = [AbsVs EXCEPT ![l] = ValuesOf(W, u)]
  <2>1. AbsVs' = [q \in Lists |-> ValuesOf(W, es'[q])]
    BY <1>5 DEF IdleView
  <2>2. AbsVs = [q \in Lists |-> ValuesOf(V, Kept(q))]
    BY <1>5 DEF View
  <2>3. ASSUME NEW q \in Lists, q # l PROVE ValuesOf(W, es'[q]) = ValuesOf(V, Kept(q))
    <3>1. es'[q] = es[q] /\ Kept(q) = es[q]
      BY <2>3, <1>1 DEF IInv, TypeOK, Kept
    <3>2. Agree(V, W, Kept(q))
      BY CopyStepValues
    <3> QED
      BY <3>1, <3>2, ValuesSame
  <2> QED
    BY <2>1, <2>2, <2>3
<1>13. /\ ValuesOf(W, Kept(l)) = AbsVs[l] /\ ValuesOf(W, N) = AbsVs[other]
       /\ AbsEs[l] = Kept(l)
  <2>1. AbsVs[l] = ValuesOf(V, Kept(l)) /\ AbsVs[other] = ValuesOf(V, Kept(other)) /\ AbsEs[l] = Kept(l)
    BY <1>2, <1>5 DEF View
  <2>2. Agree(V, W, Kept(l))
    BY <1>2, CopyStepValues
  <2>3. ASSUME NEW j \in 1..m PROVE W[N[j]] = V[Kept(other)[j]]
    <3>1. W[N[j]] = V[Kept(other)[IF copy.atBack THEN j ELSE (copy.i - 1) + j]]
      BY <1>7, CopyStepValues
    <3>2. (copy.i - 1) + j = j
      BY <1>2, <1>3
    <3> QED
      BY <3>1, <3>2
  <2>4. ValuesOf(W, N) = ValuesOf(V, Kept(other))
    BY <2>3, <1>7 DEF ValuesOf
  <2> QED
    BY <2>1, <2>2, <2>4, ValuesSame
<1>14. W \in [Elems -> Val] /\ Kept(l) \in Seq(Elems)
  BY <1>2, KeptFacts DEF IInv, TypeOK, Heap, Val
<1> HIDE DEF l, other, m, N, u, V, W
<1>15. CASE copy.atBack
  <2>3. u = Kept(l) \o N
    BY <1>6, <1>15
  <2>4. ValuesOf(W, Kept(l) \o N) = ValuesOf(W, Kept(l)) \o ValuesOf(W, N)
    BY <1>7, <1>14, ValuesCat
  <2>1. u = AbsEs[l] \o N /\ ValuesOf(W, u) = AbsVs[l] \o AbsVs[other]
    BY <2>3, <2>4, <1>13, Zenon
  <2>2. Abs!Concat(l, other, TRUE)
    BY <2>1, <1>9, <1>10, <1>11, <1>12 DEF Abs!Concat
  <2> QED
    BY <2>2, <1>2, <1>4 DEF Abs!Next
<1>16. CASE ~copy.atBack
  <2>3. u = N \o Kept(l)
    BY <1>6, <1>16
  <2>4. ValuesOf(W, N \o Kept(l)) = ValuesOf(W, N) \o ValuesOf(W, Kept(l))
    BY <1>7, <1>14, ValuesCat
  <2>1. u = N \o AbsEs[l] /\ ValuesOf(W, u) = AbsVs[other] \o AbsVs[l]
    BY <2>3, <2>4, <1>13, Zenon
  <2>2. Abs!Concat(l, other, FALSE)
    BY <2>1, <1>9, <1>10, <1>11, <1>12 DEF Abs!Concat
  <2> QED
    BY <2>2, <1>2, <1>4 DEF Abs!Next
<1> QED
  BY <1>15, <1>16

-----------------------------------------------------------------------------
(* Every step of the code is a step of ListSpec, or none. *)
LEMMA StepAbs ==
    ASSUME IInv, IInv', CopyValues, ~ReuseCleared, Next
    PROVE  (Abs!Next \/ UNCHANGED <<AbsEs, AbsVs, AbsUsed>>) /\ CopyValues'
<1>1. ASSUME NEW l \in Lists, NEW other \in Lists, NEW atBack \in BOOLEAN,
             CopyBegin(l, other, atBack)
      PROVE  UNCHANGED <<AbsEs, AbsVs, AbsUsed>> /\ CopyValues'
  BY <1>1, CopyBeginAbs
<1>2. ASSUME NEW e \in Elems, CopyStep(e)
      PROVE  (Abs!Next \/ UNCHANGED <<AbsEs, AbsVs, AbsUsed>>) /\ CopyValues'
  <2>1. CASE copy.i > 1
    BY <1>2, <2>1, CopyGoesOn
  <2>2. CASE ~(copy.i > 1)
    BY <1>2, <2>2, CopyEnds
  <2> QED
    BY <2>1, <2>2
<1>3. ASSUME Idle, copy' = copy PROVE CopyValues'
  BY <1>3 DEF CopyValues, Idle
<1>4. ASSUME NEW l \in Lists, ClearList(l) PROVE Abs!Next /\ Idle /\ copy' = copy
  BY <1>4, ClearAbs DEF ClearList
<1>5. ASSUME NEW l \in Lists, NEW e \in Elems, NEW v \in Values,
             PushFront(l, e, v) \/ PushBack(l, e, v)
      PROVE  Abs!Next /\ Idle /\ copy' = copy
  BY <1>5, PushFrontAbs, PushBackAbs DEF PushFront, PushBack
<1>6. ASSUME NEW l \in Lists, NEW e \in Elems, NEW mark \in Elems, NEW v \in Values,
             InsertBefore(l, e, v, mark) \/ InsertAfter(l, e, v, mark)
      PROVE  Abs!Next /\ Idle /\ copy' = copy
  BY <1>6, InsertBeforeAbs, InsertAfterAbs DEF InsertBefore, InsertAfter
<1>7. ASSUME NEW l \in Lists, NEW e \in Elems,
             Remove_(l, e) \/ MoveToFront(l, e) \/ MoveToBack(l, e)
      PROVE  Abs!Next /\ Idle /\ copy' = copy
  BY <1>7, RemoveAbs, MoveToFrontAbs, MoveToBackAbs DEF Remove_, MoveToFront, MoveToBack
<1>8. ASSUME NEW l \in Lists, NEW e \in Elems, NEW mark \in Elems,
             MoveBefore(l, e, mark) \/ MoveAfter(l, e, mark)
      PROVE  Abs!Next /\ Idle /\ copy' = copy
  BY <1>8, MoveBeforeAbs, MoveAfterAbs DEF MoveBefore, MoveAfter
<1> QED
  BY <1>1, <1>2, <1>3, <1>4, <1>5, <1>6, <1>7, <1>8 DEF Next

(* The linked lists of list.go are sequences to their clients: every call is *)
(* the change of the sequences of elements and values that its documentation *)
(* promises, and PushBackList and PushFrontList add an exact copy of what    *)
(* other held when they were called, also when other is the list itself.     *)
THEOREM ListRefines == ~ReuseCleared => (Spec => RefinesListSpec)
<1> SUFFICES ASSUME ~ReuseCleared PROVE Spec => RefinesListSpec
  OBVIOUS
<1>1. Init => CopyValues /\ Abs!Init
  <2> SUFFICES ASSUME Init PROVE CopyValues /\ Abs!Init
    OBVIOUS
  <2>1. Idle /\ IInv
    BY InitIInv DEF Init, Idle, NoCopy
  <2>2. IdleView
    BY <2>1, IdleViewIs
  <2>3. ASSUME NEW l \in Lists PROVE ValuesOf(heap.Value, es[l]) = <<>>
    <3>1. es[l] = <<>>
      BY DEF Init
    <3> QED
      BY <3>1 DEF ValuesOf
  <2> QED
    BY <2>1, <2>2, <2>3 DEF CopyValues, IdleView, Init, Abs!Init
<1>2. IInv /\ IInv' /\ CopyValues /\ [Next]_vars
        => [Abs!Next]_(Abs!absVars) /\ CopyValues'
  <2> SUFFICES ASSUME IInv, IInv', CopyValues, [Next]_vars
               PROVE  (Abs!Next \/ UNCHANGED Abs!absVars) /\ CopyValues'
    OBVIOUS
  <2>1. CASE Next
    <3>1. (Abs!Next \/ UNCHANGED <<AbsEs, AbsVs, AbsUsed>>) /\ CopyValues'
      BY <2>1, StepAbs
    <3> QED
      BY <3>1 DEF Abs!absVars
  <2>2. CASE UNCHANGED vars
    <3>7. heap' = heap /\ copy' = copy /\ es' = es
      BY <2>2 DEF vars
    <3>2. \A l \in Lists : Kept(l)' = Kept(l)
      BY <3>7 DEF Kept, Idle
    <3>3. Copies' = Copies
      BY <3>7 DEF Copies, Idle
    <3>1. CopyValues'
      <4>1. Kept(copy.other)' = Kept(copy.other) /\ Idle' = Idle
        BY <3>7 DEF Kept, Idle
      <4> QED
        BY <4>1, <3>3, <3>7 DEF CopyValues
    <3>4. IInv' => View'
      BY ViewIs, PTL
    <3>5. View /\ View'
      BY <3>4, ViewIs
    <3>6. UNCHANGED <<AbsEs, AbsVs, AbsUsed>>
      <4>1. AbsEs' = [l \in Lists |-> Kept(l)'] /\ AbsEs = [l \in Lists |-> Kept(l)]
        BY <3>5 DEF View
      <4>2. /\ AbsVs' = [l \in Lists |-> ValuesOf(heap'.Value, Kept(l)')]
            /\ AbsVs = [l \in Lists |-> ValuesOf(heap.Value, Kept(l))]
        BY <3>5 DEF View
      <4>3. AbsUsed' = used' \ Range(Copies') /\ AbsUsed = used \ Range(Copies)
        BY <3>5 DEF View
      <4> QED
        BY <4>1, <4>2, <4>3, <3>2, <3>3, <2>2 DEF vars
    <3> QED
      BY <3>1, <3>6 DEF Abs!absVars
  <2> QED
    BY <2>1, <2>2
<1>3. Spec => []IInv
  BY ListInvariant
<1> QED
  BY <1>1, <1>2, <1>3, PTL DEF Spec, RefinesListSpec, Abs!Spec

-----------------------------------------------------------------------------
(***************************************************************************)
(* The queues of sync.Pool.  First numbers: head and tail count modulo     *)
(* Wrap, and a slot is an index modulo the size of its dequeue.            *)
(***************************************************************************)

(* What is left after dividing by s. *)
LEMMA Remainder ==
    ASSUME NEW s \in Nat \ {0}, NEW r \in 0..s - 1, NEW q \in Int
    PROVE  (q * s + r) % s = r
  OBVIOUS

LEMMA Division ==
    ASSUME NEW s \in Nat \ {0}, NEW a \in Int
    PROVE  \E q \in Int : a = q * s + (a % s) /\ a % s \in 0..s - 1
<1>1. a \div s \in Int /\ a = (a \div s) * s + (a % s) /\ a % s \in 0..s - 1
  OBVIOUS
<1> QED
  BY <1>1

LEMMA ModMultiple ==
    ASSUME NEW s \in Nat \ {0}, NEW a \in Int, NEW m \in Int
    PROVE  (a + m * s) % s = a % s
<1>1. PICK q \in Int : a = q * s + (a % s) /\ a % s \in 0..s - 1
  BY Division
<1>2. q + m \in Int /\ a + m * s = (q + m) * s + (a % s)
  BY <1>1
<1>3. ((q + m) * s + (a % s)) % s = a % s
  BY <1>1, <1>2, Remainder
<1> QED BY <1>2, <1>3

LEMMA ModApart ==
    ASSUME NEW s \in Nat \ {0}, NEW a \in Int, NEW b \in Int, a < b, b < a + s
    PROVE  a % s # b % s
<1>1. ASSUME a % s = b % s PROVE FALSE
  <2>1. PICK q \in Int : a = q * s + (a % s)
    BY Division
  <2>2. PICK r \in Int : b = r * s + (b % s)
    BY Division
  <2>3. b - a = (r - q) * s /\ r - q \in Int
    BY <2>1, <2>2, <1>1
  <2>4. r - q >= 1 \/ r - q <= 0
    BY <2>3
  <2>5. r - q >= 1 => (r - q) * s >= s
    BY <2>3
  <2>6. r - q <= 0 => (r - q) * s <= 0
    BY <2>3
  <2> QED BY <2>3, <2>4, <2>5, <2>6
<1> QED BY <1>1

LEMMA ModMod ==
    ASSUME NEW s \in Nat \ {0}, NEW w \in Nat \ {0}, w % s = 0, NEW a \in Int
    PROVE  (a % w) % s = a % s
<1>1. PICK q \in Int : a = q * w + (a % w) /\ a % w \in 0..w - 1
  BY Division
<1>2. PICK m \in Int : w = m * s
  <2>1. w \in Int
    OBVIOUS
  <2>2. \E m \in Int : w = m * s + (w % s) /\ w % s \in 0..s - 1
    BY <2>1, Division
  <2>3. \A m \in Int : m * s \in Int
    OBVIOUS
  <2> QED
    BY <2>2, <2>3
<1> DEFINE r == a % w
           n == q * m
<1>3. n \in Int /\ r \in Int /\ q * w = n * s
  <2>1. w = m * s
    BY <1>2
  <2> QED
    BY <2>1, <1>1, <1>2
<1>4. a = r + n * s
  BY <1>1, <1>3
<1> HIDE DEF r, n
<1>5. (r + n * s) % s = r % s
  BY <1>3, ModMultiple
<1> QED
  BY <1>4, <1>5 DEF r

LEMMA ModPlus ==
    ASSUME NEW s \in Nat \ {0}, NEW w \in Nat \ {0}, w % s = 0, NEW a \in Int
    PROVE  (a + w) % s = a % s
<1>1. w \in Int
  OBVIOUS
<1>2. \E m \in Int : w = m * s + (w % s) /\ w % s \in 0..s - 1
  BY <1>1, Division
<1>3. \A m \in Int : m * s \in Int
  OBVIOUS
<1>4. PICK m \in Int : w = m * s
  BY <1>2, <1>3
<1>5. (a + m * s) % s = a % s
  BY ModMultiple
<1> QED
  BY <1>4, <1>5

(* n slots in a row of a ring of s. *)
Arc(s, a, n) == {(a + k) % s : k \in 0..n - 1}

LEMMA ArcLonger ==
    ASSUME NEW s \in Nat \ {0}, NEW a \in Nat, NEW n \in Nat, n < s
    PROVE  /\ Arc(s, a, n + 1) = Arc(s, a, n) \union {(a + n) % s}
           /\ (a + n) % s \notin Arc(s, a, n)
<1>1. ASSUME NEW k \in 0..n - 1 PROVE (a + k) % s # (a + n) % s
  <2>1. a + k \in Int /\ a + n \in Int /\ a + k < a + n /\ a + n < (a + k) + s
    OBVIOUS
  <2> QED
    BY <2>1, ModApart
<1>2. 0..n = (0..n - 1) \union {n}
  OBVIOUS
<1>3. (n + 1) - 1 = n
  OBVIOUS
<1> QED
  BY <1>1, <1>2, <1>3 DEF Arc

LEMMA ArcShorter ==
    ASSUME NEW s \in Nat \ {0}, NEW a \in Nat, NEW n \in Nat, n < s
    PROVE  /\ Arc(s, a, n + 1) = {a % s} \union Arc(s, a + 1, n)
           /\ a % s \notin Arc(s, a + 1, n)
<1>1. ASSUME NEW k \in 0..n - 1 PROVE (a + 1 + k) % s # a % s
  <2>1. a + 1 + k \in Int /\ a < a + 1 + k /\ a + 1 + k < a + s
    OBVIOUS
  <2> QED
    BY <2>1, ModApart
<1>2. \A k \in 0..n : k = 0 \/ (k - 1 \in 0..n - 1 /\ a + k = a + 1 + (k - 1))
  OBVIOUS
<1>3. \A k \in 0..n - 1 : k + 1 \in 0..n /\ a + (k + 1) = a + 1 + k
  OBVIOUS
<1>4. (n + 1) - 1 = n /\ 0 \in 0..n /\ a + 0 = a
  OBVIOUS
<1>5. Arc(s, a, n + 1) = {(a + k) % s : k \in 0..n}
  BY <1>4 DEF Arc
<1>6. ASSUME NEW c \in Arc(s, a, n + 1) PROVE c \in {a % s} \union Arc(s, a + 1, n)
  <2>1. PICK k \in 0..n : c = (a + k) % s
    BY <1>5
  <2> QED BY <2>1, <1>2, <1>4 DEF Arc
<1>7. ASSUME NEW c \in {a % s} \union Arc(s, a + 1, n) PROVE c \in Arc(s, a, n + 1)
  BY <1>3, <1>4, <1>5 DEF Arc
<1> QED
  BY <1>1, <1>6, <1>7 DEF Arc

(* Size is what its definition says: there is such a function. *)
LEMMA SizeIs ==
    \A i \in Elt :
        Size[i] = IF i = 1 THEN initSize
                  ELSE IF 2 * Size[i - 1] >= dequeueLimit THEN dequeueLimit ELSE 2 * Size[i - 1]
<1> DEFINE Body(f, i) == IF i = 1 THEN initSize
                         ELSE IF 2 * f[i - 1] >= dequeueLimit THEN dequeueLimit ELSE 2 * f[i - 1]
           Part(n) == \E f : f = [i \in 1..n |-> Body(f, i)]
           Bad == {n \in Nat : ~Part(n)}
<1>1. Part(0)
  <2> DEFINE f == [i \in 1..0 |-> 0]
  <2>1. f = [i \in 1..0 |-> Body(f, i)]
    OBVIOUS
  <2> QED
    BY <2>1
<1>2. ASSUME NEW n \in Nat, n # 0, Part(n - 1) PROVE Part(n)
  <2>1. PICK g : g = [i \in 1..n - 1 |-> Body(g, i)]
    BY <1>2
  <2> DEFINE f == [i \in 1..n |-> IF i < n THEN g[i] ELSE Body(g, n)]
  <2>2. ASSUME NEW i \in 1..n PROVE f[i] = Body(f, i)
    <3>1. i # 1 => i - 1 \in 1..n /\ f[i - 1] = g[i - 1]
      OBVIOUS
    <3>2. Body(f, i) = Body(g, i)
      BY <3>1
    <3>3. CASE i < n
      <4>1. i \in 1..n - 1
        BY <3>3
      <4>2. g[i] = Body(g, i)
        BY <2>1, <4>1
      <4> QED
        BY <4>2, <3>2, <3>3
    <3>4. CASE i = n
      BY <3>4, <3>2
    <3> QED
      BY <3>3, <3>4
  <2>3. f = [i \in 1..n |-> f[i]]
    OBVIOUS
  <2> HIDE DEF f
  <2>4. f = [i \in 1..n |-> Body(f, i)]
    BY <2>2, <2>3
  <2> QED
    BY <2>4
<1>3. Bad = {}
  <2> SUFFICES ASSUME Bad # {} PROVE FALSE
    OBVIOUS
  <2> HIDE DEF Part
  <2>1. PICK n \in Bad : \A m \in Bad : n <= m
    BY LeastNumber
  <2>2. n \in Nat /\ ~Part(n) /\ n # 0
    BY <1>1
  <2>3. n - 1 \in Nat /\ n - 1 \notin Bad
    BY <2>1, <2>2
  <2> QED
    BY <2>2, <2>3, <1>2
<1>4. Part(MaxElts)
  <2> HIDE DEF Part
  <2> QED
    BY <1>3, PoolQueueConstants
<1>5. \E f : f = [i \in Elt |-> Body(f, i)]
  BY <1>4 DEF Elt
<1> DEFINE Def(f) == [i \in Elt |-> Body(f, i)]
<1>6. Size = CHOOSE f : f = Def(f)
  BY DEF Size
<1> HIDE DEF Def
<1>7. Size = Def(Size)
  BY <1>5, <1>6 DEF Def
<1> QED
  BY <1>7 DEF Def

LEMMA Sizes ==
    /\ Wrap \in Nat /\ Wrap > 1 /\ dequeueLimit \in Nat \ {0} /\ MaxElts \in Nat \ {0}
    /\ \A i \in Elt : /\ Size[i] \in 1..dequeueLimit
                       /\ 2 * Size[i] <= Wrap /\ Wrap % Size[i] = 0
<1>1. /\ Wrap \in Nat /\ Wrap > 1 /\ dequeueLimit \in Nat \ {0} /\ MaxElts \in Nat \ {0}
      /\ initSize \in 1..dequeueLimit /\ 2 * dequeueLimit <= Wrap
  BY PoolQueueConstants
<1> DEFINE Bad == {i \in Elt : Size[i] \notin 1..dequeueLimit}
<1>2. ASSUME Bad # {} PROVE FALSE
  <2>1. Bad \subseteq Nat
    BY DEF Elt
  <2> HIDE DEF Bad
  <2>2. PICK n \in Bad : \A m \in Bad : n <= m
    BY <1>2, <2>1, LeastNumber
  <2>3. n \in Elt /\ n \in Nat /\ Size[n] \notin 1..dequeueLimit
    BY <2>2 DEF Bad, Elt
  <2>4. n # 1
    BY <2>3, SizeIs, <1>1
  <2>5. n - 1 \in Elt
    BY <2>3, <2>4, <1>1 DEF Elt
  <2>6. Size[n - 1] \in 1..dequeueLimit
    BY <2>2, <2>3, <2>5 DEF Bad
  <2> QED
    BY <2>3, <2>4, <2>6, SizeIs, <1>1
<1> QED
  BY <1>1, <1>2, PoolQueueSizes

(* The indexes count modulo Wrap. *)
LEMMA Indexes ==
    ASSUME NEW a \in 0..Wrap - 1, NEW b \in 0..Wrap - 1
    PROVE  /\ (a - b) % Wrap = IF a >= b THEN a - b ELSE a - b + Wrap
           /\ (a + 1) % Wrap = IF a + 1 = Wrap THEN 0 ELSE a + 1
           /\ (a - 1) % Wrap = IF a = 0 THEN Wrap - 1 ELSE a - 1
<1>1. Wrap \in Nat /\ Wrap > 1
  BY Sizes
<1>2. ASSUME NEW c \in 0..Wrap - 1 PROVE c % Wrap = c
  BY <1>1
<1>3. ASSUME NEW c \in -Wrap..-1 PROVE c % Wrap = c + Wrap
  BY <1>1
<1>4. Wrap % Wrap = 0
  BY <1>1
<1>5. (a - b) % Wrap = IF a >= b THEN a - b ELSE a - b + Wrap
  <2>1. IF a >= b THEN a - b \in 0..Wrap - 1 ELSE a - b \in -Wrap..-1
    BY <1>1
  <2> QED
    BY <2>1, <1>2, <1>3
<1>6. (a + 1) % Wrap = IF a + 1 = Wrap THEN 0 ELSE a + 1
  <2>1. IF a + 1 = Wrap THEN TRUE ELSE a + 1 \in 0..Wrap - 1
    BY <1>1
  <2> QED
    BY <2>1, <1>1, <1>2, <1>4
<1>7. (a - 1) % Wrap = IF a = 0 THEN Wrap - 1 ELSE a - 1
  <2>1. IF a = 0 THEN a - 1 \in -Wrap..-1 ELSE a - 1 \in 0..Wrap - 1
    BY <1>1
  <2>2. (a - 1) + Wrap = (a + Wrap) - 1
    BY <1>1
  <2> QED
    BY <2>1, <2>2, <1>1, <1>2, <1>3
<1> QED
  BY <1>5, <1>6, <1>7

(* The window of a ring of s slots whose indexes are a and b. *)
Apart(a, b) == (a - b) % Wrap
Between(s, a, b) == {((b + k) % Wrap) % s : k \in 0..Apart(a, b) - 1}

LEMMA BetweenArc ==
    ASSUME NEW s \in Nat \ {0}, Wrap % s = 0, NEW a \in 0..Wrap - 1, NEW b \in 0..Wrap - 1
    PROVE  Between(s, a, b) = Arc(s, b, Apart(a, b))
<1>1. Wrap \in Nat \ {0}
  BY Sizes
<1>2. Apart(a, b) \in Nat
  BY <1>1, Indexes DEF Apart
<1>3. ASSUME NEW k \in 0..Apart(a, b) - 1 PROVE ((b + k) % Wrap) % s = (b + k) % s
  <2>1. b + k \in Int
    BY <1>2
  <2> QED
    BY <2>1, <1>1, ModMod
<1> QED
  BY <1>3 DEF Between, Arc

LEMMA RingUp ==
    ASSUME NEW s \in Nat \ {0}, Wrap % s = 0, 2 * s <= Wrap,
           NEW a \in 0..Wrap - 1, NEW b \in 0..Wrap - 1, Apart(a, b) < s
    PROVE  LET c == (a + 1) % Wrap IN
           /\ c \in 0..Wrap - 1 /\ Apart(c, b) = Apart(a, b) + 1
           /\ Between(s, c, b) = Between(s, a, b) \union {a % s}
           /\ a % s \notin Between(s, a, b)
<1> DEFINE c == (a + 1) % Wrap
           n == Apart(a, b)
<1>1. Wrap \in Nat /\ Wrap > 1
  BY Sizes
<1>2. n \in Nat /\ n < s /\ n = IF a >= b THEN a - b ELSE a - b + Wrap
  BY <1>1, Indexes DEF Apart
<1>3. c = IF a + 1 = Wrap THEN 0 ELSE a + 1
  BY Indexes
<1>4. c \in 0..Wrap - 1
  BY <1>1, <1>3
<1>5. Apart(c, b) = IF c >= b THEN c - b ELSE c - b + Wrap
  BY <1>4, Indexes DEF Apart
<1> HIDE DEF c, n
<1>6. Apart(c, b) = n + 1
  BY <1>1, <1>2, <1>3, <1>5
<1>7. Between(s, a, b) = Arc(s, b, n) /\ Between(s, c, b) = Arc(s, b, n + 1)
  BY <1>4, <1>6, BetweenArc DEF n
<1>8. b + n = a \/ b + n = a + 1 * Wrap
  BY <1>1, <1>2
<1>9. (b + n) % s = a % s
  <2>1. Wrap \in Nat \ {0} /\ a \in Int
    BY <1>1
  <2>2. (a + Wrap) % s = a % s
    BY <2>1, ModPlus, Zenon
  <2> QED
    BY <2>2, <1>8, <1>1
<1>10. b \in Nat
  OBVIOUS
<1>11. /\ Arc(s, b, n + 1) = Arc(s, b, n) \union {(b + n) % s}
       /\ (b + n) % s \notin Arc(s, b, n)
  <2>1. n \in Nat /\ n < s /\ b \in Nat
    BY <1>2, <1>10
  <2> QED
    BY <2>1, ArcLonger, Zenon
<1>12. /\ Between(s, c, b) = Between(s, a, b) \union {a % s}
       /\ a % s \notin Between(s, a, b)
  BY <1>7, <1>9, <1>11
<1> QED
  BY <1>4, <1>6, <1>12 DEF c, n

LEMMA RingDown ==
    ASSUME NEW s \in Nat \ {0}, Wrap % s = 0, 2 * s <= Wrap,
           NEW a \in 0..Wrap - 1, NEW b \in 0..Wrap - 1, Apart(a, b) <= s, a # b
    PROVE  LET c == (a - 1) % Wrap IN
           /\ c \in 0..Wrap - 1 /\ Apart(c, b) = Apart(a, b) - 1
           /\ Between(s, a, b) = Between(s, c, b) \union {c % s}
           /\ c % s \notin Between(s, c, b)
<1> DEFINE c == (a - 1) % Wrap
<1>1. Wrap \in Nat /\ Wrap > 1
  BY Sizes
<1>2. Apart(a, b) = IF a >= b THEN a - b ELSE a - b + Wrap
  BY Indexes DEF Apart
<1>3. c = IF a = 0 THEN Wrap - 1 ELSE a - 1
  BY Indexes
<1>4. c \in 0..Wrap - 1
  BY <1>1, <1>3
<1>5. Apart(c, b) = IF c >= b THEN c - b ELSE c - b + Wrap
  BY <1>4, Indexes DEF Apart
<1>6. (c + 1) % Wrap = a
  <2>1. (c + 1) % Wrap = IF c + 1 = Wrap THEN 0 ELSE c + 1
    BY <1>4, Indexes
  <2> QED
    BY <2>1, <1>1, <1>3
<1> HIDE DEF c
<1>7. Apart(c, b) = Apart(a, b) - 1 /\ Apart(c, b) < s
  BY <1>1, <1>2, <1>3, <1>5
<1> QED
  BY <1>4, <1>6, <1>7, RingUp DEF c

LEMMA RingShift ==
    ASSUME NEW s \in Nat \ {0}, Wrap % s = 0, 2 * s <= Wrap,
           NEW a \in 0..Wrap - 1, NEW b \in 0..Wrap - 1, Apart(a, b) <= s, a # b
    PROVE  LET c == (b + 1) % Wrap IN
           /\ c \in 0..Wrap - 1 /\ Apart(a, c) = Apart(a, b) - 1
           /\ Between(s, a, b) = Between(s, a, c) \union {b % s}
           /\ b % s \notin Between(s, a, c)
<1> DEFINE c == (b + 1) % Wrap
           n == Apart(a, c)
<1>1. Wrap \in Nat /\ Wrap > 1
  BY Sizes
<1>2. Apart(a, b) = IF a >= b THEN a - b ELSE a - b + Wrap
  BY Indexes DEF Apart
<1>3. c = IF b + 1 = Wrap THEN 0 ELSE b + 1
  BY Indexes
<1>4. c \in 0..Wrap - 1
  BY <1>1, <1>3
<1>5. n = IF a >= c THEN a - c ELSE a - c + Wrap
  BY <1>4, Indexes DEF Apart
<1> HIDE DEF c, n
<1>6. n = Apart(a, b) - 1 /\ n \in Nat /\ n < s /\ n + 1 = Apart(a, b)
  BY <1>1, <1>2, <1>3, <1>5
<1>7. Between(s, a, b) = Arc(s, b, n + 1) /\ Between(s, a, c) = Arc(s, c, n)
  BY <1>4, <1>6, BetweenArc DEF n
<1>8. Arc(s, c, n) = Arc(s, b + 1, n)
  <2>1. ASSUME NEW k \in 0..n - 1 PROVE (c + k) % s = (b + 1 + k) % s
    <3>1. b + 1 + k = c + k \/ b + 1 + k = c + k + Wrap
      BY <1>1, <1>3
    <3>2. c + k \in Int
      BY <1>4
    <3>3. (c + k + Wrap) % s = (c + k) % s
      BY <3>2, <1>1, ModPlus
    <3> QED
      BY <3>1, <3>3
  <2> QED
    BY <2>1 DEF Arc
<1>9. b \in Nat
  OBVIOUS
<1>10. /\ Arc(s, b, n + 1) = {b % s} \union Arc(s, b + 1, n)
       /\ b % s \notin Arc(s, b + 1, n)
  <2>1. n \in Nat /\ n < s /\ b \in Nat
    BY <1>6, <1>9
  <2> QED
    BY <2>1, ArcShorter, Zenon
<1>11. /\ Between(s, a, b) = Between(s, a, c) \union {b % s}
       /\ b % s \notin Between(s, a, c)
  BY <1>7, <1>8, <1>10
<1> QED
  BY <1>4, <1>6, <1>11 DEF c, n

LEMMA RingFull ==
    ASSUME NEW s \in Nat \ {0}, 2 * s <= Wrap, NEW a \in 0..Wrap - 1, NEW b \in 0..Wrap - 1
    PROVE  (b + s) % Wrap = a <=> Apart(a, b) = s
<1>1. Wrap \in Nat /\ Wrap > 1
  BY Sizes
<1>2. Apart(a, b) = IF a >= b THEN a - b ELSE a - b + Wrap
  BY Indexes DEF Apart
<1>3. ASSUME NEW c \in 0..Wrap - 1 PROVE c % Wrap = c
  BY <1>1
<1>4. ASSUME NEW c \in Wrap..2 * Wrap - 1 PROVE c % Wrap = c - Wrap
  BY <1>1
<1>5. CASE b + s \in 0..Wrap - 1
  BY <1>1, <1>2, <1>3, <1>5
<1>6. CASE b + s \in Wrap..2 * Wrap - 1
  BY <1>1, <1>2, <1>4, <1>6
<1> QED
  BY <1>1, <1>5, <1>6

LEMMA RingEmpty ==
    ASSUME NEW s \in Nat \ {0}, NEW a \in 0..Wrap - 1, NEW b \in 0..Wrap - 1
    PROVE  /\ Apart(a, b) \in 0..Wrap - 1
           /\ Apart(a, b) = 0 <=> a = b
           /\ Between(s, a, b) = {} <=> a = b
<1>1. Wrap \in Nat /\ Wrap > 1
  BY Sizes
<1>2. Apart(a, b) = IF a >= b THEN a - b ELSE a - b + Wrap
  BY Indexes DEF Apart
<1>3. Apart(a, b) \in 0..Wrap - 1 /\ (Apart(a, b) = 0 <=> a = b)
  BY <1>1, <1>2
<1>4. Apart(a, b) # 0 => 0 \in 0..Apart(a, b) - 1
  BY <1>3
<1>5. Apart(a, b) = 0 => 0..Apart(a, b) - 1 = {}
  BY <1>3
<1> QED
  BY <1>3, <1>4, <1>5 DEF Between
(* Where the producer and the consumers may be. *)
ProducerPlaces ==
    {"idle", "first", "link", "full", "typ", "write", "add", "pophead", "back", "headslot"}
ConsumerPlaces ==
    {"idle", "next", "poptail", "tailslot", "clearval", "cleartyp", "drop", "cut"}

Drained(i) == hd[i] = tl[i]

(* A slot that a goroutine uses outside the window is its own. *)
Owned ==
    \A p \in Proc : Mine(p) =>
        /\ slot[p] \notin Window(deq[p])
        /\ \A q \in Proc \ {p} : ~(Mine(q) /\ deq[q] = deq[p] /\ slot[q] = slot[p])

(* The chain: links go to neighbours, a dequeue that is left behind or not *)
(* made yet is empty.                                                      *)
ChainOK ==
    /\ tail = 0 => head = 0 \/ (head = 1 /\ pc[Producer] = "first")
    /\ \A i \in Elt : /\ next[i] \in {0, i + 1} /\ (next[i] # 0 => i < head)
                      /\ prev[i] \in {0, i - 1} /\ (prev[i] = 0 /\ i <= head /\ i # 1 => i <= tail)
                      /\ i < tail \/ i > head \/ tail = 0 => Drained(i)

(* The producer is at the head of the chain when it pushes, and has looked *)
(* into every dequeue after the one where it looks for an item.            *)
ProducerOK ==
    LET p == Producer
        i == deq[p]
    IN  /\ pc[p] \in ProducerPlaces
        /\ pc[p] \in {"first", "link", "full", "typ", "write", "add"} =>
              i = head /\ head # 0 /\ arg[p] \in Item
        /\ pc[p] = "first" => head = 1 /\ tail = 0
        /\ pc[p] = "link" => head > 1
        /\ pc[p] \in {"idle", "pophead", "back", "headslot"} => arg[p] = NoItem
        /\ pc[p] \in {"typ", "write", "add"} => Entries(i) < Size[i] /\ slot[p] = Slot(i, hd[i])
        /\ pc[p] = "add" => typ[i][slot[p]] /\ val[i][slot[p]] = arg[p]
        /\ pc[p] \in {"pophead", "back"} => i <= head /\ \A j \in i + 1..MaxElts : Drained(j)
        /\ pc[p] = "back" => i # 0 /\ Drained(i)
        /\ pc[p] = "headslot" => i # 0 /\ i <= head /\ slot[p] \in 0..Size[i] - 1

(* A consumer is in the chain, at its tail or before it, and leaves a      *)
(* dequeue only when it has run dry for good.                              *)
ConsumerOK(p) ==
    LET i == deq[p]
    IN  /\ pc[p] \in ConsumerPlaces
        /\ pc[p] # "idle" => i # 0 /\ i <= tail
        /\ pc[p] = "poptail" => deq2[p] = 0 \/ (deq2[p] = i + 1 /\ i < head)
        /\ pc[p] \in {"drop", "cut"} => deq2[p] = i + 1 /\ i < head /\ Drained(i)
        /\ pc[p] = "cut" => i < tail
        /\ pc[p] \in {"tailslot", "clearval", "cleartyp"} =>
              slot[p] \in 0..Size[i] - 1 /\ typ[i][slot[p]]
        /\ arg[p] # NoItem => pc[p] \in {"clearval", "cleartyp"}

RingsOK ==
    \A i \in Elt : /\ Entries(i) <= Size[i]
                   /\ \A s \in Window(i) : typ[i][s]

PoolInv ==
    /\ PoolTypeOK /\ Owned /\ ChainOK /\ ProducerOK /\ RingsOK
    /\ \A p \in Consumer : ConsumerOK(p)

-----------------------------------------------------------------------------
LEMMA PoolTypes ==
    ASSUME PoolInv
    PROVE  /\ hd \in [Elt -> 0..Wrap - 1] /\ tl \in [Elt -> 0..Wrap - 1]
           /\ DOMAIN typ = Elt /\ DOMAIN val = Elt
           /\ \A i \in Elt : /\ typ[i] \in [0..Size[i] - 1 -> BOOLEAN]
                             /\ val[i] \in [0..Size[i] - 1 -> Item \union {NoItem}]
           /\ next \in [Elt -> 0..MaxElts] /\ prev \in [Elt -> 0..MaxElts]
           /\ head \in 0..MaxElts /\ tail \in 0..head
           /\ pc \in [Proc -> Places]
           /\ deq \in [Proc -> 0..MaxElts] /\ deq2 \in [Proc -> 0..MaxElts]
           /\ slot \in [Proc -> 0..dequeueLimit - 1]
           /\ arg \in [Proc -> Item \union {NoItem}]
           /\ free \in SUBSET Item /\ NoItem \notin Item
           /\ MaxElts \in Nat /\ Elt = 1..MaxElts
           /\ Producer \in Proc /\ Producer \notin Consumer
           /\ \A p \in Proc : p = Producer \/ p \in Consumer
           /\ \A p \in Consumer : p \in Proc /\ p # Producer
  BY PoolQueueConstants DEF PoolInv, PoolTypeOK, Elt, Proc

(* Who is at a place. *)
LEMMA WhoIsThere ==
    ASSUME PoolInv, NEW p \in Proc
    PROVE  /\ pc[p] \in ProducerPlaces \ {"idle"} => p = Producer
           /\ pc[p] \in ConsumerPlaces \ {"idle"} => p \in Consumer
<1>1. pc[Producer] \in ProducerPlaces /\ \A q \in Consumer : pc[q] \in ConsumerPlaces
  BY DEF PoolInv, ProducerOK, ConsumerOK
<1>2. p = Producer \/ p \in Consumer
  BY PoolTypes
<1> QED
  BY <1>1, <1>2 DEF ProducerPlaces, ConsumerPlaces

(* The window of a dequeue, as the operators on numbers have it. *)
LEMMA WindowIs ==
    ASSUME NEW i \in Elt
    PROVE  /\ Window(i) = Between(Size[i], hd[i], tl[i]) /\ Entries(i) = Apart(hd[i], tl[i])
           /\ Window(i)' = Between(Size[i], hd'[i], tl'[i]) /\ Entries(i)' = Apart(hd'[i], tl'[i])
  BY DEF Window, Entries, Slot, Between, Apart

LEMMA SameWindow ==
    ASSUME NEW i \in Elt, hd'[i] = hd[i], tl'[i] = tl[i]
    PROVE  Window(i)' = Window(i) /\ Entries(i)' = Entries(i) /\ (Drained(i)' <=> Drained(i))
  BY WindowIs DEF Drained

LEMMA EntriesNat ==
    ASSUME PoolInv, NEW i \in Elt
    PROVE  /\ Entries(i) \in 0..Size[i] /\ Size[i] \in 1..dequeueLimit
           /\ Entries(i) = 0 <=> Drained(i)
           /\ Window(i) = {} <=> Drained(i)
           /\ Window(i) \subseteq 0..Size[i] - 1
           /\ hd[i] \in 0..Wrap - 1 /\ tl[i] \in 0..Wrap - 1
<1>1. hd[i] \in 0..Wrap - 1 /\ tl[i] \in 0..Wrap - 1
  BY PoolTypes
<1>2. Size[i] \in 1..dequeueLimit /\ dequeueLimit \in Nat /\ Wrap \in Nat /\ Wrap > 1
  BY Sizes
<1>3. Size[i] \in Nat \ {0}
  BY <1>2
<1>4. /\ Entries(i) \in 0..Wrap - 1 /\ (Entries(i) = 0 <=> Drained(i))
      /\ (Window(i) = {} <=> Drained(i))
  <2>1. /\ Apart(hd[i], tl[i]) \in 0..Wrap - 1
        /\ Apart(hd[i], tl[i]) = 0 <=> hd[i] = tl[i]
        /\ Between(Size[i], hd[i], tl[i]) = {} <=> hd[i] = tl[i]
    <3> DEFINE s == Size[i]  a == hd[i]  b == tl[i]
    <3> HIDE DEF s, a, b
    <3>1. s \in Nat \ {0} /\ a \in 0..Wrap - 1 /\ b \in 0..Wrap - 1
      BY <1>1, <1>3 DEF s, a, b
    <3>2. /\ Apart(a, b) \in 0..Wrap - 1
          /\ Apart(a, b) = 0 <=> a = b
          /\ Between(s, a, b) = {} <=> a = b
      BY <3>1, RingEmpty
    <3> QED
      BY <3>2 DEF s, a, b
  <2> QED
    BY <2>1, WindowIs DEF Drained
<1>5. Entries(i) <= Size[i]
  BY DEF PoolInv, RingsOK
<1>6. ASSUME NEW x \in Int PROVE x % Size[i] \in 0..Size[i] - 1
  BY <1>3, Division
<1>7. ASSUME NEW k \in 0..Entries(i) - 1 PROVE Slot(i, (tl[i] + k) % Wrap) \in 0..Size[i] - 1
  <2>1. (tl[i] + k) % Wrap \in Int
    BY <1>1, <1>2
  <2> QED
    BY <2>1, <1>6 DEF Slot
<1>8. Window(i) \subseteq 0..Size[i] - 1
  BY <1>7 DEF Window
<1> QED
  BY <1>1, <1>2, <1>4, <1>5, <1>8

(* The head of a dequeue goes up, the head goes down, the tail goes up. *)
LEMMA HeadUp ==
    ASSUME PoolInv, NEW i \in Elt, Entries(i) < Size[i],
           hd' = [hd EXCEPT ![i] = (@ + 1) % Wrap], tl' = tl
    PROVE  /\ hd' \in [Elt -> 0..Wrap - 1]
           /\ Entries(i)' = Entries(i) + 1
           /\ Window(i)' = Window(i) \union {Slot(i, hd[i])} /\ Slot(i, hd[i]) \notin Window(i)
<1>1. hd[i] \in 0..Wrap - 1 /\ tl[i] \in 0..Wrap - 1 /\ hd \in [Elt -> 0..Wrap - 1]
  BY PoolTypes
<1>2. Size[i] \in Nat \ {0} /\ Wrap % Size[i] = 0 /\ 2 * Size[i] <= Wrap
  BY Sizes
<1>3. hd'[i] = (hd[i] + 1) % Wrap /\ tl'[i] = tl[i]
  BY <1>1
<1>4. /\ hd'[i] \in 0..Wrap - 1 /\ Apart(hd'[i], tl[i]) = Apart(hd[i], tl[i]) + 1
      /\ Between(Size[i], hd'[i], tl[i]) =
             Between(Size[i], hd[i], tl[i]) \union {hd[i] % Size[i]}
      /\ hd[i] % Size[i] \notin Between(Size[i], hd[i], tl[i])
  BY <1>1, <1>2, <1>3, WindowIs, RingUp
<1>5. hd' \in [Elt -> 0..Wrap - 1]
  BY <1>1, <1>3, <1>4
<1> QED
  BY <1>3, <1>4, <1>5, WindowIs DEF Slot

LEMMA HeadDown ==
    ASSUME PoolInv, NEW i \in Elt, ~Drained(i),
           hd' = [hd EXCEPT ![i] = (@ - 1) % Wrap], tl' = tl
    PROVE  /\ hd' \in [Elt -> 0..Wrap - 1]
           /\ Entries(i)' = Entries(i) - 1
           /\ Window(i) = Window(i)' \union {Slot(i, hd'[i])} /\ Slot(i, hd'[i]) \notin Window(i)'
<1>1. hd[i] \in 0..Wrap - 1 /\ tl[i] \in 0..Wrap - 1 /\ hd \in [Elt -> 0..Wrap - 1]
  BY PoolTypes
<1>2. Size[i] \in Nat \ {0} /\ Wrap % Size[i] = 0 /\ 2 * Size[i] <= Wrap
  BY Sizes
<1>3. hd'[i] = (hd[i] - 1) % Wrap /\ tl'[i] = tl[i]
  BY <1>1
<1>4. Apart(hd[i], tl[i]) <= Size[i] /\ hd[i] # tl[i]
  BY WindowIs DEF PoolInv, RingsOK, Drained
<1>5. /\ hd'[i] \in 0..Wrap - 1 /\ Apart(hd'[i], tl[i]) = Apart(hd[i], tl[i]) - 1
      /\ Between(Size[i], hd[i], tl[i]) =
             Between(Size[i], hd'[i], tl[i]) \union {hd'[i] % Size[i]}
      /\ hd'[i] % Size[i] \notin Between(Size[i], hd'[i], tl[i])
  BY <1>1, <1>2, <1>3, <1>4, RingDown
<1>6. hd' \in [Elt -> 0..Wrap - 1]
  BY <1>1, <1>3, <1>5
<1> QED
  BY <1>3, <1>5, <1>6, WindowIs DEF Slot

LEMMA TailUp ==
    ASSUME PoolInv, NEW i \in Elt, ~Drained(i),
           tl' = [tl EXCEPT ![i] = (@ + 1) % Wrap], hd' = hd
    PROVE  /\ tl' \in [Elt -> 0..Wrap - 1]
           /\ Entries(i)' = Entries(i) - 1
           /\ Window(i) = Window(i)' \union {Slot(i, tl[i])} /\ Slot(i, tl[i]) \notin Window(i)'
<1>1. hd[i] \in 0..Wrap - 1 /\ tl[i] \in 0..Wrap - 1 /\ tl \in [Elt -> 0..Wrap - 1]
  BY PoolTypes
<1>2. Size[i] \in Nat \ {0} /\ Wrap % Size[i] = 0 /\ 2 * Size[i] <= Wrap
  BY Sizes
<1>3. tl'[i] = (tl[i] + 1) % Wrap /\ hd'[i] = hd[i]
  BY <1>1
<1>4. Apart(hd[i], tl[i]) <= Size[i] /\ hd[i] # tl[i]
  BY WindowIs DEF PoolInv, RingsOK, Drained
<1>5. /\ tl'[i] \in 0..Wrap - 1 /\ Apart(hd[i], tl'[i]) = Apart(hd[i], tl[i]) - 1
      /\ Between(Size[i], hd[i], tl[i]) =
             Between(Size[i], hd[i], tl'[i]) \union {tl[i] % Size[i]}
      /\ tl[i] % Size[i] \notin Between(Size[i], hd[i], tl'[i])
  BY <1>1, <1>2, <1>3, <1>4, RingShift
<1>6. tl' \in [Elt -> 0..Wrap - 1]
  BY <1>1, <1>3, <1>5
<1> QED
  BY <1>3, <1>5, <1>6, WindowIs DEF Slot

-----------------------------------------------------------------------------
(* What a step of somebody else leaves as it is. *)

Others(p) ==
    \A q \in Proc \ {p} : /\ pc'[q] = pc[q] /\ deq'[q] = deq[q] /\ deq2'[q] = deq2[q]
                          /\ slot'[q] = slot[q] /\ arg'[q] = arg[q]

LEMMA ConsumerKeeps ==
    ASSUME PoolInv, NEW p \in Proc, NEW q \in Consumer, q # p, Others(p),
           head' \in Nat, tail' \in Nat, head <= head', tail <= tail',
           \A i \in Elt : i < head /\ Drained(i) => Drained(i)',
           pc[q] \in {"tailslot", "clearval", "cleartyp"} => typ'[deq[q]][slot[q]] = typ[deq[q]][slot[q]]
    PROVE  ConsumerOK(q)'
<1>1. ConsumerOK(q) /\ q \in Proc
  BY PoolTypes DEF PoolInv
<1>4. /\ pc'[q] = pc[q] /\ deq'[q] = deq[q] /\ deq2'[q] = deq2[q]
      /\ slot'[q] = slot[q] /\ arg'[q] = arg[q]
  BY <1>1 DEF Others
<1>2. deq[q] \in 0..MaxElts /\ head \in Nat /\ tail \in Nat /\ head <= MaxElts /\ tail <= head
  BY <1>1, PoolTypes
<1>3. pc[q] # "idle" => deq[q] \in Elt
  BY <1>1, <1>2, PoolTypes DEF ConsumerOK
<1> QED
  BY <1>1, <1>2, <1>3, <1>4 DEF ConsumerOK

LEMMA ProducerKeeps ==
    ASSUME PoolInv, NEW p \in Consumer, Others(p),
           hd' = hd, head' = head, tail' \in Nat, tail = 0 => tail' = 0,
           \A i \in Elt : (Drained(i) => Drained(i)') /\ Entries(i)' \in Nat /\ Entries(i)' <= Entries(i),
           pc[Producer] = "add" =>
               /\ typ'[deq[Producer]][slot[Producer]] = typ[deq[Producer]][slot[Producer]]
               /\ val'[deq[Producer]][slot[Producer]] = val[deq[Producer]][slot[Producer]]
    PROVE  ProducerOK'
<1> DEFINE i == deq[Producer]
<1>1. ProducerOK /\ i \in 0..MaxElts /\ head \in 0..MaxElts
  BY PoolTypes DEF PoolInv
<1>0. deq'[Producer] = deq[Producer]
  BY PoolTypes DEF Others
<1>2. pc[Producer] \in {"typ", "write", "add", "back", "headslot"} => i \in Elt
  BY <1>1, PoolTypes DEF ProducerOK
<1>3. ASSUME NEW j \in Elt PROVE Entries(j) \in Nat /\ Size[j] \in Nat
  BY EntriesNat, Sizes
<1>4. ASSUME NEW j \in i + 1..MaxElts PROVE j \in Elt
  BY <1>1, PoolTypes
<1>5. i \in Elt /\ Entries(i) < Size[i] => Entries(i)' < Size[i]
  BY <1>0, <1>3
<1>6. Slot(i, hd[i])' = Slot(i, hd[i]) /\ slot'[Producer] = slot[Producer]
      /\ deq'[Producer] = deq[Producer]
  BY PoolTypes DEF Slot, Others
<1>7. \A j \in i + 1..MaxElts : Drained(j) => Drained(j)'
  BY <1>4
<1>8. i \in Elt /\ Drained(i) => Drained(i)'
  BY <1>0
<1>9. pc[Producer] \in {"typ", "write", "add"} =>
          Entries(i)' < Size[i] /\ slot'[Producer] = Slot(i, hd[i])'
  BY <1>1, <1>2, <1>5, <1>6 DEF ProducerOK
<1>10. pc[Producer] \in {"pophead", "back"} => \A j \in i + 1..MaxElts : Drained(j)'
  BY <1>1, <1>7 DEF ProducerOK
<1>11. pc[Producer] = "back" => Drained(i)'
  BY <1>1, <1>2, <1>8 DEF ProducerOK
<1>12. /\ deq[Producer] = i /\ deq'[Producer] = i
       /\ pc'[Producer] = pc[Producer] /\ slot'[Producer] = slot[Producer]
       /\ arg'[Producer] = arg[Producer]
  BY PoolTypes DEF Others
<1>13. Entries(deq[Producer])' = Entries(i)' /\ Drained(deq[Producer])' = Drained(i)'
      /\ Slot(deq[Producer], hd[deq[Producer]])' = Slot(i, hd[i])'
  BY <1>12 DEF Entries, Drained, Slot
<1> HIDE DEF i
<1> QED
  BY <1>1, <1>9, <1>10, <1>11, <1>12, <1>13 DEF ProducerOK

(* A goroutine that has a slot of its own has it in a dequeue. *)
LEMMA MineElt ==
    ASSUME PoolInv, NEW p \in Proc, Mine(p)
    PROVE  deq[p] \in Elt /\ slot[p] \in 0..Size[deq[p]] - 1
<1>1. CASE p = Producer
  <2>1. deq[p] \in Elt
    BY <1>1, PoolTypes DEF PoolInv, ProducerOK, Mine, ProducerPlaces
  <2>2. pc[p] \in {"write", "add"} => slot[p] = Slot(deq[p], hd[deq[p]])
    BY <1>1 DEF PoolInv, ProducerOK
  <2>3. hd[deq[p]] \in Int /\ Size[deq[p]] \in Nat \ {0}
    BY <2>1, EntriesNat, Sizes
  <2>4. Slot(deq[p], hd[deq[p]]) \in 0..Size[deq[p]] - 1
    BY <2>3, Division DEF Slot
  <2> QED
    BY <1>1, <2>1, <2>2, <2>4 DEF PoolInv, ProducerOK, Mine, ProducerPlaces
<1>2. CASE p \in Consumer
  <2>1. ConsumerOK(p)
    BY <1>2 DEF PoolInv
  <2>2. pc[p] \in {"tailslot", "clearval", "cleartyp"}
    BY <2>1 DEF ConsumerOK, Mine, ConsumerPlaces
  <2>3. deq[p] # 0 /\ slot[p] \in 0..Size[deq[p]] - 1
    BY <2>1, <2>2 DEF ConsumerOK
  <2> QED
    BY <2>3, PoolTypes
<1> QED
  BY <1>1, <1>2, PoolTypes

LEMMA OwnedKeeps ==
    ASSUME PoolInv, NEW p \in Proc, Others(p),
           \A q \in Proc \ {p} : Mine(q) => slot'[q] \notin Window(deq[q])',
           Mine(p)' => /\ slot'[p] \notin Window(deq[p])'
                       /\ \A q \in Proc \ {p} :
                             ~(Mine(q) /\ deq[q] = deq'[p] /\ slot[q] = slot'[p])
    PROVE  Owned'
<1>1. Owned /\ \A q \in Proc \ {p} : pc'[q] = pc[q] /\ deq'[q] = deq[q] /\ slot'[q] = slot[q]
  BY DEF PoolInv, Others
<1>2. ASSUME NEW q \in Proc, q # p PROVE Mine(q)' <=> Mine(q)
  BY <1>1, <1>2 DEF Mine
<1>3. ASSUME NEW q \in Proc, Mine(q)', NEW r \in Proc \ {q}
      PROVE  ~(Mine(r)' /\ deq'[r] = deq'[q] /\ slot'[r] = slot'[q])
  <2>1. CASE q # p /\ r # p
    BY <2>1, <1>1, <1>2, <1>3 DEF Owned
  <2>2. CASE q = p
    BY <2>2, <1>1, <1>2, <1>3
  <2>3. CASE r = p
    BY <2>3, <1>1, <1>2, <1>3
  <2> QED
    BY <2>1, <2>2, <2>3
<1>4. ASSUME NEW q \in Proc, Mine(q)' PROVE slot'[q] \notin Window(deq[q])'
  <2>1. CASE q # p
    BY <2>1, <1>1, <1>2, <1>4
  <2> QED
    BY <2>1, <1>4
<1> QED
  BY <1>3, <1>4 DEF Owned

-----------------------------------------------------------------------------
(* One lemma per step: it keeps the invariant. *)

(* The rings are as they were: so are windows and what is in them. *)
LEMMA SameRings ==
    ASSUME PoolInv, UNCHANGED rings
    PROVE  /\ hd' = hd /\ tl' = tl /\ typ' = typ /\ val' = val
           /\ \A i \in Elt : /\ Window(i)' = Window(i) /\ Entries(i)' = Entries(i)
                             /\ Drained(i)' <=> Drained(i)
           /\ RingsOK'
<1>1. hd' = hd /\ tl' = tl /\ typ' = typ /\ val' = val
  BY DEF rings
<1>2. \A i \in Elt : /\ Window(i)' = Window(i) /\ Entries(i)' = Entries(i)
                     /\ (Drained(i)' <=> Drained(i))
  BY <1>1, SameWindow
<1> QED
  BY <1>1, <1>2 DEF PoolInv, RingsOK

(* A step of the producer that leaves the rings alone. *)
LEMMA ProducerQuiet ==
    ASSUME PoolInv, Others(Producer), UNCHANGED rings, ~Mine(Producer)',
           head' \in Nat, tail' \in Nat, head <= head', tail <= tail'
    PROVE  Owned' /\ \A q \in Consumer : ConsumerOK(q)'
<1>1. /\ typ' = typ /\ Producer \in Proc /\ Producer \notin Consumer
      /\ \A i \in Elt : Window(i)' = Window(i) /\ (Drained(i) => Drained(i)')
  BY SameRings, PoolTypes
<1>2. ASSUME NEW q \in Proc \ {Producer}, Mine(q) PROVE slot'[q] \notin Window(deq[q])'
  <2>1. deq[q] \in Elt /\ deq'[q] = deq[q] /\ slot'[q] = slot[q]
    BY <1>2, MineElt DEF Others
  <2>2. Window(deq[q])' = Window(deq[q])
    BY <2>1, <1>1
  <2> QED
    BY <2>1, <2>2, <1>2 DEF PoolInv, Owned
<1>3. Owned'
  BY <1>1, <1>2, OwnedKeeps
<1>4. ASSUME NEW q \in Consumer PROVE ConsumerOK(q)'
  BY <1>1, ConsumerKeeps
<1> QED
  BY <1>3, <1>4

LEMMA PushHeadInv ==
    ASSUME PoolInv, NEW item \in Item, PushHead(item)
    PROVE  PoolInv'
<1> DEFINE p == Producer
<1>1. /\ pc[p] = "idle" /\ item \in free /\ free' = free \ {item}
      /\ arg' = [arg EXCEPT ![p] = item]
      /\ UNCHANGED <<rings, next, tail, deq2, slot>>
  BY DEF PushHead, At
<1>2. \/ /\ head = 0 /\ head < MaxElts /\ head' = head + 1
         /\ prev' = [prev EXCEPT ![head + 1] = head]
         /\ deq' = [deq EXCEPT ![p] = head + 1] /\ pc' = [pc EXCEPT ![p] = "first"]
      \/ /\ head # 0 /\ deq' = [deq EXCEPT ![p] = head] /\ pc' = [pc EXCEPT ![p] = "full"]
         /\ UNCHANGED <<prev, head>>
  BY DEF PushHead, Make, Goto
<1>3. /\ hd' = hd /\ tl' = tl /\ typ' = typ /\ val' = val /\ RingsOK'
      /\ \A i \in Elt : /\ Window(i)' = Window(i) /\ Entries(i)' = Entries(i)
                        /\ Drained(i)' <=> Drained(i)
  BY <1>1, SameRings
<1>4. head' \in 0..MaxElts /\ head' # 0 /\ deq'[p] = head' /\ head <= head'
  BY <1>2, PoolTypes
<1>5. PoolTypeOK'
  <2>0. /\ prev \in [Elt -> 0..MaxElts] /\ deq \in [Proc -> 0..MaxElts] /\ head \in 0..MaxElts
        /\ MaxElts \in Nat
    BY PoolTypes
  <2>1. prev' \in [Elt -> 0..MaxElts] /\ deq' \in [Proc -> 0..MaxElts]
    BY <2>0, <1>2, <1>4
  <2>2. pc' \in [Proc -> Places]
    BY <1>2, PoolTypes DEF Places
  <2>3. arg' \in [Proc -> Item \union {NoItem}] /\ free' \in SUBSET Item
    BY <1>1, PoolTypes
  <2>4. tail' \in 0..head' /\ next' = next /\ deq2' = deq2 /\ slot' = slot
    BY <1>1, <1>4, PoolTypes
  <2> QED
    BY <2>1, <2>2, <2>3, <2>4, <1>3, <1>4, PoolTypes DEF PoolTypeOK
<1>6. Owned' /\ \A q \in Consumer : ConsumerOK(q)'
  <2>1. ~Mine(p)'
    BY <1>2, PoolTypes DEF Mine
  <2>2. Others(p)
    BY <1>1, <1>2, PoolTypes DEF Others
  <2>3. UNCHANGED rings /\ head' \in Nat /\ tail' = tail /\ tail \in Nat
    BY <1>1, <1>4, PoolTypes
  <2> QED
    BY <2>1, <2>2, <2>3, <1>4, ProducerQuiet
<1>7. ChainOK'
  <2>1. tail' = tail /\ next' = next
    BY <1>1
  <2>2. (head = 0 => tail = 0) /\ head \in Nat /\ tail \in Nat
    BY PoolTypes
  <2>3. tail' = 0 => head' = 0 \/ (head' = 1 /\ pc'[p] = "first")
    BY <1>1, <1>2, <2>1, <2>2, PoolTypes DEF PoolInv, ChainOK
  <2>4. ASSUME NEW i \in Elt
        PROVE  /\ next'[i] \in {0, i + 1} /\ (next'[i] # 0 => i < head')
               /\ i < tail' \/ i > head' \/ tail' = 0 => Drained(i)'
    <3>1. /\ i \in Nat /\ next[i] \in {0, i + 1} /\ (next[i] # 0 => i < head)
          /\ i < tail \/ i > head \/ tail = 0 => Drained(i)
      BY PoolTypes DEF PoolInv, ChainOK
    <3> QED
      BY <3>1, <1>2, <1>3, <2>1, <2>2
  <2>5. ASSUME NEW i \in Elt
        PROVE  prev'[i] \in {0, i - 1} /\ (prev'[i] = 0 /\ i <= head' /\ i # 1 => i <= tail')
    <3>1. i \in Nat /\ prev[i] \in {0, i - 1} /\ (prev[i] = 0 /\ i <= head /\ i # 1 => i <= tail)
      BY PoolTypes DEF PoolInv, ChainOK
    <3>2. IF head' = head + 1 /\ i = head + 1 THEN prev'[i] = head ELSE prev'[i] = prev[i]
      BY <1>2, <2>2, PoolTypes
    <3> QED
      BY <3>1, <3>2, <1>2, <2>1, <2>2
  <2> HIDE DEF p
  <2> QED
    BY <2>3, <2>4, <2>5 DEF ChainOK, p
<1>8. ProducerOK'
  <2>1. /\ (pc'[p] = "first" /\ head = 0) \/ pc'[p] = "full"
        /\ arg'[p] = item /\ tail' = tail /\ (head = 0 => tail = 0 /\ head' = 1)
    BY <1>1, <1>2, PoolTypes
  <2> QED
    BY <2>1, <1>4 DEF ProducerOK, ProducerPlaces
<1> QED
  BY <1>3, <1>5, <1>6, <1>7, <1>8 DEF PoolInv

LEMMA PublishInv ==
    ASSUME PoolInv, NEW p \in Proc, Publish(p)
    PROVE  PoolInv'
<1>1. /\ \/ pc[p] = "first" /\ tail' = head /\ next' = next
         \/ /\ pc[p] = "link" /\ next' = [next EXCEPT ![head - 1] = head] /\ tail' = tail
      /\ pc' = [pc EXCEPT ![p] = "full"]
      /\ UNCHANGED rings /\ prev' = prev /\ head' = head /\ free' = free
      /\ deq' = deq /\ deq2' = deq2 /\ slot' = slot /\ arg' = arg
  BY DEF Publish, At, Goto, local
<1>2. p = Producer
  BY <1>1, WhoIsThere DEF ProducerPlaces
<1>3. /\ hd' = hd /\ tl' = tl /\ typ' = typ /\ val' = val /\ RingsOK'
      /\ \A i \in Elt : Entries(i)' = Entries(i) /\ (Drained(i)' <=> Drained(i))
  BY <1>1, SameRings
<1>4. /\ ProducerOK /\ ChainOK /\ deq[p] = head /\ head # 0 /\ arg[p] \in Item
      /\ pc[p] = "first" => head = 1 /\ tail = 0
      /\ pc[p] = "link" => head > 1 /\ tail # 0
      /\ head \in Nat /\ tail \in 0..head /\ head <= MaxElts /\ MaxElts \in Nat
  BY <1>1, <1>2, PoolTypes DEF PoolInv, ProducerOK, ChainOK
<1>5. PoolTypeOK'
  <2>1. tail' \in 0..head'
    BY <1>1, <1>4
  <2>2. pc' \in [Proc -> Places]
    BY <1>1, PoolTypes DEF Places
  <2>3. next' \in [Elt -> 0..MaxElts]
    BY <1>1, <1>4, PoolTypes
  <2> QED
    BY <2>1, <2>2, <2>3, <1>1, <1>3, PoolTypes DEF PoolTypeOK
<1>6. Owned' /\ \A q \in Consumer : ConsumerOK(q)'
  <2>1. ~Mine(Producer)'
    BY <1>1, <1>2, PoolTypes DEF Mine
  <2>2. Others(Producer)
    BY <1>1, <1>2, PoolTypes DEF Others
  <2>3. tail' \in Nat /\ tail <= tail' /\ head' \in Nat /\ head <= head'
    BY <1>1, <1>4
  <2> QED
    BY <2>1, <2>2, <2>3, <1>1, ProducerQuiet
<1>7. ChainOK'
  <2>1. tail' # 0
    BY <1>1, <1>4
  <2>2. ASSUME NEW i \in Elt
        PROVE  next'[i] \in {0, i + 1} /\ (next'[i] # 0 => i < head')
    <3>1. i \in Nat /\ next[i] \in {0, i + 1} /\ (next[i] # 0 => i < head)
      BY <1>4, PoolTypes DEF ChainOK
    <3>2. next'[i] = next[i] \/ (i = head - 1 /\ next'[i] = head)
      BY <1>1, PoolTypes
    <3> QED
      BY <3>1, <3>2, <1>1, <1>4
  <2>3. ASSUME NEW i \in Elt PROVE i < tail' \/ i > head' => Drained(i)'
    BY <1>1, <1>3, <1>4, PoolTypes DEF ChainOK
  <2>4. ASSUME NEW i \in Elt
        PROVE  prev'[i] \in {0, i - 1} /\ (prev'[i] = 0 /\ i <= head' /\ i # 1 => i <= tail')
    BY <1>1, <1>4, PoolTypes DEF ChainOK
  <2> QED
    BY <2>1, <2>2, <2>3, <2>4 DEF ChainOK
<1>8. ProducerOK'
  <2>1. pc'[p] = "full"
    BY <1>1, PoolTypes
  <2> QED
    BY <2>1, <1>1, <1>2, <1>4 DEF ProducerOK, ProducerPlaces
<1> QED
  BY <1>3, <1>5, <1>6, <1>7, <1>8 DEF PoolInv

LEMMA GrowInv ==
    ASSUME PoolInv, pc[Producer] \in {"full", "typ"}, Grow(Producer), UNCHANGED <<rings, free>>
    PROVE  PoolInv'
<1> DEFINE p == Producer
<1>1. /\ head < MaxElts /\ head' = head + 1
      /\ prev' = [prev EXCEPT ![head + 1] = head]
      /\ deq' = [deq EXCEPT ![p] = head + 1] /\ pc' = [pc EXCEPT ![p] = "link"]
      /\ next' = next /\ tail' = tail /\ deq2' = deq2 /\ slot' = slot /\ arg' = arg
      /\ UNCHANGED rings /\ free' = free
  BY DEF Grow, Make, Goto
<1>2. /\ hd' = hd /\ tl' = tl /\ typ' = typ /\ val' = val /\ RingsOK'
      /\ \A i \in Elt : Entries(i)' = Entries(i) /\ (Drained(i)' <=> Drained(i))
  BY <1>1, SameRings
<1>3. /\ ProducerOK /\ ChainOK /\ head # 0 /\ arg[p] \in Item /\ tail # 0
      /\ head \in Nat /\ tail \in 0..head /\ MaxElts \in Nat
  BY PoolTypes DEF PoolInv, ProducerOK, ChainOK
<1>4. head' \in 0..MaxElts /\ head' \in Nat /\ head <= head' /\ head' > 1 /\ tail' \in Nat
      /\ tail <= tail' /\ tail' \in 0..head'
  BY <1>1, <1>3
<1>5. PoolTypeOK'
  <2>1. prev' \in [Elt -> 0..MaxElts] /\ deq' \in [Proc -> 0..MaxElts]
    <3>1. prev \in [Elt -> 0..MaxElts] /\ deq \in [Proc -> 0..MaxElts]
      BY PoolTypes
    <3>2. head \in 0..MaxElts /\ head + 1 \in 0..MaxElts
      BY <1>1, <1>3
    <3> QED
      BY <3>1, <3>2, <1>1
  <2>2. pc' \in [Proc -> Places]
    BY <1>1, PoolTypes DEF Places
  <2> QED
    BY <2>1, <2>2, <1>1, <1>2, <1>4, PoolTypes DEF PoolTypeOK
<1>6. Owned' /\ \A q \in Consumer : ConsumerOK(q)'
  <2>1. ~Mine(Producer)'
    BY <1>1, PoolTypes DEF Mine
  <2>2. Others(Producer)
    BY <1>1, PoolTypes DEF Others
  <2> QED
    BY <2>1, <2>2, <1>1, <1>4, ProducerQuiet
<1>7. ChainOK'
  <2>1. ASSUME NEW i \in Elt
        PROVE  next'[i] \in {0, i + 1} /\ (next'[i] # 0 => i < head')
    BY <1>1, <1>3, PoolTypes DEF ChainOK
  <2>2. ASSUME NEW i \in Elt PROVE i < tail' \/ i > head' => Drained(i)'
    BY <1>1, <1>2, <1>3, PoolTypes DEF ChainOK
  <2>3. ASSUME NEW i \in Elt
        PROVE  prev'[i] \in {0, i - 1} /\ (prev'[i] = 0 /\ i <= head' /\ i # 1 => i <= tail')
    <3>1. i \in Nat /\ prev[i] \in {0, i - 1} /\ (prev[i] = 0 /\ i <= head /\ i # 1 => i <= tail)
      BY <1>3, PoolTypes DEF ChainOK
    <3>2. IF i = head + 1 THEN prev'[i] = head ELSE prev'[i] = prev[i]
      BY <1>1, PoolTypes
    <3> QED
      BY <3>1, <3>2, <1>1, <1>3
  <2> QED
    BY <2>1, <2>2, <2>3, <1>1, <1>3 DEF ChainOK
<1>8. ProducerOK'
  <2>1. pc'[p] = "link" /\ deq'[p] = head'
    BY <1>1, PoolTypes
  <2> QED
    BY <2>1, <1>1, <1>3, <1>4 DEF ProducerOK, ProducerPlaces
<1> QED
  BY <1>2, <1>5, <1>6, <1>7, <1>8 DEF PoolInv

LEMMA LoadHeadTailInv ==
    ASSUME PoolInv, NEW p \in Proc, LoadHeadTail(p)
    PROVE  PoolInv'
<1> DEFINE i == deq[p]
<1>1. pc[p] = "full" /\ UNCHANGED <<rings, free>>
  BY DEF LoadHeadTail, At
<1>2. p = Producer
  BY <1>1, WhoIsThere DEF ProducerPlaces
<1>3. CASE (tl[i] + Size[i]) % Wrap = hd[i]
  BY <1>1, <1>2, <1>3, GrowInv DEF LoadHeadTail
<1>4. CASE (tl[i] + Size[i]) % Wrap # hd[i]
  <2>1. /\ slot' = [slot EXCEPT ![p] = Slot(i, hd[i])] /\ pc' = [pc EXCEPT ![p] = "typ"]
        /\ next' = next /\ prev' = prev /\ head' = head /\ tail' = tail
        /\ deq' = deq /\ deq2' = deq2 /\ arg' = arg /\ free' = free /\ UNCHANGED rings
    BY <1>4 DEF LoadHeadTail, Goto, chain
  <2>2. /\ hd' = hd /\ tl' = tl /\ typ' = typ /\ val' = val /\ RingsOK'
        /\ \A j \in Elt : Entries(j)' = Entries(j) /\ (Drained(j)' <=> Drained(j))
    BY <2>1, SameRings
  <2>3. /\ ProducerOK /\ ChainOK /\ i = head /\ head # 0 /\ arg[p] \in Item /\ i \in Elt
        /\ head \in Nat /\ tail \in Nat
    BY <1>1, <1>2, PoolTypes DEF PoolInv, ProducerOK, ChainOK
  <2>4. Entries(i) < Size[i] /\ Slot(i, hd[i]) \in 0..dequeueLimit - 1
    <3>1. /\ hd[i] \in 0..Wrap - 1 /\ tl[i] \in 0..Wrap - 1
          /\ Entries(i) \in 0..Size[i] /\ Size[i] \in 1..dequeueLimit
      BY <2>3, EntriesNat
    <3>2. Size[i] \in Nat \ {0} /\ 2 * Size[i] <= Wrap /\ Wrap \in Nat
          /\ dequeueLimit \in Nat
      BY <2>3, Sizes
    <3>3. Entries(i) # Size[i]
      <4> DEFINE s == Size[i]  a == hd[i]  b == tl[i]
      <4> HIDE DEF s, a, b
      <4>1. s \in Nat \ {0} /\ 2 * s <= Wrap /\ a \in 0..Wrap - 1 /\ b \in 0..Wrap - 1
        BY <3>1, <3>2 DEF s, a, b
      <4>2. (b + s) % Wrap = a <=> Apart(a, b) = s
        BY <4>1, RingFull
      <4>3. Apart(hd[i], tl[i]) # Size[i]
        BY <4>2, <1>4 DEF s, a, b
      <4> QED
        BY <4>3, <2>3, WindowIs
    <3>4. hd[i] % Size[i] \in 0..Size[i] - 1
      <4>1. hd[i] \in Int
        BY <3>1, <3>2
      <4> QED
        BY <4>1, <3>2, Division
    <3> QED
      BY <3>1, <3>2, <3>3, <3>4 DEF Slot
  <2>5. PoolTypeOK'
    <3>1. pc' \in [Proc -> Places]
      BY <2>1, PoolTypes DEF Places
    <3>2. slot' \in [Proc -> 0..dequeueLimit - 1]
      BY <2>1, <2>4, PoolTypes
    <3> QED
      BY <3>1, <3>2, <2>1, <2>2, PoolTypes DEF PoolTypeOK
  <2>6. Owned' /\ \A q \in Consumer : ConsumerOK(q)'
    <3>1. ~Mine(Producer)'
      BY <1>2, <2>1, PoolTypes DEF Mine
    <3>2. Others(Producer)
      BY <1>2, <2>1, PoolTypes DEF Others
    <3> QED
      BY <3>1, <3>2, <2>1, <2>3, ProducerQuiet
  <2>7. ChainOK'
    BY <1>1, <1>2, <2>1, <2>2, <2>3, PoolTypes DEF ChainOK
  <2>8. ProducerOK'
    <3>1. pc'[p] = "typ" /\ slot'[p] = Slot(i, hd[i]) /\ deq'[p] = i
      BY <2>1, PoolTypes
    <3>2. Entries(deq[Producer])' = Entries(i) /\ Slot(deq[Producer], hd[deq[Producer]])' = Slot(i, hd[i])
      BY <2>1, <2>2, <2>3, <1>2 DEF Slot, Entries
    <3> HIDE DEF i
    <3> QED
      BY <3>1, <3>2, <1>2, <2>1, <2>3, <2>4 DEF ProducerOK, ProducerPlaces
  <2> QED
    BY <2>2, <2>5, <2>6, <2>7, <2>8 DEF PoolInv
<1> QED
  BY <1>3, <1>4

(* The slot at the head of a dequeue that is not full is outside the window. *)
LEMMA SlotFree ==
    ASSUME PoolInv, NEW i \in Elt, Entries(i) < Size[i]
    PROVE  Slot(i, hd[i]) \in 0..Size[i] - 1 /\ Slot(i, hd[i]) \notin Window(i)
<1> DEFINE s == Size[i]  a == hd[i]  b == tl[i]
<1>1. /\ s \in Nat \ {0} /\ Wrap % s = 0 /\ 2 * s <= Wrap
      /\ a \in 0..Wrap - 1 /\ b \in 0..Wrap - 1 /\ Wrap \in Nat /\ Apart(a, b) < s
  BY EntriesNat, Sizes, WindowIs
<1>2. Window(i) = Between(s, a, b) /\ Slot(i, hd[i]) = a % s
  BY WindowIs DEF Slot
<1> HIDE DEF s, a, b
<1>3. a % s \notin Between(s, a, b)
  BY <1>1, RingUp
<1>4. a % s \in 0..s - 1
  <2>1. a \in Int
    BY <1>1
  <2> QED
    BY <2>1, <1>1, Division
<1> QED
  BY <1>2, <1>3, <1>4 DEF s

(* A consumer that has a slot finds it in use. *)
LEMMA ConsumerSlot ==
    ASSUME PoolInv, NEW q \in Proc, q # Producer, Mine(q)
    PROVE  pc[q] \in {"tailslot", "clearval", "cleartyp"} /\ typ[deq[q]][slot[q]]
<1>1. ConsumerOK(q)
  BY PoolTypes DEF PoolInv
<1> QED
  BY <1>1 DEF ConsumerOK, ConsumerPlaces, Mine

(* A goroutine writes to the slot that is its own: windows, and the slots  *)
(* of the others, are as they were.                                        *)
LEMMA OwnSlotWrite ==
    ASSUME PoolInv, NEW p \in Proc, Mine(p), hd' = hd, tl' = tl,
           typ' = typ \/ \E b \in BOOLEAN : typ' = [typ EXCEPT ![deq[p]][slot[p]] = b],
           val' = val \/ \E v \in Item \union {NoItem} : val' = [val EXCEPT ![deq[p]][slot[p]] = v]
    PROVE  /\ DOMAIN typ' = Elt /\ DOMAIN val' = Elt
           /\ \A i \in Elt :
                 /\ typ'[i] \in [0..Size[i] - 1 -> BOOLEAN]
                 /\ val'[i] \in [0..Size[i] - 1 -> Item \union {NoItem}]
                 /\ \A s \in 0..Size[i] - 1 :
                       i # deq[p] \/ s # slot[p] =>
                           typ'[i][s] = typ[i][s] /\ val'[i][s] = val[i][s]
           /\ \A i \in Elt : /\ Window(i)' = Window(i) /\ Entries(i)' = Entries(i)
                             /\ Drained(i)' <=> Drained(i)
           /\ \A i \in Elt : \A s \in Window(i) :
                 s \in 0..Size[i] - 1 /\ (i # deq[p] \/ s # slot[p])
           /\ RingsOK'
           /\ \A q \in Proc \ {p} : Mine(q) =>
                 /\ deq[q] \in Elt /\ slot[q] \in 0..Size[deq[q]] - 1
                 /\ deq[q] # deq[p] \/ slot[q] # slot[p]
                 /\ typ'[deq[q]][slot[q]] = typ[deq[q]][slot[q]]
                 /\ val'[deq[q]][slot[q]] = val[deq[q]][slot[q]]
<1>1. /\ DOMAIN typ = Elt /\ DOMAIN val = Elt
      /\ \A i \in Elt : /\ typ[i] \in [0..Size[i] - 1 -> BOOLEAN]
                        /\ val[i] \in [0..Size[i] - 1 -> Item \union {NoItem}]
  BY PoolTypes
<1>2. deq[p] \in Elt /\ slot[p] \in 0..Size[deq[p]] - 1
  BY MineElt
<1>3. /\ DOMAIN typ' = Elt
      /\ \A i \in Elt : /\ typ'[i] \in [0..Size[i] - 1 -> BOOLEAN]
                        /\ \A s \in 0..Size[i] - 1 :
                              i # deq[p] \/ s # slot[p] => typ'[i][s] = typ[i][s]
  <2> DEFINE d == deq[p]  c == slot[p]  D == 0..Size[d] - 1
  <2>1. CASE typ' = typ
    BY <2>1, <1>1
  <2>2. ASSUME NEW b \in BOOLEAN, typ' = [typ EXCEPT ![d][c] = b]
        PROVE  /\ DOMAIN typ' = Elt
               /\ \A i \in Elt : /\ typ'[i] \in [0..Size[i] - 1 -> BOOLEAN]
                                 /\ \A s \in 0..Size[i] - 1 :
                                       i # d \/ s # c => typ'[i][s] = typ[i][s]
    <3>1. DOMAIN typ' = Elt /\ typ'[d] = [typ[d] EXCEPT ![c] = b] /\ d \in Elt
      BY <1>1, <1>2, <2>2
    <3>2. \A i \in Elt \ {d} : typ'[i] = typ[i]
      BY <1>1, <1>2, <2>2
    <3>3. typ[d] \in [D -> BOOLEAN] /\ c \in D
      BY <1>1, <1>2
    <3> HIDE DEF D, d, c
    <3>4. typ'[d] \in [D -> BOOLEAN] /\ \A s \in D : s # c => typ'[d][s] = typ[d][s]
      BY <2>2, <3>1, <3>3
    <3> QED
      BY <3>1, <3>2, <3>4, <1>1 DEF D
  <2> QED
    BY <2>1, <2>2
<1>4. /\ DOMAIN val' = Elt
      /\ \A i \in Elt : /\ val'[i] \in [0..Size[i] - 1 -> Item \union {NoItem}]
                        /\ \A s \in 0..Size[i] - 1 :
                              i # deq[p] \/ s # slot[p] => val'[i][s] = val[i][s]
  <2> DEFINE d == deq[p]  c == slot[p]  D == 0..Size[d] - 1
  <2>1. CASE val' = val
    BY <2>1, <1>1
  <2>2. ASSUME NEW v \in Item \union {NoItem}, val' = [val EXCEPT ![d][c] = v]
        PROVE  /\ DOMAIN val' = Elt
               /\ \A i \in Elt : /\ val'[i] \in [0..Size[i] - 1 -> Item \union {NoItem}]
                                 /\ \A s \in 0..Size[i] - 1 :
                                       i # d \/ s # c => val'[i][s] = val[i][s]
    <3>1. DOMAIN val' = Elt /\ val'[d] = [val[d] EXCEPT ![c] = v] /\ d \in Elt
      BY <1>1, <1>2, <2>2
    <3>2. \A i \in Elt \ {d} : val'[i] = val[i]
      BY <1>1, <1>2, <2>2
    <3>3. val[d] \in [D -> Item \union {NoItem}] /\ c \in D
      BY <1>1, <1>2
    <3> HIDE DEF D, d, c
    <3>4. val'[d] \in [D -> Item \union {NoItem}] /\ \A s \in D : s # c => val'[d][s] = val[d][s]
      BY <2>2, <3>1, <3>3
    <3> QED
      BY <3>1, <3>2, <3>4, <1>1 DEF D
  <2> QED
    BY <2>1, <2>2
<1>5. \A i \in Elt : /\ Window(i)' = Window(i) /\ Entries(i)' = Entries(i)
                     /\ (Drained(i)' <=> Drained(i))
  BY SameWindow
<1>6. slot[p] \notin Window(deq[p])
  BY DEF PoolInv, Owned
<1>7. \A i \in Elt : Window(i) \subseteq 0..Size[i] - 1
  BY EntriesNat
<1>8. RingsOK'
  <2>1. ASSUME NEW i \in Elt, NEW s \in Window(i) PROVE typ'[i][s]
    <3>1. typ[i][s] /\ s \in 0..Size[i] - 1 /\ (i # deq[p] \/ s # slot[p])
      BY <2>1, <1>6, <1>7 DEF PoolInv, RingsOK
    <3> QED
      BY <3>1, <1>3
  <2> QED
    BY <2>1, <1>5 DEF PoolInv, RingsOK
<1>9. ASSUME NEW q \in Proc \ {p}, Mine(q)
      PROVE  /\ deq[q] \in Elt /\ slot[q] \in 0..Size[deq[q]] - 1
             /\ deq[q] # deq[p] \/ slot[q] # slot[p]
             /\ typ'[deq[q]][slot[q]] = typ[deq[q]][slot[q]]
             /\ val'[deq[q]][slot[q]] = val[deq[q]][slot[q]]
  <2>1. deq[q] \in Elt /\ slot[q] \in 0..Size[deq[q]] - 1
    BY <1>9, MineElt
  <2>2. deq[q] # deq[p] \/ slot[q] # slot[p]
    BY <1>9 DEF PoolInv, Owned
  <2> QED
    BY <2>1, <2>2, <1>3, <1>4
<1>10. ASSUME NEW i \in Elt, NEW s \in Window(i)
       PROVE  s \in 0..Size[i] - 1 /\ (i # deq[p] \/ s # slot[p])
  BY <1>6, <1>7
<1> QED
  BY <1>3, <1>4, <1>5, <1>8, <1>9, <1>10

(* Nobody gets another slot: ownership stays. *)
LEMMA OwnedSame ==
    ASSUME PoolInv, hd' = hd, tl' = tl,
           \A q \in Proc : Mine(q)' => Mine(q) /\ deq'[q] = deq[q] /\ slot'[q] = slot[q]
    PROVE  Owned'
<1>1. ASSUME NEW q \in Proc, Mine(q)'
      PROVE  /\ Mine(q) /\ deq'[q] = deq[q] /\ slot'[q] = slot[q]
             /\ slot'[q] \notin Window(deq[q])'
  <2>1. Mine(q) /\ deq'[q] = deq[q] /\ slot'[q] = slot[q]
    BY <1>1
  <2>2. deq[q] \in Elt
    BY <2>1, MineElt
  <2>3. Window(deq[q])' = Window(deq[q])
    <3> DEFINE i == deq[q]
    <3>1. Window(deq[q])' = {Slot(i, (tl'[i] + k) % Wrap) : k \in 0..((hd'[i] - tl'[i]) % Wrap) - 1}
      BY <2>1 DEF Window, Entries, Slot
    <3> QED
      BY <3>1 DEF Window, Entries
  <2> QED
    BY <2>1, <2>3 DEF PoolInv, Owned
<1> QED
  BY <1>1 DEF PoolInv, Owned

(* The end of a call. *)
LEMMA Returned ==
    ASSUME PoolInv, NEW p \in Proc, NEW item \in Item \union {NoItem}, Return(p, item)
    PROVE  /\ pc' \in [Proc -> Places] /\ free' \in SUBSET Item
           /\ deq' \in [Proc -> 0..MaxElts] /\ deq2' \in [Proc -> 0..MaxElts]
           /\ slot' \in [Proc -> 0..dequeueLimit - 1]
           /\ arg' \in [Proc -> Item \union {NoItem}]
           /\ pc'[p] = "idle" /\ arg'[p] = NoItem /\ ~Mine(p)' /\ Others(p)
<1>1. dequeueLimit \in Nat \ {0} /\ 0 \in 0..MaxElts
  BY Sizes
<1>2. 0 \in 0..dequeueLimit - 1
  BY <1>1
<1>3. /\ pc' = [pc EXCEPT ![p] = "idle"] /\ deq' = [deq EXCEPT ![p] = 0]
      /\ deq2' = [deq2 EXCEPT ![p] = 0] /\ slot' = [slot EXCEPT ![p] = 0]
      /\ arg' = [arg EXCEPT ![p] = NoItem] /\ free' = free \union ({item} \ {NoItem})
  BY DEF Return, Goto
<1>4. pc' \in [Proc -> Places] /\ pc'[p] = "idle"
  BY <1>3, PoolTypes DEF Places
<1>5. deq' \in [Proc -> 0..MaxElts] /\ deq2' \in [Proc -> 0..MaxElts]
  BY <1>1, <1>3, PoolTypes
<1>6. slot' \in [Proc -> 0..dequeueLimit - 1] /\ arg' \in [Proc -> Item \union {NoItem}]
  BY <1>2, <1>3, PoolTypes
<1>7. free' \in SUBSET Item
  BY <1>3, PoolTypes
<1>8. Others(p)
  BY <1>3, PoolTypes DEF Others
<1>9. arg'[p] = NoItem /\ ~Mine(p)'
  BY <1>3, <1>4, PoolTypes DEF Mine
<1> QED
  BY <1>4, <1>5, <1>6, <1>7, <1>8, <1>9

LEMMA LoadTypInv ==
    ASSUME PoolInv, NEW p \in Proc, LoadTyp(p)
    PROVE  PoolInv'
<1> DEFINE i == deq[p]
<1>1. pc[p] = "typ" /\ UNCHANGED <<rings, free>>
  BY DEF LoadTyp, At
<1>2. p = Producer
  BY <1>1, WhoIsThere DEF ProducerPlaces
<1>3. CASE typ[i][slot[p]]
  BY <1>1, <1>2, <1>3, GrowInv DEF LoadTyp
<1>4. CASE ~typ[i][slot[p]]
  <2>1. /\ pc' = [pc EXCEPT ![p] = "write"] /\ next' = next /\ prev' = prev /\ head' = head
        /\ tail' = tail /\ deq' = deq /\ deq2' = deq2 /\ slot' = slot /\ arg' = arg
        /\ free' = free /\ UNCHANGED rings
    BY <1>1, <1>4 DEF LoadTyp, Goto, chain, local
  <2>2. /\ hd' = hd /\ tl' = tl /\ typ' = typ /\ val' = val /\ RingsOK'
        /\ \A j \in Elt : /\ Window(j)' = Window(j) /\ Entries(j)' = Entries(j)
                          /\ Drained(j)' <=> Drained(j)
    BY <2>1, SameRings
  <2>3. /\ ProducerOK /\ ChainOK /\ i = head /\ head # 0 /\ arg[p] \in Item /\ i \in Elt
        /\ Entries(i) < Size[i] /\ slot[p] = Slot(i, hd[i])
        /\ head \in Nat /\ tail \in Nat
    BY <1>1, <1>2, PoolTypes DEF PoolInv, ProducerOK, ChainOK
  <2>4. slot[p] \notin Window(i)
    BY <2>3, SlotFree
  <2>5. PoolTypeOK'
    <3>1. pc' \in [Proc -> Places]
      BY <2>1, PoolTypes DEF Places
    <3> QED
      BY <3>1, <2>1, <2>2, PoolTypes DEF PoolTypeOK
  <2>6. Others(p)
    BY <2>1, PoolTypes DEF Others
  <2>7. Owned'
    <3>1. ASSUME NEW q \in Proc \ {p}, Mine(q)
          PROVE  /\ slot'[q] \notin Window(deq[q])'
                 /\ ~(deq[q] = deq'[p] /\ slot[q] = slot'[p])
      <4>1. deq[q] \in Elt /\ typ[deq[q]][slot[q]]
        BY <3>1, <1>2, MineElt, ConsumerSlot
      <4>2. Window(deq[q])' = Window(deq[q])
        BY <4>1, <2>1, <2>2
      <4> QED
        BY <3>1, <4>1, <4>2, <1>4, <2>1 DEF PoolInv, Owned
    <3>2. slot'[p] \notin Window(deq[p])'
      BY <2>1, <2>2, <2>3, <2>4
    <3> QED
      BY <3>1, <3>2, <2>6, OwnedKeeps
  <2>8. ASSUME NEW q \in Consumer PROVE ConsumerOK(q)'
    BY <1>2, <2>1, <2>2, <2>3, <2>6, PoolTypes, ConsumerKeeps
  <2>9. ChainOK'
    BY <1>1, <1>2, <2>1, <2>2, <2>3, PoolTypes DEF ChainOK
  <2>10. ProducerOK'
    <3>1. pc'[p] = "write"
      BY <2>1, PoolTypes
    <3>2. Entries(deq[Producer])' = Entries(i) /\ Slot(deq[Producer], hd[deq[Producer]])' = Slot(i, hd[i])
      BY <2>1, <2>2, <2>3, <1>2 DEF Slot, Entries
    <3> HIDE DEF i
    <3> QED
      BY <3>1, <3>2, <1>2, <2>1, <2>3 DEF ProducerOK, ProducerPlaces, i
  <2> QED
    BY <2>2, <2>5, <2>7, <2>8, <2>9, <2>10 DEF PoolInv
<1> QED
  BY <1>3, <1>4

LEMMA WriteSlotInv ==
    ASSUME PoolInv, NEW p \in Proc, WriteSlot(p)
    PROVE  PoolInv'
<1> DEFINE i == deq[p]
<1>1. /\ pc[p] = "write" /\ pc' = [pc EXCEPT ![p] = "add"]
      /\ typ' = [typ EXCEPT ![deq[p]][slot[p]] = TRUE]
      /\ val' = [val EXCEPT ![deq[p]][slot[p]] = arg[p]]
      /\ hd' = hd /\ tl' = tl /\ next' = next /\ prev' = prev /\ head' = head /\ tail' = tail
      /\ deq' = deq /\ deq2' = deq2 /\ slot' = slot /\ arg' = arg /\ free' = free
  BY DEF WriteSlot, At, Goto, chain, local
<1>2. p = Producer
  BY <1>1, WhoIsThere DEF ProducerPlaces
<1>3. Mine(p) /\ i \in Elt /\ slot[p] \in 0..Size[i] - 1
  BY <1>1, MineElt DEF Mine
<1>4. arg[p] \in Item \union {NoItem}
  BY PoolTypes
<1>5. /\ DOMAIN typ' = Elt /\ DOMAIN val' = Elt
      /\ \A j \in Elt : /\ typ'[j] \in [0..Size[j] - 1 -> BOOLEAN]
                        /\ val'[j] \in [0..Size[j] - 1 -> Item \union {NoItem}]
      /\ \A j \in Elt : Entries(j)' = Entries(j) /\ (Drained(j)' <=> Drained(j))
      /\ RingsOK'
      /\ \A q \in Proc \ {p} : Mine(q) => typ'[deq[q]][slot[q]] = typ[deq[q]][slot[q]]
  BY <1>1, <1>3, <1>4, OwnSlotWrite
<1>6. Others(p)
  BY <1>1, PoolTypes DEF Others
<1>7. PoolTypeOK'
  <2>1. pc' \in [Proc -> Places]
    BY <1>1, PoolTypes DEF Places
  <2> QED
    BY <2>1, <1>1, <1>5, PoolTypes DEF PoolTypeOK
<1>8. Owned'
  <2>1. \A q \in Proc : Mine(q)' => Mine(q)
    BY <1>1, PoolTypes DEF Mine
  <2> QED
    BY <2>1, <1>1, OwnedSame
<1>9. ASSUME NEW q \in Consumer PROVE ConsumerOK(q)'
  <2>1. q \in Proc /\ q # p /\ head \in Nat /\ tail \in Nat
    BY <1>2, PoolTypes
  <2>2. pc[q] \in {"tailslot", "clearval", "cleartyp"} =>
            typ'[deq[q]][slot[q]] = typ[deq[q]][slot[q]]
    BY <2>1, <1>5 DEF Mine
  <2>3. /\ head' \in Nat /\ tail' \in Nat /\ head <= head' /\ tail <= tail'
        /\ \A j \in Elt : j < head /\ Drained(j) => Drained(j)'
    BY <2>1, <1>1, <1>5
  <2> QED
    BY <2>1, <2>2, <2>3, <1>6, ConsumerKeeps
<1>10. ChainOK'
  BY <1>1, <1>2, <1>5, PoolTypes DEF PoolInv, ChainOK
<1>11. ProducerOK'
  <2>1. /\ ProducerOK /\ i = head /\ head # 0 /\ arg[p] \in Item
        /\ Entries(i) < Size[i] /\ slot[p] = Slot(i, hd[i])
    BY <1>1, <1>2 DEF PoolInv, ProducerOK
  <2>2. pc'[p] = "add" /\ typ'[i][slot[p]] /\ val'[i][slot[p]] = arg[p]
    BY <1>1, <1>3, PoolTypes
  <2>3. Entries(deq[Producer])' = Entries(i) /\ Slot(deq[Producer], hd[deq[Producer]])' = Slot(i, hd[i])
    BY <1>1, <1>2 DEF Slot, Entries
  <2>4. deq'[p] = i /\ slot'[p] = slot[p] /\ arg'[p] = arg[p] /\ head' = head
    BY <1>1
  <2>5. deq'[Producer] = i /\ pc'[Producer] = "add"
    BY <1>2, <2>2, <2>4
  <2> HIDE DEF i
  <2> QED
    BY <2>1, <2>2, <2>3, <2>4, <2>5, <1>2 DEF ProducerOK, ProducerPlaces
<1> QED
  BY <1>5, <1>7, <1>8, <1>9, <1>10, <1>11 DEF PoolInv

LEMMA AddHeadInv ==
    ASSUME PoolInv, NEW p \in Proc, AddHead(p)
    PROVE  PoolInv'
<1>1. pc[p] = "add" /\ Mine(p)
  BY DEF AddHead, At, Mine
<1>0. PICK i \in Elt : i = deq[p]
  BY <1>1, MineElt
<1>13. /\ hd' = [hd EXCEPT ![i] = (@ + 1) % Wrap] /\ tl' = tl
      /\ typ' = typ /\ val' = val /\ next' = next /\ prev' = prev /\ head' = head /\ tail' = tail
      /\ Return(p, NoItem)
  BY <1>0 DEF AddHead, chain
<1>2. p = Producer
  BY <1>1, WhoIsThere DEF ProducerPlaces
<1>3. /\ pc' \in [Proc -> Places] /\ free' \in SUBSET Item
      /\ deq' \in [Proc -> 0..MaxElts] /\ deq2' \in [Proc -> 0..MaxElts]
      /\ slot' \in [Proc -> 0..dequeueLimit - 1] /\ arg' \in [Proc -> Item \union {NoItem}]
      /\ pc'[p] = "idle" /\ arg'[p] = NoItem /\ ~Mine(p)' /\ Others(p)
  BY <1>13, Returned
<1>4. /\ i = head /\ head # 0 /\ tail # 0
      /\ Entries(i) < Size[i] /\ slot[p] = Slot(i, hd[i]) /\ typ[i][slot[p]]
      /\ head \in Nat /\ tail \in 0..head
  BY <1>0, <1>1, <1>2, PoolTypes DEF PoolInv, ProducerOK, ChainOK
<1>5. /\ hd' \in [Elt -> 0..Wrap - 1] /\ Entries(i)' = Entries(i) + 1
      /\ Window(i)' = Window(i) \union {slot[p]}
  BY <1>4, <1>13, HeadUp
<1>6. \A j \in Elt \ {i} : /\ Window(j)' = Window(j) /\ Entries(j)' = Entries(j)
                           /\ Drained(j)' <=> Drained(j)
  <2>1. ASSUME NEW j \in Elt \ {i} PROVE hd'[j] = hd[j] /\ tl'[j] = tl[j]
    BY <1>13, PoolTypes
  <2> QED
    BY <2>1, SameWindow
<1>7. PoolTypeOK'
  BY <1>3, <1>5, <1>13, PoolTypes DEF PoolTypeOK
<1>8. RingsOK'
  <2>1. Entries(i) \in Nat /\ Size[i] \in Nat
    BY <1>4, EntriesNat, Sizes
  <2>2. ASSUME NEW j \in Elt PROVE Entries(j)' <= Size[j]
    BY <2>1, <1>4, <1>5, <1>6 DEF PoolInv, RingsOK
  <2>3. ASSUME NEW j \in Elt, NEW s \in Window(j)' PROVE typ'[j][s]
    BY <2>3, <1>4, <1>5, <1>6, <1>13 DEF PoolInv, RingsOK
  <2> QED
    BY <2>2, <2>3 DEF RingsOK
<1>9. Owned'
  <2>1. ASSUME NEW q \in Proc \ {p}, Mine(q) PROVE slot'[q] \notin Window(deq[q])'
    <3>1. PICK j \in Elt : j = deq[q]
      BY <2>1, MineElt
    <3>2. /\ deq'[q] = j /\ slot'[q] = slot[q] /\ slot[q] \notin Window(j)
          /\ j # i \/ slot[q] # slot[p]
      BY <2>1, <3>1, <1>0, <1>1, <1>3 DEF PoolInv, Owned, Others
    <3> QED
      BY <3>2, <1>5, <1>6
  <2> QED
    BY <2>1, <1>3, OwnedKeeps
<1>10. ASSUME NEW q \in Consumer PROVE ConsumerOK(q)'
  <2>1. ASSUME NEW j \in Elt, j < head, Drained(j) PROVE Drained(j)'
    BY <2>1, <1>4, <1>6
  <2>2. q \in Proc /\ q # p
    BY <1>2, PoolTypes
  <2>3. head' \in Nat /\ tail' \in Nat /\ head <= head' /\ tail <= tail'
    BY <1>4, <1>13
  <2> QED
    BY <2>1, <2>2, <2>3, <1>3, <1>13, ConsumerKeeps
<1>11. ChainOK'
  <2>1. ASSUME NEW j \in Elt, j < tail \/ j > head PROVE Drained(j)'
    <3>1. j # i /\ j \in Nat
      BY <2>1, <1>4, PoolTypes
    <3>2. Drained(j)
      BY <2>1 DEF PoolInv, ChainOK
    <3> QED
      BY <3>1, <3>2, <1>6
  <2> QED
    BY <2>1, <1>3, <1>4, <1>13, <1>2 DEF PoolInv, ChainOK
<1>12. ProducerOK'
  BY <1>2, <1>3 DEF ProducerOK, ProducerPlaces
<1> QED
  BY <1>7, <1>8, <1>9, <1>10, <1>11, <1>12 DEF PoolInv

LEMMA PopHeadInv ==
    ASSUME PoolInv, PopHead
    PROVE  PoolInv'
<1> DEFINE p == Producer
<1>1. /\ pc[p] = "idle" /\ deq' = [deq EXCEPT ![p] = head] /\ pc' = [pc EXCEPT ![p] = "pophead"]
      /\ UNCHANGED rings /\ next' = next /\ prev' = prev /\ head' = head /\ tail' = tail
      /\ deq2' = deq2 /\ slot' = slot /\ arg' = arg /\ free' = free
  BY DEF PopHead, At, Goto, chain
<1>2. /\ hd' = hd /\ tl' = tl /\ typ' = typ /\ val' = val /\ RingsOK'
      /\ \A j \in Elt : Entries(j)' = Entries(j) /\ (Drained(j)' <=> Drained(j))
  BY <1>1, SameRings
<1>3. /\ ProducerOK /\ ChainOK /\ arg[p] = NoItem /\ head \in 0..MaxElts /\ MaxElts \in Nat
      /\ tail \in Nat
  BY <1>1, PoolTypes DEF PoolInv, ProducerOK
<1>4. /\ pc' \in [Proc -> Places] /\ deq' \in [Proc -> 0..MaxElts]
      /\ pc'[p] = "pophead" /\ deq'[p] = head /\ Others(p) /\ ~Mine(p)'
  <2>1. pc' \in [Proc -> Places]
    BY <1>1, PoolTypes DEF Places
  <2>2. deq' \in [Proc -> 0..MaxElts]
    BY <1>1, <1>3, PoolTypes
  <2> QED
    BY <2>1, <2>2, <1>1, PoolTypes DEF Others, Mine
<1>5. PoolTypeOK'
  BY <1>1, <1>2, <1>4, PoolTypes DEF PoolTypeOK
<1>6. Owned' /\ \A q \in Consumer : ConsumerOK(q)'
  BY <1>1, <1>3, <1>4, ProducerQuiet
<1>7. ChainOK'
  BY <1>1, <1>2, <1>3, <1>4 DEF ChainOK
<1>8. ProducerOK'
  <2>1. ASSUME NEW j \in head + 1..MaxElts PROVE Drained(j)'
    <3>1. j \in Elt /\ j > head
      BY <1>3 DEF Elt
    <3> QED
      BY <3>1, <1>2, <1>3 DEF ChainOK
  <2>2. deq'[Producer] = head /\ pc'[Producer] = "pophead" /\ head' = head /\ arg'[Producer] = NoItem
    BY <1>1, <1>3, <1>4
  <2> HIDE DEF p
  <2> QED
    BY <2>1, <2>2, <1>3 DEF ProducerOK, ProducerPlaces
<1> QED
  BY <1>2, <1>5, <1>6, <1>7, <1>8 DEF PoolInv

LEMMA LoadPrevInv ==
    ASSUME PoolInv, NEW p \in Proc, LoadPrev(p)
    PROVE  PoolInv'
<1> DEFINE i == deq[p]
<1>1. /\ pc[p] = "back" /\ deq' = [deq EXCEPT ![p] = prev[i]]
      /\ pc' = [pc EXCEPT ![p] = "pophead"]
      /\ UNCHANGED rings /\ next' = next /\ prev' = prev /\ head' = head /\ tail' = tail
      /\ deq2' = deq2 /\ slot' = slot /\ arg' = arg /\ free' = free
  BY DEF LoadPrev, At, Goto, chain
<1>2. p = Producer
  BY <1>1, WhoIsThere DEF ProducerPlaces
<1>3. /\ hd' = hd /\ tl' = tl /\ typ' = typ /\ val' = val /\ RingsOK'
      /\ \A j \in Elt : Entries(j)' = Entries(j) /\ (Drained(j)' <=> Drained(j))
  BY <1>1, SameRings
<1>4. /\ ProducerOK /\ ChainOK /\ arg[p] = NoItem /\ head \in 0..MaxElts /\ MaxElts \in Nat
      /\ tail \in Nat /\ i \in Elt /\ i <= head /\ Drained(i)
      /\ \A j \in i + 1..MaxElts : Drained(j)
  BY <1>1, <1>2, PoolTypes DEF PoolInv, ProducerOK
<1>5. /\ i \in Nat /\ prev[i] \in {0, i - 1} /\ (prev[i] = 0 /\ i # 1 => i <= tail)
      /\ prev[i] \in 0..MaxElts /\ prev[i] <= head
  BY <1>4, PoolTypes DEF ChainOK
<1>6. /\ pc' \in [Proc -> Places] /\ deq' \in [Proc -> 0..MaxElts]
      /\ pc'[p] = "pophead" /\ deq'[p] = prev[i] /\ Others(p) /\ ~Mine(p)'
  <2>1. pc' \in [Proc -> Places]
    BY <1>1, PoolTypes DEF Places
  <2>2. deq' \in [Proc -> 0..MaxElts]
    BY <1>1, <1>5, PoolTypes
  <2> QED
    BY <2>1, <2>2, <1>1, PoolTypes DEF Others, Mine
<1>7. PoolTypeOK'
  BY <1>1, <1>3, <1>6, PoolTypes DEF PoolTypeOK
<1>8. Owned' /\ \A q \in Consumer : ConsumerOK(q)'
  BY <1>1, <1>2, <1>4, <1>6, ProducerQuiet
<1>9. ChainOK'
  BY <1>1, <1>2, <1>3, <1>4, <1>6 DEF ChainOK
<1>10. ProducerOK'
  <2>1. ASSUME NEW j \in prev[i] + 1..MaxElts PROVE Drained(j)'
    <3>1. j \in Elt /\ (j < tail \/ j = i \/ j \in i + 1..MaxElts)
      BY <1>4, <1>5 DEF Elt
    <3>2. Drained(j)
      BY <3>1, <1>4 DEF ChainOK
    <3> QED
      BY <3>1, <3>2, <1>3
  <2>2. deq'[Producer] = prev[i] /\ pc'[Producer] = "pophead" /\ head' = head /\ arg'[Producer] = NoItem
    BY <1>1, <1>2, <1>4, <1>6
  <2> HIDE DEF i
  <2> QED
    BY <2>1, <2>2, <1>5 DEF ProducerOK, ProducerPlaces
<1> QED
  BY <1>3, <1>7, <1>8, <1>9, <1>10 DEF PoolInv

LEMMA EmptyHeadSlotInv ==
    ASSUME PoolInv, NEW p \in Proc, EmptyHeadSlot(p)
    PROVE  PoolInv'
<1> DEFINE i == deq[p]
<1>1. /\ pc[p] = "headslot"
      /\ typ' = [typ EXCEPT ![deq[p]][slot[p]] = FALSE]
      /\ val' = [val EXCEPT ![deq[p]][slot[p]] = NoItem]
      /\ Return(p, val[i][slot[p]])
      /\ hd' = hd /\ tl' = tl /\ next' = next /\ prev' = prev /\ head' = head /\ tail' = tail
  BY DEF EmptyHeadSlot, At, chain
<1>2. p = Producer
  BY <1>1, WhoIsThere DEF ProducerPlaces
<1>3. Mine(p) /\ i \in Elt /\ slot[p] \in 0..Size[i] - 1
  BY <1>1, MineElt DEF Mine
<1>4. val[i][slot[p]] \in Item \union {NoItem}
  BY <1>3, PoolTypes
<1>5. /\ pc' \in [Proc -> Places] /\ free' \in SUBSET Item
      /\ deq' \in [Proc -> 0..MaxElts] /\ deq2' \in [Proc -> 0..MaxElts]
      /\ slot' \in [Proc -> 0..dequeueLimit - 1] /\ arg' \in [Proc -> Item \union {NoItem}]
      /\ pc'[p] = "idle" /\ arg'[p] = NoItem /\ ~Mine(p)' /\ Others(p)
  BY <1>1, <1>4, Returned
<1>6. /\ DOMAIN typ' = Elt /\ DOMAIN val' = Elt
      /\ \A j \in Elt : /\ typ'[j] \in [0..Size[j] - 1 -> BOOLEAN]
                        /\ val'[j] \in [0..Size[j] - 1 -> Item \union {NoItem}]
      /\ \A j \in Elt : Entries(j)' = Entries(j) /\ (Drained(j)' <=> Drained(j))
      /\ RingsOK'
      /\ \A q \in Proc \ {p} : Mine(q) => typ'[deq[q]][slot[q]] = typ[deq[q]][slot[q]]
  BY <1>1, <1>3, OwnSlotWrite
<1>7. PoolTypeOK'
  BY <1>1, <1>5, <1>6, PoolTypes DEF PoolTypeOK
<1>8. Owned'
  <2>1. \A q \in Proc : Mine(q)' => Mine(q) /\ deq'[q] = deq[q] /\ slot'[q] = slot[q]
    BY <1>5 DEF Mine, Others
  <2> QED
    BY <2>1, <1>1, OwnedSame
<1>9. ASSUME NEW q \in Consumer PROVE ConsumerOK(q)'
  <2>1. q \in Proc /\ q # p /\ head \in Nat /\ tail \in Nat
    BY <1>2, PoolTypes
  <2>2. pc[q] \in {"tailslot", "clearval", "cleartyp"} =>
            typ'[deq[q]][slot[q]] = typ[deq[q]][slot[q]]
    BY <2>1, <1>6 DEF Mine
  <2>3. /\ head' \in Nat /\ tail' \in Nat /\ head <= head' /\ tail <= tail'
        /\ \A j \in Elt : j < head /\ Drained(j) => Drained(j)'
    BY <2>1, <1>1, <1>6
  <2> QED
    BY <2>1, <2>2, <2>3, <1>5, ConsumerKeeps
<1>10. ChainOK'
  BY <1>1, <1>2, <1>6 DEF PoolInv, ChainOK
<1>11. ProducerOK'
  BY <1>2, <1>5 DEF ProducerOK, ProducerPlaces
<1> QED
  BY <1>6, <1>7, <1>8, <1>9, <1>10, <1>11 DEF PoolInv

LEMMA TakeHeadInv ==
    ASSUME PoolInv, NEW p \in Proc, TakeHead(p)
    PROVE  PoolInv'
<1>1. /\ pc[p] = "pophead" /\ tl' = tl /\ typ' = typ /\ val' = val
      /\ next' = next /\ prev' = prev /\ head' = head /\ tail' = tail
  BY DEF TakeHead, At, chain
<1>2. p = Producer
  BY <1>1, WhoIsThere DEF ProducerPlaces
<1>3. PICK i \in 0..MaxElts : i = deq[p]
  BY PoolTypes
<1>4. /\ ProducerOK /\ ChainOK /\ arg[p] = NoItem /\ head \in 0..MaxElts /\ MaxElts \in Nat
      /\ tail \in Nat /\ i <= head /\ \A j \in i + 1..MaxElts : Drained(j)
  BY <1>1, <1>2, <1>3, PoolTypes DEF PoolInv, ProducerOK
<1>5. CASE Return(p, NoItem) /\ hd' = hd
  <2>1. /\ pc' \in [Proc -> Places] /\ free' \in SUBSET Item
        /\ deq' \in [Proc -> 0..MaxElts] /\ deq2' \in [Proc -> 0..MaxElts]
        /\ slot' \in [Proc -> 0..dequeueLimit - 1] /\ arg' \in [Proc -> Item \union {NoItem}]
        /\ pc'[p] = "idle" /\ arg'[p] = NoItem /\ ~Mine(p)' /\ Others(p)
    BY <1>5, Returned
  <2>2. UNCHANGED rings
    BY <1>1, <1>5 DEF rings
  <2>3. RingsOK' /\ \A j \in Elt : Drained(j)' <=> Drained(j)
    BY <2>2, SameRings
  <2>4. PoolTypeOK'
    BY <1>1, <1>5, <2>1, PoolTypes DEF PoolTypeOK
  <2>5. Owned' /\ \A q \in Consumer : ConsumerOK(q)'
    BY <1>1, <1>2, <1>4, <2>1, <2>2, ProducerQuiet
  <2>6. ChainOK'
    BY <1>1, <1>2, <1>4, <2>1, <2>3 DEF ChainOK
  <2>7. ProducerOK'
    BY <1>2, <2>1 DEF ProducerOK, ProducerPlaces
  <2> QED
    BY <2>3, <2>4, <2>5, <2>6, <2>7 DEF PoolInv
<1>6. CASE /\ i # 0 /\ hd[i] # tl[i]
           /\ hd' = [hd EXCEPT ![i] = (@ - 1) % Wrap]
           /\ slot' = [slot EXCEPT ![p] = Slot(i, (hd[i] - 1) % Wrap)]
           /\ pc' = [pc EXCEPT ![p] = "headslot"]
           /\ deq' = deq /\ deq2' = deq2 /\ arg' = arg /\ free' = free
  <2>1. i \in Elt /\ ~Drained(i)
    BY <1>6, PoolTypes DEF Drained
  <2>2. /\ hd' \in [Elt -> 0..Wrap - 1] /\ Entries(i)' = Entries(i) - 1
        /\ Window(i) = Window(i)' \union {Slot(i, hd'[i])} /\ Slot(i, hd'[i]) \notin Window(i)'
    BY <1>1, <1>6, <2>1, HeadDown
  <2>3. hd'[i] = (hd[i] - 1) % Wrap /\ slot'[p] = Slot(i, hd'[i])
    BY <1>6, <2>1, PoolTypes
  <2>4. \A j \in Elt \ {i} : /\ Window(j)' = Window(j) /\ Entries(j)' = Entries(j)
                             /\ Drained(j)' <=> Drained(j)
    <3>1. ASSUME NEW j \in Elt \ {i} PROVE hd'[j] = hd[j] /\ tl'[j] = tl[j]
      BY <1>1, <1>6, PoolTypes
    <3> QED
      BY <3>1, SameWindow
  <2>5. slot'[p] \in 0..Size[i] - 1 /\ slot'[p] \in 0..dequeueLimit - 1
    <3>1. Window(i) \subseteq 0..Size[i] - 1 /\ Size[i] \in 1..dequeueLimit /\ dequeueLimit \in Nat
      BY <2>1, EntriesNat, Sizes
    <3> QED
      BY <3>1, <2>2, <2>3
  <2>6. PoolTypeOK'
    <3>1. pc' \in [Proc -> Places]
      BY <1>6, PoolTypes DEF Places
    <3>2. slot' \in [Proc -> 0..dequeueLimit - 1]
      BY <1>6, <2>3, <2>5, PoolTypes
    <3> QED
      BY <3>1, <3>2, <1>1, <1>6, <2>2, PoolTypes DEF PoolTypeOK
  <2>7. /\ Others(p) /\ pc'[p] = "headslot"
        /\ \A q \in Proc : deq'[q] = deq[q]
    BY <1>6, PoolTypes DEF Others
  <2>8. Owned'
    <3>1. ASSUME NEW q \in Proc \ {p}, Mine(q)
          PROVE  /\ slot'[q] \notin Window(deq[q])'
                 /\ ~(deq[q] = i /\ slot[q] = slot'[p])
      <4>1. PICK j \in Elt : j = deq[q]
        BY <3>1, MineElt
      <4>2. deq'[q] = j /\ slot'[q] = slot[q] /\ slot[q] \notin Window(j)
        BY <3>1, <4>1, <2>7 DEF PoolInv, Owned, Others
      <4> QED
        BY <4>1, <4>2, <2>2, <2>3, <2>4
    <3>2. deq'[p] = i /\ slot'[p] \notin Window(deq[p])'
      BY <1>3, <1>6, <2>2, <2>3
    <3> QED
      BY <3>1, <3>2, <2>7, OwnedKeeps
  <2>9. RingsOK'
    <3>1. Entries(i) \in Nat /\ Size[i] \in Nat
      BY <2>1, EntriesNat, Sizes
    <3>2. ASSUME NEW j \in Elt PROVE Entries(j)' <= Size[j]
      BY <3>1, <2>2, <2>4 DEF PoolInv, RingsOK
    <3>3. ASSUME NEW j \in Elt, NEW s \in Window(j)' PROVE typ'[j][s]
      BY <3>3, <1>1, <2>2, <2>4 DEF PoolInv, RingsOK
    <3> QED
      BY <3>2, <3>3 DEF RingsOK
  <2>10. ASSUME NEW j \in Elt, Drained(j) PROVE Drained(j)'
    BY <2>1, <2>4, <2>10
  <2>11. ASSUME NEW q \in Consumer PROVE ConsumerOK(q)'
    <3>1. q \in Proc /\ q # p
      BY <1>2, PoolTypes
    <3>2. head' \in Nat /\ tail' \in Nat /\ head <= head' /\ tail <= tail'
      BY <1>1, <1>4
    <3> QED
      BY <3>1, <3>2, <1>1, <2>7, <2>10, ConsumerKeeps
  <2>12. ChainOK'
    BY <1>1, <1>2, <1>4, <2>7, <2>10 DEF ChainOK
  <2>13. ProducerOK'
    BY <1>1, <1>2, <1>3, <1>4, <1>6, <2>5, <2>7 DEF ProducerOK, ProducerPlaces
  <2> QED
    BY <2>6, <2>8, <2>9, <2>11, <2>12, <2>13 DEF PoolInv
<1>7. CASE /\ i # 0 /\ hd[i] = tl[i]
           /\ pc' = [pc EXCEPT ![p] = "back"]
           /\ hd' = hd /\ deq' = deq /\ deq2' = deq2 /\ slot' = slot /\ arg' = arg /\ free' = free
  <2>1. UNCHANGED rings
    BY <1>1, <1>7 DEF rings
  <2>2. RingsOK' /\ \A j \in Elt : Drained(j)' <=> Drained(j)
    BY <2>1, SameRings
  <2>3. PoolTypeOK'
    <3>1. pc' \in [Proc -> Places]
      BY <1>7, PoolTypes DEF Places
    <3> QED
      BY <3>1, <1>1, <1>7, PoolTypes DEF PoolTypeOK
  <2>4. Others(p) /\ ~Mine(p)' /\ pc'[p] = "back"
    BY <1>7, PoolTypes DEF Others, Mine
  <2>5. Owned' /\ \A q \in Consumer : ConsumerOK(q)'
    BY <1>1, <1>2, <1>4, <2>1, <2>4, ProducerQuiet
  <2>6. ChainOK'
    BY <1>1, <1>2, <1>4, <2>2, <2>4 DEF ChainOK
  <2>7. ProducerOK'
    <3>1. \A j \in i + 1..MaxElts : Drained(j)'
      BY <1>1, <1>4, <1>7 DEF Drained
    <3>2. Drained(i)'
      BY <1>1, <1>7 DEF Drained
    <3>3. deq'[Producer] = i /\ pc'[Producer] = "back" /\ arg'[Producer] = NoItem
      BY <1>2, <1>3, <1>4, <1>7, <2>4
    <3> QED
      BY <3>1, <3>2, <3>3, <1>1, <1>4, <1>7 DEF ProducerOK, ProducerPlaces
  <2> QED
    BY <2>2, <2>3, <2>5, <2>6, <2>7 DEF PoolInv
<1> QED
  BY <1>3, <1>5, <1>6, <1>7 DEF TakeHead, Goto, local

-----------------------------------------------------------------------------
(* A step of a consumer that leaves the indexes alone and takes no slot. *)
LEMMA ConsumerQuiet ==
    ASSUME PoolInv, NEW p \in Consumer, Others(p), UNCHANGED rings, ~Mine(p)',
           head' = head, tail' \in Nat, tail <= tail', tail = 0 => tail' = 0
    PROVE  Owned' /\ ProducerOK' /\ \A q \in Consumer \ {p} : ConsumerOK(q)'
<1>1. /\ hd' = hd /\ tl' = tl /\ typ' = typ /\ val' = val /\ head \in Nat /\ p \in Proc
      /\ \A i \in Elt : /\ Entries(i)' = Entries(i) /\ Entries(i) \in Nat
                        /\ Drained(i)' <=> Drained(i)
  BY SameRings, EntriesNat, PoolTypes
<1>2. Owned'
  <2>1. \A q \in Proc : Mine(q)' => Mine(q) /\ deq'[q] = deq[q] /\ slot'[q] = slot[q]
    BY DEF Mine, Others
  <2> QED
    BY <2>1, <1>1, OwnedSame
<1>3. ProducerOK'
  <2>1. \A i \in Elt : Entries(i)' \in Nat /\ Entries(i)' <= Entries(i)
    BY <1>1
  <2> QED
    BY <2>1, <1>1, ProducerKeeps
<1>4. ASSUME NEW q \in Consumer \ {p} PROVE ConsumerOK(q)'
  BY <1>1, ConsumerKeeps
<1> QED
  BY <1>2, <1>3, <1>4

LEMMA PopTailInv ==
    ASSUME PoolInv, NEW p \in Proc, PopTail(p)
    PROVE  PoolInv'
<1>1. /\ p # Producer /\ pc[p] = "idle" /\ tail # 0
      /\ deq' = [deq EXCEPT ![p] = tail] /\ pc' = [pc EXCEPT ![p] = "next"]
      /\ UNCHANGED rings /\ next' = next /\ prev' = prev /\ head' = head /\ tail' = tail
      /\ deq2' = deq2 /\ slot' = slot /\ arg' = arg /\ free' = free
  BY DEF PopTail, At, Goto, chain
<1>2. p \in Consumer /\ head \in 0..MaxElts /\ tail \in 0..MaxElts /\ tail \in Nat /\ MaxElts \in Nat
  BY <1>1, PoolTypes
<1>3. /\ hd' = hd /\ tl' = tl /\ typ' = typ /\ val' = val /\ RingsOK'
      /\ \A j \in Elt : Drained(j)' <=> Drained(j)
  BY <1>1, SameRings
<1>4. /\ pc' \in [Proc -> Places] /\ deq' \in [Proc -> 0..MaxElts]
      /\ pc'[p] = "next" /\ deq'[p] = tail /\ Others(p) /\ ~Mine(p)'
      /\ pc'[Producer] = pc[Producer]
  <2>1. pc' \in [Proc -> Places]
    BY <1>1, PoolTypes DEF Places
  <2>2. deq' \in [Proc -> 0..MaxElts]
    BY <1>1, <1>2, PoolTypes
  <2> QED
    BY <2>1, <2>2, <1>1, PoolTypes DEF Others, Mine
<1>5. PoolTypeOK'
  BY <1>1, <1>3, <1>4, PoolTypes DEF PoolTypeOK
<1>6. Owned' /\ ProducerOK' /\ \A q \in Consumer \ {p} : ConsumerOK(q)'
  BY <1>1, <1>2, <1>4, ConsumerQuiet
<1>7. ConsumerOK(p)'
  <2>1. arg'[p] = NoItem
    BY <1>1, <1>2 DEF PoolInv, ConsumerOK
  <2> QED
    BY <2>1, <1>1, <1>2, <1>4 DEF ConsumerOK, ConsumerPlaces
<1>8. ChainOK'
  BY <1>1, <1>3, <1>4 DEF PoolInv, ChainOK
<1> QED
  BY <1>3, <1>5, <1>6, <1>7, <1>8 DEF PoolInv

LEMMA LoadNextInv ==
    ASSUME PoolInv, NEW p \in Proc, LoadNext(p)
    PROVE  PoolInv'
<1>1. /\ pc[p] = "next"
      /\ deq2' = [deq2 EXCEPT ![p] = next[deq[p]]] /\ pc' = [pc EXCEPT ![p] = "poptail"]
      /\ UNCHANGED rings /\ next' = next /\ prev' = prev /\ head' = head /\ tail' = tail
      /\ deq' = deq /\ slot' = slot /\ arg' = arg /\ free' = free
  BY DEF LoadNext, At, Goto, chain
<1>2. p \in Consumer /\ p # Producer /\ tail \in Nat
  BY <1>1, WhoIsThere, PoolTypes DEF ConsumerPlaces
<1>3. /\ hd' = hd /\ tl' = tl /\ typ' = typ /\ val' = val /\ RingsOK'
      /\ \A j \in Elt : Drained(j)' <=> Drained(j)
  BY <1>1, SameRings
<1>4. PICK i \in Elt : i = deq[p] /\ i <= tail /\ arg[p] = NoItem
  <2>1. deq[p] # 0 /\ deq[p] <= tail /\ arg[p] = NoItem
    BY <1>1, <1>2 DEF PoolInv, ConsumerOK
  <2>2. deq[p] \in Elt
    BY <2>1, PoolTypes
  <2> QED
    BY <2>1, <2>2
<1>5. next[i] \in 0..MaxElts /\ next[i] \in {0, i + 1} /\ (next[i] # 0 => i < head)
  BY PoolTypes DEF PoolInv, ChainOK
<1>6. /\ pc' \in [Proc -> Places] /\ deq2' \in [Proc -> 0..MaxElts]
      /\ pc'[p] = "poptail" /\ deq2'[p] = next[i] /\ Others(p) /\ ~Mine(p)'
      /\ pc'[Producer] = pc[Producer]
  <2>1. pc' \in [Proc -> Places]
    BY <1>1, PoolTypes DEF Places
  <2>2. deq2' \in [Proc -> 0..MaxElts]
    BY <1>1, <1>4, <1>5, PoolTypes
  <2> QED
    BY <2>1, <2>2, <1>1, <1>2, <1>4, PoolTypes DEF Others, Mine
<1>7. PoolTypeOK'
  BY <1>1, <1>3, <1>6, PoolTypes DEF PoolTypeOK
<1>8. Owned' /\ ProducerOK' /\ \A q \in Consumer \ {p} : ConsumerOK(q)'
  BY <1>1, <1>2, <1>6, ConsumerQuiet
<1>9. ConsumerOK(p)'
  <2>1. i # 0
    BY PoolTypes
  <2> QED
    BY <2>1, <1>1, <1>4, <1>5, <1>6 DEF ConsumerOK, ConsumerPlaces
<1>10. ChainOK'
  BY <1>1, <1>3, <1>6 DEF PoolInv, ChainOK
<1> QED
  BY <1>3, <1>7, <1>8, <1>9, <1>10 DEF PoolInv

LEMMA TakeTailInv ==
    ASSUME PoolInv, NEW p \in Proc, TakeTail(p)
    PROVE  PoolInv'
<1>1. /\ pc[p] = "poptail" /\ hd' = hd /\ typ' = typ /\ val' = val
      /\ next' = next /\ prev' = prev /\ head' = head /\ tail' = tail
  BY DEF TakeTail, At, chain
<1>2. p \in Consumer /\ p # Producer /\ head \in 0..MaxElts /\ tail \in Nat /\ MaxElts \in Nat
  BY <1>1, WhoIsThere, PoolTypes DEF ConsumerPlaces
<1>3. PICK i \in Elt : /\ i = deq[p] /\ i # 0 /\ i <= tail /\ arg[p] = NoItem
                       /\ deq2[p] = 0 \/ (deq2[p] = i + 1 /\ i < head)
  <2>1. /\ deq[p] # 0 /\ deq[p] <= tail /\ arg[p] = NoItem
        /\ deq2[p] = 0 \/ (deq2[p] = deq[p] + 1 /\ deq[p] < head)
    BY <1>1, <1>2 DEF PoolInv, ConsumerOK
  <2>2. deq[p] \in Elt
    BY <2>1, PoolTypes
  <2> QED
    BY <2>1, <2>2
<1>4. CASE Return(p, NoItem) /\ tl' = tl
  <2>1. /\ pc' \in [Proc -> Places] /\ free' \in SUBSET Item
        /\ deq' \in [Proc -> 0..MaxElts] /\ deq2' \in [Proc -> 0..MaxElts]
        /\ slot' \in [Proc -> 0..dequeueLimit - 1] /\ arg' \in [Proc -> Item \union {NoItem}]
        /\ pc'[p] = "idle" /\ arg'[p] = NoItem /\ ~Mine(p)' /\ Others(p)
    BY <1>4, Returned
  <2>2. UNCHANGED rings
    BY <1>1, <1>4 DEF rings
  <2>3. RingsOK' /\ \A j \in Elt : Drained(j)' <=> Drained(j)
    BY <2>2, SameRings
  <2>4. PoolTypeOK'
    BY <1>1, <1>4, <2>1, PoolTypes DEF PoolTypeOK
  <2>5. Owned' /\ ProducerOK' /\ \A q \in Consumer \ {p} : ConsumerOK(q)'
    BY <1>1, <1>2, <2>1, <2>2, ConsumerQuiet
  <2>6. ConsumerOK(p)'
    BY <2>1 DEF ConsumerOK, ConsumerPlaces
  <2>7. pc'[Producer] = pc[Producer]
    BY <1>2, <2>1, PoolTypes DEF Others
  <2>8. ChainOK'
    BY <1>1, <2>3, <2>7 DEF PoolInv, ChainOK
  <2> QED
    BY <2>3, <2>4, <2>5, <2>6, <2>8 DEF PoolInv
<1>5. CASE /\ hd[i] # tl[i]
           /\ tl' = [tl EXCEPT ![i] = (@ + 1) % Wrap]
           /\ slot' = [slot EXCEPT ![p] = Slot(i, tl[i])]
           /\ pc' = [pc EXCEPT ![p] = "tailslot"]
           /\ deq' = deq /\ deq2' = deq2 /\ arg' = arg /\ free' = free
  <2>1. ~Drained(i)
    BY <1>5 DEF Drained
  <2>2. /\ tl' \in [Elt -> 0..Wrap - 1] /\ Entries(i)' = Entries(i) - 1
        /\ Window(i) = Window(i)' \union {Slot(i, tl[i])} /\ Slot(i, tl[i]) \notin Window(i)'
    BY <1>1, <1>5, <2>1, TailUp
  <2>3. slot'[p] = Slot(i, tl[i]) /\ pc'[p] = "tailslot" /\ deq'[p] = i /\ Others(p)
    BY <1>3, <1>5, PoolTypes DEF Others
  <2>4. \A j \in Elt \ {i} : /\ Window(j)' = Window(j) /\ Entries(j)' = Entries(j)
                             /\ Drained(j)' <=> Drained(j)
    <3>1. ASSUME NEW j \in Elt \ {i} PROVE hd'[j] = hd[j] /\ tl'[j] = tl[j]
      BY <1>1, <1>5, PoolTypes
    <3> QED
      BY <3>1, SameWindow
  <2>5. slot'[p] \in 0..Size[i] - 1 /\ slot'[p] \in 0..dequeueLimit - 1 /\ typ[i][slot'[p]]
    <3>1. Window(i) \subseteq 0..Size[i] - 1 /\ Size[i] \in 1..dequeueLimit /\ dequeueLimit \in Nat
      BY EntriesNat, Sizes
    <3>2. slot'[p] \in Window(i)
      BY <2>2, <2>3
    <3> QED
      BY <3>1, <3>2 DEF PoolInv, RingsOK
  <2>6. PoolTypeOK'
    <3>1. pc' \in [Proc -> Places]
      BY <1>5, PoolTypes DEF Places
    <3>2. slot' \in [Proc -> 0..dequeueLimit - 1]
      BY <1>5, <2>3, <2>5, PoolTypes
    <3> QED
      BY <3>1, <3>2, <1>1, <1>5, <2>2, PoolTypes DEF PoolTypeOK
  <2>7. Owned'
    <3>1. ASSUME NEW q \in Proc \ {p}, Mine(q)
          PROVE  /\ slot'[q] \notin Window(deq[q])'
                 /\ ~(deq[q] = i /\ slot[q] = slot'[p])
      <4>1. PICK j \in Elt : j = deq[q]
        BY <3>1, MineElt
      <4>2. deq'[q] = j /\ slot'[q] = slot[q] /\ slot[q] \notin Window(j)
        BY <3>1, <4>1, <2>3 DEF PoolInv, Owned, Others
      <4> QED
        BY <4>1, <4>2, <2>2, <2>3, <2>4
    <3>2. slot'[p] \notin Window(deq[p])'
      BY <2>2, <2>3
    <3> QED
      BY <3>1, <3>2, <2>3, OwnedKeeps
  <2>8. ASSUME NEW j \in Elt
        PROVE  /\ Entries(j)' \in Nat /\ Entries(j)' <= Entries(j) /\ Entries(j)' <= Size[j]
               /\ Drained(j) => Drained(j)'
    <3>1. /\ Entries(j) \in Nat /\ Entries(j) <= Size[j] /\ Size[j] \in Nat
          /\ j = i => Entries(j) > 0
      BY <2>1, EntriesNat, Sizes
    <3> QED
      BY <3>1, <2>1, <2>2, <2>4
  <2>9. RingsOK'
    <3>1. ASSUME NEW j \in Elt, NEW s \in Window(j)' PROVE typ'[j][s]
      BY <3>1, <1>1, <2>2, <2>4 DEF PoolInv, RingsOK
    <3> QED
      BY <3>1, <2>8 DEF RingsOK
  <2>10. ASSUME NEW q \in Consumer \ {p} PROVE ConsumerOK(q)'
    BY <1>1, <1>2, <2>3, <2>8, PoolTypes, ConsumerKeeps
  <2>11. ConsumerOK(p)'
    BY <1>1, <1>2, <1>3, <1>5, <2>3, <2>5 DEF ConsumerOK, ConsumerPlaces
  <2>12. ProducerOK'
    BY <1>1, <1>2, <2>3, <2>8, ProducerKeeps
  <2>13. ChainOK'
    <3>1. pc'[Producer] = pc[Producer]
      BY <1>2, <2>3, PoolTypes DEF Others
    <3> QED
      BY <3>1, <1>1, <2>8 DEF PoolInv, ChainOK
  <2> QED
    BY <2>6, <2>7, <2>9, <2>10, <2>11, <2>12, <2>13 DEF PoolInv
<1>6. CASE /\ hd[i] = tl[i] /\ deq2[p] # 0
           /\ pc' = [pc EXCEPT ![p] = "drop"]
           /\ tl' = tl /\ deq' = deq /\ deq2' = deq2 /\ slot' = slot /\ arg' = arg /\ free' = free
  <2>1. UNCHANGED rings
    BY <1>1, <1>6 DEF rings
  <2>2. RingsOK' /\ \A j \in Elt : Drained(j)' <=> Drained(j)
    BY <2>1, SameRings
  <2>3. PoolTypeOK'
    <3>1. pc' \in [Proc -> Places]
      BY <1>6, PoolTypes DEF Places
    <3> QED
      BY <3>1, <1>1, <1>6, PoolTypes DEF PoolTypeOK
  <2>4. Others(p) /\ ~Mine(p)' /\ pc'[p] = "drop" /\ pc'[Producer] = pc[Producer]
    BY <1>2, <1>6, PoolTypes DEF Others, Mine
  <2>5. Owned' /\ ProducerOK' /\ \A q \in Consumer \ {p} : ConsumerOK(q)'
    BY <1>1, <1>2, <2>1, <2>4, ConsumerQuiet
  <2>6. ConsumerOK(p)'
    <3>1. /\ deq'[p] = i /\ deq2'[p] = i + 1 /\ arg'[p] = NoItem /\ i # 0
          /\ Drained(deq[p])'
      BY <1>1, <1>3, <1>6 DEF Drained
    <3> QED
      BY <3>1, <1>1, <1>3, <1>6, <2>4 DEF ConsumerOK, ConsumerPlaces
  <2>7. ChainOK'
    BY <1>1, <2>2, <2>4 DEF PoolInv, ChainOK
  <2> QED
    BY <2>2, <2>3, <2>5, <2>6, <2>7 DEF PoolInv
<1> QED
  BY <1>3, <1>4, <1>5, <1>6 DEF TakeTail, Goto, local

LEMMA ReadTailSlotInv ==
    ASSUME PoolInv, NEW p \in Proc, ReadTailSlot(p)
    PROVE  PoolInv'
<1>1. /\ pc[p] = "tailslot"
      /\ arg' = [arg EXCEPT ![p] = val[deq[p]][slot[p]]]
      /\ pc' = [pc EXCEPT ![p] = "clearval"]
      /\ UNCHANGED rings /\ next' = next /\ prev' = prev /\ head' = head /\ tail' = tail
      /\ deq' = deq /\ deq2' = deq2 /\ slot' = slot /\ free' = free
  BY DEF ReadTailSlot, At, Goto, chain
<1>2. p \in Consumer /\ p # Producer /\ head \in Nat /\ tail \in Nat
  BY <1>1, WhoIsThere, PoolTypes DEF ConsumerPlaces
<1>3. /\ hd' = hd /\ tl' = tl /\ typ' = typ /\ val' = val /\ RingsOK'
      /\ \A j \in Elt : Entries(j)' = Entries(j) /\ Entries(j) \in Nat /\ (Drained(j)' <=> Drained(j))
  BY <1>1, SameRings, EntriesNat
<1>4. Mine(p) /\ deq[p] \in Elt /\ slot[p] \in 0..Size[deq[p]] - 1
  BY <1>1, MineElt DEF Mine
<1>5. /\ pc' \in [Proc -> Places] /\ arg' \in [Proc -> Item \union {NoItem}]
      /\ pc'[p] = "clearval" /\ Others(p) /\ pc'[Producer] = pc[Producer]
  <2>1. val[deq[p]][slot[p]] \in Item \union {NoItem}
    BY <1>4, PoolTypes
  <2>2. arg' \in [Proc -> Item \union {NoItem}]
    BY <2>1, <1>1, PoolTypes
  <2>3. pc' \in [Proc -> Places]
    BY <1>1, PoolTypes DEF Places
  <2> QED
    BY <2>2, <2>3, <1>1, <1>2, PoolTypes DEF Others
<1>6. PoolTypeOK'
  BY <1>1, <1>3, <1>5, PoolTypes DEF PoolTypeOK
<1>7. Owned'
  <2>1. \A q \in Proc : Mine(q)' => Mine(q)
    BY <1>1, PoolTypes DEF Mine
  <2> QED
    BY <2>1, <1>1, <1>3, OwnedSame
<1>8. ASSUME NEW q \in Consumer PROVE ConsumerOK(q)'
  <2>1. CASE q = p
    BY <2>1, <1>1, <1>2, <1>3, <1>5 DEF PoolInv, ConsumerOK, ConsumerPlaces
  <2>2. CASE q # p
    BY <2>2, <1>1, <1>2, <1>3, <1>5, ConsumerKeeps
  <2> QED
    BY <2>1, <2>2
<1>9. ProducerOK'
  <2>1. \A i \in Elt : Entries(i)' \in Nat /\ Entries(i)' <= Entries(i)
    BY <1>3
  <2> QED
    BY <2>1, <1>1, <1>2, <1>3, <1>5, ProducerKeeps
<1>10. ChainOK'
  BY <1>1, <1>3, <1>5 DEF PoolInv, ChainOK
<1> QED
  BY <1>3, <1>6, <1>7, <1>8, <1>9, <1>10 DEF PoolInv

(* The consumer clears the slot it has: first val, then typ. *)
LEMMA ClearSlotInv ==
    ASSUME PoolInv, NEW p \in Proc, ClearVal(p) \/ ClearTyp(p)
    PROVE  PoolInv'
<1>1. /\ pc[p] \in {"clearval", "cleartyp"}
      /\ typ' = typ \/ typ' = [typ EXCEPT ![deq[p]][slot[p]] = FALSE]
      /\ val' = val \/ val' = [val EXCEPT ![deq[p]][slot[p]] = NoItem]
      /\ hd' = hd /\ tl' = tl /\ next' = next /\ prev' = prev /\ head' = head /\ tail' = tail
  BY DEF ClearVal, ClearTyp, At, chain
<1>2. \/ /\ pc[p] = "clearval" /\ pc' = [pc EXCEPT ![p] = "cleartyp"] /\ typ' = typ
         /\ deq' = deq /\ deq2' = deq2 /\ slot' = slot /\ arg' = arg /\ free' = free
      \/ Return(p, arg[p])
  BY DEF ClearVal, ClearTyp, At, Goto, local
<1>3. /\ p \in Consumer /\ p # Producer /\ head \in Nat /\ tail \in Nat
      /\ arg[p] \in Item \union {NoItem}
  BY <1>1, WhoIsThere, PoolTypes DEF ConsumerPlaces
<1>4. Mine(p)
  BY <1>1 DEF Mine
<1>5. /\ DOMAIN typ' = Elt /\ DOMAIN val' = Elt
      /\ \A j \in Elt : /\ typ'[j] \in [0..Size[j] - 1 -> BOOLEAN]
                        /\ val'[j] \in [0..Size[j] - 1 -> Item \union {NoItem}]
      /\ \A j \in Elt : Entries(j)' = Entries(j) /\ (Drained(j)' <=> Drained(j))
      /\ RingsOK'
      /\ \A q \in Proc \ {p} : Mine(q) =>
            /\ typ'[deq[q]][slot[q]] = typ[deq[q]][slot[q]]
            /\ val'[deq[q]][slot[q]] = val[deq[q]][slot[q]]
  BY <1>1, <1>4, OwnSlotWrite
<1>6. /\ pc' \in [Proc -> Places] /\ free' \in SUBSET Item
      /\ deq' \in [Proc -> 0..MaxElts] /\ deq2' \in [Proc -> 0..MaxElts]
      /\ slot' \in [Proc -> 0..dequeueLimit - 1] /\ arg' \in [Proc -> Item \union {NoItem}]
      /\ Others(p)
      /\ (pc'[p] = "idle" /\ arg'[p] = NoItem) \/ pc'[p] = "cleartyp"
  <2>1. CASE Return(p, arg[p])
    BY <2>1, <1>3, Returned
  <2>2. CASE ~Return(p, arg[p])
    <3>1. pc' \in [Proc -> Places] /\ pc'[p] = "cleartyp"
      BY <1>2, <2>2, PoolTypes DEF Places
    <3> QED
      BY <3>1, <1>2, <2>2, PoolTypes DEF Others
  <2> QED
    BY <2>1, <2>2
<1>7. PoolTypeOK'
  BY <1>1, <1>5, <1>6, PoolTypes DEF PoolTypeOK
<1>8. Owned'
  <2>1. ASSUME NEW q \in Proc \ {p}, Mine(q)'
        PROVE  Mine(q) /\ deq'[q] = deq[q] /\ slot'[q] = slot[q]
    BY <2>1, <1>6 DEF Mine, Others
  <2>2. ASSUME Mine(p)' PROVE deq'[p] = deq[p] /\ slot'[p] = slot[p]
    <3>1. ~Return(p, arg[p])
      BY <1>3, <2>2, Returned
    <3> QED
      BY <3>1, <1>2
  <2>3. \A q \in Proc : Mine(q)' => Mine(q) /\ deq'[q] = deq[q] /\ slot'[q] = slot[q]
    BY <2>1, <2>2, <1>4
  <2> QED
    BY <2>3, <1>1, OwnedSame
<1>9. ASSUME NEW q \in Consumer \ {p} PROVE ConsumerOK(q)'
  <2>1. q \in Proc /\ q # p
    BY PoolTypes
  <2>2. pc[q] \in {"tailslot", "clearval", "cleartyp"} =>
            typ'[deq[q]][slot[q]] = typ[deq[q]][slot[q]]
    BY <2>1, <1>5 DEF Mine
  <2>3. /\ head' \in Nat /\ tail' \in Nat /\ head <= head' /\ tail <= tail'
        /\ \A j \in Elt : j < head /\ Drained(j) => Drained(j)'
    BY <1>1, <1>3, <1>5
  <2> QED
    BY <2>1, <2>2, <2>3, <1>6, ConsumerKeeps
<1>10. ConsumerOK(p)'
  <2>1. CASE Return(p, arg[p])
    <3>1. pc'[p] = "idle" /\ arg'[p] = NoItem
      BY <2>1, <1>3, Returned
    <3> QED
      BY <3>1 DEF ConsumerOK, ConsumerPlaces
  <2>2. CASE ~Return(p, arg[p])
    <3>1. pc'[p] = "cleartyp" /\ typ' = typ
      BY <1>2, <2>2, PoolTypes
    <3> QED
      BY <3>1, <1>1, <1>2, <2>2, <1>3 DEF PoolInv, ConsumerOK, ConsumerPlaces
  <2> QED
    BY <2>1, <2>2
<1>11. ProducerOK'
  <2>1. \A i \in Elt : Entries(i)' \in Nat /\ Entries(i)' <= Entries(i)
    BY <1>5, EntriesNat
  <2>2. pc[Producer] = "add" =>
            /\ typ'[deq[Producer]][slot[Producer]] = typ[deq[Producer]][slot[Producer]]
            /\ val'[deq[Producer]][slot[Producer]] = val[deq[Producer]][slot[Producer]]
    BY <1>3, <1>5, PoolTypes DEF Mine
  <2> QED
    BY <2>1, <2>2, <1>1, <1>3, <1>5, <1>6, ProducerKeeps
<1>12. ChainOK'
  <2>1. pc'[Producer] = pc[Producer]
    BY <1>3, <1>6, PoolTypes DEF Others
  <2> QED
    BY <2>1, <1>1, <1>5 DEF PoolInv, ChainOK
<1> QED
  BY <1>5, <1>7, <1>8, <1>9, <1>10, <1>11, <1>12 DEF PoolInv

LEMMA DropTailInv ==
    ASSUME PoolInv, NEW p \in Proc, DropTail(p)
    PROVE  PoolInv'
<1>1. /\ pc[p] = "drop"
      /\ \/ /\ tail = deq[p] /\ tail' = deq2[p] /\ pc' = [pc EXCEPT ![p] = "cut"]
            /\ deq' = deq /\ deq2' = deq2
         \/ /\ tail # deq[p] /\ deq' = [deq EXCEPT ![p] = deq2[p]]
            /\ deq2' = [deq2 EXCEPT ![p] = 0]
            /\ pc' = [pc EXCEPT ![p] = "next"] /\ tail' = tail
      /\ UNCHANGED rings /\ next' = next /\ prev' = prev /\ head' = head
      /\ slot' = slot /\ arg' = arg /\ free' = free
  BY DEF DropTail, At, Goto
<1>2. /\ p \in Consumer /\ p # Producer /\ head \in Nat /\ head \in 0..MaxElts /\ MaxElts \in Nat
      /\ tail \in 0..head /\ tail \in Nat
  BY <1>1, WhoIsThere, PoolTypes DEF ConsumerPlaces
<1>3. /\ hd' = hd /\ tl' = tl /\ typ' = typ /\ val' = val /\ RingsOK'
      /\ \A j \in Elt : Drained(j)' <=> Drained(j)
  BY <1>1, SameRings
<1>4. PICK i \in Elt : /\ i = deq[p] /\ i # 0 /\ i <= tail /\ arg[p] = NoItem
                       /\ deq2[p] = i + 1 /\ i < head /\ Drained(i)
  <2>1. /\ deq[p] # 0 /\ deq[p] <= tail /\ arg[p] = NoItem
        /\ deq2[p] = deq[p] + 1 /\ deq[p] < head /\ Drained(deq[p])
    BY <1>1, <1>2 DEF PoolInv, ConsumerOK
  <2>2. deq[p] \in Elt
    BY <2>1, PoolTypes
  <2> QED
    BY <2>1, <2>2
<1>5. /\ tail' \in 0..head /\ tail' \in Nat /\ tail <= tail' /\ tail # 0 /\ i \in Nat
      /\ i + 1 \in 0..MaxElts
      /\ tail' = tail \/ (tail = i /\ tail' = i + 1)
  BY <1>1, <1>2, <1>4, PoolTypes
<1>6. /\ pc' \in [Proc -> Places] /\ deq' \in [Proc -> 0..MaxElts]
      /\ deq2' \in [Proc -> 0..MaxElts]
      /\ Others(p) /\ ~Mine(p)' /\ pc'[Producer] = pc[Producer]
  <2>1. pc' \in [Proc -> Places]
    BY <1>1, PoolTypes DEF Places
  <2>2. deq' \in [Proc -> 0..MaxElts] /\ deq2' \in [Proc -> 0..MaxElts]
    <3>1. deq \in [Proc -> 0..MaxElts] /\ deq2 \in [Proc -> 0..MaxElts] /\ 0 \in 0..MaxElts
      BY <1>2, PoolTypes
    <3> QED
      BY <3>1, <1>1, <1>4, <1>5
  <2>3. Others(p)
    BY <1>1, PoolTypes DEF Others
  <2>4. ~Mine(p)'
    BY <1>1, PoolTypes DEF Mine
  <2> QED
    BY <2>1, <2>2, <2>3, <2>4, <1>2, PoolTypes DEF Others
<1>7. PoolTypeOK'
  BY <1>1, <1>3, <1>5, <1>6, PoolTypes DEF PoolTypeOK
<1>8. Owned' /\ ProducerOK' /\ \A q \in Consumer \ {p} : ConsumerOK(q)'
  BY <1>1, <1>2, <1>5, <1>6, ConsumerQuiet
<1>9. ConsumerOK(p)'
  <2>1. CASE tail = deq[p]
    <3>1. pc'[p] = "cut" /\ deq'[p] = i /\ deq2'[p] = i + 1 /\ arg'[p] = NoItem /\ tail' = i + 1
      BY <2>1, <1>1, <1>4, PoolTypes
    <3>2. Drained(deq[p])'
      BY <3>1, <1>3, <1>4 DEF Drained
    <3> QED
      BY <3>1, <3>2, <1>1, <1>2, <1>4, <1>5 DEF ConsumerOK, ConsumerPlaces
  <2>2. CASE tail # deq[p]
    <3>1. pc'[p] = "next" /\ deq'[p] = i + 1 /\ arg'[p] = NoItem /\ tail' = tail
      BY <2>2, <1>1, <1>4, PoolTypes
    <3>2. i + 1 # 0 /\ i + 1 <= tail
      BY <2>2, <1>2, <1>4, <1>5
    <3> QED
      BY <3>1, <3>2 DEF ConsumerOK, ConsumerPlaces
  <2> QED
    BY <2>1, <2>2
<1>10. ChainOK'
  <2>1. tail' # 0
    BY <1>5
  <2>2. ASSUME NEW j \in Elt, j < tail' \/ j > head PROVE Drained(j)'
    <3>0. j \in Nat
      BY DEF Elt
    <3>1. j < tail \/ j > head \/ j = i
      BY <3>0, <2>2, <1>2, <1>5
    <3>2. Drained(j)
      BY <3>1, <1>4 DEF PoolInv, ChainOK
    <3> QED
      BY <3>2, <1>3
  <2>3. ASSUME NEW j \in Elt
        PROVE  prev[j] \in {0, j - 1} /\ (prev[j] = 0 /\ j <= head /\ j # 1 => j <= tail')
    <3>1. prev[j] \in {0, j - 1} /\ (prev[j] = 0 /\ j <= head /\ j # 1 => j <= tail) /\ j \in Nat
      BY DEF PoolInv, ChainOK, Elt
    <3> QED
      BY <3>1, <1>2, <1>5
  <2> QED
    BY <2>1, <2>2, <2>3, <1>1 DEF PoolInv, ChainOK
<1> QED
  BY <1>3, <1>7, <1>8, <1>9, <1>10 DEF PoolInv

LEMMA CutPrevInv ==
    ASSUME PoolInv, NEW p \in Proc, CutPrev(p)
    PROVE  PoolInv'
<1>1. /\ pc[p] = "cut" /\ prev' = [prev EXCEPT ![deq2[p]] = 0]
      /\ deq' = [deq EXCEPT ![p] = deq2[p]] /\ deq2' = [deq2 EXCEPT ![p] = 0]
      /\ pc' = [pc EXCEPT ![p] = "next"]
      /\ UNCHANGED rings /\ next' = next /\ head' = head /\ tail' = tail
      /\ slot' = slot /\ arg' = arg /\ free' = free
  BY DEF CutPrev, At, Goto
<1>2. /\ p \in Consumer /\ p # Producer /\ head \in Nat /\ head \in 0..MaxElts /\ MaxElts \in Nat
      /\ tail \in 0..head /\ tail \in Nat
  BY <1>1, WhoIsThere, PoolTypes DEF ConsumerPlaces
<1>3. /\ hd' = hd /\ tl' = tl /\ typ' = typ /\ val' = val /\ RingsOK'
      /\ \A j \in Elt : Drained(j)' <=> Drained(j)
  BY <1>1, SameRings
<1>4. PICK i \in Elt : i = deq[p] /\ deq2[p] = i + 1 /\ i < tail /\ arg[p] = NoItem
  <2>1. /\ deq[p] # 0 /\ arg[p] = NoItem /\ deq2[p] = deq[p] + 1 /\ deq[p] < tail
    BY <1>1, <1>2 DEF PoolInv, ConsumerOK
  <2>2. deq[p] \in Elt
    BY <2>1, PoolTypes
  <2> QED
    BY <2>1, <2>2
<1>5. i \in Nat /\ i + 1 \in 0..MaxElts /\ i + 1 # 0 /\ i + 1 <= tail /\ i + 1 # 1
  BY <1>2, <1>4, PoolTypes
<1>6. /\ pc' \in [Proc -> Places] /\ deq' \in [Proc -> 0..MaxElts]
      /\ deq2' \in [Proc -> 0..MaxElts] /\ prev' \in [Elt -> 0..MaxElts]
      /\ Others(p) /\ ~Mine(p)' /\ pc'[Producer] = pc[Producer]
      /\ pc'[p] = "next" /\ deq'[p] = i + 1
  <2>1. pc' \in [Proc -> Places]
    BY <1>1, PoolTypes DEF Places
  <2>2. deq' \in [Proc -> 0..MaxElts] /\ deq2' \in [Proc -> 0..MaxElts]
        /\ prev' \in [Elt -> 0..MaxElts] /\ deq'[p] = i + 1
    <3>1. /\ deq \in [Proc -> 0..MaxElts] /\ deq2 \in [Proc -> 0..MaxElts] /\ 0 \in 0..MaxElts
          /\ prev \in [Elt -> 0..MaxElts]
      BY <1>2, PoolTypes
    <3> QED
      BY <3>1, <1>1, <1>4, <1>5
  <2>3. Others(p)
    BY <1>1, PoolTypes DEF Others
  <2>4. ~Mine(p)' /\ pc'[p] = "next"
    BY <1>1, PoolTypes DEF Mine
  <2> QED
    BY <2>1, <2>2, <2>3, <2>4, <1>2, PoolTypes DEF Others
<1>7. PoolTypeOK'
  BY <1>1, <1>3, <1>6, PoolTypes DEF PoolTypeOK
<1>8. Owned' /\ ProducerOK' /\ \A q \in Consumer \ {p} : ConsumerOK(q)'
  BY <1>1, <1>2, <1>6, ConsumerQuiet
<1>9. ConsumerOK(p)'
  BY <1>1, <1>2, <1>4, <1>5, <1>6 DEF ConsumerOK, ConsumerPlaces
<1>10. ChainOK'
  <2>1. ASSUME NEW j \in Elt
        PROVE  prev'[j] \in {0, j - 1} /\ (prev'[j] = 0 /\ j <= head /\ j # 1 => j <= tail)
    <3>1. prev'[j] = prev[j] \/ (j = i + 1 /\ prev'[j] = 0)
      BY <1>1, <1>4, PoolTypes
    <3> QED
      BY <3>1, <1>5 DEF PoolInv, ChainOK
  <2> QED
    BY <2>1, <1>1, <1>3, <1>6 DEF PoolInv, ChainOK
<1> QED
  BY <1>3, <1>7, <1>8, <1>9, <1>10 DEF PoolInv

-----------------------------------------------------------------------------
LEMMA PoolInitInv ==
    ASSUME PoolInit
    PROVE  PoolInv
<1>1. /\ hd = [i \in Elt |-> 0] /\ tl = [i \in Elt |-> 0]
      /\ typ = [i \in Elt |-> [s \in 0..Size[i] - 1 |-> FALSE]]
      /\ val = [i \in Elt |-> [s \in 0..Size[i] - 1 |-> NoItem]]
      /\ next = [i \in Elt |-> 0] /\ prev = [i \in Elt |-> 0] /\ head = 0 /\ tail = 0
      /\ pc = [p \in Proc |-> "idle"] /\ deq = [p \in Proc |-> 0] /\ deq2 = [p \in Proc |-> 0]
      /\ slot = [p \in Proc |-> 0] /\ arg = [p \in Proc |-> NoItem] /\ free = Item
  BY DEF PoolInit
<1>2. /\ Wrap \in Nat /\ Wrap > 1 /\ dequeueLimit \in Nat \ {0} /\ MaxElts \in Nat \ {0}
      /\ Producer \in Proc /\ Elt = 1..MaxElts
  BY Sizes DEF Proc, Elt
<1>3. 0 \in 0..Wrap - 1 /\ 0 \in 0..dequeueLimit - 1 /\ 0 \in 0..MaxElts
  BY <1>2
<1>4. PoolTypeOK
  <2>1. hd \in [Elt -> 0..Wrap - 1] /\ tl \in [Elt -> 0..Wrap - 1]
    BY <1>1, <1>3
  <2>2. next \in [Elt -> 0..MaxElts] /\ prev \in [Elt -> 0..MaxElts]
    BY <1>1, <1>3
  <2>3. DOMAIN typ = Elt /\ DOMAIN val = Elt
    BY <1>1
  <2>4. \A i \in Elt : /\ typ[i] \in [0..Size[i] - 1 -> BOOLEAN]
                       /\ val[i] \in [0..Size[i] - 1 -> Item \union {NoItem}]
    BY <1>1
  <2>5. pc \in [Proc -> Places] /\ arg \in [Proc -> Item \union {NoItem}]
    BY <1>1 DEF Places
  <2>6. /\ deq \in [Proc -> 0..MaxElts] /\ deq2 \in [Proc -> 0..MaxElts]
        /\ slot \in [Proc -> 0..dequeueLimit - 1]
    BY <1>1, <1>3
  <2>7. head \in 0..MaxElts /\ tail \in 0..head /\ free \in SUBSET Item
    BY <1>1, <1>2
  <2> QED
    BY <2>1, <2>2, <2>3, <2>4, <2>5, <2>6, <2>7 DEF PoolTypeOK
<1>5. Owned
  BY <1>1 DEF Owned, Mine
<1>6. ASSUME NEW i \in Elt PROVE Drained(i)
  BY <1>1 DEF Drained
<1>7. ChainOK
  BY <1>1, <1>2, <1>6 DEF ChainOK
<1>8. ProducerOK
  <2>1. \A j \in 0 + 1..MaxElts : Drained(j)
    BY <1>2, <1>6
  <2> QED
    BY <2>1, <1>1, <1>2 DEF ProducerOK, ProducerPlaces
<1>9. \A p \in Consumer : ConsumerOK(p)
  BY <1>1 DEF ConsumerOK, ConsumerPlaces, Proc
<1>10. RingsOK
  <2>1. ASSUME NEW i \in Elt PROVE Entries(i) = 0 /\ Window(i) = {} /\ Size[i] \in Nat
    <3>1. /\ hd[i] \in 0..Wrap - 1 /\ tl[i] \in 0..Wrap - 1 /\ hd[i] = tl[i]
          /\ Size[i] \in Nat \ {0}
      BY <1>1, <1>3, Sizes
    <3> DEFINE s == Size[i]  a == hd[i]  b == tl[i]
    <3>2. Entries(i) = Apart(a, b) /\ Window(i) = Between(s, a, b)
      BY WindowIs
    <3>3. s \in Nat \ {0} /\ a \in 0..Wrap - 1 /\ b \in 0..Wrap - 1 /\ a = b
      BY <3>1
    <3> HIDE DEF s, a, b
    <3>4. Apart(a, b) = 0 /\ Between(s, a, b) = {}
      BY <3>3, RingEmpty
    <3> QED
      BY <3>1, <3>2, <3>4
  <2> QED
    BY <2>1 DEF RingsOK
<1> QED
  BY <1>4, <1>5, <1>7, <1>8, <1>9, <1>10 DEF PoolInv

LEMMA PoolStutter ==
    ASSUME PoolInv, UNCHANGED poolVars
    PROVE  PoolInv'
<1>1. /\ UNCHANGED rings /\ next' = next /\ prev' = prev /\ head' = head /\ tail' = tail
      /\ pc' = pc /\ deq' = deq /\ deq2' = deq2 /\ slot' = slot /\ arg' = arg /\ free' = free
  BY DEF poolVars, rings
<1>2. /\ hd' = hd /\ tl' = tl /\ typ' = typ /\ val' = val /\ RingsOK'
      /\ \A i \in Elt : Drained(i)' <=> Drained(i)
  BY <1>1, SameRings
<1>3. PoolTypeOK'
  BY <1>1, <1>2 DEF PoolInv, PoolTypeOK
<1>4. Owned'
  BY <1>1, <1>2, OwnedSame DEF Mine
<1>5. ChainOK'
  BY <1>1, <1>2 DEF PoolInv, ChainOK
<1>6. ProducerOK' /\ \A p \in Consumer : ConsumerOK(p)'
  BY <1>1, <1>2 DEF PoolInv, ProducerOK, ConsumerOK, Drained, Entries, Slot
<1> QED
  BY <1>2, <1>3, <1>4, <1>5, <1>6 DEF PoolInv

LEMMA PoolNextInv ==
    ASSUME PoolInv, [PoolNext]_poolVars
    PROVE  PoolInv'
<1>1. CASE \E item \in Item : PushHead(item)
  BY <1>1, PushHeadInv
<1>2. CASE PopHead
  BY <1>2, PopHeadInv
<1>3. ASSUME NEW p \in Proc, PopTail(p) \/ Step(p) PROVE PoolInv'
  <2>1. CASE PopTail(p)
    BY <2>1, PopTailInv
  <2>2. CASE Publish(p) \/ LoadHeadTail(p) \/ LoadTyp(p) \/ WriteSlot(p) \/ AddHead(p)
    BY <2>2, PublishInv, LoadHeadTailInv, LoadTypInv, WriteSlotInv, AddHeadInv
  <2>3. CASE TakeHead(p) \/ LoadPrev(p) \/ EmptyHeadSlot(p)
    BY <2>3, TakeHeadInv, LoadPrevInv, EmptyHeadSlotInv
  <2>4. CASE LoadNext(p) \/ TakeTail(p) \/ ReadTailSlot(p) \/ ClearVal(p) \/ ClearTyp(p)
    BY <2>4, LoadNextInv, TakeTailInv, ReadTailSlotInv, ClearSlotInv
  <2>5. CASE DropTail(p) \/ CutPrev(p)
    BY <2>5, DropTailInv, CutPrevInv
  <2> QED
    BY <2>1, <2>2, <2>3, <2>4, <2>5, <1>3 DEF Step
<1>4. CASE UNCHANGED poolVars
  BY <1>4, PoolStutter
<1> QED
  BY <1>1, <1>2, <1>3, <1>4 DEF PoolNext

(* A slot of a dequeue belongs to the window between tail and head or to    *)
(* the one goroutine that fills or empties it, for any sizes and also when   *)
(* the indexes wrap around: pushHead waits for popTail to clear typ.         *)
THEOREM PoolSlotOwned == PoolSpec => []SlotOwned
<1>1. PoolInv => SlotOwned
  BY DEF PoolInv, Owned, RingsOK, SlotOwned
<1> QED
  BY <1>1, PoolInitInv, PoolNextInv, PTL DEF PoolSpec

-----------------------------------------------------------------------------
(* Only these three steps move an index. *)
LEMMA IndexesMove ==
    ASSUME PoolInv, PoolNext,
           hd' # hd \/ tl' # tl
    PROVE  \E p \in Proc : AddHead(p) \/ TakeHead(p) \/ TakeTail(p)
<1>1. ASSUME NEW item \in Item, PushHead(item) PROVE hd' = hd /\ tl' = tl
  BY <1>1 DEF PushHead, rings
<1>2. ASSUME PopHead PROVE hd' = hd /\ tl' = tl
  BY <1>2 DEF PopHead, rings
<1>3. ASSUME NEW p \in Proc, PopTail(p) \/ Publish(p) \/ LoadHeadTail(p) \/ LoadTyp(p)
      PROVE  hd' = hd /\ tl' = tl
  BY <1>3 DEF PopTail, Publish, LoadHeadTail, LoadTyp, rings
<1>4. ASSUME NEW p \in Proc, WriteSlot(p) \/ LoadPrev(p) \/ EmptyHeadSlot(p) \/ LoadNext(p)
      PROVE  hd' = hd /\ tl' = tl
  BY <1>4 DEF WriteSlot, LoadPrev, EmptyHeadSlot, LoadNext, rings
<1>5. ASSUME NEW p \in Proc,
             ReadTailSlot(p) \/ ClearVal(p) \/ ClearTyp(p) \/ DropTail(p) \/ CutPrev(p)
      PROVE  hd' = hd /\ tl' = tl
  BY <1>5 DEF ReadTailSlot, ClearVal, ClearTyp, DropTail, CutPrev, rings
<1> QED
  BY <1>1, <1>2, <1>3, <1>4, <1>5 DEF PoolNext, Step

(* The producer gives up only where it has looked into every dequeue. *)
LEMMA PopHeadEnds ==
    ASSUME PoolInv, PoolNext, pc[Producer] = "pophead", pc'[Producer] = "idle"
    PROVE  TakeHead(Producer) /\ deq[Producer] = 0
<1>1. Producer \in Proc /\ pc \in [Proc -> Places]
  BY PoolTypes
<1>2. ~PopHead /\ \A item \in Item : ~PushHead(item)
  BY DEF PopHead, PushHead, At
<1>3. PICK p \in Proc : PopTail(p) \/ Step(p)
  BY <1>2 DEF PoolNext
<1>4. ASSUME NEW here, NEW there, here # "pophead",
             At(p, here), pc' = [pc EXCEPT ![p] = there]
      PROVE  FALSE
  BY <1>1, <1>4 DEF At
<1>5. ~PopTail(p) /\ ~Publish(p) /\ ~WriteSlot(p) /\ ~AddHead(p) /\ ~LoadPrev(p)
  BY <1>4 DEF PopTail, Publish, WriteSlot, AddHead, LoadPrev, Goto, Return
<1>6. ~LoadHeadTail(p) /\ ~LoadTyp(p)
  BY <1>4 DEF LoadHeadTail, LoadTyp, Grow, Make, Goto
<1>7. ~EmptyHeadSlot(p) /\ ~LoadNext(p) /\ ~ReadTailSlot(p) /\ ~ClearVal(p) /\ ~ClearTyp(p)
  BY <1>4 DEF EmptyHeadSlot, LoadNext, ReadTailSlot, ClearVal, ClearTyp, Goto, Return
<1>8. ~TakeTail(p) /\ ~DropTail(p) /\ ~CutPrev(p)
  BY <1>4 DEF TakeTail, DropTail, CutPrev, Goto, Return
<1>9. TakeHead(p)
  BY <1>3, <1>5, <1>6, <1>7, <1>8 DEF Step
<1>10. p = Producer
  <2>1. pc[p] = "pophead"
    BY <1>9 DEF TakeHead, At
  <2> QED
    BY <2>1, WhoIsThere DEF ProducerPlaces
<1>11. deq[p] = 0
  BY <1>1, <1>9, <1>10 DEF TakeHead, Goto, Return
<1> QED
  BY <1>9, <1>10, <1>11

(* popHead takes the newest item and popTail the oldest one: the dequeues   *)
(* after it, before it, are empty then.  A popHead that ends with nothing    *)
(* has found every dequeue empty, dropped ones included.                     *)
THEOREM PoolEnds == PoolSpec => Ends
<1>1. ASSUME PoolInv, [PoolNext]_poolVars
      PROVE  [/\ \A i \in Elt :
                    /\ hd'[i] = (hd[i] - 1) % Wrap => \A j \in i + 1..MaxElts : Entries(j) = 0
                    /\ tl'[i] # tl[i] => \A j \in 1..i - 1 : Entries(j) = 0
              /\ At(Producer, "pophead") /\ At(Producer, "idle")' =>
                    \A i \in Elt : Entries(i) = 0]_poolVars
  <2> SUFFICES ASSUME PoolNext
               PROVE  /\ \A i \in Elt :
                            /\ hd'[i] = (hd[i] - 1) % Wrap =>
                                   \A j \in i + 1..MaxElts : Entries(j) = 0
                            /\ tl'[i] # tl[i] => \A j \in 1..i - 1 : Entries(j) = 0
                      /\ At(Producer, "pophead") /\ At(Producer, "idle")' =>
                            \A i \in Elt : Entries(i) = 0
    BY <1>1
  <2>1. \A i \in Elt : Drained(i) => Entries(i) = 0
    BY <1>1, EntriesNat
  <2>2. ASSUME At(Producer, "pophead"), At(Producer, "idle")'
        PROVE  \A i \in Elt : Entries(i) = 0
    <3>1. deq[Producer] = 0
      BY <1>1, <2>2, PopHeadEnds DEF At
    <3>2. \A j \in 0 + 1..MaxElts : Drained(j)
      BY <1>1, <2>2, <3>1 DEF PoolInv, ProducerOK, At
    <3>3. \A j \in Elt : j \in 0 + 1..MaxElts
      BY DEF Elt
    <3> QED
      BY <2>1, <3>2, <3>3
  <2>3. ASSUME NEW i \in Elt, hd'[i] = (hd[i] - 1) % Wrap, NEW j \in i + 1..MaxElts
        PROVE  Entries(j) = 0
    <3>1. /\ hd[i] \in 0..Wrap - 1 /\ Wrap \in Nat /\ Wrap > 1 /\ j \in Elt /\ i \in Nat /\ j > i
          /\ hd \in [Elt -> 0..Wrap - 1]
      <4>1. hd \in [Elt -> 0..Wrap - 1] /\ MaxElts \in Nat /\ Wrap \in Nat /\ Wrap > 1
        BY <1>1, Sizes, PoolTypes
      <4>2. j \in Elt /\ i \in Nat /\ j > i
        BY <2>3, <4>1 DEF Elt
      <4> QED
        BY <4>1, <4>2
    <3>2. (hd[i] - 1) % Wrap # hd[i]
      BY <3>1, Indexes
    <3>3. hd' # hd
      BY <2>3, <3>2
    <3>4. PICK p \in Proc : AddHead(p) \/ TakeHead(p) \/ TakeTail(p)
      BY <1>1, <3>3, IndexesMove
    <3>5. CASE AddHead(p)
      <4>1. pc[p] = "add" /\ hd' = [hd EXCEPT ![deq[p]] = (@ + 1) % Wrap]
        BY <3>5 DEF AddHead, At
      <4>2. p = Producer
        BY <1>1, <4>1, WhoIsThere DEF ProducerPlaces
      <4>3. i = deq[p] /\ deq[p] = head
        BY <1>1, <2>3, <3>1, <3>2, <4>1, <4>2 DEF PoolInv, ProducerOK
      <4>4. Drained(j)
        BY <1>1, <3>1, <4>3 DEF PoolInv, ChainOK
      <4> QED
        BY <2>1, <3>1, <4>4
    <3>6. CASE TakeHead(p)
      <4>1. /\ pc[p] = "pophead"
            /\ hd' = hd \/ hd' = [hd EXCEPT ![deq[p]] = (@ - 1) % Wrap]
        BY <3>6 DEF TakeHead, At
      <4>2. p = Producer
        BY <1>1, <4>1, WhoIsThere DEF ProducerPlaces
      <4>3. i = deq[p]
        BY <2>3, <3>1, <3>2, <4>1
      <4>4. Drained(j)
        BY <1>1, <2>3, <4>1, <4>2, <4>3 DEF PoolInv, ProducerOK
      <4> QED
        BY <2>1, <3>1, <4>4
    <3>7. CASE TakeTail(p)
      BY <3>3, <3>7 DEF TakeTail
    <3> QED
      BY <3>4, <3>5, <3>6, <3>7
  <2>4. ASSUME NEW i \in Elt, tl'[i] # tl[i], NEW j \in 1..i - 1
        PROVE  Entries(j) = 0
    <3>1. PICK p \in Proc : AddHead(p) \/ TakeHead(p) \/ TakeTail(p)
      BY <1>1, <2>4, IndexesMove
    <3>2. TakeTail(p)
      BY <2>4, <3>1 DEF AddHead, TakeHead
    <3>3. pc[p] = "poptail" /\ (tl' = tl \/ tl' = [tl EXCEPT ![deq[p]] = (@ + 1) % Wrap])
      BY <3>2 DEF TakeTail, At
    <3>4. p \in Consumer
      BY <1>1, <3>3, WhoIsThere DEF ConsumerPlaces
    <3>5. i = deq[p] /\ i <= tail
      <4>1. i = deq[p]
        BY <1>1, <2>4, <3>3, PoolTypes
      <4>2. deq[p] <= tail
        BY <1>1, <3>3, <3>4 DEF PoolInv, ConsumerOK
      <4> QED
        BY <4>1, <4>2
    <3>6. j \in Elt /\ j < tail
      <4>1. i \in Nat /\ i <= MaxElts /\ MaxElts \in Nat /\ tail \in Nat
        BY <1>1, PoolTypes
      <4> QED
        BY <3>5, <4>1 DEF Elt
    <3> QED
      BY <1>1, <2>1, <3>6 DEF PoolInv, ChainOK
  <2> QED
    BY <2>2, <2>3, <2>4
<1> QED
  BY <1>1, PoolInitInv, PoolNextInv, PTL DEF PoolSpec, Ends

-----------------------------------------------------------------------------
(* Where an item is: in a window, in whichever dequeue, or with a goroutine. *)
Stored(item) ==
    {pl \in Elt \X (0..dequeueLimit - 1) :
        pl[2] \in Window(pl[1]) /\ val[pl[1]][pl[2]] = item}

Placed ==
    \A item \in Item :
        IF item \in free
        THEN Stored(item) = {} /\ InHands(item) = {}
        ELSE \/ \E pl : Stored(item) = {pl} /\ InHands(item) = {}
             \/ \E p : Stored(item) = {} /\ InHands(item) = {p}

(* A dequeue that consumers cannot get to has no items. *)
LEMMA StoredIsQueue ==
    ASSUME PoolInv, NEW item
    PROVE  InQueue(item) = Stored(item)
<1>1. ASSUME NEW i \in Elt, Window(i) # {} PROVE tail # 0 /\ i \in tail..head
  <2>1. ~Drained(i)
    BY <1>1, EntriesNat
  <2>2. i \in Int /\ head \in Int /\ tail \in Int
    BY PoolTypes
  <2> QED
    BY <2>1, <2>2 DEF PoolInv, ChainOK
<1>2. ASSUME NEW pl \in Elt \X (0..dequeueLimit - 1), pl[2] \in Window(pl[1])
      PROVE  tail # 0 /\ pl[1] \in tail..head
  BY <1>1, <1>2
<1> QED
  BY <1>2 DEF InQueue, Stored

LEMMA PlacedConserved ==
    ASSUME PoolInv, Placed
    PROVE  Conserved
<1>1. Cardinality({}) = 0 /\ \A x : Cardinality({x}) = 1
  BY FS_EmptySet, FS_Singleton
<1>2. ASSUME NEW item \in Item
      PROVE  Cardinality(InQueue(item)) + Cardinality(InHands(item)) =
                 IF item \in free THEN 0 ELSE 1
  <2>1. InQueue(item) = Stored(item)
    BY StoredIsQueue
  <2>2. CASE item \in free
    <3>1. Stored(item) = {} /\ InHands(item) = {}
      BY <2>2 DEF Placed
    <3> QED
      BY <1>1, <2>1, <2>2, <3>1
  <2>3. CASE item \notin free
    <3>1. \/ \E pl : Stored(item) = {pl} /\ InHands(item) = {}
          \/ \E p : Stored(item) = {} /\ InHands(item) = {p}
      BY <2>3 DEF Placed
    <3>2. \/ Cardinality(Stored(item)) = 1 /\ Cardinality(InHands(item)) = 0
          \/ Cardinality(Stored(item)) = 0 /\ Cardinality(InHands(item)) = 1
      BY <1>1, <3>1
    <3> QED
      BY <2>1, <2>3, <3>2
  <2> QED
    BY <2>2, <2>3
<1> QED
  BY <1>2 DEF Conserved

(* How an item can move. *)
LEMMA PlacedMoves ==
    ASSUME Placed, NEW p, NEW pl,
           \A item \in Item :
               \/ /\ Stored(item)' = Stored(item) /\ InHands(item)' = InHands(item)
                  /\ item \in free' <=> item \in free
               \/ /\ p \in InHands(item) /\ item \notin free'
                  /\ Stored(item)' = Stored(item) \union {pl}
                  /\ InHands(item)' = InHands(item) \ {p}
               \/ /\ pl \in Stored(item) /\ item \notin free'
                  /\ Stored(item)' = Stored(item) \ {pl}
                  /\ InHands(item)' = InHands(item) \union {p}
               \/ /\ p \in InHands(item) /\ item \in free'
                  /\ Stored(item)' = Stored(item) /\ InHands(item)' = InHands(item) \ {p}
               \/ /\ item \in free /\ item \notin free'
                  /\ Stored(item)' = Stored(item)
                  /\ InHands(item)' = InHands(item) \union {p}
    PROVE  Placed'
<1>1. ASSUME NEW item \in Item
      PROVE  IF item \in free'
             THEN Stored(item)' = {} /\ InHands(item)' = {}
             ELSE \/ \E x : Stored(item)' = {x} /\ InHands(item)' = {}
                  \/ \E x : Stored(item)' = {} /\ InHands(item)' = {x}
  <2>1. IF item \in free
        THEN Stored(item) = {} /\ InHands(item) = {}
        ELSE \/ \E x : Stored(item) = {x} /\ InHands(item) = {}
             \/ \E x : Stored(item) = {} /\ InHands(item) = {x}
    BY DEF Placed
  <2>2. CASE /\ Stored(item)' = Stored(item) /\ InHands(item)' = InHands(item)
             /\ item \in free' <=> item \in free
    BY <2>1, <2>2
  <2>3. CASE /\ p \in InHands(item) /\ item \notin free'
             /\ Stored(item)' = Stored(item) \union {pl}
             /\ InHands(item)' = InHands(item) \ {p}
    <3>1. Stored(item) = {} /\ InHands(item) = {p}
      BY <2>1, <2>3
    <3>2. Stored(item)' = {pl} /\ InHands(item)' = {}
      BY <2>3, <3>1
    <3> QED
      BY <2>3, <3>2
  <2>4. CASE /\ pl \in Stored(item) /\ item \notin free'
             /\ Stored(item)' = Stored(item) \ {pl}
             /\ InHands(item)' = InHands(item) \union {p}
    <3>1. Stored(item) = {pl} /\ InHands(item) = {}
      BY <2>1, <2>4
    <3>2. Stored(item)' = {} /\ InHands(item)' = {p}
      BY <2>4, <3>1
    <3> QED
      BY <2>4, <3>2
  <2>5. CASE /\ p \in InHands(item) /\ item \in free'
             /\ Stored(item)' = Stored(item) /\ InHands(item)' = InHands(item) \ {p}
    <3>1. Stored(item) = {} /\ InHands(item) = {p}
      BY <2>1, <2>5
    <3> QED
      BY <2>5, <3>1
  <2>6. CASE /\ item \in free /\ item \notin free'
             /\ Stored(item)' = Stored(item)
             /\ InHands(item)' = InHands(item) \union {p}
    <3>1. Stored(item)' = {} /\ InHands(item)' = {p}
      BY <2>1, <2>6
    <3> QED
      BY <2>6, <3>1
  <2> QED
    BY <2>2, <2>3, <2>4, <2>5, <2>6
<1> QED
  BY <1>1 DEF Placed

(* Windows and what is in them are the same. *)
LEMMA StoredSame ==
    ASSUME NEW item, \A i \in Elt : Window(i)' = Window(i),
           \A i \in Elt : \A s \in Window(i) : val'[i][s] = val[i][s]
    PROVE  Stored(item)' = Stored(item)
<1>1. ASSUME NEW pl \in Elt \X (0..dequeueLimit - 1)
      PROVE  (pl[2] \in Window(pl[1]) /\ val[pl[1]][pl[2]] = item)' <=>
                 pl[2] \in Window(pl[1]) /\ val[pl[1]][pl[2]] = item
  <2>1. PICK i \in Elt, s \in 0..dequeueLimit - 1 : pl = <<i, s>>
    OBVIOUS
  <2>2. (s \in Window(i))' <=> s \in Window(i)
    OBVIOUS
  <2> QED
    BY <2>1, <2>2
<1> QED
  BY <1>1 DEF Stored

(* What the others have in hand is the same. *)
LEMMA HandsSame ==
    ASSUME PoolInv, NEW p \in Proc, Others(p), NEW item,
           \A q \in Proc \ {p} : Mine(q) => val'[deq[q]][slot[q]] = val[deq[q]][slot[q]]
    PROVE  InHands(item)' \ {p} = InHands(item) \ {p}
<1>1. ASSUME NEW q \in Proc \ {p} PROVE q \in InHands(item)' <=> q \in InHands(item)
  <2>1. /\ pc'[q] = pc[q] /\ deq'[q] = deq[q] /\ slot'[q] = slot[q] /\ arg'[q] = arg[q]
        /\ pc[q] \in {"headslot", "tailslot"} =>
               val'[deq[q]][slot[q]] = val[deq[q]][slot[q]]
    BY DEF Others, Mine
  <2> QED
    BY <2>1 DEF InHands
<1>2. InHands(item) \subseteq Proc /\ InHands(item)' \subseteq Proc
  BY DEF InHands
<1> QED
  BY <1>1, <1>2

(* A step that moves no item. *)
LEMMA PlacedQuiet ==
    ASSUME PoolInv, Placed, NEW p \in Proc, Others(p), UNCHANGED rings,
           arg'[p] = arg[p], free' = free,
           pc[p] \notin {"headslot", "tailslot"}, pc'[p] \notin {"headslot", "tailslot"}
    PROVE  Placed'
<1>1. val' = val /\ \A i \in Elt : Window(i)' = Window(i)
  BY SameRings
<1>2. ASSUME NEW item \in Item
      PROVE  /\ Stored(item)' = Stored(item) /\ InHands(item)' = InHands(item)
             /\ item \in free' <=> item \in free
  <2>1. Stored(item)' = Stored(item)
    BY <1>1, StoredSame
  <2>2. InHands(item)' \ {p} = InHands(item) \ {p}
    BY <1>1, HandsSame
  <2>3. p \in InHands(item)' <=> p \in InHands(item)
    BY DEF InHands
  <2> QED
    BY <2>1, <2>2, <2>3
<1> QED
  BY <1>2, PlacedMoves

(* A goroutine that writes to its slot changes no item that is elsewhere. *)
LEMMA SlotElsewhere ==
    ASSUME PoolInv, NEW p \in Proc, Mine(p), hd' = hd, tl' = tl,
           typ' = typ \/ \E b \in BOOLEAN : typ' = [typ EXCEPT ![deq[p]][slot[p]] = b],
           val' = val \/ \E v \in Item \union {NoItem} : val' = [val EXCEPT ![deq[p]][slot[p]] = v]
    PROVE  /\ \A i \in Elt : Window(i)' = Window(i)
           /\ \A i \in Elt : \A s \in Window(i) : val'[i][s] = val[i][s]
           /\ \A q \in Proc \ {p} : Mine(q) => val'[deq[q]][slot[q]] = val[deq[q]][slot[q]]
<1>1. /\ \A i \in Elt : Window(i)' = Window(i)
      /\ \A q \in Proc \ {p} : Mine(q) => val'[deq[q]][slot[q]] = val[deq[q]][slot[q]]
  BY OwnSlotWrite
<1>2. \A i \in Elt :
         /\ typ'[i] \in [0..Size[i] - 1 -> BOOLEAN]
         /\ val'[i] \in [0..Size[i] - 1 -> Item \union {NoItem}]
         /\ \A s \in 0..Size[i] - 1 :
               i # deq[p] \/ s # slot[p] =>
                   typ'[i][s] = typ[i][s] /\ val'[i][s] = val[i][s]
  BY OwnSlotWrite
<1>3. \A i \in Elt : \A s \in Window(i) :
          s \in 0..Size[i] - 1 /\ (i # deq[p] \/ s # slot[p])
  BY OwnSlotWrite
<1> QED
  BY <1>1, <1>2, <1>3

LEMMA QuietSteps ==
    ASSUME PoolInv, NEW p \in Proc,
           \/ Publish(p) \/ LoadHeadTail(p) \/ LoadTyp(p) \/ LoadPrev(p) \/ PopTail(p)
           \/ LoadNext(p) \/ DropTail(p) \/ CutPrev(p) \/ (PopHead /\ p = Producer)
           \/ (TakeHead(p) /\ hd' = hd) \/ (TakeTail(p) /\ tl' = tl)
    PROVE  /\ Others(p) /\ UNCHANGED rings /\ arg'[p] = arg[p] /\ free' = free
           /\ pc[p] \notin {"headslot", "tailslot"} /\ pc'[p] \notin {"headslot", "tailslot"}
<1>1. /\ pc \in [Proc -> Places] /\ deq \in [Proc -> 0..MaxElts] /\ deq2 \in [Proc -> 0..MaxElts]
      /\ slot \in [Proc -> 0..dequeueLimit - 1] /\ arg \in [Proc -> Item \union {NoItem}]
  BY PoolTypes
<1>2. CASE Publish(p)
  <2>1. /\ pc[p] \in {"first", "link"} /\ pc' = [pc EXCEPT ![p] = "full"] /\ UNCHANGED rings
        /\ deq' = deq /\ deq2' = deq2 /\ slot' = slot /\ arg' = arg /\ free' = free
    BY <1>2 DEF Publish, At, Goto, local
  <2> QED
    BY <1>1, <2>1 DEF Others
<1>3. CASE LoadHeadTail(p) \/ LoadTyp(p)
  <2>1. /\ pc[p] \in {"full", "typ"} /\ UNCHANGED rings /\ free' = free
        /\ arg' = arg /\ deq2' = deq2
        /\ \E there \in {"link", "typ", "write"} : pc' = [pc EXCEPT ![p] = there]
        /\ deq' = deq \/ deq' = [deq EXCEPT ![p] = head + 1]
        /\ slot' = slot \/ \E s : slot' = [slot EXCEPT ![p] = s]
    BY <1>3 DEF LoadHeadTail, LoadTyp, Grow, Make, At, Goto, local
  <2> QED
    BY <1>1, <2>1 DEF Others
<1>4. CASE LoadPrev(p) \/ PopTail(p) \/ (PopHead /\ p = Producer)
  <2>1. /\ pc[p] \in {"back", "idle"} /\ UNCHANGED rings /\ free' = free
        /\ arg' = arg /\ deq2' = deq2 /\ slot' = slot
        /\ \E there \in {"pophead", "next"} : pc' = [pc EXCEPT ![p] = there]
        /\ \E i : deq' = [deq EXCEPT ![p] = i]
    BY <1>4 DEF LoadPrev, PopTail, PopHead, At, Goto
  <2> QED
    BY <1>1, <2>1 DEF Others
<1>5. CASE LoadNext(p) \/ DropTail(p) \/ CutPrev(p)
  <2>1. /\ pc[p] \in {"next", "drop", "cut"} /\ UNCHANGED rings /\ free' = free
        /\ arg' = arg /\ slot' = slot
        /\ \E there \in {"poptail", "cut", "next"} : pc' = [pc EXCEPT ![p] = there]
        /\ deq' = deq \/ \E i : deq' = [deq EXCEPT ![p] = i]
        /\ deq2' = deq2 \/ \E i : deq2' = [deq2 EXCEPT ![p] = i]
    BY <1>5 DEF LoadNext, DropTail, CutPrev, At, Goto
  <2> QED
    BY <1>1, <2>1 DEF Others
<1>6. CASE (TakeHead(p) /\ hd' = hd) \/ (TakeTail(p) /\ tl' = tl)
  <2>1. pc[p] \in {"pophead", "poptail"} /\ UNCHANGED rings
    BY <1>6 DEF TakeHead, TakeTail, At, rings
  <2>2. arg[p] = NoItem
    <3>1. CASE pc[p] = "pophead"
      BY <3>1, WhoIsThere DEF ProducerPlaces, PoolInv, ProducerOK
    <3>2. CASE pc[p] = "poptail"
      BY <3>2, WhoIsThere DEF ConsumerPlaces, PoolInv, ConsumerOK
    <3> QED
      BY <2>1, <3>1, <3>2
  <2>3. CASE Return(p, NoItem)
    <3>1. Others(p) /\ pc'[p] = "idle" /\ arg'[p] = NoItem /\ free' = free
      BY <2>3, Returned DEF Return
    <3> QED
      BY <2>1, <2>2, <3>1
  <2>4. CASE /\ \E there \in {"back", "drop"} : pc' = [pc EXCEPT ![p] = there]
             /\ deq' = deq /\ deq2' = deq2 /\ slot' = slot /\ arg' = arg /\ free' = free
    BY <1>1, <2>1, <2>4 DEF Others
  <2>5. CASE TakeHead(p) /\ hd' = hd
    <3>1. ASSUME deq[p] # 0, hd[deq[p]] # tl[deq[p]],
                 hd' = [hd EXCEPT ![deq[p]] = (@ - 1) % Wrap]
          PROVE  FALSE
      <4> DEFINE i == deq[p]
      <4>1. i \in Elt /\ hd[i] \in 0..Wrap - 1 /\ Wrap \in Nat /\ Wrap > 1
        BY <3>1, PoolTypes, Sizes
      <4>2. PICK a \in 0..Wrap - 1 : a = hd[i]
        BY <4>1
      <4>3. a = (a - 1) % Wrap
        BY <2>5, <3>1, <4>1, <4>2, PoolTypes
      <4>4. (a - 1) % Wrap = IF a = 0 THEN Wrap - 1 ELSE a - 1
        BY Indexes
      <4> QED
        BY <4>1, <4>3, <4>4
    <3> QED
      BY <2>3, <2>4, <2>5, <3>1 DEF TakeHead, Goto, local
  <2>6. CASE TakeTail(p) /\ tl' = tl
    <3>1. ASSUME hd[deq[p]] # tl[deq[p]], tl' = [tl EXCEPT ![deq[p]] = (@ + 1) % Wrap]
          PROVE  FALSE
      <4> DEFINE i == deq[p]
      <4>0. i \in Elt
        <5>1. pc[p] = "poptail"
          BY <2>6 DEF TakeTail, At
        <5>2. p \in Consumer
          BY <5>1, WhoIsThere DEF ConsumerPlaces
        <5>3. i # 0
          BY <5>1, <5>2 DEF PoolInv, ConsumerOK
        <5> QED
          BY <5>3, PoolTypes
      <4>1. tl[i] \in 0..Wrap - 1 /\ Wrap \in Nat /\ Wrap > 1
        BY <4>0, PoolTypes, Sizes
      <4>2. PICK a \in 0..Wrap - 1 : a = tl[i]
        BY <4>1
      <4>3. a = (a + 1) % Wrap
        BY <2>6, <3>1, <4>0, <4>2, PoolTypes
      <4>4. (a + 1) % Wrap = IF a + 1 = Wrap THEN 0 ELSE a + 1
        BY Indexes
      <4> QED
        BY <4>1, <4>3, <4>4
    <3> QED
      BY <2>3, <2>4, <2>6, <3>1 DEF TakeTail, Goto, local
  <2> QED
    BY <1>6, <2>5, <2>6
<1> QED
  BY <1>2, <1>3, <1>4, <1>5, <1>6

LEMMA PushHeadPlaced ==
    ASSUME PoolInv, Placed, NEW item \in Item, PushHead(item)
    PROVE  Placed'
<1> DEFINE p == Producer
<1>1. /\ pc[p] = "idle" /\ item \in free /\ free' = free \ {item}
      /\ arg' = [arg EXCEPT ![p] = item]
      /\ UNCHANGED rings /\ deq2' = deq2 /\ slot' = slot
      /\ \E there \in {"first", "full"} : pc' = [pc EXCEPT ![p] = there]
      /\ \E i : deq' = [deq EXCEPT ![p] = i]
  BY DEF PushHead, Make, At, Goto
<1>2. /\ p \in Proc /\ arg[p] = NoItem /\ arg'[p] = item /\ NoItem \notin Item
      /\ Others(p) /\ pc'[p] \in {"first", "full"}
  BY <1>1, PoolTypes DEF PoolInv, ProducerOK, Others
<1>3. val' = val /\ \A i \in Elt : Window(i)' = Window(i)
  BY <1>1, SameRings
<1>4. ASSUME NEW y \in Item
      PROVE  /\ Stored(y)' = Stored(y) /\ InHands(y)' \ {p} = InHands(y) \ {p}
             /\ p \notin InHands(y) /\ (p \in InHands(y)' <=> y = item)
  <2>1. Stored(y)' = Stored(y)
    BY <1>3, StoredSame
  <2>2. InHands(y)' \ {p} = InHands(y) \ {p}
    BY <1>2, <1>3, HandsSame
  <2>3. p \notin InHands(y) /\ (p \in InHands(y)' <=> y = item)
    BY <1>1, <1>2 DEF InHands
  <2> QED
    BY <2>1, <2>2, <2>3
<1> HIDE DEF p
<1>5. ASSUME NEW y \in Item
      PROVE  IF y = item
             THEN /\ y \in free /\ y \notin free' /\ Stored(y)' = Stored(y)
                  /\ InHands(y)' = InHands(y) \union {p}
             ELSE /\ Stored(y)' = Stored(y) /\ InHands(y)' = InHands(y)
                  /\ y \in free' <=> y \in free
  BY <1>1, <1>4
<1> QED
  BY <1>5, PlacedMoves

LEMMA WriteSlotPlaced ==
    ASSUME PoolInv, Placed, NEW p \in Proc, WriteSlot(p)
    PROVE  Placed'
<1>1. /\ pc[p] = "write" /\ pc' = [pc EXCEPT ![p] = "add"]
      /\ typ' = [typ EXCEPT ![deq[p]][slot[p]] = TRUE]
      /\ val' = [val EXCEPT ![deq[p]][slot[p]] = arg[p]]
      /\ hd' = hd /\ tl' = tl
      /\ deq' = deq /\ deq2' = deq2 /\ slot' = slot /\ arg' = arg /\ free' = free
  BY DEF WriteSlot, At, Goto, local
<1>2. Mine(p) /\ arg[p] \in Item \union {NoItem} /\ pc'[p] = "add" /\ Others(p)
  BY <1>1, PoolTypes DEF Mine, Others
<1>3. /\ \A i \in Elt : Window(i)' = Window(i)
      /\ \A i \in Elt : \A s \in Window(i) : val'[i][s] = val[i][s]
      /\ \A q \in Proc \ {p} : Mine(q) => val'[deq[q]][slot[q]] = val[deq[q]][slot[q]]
  BY <1>1, <1>2, SlotElsewhere
<1>4. ASSUME NEW y \in Item
      PROVE  /\ Stored(y)' = Stored(y) /\ InHands(y)' = InHands(y)
             /\ y \in free' <=> y \in free
  <2>1. Stored(y)' = Stored(y)
    BY <1>3, StoredSame
  <2>2. InHands(y)' \ {p} = InHands(y) \ {p}
    BY <1>2, <1>3, HandsSame
  <2>3. p \in InHands(y)' <=> p \in InHands(y)
    BY <1>1, <1>2 DEF InHands
  <2> QED
    BY <2>1, <2>2, <2>3, <1>1
<1> QED
  BY <1>4, PlacedMoves

(* The index moves past the slot: the item is in the queue. *)
LEMMA AddHeadPlaced ==
    ASSUME PoolInv, Placed, NEW p \in Proc, AddHead(p)
    PROVE  Placed'
<1>1. pc[p] = "add" /\ Mine(p)
  BY DEF AddHead, At, Mine
<1>2. PICK i \in Elt : i = deq[p]
  BY <1>1, MineElt
<1>3. PICK s \in 0..dequeueLimit - 1 : s = slot[p]
  BY PoolTypes
<1>4. /\ hd' = [hd EXCEPT ![i] = (@ + 1) % Wrap] /\ tl' = tl /\ val' = val
      /\ Return(p, NoItem) /\ free' = free
  BY <1>2 DEF AddHead, Return
<1>5. pc'[p] = "idle" /\ arg'[p] = NoItem /\ Others(p) /\ NoItem \notin Item
  BY <1>4, Returned, PoolTypes
<1>6. /\ p = Producer /\ arg[p] \in Item /\ Entries(i) < Size[i] /\ s = Slot(i, hd[i])
      /\ val[i][s] = arg[p]
  <2>1. p = Producer
    BY <1>1, WhoIsThere DEF ProducerPlaces
  <2> QED
    BY <2>1, <1>1, <1>2, <1>3 DEF PoolInv, ProducerOK
<1>7. Window(i)' = Window(i) \union {s} /\ s \notin Window(i)
  BY <1>4, <1>6, HeadUp
<1>8. \A j \in Elt \ {i} : Window(j)' = Window(j)
  <2>1. ASSUME NEW j \in Elt \ {i} PROVE hd'[j] = hd[j] /\ tl'[j] = tl[j]
    BY <1>4, PoolTypes
  <2> QED
    BY <2>1, SameWindow
<1>9. ASSUME NEW y \in Item
      PROVE  /\ Stored(y)' = IF y = arg[p] THEN Stored(y) \union {<<i, s>>} ELSE Stored(y)
             /\ InHands(y)' = InHands(y) \ {p} /\ (p \in InHands(y) <=> y = arg[p])
  <2>1. ASSUME NEW pl \in Elt \X (0..dequeueLimit - 1)
        PROVE  pl \in Stored(y)' <=> pl \in Stored(y) \/ (y = arg[p] /\ pl = <<i, s>>)
    <3>1. PICK j \in Elt, r \in 0..dequeueLimit - 1 : pl = <<j, r>>
      OBVIOUS
    <3>2. (r \in Window(j))' <=> r \in Window(j) \/ (j = i /\ r = s)
      BY <1>7, <1>8
    <3> QED
      BY <3>1, <3>2, <1>4, <1>6 DEF Stored
  <2>2. /\ Stored(y) \subseteq Elt \X (0..dequeueLimit - 1)
        /\ Stored(y)' \subseteq Elt \X (0..dequeueLimit - 1)
        /\ <<i, s>> \in Elt \X (0..dequeueLimit - 1)
    BY DEF Stored
  <2>3. InHands(y)' \ {p} = InHands(y) \ {p}
    BY <1>4, <1>5, HandsSame
  <2>4. p \notin InHands(y)' /\ (p \in InHands(y) <=> y = arg[p])
    BY <1>1, <1>5 DEF InHands
  <2> QED
    BY <2>1, <2>2, <2>3, <2>4
<1>10. arg[p] \notin free
  <2>1. p \in InHands(arg[p])
    BY <1>6, <1>9
  <2> QED
    BY <2>1, <1>6 DEF Placed
<1>11. ASSUME NEW y \in Item
       PROVE  \/ /\ Stored(y)' = Stored(y) /\ InHands(y)' = InHands(y)
                 /\ y \in free' <=> y \in free
              \/ /\ p \in InHands(y) /\ y \notin free'
                 /\ Stored(y)' = Stored(y) \union {<<i, s>>}
                 /\ InHands(y)' = InHands(y) \ {p}
  BY <1>4, <1>9, <1>10
<1> QED
  BY <1>11, PlacedMoves

(* An index moves past the slot of a goroutine that has nothing in hand. *)
LEMMA TakePlaced ==
    ASSUME PoolInv, Placed, NEW p \in Proc, NEW i \in Elt, NEW s \in 0..dequeueLimit - 1,
           Others(p), deq'[p] = i, slot'[p] = s, arg'[p] = NoItem, arg[p] = NoItem,
           pc[p] \notin {"headslot", "tailslot"}, pc'[p] \in {"headslot", "tailslot"},
           val' = val, free' = free,
           Window(i) = Window(i)' \union {s}, s \notin Window(i)',
           \A j \in Elt \ {i} : Window(j)' = Window(j)
    PROVE  Placed'
<1>1. NoItem \notin Item
  BY PoolTypes
<1>2. ASSUME NEW y \in Item
      PROVE  /\ IF y = val[i][s]
                THEN Stored(y)' = Stored(y) \ {<<i, s>>} /\ <<i, s>> \in Stored(y)
                ELSE Stored(y)' = Stored(y)
             /\ InHands(y)' \ {p} = InHands(y) \ {p} /\ p \notin InHands(y)
             /\ p \in InHands(y)' <=> y = val[i][s]
  <2>1. ASSUME NEW pl \in Elt \X (0..dequeueLimit - 1)
        PROVE  pl \in Stored(y)' <=> pl \in Stored(y) /\ pl # <<i, s>>
    <3>1. PICK j \in Elt, r \in 0..dequeueLimit - 1 : pl = <<j, r>>
      OBVIOUS
    <3>2. (r \in Window(j))' <=> r \in Window(j) /\ ~(j = i /\ r = s)
      OBVIOUS
    <3> QED
      BY <3>1, <3>2 DEF Stored
  <2>2. /\ Stored(y) \subseteq Elt \X (0..dequeueLimit - 1)
        /\ Stored(y)' \subseteq Elt \X (0..dequeueLimit - 1)
    BY DEF Stored
  <2>3. <<i, s>> \in Stored(y) <=> y = val[i][s]
    BY DEF Stored
  <2>4. InHands(y)' \ {p} = InHands(y) \ {p}
    BY HandsSame
  <2>5. p \notin InHands(y)
    BY <1>1 DEF InHands
  <2>6. p \in InHands(y)' <=> y = val[i][s]
    BY <1>1 DEF InHands
  <2>7. Stored(y)' = Stored(y) \ {<<i, s>>}
    BY <2>1, <2>2
  <2>8. y # val[i][s] => Stored(y)' = Stored(y)
    BY <2>3, <2>7
  <2> QED
    BY <2>3, <2>4, <2>5, <2>6, <2>7, <2>8
<1>3. ASSUME NEW y \in Item, y = val[i][s] PROVE y \notin free
  BY <1>2, <1>3 DEF Placed
<1>4. ASSUME NEW y \in Item
      PROVE  \/ /\ Stored(y)' = Stored(y) /\ InHands(y)' = InHands(y)
                /\ y \in free' <=> y \in free
             \/ /\ <<i, s>> \in Stored(y) /\ y \notin free'
                /\ Stored(y)' = Stored(y) \ {<<i, s>>}
                /\ InHands(y)' = InHands(y) \union {p}
  <2>1. InHands(y)' = IF y = val[i][s] THEN InHands(y) \union {p} ELSE InHands(y)
    <3>1. /\ InHands(y)' \ {p} = InHands(y) \ {p} /\ p \notin InHands(y)
          /\ p \in InHands(y)' <=> y = val[i][s]
      BY <1>2
    <3> QED
      BY <3>1
  <2>2. CASE y = val[i][s]
    BY <1>2, <1>3, <2>1, <2>2
  <2>3. CASE y # val[i][s]
    BY <1>2, <2>1, <2>3
  <2> QED
    BY <2>2, <2>3
<1> QED
  BY <1>4, PlacedMoves

LEMMA TakeHeadPlaced ==
    ASSUME PoolInv, Placed, NEW p \in Proc, TakeHead(p), hd' # hd
    PROVE  Placed'
<1>1. pc[p] = "pophead"
  BY DEF TakeHead, At
<1>2. p = Producer
  BY <1>1, WhoIsThere DEF ProducerPlaces
<1>3. PICK i \in Elt : i = deq[p]
  <2>1. deq[p] # 0
    BY DEF TakeHead
  <2> QED
    BY <2>1, PoolTypes
<1>4. /\ hd[i] # tl[i] /\ hd' = [hd EXCEPT ![i] = (@ - 1) % Wrap] /\ tl' = tl /\ val' = val
      /\ slot' = [slot EXCEPT ![p] = Slot(i, (hd[i] - 1) % Wrap)]
      /\ pc' = [pc EXCEPT ![p] = "headslot"]
      /\ deq' = deq /\ deq2' = deq2 /\ arg' = arg /\ free' = free
  BY <1>3 DEF TakeHead, Goto
<1>5. /\ Window(i) = Window(i)' \union {Slot(i, hd'[i])} /\ Slot(i, hd'[i]) \notin Window(i)'
  BY <1>4, HeadDown DEF Drained
<1>6. /\ slot'[p] = Slot(i, hd'[i]) /\ deq'[p] = i /\ pc'[p] = "headslot"
      /\ arg[p] = NoItem /\ arg'[p] = NoItem /\ Others(p)
  <2>1. arg[p] = NoItem
    BY <1>1, <1>2 DEF PoolInv, ProducerOK
  <2> QED
    BY <2>1, <1>3, <1>4, PoolTypes DEF Others
<1>7. \A j \in Elt \ {i} : Window(j)' = Window(j)
  <2>1. ASSUME NEW j \in Elt \ {i} PROVE hd'[j] = hd[j] /\ tl'[j] = tl[j]
    BY <1>4, PoolTypes
  <2> QED
    BY <2>1, SameWindow
<1>8. PICK s \in 0..dequeueLimit - 1 : s = Slot(i, hd'[i])
  <2>1. Window(i) \subseteq 0..Size[i] - 1 /\ Size[i] \in 1..dequeueLimit /\ dequeueLimit \in Nat
    BY EntriesNat, Sizes
  <2> QED
    BY <2>1, <1>5
<1> QED
  BY <1>1, <1>4, <1>5, <1>6, <1>7, <1>8, TakePlaced

LEMMA TakeTailPlaced ==
    ASSUME PoolInv, Placed, NEW p \in Proc, TakeTail(p), tl' # tl
    PROVE  Placed'
<1>1. pc[p] = "poptail"
  BY DEF TakeTail, At
<1>2. p \in Consumer
  BY <1>1, WhoIsThere DEF ConsumerPlaces
<1>3. PICK i \in Elt : i = deq[p]
  <2>1. deq[p] # 0
    BY <1>1, <1>2 DEF PoolInv, ConsumerOK
  <2> QED
    BY <2>1, PoolTypes
<1>4. /\ hd[i] # tl[i] /\ tl' = [tl EXCEPT ![i] = (@ + 1) % Wrap] /\ hd' = hd /\ val' = val
      /\ slot' = [slot EXCEPT ![p] = Slot(i, tl[i])]
      /\ pc' = [pc EXCEPT ![p] = "tailslot"]
      /\ deq' = deq /\ deq2' = deq2 /\ arg' = arg /\ free' = free
  BY <1>3 DEF TakeTail, Goto
<1>5. /\ Window(i) = Window(i)' \union {Slot(i, tl[i])} /\ Slot(i, tl[i]) \notin Window(i)'
  BY <1>4, TailUp DEF Drained
<1>6. /\ slot'[p] = Slot(i, tl[i]) /\ deq'[p] = i /\ pc'[p] = "tailslot"
      /\ arg[p] = NoItem /\ arg'[p] = NoItem /\ Others(p)
  <2>1. arg[p] = NoItem
    BY <1>1, <1>2 DEF PoolInv, ConsumerOK
  <2> QED
    BY <2>1, <1>3, <1>4, PoolTypes DEF Others
<1>7. \A j \in Elt \ {i} : Window(j)' = Window(j)
  <2>1. ASSUME NEW j \in Elt \ {i} PROVE hd'[j] = hd[j] /\ tl'[j] = tl[j]
    BY <1>4, PoolTypes
  <2> QED
    BY <2>1, SameWindow
<1>8. PICK s \in 0..dequeueLimit - 1 : s = Slot(i, tl[i])
  <2>1. Window(i) \subseteq 0..Size[i] - 1 /\ Size[i] \in 1..dequeueLimit /\ dequeueLimit \in Nat
    BY EntriesNat, Sizes
  <2> QED
    BY <2>1, <1>5
<1> QED
  BY <1>1, <1>4, <1>5, <1>6, <1>7, <1>8, TakePlaced

(* The consumer has in hand what it had in the slot. *)
LEMMA ReadTailSlotPlaced ==
    ASSUME PoolInv, Placed, NEW p \in Proc, ReadTailSlot(p)
    PROVE  Placed'
<1>1. /\ pc[p] = "tailslot" /\ arg' = [arg EXCEPT ![p] = val[deq[p]][slot[p]]]
      /\ pc' = [pc EXCEPT ![p] = "clearval"] /\ UNCHANGED rings
      /\ deq' = deq /\ deq2' = deq2 /\ slot' = slot /\ free' = free
  BY DEF ReadTailSlot, At, Goto
<1>2. p \in Consumer /\ NoItem \notin Item
  BY <1>1, WhoIsThere, PoolTypes DEF ConsumerPlaces
<1>3. /\ arg[p] = NoItem /\ arg'[p] = val[deq[p]][slot[p]] /\ pc'[p] = "clearval" /\ Others(p)
  <2>1. arg[p] = NoItem
    BY <1>1, <1>2 DEF PoolInv, ConsumerOK
  <2> QED
    BY <2>1, <1>1, PoolTypes DEF Others
<1>4. val' = val /\ \A i \in Elt : Window(i)' = Window(i)
  BY <1>1, SameRings
<1>5. ASSUME NEW y \in Item
      PROVE  /\ Stored(y)' = Stored(y) /\ InHands(y)' = InHands(y)
             /\ y \in free' <=> y \in free
  <2>1. Stored(y)' = Stored(y)
    BY <1>4, StoredSame
  <2>2. InHands(y)' \ {p} = InHands(y) \ {p}
    BY <1>3, <1>4, HandsSame
  <2>3. p \in InHands(y)' <=> p \in InHands(y)
    BY <1>1, <1>2, <1>3 DEF InHands
  <2> QED
    BY <2>1, <2>2, <2>3, <1>1
<1> QED
  BY <1>5, PlacedMoves

LEMMA ClearValPlaced ==
    ASSUME PoolInv, Placed, NEW p \in Proc, ClearVal(p)
    PROVE  Placed'
<1>1. /\ pc[p] = "clearval" /\ val' = [val EXCEPT ![deq[p]][slot[p]] = NoItem]
      /\ pc' = [pc EXCEPT ![p] = "cleartyp"] /\ hd' = hd /\ tl' = tl /\ typ' = typ
      /\ deq' = deq /\ deq2' = deq2 /\ slot' = slot /\ arg' = arg /\ free' = free
  BY DEF ClearVal, At, Goto, local
<1>2. Mine(p) /\ pc'[p] = "cleartyp" /\ Others(p)
  BY <1>1, PoolTypes DEF Mine, Others
<1>3. /\ \A i \in Elt : Window(i)' = Window(i)
      /\ \A i \in Elt : \A s \in Window(i) : val'[i][s] = val[i][s]
      /\ \A q \in Proc \ {p} : Mine(q) => val'[deq[q]][slot[q]] = val[deq[q]][slot[q]]
  BY <1>1, <1>2, SlotElsewhere
<1>4. ASSUME NEW y \in Item
      PROVE  /\ Stored(y)' = Stored(y) /\ InHands(y)' = InHands(y)
             /\ y \in free' <=> y \in free
  <2>1. Stored(y)' = Stored(y)
    BY <1>3, StoredSame
  <2>2. InHands(y)' \ {p} = InHands(y) \ {p}
    BY <1>2, <1>3, HandsSame
  <2>3. p \in InHands(y)' <=> p \in InHands(y)
    BY <1>1, <1>2 DEF InHands
  <2> QED
    BY <2>1, <2>2, <2>3, <1>1
<1> QED
  BY <1>4, PlacedMoves

(* A pop is over: what was in hand, or in the slot of the producer, is free. *)
LEMMA PoppedPlaced ==
    ASSUME PoolInv, Placed, NEW p \in Proc, ClearTyp(p) \/ EmptyHeadSlot(p)
    PROVE  Placed'
<1>1. PICK v : /\ \/ pc[p] = "cleartyp" /\ v = arg[p] /\ val' = val
                  \/ /\ pc[p] = "headslot" /\ v = val[deq[p]][slot[p]]
                     /\ val' = [val EXCEPT ![deq[p]][slot[p]] = NoItem]
               /\ Return(p, v) /\ hd' = hd /\ tl' = tl
               /\ typ' = [typ EXCEPT ![deq[p]][slot[p]] = FALSE]
  BY DEF ClearTyp, EmptyHeadSlot, At
<1>2. Mine(p) /\ deq[p] \in Elt /\ slot[p] \in 0..Size[deq[p]] - 1
  BY <1>1, MineElt DEF Mine
<1>3. v \in Item \union {NoItem} /\ NoItem \notin Item
  <2>1. /\ arg[p] \in Item \union {NoItem} /\ NoItem \notin Item
        /\ val[deq[p]][slot[p]] \in Item \union {NoItem}
    BY <1>2, PoolTypes
  <2> QED
    BY <1>1, <2>1
<1>4. /\ pc'[p] = "idle" /\ arg'[p] = NoItem /\ Others(p)
      /\ free' = free \union ({v} \ {NoItem})
  BY <1>1, <1>3, Returned DEF Return
<1>5. /\ \A i \in Elt : Window(i)' = Window(i)
      /\ \A i \in Elt : \A s \in Window(i) : val'[i][s] = val[i][s]
      /\ \A q \in Proc \ {p} : Mine(q) => val'[deq[q]][slot[q]] = val[deq[q]][slot[q]]
  BY <1>1, <1>2, SlotElsewhere
<1>6. ASSUME NEW y \in Item PROVE p \in InHands(y) <=> y = v
  <2>1. CASE pc[p] = "cleartyp"
    BY <2>1, <1>1 DEF InHands
  <2>2. CASE pc[p] = "headslot"
    <3>1. p = Producer
      BY <2>2, WhoIsThere DEF ProducerPlaces
    <3>2. arg[p] = NoItem
      BY <2>2, <3>1 DEF PoolInv, ProducerOK
    <3> QED
      BY <2>2, <3>2, <1>1, <1>3 DEF InHands
  <2> QED
    BY <2>1, <2>2, <1>1
<1>7. ASSUME NEW y \in Item
      PROVE  IF y = v
             THEN /\ p \in InHands(y) /\ y \in free' /\ Stored(y)' = Stored(y)
                  /\ InHands(y)' = InHands(y) \ {p}
             ELSE /\ Stored(y)' = Stored(y) /\ InHands(y)' = InHands(y)
                  /\ y \in free' <=> y \in free
  <2>1. Stored(y)' = Stored(y)
    BY <1>5, StoredSame
  <2>2. InHands(y)' \ {p} = InHands(y) \ {p}
    BY <1>4, <1>5, HandsSame
  <2>3. p \notin InHands(y)' /\ (p \in InHands(y) <=> y = v)
    BY <1>3, <1>4, <1>6 DEF InHands
  <2>4. y \in free' <=> y \in free \/ y = v
    BY <1>3, <1>4
  <2> QED
    BY <2>1, <2>2, <2>3, <2>4
<1> QED
  BY <1>7, PlacedMoves

LEMMA PlacedNext ==
    ASSUME PoolInv, Placed, [PoolNext]_poolVars
    PROVE  Placed'
<1>1. CASE \E item \in Item : PushHead(item)
  BY <1>1, PushHeadPlaced
<1>2. CASE PopHead
  <2>1. Producer \in Proc
    BY PoolTypes
  <2>2. /\ Others(Producer) /\ UNCHANGED rings /\ arg'[Producer] = arg[Producer] /\ free' = free
        /\ pc[Producer] \notin {"headslot", "tailslot"}
        /\ pc'[Producer] \notin {"headslot", "tailslot"}
    BY <1>2, <2>1, QuietSteps
  <2> QED
    BY <2>1, <2>2, PlacedQuiet
<1>3. ASSUME NEW p \in Proc, PopTail(p) \/ Step(p) PROVE Placed'
  <2>1. CASE \/ Publish(p) \/ LoadHeadTail(p) \/ LoadTyp(p) \/ LoadPrev(p) \/ PopTail(p)
             \/ LoadNext(p) \/ DropTail(p) \/ CutPrev(p)
             \/ (TakeHead(p) /\ hd' = hd) \/ (TakeTail(p) /\ tl' = tl)
    <3>1. /\ Others(p) /\ UNCHANGED rings /\ arg'[p] = arg[p] /\ free' = free
          /\ pc[p] \notin {"headslot", "tailslot"} /\ pc'[p] \notin {"headslot", "tailslot"}
      BY <2>1, QuietSteps
    <3> QED
      BY <3>1, PlacedQuiet
  <2>2. CASE WriteSlot(p) \/ AddHead(p)
    BY <2>2, WriteSlotPlaced, AddHeadPlaced
  <2>3. CASE (TakeHead(p) /\ hd' # hd) \/ (TakeTail(p) /\ tl' # tl)
    BY <2>3, TakeHeadPlaced, TakeTailPlaced
  <2>4. CASE ReadTailSlot(p) \/ ClearVal(p) \/ ClearTyp(p) \/ EmptyHeadSlot(p)
    BY <2>4, ReadTailSlotPlaced, ClearValPlaced, PoppedPlaced
  <2> QED
    BY <2>1, <2>2, <2>3, <2>4, <1>3 DEF Step
<1>4. CASE UNCHANGED poolVars
  <2>1. /\ hd' = hd /\ tl' = tl /\ val' = val /\ pc' = pc /\ deq' = deq /\ slot' = slot
        /\ arg' = arg /\ free' = free
    BY <1>4 DEF poolVars
  <2>2. \A i \in Elt : Window(i)' = Window(i)
    BY <2>1, SameWindow
  <2>3. \A item \in Item : Stored(item)' = Stored(item)
    BY <2>1, <2>2, StoredSame
  <2>4. \A item \in Item : InHands(item)' = InHands(item)
    BY <2>1 DEF InHands
  <2> QED
    BY <2>1, <2>3, <2>4 DEF Placed
<1> QED
  BY <1>1, <1>2, <1>3, <1>4 DEF PoolNext

(* An item that pushHead was given is in a dequeue that consumers can get   *)
(* to, or with one goroutine, until it is popped; and it is popped once.     *)
THEOREM PoolConserved == PoolSpec => []Conserved
<1>1. PoolInit => Placed
  <2> SUFFICES ASSUME PoolInit PROVE Placed
    OBVIOUS
  <2>1. PoolInv /\ \A i \in Elt : Drained(i)
    BY PoolInitInv DEF PoolInit, Drained
  <2>2. \A i \in Elt : Window(i) = {}
    BY <2>1, EntriesNat
  <2>3. \A item \in Item : Stored(item) = {}
    BY <2>2 DEF Stored
  <2>4. \A item \in Item : InHands(item) = {} /\ item \in free
    BY PoolQueueConstants DEF PoolInit, InHands
  <2> QED
    BY <2>3, <2>4 DEF Placed
<1>2. PoolInv /\ Placed /\ [PoolNext]_poolVars => Placed'
  BY PlacedNext
<1>3. PoolInv /\ Placed => Conserved
  BY PlacedConserved
<1> QED
  BY <1>1, <1>2, <1>3, PoolInitInv, PoolNextInv, PTL DEF PoolSpec
=============================================================================
