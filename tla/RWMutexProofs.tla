--------------------------- MODULE RWMutexProofs ---------------------------
(* Proofs about RWMutex, for any number of goroutines and for every value  *)
(* of rwmutexMaxReaders greater than it.                                   *)
EXTENDS RWMutex, SemaphoreProofs

(* The places of a goroutine that holds rw.w. *)
WPlaces == {"announce", "addwait", "wwait", "locked", "trycas", "unlockw", "wake"}

(* Where a goroutine may be in a semaphore call, and in which one. *)
LocalOf(p) ==
    /\ req[p].flag = FALSE
    /\ \/ Returned(p)
       \/ pc[p] = "rwait" /\ req[p].op \in {"acquire", "parked"} /\ req[p].addr = readerSem
       \/ pc[p] = "wwait" /\ req[p].op \in {"acquire", "parked"} /\ req[p].addr = writerSem
       \/ pc[p] = "rsignal" /\ req[p].op \in {"release", "dequeue", "ready"} /\ req[p].addr = writerSem
       \/ pc[p] = "wake" /\ req[p].op \in {"release", "dequeue", "ready"} /\ req[p].addr = readerSem
    /\ pc[p] \notin {"addwait", "wake"} => r[p] = 0
    /\ pc[p] \in WPlaces <=> w = p

Local == \A p \in Proc : LocalOf(p)

(* The three numbers of readers that the counters of the code stand for. *)
Counted == Cardinality(In({"rwait", "rlocked"}))
Inside == Cardinality(In({"rlocked", "rslow"}) \union (In({"rwait"}) \ Waiting))
Outside == Cardinality(Waiting)

Announced == w # Nil /\ pc[w] \in {"addwait", "wwait", "locked"}

Share == IF w # Nil /\ pc[w] = "wake" THEN r[w] ELSE 0

(* What the counters are while a writer excludes new readers ... *)
Excluding ==
    /\ readerCount = Counted - rwmutexMaxReaders
    /\ readerWait + r[w] = Inside + Permits(readerSem)
    /\ pc[w] = "addwait" => readerWait <= 0
    /\ pc[w] = "locked" => readerWait = 0
    /\ pc[w] = "wwait" /\ Returned(w) => readerWait = 0
    /\ Permits(writerSem) = IF pc[w] = "wwait" /\ ~Returned(w) /\ readerWait = 0 THEN 1 ELSE 0

(* ... and while none does. *)
Admitting ==
    /\ readerCount = Counted
    /\ readerWait = 0
    /\ In({"rslow"}) = {}
    /\ Permits(readerSem) + Share = Outside
    /\ Permits(writerSem) = 0

Balance == IF Announced THEN Excluding ELSE Admitting

IInv == TypeOK /\ SemInv /\ Local /\ Balance

-----------------------------------------------------------------------------
(* Whether a goroutine counts as one of the Counted, Inside, Outside. *)
IsCounted(p) == pc[p] \in {"rwait", "rlocked"}
IsInside(p) == pc[p] \in {"rlocked", "rslow"} \/ (pc[p] = "rwait" /\ Returned(p))
IsOutside(p) == pc[p] = "rwait" /\ ~Returned(p)

(* A step that only moves p changes the three numbers by p alone. *)
LEMMA OneMoves ==
    ASSUME NEW p \in Proc,
           \A x \in Proc : x # p => pc'[x] = pc[x] /\ (Returned(x)' <=> Returned(x))
    PROVE  /\ Counted \in Nat /\ Inside \in Nat /\ Outside \in Nat
           /\ Counted' \in Nat /\ Inside' \in Nat /\ Outside' \in Nat
           /\ Counted' = Counted + (IF IsCounted(p)' THEN 1 ELSE 0) - (IF IsCounted(p) THEN 1 ELSE 0)
           /\ Inside' = Inside + (IF IsInside(p)' THEN 1 ELSE 0) - (IF IsInside(p) THEN 1 ELSE 0)
           /\ Outside' = Outside + (IF IsOutside(p)' THEN 1 ELSE 0) - (IF IsOutside(p) THEN 1 ELSE 0)
<1>1. /\ Counted \in Nat /\ Counted' \in Nat
      /\ Counted' = Counted + (IF IsCounted(p)' THEN 1 ELSE 0) - (IF IsCounted(p) THEN 1 ELSE 0)
  <2> DEFINE S == In({"rwait", "rlocked"})
  <2>1. S \in SUBSET Proc /\ S' \in SUBSET Proc /\ S \ {p} = S' \ {p}
    BY DEF In
  <2>2. (p \in S <=> IsCounted(p)) /\ (p \in S' <=> IsCounted(p)')
    BY DEF In, IsCounted
  <2>3. Counted = Cardinality(S) /\ Counted' = Cardinality(S')
    BY DEF Counted
  <2> HIDE DEF S
  <2> QED
    BY <2>1, <2>2, <2>3, CountStep
<1>2. /\ Inside \in Nat /\ Inside' \in Nat
      /\ Inside' = Inside + (IF IsInside(p)' THEN 1 ELSE 0) - (IF IsInside(p) THEN 1 ELSE 0)
  <2> DEFINE S == In({"rlocked", "rslow"}) \union (In({"rwait"}) \ Waiting)
  <2>1. S \in SUBSET Proc /\ S' \in SUBSET Proc /\ S \ {p} = S' \ {p}
    BY DEF In, Waiting
  <2>2. (p \in S <=> IsInside(p)) /\ (p \in S' <=> IsInside(p)')
    BY DEF In, Waiting, IsInside
  <2>3. Inside = Cardinality(S) /\ Inside' = Cardinality(S')
    BY DEF Inside
  <2> HIDE DEF S
  <2> QED
    BY <2>1, <2>2, <2>3, CountStep
<1>3. /\ Outside \in Nat /\ Outside' \in Nat
      /\ Outside' = Outside + (IF IsOutside(p)' THEN 1 ELSE 0) - (IF IsOutside(p) THEN 1 ELSE 0)
  <2>1. Waiting \in SUBSET Proc /\ Waiting' \in SUBSET Proc /\ Waiting \ {p} = Waiting' \ {p}
    BY DEF In, Waiting
  <2>2. (p \in Waiting <=> IsOutside(p)) /\ (p \in Waiting' <=> IsOutside(p)')
    BY DEF In, Waiting, IsOutside
  <2> QED
    BY <2>1, <2>2, CountStep DEF Outside
<1> QED
  BY <1>1, <1>2, <1>3

(* The numbers of readers, and what they have to do with each other: a      *)
(* goroutine that is not counted leaves room below rwmutexMaxReaders.       *)
LEMMA ReaderNumbers ==
    /\ Counted \in Nat /\ Inside \in Nat /\ Outside \in Nat
    /\ Counted < rwmutexMaxReaders /\ rwmutexMaxReaders \in Nat
    /\ (\E p \in Proc : IsCounted(p)) => Counted >= 1
    /\ (\E p \in Proc : IsInside(p)) => Inside >= 1
    /\ (\E p \in Proc : ~IsCounted(p)) => Counted + 1 < rwmutexMaxReaders
    /\ In({"rslow"}) = {} => Counted = Inside + Outside
    /\ Inside = 0 => Counted = Outside /\ In({"rslow"}) = {}
<1> DEFINE S == In({"rwait", "rlocked"})
           T == In({"rlocked", "rslow"}) \union (In({"rwait"}) \ Waiting)
<1>1. S \in SUBSET Proc /\ T \in SUBSET Proc /\ Waiting \in SUBSET Proc
  BY DEF In, Waiting
<1>2. /\ IsFiniteSet(S) /\ IsFiniteSet(T) /\ IsFiniteSet(Waiting) /\ IsFiniteSet(Proc)
      /\ Cardinality(S) \in Nat /\ Cardinality(T) \in Nat /\ Cardinality(Waiting) \in Nat
      /\ Cardinality(Proc) \in Nat /\ Cardinality(S) <= Cardinality(Proc)
      /\ Cardinality(S) = Cardinality(Proc) => S = Proc
  BY <1>1, SemaphoreConstants, FS_Subset, FS_CardinalityType
<1>3. /\ Counted = Cardinality(S) /\ Inside = Cardinality(T) /\ Outside = Cardinality(Waiting)
  BY DEF Counted, Inside, Outside
<1>4. /\ \A p \in Proc : p \in S <=> IsCounted(p)
      /\ \A p \in Proc : p \in T <=> IsInside(p)
  BY DEF In, Waiting, IsCounted, IsInside
<1>5. In({"rslow"}) = {} => S = T \union Waiting /\ T \intersect Waiting = {}
  BY DEF In, Waiting
<1>6. T = {} => In({"rslow"}) = {}
  BY DEF In
<1> HIDE DEF S, T
<1>7. S # {} => Cardinality(S) >= 1
  BY <1>2, FS_EmptySet
<1>8. (T # {} => Cardinality(T) >= 1) /\ (T = {} <=> Cardinality(T) = 0)
  BY <1>2, FS_EmptySet
<1>9. Cardinality({}) = 0
  BY FS_EmptySet
<1>10. Cardinality(T \union Waiting)
         = Cardinality(T) + Cardinality(Waiting) - Cardinality(T \intersect Waiting)
  BY <1>2, FS_Union
<1>11. In({"rslow"}) = {} => Counted = Inside + Outside
  <2>1. In({"rslow"}) = {} =>
            /\ Cardinality(S) = Cardinality(T \union Waiting)
            /\ Cardinality(T \intersect Waiting) = 0
    BY <1>5, <1>9, Zenon
  <2> QED
    BY <2>1, <1>2, <1>3, <1>10
<1>12. rwmutexMaxReaders \in Nat /\ rwmutexMaxReaders > Cardinality(Proc)
  BY RWMutexConstants
<1>13. (\E p \in Proc : IsCounted(p)) => Counted >= 1
  BY <1>3, <1>4, <1>7
<1>14. (\E p \in Proc : IsInside(p)) => Inside >= 1
  BY <1>3, <1>4, <1>8
<1>15. (\E p \in Proc : ~IsCounted(p)) => Counted + 1 < rwmutexMaxReaders
  <2>1. (\E p \in Proc : ~IsCounted(p)) => Cardinality(S) # Cardinality(Proc)
    BY <1>2, <1>4
  <2> QED
    BY <2>1, <1>2, <1>3, <1>12
<1>16. Inside = 0 => Counted = Outside /\ In({"rslow"}) = {}
  BY <1>2, <1>3, <1>6, <1>8, <1>11
<1>17. Counted < rwmutexMaxReaders
  BY <1>2, <1>3, <1>12
<1> QED
  BY <1>2, <1>3, <1>11, <1>12, <1>13, <1>14, <1>15, <1>16, <1>17

(* The other goroutines keep their local facts when p moves; rw.w may pass  *)
(* between p and nobody.                                                    *)
LEMMA LocalStep ==
    ASSUME Local, NEW p \in Proc, LocalOf(p)',
           \A x \in Proc : x # p => pc'[x] = pc[x] /\ r'[x] = r[x] /\ req'[x] = req[x],
           w' = w \/ {w, w'} = {p, Nil}
    PROVE  Local'
<1> SUFFICES ASSUME NEW x \in Proc, x # p PROVE LocalOf(x)'
  BY DEF Local
<1>1. LocalOf(x)
  BY DEF Local
<1>2. pc'[x] = pc[x] /\ r'[x] = r[x] /\ req'[x] = req[x] /\ (w' = x <=> w = x)
  BY SemaphoreConstants
<1> QED
  BY <1>1, <1>2 DEF LocalOf, Returned

(* A step of a goroutine that does not hold rw.w: what the writer sees of   *)
(* itself stays the same.                                                   *)
LEMMA ReaderFrame ==
    ASSUME IInv, NEW p \in Proc, w # p, w' = w, r' = r,
           \A x \in Proc : x # p => pc'[x] = pc[x] /\ (Returned(x)' <=> Returned(x))
    PROVE  /\ Announced' <=> Announced
           /\ Announced => /\ w \in Proc /\ pc'[w] = pc[w]
                           /\ Returned(w)' <=> Returned(w)
           /\ Share' = Share
<1>1. w \in Proc \union {Nil}
  BY DEF IInv, TypeOK
<1>2. w # Nil => w \in Proc /\ pc'[w] = pc[w] /\ (Returned(w)' <=> Returned(w))
  BY <1>1
<1> QED
  BY <1>2 DEF Announced, Share

(* The types of what the counters are made of. *)
LEMMA Numbers ==
    ASSUME IInv
    PROVE  /\ readerCount \in Int /\ readerWait \in Int /\ rwmutexMaxReaders \in Nat
           /\ readerSem \in Addr /\ writerSem \in Addr /\ readerSem # writerSem
           /\ Permits(readerSem) \in Nat /\ Permits(writerSem) \in Nat
           /\ r \in [Proc -> Nat] /\ pc \in [Proc -> Places] /\ w \in Proc \union {Nil}
           /\ Share \in Nat /\ Nil \notin Proc
           /\ \A p \in Proc : LocalOf(p)
<1>1. /\ r \in [Proc -> Nat] /\ w \in Proc \union {Nil} /\ pc \in [Proc -> Places]
      /\ readerCount \in Int /\ readerWait \in Int
  BY DEF IInv, TypeOK
<1>2. readerSem \in Addr /\ writerSem \in Addr /\ readerSem # writerSem /\ rwmutexMaxReaders \in Nat
  BY RWMutexConstants
<1>3. Permits(readerSem) \in Nat /\ Permits(writerSem) \in Nat
  BY <1>2, PermitsFacts DEF IInv
<1>4. Share \in Nat
  BY <1>1 DEF Share
<1>5. \A p \in Proc : LocalOf(p)
  BY DEF IInv, Local
<1> QED
  BY <1>1, <1>2, <1>3, <1>4, <1>5, SemaphoreConstants

-----------------------------------------------------------------------------
(* Readers *)

LEMMA RLockInv ==
    ASSUME IInv, NEW p \in Proc, RLock(p)
    PROVE  IInv'
<1>0. /\ pc[p] = "idle" /\ LocalOf(p) /\ Returned(p) /\ w # p /\ r[p] = 0
      /\ pc \in [Proc -> Places]
  BY Numbers DEF RLock, At, LocalOf, WPlaces
<1>1. /\ w' = w /\ r' = r /\ readerWait' = readerWait /\ readerCount' = readerCount + 1
      /\ sem' = sem /\ queue' = queue
  BY DEF RLock
<1>2. \/ /\ readerCount' < 0 /\ pc' = [pc EXCEPT ![p] = "rwait"]
         /\ Semacquire(p, readerSem, FALSE)
      \/ /\ ~(readerCount' < 0) /\ pc' = [pc EXCEPT ![p] = "rlocked"] /\ req' = req
  BY DEF RLock, Goto
<1>3. /\ SemInv'
      /\ \A x \in Proc : x # p => req'[x] = req[x]
      /\ Permits(readerSem)' = Permits(readerSem) /\ Permits(writerSem)' = Permits(writerSem)
      /\ \/ /\ readerCount' < 0 /\ pc'[p] = "rwait" /\ req'[p].op = "acquire"
            /\ req'[p].addr = readerSem /\ req'[p].flag = FALSE
         \/ /\ ~(readerCount' < 0) /\ pc'[p] = "rlocked" /\ req'[p] = req[p]
  <2>1. CASE readerCount' < 0
    <3>1. SemInv'
      BY <2>1, <1>0, <1>1, <1>2, CallInv, Numbers DEF IInv
    <3> QED
      BY <3>1, <2>1, <1>0, <1>1, <1>2, AcquireCall, Numbers DEF IInv
  <2>2. CASE ~(readerCount' < 0)
    BY <2>2, <1>0, <1>1, <1>2, NoCall, Numbers DEF IInv, semVars
  <2> QED
    BY <2>1, <2>2
<1>4. /\ pc' \in [Proc -> Places] /\ \A x \in Proc : x # p => pc'[x] = pc[x]
  BY <1>0, <1>2 DEF Places
<1>5. TypeOK'
  BY <1>1, <1>3, <1>4, Numbers DEF TypeOK, SemInv
<1>6. Local'
  <2>1. LocalOf(p)'
    BY <1>0, <1>1, <1>3 DEF LocalOf, Returned, WPlaces
  <2> QED
    BY <2>1, <1>1, <1>3, <1>4, LocalStep DEF IInv
<1>7. \A x \in Proc : x # p => pc'[x] = pc[x] /\ (Returned(x)' <=> Returned(x))
  BY <1>3, <1>4 DEF Returned
<1>8. /\ ~IsCounted(p) /\ ~IsInside(p) /\ ~IsOutside(p) /\ IsCounted(p)'
      /\ \/ readerCount' < 0 /\ ~IsInside(p)' /\ IsOutside(p)'
         \/ ~(readerCount' < 0) /\ IsInside(p)' /\ ~IsOutside(p)'
  BY <1>0, <1>3 DEF IsCounted, IsInside, IsOutside, Returned
<1>9. /\ Counted \in Nat /\ Inside \in Nat /\ Outside \in Nat /\ Counted' = Counted + 1
      /\ \/ readerCount' < 0 /\ Inside' = Inside /\ Outside' = Outside + 1
         \/ ~(readerCount' < 0) /\ Inside' = Inside + 1 /\ Outside' = Outside
  BY <1>7, <1>8, OneMoves
<1>10. Counted + 1 < rwmutexMaxReaders
  BY <1>8, ReaderNumbers
<1>11. /\ Announced' <=> Announced
       /\ Announced => w \in Proc /\ pc'[w] = pc[w] /\ (Returned(w)' <=> Returned(w))
       /\ Share' = Share
  BY <1>0, <1>1, <1>7, ReaderFrame
<1>12. CASE Announced
  <2>1. Excluding
    BY <1>12 DEF IInv, Balance
  <2>2. readerCount' < 0
    BY <2>1, <1>1, <1>9, <1>10, Numbers DEF Excluding
  <2>3. Excluding'
    BY <2>1, <2>2, <1>1, <1>3, <1>9, <1>11, <1>12, Numbers DEF Excluding
  <2> QED
    BY <2>3, <1>3, <1>5, <1>6, <1>11, <1>12 DEF IInv, Balance
<1>13. CASE ~Announced
  <2>1. Admitting
    BY <1>13 DEF IInv, Balance
  <2>2. ~(readerCount' < 0)
    BY <2>1, <1>1, <1>9, Numbers DEF Admitting
  <2>3. In({"rslow"})' = {}
    BY <2>1, <2>2, <1>3, <1>4 DEF Admitting, In
  <2>4. Admitting'
    BY <2>1, <2>2, <2>3, <1>1, <1>3, <1>9, <1>11, Numbers DEF Admitting
  <2> QED
    BY <2>4, <1>3, <1>5, <1>6, <1>11, <1>13 DEF IInv, Balance
<1> QED
  BY <1>12, <1>13

(* A step that takes p elsewhere and makes no semaphore call. *)
LEMMA MoveFacts ==
    ASSUME IInv, NEW p \in Proc, NEW there \in Places,
           pc' = [pc EXCEPT ![p] = there], UNCHANGED semVars
    PROVE  /\ SemInv' /\ req' = req /\ pc' \in [Proc -> Places] /\ pc'[p] = there
           /\ Permits(readerSem)' = Permits(readerSem) /\ Permits(writerSem)' = Permits(writerSem)
           /\ \A x \in Proc : x # p => pc'[x] = pc[x]
           /\ \A x \in Proc : Returned(x)' <=> Returned(x)
<1>1. pc \in [Proc -> Places] /\ SemInv /\ readerSem \in Addr /\ writerSem \in Addr
  BY Numbers DEF IInv
<1> QED
  BY <1>1, NoCall

LEMMA RLockedInv ==
    ASSUME IInv, NEW p \in Proc, RLocked(p)
    PROVE  IInv'
<1>0. /\ pc[p] = "rwait" /\ LocalOf(p) /\ Returned(p) /\ w # p /\ r[p] = 0
  BY Numbers DEF RLocked, At, LocalOf, WPlaces
<1>1. /\ w' = w /\ r' = r /\ readerWait' = readerWait /\ readerCount' = readerCount
  BY DEF RLocked
<1>2. /\ SemInv' /\ req' = req /\ pc' \in [Proc -> Places] /\ pc'[p] = "rlocked"
      /\ Permits(readerSem)' = Permits(readerSem) /\ Permits(writerSem)' = Permits(writerSem)
      /\ \A x \in Proc : x # p => pc'[x] = pc[x]
      /\ \A x \in Proc : Returned(x)' <=> Returned(x)
  BY MoveFacts DEF RLocked, Goto, Places
<1>3. TypeOK'
  BY <1>1, <1>2, Numbers DEF TypeOK, SemInv
<1>4. Local'
  <2>1. LocalOf(p)'
    BY <1>0, <1>1, <1>2 DEF LocalOf, Returned, WPlaces
  <2> QED
    BY <2>1, <1>1, <1>2, LocalStep DEF IInv
<1>5. /\ IsCounted(p) /\ IsInside(p) /\ ~IsOutside(p)
      /\ IsCounted(p)' /\ IsInside(p)' /\ ~IsOutside(p)'
  BY <1>0, <1>2 DEF IsCounted, IsInside, IsOutside, Returned
<1>6. /\ Counted \in Nat /\ Inside \in Nat /\ Outside \in Nat
      /\ Counted' = Counted /\ Inside' = Inside /\ Outside' = Outside
  BY <1>2, <1>5, OneMoves
<1>7. /\ Announced' <=> Announced
      /\ Announced => w \in Proc /\ pc'[w] = pc[w] /\ (Returned(w)' <=> Returned(w))
      /\ Share' = Share
  BY <1>0, <1>1, <1>2, ReaderFrame
<1>8. Excluding /\ Announced => Excluding'
  BY <1>1, <1>2, <1>6, <1>7 DEF Excluding
<1>9. Admitting => Admitting'
  <2>1. In({"rslow"}) = {} => In({"rslow"})' = {}
    BY <1>2 DEF In
  <2> QED
    BY <2>1, <1>1, <1>2, <1>6, <1>7 DEF Admitting
<1> QED
  BY <1>2, <1>3, <1>4, <1>7, <1>8, <1>9 DEF IInv, Balance

LEMMA TryRLockInv ==
    ASSUME IInv, NEW p \in Proc, TryRLock(p)
    PROVE  IInv'
<1>0. /\ pc[p] = "idle" /\ LocalOf(p) /\ Returned(p) /\ w # p /\ r[p] = 0
  BY Numbers DEF TryRLock, At, LocalOf, WPlaces
<1>1. /\ w' = w /\ r' = r /\ readerWait' = readerWait /\ readerCount' = readerCount + 1
      /\ readerCount >= 0
  BY DEF TryRLock
<1>2. /\ SemInv' /\ req' = req /\ pc' \in [Proc -> Places] /\ pc'[p] = "rlocked"
      /\ Permits(readerSem)' = Permits(readerSem) /\ Permits(writerSem)' = Permits(writerSem)
      /\ \A x \in Proc : x # p => pc'[x] = pc[x]
      /\ \A x \in Proc : Returned(x)' <=> Returned(x)
  BY MoveFacts DEF TryRLock, Goto, Places
<1>3. TypeOK'
  BY <1>1, <1>2, Numbers DEF TypeOK, SemInv
<1>4. Local'
  <2>1. LocalOf(p)'
    BY <1>0, <1>1, <1>2 DEF LocalOf, Returned, WPlaces
  <2> QED
    BY <2>1, <1>1, <1>2, LocalStep DEF IInv
<1>5. /\ ~IsCounted(p) /\ ~IsInside(p) /\ ~IsOutside(p)
      /\ IsCounted(p)' /\ IsInside(p)' /\ ~IsOutside(p)'
  BY <1>0, <1>2 DEF IsCounted, IsInside, IsOutside, Returned
<1>6. /\ Counted \in Nat /\ Inside \in Nat /\ Outside \in Nat
      /\ Counted' = Counted + 1 /\ Inside' = Inside + 1 /\ Outside' = Outside
  BY <1>2, <1>5, OneMoves
<1>7. (Announced' <=> Announced) /\ Share' = Share
  BY <1>0, <1>1, <1>2, ReaderFrame
<1>8. ~Announced
  <2>1. Announced => readerCount = Counted - rwmutexMaxReaders
    BY DEF IInv, Balance, Excluding
  <2>2. Counted < rwmutexMaxReaders /\ rwmutexMaxReaders \in Nat
    BY ReaderNumbers
  <2> QED
    BY <2>1, <2>2, <1>1, <1>6
<1>9. Admitting => Admitting'
  <2>1. In({"rslow"}) = {} => In({"rslow"})' = {}
    BY <1>2 DEF In
  <2> QED
    BY <2>1, <1>1, <1>2, <1>6, <1>7 DEF Admitting
<1> QED
  BY <1>2, <1>3, <1>4, <1>7, <1>8, <1>9 DEF IInv, Balance

LEMMA RUnlockInv ==
    ASSUME IInv, NEW p \in Proc, RUnlock(p)
    PROVE  IInv'
<1>0. /\ pc[p] = "rlocked" /\ LocalOf(p) /\ Returned(p) /\ w # p /\ r[p] = 0
      /\ IsCounted(p) /\ IsInside(p)
  BY Numbers DEF RUnlock, At, LocalOf, WPlaces, IsCounted, IsInside
<1>1. /\ w' = w /\ r' = r /\ readerWait' = readerWait /\ readerCount' = readerCount - 1
      /\ pc' = [pc EXCEPT ![p] = IF readerCount' >= 0 THEN "idle"
                                 ELSE IF readerCount \in {0, -rwmutexMaxReaders} THEN "throw"
                                 ELSE "rslow"]
      /\ UNCHANGED semVars
  BY DEF RUnlock, Goto
<1>2. /\ Counted >= 1 /\ Counted < rwmutexMaxReaders /\ Counted \in Nat
      /\ rwmutexMaxReaders \in Nat
  BY <1>0, ReaderNumbers
<1>3. /\ Announced => readerCount = Counted - rwmutexMaxReaders
      /\ ~Announced => readerCount = Counted
  BY DEF IInv, Balance, Excluding, Admitting
<1>4. pc' = [pc EXCEPT ![p] = IF Announced THEN "rslow" ELSE "idle"]
  <2>1. CASE Announced
    <3>1. readerCount' < 0 /\ readerCount # 0 /\ readerCount # -rwmutexMaxReaders
      BY <2>1, <1>1, <1>2, <1>3
    <3>2. ~(readerCount' >= 0)
      BY <3>1, <1>1, Numbers
    <3> QED
      BY <3>1, <3>2, <2>1, <1>1
  <2>2. CASE ~Announced
    BY <2>2, <1>1, <1>2, <1>3
  <2> QED
    BY <2>1, <2>2
<1>5. PICK there \in Places : /\ pc' = [pc EXCEPT ![p] = there]
                              /\ Announced => there = "rslow"
                              /\ ~Announced => there = "idle"
  BY <1>4 DEF Places
<1>6. /\ SemInv' /\ req' = req /\ pc' \in [Proc -> Places] /\ pc'[p] = there
      /\ Permits(readerSem)' = Permits(readerSem) /\ Permits(writerSem)' = Permits(writerSem)
      /\ \A x \in Proc : x # p => pc'[x] = pc[x]
      /\ \A x \in Proc : Returned(x)' <=> Returned(x)
  BY <1>1, <1>5, MoveFacts
<1>7. TypeOK'
  BY <1>1, <1>6, Numbers DEF TypeOK, SemInv
<1>8. Local'
  <2>1. LocalOf(p)'
    BY <1>0, <1>1, <1>5, <1>6 DEF LocalOf, Returned, WPlaces
  <2> QED
    BY <2>1, <1>1, <1>6, LocalStep DEF IInv
<1>9. /\ ~IsOutside(p) /\ ~IsCounted(p)' /\ ~IsOutside(p)'
      /\ IsInside(p)' <=> Announced
  BY <1>0, <1>5, <1>6 DEF IsCounted, IsInside, IsOutside, Returned
<1>10. /\ Inside \in Nat /\ Outside \in Nat
       /\ Counted' = Counted - 1 /\ Outside' = Outside
       /\ Inside' = IF Announced THEN Inside ELSE Inside - 1
  BY <1>0, <1>2, <1>6, <1>9, OneMoves
<1>11. /\ Announced' <=> Announced
       /\ Announced => w \in Proc /\ pc'[w] = pc[w] /\ (Returned(w)' <=> Returned(w))
       /\ Share' = Share
  BY <1>0, <1>1, <1>6, ReaderFrame
<1>12. Announced /\ Excluding => Excluding'
  BY <1>1, <1>2, <1>6, <1>10, <1>11, Numbers DEF Excluding
<1>13. ~Announced /\ Admitting => Admitting'
  <2>1. ~Announced /\ In({"rslow"}) = {} => In({"rslow"})' = {}
    BY <1>5, <1>6 DEF In
  <2> QED
    BY <2>1, <1>1, <1>2, <1>6, <1>10, <1>11, Numbers DEF Admitting
<1> QED
  BY <1>6, <1>7, <1>8, <1>11, <1>12, <1>13 DEF IInv, Balance

LEMMA RUnlockSlowInv ==
    ASSUME IInv, NEW p \in Proc, RUnlockSlow(p)
    PROVE  IInv'
<1>0. /\ pc[p] = "rslow" /\ LocalOf(p) /\ Returned(p) /\ w # p /\ r[p] = 0
      /\ pc \in [Proc -> Places] /\ IsInside(p) /\ ~IsCounted(p) /\ ~IsOutside(p)
  BY Numbers DEF RUnlockSlow, At, LocalOf, WPlaces, IsInside, IsCounted, IsOutside
<1>1. /\ w' = w /\ r' = r /\ readerCount' = readerCount /\ readerWait' = readerWait - 1
      /\ sem' = sem /\ queue' = queue
  BY DEF RUnlockSlow
<1>2. \/ /\ readerWait' = 0 /\ pc' = [pc EXCEPT ![p] = "rsignal"]
         /\ Semrelease(p, writerSem, FALSE)
      \/ /\ readerWait' # 0 /\ pc' = [pc EXCEPT ![p] = "idle"] /\ req' = req
  BY DEF RUnlockSlow, Goto
<1>3. /\ SemInv'
      /\ \A x \in Proc : x # p => req'[x] = req[x]
      /\ Permits(readerSem)' = Permits(readerSem)
      /\ \/ /\ readerWait' = 0 /\ pc'[p] = "rsignal" /\ req'[p].op = "release"
            /\ req'[p].addr = writerSem /\ req'[p].flag = FALSE
            /\ Permits(writerSem)' = Permits(writerSem) + 1
         \/ /\ readerWait' # 0 /\ pc'[p] = "idle" /\ req'[p] = req[p]
            /\ Permits(writerSem)' = Permits(writerSem)
  <2>1. CASE readerWait' = 0
    <3>1. SemInv'
      BY <2>1, <1>0, <1>1, <1>2, CallInv, Numbers DEF IInv
    <3> QED
      <4>1. SemInv /\ readerSem \in Addr /\ writerSem \in Addr /\ readerSem # writerSem
        BY Numbers DEF IInv
      <4>2. Semrelease(p, writerSem, FALSE) /\ pc'[p] = "rsignal"
        BY <2>1, <1>0, <1>2
      <4>3. /\ req'[p].op = "release" /\ req'[p].addr = writerSem /\ req'[p].flag = FALSE
            /\ \A x \in Proc : x # p => req'[x] = req[x]
            /\ Permits(writerSem)' = Permits(writerSem) + 1
            /\ Permits(readerSem)' = Permits(readerSem)
        BY <4>1, <4>2, <1>0, <1>1, ReleaseCall
      <4> QED
        BY <4>2, <4>3, <3>1, <2>1
  <2>2. CASE readerWait' # 0
    BY <2>2, <1>0, <1>1, <1>2, NoCall, Numbers DEF IInv, semVars
  <2> QED
    BY <2>1, <2>2
<1>4. /\ pc' \in [Proc -> Places] /\ \A x \in Proc : x # p => pc'[x] = pc[x]
  BY <1>0, <1>2 DEF Places
<1>5. TypeOK'
  BY <1>1, <1>3, <1>4, Numbers DEF TypeOK, SemInv
<1>6. Local'
  <2>1. LocalOf(p)'
    BY <1>0, <1>1, <1>3 DEF LocalOf, Returned, WPlaces
  <2> QED
    BY <2>1, <1>1, <1>3, <1>4, LocalStep DEF IInv
<1>7. \A x \in Proc : x # p => pc'[x] = pc[x] /\ (Returned(x)' <=> Returned(x))
  BY <1>3, <1>4 DEF Returned
<1>8. ~IsCounted(p)' /\ ~IsInside(p)' /\ ~IsOutside(p)'
  BY <1>3 DEF IsCounted, IsInside, IsOutside
<1>9. /\ Counted \in Nat /\ Inside \in Nat /\ Outside \in Nat
      /\ Counted' = Counted /\ Inside' = Inside - 1 /\ Outside' = Outside
  BY <1>0, <1>7, <1>8, OneMoves
<1>10. Inside >= 1
  BY <1>0, ReaderNumbers
<1>11. /\ Announced' <=> Announced
       /\ Announced => w \in Proc /\ pc'[w] = pc[w] /\ (Returned(w)' <=> Returned(w))
  BY <1>0, <1>1, <1>7, ReaderFrame
(* A reader on its way out is one that a writer waits for: one that has     *)
(* announced itself and is not yet let in.                                  *)
<1>12. Announced /\ Excluding
  <2>1. ~Announced => p \notin In({"rslow"})
    BY DEF IInv, Balance, Admitting
  <2> QED
    BY <2>1, <1>0 DEF IInv, Balance, In
<1>13. \/ pc[w] = "addwait" /\ readerWait <= 0
       \/ pc[w] = "wwait" /\ ~Returned(w) /\ r[w] = 0 /\ readerWait > 0
  <2>1. pc[w] # "addwait" => r[w] = 0
    <3>1. LocalOf(w) /\ pc[w] # "wake"
      BY <1>11, <1>12, Numbers DEF Announced
    <3> QED
      BY <3>1 DEF LocalOf
  <2>2. pc[w] # "addwait" => readerWait > 0
    BY <2>1, <1>9, <1>10, <1>12, Numbers DEF Excluding
  <2> QED
    BY <2>1, <2>2, <1>12, Numbers DEF Excluding, Announced
<1>14. Excluding'
  <2>1. w \in Proc /\ r[w] \in Nat /\ r'[w'] = r[w]
    BY <1>1, <1>11, <1>12, Numbers
  <2>2. CASE pc[w] = "addwait" /\ readerWait <= 0
    <3>1. readerWait' # 0
      BY <2>2, <1>1, Numbers
    <3> QED
      BY <3>1, <2>1, <2>2, <1>1, <1>3, <1>9, <1>11, <1>12, Numbers DEF Excluding
  <2>3. CASE pc[w] = "wwait" /\ ~Returned(w) /\ r[w] = 0 /\ readerWait > 0
    BY <2>1, <2>3, <1>1, <1>3, <1>9, <1>11, <1>12, Numbers DEF Excluding
  <2> QED
    BY <2>2, <2>3, <1>13
<1> QED
  BY <1>3, <1>5, <1>6, <1>11, <1>12, <1>14 DEF IInv, Balance

(* A goroutine that is no reader and does not hold rw.w goes on. *)
LEMMA BystanderInv ==
    ASSUME IInv, NEW p \in Proc, NEW there \in Places,
           pc[p] \in {"idle", "rsignal"}, there \in {"idle", "lockw"}, Returned(p),
           pc' = [pc EXCEPT ![p] = there],
           UNCHANGED <<w, readerCount, readerWait, r, semVars>>
    PROVE  IInv'
<1>0. LocalOf(p) /\ w # p /\ r[p] = 0
  BY Numbers DEF LocalOf, WPlaces
<1>1. w' = w /\ r' = r /\ readerWait' = readerWait /\ readerCount' = readerCount
  OBVIOUS
<1>2. /\ SemInv' /\ req' = req /\ pc' \in [Proc -> Places] /\ pc'[p] = there
      /\ Permits(readerSem)' = Permits(readerSem) /\ Permits(writerSem)' = Permits(writerSem)
      /\ \A x \in Proc : x # p => pc'[x] = pc[x]
      /\ \A x \in Proc : Returned(x)' <=> Returned(x)
  BY MoveFacts
<1>3. TypeOK'
  BY <1>1, <1>2, Numbers DEF TypeOK, SemInv
<1>4. Local'
  <2>1. LocalOf(p)'
    BY <1>0, <1>1, <1>2 DEF LocalOf, Returned, WPlaces
  <2> QED
    BY <2>1, <1>1, <1>2, LocalStep DEF IInv
<1>5. /\ ~IsCounted(p) /\ ~IsInside(p) /\ ~IsOutside(p)
      /\ ~IsCounted(p)' /\ ~IsInside(p)' /\ ~IsOutside(p)'
  BY <1>2 DEF IsCounted, IsInside, IsOutside
<1>6. /\ Counted \in Nat /\ Inside \in Nat /\ Outside \in Nat
      /\ Counted' = Counted /\ Inside' = Inside /\ Outside' = Outside
  BY <1>2, <1>5, OneMoves
<1>7. /\ Announced' <=> Announced
      /\ Announced => w \in Proc /\ pc'[w] = pc[w] /\ (Returned(w)' <=> Returned(w))
      /\ Share' = Share
  BY <1>0, <1>1, <1>2, ReaderFrame
<1>8. Excluding /\ Announced => Excluding'
  BY <1>1, <1>2, <1>6, <1>7 DEF Excluding
<1>9. Admitting => Admitting'
  <2>1. In({"rslow"}) = {} => In({"rslow"})' = {}
    BY <1>2 DEF In
  <2> QED
    BY <2>1, <1>1, <1>2, <1>6, <1>7 DEF Admitting
<1> QED
  BY <1>2, <1>3, <1>4, <1>7, <1>8, <1>9 DEF IInv, Balance

LEMMA RSignalledInv ==
    ASSUME IInv, NEW p \in Proc, RSignalled(p)
    PROVE  IInv'
  BY BystanderInv DEF RSignalled, At, Goto, Places

-----------------------------------------------------------------------------
(* Writers *)

LEMMA LockInv ==
    ASSUME IInv, NEW p \in Proc, Lock(p)
    PROVE  IInv'
<1>1. Returned(p)
  BY Numbers DEF Lock, At, LocalOf
<1> QED
  BY <1>1, BystanderInv DEF Lock, At, Goto, Places

(* A goroutine that is no reader gets rw.w or gives it back, while no       *)
(* writer excludes readers.                                                 *)
LEMMA HandInv ==
    ASSUME IInv, NEW p \in Proc, NEW there \in Places, ~Announced,
           \/ /\ pc[p] \in {"idle", "lockw"} /\ there \in {"announce", "trycas"}
              /\ w = Nil /\ w' = p
           \/ /\ pc[p] = "wake" \/ pc[p] = "unlockw"
              /\ r[p] = 0 /\ there = "idle" /\ w = p /\ w' = Nil,
           Returned(p), pc' = [pc EXCEPT ![p] = there],
           UNCHANGED <<readerCount, readerWait, r, semVars>>
    PROVE  IInv'
<1>0. LocalOf(p) /\ r[p] = 0 /\ p # Nil
  BY Numbers DEF LocalOf, WPlaces
<1>1. r' = r /\ readerWait' = readerWait /\ readerCount' = readerCount /\ {w, w'} = {p, Nil}
  OBVIOUS
<1>2. /\ SemInv' /\ req' = req /\ pc' \in [Proc -> Places] /\ pc'[p] = there
      /\ Permits(readerSem)' = Permits(readerSem) /\ Permits(writerSem)' = Permits(writerSem)
      /\ \A x \in Proc : x # p => pc'[x] = pc[x]
      /\ \A x \in Proc : Returned(x)' <=> Returned(x)
  BY MoveFacts
<1>3. TypeOK'
  BY <1>1, <1>2, Numbers DEF TypeOK, SemInv
<1>4. Local'
  <2>1. LocalOf(p)'
    BY <1>0, <1>1, <1>2 DEF LocalOf, Returned, WPlaces
  <2> QED
    BY <2>1, <1>1, <1>2, LocalStep DEF IInv
<1>5. /\ ~IsCounted(p) /\ ~IsInside(p) /\ ~IsOutside(p)
      /\ ~IsCounted(p)' /\ ~IsInside(p)' /\ ~IsOutside(p)'
  BY <1>2 DEF IsCounted, IsInside, IsOutside
<1>6. /\ Counted \in Nat /\ Inside \in Nat /\ Outside \in Nat
      /\ Counted' = Counted /\ Inside' = Inside /\ Outside' = Outside
  BY <1>2, <1>5, OneMoves
<1>7. ~Announced' /\ Share' = 0 /\ Share = 0
  BY <1>0, <1>1, <1>2 DEF Announced, Share
<1>8. Admitting => Admitting'
  <2>1. In({"rslow"}) = {} => In({"rslow"})' = {}
    BY <1>2 DEF In
  <2> QED
    BY <2>1, <1>1, <1>2, <1>6, <1>7 DEF Admitting
<1> QED
  BY <1>2, <1>3, <1>4, <1>7, <1>8 DEF IInv, Balance

LEMMA LockWInv ==
    ASSUME IInv, NEW p \in Proc, LockW(p)
    PROVE  IInv'
<1>1. Returned(p) /\ ~Announced
  BY Numbers DEF LockW, At, LocalOf, Announced
<1> QED
  BY <1>1, HandInv DEF LockW, At, Goto, Places

LEMMA TryLockInv ==
    ASSUME IInv, NEW p \in Proc, TryLock(p)
    PROVE  IInv'
<1>1. Returned(p) /\ ~Announced
  BY Numbers DEF TryLock, At, LocalOf, Announced
<1> QED
  BY <1>1, HandInv DEF TryLock, At, Goto, Places

LEMMA UnlockWInv ==
    ASSUME IInv, NEW p \in Proc, UnlockW(p)
    PROVE  IInv'
<1>1. LocalOf(p)
  BY Numbers
<1>2. Returned(p) /\ r[p] = 0 /\ w = p /\ (pc[p] = "wake" \/ pc[p] = "unlockw")
  BY <1>1 DEF UnlockW, At, LocalOf, WPlaces
<1>3. ~Announced
  BY <1>2 DEF Announced
<1> QED
  BY <1>2, <1>3, HandInv DEF UnlockW, Goto, Places

(* What a writer's step starts from: it holds rw.w. *)
LEMMA WriterFacts ==
    ASSUME IInv, NEW p \in Proc, pc[p] \in WPlaces
    PROVE  /\ w = p /\ p # Nil /\ r[p] \in Nat /\ req[p].flag = FALSE
           /\ pc[p] \notin {"addwait", "wake"} => r[p] = 0
           /\ pc[p] \notin {"wwait", "wake"} => Returned(p)
           /\ ~IsCounted(p) /\ ~IsInside(p) /\ ~IsOutside(p)
           /\ pc[p] \in {"addwait", "wwait", "locked"} => Excluding
           /\ pc[p] \notin {"addwait", "wwait", "locked"} => Admitting
<1>1. LocalOf(p) /\ p # Nil /\ r[p] \in Nat
  BY Numbers
<1>2. w = p
  BY <1>1 DEF LocalOf
<1>3. Announced <=> pc[p] \in {"addwait", "wwait", "locked"}
  BY <1>1, <1>2 DEF Announced
<1>4. ~IsCounted(p) /\ ~IsInside(p) /\ ~IsOutside(p)
  BY DEF IsCounted, IsInside, IsOutside, WPlaces
<1>5. /\ req[p].flag = FALSE
      /\ pc[p] \notin {"addwait", "wake"} => r[p] = 0
      /\ pc[p] \notin {"wwait", "wake"} => Returned(p)
  BY <1>1 DEF LocalOf, WPlaces
<1> QED
  BY <1>1, <1>2, <1>3, <1>4, <1>5 DEF IInv, Balance

(* A writer moves without a semaphore call and keeps rw.w. *)
LEMMA WriterMove ==
    ASSUME IInv, NEW p \in Proc, pc[p] \in WPlaces, NEW there \in WPlaces, Returned(p),
           pc' = [pc EXCEPT ![p] = there], w' = w, UNCHANGED semVars,
           r' \in [Proc -> Nat], \A x \in Proc : x # p => r'[x] = r[x],
           there \notin {"addwait", "wake"} => r'[p] = 0,
           readerCount' \in Int, readerWait' \in Int
    PROVE  /\ SemInv' /\ TypeOK' /\ Local'
           /\ w' = p /\ pc'[p] = there /\ req' = req /\ Returned(p)'
           /\ Permits(readerSem)' = Permits(readerSem) /\ Permits(writerSem)' = Permits(writerSem)
           /\ Counted' = Counted /\ Inside' = Inside /\ Outside' = Outside
           /\ In({"rslow"})' = In({"rslow"})
           /\ Announced' <=> there \in {"addwait", "wwait", "locked"}
           /\ Share' = IF there = "wake" THEN r'[p] ELSE 0
<1>1. /\ w = p /\ p # Nil /\ req[p].flag = FALSE
      /\ ~IsCounted(p) /\ ~IsInside(p) /\ ~IsOutside(p)
  BY WriterFacts
<1>2. there \in Places
  BY DEF Places, WPlaces
<1>3. /\ SemInv' /\ req' = req /\ pc' \in [Proc -> Places] /\ pc'[p] = there
      /\ Permits(readerSem)' = Permits(readerSem) /\ Permits(writerSem)' = Permits(writerSem)
      /\ \A x \in Proc : x # p => pc'[x] = pc[x]
      /\ \A x \in Proc : Returned(x)' <=> Returned(x)
  BY <1>2, MoveFacts
<1>4. TypeOK'
  BY <1>3, Numbers DEF TypeOK, SemInv
<1>5. Local'
  <2>1. LocalOf(p)'
    BY <1>1, <1>3 DEF LocalOf, Returned
  <2> QED
    BY <2>1, <1>3, LocalStep DEF IInv
<1>6. ~IsCounted(p)' /\ ~IsInside(p)' /\ ~IsOutside(p)'
  BY <1>3 DEF IsCounted, IsInside, IsOutside, WPlaces
<1>7. Counted' = Counted /\ Inside' = Inside /\ Outside' = Outside
  BY <1>1, <1>3, <1>6, OneMoves
<1>8. In({"rslow"})' = In({"rslow"})
  BY <1>3 DEF In, WPlaces
<1>9. /\ Announced' <=> there \in {"addwait", "wwait", "locked"}
      /\ Share' = IF there = "wake" THEN r'[p] ELSE 0
  BY <1>1, <1>3 DEF Announced, Share
<1> QED
  BY <1>1, <1>3, <1>4, <1>5, <1>7, <1>8, <1>9

LEMMA AnnounceInv ==
    ASSUME IInv, NEW p \in Proc, Announce(p)
    PROVE  IInv'
<1>0. /\ pc[p] = "announce" /\ w = p /\ p # Nil /\ r[p] = 0 /\ Returned(p) /\ Admitting
  BY WriterFacts DEF Announce, At, WPlaces
<1>1. /\ w' = w /\ readerWait' = readerWait /\ readerCount' = readerCount - rwmutexMaxReaders
      /\ r' = [r EXCEPT ![p] = readerCount] /\ UNCHANGED semVars
  BY DEF Announce
<1>2. PICK there \in WPlaces : /\ pc' = [pc EXCEPT ![p] = there]
                               /\ readerCount = 0 => there = "locked"
                               /\ readerCount # 0 => there = "addwait"
  BY DEF Announce, Goto, WPlaces
<1>3. /\ Counted \in Nat /\ Inside \in Nat /\ Outside \in Nat
      /\ readerCount = Counted /\ readerWait = 0 /\ Counted = Inside + Outside
      /\ Permits(readerSem) = Outside /\ Permits(writerSem) = 0
  <2>1. Share = 0
    BY <1>0 DEF Share
  <2> QED
    BY <2>1, <1>0, ReaderNumbers, Numbers DEF Admitting
<1>4. /\ r' \in [Proc -> Nat] /\ r'[p] = readerCount /\ \A x \in Proc : x # p => r'[x] = r[x]
  BY <1>1, <1>3, Numbers
<1>5. readerCount' \in Int /\ readerWait' \in Int
  BY <1>1, Numbers
<1>6. there \notin {"addwait", "wake"} => r'[p] = 0
  BY <1>2, <1>4
<1>7. /\ SemInv' /\ TypeOK' /\ Local' /\ w' = p /\ pc'[p] = there
      /\ Permits(readerSem)' = Permits(readerSem) /\ Permits(writerSem)' = Permits(writerSem)
      /\ Counted' = Counted /\ Inside' = Inside /\ Outside' = Outside
      /\ Announced' <=> there \in {"addwait", "wwait", "locked"}
  BY <1>0, <1>1, <1>2, <1>4, <1>5, <1>6, WriterMove DEF WPlaces
<1>8. Announced'
  BY <1>2, <1>7
<1>9. Excluding'
  BY <1>1, <1>2, <1>3, <1>4, <1>7, Numbers DEF Excluding
<1> QED
  BY <1>7, <1>8, <1>9 DEF IInv, Balance

LEMMA AddWaitInv ==
    ASSUME IInv, NEW p \in Proc, AddWait(p)
    PROVE  IInv'
<1>0. /\ pc[p] = "addwait" /\ w = p /\ p # Nil /\ r[p] \in Nat /\ Returned(p) /\ Excluding
      /\ req[p].flag = FALSE /\ ~IsCounted(p) /\ ~IsInside(p) /\ ~IsOutside(p)
  BY WriterFacts DEF AddWait, At, WPlaces
<1>1. /\ w' = w /\ readerWait' = readerWait + r[p] /\ readerCount' = readerCount
      /\ r' = [r EXCEPT ![p] = 0] /\ sem' = sem /\ queue' = queue
  BY DEF AddWait
<1>2. \/ /\ readerWait' # 0 /\ pc' = [pc EXCEPT ![p] = "wwait"]
         /\ Semacquire(p, writerSem, FALSE)
      \/ /\ readerWait' = 0 /\ pc' = [pc EXCEPT ![p] = "locked"] /\ req' = req
  BY DEF AddWait, Goto
<1>3. /\ SemInv'
      /\ \A x \in Proc : x # p => req'[x] = req[x]
      /\ Permits(readerSem)' = Permits(readerSem) /\ Permits(writerSem)' = Permits(writerSem)
      /\ \/ /\ readerWait' # 0 /\ pc'[p] = "wwait" /\ req'[p].op = "acquire"
            /\ req'[p].addr = writerSem /\ req'[p].flag = FALSE
         \/ /\ readerWait' = 0 /\ pc'[p] = "locked" /\ req'[p] = req[p]
  <2>1. CASE readerWait' # 0
    <3>1. SemInv'
      BY <2>1, <1>0, <1>1, <1>2, CallInv, Numbers DEF IInv
    <3> QED
      BY <3>1, <2>1, <1>0, <1>1, <1>2, AcquireCall, Numbers DEF IInv
  <2>2. CASE readerWait' = 0
    BY <2>2, <1>0, <1>1, <1>2, NoCall, Numbers DEF IInv, semVars
  <2> QED
    BY <2>1, <2>2
<1>4. /\ pc' \in [Proc -> Places] /\ \A x \in Proc : x # p => pc'[x] = pc[x]
      /\ r' \in [Proc -> Nat] /\ r'[p] = 0 /\ \A x \in Proc : x # p => r'[x] = r[x]
  BY <1>1, <1>2, Numbers DEF Places
<1>5. TypeOK'
  BY <1>0, <1>1, <1>3, <1>4, Numbers DEF TypeOK, SemInv
<1>6. Local'
  <2>1. LocalOf(p)'
    BY <1>0, <1>1, <1>3, <1>4 DEF LocalOf, Returned, WPlaces
  <2> QED
    BY <2>1, <1>1, <1>3, <1>4, LocalStep DEF IInv
<1>7. \A x \in Proc : x # p => pc'[x] = pc[x] /\ (Returned(x)' <=> Returned(x))
  BY <1>3, <1>4 DEF Returned
<1>8. ~IsCounted(p)' /\ ~IsInside(p)' /\ ~IsOutside(p)'
  BY <1>3 DEF IsCounted, IsInside, IsOutside
<1>9. Counted' = Counted /\ Inside' = Inside /\ Inside \in Nat /\ Counted \in Nat
  BY <1>0, <1>7, <1>8, OneMoves
<1>10. Announced'
  <2>1. w' = p /\ p # Nil /\ pc'[p] \in {"wwait", "locked"}
    BY <1>0, <1>1, <1>3
  <2> QED
    BY <2>1 DEF Announced
<1>11. Excluding'
  <2>1. w' = p /\ w = p
    BY <1>0, <1>1
  <2>2. pc'[p] = "wwait" => readerWait' # 0 /\ req'[p].op # "none"
    BY <1>3
  <2>3. /\ readerCount' = Counted' - rwmutexMaxReaders
        /\ readerWait' + r'[p] = Inside' + Permits(readerSem)'
        /\ Permits(writerSem)' = 0
    BY <2>1, <1>0, <1>1, <1>3, <1>4, <1>9, Numbers DEF Excluding
  <2> QED
    BY <2>1, <2>2, <2>3, <1>3 DEF Excluding, Returned
<1> QED
  BY <1>3, <1>5, <1>6, <1>10, <1>11 DEF IInv, Balance

LEMMA LockedInv ==
    ASSUME IInv, NEW p \in Proc, Locked(p)
    PROVE  IInv'
<1>0. /\ pc[p] = "wwait" /\ w = p /\ p # Nil /\ r[p] = 0 /\ Returned(p) /\ Excluding
  BY WriterFacts DEF Locked, At, WPlaces
<1>1. /\ w' = w /\ readerWait' = readerWait /\ readerCount' = readerCount /\ r' = r
      /\ UNCHANGED semVars /\ pc' = [pc EXCEPT ![p] = "locked"]
  BY DEF Locked, Goto
<1>2. /\ SemInv' /\ TypeOK' /\ Local' /\ w' = p /\ pc'[p] = "locked" /\ Announced'
      /\ Permits(readerSem)' = Permits(readerSem) /\ Permits(writerSem)' = Permits(writerSem)
      /\ Counted' = Counted /\ Inside' = Inside /\ Outside' = Outside
  BY <1>0, <1>1, WriterMove, Numbers DEF WPlaces
<1>3. Excluding'
  BY <1>0, <1>1, <1>2, Numbers DEF Excluding
<1> QED
  BY <1>2, <1>3 DEF IInv, Balance

LEMMA TryLockCASInv ==
    ASSUME IInv, NEW p \in Proc, TryLockCAS(p)
    PROVE  IInv'
<1>0. /\ pc[p] = "trycas" /\ w = p /\ p # Nil /\ r[p] = 0 /\ Returned(p) /\ Admitting
  BY WriterFacts DEF TryLockCAS, At, WPlaces
<1>1. w' = w /\ readerWait' = readerWait /\ r' = r /\ UNCHANGED semVars
  BY DEF TryLockCAS
<1>2. Share = 0 /\ rwmutexMaxReaders \in Nat
  BY <1>0, Numbers DEF Share
<1>3. CASE readerCount = 0
  <2>1. readerCount' = -rwmutexMaxReaders /\ pc' = [pc EXCEPT ![p] = "locked"]
    BY <1>3 DEF TryLockCAS, Goto
  <2>2. readerCount' \in Int
    BY <2>1, <1>2
  <2>3. /\ SemInv' /\ TypeOK' /\ Local' /\ w' = p /\ pc'[p] = "locked" /\ Announced'
        /\ Permits(readerSem)' = Permits(readerSem) /\ Permits(writerSem)' = Permits(writerSem)
        /\ Counted' = Counted /\ Inside' = Inside /\ Outside' = Outside
    BY <2>1, <2>2, <1>0, <1>1, WriterMove, Numbers DEF WPlaces
  <2>4. /\ Counted = 0 /\ Inside = 0 /\ Outside = 0
        /\ Permits(readerSem) = 0 /\ readerWait = 0 /\ Permits(writerSem) = 0
    BY <1>0, <1>2, <1>3, ReaderNumbers, Numbers DEF Admitting
  <2>5. Excluding'
    BY <2>1, <2>3, <2>4, <1>0, <1>1, <1>2 DEF Excluding
  <2> QED
    BY <2>3, <2>5 DEF IInv, Balance
<1>4. CASE readerCount # 0
  <2>1. readerCount' = readerCount /\ pc' = [pc EXCEPT ![p] = "unlockw"]
    BY <1>4 DEF TryLockCAS, Goto
  <2>2. /\ SemInv' /\ TypeOK' /\ Local' /\ ~Announced' /\ Share' = 0
        /\ Permits(readerSem)' = Permits(readerSem) /\ Permits(writerSem)' = Permits(writerSem)
        /\ Counted' = Counted /\ Inside' = Inside /\ Outside' = Outside
        /\ In({"rslow"})' = In({"rslow"})
    BY <2>1, <1>0, <1>1, WriterMove, Numbers DEF WPlaces
  <2>3. Admitting'
    BY <2>1, <2>2, <1>0, <1>1, <1>2 DEF Admitting
  <2> QED
    BY <2>2, <2>3 DEF IInv, Balance
<1> QED
  BY <1>3, <1>4

LEMMA UnlockInv ==
    ASSUME IInv, NEW p \in Proc, Unlock(p)
    PROVE  IInv'
<1>0. /\ pc[p] = "locked" /\ w = p /\ p # Nil /\ r[p] = 0 /\ Returned(p) /\ Excluding
  BY WriterFacts DEF Unlock, At, WPlaces
<1>1. /\ w' = w /\ readerWait' = readerWait /\ UNCHANGED semVars
      /\ readerCount' = readerCount + rwmutexMaxReaders
  BY DEF Unlock
<1>2. /\ Inside = 0 /\ Permits(readerSem) = 0 /\ readerWait = 0 /\ Permits(writerSem) = 0
      /\ readerCount' = Counted /\ Counted \in Nat
      /\ ~(readerCount' >= rwmutexMaxReaders)
  BY <1>0, <1>1, ReaderNumbers, Numbers DEF Excluding
<1>3. Counted = Outside /\ In({"rslow"}) = {}
  BY <1>2, ReaderNumbers
<1>4. pc' = [pc EXCEPT ![p] = "wake"] /\ r' = [r EXCEPT ![p] = readerCount']
  BY <1>2 DEF Unlock, Goto
<1>5. /\ r' \in [Proc -> Nat] /\ r'[p] = Counted /\ \A x \in Proc : x # p => r'[x] = r[x]
      /\ readerCount' \in Int /\ readerWait' \in Int
  BY <1>1, <1>2, <1>4, Numbers
<1>6. /\ SemInv' /\ TypeOK' /\ Local' /\ ~Announced' /\ Share' = r'[p]
      /\ Permits(readerSem)' = Permits(readerSem) /\ Permits(writerSem)' = Permits(writerSem)
      /\ Counted' = Counted /\ Inside' = Inside /\ Outside' = Outside
      /\ In({"rslow"})' = In({"rslow"})
  BY <1>0, <1>1, <1>4, <1>5, WriterMove DEF WPlaces
<1>7. Admitting'
  BY <1>1, <1>2, <1>3, <1>5, <1>6 DEF Admitting
<1> QED
  BY <1>6, <1>7 DEF IInv, Balance

LEMMA WakeInv ==
    ASSUME IInv, NEW p \in Proc, Wake(p)
    PROVE  IInv'
<1>0. /\ pc[p] = "wake" /\ w = p /\ p # Nil /\ r[p] \in Nat /\ Admitting
      /\ r[p] > 0 /\ Returned(p) /\ ~IsCounted(p) /\ ~IsInside(p) /\ ~IsOutside(p)
  BY WriterFacts DEF Wake, At, WPlaces
<1>1. /\ w' = w /\ readerWait' = readerWait /\ readerCount' = readerCount /\ pc' = pc
      /\ r' = [r EXCEPT ![p] = r[p] - 1] /\ sem' = sem /\ queue' = queue
      /\ Semrelease(p, readerSem, FALSE)
  BY DEF Wake
<1>2. SemInv'
  BY <1>0, <1>1, CallInv, Numbers DEF IInv
<1>3. /\ req'[p].op = "release" /\ req'[p].addr = readerSem /\ req'[p].flag = FALSE
      /\ \A x \in Proc : x # p => req'[x] = req[x]
      /\ Permits(readerSem)' = Permits(readerSem) + 1
      /\ Permits(writerSem)' = Permits(writerSem)
  <2>1. SemInv /\ readerSem \in Addr /\ writerSem \in Addr /\ readerSem # writerSem
    BY Numbers DEF IInv
  <2> QED
    BY <2>1, <1>0, <1>1, ReleaseCall
<1>4. /\ r' \in [Proc -> Nat] /\ r'[p] = r[p] - 1 /\ \A x \in Proc : x # p => r'[x] = r[x]
  BY <1>0, <1>1, Numbers
<1>5. TypeOK'
  BY <1>1, <1>2, <1>4, Numbers DEF TypeOK, SemInv
<1>6. Local'
  <2>1. LocalOf(p)'
    BY <1>0, <1>1, <1>3, <1>4 DEF LocalOf, Returned, WPlaces
  <2> QED
    BY <2>1, <1>1, <1>3, <1>4, LocalStep DEF IInv
<1>7. \A x \in Proc : x # p => pc'[x] = pc[x] /\ (Returned(x)' <=> Returned(x))
  BY <1>1, <1>3 DEF Returned
<1>8. ~IsCounted(p)' /\ ~IsInside(p)' /\ ~IsOutside(p)'
  BY <1>0, <1>1 DEF IsCounted, IsInside, IsOutside
<1>9. Counted' = Counted /\ Outside' = Outside /\ Outside \in Nat /\ Counted \in Nat
  BY <1>0, <1>7, <1>8, OneMoves
<1>10. ~Announced' /\ Share = r[p] /\ Share' = r'[p] /\ In({"rslow"})' = In({"rslow"})
  BY <1>0, <1>1 DEF Announced, Share, In
<1>11. Admitting'
  BY <1>0, <1>1, <1>3, <1>4, <1>9, <1>10, Numbers DEF Admitting
<1> QED
  BY <1>2, <1>5, <1>6, <1>10, <1>11 DEF IInv, Balance

-----------------------------------------------------------------------------
(* Inside the semaphore calls *)

LEMMA CallStepInv ==
    ASSUME IInv, NEW p \in Proc, SemStep(p), UNCHANGED rwVars
    PROVE  IInv'
<1>1. /\ w' = w /\ r' = r /\ readerWait' = readerWait /\ readerCount' = readerCount /\ pc' = pc
  BY DEF rwVars
<1>2. SemInv' /\ SemTypeOK'
  BY SemStepInv DEF IInv, SemInv
<1>3. SemEffect(p)
  <2>1. \A x \in Proc : req[x].flag = FALSE
    BY Numbers DEF LocalOf
  <2> QED
    BY <2>1, SemStepEffect DEF IInv
<1>4. TypeOK'
  BY <1>1, <1>2, Numbers DEF TypeOK
<1>5. \A x \in Proc : SameCall(x) \/ (x = p /\ Returned(p)')
  BY <1>3 DEF SemEffect
<1>6. Local'
  <2> SUFFICES ASSUME NEW x \in Proc PROVE LocalOf(x)'
    BY DEF Local
  <2>1. LocalOf(x) /\ req'[x].flag = FALSE
    BY <1>3, Numbers DEF SemEffect
  <2>2. req'[x].op \in {"none", "acquire", "parked", "release", "dequeue", "ready"}
    BY <1>2 DEF SemTypeOK, Request
  <2>3. CASE SameCall(x)
    BY <2>1, <2>2, <2>3, <1>1 DEF LocalOf, SameCall, Returned, Acquiring
  <2>4. CASE Returned(x)'
    BY <2>1, <2>4, <1>1 DEF LocalOf, Returned
  <2> QED
    BY <2>3, <2>4, <1>5
<1>7. \A x \in Proc : x # p => pc'[x] = pc[x] /\ (Returned(x)' <=> Returned(x))
  BY <1>1, <1>3 DEF SemEffect, SameCall
<1>8. In({"rslow"})' = In({"rslow"}) /\ (Announced' <=> Announced) /\ Share' = Share
  BY <1>1 DEF In, Announced, Share
<1>9. IsCounted(p)' <=> IsCounted(p)
  BY <1>1 DEF IsCounted
<1>10. w # p /\ Announced => w \in Proc /\ (Returned(w)' <=> Returned(w))
  <2>1. w # p /\ Announced => w \in Proc /\ w' = w /\ (req'[w].op = "none" <=> req[w].op = "none")
    BY <1>1, <1>7, Numbers DEF Announced, Returned
  <2> QED
    BY <2>1 DEF Returned
<1>11. ASSUME Acquiring(p), Returned(p)',
              NEW a \in Addr, a = req[p].addr, Permits(a) > 0, Permits(a)' = Permits(a) - 1,
              \A b \in Addr : b # a => Permits(b)' = Permits(b)
       PROVE  Balance'
  <2>1. \/ pc[p] = "rwait" /\ a = readerSem
        \/ pc[p] = "wwait" /\ a = writerSem
    BY <1>11, Numbers DEF LocalOf, Acquiring, Returned
  <2>2. ~Returned(p)
    BY <1>11 DEF Acquiring, Returned
  <2>3. CASE pc[p] = "rwait" /\ a = readerSem
    <3>1. /\ ~IsInside(p) /\ IsOutside(p) /\ IsInside(p)' /\ ~IsOutside(p)'
      BY <2>2, <2>3, <1>1, <1>11 DEF IsInside, IsOutside
    <3>2. /\ Counted' = Counted /\ Inside' = Inside + 1 /\ Outside' = Outside - 1
          /\ Counted \in Nat /\ Inside \in Nat /\ Outside \in Nat
      BY <3>1, <1>7, <1>9, OneMoves
    <3>3. /\ Permits(readerSem)' = Permits(readerSem) - 1
          /\ Permits(writerSem)' = Permits(writerSem)
      BY <2>3, <1>11, Numbers
    <3>4. w # p
      BY <2>3, Numbers DEF LocalOf, WPlaces
    <3>5. Announced /\ Excluding => Excluding'
      <4>1. Announced => r[w] \in Nat /\ (Returned(w)' <=> Returned(w)) /\ pc'[w'] = pc[w] /\ r'[w'] = r[w]
        BY <3>4, <1>1, <1>10, Numbers
      <4> QED
        BY <4>1, <3>2, <3>3, <1>1, Numbers DEF Excluding
    <3>6. Admitting => Admitting'
      <4>1. Permits(readerSem) \in Nat /\ Share \in Nat
        BY Numbers
      <4>2. Permits(readerSem) + Share = Outside => Permits(readerSem)' + Share' = Outside'
        BY <4>1, <3>2, <3>3, <1>8
      <4> QED
        BY <4>2, <3>2, <3>3, <1>1, <1>8 DEF Admitting
    <3> QED
      BY <3>5, <3>6, <1>8 DEF IInv, Balance
  <2>4. CASE pc[p] = "wwait" /\ a = writerSem
    <3>1. w = p /\ Announced /\ Excluding
      BY <2>4, WriterFacts DEF WPlaces, Announced
    <3>2. /\ ~IsInside(p) /\ ~IsOutside(p) /\ ~IsInside(p)' /\ ~IsOutside(p)'
      BY <2>4, <1>1 DEF IsInside, IsOutside
    <3>3. /\ Counted' = Counted /\ Inside' = Inside /\ Outside' = Outside
      BY <3>2, <1>7, <1>9, OneMoves
    <3>4. /\ Permits(readerSem)' = Permits(readerSem)
          /\ Permits(writerSem)' = Permits(writerSem) - 1 /\ Permits(writerSem) > 0
      BY <2>4, <1>11, Numbers
    <3>5. readerWait = 0 /\ Permits(writerSem) = 1
      BY <3>1, <3>4, <2>2, <2>4, Numbers DEF Excluding
    <3>6. Returned(w)' /\ pc'[w'] = "wwait" /\ r'[w'] = r[w]
      BY <3>1, <2>4, <1>1, <1>11 DEF Returned
    <3>7. Excluding'
      BY <3>1, <3>3, <3>4, <3>5, <3>6, <1>1 DEF Excluding
    <3> QED
      BY <3>1, <3>7, <1>8 DEF Balance
  <2> QED
    BY <2>1, <2>3, <2>4
<1>12. ASSUME \A b \in Addr : Permits(b)' = Permits(b),
              SameCall(p) \/ (~Acquiring(p) /\ ~Returned(p) /\ Returned(p)')
       PROVE  Balance'
  <2>1. pc[p] \in {"rwait", "wwait"} => (Returned(p)' <=> Returned(p))
    BY <1>12, Numbers DEF LocalOf, SameCall, Acquiring, Returned
  <2>2. (IsInside(p)' <=> IsInside(p)) /\ (IsOutside(p)' <=> IsOutside(p))
    BY <2>1, <1>1 DEF IsInside, IsOutside
  <2>3. /\ Counted' = Counted /\ Inside' = Inside /\ Outside' = Outside
    BY <2>2, <1>7, <1>9, OneMoves
  <2>4. Announced /\ pc[w] = "wwait" => (Returned(w)' <=> Returned(w))
    <3>1. CASE w = p
      BY <3>1, <2>1, <1>1 DEF Returned
    <3> QED
      BY <3>1, <1>10
  <2>5. Permits(readerSem)' = Permits(readerSem) /\ Permits(writerSem)' = Permits(writerSem)
    BY <1>12, Numbers
  <2>6. Announced /\ Excluding => Excluding'
    BY <2>3, <2>4, <2>5, <1>1 DEF Excluding
  <2>7. Admitting => Admitting'
    BY <2>3, <2>5, <1>1, <1>8 DEF Admitting
  <2> QED
    BY <2>6, <2>7, <1>8 DEF IInv, Balance
<1>13. Balance'
  BY <1>3, <1>11, <1>12 DEF SemEffect
<1> QED
  BY <1>2, <1>4, <1>6, <1>13 DEF IInv

-----------------------------------------------------------------------------
LEMMA InitInv == Init => IInv
<1> SUFFICES ASSUME Init PROVE IInv
  OBVIOUS
<1>1. /\ w = Nil /\ readerCount = 0 /\ readerWait = 0 /\ SemInit
      /\ pc = [p \in Proc |-> "idle"] /\ r = [p \in Proc |-> 0]
  BY DEF Init
<1>2. SemInv /\ SemTypeOK
  BY <1>1, SemInitInv DEF SemInv
<1>3. \A p \in Proc : req[p].op = "none" /\ req[p].flag = FALSE
  BY <1>1 DEF SemInit, NoRequest
<1>4. TypeOK
  BY <1>1, <1>2 DEF TypeOK, Places
<1>5. Local
  BY <1>1, <1>3, SemaphoreConstants DEF Local, LocalOf, Returned, WPlaces
<1>6. Counted = 0 /\ Outside = 0 /\ In({"rslow"}) = {}
  <2>1. In({"rwait", "rlocked"}) = {} /\ In({"rslow"}) = {} /\ Waiting = {}
    BY <1>1 DEF In, Waiting
  <2> QED
    BY <2>1, FS_EmptySet DEF Counted, Outside
<1>7. \A a \in Addr : Permits(a) = 0
  <2>1. \A a \in Addr : Releasing(a) = {} /\ sem[a] = 0
    BY <1>1, <1>3 DEF Releasing, SemInit
  <2> QED
    BY <2>1, FS_EmptySet DEF Permits
<1>8. ~Announced /\ Share = 0
  BY <1>1 DEF Announced, Share
<1>9. Admitting
  BY <1>1, <1>6, <1>7, <1>8, RWMutexConstants DEF Admitting
<1> QED
  BY <1>2, <1>4, <1>5, <1>8, <1>9 DEF IInv, Balance

LEMMA NextInv == IInv /\ [Next]_vars => IInv'
<1> SUFFICES ASSUME IInv, [Next]_vars PROVE IInv'
  OBVIOUS
<1>1. ASSUME NEW p \in Proc, Arrive(p) PROVE IInv'
  BY <1>1, RLockInv, TryRLockInv, LockInv, TryLockInv DEF Arrive
<1>2. ASSUME NEW p \in Proc, LockW(p) PROVE IInv'
  BY <1>2, LockWInv
<1>3. ASSUME NEW p \in Proc, Step(p) PROVE IInv'
  BY <1>3, RLockedInv, RUnlockInv, RUnlockSlowInv, RSignalledInv, AnnounceInv, AddWaitInv,
     LockedInv, TryLockCASInv, UnlockInv, WakeInv, UnlockWInv, CallStepInv DEF Step
<1>4. CASE UNCHANGED vars
  <2>1. UNCHANGED rwVars /\ UNCHANGED semVars
    BY <1>4 DEF vars, rwVars, semVars
  <2>2. SemInv' /\ req' = req /\ sem' = sem
    BY <2>1, NoCall DEF IInv, semVars
  <2>3. TypeOK'
    BY <2>1, <2>2 DEF IInv, TypeOK, rwVars, SemInv
  <2>4. Local'
    BY <2>1, <2>2 DEF IInv, Local, LocalOf, Returned, rwVars
  <2>5. /\ Counted' = Counted /\ Inside' = Inside /\ Outside' = Outside
        /\ In({"rslow"})' = In({"rslow"}) /\ (Announced' <=> Announced) /\ Share' = Share
        /\ Permits(readerSem)' = Permits(readerSem) /\ Permits(writerSem)' = Permits(writerSem)
        /\ Returned(w)' <=> Returned(w)
    BY <2>1, <2>2 DEF Counted, Inside, Outside, Waiting, In, Announced, Share, Permits, Releasing,
                      Returned, rwVars
  <2> QED
    BY <2>1, <2>2, <2>3, <2>4, <2>5 DEF IInv, Balance, Excluding, Admitting, rwVars
<1> QED
  BY <1>1, <1>2, <1>3, <1>4 DEF Next

-----------------------------------------------------------------------------
(* How the invariant speaks of what the properties speak of. *)
LEMMA Views ==
    ASSUME IInv
    PROVE  /\ Writing = IF Announced THEN {w} ELSE {}
           /\ Grants = Permits(readerSem) + Share
           /\ Present = Inside + Grants
           /\ Announced => Share = 0 /\ (pc[w] # "addwait" => r[w] = 0)
<1>1. w \in Proc \union {Nil} /\ Nil \notin Proc /\ \A p \in Proc : LocalOf(p)
  BY Numbers
<1>2. \A p \in Proc : p \in Writing => w = p /\ Announced
  BY <1>1 DEF Writing, In, LocalOf, WPlaces, Announced
<1>3. Announced => w \in Writing
  BY <1>1 DEF Writing, In, Announced
<1>4. Writing \subseteq Proc
  BY DEF Writing, In
<1>5. Share = IF w \in In({"wake"}) THEN r[w] ELSE 0
  BY <1>1 DEF Share, In
<1>6. Announced => Share = 0 /\ (pc[w] # "addwait" => r[w] = 0)
  BY <1>1 DEF Announced, Share, LocalOf
<1> QED
  BY <1>2, <1>3, <1>4, <1>5, <1>6 DEF Grants, Present, Inside

(* A writer that is let in, or about to be, has no reader beside it. *)
LEMMA InvExclusion == IInv => Exclusion
<1> SUFFICES ASSUME IInv, NEW p \in In({"locked"}) PROVE In({"locked", "rlocked"}) = {p}
  BY DEF Exclusion
<1>1. p \in Proc /\ pc[p] = "locked"
  BY DEF In
<1>2. w = p /\ r[p] = 0 /\ Excluding
  BY <1>1, WriterFacts DEF WPlaces
<1>3. Inside = 0
  BY <1>1, <1>2, Numbers, ReaderNumbers DEF Excluding
<1>4. \A q \in Proc : pc[q] # "rlocked"
  <2>1. \A q \in Proc : ~IsInside(q)
    BY <1>3, ReaderNumbers
  <2> QED
    BY <2>1 DEF IsInside
<1>5. \A q \in Proc : pc[q] = "locked" => q = p
  BY <1>2, Numbers DEF LocalOf, WPlaces
<1> QED
  BY <1>1, <1>4, <1>5 DEF In

LEMMA InvCounts == IInv => Counts
<1> SUFFICES ASSUME IInv PROVE Counts
  OBVIOUS
<1>1. /\ TypeOK /\ rwmutexMaxReaders \in Nat
      /\ Counted \in Nat /\ Inside \in Nat /\ Permits(readerSem) \in Nat
  BY ReaderNumbers, Numbers DEF IInv
<1>2. /\ Writing = IF Announced THEN {w} ELSE {}
      /\ Grants = Permits(readerSem) + Share
      /\ Present = Inside + Grants
      /\ Announced => Share = 0 /\ (pc[w] # "addwait" => r[w] = 0)
  BY Views
<1>3. CASE Announced
  <2>1. Excluding /\ Writing = {w}
    BY <1>2, <1>3 DEF IInv, Balance
  <2>2. Cardinality(Writing) = 1
    BY <2>1, FS_Singleton
  <2>3. readerCount = Counted - rwmutexMaxReaders * Cardinality(Writing)
    BY <2>1, <2>2, <1>1 DEF Excluding
  <2>4. readerWait + (IF At(w, "addwait") THEN r[w] ELSE 0) = Present
    BY <2>1, <1>1, <1>2, <1>3, Numbers DEF Excluding, At
  <2> QED
    BY <2>1, <2>3, <2>4, <1>1 DEF Counts, Counted
<1>4. CASE ~Announced
  <2>1. Admitting /\ Writing = {}
    BY <1>2, <1>4 DEF IInv, Balance
  <2>2. Cardinality(Writing) = 0
    BY <2>1, FS_EmptySet
  <2>3. readerCount = Counted - rwmutexMaxReaders * Cardinality(Writing)
    BY <2>1, <2>2, <1>1 DEF Admitting
  <2>4. readerWait = 0 /\ Grants = Cardinality(Waiting)
    BY <2>1, <1>2 DEF Admitting, Outside
  <2> QED
    BY <2>1, <2>3, <2>4, <1>1 DEF Counts, Counted
<1> QED
  BY <1>3, <1>4

LEMMA InvOneSignal == IInv => OneSignal
<1> SUFFICES ASSUME IInv, Permits(writerSem) > 0
             PROVE  /\ Permits(writerSem) = 1 /\ Present = 0
                    /\ \E p \in In({"wwait"}) : ~Returned(p)
  BY DEF OneSignal
<1>1. Announced /\ Excluding
  BY Numbers DEF IInv, Balance, Admitting
<1>2. pc[w] = "wwait" /\ ~Returned(w) /\ readerWait = 0 /\ Permits(writerSem) = 1
  BY <1>1, Numbers DEF Excluding
<1>3. w \in Proc
  BY <1>1, Numbers DEF Announced
<1>4. Present = Inside + Permits(readerSem)
  <2>1. Present = Inside + Grants /\ Grants = Permits(readerSem) + Share /\ Share = 0
    BY <1>1, Views
  <2> QED
    BY <2>1, Numbers
<1>5. r[w] = 0
  BY <1>1, <1>2, Views
<1>6. Present = 0
  BY <1>1, <1>2, <1>4, <1>5 DEF Excluding
<1> QED
  BY <1>2, <1>3, <1>6 DEF In

(* The inductive invariant holds in every reachable state. *)
THEOREM RWInvariant == Spec => []IInv
  BY InitInv, NextInv, PTL DEF Spec

(* RWMutex gives a writer exclusive access: while Lock or TryLock has let a *)
(* goroutine in, no other goroutine holds the lock in either mode, for any  *)
(* number of goroutines below rwmutexMaxReaders.                            *)
THEOREM RWExclusion == Spec => []Exclusion
  BY InvExclusion, RWInvariant, PTL

(* readerCount, readerWait and the writer's r always add up to the readers  *)
(* they stand for, in whatever order readers leave and the writer counts    *)
(* them, and none of the throws of RUnlock and Unlock is reached.           *)
THEOREM RWCounts == Spec => []Counts
  BY InvCounts, RWInvariant, PTL

(* rUnlockSlow signals the pending writer exactly once, and only when no    *)
(* reader is left that it has to wait for.                                  *)
THEOREM RWOneSignal == Spec => []OneSignal
  BY InvOneSignal, RWInvariant, PTL
=============================================================================
