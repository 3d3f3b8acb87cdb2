-------------------------- MODULE WaitGroupProofs --------------------------
(* Proofs about WaitGroup, for any number of goroutines and units. *)
EXTENDS WaitGroup, SemaphoreProofs

(* Where a goroutine may be in a semaphore call, and what its locals are. *)
LocalOf(p) ==
    /\ req[p].flag = FALSE
    /\ \/ Returned(p)
       \/ pc[p] = "acquire" /\ req[p].op \in {"acquire", "parked"} /\ req[p].addr = sema
       \/ pc[p] = "release" /\ req[p].op \in {"release", "dequeue", "ready"} /\ req[p].addr = sema
    /\ pc[p] = "cas" => state[p].v > 0
    /\ state[p].w <= Cardinality(Proc)

Local == \A p \in Proc : LocalOf(p)

(* One goroutine at a time has seen the counter drop to zero and not yet   *)
(* reset the state word; nothing changes the word meanwhile.               *)
Resetting ==
    \A p \in Proc : pc[p] \in {"check", "reset"} =>
        /\ v = 0 /\ w > 0 /\ state[p] = Word(v, w)
        /\ \A q \in Proc : pc[q] \in {"check", "reset"} => q = p

Balance == w + Owed = Cardinality(Sleeping) /\ v = Total(held)

(* While waiters are being let go the state word is zero. *)
LettingGo ==
    (Owed > 0 \/ \E p \in Proc : pc[p] = "acquire" /\ Returned(p)) => v = 0 /\ w = 0

SeesZero == \A p \in Proc : InWait(p) /\ v = 0 => zero[p]

IInv == TypeOK /\ SemInv /\ Local /\ Resetting /\ Balance /\ LettingGo /\ SeesZero

-----------------------------------------------------------------------------
(* Sums over the goroutines *)

(* The share of one goroutine has as many members as it has units. *)
LEMMA ShareCount ==
    ASSUME NEW p, NEW n \in Nat
    PROVE  IsFiniteSet({p} \X (1..n)) /\ Cardinality({p} \X (1..n)) = n
<1>1. IsFiniteSet({p}) /\ Cardinality({p}) = 1
  BY FS_Singleton
<1>2. IsFiniteSet(1..n) /\ Cardinality(1..n) = n
  BY FS_Interval
<1>3. /\ IsFiniteSet({p} \X (1..n))
      /\ Cardinality({p} \X (1..n)) = Cardinality({p}) * Cardinality(1..n)
  BY <1>1, <1>2, FS_Product
<1> QED
  BY <1>1, <1>2, <1>3

(* The shares without p's, and p's. *)
Others(f, p) == {u \in Shares(f) : u[1] # p}

LEMMA SharesSplit ==
    ASSUME NEW f, NEW p \in Proc
    PROVE  /\ Shares(f) = Others(f, p) \union ({p} \X (1..f[p]))
           /\ Others(f, p) \intersect ({p} \X (1..f[p])) = {}
  BY DEF Shares, Others

(* f and g differ at p at most. *)
SameBut(p, f, g) == \A q \in Proc : q # p => f[q] = g[q]

LEMMA OthersSame ==
    ASSUME NEW f, NEW g, NEW p \in Proc, SameBut(p, f, g)
    PROVE  Others(f, p) = Others(g, p)
<1>1. ASSUME NEW h, NEW k, SameBut(p, h, k), NEW u \in Others(h, p)
      PROVE  u \in Others(k, p)
  <2>1. PICK q \in Proc : u \in {q} \X (1..h[q])
    BY <1>1 DEF Others, Shares
  <2>2. u[1] = q /\ u[1] # p
    BY <2>1, <1>1 DEF Others
  <2>3. u \in {q} \X (1..k[q])
    BY <2>1, <2>2, <1>1 DEF SameBut
  <2> QED
    BY <2>2, <2>3 DEF Others, Shares
<1>2. SameBut(p, g, f)
  BY DEF SameBut
<1> QED
  BY <1>1, <1>2

(* A sum changes by what it changes by at p. *)
LEMMA TotalStep ==
    ASSUME NEW n \in Nat, NEW f \in [Proc -> 0..n], NEW g \in [Proc -> 0..n], NEW p \in Proc,
           SameBut(p, f, g)
    PROVE  /\ Total(f) \in Nat /\ Total(g) \in Nat
           /\ f[p] <= Total(f) /\ g[p] <= Total(g)
           /\ Total(g) = Total(f) - f[p] + g[p]
<1>1. IsFiniteSet(Proc \X (1..n))
  <2>1. IsFiniteSet(1..n)
    BY FS_Interval
  <2> QED
    BY <2>1, SemaphoreConstants, FS_Product
<1>2. ASSUME NEW h \in [Proc -> 0..n]
      PROVE  /\ IsFiniteSet(Others(h, p)) /\ Cardinality(Others(h, p)) \in Nat
             /\ Total(h) = Cardinality(Others(h, p)) + h[p]
  <2>1. Others(h, p) \subseteq Proc \X (1..n)
    BY DEF Others, Shares
  <2>2. IsFiniteSet(Others(h, p)) /\ Cardinality(Others(h, p)) \in Nat
    BY <2>1, <1>1, FS_Subset, FS_CardinalityType
  <2>3. h[p] \in Nat
    OBVIOUS
  <2>4. IsFiniteSet({p} \X (1..h[p])) /\ Cardinality({p} \X (1..h[p])) = h[p]
    BY <2>3, ShareCount
  <2>5. Cardinality(Others(h, p) \union ({p} \X (1..h[p])))
          = Cardinality(Others(h, p)) + Cardinality({p} \X (1..h[p]))
              - Cardinality(Others(h, p) \intersect ({p} \X (1..h[p])))
    BY <2>2, <2>4, FS_Union
  <2>6. Cardinality(Others(h, p) \intersect ({p} \X (1..h[p]))) = 0
    BY SharesSplit, FS_EmptySet
  <2>7. Total(h) = Cardinality(Others(h, p) \union ({p} \X (1..h[p])))
    BY SharesSplit, Zenon DEF Total
  <2> QED
    BY <2>2, <2>3, <2>4, <2>5, <2>6, <2>7
<1>3. Others(f, p) = Others(g, p)
  BY OthersSame
<1>4. /\ Cardinality(Others(f, p)) \in Nat /\ Cardinality(Others(g, p)) = Cardinality(Others(f, p))
      /\ Total(f) = Cardinality(Others(f, p)) + f[p]
      /\ Total(g) = Cardinality(Others(g, p)) + g[p]
  BY <1>2, <1>3
<1> QED
  BY <1>4

(* The sum of nothing. *)
LEMMA TotalZero ==
    ASSUME NEW f, \A p \in Proc : f[p] = 0
    PROVE  Total(f) = 0
<1>1. Shares(f) = {}
  BY DEF Shares
<1> QED
  BY <1>1, FS_EmptySet DEF Total

(* A goroutine's part of a sum. *)
LEMMA TotalPart ==
    ASSUME NEW n \in Nat, NEW f \in [Proc -> 0..n]
    PROVE  Total(f) \in Nat /\ \A p \in Proc : f[p] <= Total(f)
<1>1. ASSUME NEW p \in Proc PROVE Total(f) \in Nat /\ f[p] <= Total(f)
  <2>1. SameBut(p, f, f)
    BY DEF SameBut
  <2> QED
    BY <2>1, TotalStep
<1>2. CASE Proc = {}
  BY <1>2, TotalZero
<1> QED
  BY <1>1, <1>2

-----------------------------------------------------------------------------
(* What one goroutine contributes *)

Places == {"idle", "check", "reset", "release", "load", "cas", "acquire"}

Sleeps(p) == pc[p] = "acquire" /\ ~Returned(p)
Releases(p) == IF pc[p] = "release" THEN state[p].w ELSE 0

(* The types of what the balance is made of, and what it implies. *)
LEMMA Numbers ==
    ASSUME IInv
    PROVE  /\ sema \in Addr /\ MaxUnits \in Nat /\ v \in 0..MaxUnits /\ w \in Nat
           /\ pc \in [Proc -> Places] /\ state \in [Proc -> [v : 0..MaxUnits, w : Nat]]
           /\ held \in [Proc -> 0..MaxUnits] /\ zero \in [Proc -> BOOLEAN]
           /\ SemInv /\ Permits(sema) \in Nat
           /\ ToRelease \in [Proc -> 0..Cardinality(Proc)]
           /\ Total(ToRelease) \in Nat /\ Owed \in Nat
           /\ Cardinality(Proc) \in Nat /\ w <= Cardinality(Proc)
           /\ v = Total(held) /\ \A p \in Proc : held[p] <= v
           /\ \A p \in Proc : LocalOf(p)
           /\ w > 0 \/ Owed > 0 => \E p \in Proc : Sleeps(p)
<1>1. /\ sema \in Addr /\ MaxUnits \in Nat /\ v \in 0..MaxUnits /\ w \in Nat
      /\ pc \in [Proc -> Places] /\ state \in [Proc -> [v : 0..MaxUnits, w : Nat]]
      /\ held \in [Proc -> 0..MaxUnits] /\ zero \in [Proc -> BOOLEAN]
      /\ SemInv /\ \A p \in Proc : LocalOf(p)
  BY WaitGroupConstants DEF IInv, TypeOK, Local, Places
<1>2. Permits(sema) \in Nat
  BY <1>1, PermitsFacts
<1>3. IsFiniteSet(Proc) /\ Cardinality(Proc) \in Nat
  BY SemaphoreConstants, FS_CardinalityType
<1>4. \A p \in Proc : state[p].w \in 0..Cardinality(Proc)
  BY <1>1, <1>3 DEF LocalOf
<1>5. ToRelease \in [Proc -> 0..Cardinality(Proc)]
  BY <1>3, <1>4 DEF ToRelease
<1>6. Total(ToRelease) \in Nat
  BY <1>3, <1>5, TotalPart
<1>7. Owed \in Nat
  BY <1>2, <1>6 DEF Owed
<1>8. Sleeping \subseteq Proc
  BY DEF Sleeping
<1>9. /\ Cardinality(Sleeping) \in Nat /\ Cardinality(Sleeping) <= Cardinality(Proc)
      /\ Sleeping = {} => Cardinality(Sleeping) = 0
  BY <1>3, <1>8, FS_Subset, FS_CardinalityType, FS_EmptySet
<1>10. w + Owed = Cardinality(Sleeping) /\ v = Total(held)
  BY DEF IInv, Balance
<1>11. w > 0 \/ Owed > 0 => \E p \in Proc : Sleeps(p)
  <2>1. w > 0 \/ Owed > 0 => Sleeping # {}
    BY <1>1, <1>7, <1>9, <1>10
  <2> QED
    BY <2>1 DEF Sleeping, Sleeps, At
<1>12. \A p \in Proc : held[p] <= v
  BY <1>1, <1>10, TotalPart
<1>13. w <= Cardinality(Proc)
  BY <1>1, <1>3, <1>7, <1>9, <1>10
<1> QED
  BY <1>1, <1>2, <1>3, <1>5, <1>6, <1>7, <1>10, <1>11, <1>12, <1>13

(* Nobody is about to reset the word or being let go while the counter is   *)
(* greater than zero, nor while nobody is in Wait.                          *)
LEMMA Quiet ==
    ASSUME IInv, v > 0 \/ \A t \in Proc : ~InWait(t)
    PROVE  /\ Owed = 0 /\ (v = 0 => w = 0)
           /\ \A p \in Proc : pc[p] \notin {"check", "reset"}
           /\ \A p \in Proc : ~(pc[p] = "acquire" /\ Returned(p))
<1>1. \A p \in Proc : pc[p] = "acquire" => InWait(p)
  BY DEF InWait
<1>2. (\A t \in Proc : ~InWait(t)) => w = 0 /\ Owed = 0
  BY <1>1, Numbers DEF Sleeps
<1>3. v > 0 => Owed = 0 /\ \A p \in Proc : ~(pc[p] = "acquire" /\ Returned(p))
  BY Numbers DEF IInv, LettingGo
<1>4. ASSUME NEW p \in Proc, pc[p] \in {"check", "reset"} PROVE FALSE
  BY <1>2, <1>4, Numbers DEF IInv, Resetting
<1> QED
  BY <1>1, <1>2, <1>3, <1>4, Numbers

(* A step that moves p alone changes the balance by p alone. *)
LEMMA BalanceStep ==
    ASSUME IInv, NEW p \in Proc,
           \A x \in Proc : x # p => /\ pc'[x] = pc[x] /\ state'[x] = state[x]
                                    /\ Returned(x)' <=> Returned(x),
           state'[p].w \in 0..Cardinality(Proc)
    PROVE  /\ Total(ToRelease)' = Total(ToRelease) - Releases(p) + Releases(p)'
           /\ Total(ToRelease)' \in Nat /\ Releases(p) \in Nat /\ Releases(p)' \in Nat
           /\ Cardinality(Sleeping) \in Nat /\ Cardinality(Sleeping)' \in Nat
           /\ Cardinality(Sleeping)' = Cardinality(Sleeping) + (IF Sleeps(p)' THEN 1 ELSE 0)
                                                            - (IF Sleeps(p) THEN 1 ELSE 0)
<1>1. ToRelease \in [Proc -> 0..Cardinality(Proc)] /\ Cardinality(Proc) \in Nat
  BY Numbers
<1>2. /\ ToRelease[p] = Releases(p) /\ ToRelease'[p] = Releases(p)'
      /\ \A x \in Proc : x # p => ToRelease[x] = ToRelease'[x]
      /\ SameBut(p, ToRelease, ToRelease')
  BY DEF ToRelease, Releases, At, SameBut
<1>3. ToRelease' \in [Proc -> 0..Cardinality(Proc)]
  <2>1. ToRelease'[p] \in 0..Cardinality(Proc)
    BY <1>1 DEF ToRelease
  <2>2. \A x \in Proc : ToRelease'[x] \in 0..Cardinality(Proc)
    BY <2>1, <1>1, <1>2
  <2>3. ToRelease' = [x \in Proc |-> ToRelease'[x]]
    BY DEF ToRelease
  <2> QED
    BY <2>2, <2>3
<1>4. Total(ToRelease)' = Total(ToRelease')
  BY DEF Total, Shares
<1>5. /\ Total(ToRelease') = Total(ToRelease) - ToRelease[p] + ToRelease'[p]
      /\ Total(ToRelease') \in Nat
  <2> HIDE DEF ToRelease
  <2> QED
    BY <1>1, <1>2, <1>3, TotalStep
<1>6. Sleeping \in SUBSET Proc /\ Sleeping' \in SUBSET Proc /\ Sleeping \ {p} = Sleeping' \ {p}
  BY DEF Sleeping, At
<1>7. (p \in Sleeping <=> Sleeps(p)) /\ (p \in Sleeping' <=> Sleeps(p)')
  BY DEF Sleeping, Sleeps, At
<1>8. /\ Cardinality(Sleeping) \in Nat /\ Cardinality(Sleeping') \in Nat
      /\ Cardinality(Sleeping') = Cardinality(Sleeping) + (IF p \in Sleeping' THEN 1 ELSE 0)
                                                       - (IF p \in Sleeping THEN 1 ELSE 0)
  BY <1>6, CountStep
<1>9. Releases(p) \in Nat /\ Releases(p)' \in Nat
  BY <1>1, <1>2, <1>3
<1> QED
  BY <1>2, <1>4, <1>5, <1>7, <1>8, <1>9

(* The other goroutines keep their local facts when p moves. *)
LEMMA LocalStep ==
    ASSUME Local, NEW p \in Proc, LocalOf(p)',
           \A x \in Proc : x # p => pc'[x] = pc[x] /\ state'[x] = state[x] /\ req'[x] = req[x]
    PROVE  Local'
<1> SUFFICES ASSUME NEW x \in Proc, x # p PROVE LocalOf(x)'
  BY DEF Local
<1> QED
  BY DEF Local, LocalOf, Returned

(* A step that leaves the semaphores alone. *)
LEMMA WGFrame ==
    ASSUME IInv, UNCHANGED semVars
    PROVE  /\ SemInv' /\ req' = req /\ \A x \in Proc : Returned(x)' <=> Returned(x)
           /\ Permits(sema)' = Permits(sema)
  BY NoCall, Numbers

(* What SetCounter makes of the history. *)
LEMMA CounterSeen ==
    ASSUME NEW c, SetCounter(c), \A x \in Proc : InWait(x)' => InWait(x)
    PROVE  zero' \in [Proc -> BOOLEAN] /\ SeesZero'
<1>1. v' = c /\ zero' = [x \in Proc |-> InWait(x) /\ (zero[x] \/ c = 0)]
  BY DEF SetCounter
<1>2. zero' \in [Proc -> BOOLEAN]
  BY <1>1, Zenon
<1>3. ASSUME NEW x \in Proc, InWait(x)', v' = 0 PROVE zero'[x]
  BY <1>1, <1>3, Zenon
<1> QED
  BY <1>2, <1>3, Zenon DEF SeesZero

LEMMA HeldTotal ==
    ASSUME NEW p \in Proc, NEW f \in [Proc -> 0..MaxUnits], NEW g \in [Proc -> 0..MaxUnits],
           SameBut(p, f, g)
    PROVE  Total(g) = Total(f) - f[p] + g[p]
  BY WaitGroupConstants, TotalStep

(* A step that changes what p has to give back. *)
LEMMA HeldStep ==
    ASSUME IInv, NEW p \in Proc, NEW n \in 0..MaxUnits, held' = [held EXCEPT ![p] = n]
    PROVE  held' \in [Proc -> 0..MaxUnits] /\ Total(held)' = v - held[p] + n
<1>1. held \in [Proc -> 0..MaxUnits] /\ MaxUnits \in Nat /\ v = Total(held)
  BY Numbers
<1>2. /\ held' \in [Proc -> 0..MaxUnits] /\ held'[p] = n
      /\ SameBut(p, held, held')
  BY <1>1 DEF SameBut
<1>3. Total(held') = Total(held) - held[p] + held'[p]
  BY <1>1, <1>2, HeldTotal
<1>4. Total(held)' = Total(held')
  BY DEF Total, Shares
<1> QED
  BY <1>1, <1>2, <1>3, <1>4

-----------------------------------------------------------------------------
(* Add *)

LEMMA AddInv ==
    ASSUME IInv, NEW p \in Proc, NEW d \in Units, NEW q \in Proc, Add(p, d, q)
    PROVE  IInv'
<1>1. /\ v' = v + d /\ v' <= MaxUnits /\ w' = w /\ state' = state
      /\ held' = [held EXCEPT ![q] = held[q] + d] /\ SetCounter(v + d)
      /\ UNCHANGED semVars
      /\ held[p] > 0 \/ \A t \in Proc : ~InWait(t)
  BY DEF Add, SetCounter
<1>2. d \in Nat /\ d > 0 /\ held[p] \in Nat /\ held[p] <= v /\ v \in Nat
  BY Numbers DEF Units
<1>3. v > 0 \/ \A t \in Proc : ~InWait(t)
  BY <1>1, <1>2
<1>4. /\ Owed = 0 /\ (v = 0 => w = 0)
      /\ \A x \in Proc : pc[x] \notin {"check", "reset"}
      /\ \A x \in Proc : ~(pc[x] = "acquire" /\ Returned(x))
  BY <1>3, Quiet
<1>5. pc' = pc
  <2> DEFINE there == IF w # 0 /\ v + d = d THEN "panic" ELSE "idle"
  <2>1. pc' = [pc EXCEPT ![p] = there] /\ pc[p] = "idle"
    BY DEF Add, Goto, At
  <2>2. there = "idle"
    BY <1>2, <1>4
  <2> QED
    BY <2>1, <2>2, Numbers
<1>6. /\ SemInv' /\ req' = req /\ \A x \in Proc : Returned(x)' <=> Returned(x)
      /\ Permits(sema)' = Permits(sema)
  BY <1>1, WGFrame
<1>7. zero' \in [Proc -> BOOLEAN] /\ SeesZero'
  <2>1. \A x \in Proc : InWait(x)' => InWait(x)
    BY <1>5 DEF InWait
  <2> QED
    BY <2>1, <1>1, CounterSeen
<1>8. held' \in [Proc -> 0..MaxUnits] /\ Total(held)' = v + d
  <2>1. held[q] + d \in 0..MaxUnits /\ held[q] \in Nat
    BY <1>1, <1>2, Numbers
  <2>2. PICK n \in 0..MaxUnits : n = held[q] + d
    BY <2>1
  <2>3. held' \in [Proc -> 0..MaxUnits] /\ Total(held)' = v - held[q] + n
    BY <2>2, <1>1, HeldStep
  <2> QED
    BY <2>1, <2>2, <2>3, <1>2
<1>9. TypeOK'
  BY <1>1, <1>2, <1>5, <1>6, <1>7, <1>8, Numbers DEF TypeOK, Places, SemInv
<1>10. Local'
  BY <1>1, <1>5, <1>6 DEF IInv, Local, LocalOf, Returned
<1>11. ToRelease' = ToRelease /\ Sleeping' = Sleeping
  BY <1>1, <1>5, <1>6 DEF ToRelease, Sleeping, At, Returned
<1>12. Owed' = Owed
  BY <1>6, <1>11 DEF Owed, Total, Shares
<1>13. Balance'
  BY <1>1, <1>8, <1>11, <1>12, Numbers DEF IInv, Balance
<1>14. Resetting'
  BY <1>4, <1>5 DEF Resetting
<1>15. LettingGo'
  BY <1>4, <1>5, <1>6, <1>12 DEF LettingGo
<1> QED
  BY <1>6, <1>7, <1>9, <1>10, <1>13, <1>14, <1>15 DEF IInv

LEMMA SubtractInv ==
    ASSUME IInv, NEW p \in Proc, NEW d \in Units, Subtract(p, d)
    PROVE  IInv'
<1>1. /\ v' = v - d /\ w' = w /\ pc[p] = "idle" /\ d <= held[p]
      /\ held' = [held EXCEPT ![p] = held[p] - d] /\ SetCounter(v - d)
      /\ UNCHANGED semVars
  BY DEF Subtract, SetCounter, At
<1>2. /\ d \in Nat /\ d > 0 /\ held[p] \in Nat /\ held[p] <= v /\ v \in Nat /\ w \in Nat
      /\ w <= Cardinality(Proc) /\ Cardinality(Proc) \in Nat /\ v <= MaxUnits /\ MaxUnits \in Nat
  BY Numbers DEF Units
<1>3. v > 0 /\ v' \in 0..MaxUnits
  BY <1>1, <1>2
<1>4. /\ Owed = 0
      /\ \A x \in Proc : pc[x] \notin {"check", "reset"}
      /\ \A x \in Proc : ~(pc[x] = "acquire" /\ Returned(x))
  BY <1>3, Quiet
<1>5. /\ \/ pc'[p] = "idle" /\ state'[p] = Word(0, 0)
         \/ pc'[p] = "check" /\ v' = 0 /\ w > 0 /\ state'[p] = Word(v', w')
      /\ pc' \in [Proc -> Places] /\ state' \in [Proc -> [v : 0..MaxUnits, w : Nat]]
      /\ \A x \in Proc : x # p => pc'[x] = pc[x] /\ state'[x] = state[x]
  <2> DEFINE done == v - d > 0 \/ w = 0
             there == IF v - d < 0 THEN "panic" ELSE IF done THEN "idle" ELSE "check"
             s == IF done THEN Word(0, 0) ELSE Word(v - d, w)
  <2>1. pc' = [pc EXCEPT ![p] = there] /\ state' = [state EXCEPT ![p] = s]
    BY DEF Subtract, Goto, SetState
  <2>2. \/ there = "idle" /\ s = Word(0, 0)
        \/ there = "check" /\ v - d = 0 /\ w > 0 /\ s = Word(v - d, w)
    BY <1>1, <1>2, <1>3
  <2>3. there \in Places /\ s \in [v : 0..MaxUnits, w : Nat]
    BY <2>2, <1>2 DEF Places, Word
  <2> HIDE DEF there, s
  <2>4. pc \in [Proc -> Places] /\ state \in [Proc -> [v : 0..MaxUnits, w : Nat]]
    BY Numbers
  <2>5. pc'[p] = there /\ state'[p] = s
    BY <2>1, <2>4
  <2> QED
    BY <2>1, <2>2, <2>3, <2>4, <2>5, <1>1
<1>6. /\ SemInv' /\ req' = req /\ \A x \in Proc : Returned(x)' <=> Returned(x)
      /\ Permits(sema)' = Permits(sema)
  BY <1>1, WGFrame
<1>7. zero' \in [Proc -> BOOLEAN] /\ SeesZero'
  <2>1. \A x \in Proc : InWait(x)' => InWait(x)
    BY <1>5 DEF InWait
  <2> QED
    BY <2>1, <1>1, CounterSeen
<1>8. held' \in [Proc -> 0..MaxUnits] /\ Total(held)' = v - d
  <2>1. held[p] - d \in 0..MaxUnits
    BY <1>1, <1>2
  <2>2. PICK n \in 0..MaxUnits : n = held[p] - d
    BY <2>1
  <2>3. held' \in [Proc -> 0..MaxUnits] /\ Total(held)' = v - held[p] + n
    BY <2>2, <1>1, HeldStep
  <2> QED
    BY <2>1, <2>2, <2>3, <1>2
<1>9. TypeOK'
  BY <1>1, <1>2, <1>3, <1>5, <1>6, <1>7, <1>8 DEF TypeOK, Places, SemInv
<1>10. state'[p].w \in 0..Cardinality(Proc)
  BY <1>1, <1>2, <1>5 DEF Word
<1>11. Local'
  <2>1. LocalOf(p)'
    <3>1. LocalOf(p) /\ Cardinality(Proc) \in Nat
      BY Numbers
    <3>2. req'[p].flag = FALSE /\ req'[p].op = "none" /\ pc'[p] # "cas"
      BY <3>1, <1>1, <1>5, <1>6 DEF LocalOf, Returned
    <3> QED
      BY <3>1, <3>2, <1>10 DEF LocalOf, Returned
  <2> QED
    BY <2>1, <1>5, <1>6, LocalStep DEF IInv
<1>12. Owed' = Owed /\ Cardinality(Sleeping)' = Cardinality(Sleeping)
  <2>1. Releases(p) = 0 /\ Releases(p)' = 0 /\ ~Sleeps(p) /\ ~Sleeps(p)'
    BY <1>1, <1>5 DEF Releases, Sleeps
  <2> QED
    BY <2>1, <1>5, <1>6, <1>10, BalanceStep, Numbers DEF Owed
<1>13. Balance'
  BY <1>1, <1>8, <1>12, Numbers DEF IInv, Balance
<1>14. Resetting'
  BY <1>1, <1>4, <1>5 DEF Resetting
<1>15. LettingGo'
  BY <1>4, <1>5, <1>6, <1>12 DEF LettingGo
<1> QED
  BY <1>6, <1>7, <1>9, <1>11, <1>13, <1>14, <1>15 DEF IInv

(* A step that takes p elsewhere, outside of the releases and of the sleep, *)
(* and leaves the state word alone.                                         *)
LEMMA MoveInv ==
    ASSUME IInv, NEW p \in Proc, NEW there \in Places \ {"release", "acquire"},
           NEW s \in [v : 0..MaxUnits, w : 0..Cardinality(Proc)],
           pc' = [pc EXCEPT ![p] = there], state' = [state EXCEPT ![p] = s],
           UNCHANGED <<v, w, held, semVars>>,
           Returned(p), pc[p] = "release" => state[p].w = 0,
           there = "cas" => s.v > 0,
           there \in {"check", "reset"} => pc[p] = "check" /\ s = state[p],
           zero' \in [Proc -> BOOLEAN], \A x \in Proc : x # p => zero'[x] = zero[x],
           there \in {"load", "cas"} /\ v = 0 => zero'[p]
    PROVE  IInv'
<1>1. /\ pc \in [Proc -> Places] /\ state \in [Proc -> [v : 0..MaxUnits, w : Nat]]
      /\ Cardinality(Proc) \in Nat /\ s \in [v : 0..MaxUnits, w : Nat]
      /\ LocalOf(p) /\ s.w \in 0..Cardinality(Proc)
  BY Numbers
<1>2. /\ pc' \in [Proc -> Places] /\ state' \in [Proc -> [v : 0..MaxUnits, w : Nat]]
      /\ pc'[p] = there /\ state'[p] = s
      /\ \A x \in Proc : x # p => pc'[x] = pc[x] /\ state'[x] = state[x]
  BY <1>1
<1>3. /\ SemInv' /\ req' = req /\ \A x \in Proc : Returned(x)' <=> Returned(x)
      /\ Permits(sema)' = Permits(sema)
  BY WGFrame
<1>4. TypeOK'
  BY <1>2, <1>3, Numbers DEF TypeOK, Places, SemInv
<1>5. Local'
  <2>1. LocalOf(p)'
    BY <1>1, <1>2, <1>3 DEF LocalOf, Returned
  <2> QED
    BY <2>1, <1>2, <1>3, LocalStep DEF IInv
<1>6. Owed' = Owed /\ Cardinality(Sleeping)' = Cardinality(Sleeping)
  <2>1. Releases(p) = 0 /\ Releases(p)' = 0 /\ ~Sleeps(p) /\ ~Sleeps(p)'
    BY <1>2 DEF Releases, Sleeps
  <2>2. state'[p].w \in 0..Cardinality(Proc)
    BY <1>1, <1>2
  <2>3. /\ Total(ToRelease)' = Total(ToRelease) /\ Cardinality(Sleeping)' = Cardinality(Sleeping)
    BY <2>1, <2>2, <1>2, <1>3, BalanceStep, Numbers
  <2> QED
    BY <2>3, <1>3 DEF Owed
<1>7. Balance'
  BY <1>6 DEF IInv, Balance, Total, Shares
<1>8. Resetting'
  <2>1. ASSUME NEW x \in Proc, pc'[x] \in {"check", "reset"}
        PROVE  pc[x] \in {"check", "reset"} /\ state'[x] = state[x]
    BY <2>1, <1>2
  <2> QED
    BY <2>1 DEF IInv, Resetting, Word
<1>9. LettingGo'
  BY <1>2, <1>3, <1>6 DEF IInv, LettingGo
<1>10. SeesZero'
  <2> SUFFICES ASSUME NEW x \in Proc, InWait(x)', v' = 0 PROVE zero'[x]
    BY DEF SeesZero
  <2>1. CASE x # p
    <3>1. InWait(x) /\ v = 0
      BY <2>1, <1>2 DEF InWait
    <3> QED
      BY <3>1, <2>1, Zenon DEF IInv, SeesZero
  <2>2. CASE x = p
    <3>1. there \in {"load", "cas"}
      BY <2>2, <1>2 DEF InWait
    <3> QED
      BY <3>1, <2>2, Zenon
  <2> QED
    BY <2>1, <2>2
<1> QED
  BY <1>3, <1>4, <1>5, <1>7, <1>8, <1>9, <1>10 DEF IInv

(* The state words that fit the type. *)
LEMMA Words ==
    ASSUME IInv
    PROVE  /\ Word(0, 0) \in [v : 0..MaxUnits, w : 0..Cardinality(Proc)]
           /\ Word(v, w) \in [v : 0..MaxUnits, w : 0..Cardinality(Proc)]
           /\ Word(v, w).v = v /\ Word(v, w).w = w /\ Word(0, 0).v = 0 /\ Word(0, 0).w = 0
           /\ \A p \in Proc : /\ state[p] \in [v : 0..MaxUnits, w : 0..Cardinality(Proc)]
                             /\ state = [state EXCEPT ![p] = state[p]]
<1>1. /\ MaxUnits \in Nat /\ v \in 0..MaxUnits /\ w \in Nat /\ w <= Cardinality(Proc)
      /\ Cardinality(Proc) \in Nat /\ state \in [Proc -> [v : 0..MaxUnits, w : Nat]]
      /\ \A p \in Proc : state[p].w <= Cardinality(Proc)
  BY Numbers DEF LocalOf
<1> QED
  BY <1>1 DEF Word

LEMMA CheckMisuseInv ==
    ASSUME IInv, NEW p \in Proc, CheckMisuse(p)
    PROVE  IInv'
<1>1. /\ pc[p] = "check" /\ state' = state /\ zero' = zero
      /\ UNCHANGED <<v, w, held, semVars>>
  BY DEF CheckMisuse, At
<1>2. Word(v, w) = state[p]
  BY <1>1 DEF IInv, Resetting
<1>3. pc' = [pc EXCEPT ![p] = "reset"]
  BY <1>2 DEF CheckMisuse, Goto
<1>4. Returned(p)
  BY <1>1, Numbers DEF LocalOf
<1>5. PICK s \in [v : 0..MaxUnits, w : 0..Cardinality(Proc)] :
         s = state[p] /\ state' = [state EXCEPT ![p] = s]
  BY <1>1, Words
<1>6. zero' \in [Proc -> BOOLEAN] /\ \A x \in Proc : zero'[x] = zero[x]
  BY <1>1, Numbers
<1>7. "reset" \in Places \ {"release", "acquire"}
  BY DEF Places
<1> QED
  BY <1>1, <1>3, <1>4, <1>5, <1>6, <1>7, MoveInv

LEMMA AddReturnsInv ==
    ASSUME IInv, NEW p \in Proc, AddReturns(p)
    PROVE  IInv'
<1>1. /\ pc[p] = "release" /\ state[p].w = 0 /\ Returned(p) /\ state' = state /\ zero' = zero
      /\ UNCHANGED <<v, w, held, semVars>> /\ pc' = [pc EXCEPT ![p] = "idle"]
  BY DEF AddReturns, At, Goto
<1>2. PICK s \in [v : 0..MaxUnits, w : 0..Cardinality(Proc)] :
         s = state[p] /\ state' = [state EXCEPT ![p] = s]
  BY <1>1, Words
<1>3. zero' \in [Proc -> BOOLEAN] /\ \A x \in Proc : zero'[x] = zero[x]
  BY <1>1, Numbers
<1>4. "idle" \in Places \ {"release", "acquire"}
  BY DEF Places
<1> QED
  BY <1>1, <1>2, <1>3, <1>4, MoveInv

LEMMA ResetInv ==
    ASSUME IInv, NEW p \in Proc, Reset(p)
    PROVE  IInv'
<1>1. /\ pc[p] = "reset" /\ v' = 0 /\ w' = 0 /\ pc' = [pc EXCEPT ![p] = "release"]
      /\ state' = state /\ held' = held /\ UNCHANGED semVars /\ SetCounter(0)
  BY DEF Reset, SetCounter, Goto, At
<1>2. /\ v = 0 /\ w > 0 /\ state[p] = Word(v, w)
      /\ \A q \in Proc : pc[q] \in {"check", "reset"} => q = p
  BY <1>1 DEF IInv, Resetting
<1>3. /\ SemInv' /\ req' = req /\ \A x \in Proc : Returned(x)' <=> Returned(x)
      /\ Permits(sema)' = Permits(sema)
  BY <1>1, WGFrame
<1>4. /\ pc' \in [Proc -> Places] /\ pc'[p] = "release"
      /\ \A x \in Proc : x # p => pc'[x] = pc[x]
  BY <1>1, Numbers DEF Places
<1>5. zero' \in [Proc -> BOOLEAN] /\ SeesZero'
  <2>1. \A x \in Proc : InWait(x)' => InWait(x)
    BY <1>4 DEF InWait
  <2> QED
    BY <2>1, <1>1, CounterSeen
<1>6. TypeOK'
  BY <1>1, <1>3, <1>4, <1>5, Numbers DEF TypeOK, Places, SemInv
<1>7. LocalOf(p) /\ state[p].w \in 0..Cardinality(Proc) /\ state[p].w = w
  BY <1>2, Numbers, Words
<1>8. Local'
  <2>1. LocalOf(p)'
    BY <1>1, <1>3, <1>4, <1>7 DEF LocalOf, Returned
  <2> QED
    BY <2>1, <1>1, <1>3, <1>4, LocalStep DEF IInv
<1>9. /\ Total(ToRelease)' = Total(ToRelease) + w /\ Cardinality(Sleeping)' = Cardinality(Sleeping)
  <2>1. Releases(p) = 0 /\ Releases(p)' = w /\ ~Sleeps(p) /\ ~Sleeps(p)'
    BY <1>1, <1>4, <1>7 DEF Releases, Sleeps
  <2> QED
    BY <2>1, <1>1, <1>3, <1>4, <1>7, BalanceStep, Numbers
<1>10. Owed' = Owed + w
  BY <1>3, <1>9, Numbers DEF Owed
<1>11. Balance'
  <2>1. Total(held)' = Total(held)
    BY <1>1 DEF Total, Shares
  <2> QED
    BY <2>1, <1>1, <1>2, <1>9, <1>10, Numbers DEF IInv, Balance
<1>12. Resetting'
  BY <1>2, <1>4 DEF Resetting
<1>13. LettingGo'
  BY <1>1 DEF LettingGo
<1> QED
  BY <1>3, <1>5, <1>6, <1>8, <1>11, <1>12, <1>13 DEF IInv

LEMMA ReleaseInv ==
    ASSUME IInv, NEW p \in Proc, Release(p)
    PROVE  IInv'
<1> DEFINE s == Word(0, state[p].w - 1)
<1>1. /\ pc[p] = "release" /\ Returned(p) /\ state[p].w # 0 /\ Semrelease(p, sema, FALSE)
      /\ state' = [state EXCEPT ![p] = s]
      /\ v' = v /\ w' = w /\ pc' = pc /\ held' = held /\ zero' = zero
      /\ sem' = sem /\ queue' = queue
  BY DEF Release, At, SetState
<1>2. /\ SemInv /\ sema \in Addr /\ LocalOf(p) /\ Cardinality(Proc) \in Nat
      /\ state \in [Proc -> [v : 0..MaxUnits, w : Nat]] /\ MaxUnits \in Nat
  BY Numbers
<1>3. SemInv'
  BY <1>1, <1>2, CallInv
<1>4. /\ req'[p].op = "release" /\ req'[p].addr = sema /\ req'[p].flag = FALSE
      /\ \A x \in Proc : x # p => req'[x] = req[x]
      /\ Permits(sema)' = Permits(sema) + 1
  BY <1>1, <1>2, ReleaseCall
<1>5. /\ state[p].w \in Nat /\ state[p].w >= 1 /\ state[p].w <= Cardinality(Proc)
  BY <1>1, <1>2 DEF LocalOf
<1>6. s \in [v : 0..MaxUnits, w : Nat] /\ s.w = state[p].w - 1
  BY <1>2, <1>5 DEF Word
<1> HIDE DEF s
<1>7. /\ state' \in [Proc -> [v : 0..MaxUnits, w : Nat]] /\ state'[p].w = state[p].w - 1
      /\ state'[p].w \in 0..Cardinality(Proc)
      /\ \A x \in Proc : x # p => state'[x] = state[x]
  BY <1>1, <1>2, <1>5, <1>6
<1>8. TypeOK'
  BY <1>1, <1>3, <1>7, Numbers DEF TypeOK, Places, SemInv
<1>9. Local'
  <2>1. LocalOf(p)'
    BY <1>1, <1>2, <1>4, <1>7 DEF LocalOf
  <2> QED
    BY <2>1, <1>1, <1>4, <1>7, LocalStep DEF IInv
<1>10. \A x \in Proc : x # p => (Returned(x)' <=> Returned(x))
  BY <1>4 DEF Returned
<1>11. Total(ToRelease)' = Total(ToRelease) - 1 /\ Cardinality(Sleeping)' = Cardinality(Sleeping)
  <2>1. /\ Releases(p) = state[p].w /\ Releases(p)' = state[p].w - 1
        /\ ~Sleeps(p) /\ ~Sleeps(p)'
    BY <1>1, <1>7 DEF Releases, Sleeps
  <2> QED
    BY <2>1, <1>1, <1>5, <1>7, <1>10, BalanceStep, Numbers
<1>12. Owed' = Owed
  BY <1>4, <1>11, Numbers DEF Owed
<1>13. Balance'
  <2>1. Total(held)' = Total(held)
    BY <1>1 DEF Total, Shares
  <2> QED
    BY <2>1, <1>1, <1>11, <1>12 DEF IInv, Balance
<1>14. Resetting'
  <2>1. \A x \in Proc : pc[x] \in {"check", "reset"} => state'[x] = state[x]
    BY <1>1, <1>7
  <2> QED
    BY <2>1, <1>1 DEF IInv, Resetting, Word
<1>15. LettingGo'
  BY <1>1, <1>10, <1>12 DEF IInv, LettingGo
<1>16. SeesZero'
  BY <1>1, Zenon DEF IInv, SeesZero, InWait
<1> QED
  BY <1>3, <1>8, <1>9, <1>13, <1>14, <1>15, <1>16 DEF IInv

-----------------------------------------------------------------------------
(* Wait *)

LEMMA WaitInv ==
    ASSUME IInv, NEW p \in Proc, Wait(p)
    PROVE  IInv'
<1>1. /\ pc[p] = "idle" /\ pc' = [pc EXCEPT ![p] = "load"] /\ state' = state
      /\ UNCHANGED <<v, w, held, semVars>> /\ zero' = [zero EXCEPT ![p] = v = 0]
  BY DEF Wait, At, Goto
<1>2. Returned(p)
  BY <1>1, Numbers DEF LocalOf
<1>3. PICK s \in [v : 0..MaxUnits, w : 0..Cardinality(Proc)] :
         s = state[p] /\ state' = [state EXCEPT ![p] = s]
  BY <1>1, Words
<1>4. zero \in [Proc -> BOOLEAN]
  BY Numbers
<1>5. /\ zero' \in [Proc -> BOOLEAN] /\ \A x \in Proc : x # p => zero'[x] = zero[x]
      /\ v = 0 => zero'[p]
  BY <1>1, <1>4, Zenon
<1>6. "load" \in Places \ {"release", "acquire"}
  BY DEF Places
<1> QED
  BY <1>1, <1>2, <1>3, <1>5, <1>6, MoveInv

LEMMA LoadInv ==
    ASSUME IInv, NEW p \in Proc, Load(p)
    PROVE  IInv'
<1>1. /\ pc[p] = "load" /\ UNCHANGED <<v, w, held, semVars>>
      /\ zero' = [zero EXCEPT ![p] = zero[p] /\ v # 0]
      /\ \/ /\ v = 0 /\ pc' = [pc EXCEPT ![p] = "idle"]
            /\ state' = [state EXCEPT ![p] = Word(0, 0)]
         \/ /\ v # 0 /\ pc' = [pc EXCEPT ![p] = "cas"]
            /\ state' = [state EXCEPT ![p] = Word(v, w)]
  BY DEF Load, At, Goto, SetState
<1>2. Returned(p)
  BY <1>1, Numbers DEF LocalOf
<1>3. zero \in [Proc -> BOOLEAN]
  BY Numbers
<1>4. zero' \in [Proc -> BOOLEAN] /\ \A x \in Proc : x # p => zero'[x] = zero[x]
  BY <1>1, <1>3, Zenon
<1>5. {"idle", "cas"} \subseteq Places \ {"release", "acquire"}
  BY DEF Places
<1>6. CASE v = 0
  BY <1>1, <1>2, <1>4, <1>5, <1>6, MoveInv, Words
<1>7. CASE v # 0
  <2>1. PICK s \in [v : 0..MaxUnits, w : 0..Cardinality(Proc)] :
           s.v > 0 /\ state' = [state EXCEPT ![p] = s]
    BY <1>1, <1>7, Words, Numbers
  <2> QED
    BY <2>1, <1>1, <1>2, <1>4, <1>5, <1>7, MoveInv
<1> QED
  BY <1>6, <1>7

LEMMA CountWaiterInv ==
    ASSUME IInv, NEW p \in Proc, CountWaiter(p)
    PROVE  IInv'
<1>1. /\ pc[p] = "cas" /\ v' = v /\ held' = held /\ zero' = zero /\ sem' = sem /\ queue' = queue
      /\ state' = [state EXCEPT ![p] = Word(0, 0)]
  BY DEF CountWaiter, At, SetState
<1>2. /\ Returned(p) /\ state[p].v > 0 /\ LocalOf(p) /\ SemInv /\ sema \in Addr
      /\ pc \in [Proc -> Places] /\ state \in [Proc -> [v : 0..MaxUnits, w : Nat]]
      /\ zero \in [Proc -> BOOLEAN]
  BY <1>1, Numbers DEF LocalOf
<1>3. CASE Word(v, w) # state[p]
  <2>1. pc' = [pc EXCEPT ![p] = "load"] /\ UNCHANGED <<v, w, held, semVars>>
    BY <1>1, <1>3 DEF CountWaiter, Goto, semVars
  <2>2. "load" \in Places \ {"release", "acquire"}
    BY DEF Places
  <2>3. v = 0 => zero'[p]
    <3>1. InWait(p)
      BY <1>1 DEF InWait
    <3> QED
      BY <3>1, <1>1, Zenon DEF IInv, SeesZero
  <2> QED
    BY <2>1, <2>2, <2>3, <1>1, <1>2, MoveInv, Words
<1>4. CASE Word(v, w) = state[p]
  <2>1. w' = w + 1 /\ Semacquire(p, sema, FALSE) /\ pc' = [pc EXCEPT ![p] = "acquire"]
    BY <1>4 DEF CountWaiter, Goto
  <2>2. v > 0
    BY <1>2, <1>4, Words
  <2>3. /\ Owed = 0
        /\ \A x \in Proc : pc[x] \notin {"check", "reset"}
        /\ \A x \in Proc : ~(pc[x] = "acquire" /\ Returned(x))
    BY <2>2, Quiet
  <2>4. SemInv'
    BY <2>1, <1>1, <1>2, CallInv
  <2>5. /\ req'[p].op = "acquire" /\ req'[p].addr = sema /\ req'[p].flag = FALSE
        /\ \A x \in Proc : x # p => req'[x] = req[x]
        /\ Permits(sema)' = Permits(sema)
    BY <2>1, <1>1, <1>2, AcquireCall
  <2>6. /\ pc' \in [Proc -> Places] /\ pc'[p] = "acquire"
        /\ \A x \in Proc : x # p => pc'[x] = pc[x]
    BY <2>1, <1>2 DEF Places
  <2>7. /\ state' \in [Proc -> [v : 0..MaxUnits, w : Nat]] /\ state'[p].w \in 0..Cardinality(Proc)
        /\ \A x \in Proc : x # p => state'[x] = state[x]
    <3>1. Word(0, 0) \in [v : 0..MaxUnits, w : Nat] /\ Word(0, 0).w = 0 /\ Cardinality(Proc) \in Nat
      BY Words, Numbers
    <3> QED
      BY <3>1, <1>1, <1>2
  <2>8. TypeOK'
    BY <2>1, <2>4, <2>6, <2>7, <1>1, Numbers DEF TypeOK, Places, SemInv
  <2>9. Local'
    <3>1. LocalOf(p)'
      BY <2>5, <2>6, <2>7, Numbers DEF LocalOf
    <3> QED
      BY <3>1, <2>5, <2>6, <2>7, LocalStep DEF IInv
  <2>10. (\A x \in Proc : x # p => (Returned(x)' <=> Returned(x))) /\ ~Returned(p)'
    BY <2>5 DEF Returned
  <2>11. Total(ToRelease)' = Total(ToRelease) /\ Cardinality(Sleeping)' = Cardinality(Sleeping) + 1
    <3>1. Releases(p) = 0 /\ Releases(p)' = 0 /\ ~Sleeps(p) /\ Sleeps(p)'
      BY <2>6, <2>10, <1>1 DEF Releases, Sleeps
    <3> QED
      BY <3>1, <2>6, <2>7, <2>10, BalanceStep, Numbers
  <2>12. Owed' = Owed
    BY <2>5, <2>11 DEF Owed
  <2>13. Balance'
    <3>1. Total(held)' = Total(held)
      BY <1>1 DEF Total, Shares
    <3> QED
      BY <3>1, <2>1, <2>11, <2>12, <1>1, Numbers DEF IInv, Balance
  <2>14. Resetting'
    BY <2>3, <2>6 DEF Resetting
  <2>15. LettingGo'
    BY <2>3, <2>6, <2>10, <2>12 DEF LettingGo
  <2>16. SeesZero'
    BY <2>2, <1>1 DEF SeesZero
  <2> QED
    BY <2>4, <2>8, <2>9, <2>13, <2>14, <2>15, <2>16 DEF IInv
<1> QED
  BY <1>3, <1>4

LEMMA AcquiredInv ==
    ASSUME IInv, NEW p \in Proc, Acquired(p)
    PROVE  IInv'
<1>1. /\ pc[p] = "acquire" /\ Returned(p) /\ state' = state
      /\ UNCHANGED <<v, w, held, semVars>> /\ zero' = [zero EXCEPT ![p] = FALSE]
  BY DEF Acquired, At
<1>2. v = 0 /\ w = 0
  BY <1>1 DEF IInv, LettingGo
<1>3. pc' = [pc EXCEPT ![p] = "idle"]
  BY <1>2 DEF Acquired, Goto
<1>4. PICK s \in [v : 0..MaxUnits, w : 0..Cardinality(Proc)] :
         s = state[p] /\ state' = [state EXCEPT ![p] = s]
  BY <1>1, Words
<1>5. zero \in [Proc -> BOOLEAN]
  BY Numbers
<1>6. zero' \in [Proc -> BOOLEAN] /\ \A x \in Proc : x # p => zero'[x] = zero[x]
  BY <1>1, <1>5, Zenon
<1>7. "idle" \in Places \ {"release", "acquire"}
  BY DEF Places
<1> QED
  BY <1>1, <1>3, <1>4, <1>6, <1>7, MoveInv

-----------------------------------------------------------------------------
(* A step inside a semaphore call. *)
LEMMA CallStepInv ==
    ASSUME IInv, NEW p \in Proc, SemStep(p), UNCHANGED wgVars
    PROVE  IInv'
<1>1. v' = v /\ w' = w /\ pc' = pc /\ state' = state /\ held' = held /\ zero' = zero
  BY DEF wgVars
<1>2. SemInv /\ sema \in Addr /\ \A x \in Proc : LocalOf(x)
  BY Numbers
<1>3. SemInv'
  BY <1>2, SemStepInv
<1>4. SemEffect(p)
  <2>1. \A x \in Proc : req[x].flag = FALSE
    BY <1>2 DEF LocalOf
  <2> QED
    BY <2>1, <1>2, SemStepEffect
<1>5. TypeOK'
  BY <1>1, <1>3 DEF IInv, TypeOK, SemInv
<1>6. req' \in [Proc -> Request] /\ req \in [Proc -> Request]
  BY <1>2, <1>3 DEF SemInv, SemTypeOK
<1>7. \A x \in Proc : x # p => (Returned(x)' <=> Returned(x))
  BY <1>4 DEF SemEffect, SameCall
<1>8. Local'
  <2> SUFFICES ASSUME NEW x \in Proc PROVE LocalOf(x)'
    BY DEF Local
  <2>1. LocalOf(x) /\ req'[x].flag = FALSE
    BY <1>2, <1>4 DEF SemEffect
  <2>2. SameCall(x) \/ Returned(x)'
    BY <1>4 DEF SemEffect
  <2>3. CASE Returned(x)'
    BY <2>1, <2>3, <1>1 DEF LocalOf
  <2>4. CASE SameCall(x)
    <3>1. req[x] \in Request /\ req'[x] \in Request
      BY <1>6
    <3>2. /\ req[x].op \in {"none", "acquire", "parked", "release", "dequeue", "ready"}
          /\ req'[x].op \in {"none", "acquire", "parked", "release", "dequeue", "ready"}
      BY <3>1 DEF Request
    <3> QED
      BY <2>1, <2>4, <3>2, <1>1 DEF LocalOf, SameCall, Returned, Acquiring
  <2> QED
    BY <2>2, <2>3, <2>4
<1>9. state'[p].w \in 0..Cardinality(Proc) /\ Releases(p)' = Releases(p)
  <2>1. state[p].w \in 0..Cardinality(Proc)
    BY Words
  <2> QED
    BY <2>1, <1>1 DEF Releases
<1>10. /\ Total(ToRelease)' = Total(ToRelease) /\ Cardinality(Sleeping) \in Nat
       /\ Cardinality(Sleeping)' = Cardinality(Sleeping) + (IF Sleeps(p)' THEN 1 ELSE 0)
                                                        - (IF Sleeps(p) THEN 1 ELSE 0)
  BY <1>1, <1>7, <1>9, BalanceStep, Numbers
<1>11. Total(held)' = Total(held)
  BY <1>1 DEF Total, Shares
<1>12. Resetting'
  BY <1>1 DEF IInv, Resetting
<1>13. SeesZero'
  BY <1>1, Zenon DEF IInv, SeesZero, InWait
<1>14. CASE /\ Acquiring(p) /\ Returned(p)'
            /\ \E a \in Addr : /\ a = req[p].addr /\ Permits(a) > 0
                               /\ Permits(a)' = Permits(a) - 1
                               /\ \A b \in Addr : b # a => Permits(b)' = Permits(b)
  <2>1. pc[p] = "acquire" /\ ~Returned(p) /\ req[p].addr = sema
    BY <1>2, <1>14 DEF LocalOf, Acquiring, Returned
  <2>2. Permits(sema) > 0 /\ Permits(sema)' = Permits(sema) - 1
    <3>1. PICK a \in Addr : /\ a = req[p].addr /\ Permits(a) > 0
                            /\ Permits(a)' = Permits(a) - 1
      BY <1>14
    <3> QED
      BY <3>1, <2>1
  <2>3. Owed' = Owed - 1 /\ Owed > 0
    BY <2>2, <1>10, Numbers DEF Owed
  <2>4. Cardinality(Sleeping)' = Cardinality(Sleeping) - 1
    <3>1. Sleeps(p) /\ ~Sleeps(p)'
      BY <2>1, <1>14 DEF Sleeps
    <3> QED
      BY <3>1, <1>10
  <2>5. Balance'
    BY <2>3, <2>4, <1>1, <1>10, <1>11, Numbers DEF IInv, Balance
  <2>6. LettingGo'
    BY <2>3, <1>1 DEF IInv, LettingGo
  <2> QED
    BY <2>5, <2>6, <1>3, <1>5, <1>8, <1>12, <1>13 DEF IInv
<1>15. CASE /\ SameCall(p) \/ (~Acquiring(p) /\ ~Returned(p) /\ Returned(p)')
            /\ \A b \in Addr : Permits(b)' = Permits(b)
  <2>1. pc[p] = "acquire" => (Returned(p)' <=> Returned(p))
    BY <1>2, <1>15 DEF LocalOf, SameCall, Acquiring, Returned
  <2>2. Sleeps(p)' <=> Sleeps(p)
    BY <2>1, <1>1 DEF Sleeps
  <2>3. Cardinality(Sleeping)' = Cardinality(Sleeping)
    BY <2>2, <1>10
  <2>4. Owed' = Owed
    BY <1>2, <1>10, <1>15 DEF Owed
  <2>5. Balance'
    BY <2>3, <2>4, <1>1, <1>11 DEF IInv, Balance
  <2>6. LettingGo'
    BY <2>1, <2>4, <1>1, <1>7 DEF IInv, LettingGo
  <2> QED
    BY <2>5, <2>6, <1>3, <1>5, <1>8, <1>12, <1>13 DEF IInv
<1> QED
  BY <1>4, <1>14, <1>15 DEF SemEffect

-----------------------------------------------------------------------------
LEMMA InitInv == Init => IInv
<1> SUFFICES ASSUME Init PROVE IInv
  OBVIOUS
<1>1. /\ v = 0 /\ w = 0 /\ pc = [p \in Proc |-> "idle"] /\ state = [p \in Proc |-> Word(0, 0)]
      /\ held = [p \in Proc |-> 0] /\ zero = [p \in Proc |-> FALSE] /\ SemInit
  BY DEF Init
<1>2. SemInv /\ MaxUnits \in Nat /\ sema \in Addr
  BY <1>1, SemInitInv, WaitGroupConstants
<1>3. \A p \in Proc : req[p].op = "none" /\ req[p].flag = FALSE
  BY <1>1 DEF SemInit, NoRequest
<1>4. zero \in [Proc -> BOOLEAN]
  BY <1>1, Zenon
<1>5. Word(0, 0) \in [v : 0..MaxUnits, w : Nat] /\ Word(0, 0).w = 0
  BY <1>2 DEF Word
<1>6. TypeOK
  BY <1>1, <1>2, <1>4, <1>5 DEF TypeOK, SemInv
<1>7. Local
  <2>1. Cardinality(Proc) \in Nat
    BY SemaphoreConstants, FS_CardinalityType
  <2> QED
    BY <2>1, <1>1, <1>3, <1>5 DEF Local, LocalOf, Returned
<1>8. Resetting
  BY <1>1 DEF Resetting
<1>9. Sleeping = {} /\ Cardinality(Sleeping) = 0
  BY <1>1, FS_EmptySet DEF Sleeping, At
<1>10. Total(held) = 0 /\ Total(ToRelease) = 0
  <2>1. \A p \in Proc : held[p] = 0
    BY <1>1
  <2>2. \A p \in Proc : ToRelease[p] = 0
    BY <1>1 DEF ToRelease, At
  <2>3. Total(held) = 0
    BY <2>1, TotalZero
  <2>4. Total(ToRelease) = 0
    BY <2>2, TotalZero
  <2> QED
    BY <2>3, <2>4
<1>11. Permits(sema) = 0
  <2>1. Releasing(sema) = {}
    BY <1>3 DEF Releasing
  <2>2. sem[sema] = 0
    BY <1>1, <1>2 DEF SemInit
  <2> QED
    BY <2>1, <2>2, FS_EmptySet DEF Permits
<1>12. Owed = 0
  BY <1>10, <1>11 DEF Owed
<1>13. Balance /\ LettingGo
  BY <1>1, <1>9, <1>10, <1>12 DEF Balance, LettingGo
<1>14. SeesZero
  BY <1>1 DEF SeesZero, InWait
<1> QED
  BY <1>2, <1>6, <1>7, <1>8, <1>13, <1>14 DEF IInv

LEMMA NextInv == IInv /\ [Next]_vars => IInv'
<1> SUFFICES ASSUME IInv, [Next]_vars PROVE IInv'
  OBVIOUS
<1>1. CASE Next
  <2>1. PICK p \in Proc :
           \/ Wait(p) \/ Step(p)
           \/ \E d \in Units : Subtract(p, d) \/ \E q \in Proc : Add(p, d, q)
    BY <1>1 DEF Next
  <2>2. CASE Wait(p)
    BY <2>2, WaitInv
  <2>3. CASE \E d \in Units : Subtract(p, d) \/ \E q \in Proc : Add(p, d, q)
    BY <2>3, SubtractInv, AddInv
  <2>4. CASE Step(p)
    BY <2>4, CheckMisuseInv, ResetInv, ReleaseInv, AddReturnsInv, LoadInv, CountWaiterInv,
       AcquiredInv, CallStepInv DEF Step
  <2> QED
    BY <2>1, <2>2, <2>3, <2>4
<1>2. CASE UNCHANGED vars
  <2>1. UNCHANGED semVars /\ UNCHANGED wgVars
    BY <1>2 DEF vars, semVars, wgVars
  <2>2. SemInv'
    BY <2>1, WGFrame
  <2>3. v' = v /\ w' = w /\ pc' = pc /\ state' = state /\ held' = held /\ zero' = zero
        /\ sem' = sem /\ queue' = queue /\ req' = req
    BY <1>2 DEF vars
  <2> QED
    BY <2>2, <2>3 DEF IInv, TypeOK, SemInv, SemTypeOK, Local, LocalOf, Returned, Resetting,
       Balance, Owed, Permits, Releasing, Total, Shares, ToRelease, At, Sleeping, LettingGo,
       SeesZero, InWait
<1> QED
  BY <1>1, <1>2

(* Only Load and Acquired end a Wait, and both have seen the counter at zero. *)
LEMMA LeavesAtZero ==
    ASSUME IInv, [Next]_vars, NEW p \in Proc, InWait(p), ~InWait(p)'
    PROVE  zero[p]
<1>1. pc'[p] # pc[p]
  BY DEF InWait
<1>2. PICK q \in Proc :
           \/ Wait(q) \/ Step(q)
           \/ \E d \in Units : Subtract(q, d) \/ \E t \in Proc : Add(q, d, t)
  BY <1>1 DEF Next, vars
<1>3. pc \in [Proc -> Places]
  BY Numbers
<1>4. Load(q) \/ Acquired(q)
  <2>1. ASSUME \E there : pc' = [pc EXCEPT ![q] = there] PROVE q = p
    BY <2>1, <1>1, <1>3
  <2>2. ASSUME Wait(q) \/ CheckMisuse(q) \/ Reset(q) \/ AddReturns(q) PROVE FALSE
    BY <2>1, <2>2 DEF Wait, CheckMisuse, Reset, AddReturns, Goto, At, InWait
  <2>3. ASSUME \E d \in Units : Subtract(q, d) \/ \E t \in Proc : Add(q, d, t) PROVE FALSE
    BY <2>1, <2>3 DEF Subtract, Add, Goto, At, InWait
  <2>4. ASSUME Release(q) PROVE FALSE
    BY <2>4, <1>1 DEF Release
  <2>5. ASSUME CountWaiter(q) PROVE FALSE
    BY <2>1, <2>5, <1>3 DEF CountWaiter, Goto, InWait
  <2>6. ASSUME SemStep(q), UNCHANGED wgVars PROVE FALSE
    BY <2>6, <1>1 DEF wgVars
  <2> QED
    BY <2>2, <2>3, <2>4, <2>5, <2>6, <1>2 DEF Step
<1>5. q = p
  BY <1>1, <1>3, <1>4 DEF Load, Acquired, Goto
<1>6. v = 0
  <2>1. CASE Load(q)
    <3>1. CASE v # 0
      <4>1. pc' = [pc EXCEPT ![p] = "cas"]
        BY <2>1, <3>1, <1>5 DEF Load, Goto
      <4> QED
        BY <4>1, <1>3 DEF InWait
    <3> QED
      BY <3>1
  <2>2. CASE Acquired(q)
    BY <2>2, <1>5 DEF Acquired, At, IInv, LettingGo
  <2> QED
    BY <2>1, <2>2, <1>4
<1> QED
  BY <1>6, Zenon DEF IInv, SeesZero

-----------------------------------------------------------------------------
(* The inductive invariant holds in every reachable state. *)
THEOREM WaitGroupInvariant == Spec => []IInv
  BY InitInv, NextInv, PTL DEF Spec

(* However Adds, Dones and Waits overlap, and also when the WaitGroup is    *)
(* used again while earlier waiters have not woken yet, the waiters that    *)
(* sleep are exactly those counted in the state word plus those a release   *)
(* is coming for, the counter is the number of units to give back, and none *)
(* of the panics of Add and Wait is reached by clients that keep the rules. *)
THEOREM WaitGroupCounted == Spec => []WaitersCounted
<1>1. IInv => WaitersCounted
  BY DEF IInv, Balance, WaitersCounted
<1> QED
  BY <1>1, WaitGroupInvariant, PTL

(* Wait returns only if the counter was zero at some time during the call. *)
THEOREM WaitGroupReturnsAtZero == Spec => ReturnsAtZero
<1>1. IInv /\ [Next]_vars => [\A p \in Proc : InWait(p) /\ ~InWait(p)' => zero[p]]_vars
  BY LeavesAtZero
<1> QED
  BY <1>1, WaitGroupInvariant, PTL DEF Spec, ReturnsAtZero
=============================================================================
