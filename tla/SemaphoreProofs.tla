-------------------------- MODULE SemaphoreProofs --------------------------
(* Proofs about Semaphore: the queues hold exactly sleeping goroutines, and *)
(* no wakeup is lost, for any number of goroutines and semaphore words.     *)
EXTENDS Semaphore, FiniteSetTheorems, TLAPS

-----------------------------------------------------------------------------
(* What queueing at either end and dequeueing do to a wait queue. *)

(* A queue of goroutines holds goroutines. *)
LEMMA RangeSeq ==
    ASSUME NEW S, NEW s \in Seq(S)
    PROVE  Range(s) \subseteq S
  BY DEF Range

(* Queueing a goroutine in front. *)
LEMMA PrependFacts ==
    ASSUME NEW S, NEW s \in Seq(S), NEW x \in S
    PROVE  /\ <<x>> \o s \in Seq(S)
           /\ <<x>> \o s # <<>>
           /\ Range(<<x>> \o s) = Range(s) \union {x}
           /\ IsInjective(s) /\ x \notin Range(s) => IsInjective(<<x>> \o s)
<1> DEFINE t == <<x>> \o s
<1>1. /\ t \in Seq(S) /\ Len(t) = Len(s) + 1 /\ t[1] = x
      /\ \A k \in 1..Len(s) : t[k + 1] = s[k]
  OBVIOUS
<1> HIDE DEF t
<1>2. /\ Len(s) \in Nat /\ DOMAIN s = 1..Len(s) /\ DOMAIN t = 1..Len(s) + 1
      /\ \A k \in 2..Len(s) + 1 : k - 1 \in 1..Len(s) /\ t[k] = s[k - 1]
  BY <1>1
<1>3. t # <<>>
  BY <1>1, <1>2
<1>4. Range(t) = Range(s) \union {x}
  <2>1. ASSUME NEW y \in Range(t) PROVE y \in Range(s) \union {x}
    <3>1. PICK k \in 1..Len(s) + 1 : y = t[k]
      BY <1>2 DEF Range
    <3>2. k = 1 \/ k \in 2..Len(s) + 1
      BY <1>2
    <3>3. CASE k \in 2..Len(s) + 1
      <4>1. k - 1 \in DOMAIN s /\ s[k - 1] = y
        BY <3>1, <3>3, <1>2
      <4> QED
        BY <4>1 DEF Range
    <3> QED
      BY <3>1, <3>2, <3>3, <1>1
  <2>2. ASSUME NEW y \in Range(s) PROVE y \in Range(t)
    <3>1. PICK k \in 1..Len(s) : y = s[k]
      BY <1>2 DEF Range
    <3>2. k + 1 \in DOMAIN t /\ t[k + 1] = y
      BY <3>1, <1>1, <1>2
    <3> QED
      BY <3>2 DEF Range
  <2>3. x \in Range(t)
    BY <1>1, <1>2 DEF Range
  <2> QED
    BY <2>1, <2>2, <2>3
<1>5. ASSUME IsInjective(s), x \notin Range(s),
             NEW i \in DOMAIN t, NEW j \in DOMAIN t, t[i] = t[j]
      PROVE  i = j
  <2>1. \A k \in 2..Len(s) + 1 : k - 1 \in DOMAIN s /\ t[k] = s[k - 1] /\ t[k] # x
    <3>1. ASSUME NEW k \in 2..Len(s) + 1
          PROVE  k - 1 \in DOMAIN s /\ t[k] = s[k - 1]
      BY <1>2
    <3>2. \A k \in DOMAIN s : s[k] # x
      BY <1>5 DEF Range
    <3> QED
      BY <3>1, <3>2
  <2>2. i = 1 <=> j = 1
    BY <2>1, <1>1, <1>2, <1>5
  <2>3. CASE i # 1 /\ j # 1
    <3>1. i \in 2..Len(s) + 1 /\ j \in 2..Len(s) + 1
      BY <2>3, <1>2
    <3>2. i - 1 \in DOMAIN s /\ j - 1 \in DOMAIN s /\ s[i - 1] = s[j - 1]
      BY <3>1, <2>1, <1>5
    <3>3. i - 1 = j - 1
      BY <3>2, <1>5 DEF IsInjective
    <3> QED
      BY <3>1, <3>3
  <2> QED
    BY <2>2, <2>3
<1>6. IsInjective(s) /\ x \notin Range(s) => IsInjective(t)
  BY <1>5 DEF IsInjective
<1> QED
  BY <1>1, <1>3, <1>4, <1>6 DEF t

(* Queueing a goroutine at the back. *)
LEMMA AppendFacts ==
    ASSUME NEW S, NEW s \in Seq(S), NEW x \in S
    PROVE  /\ Append(s, x) \in Seq(S)
           /\ Append(s, x) # <<>>
           /\ Range(Append(s, x)) = Range(s) \union {x}
           /\ IsInjective(s) /\ x \notin Range(s) => IsInjective(Append(s, x))
<1> DEFINE t == Append(s, x)
<1>1. /\ t \in Seq(S) /\ Len(t) = Len(s) + 1 /\ t[Len(s) + 1] = x
      /\ \A k \in 1..Len(s) : t[k] = s[k]
  OBVIOUS
<1> HIDE DEF t
<1>2. Len(s) \in Nat /\ DOMAIN s = 1..Len(s) /\ DOMAIN t = 1..Len(s) + 1
  BY <1>1
<1>3. t # <<>>
  BY <1>1, <1>2
<1>4. Range(t) = Range(s) \union {x}
  BY <1>1, <1>2 DEF Range
<1>5. IsInjective(s) /\ x \notin Range(s) => IsInjective(t)
  BY <1>1, <1>2 DEF IsInjective, Range
<1> QED
  BY <1>1, <1>3, <1>4, <1>5 DEF t

(* Taking the first goroutine out of a queue. *)
LEMMA TailFacts ==
    ASSUME NEW S, NEW s \in Seq(S), s # <<>>
    PROVE  /\ Tail(s) \in Seq(S)
           /\ Head(s) \in S /\ Head(s) \in Range(s)
           /\ Range(Tail(s)) \subseteq Range(s)
           /\ IsInjective(s) => IsInjective(Tail(s)) /\ Head(s) \notin Range(Tail(s))
<1> DEFINE t == Tail(s)
<1>1. /\ t \in Seq(S) /\ Len(s) \in Nat \ {0} /\ Len(t) = Len(s) - 1
      /\ Head(s) = s[1] /\ Head(s) \in S
      /\ \A k \in 1..Len(s) - 1 : t[k] = s[k + 1]
  OBVIOUS
<1> HIDE DEF t
<1>2. /\ DOMAIN s = 1..Len(s) /\ DOMAIN t = 1..Len(s) - 1 /\ 1 \in DOMAIN s
      /\ \A k \in DOMAIN t : k + 1 \in DOMAIN s /\ t[k] = s[k + 1] /\ k + 1 # 1
  BY <1>1
<1>3. Head(s) \in Range(s)
  BY <1>1, <1>2 DEF Range
<1>4. Range(t) \subseteq Range(s)
  BY <1>2 DEF Range
<1>5. ASSUME IsInjective(s) PROVE IsInjective(t) /\ Head(s) \notin Range(t)
  <2>1. IsInjective(t)
    BY <1>1, <1>2, <1>5 DEF IsInjective
  <2>2. Head(s) \notin Range(t)
    BY <1>1, <1>2, <1>5 DEF IsInjective, Range
  <2> QED
    BY <2>1, <2>2
<1> QED
  BY <1>1, <1>3, <1>4, <1>5 DEF t

(* A queue holds its first goroutine and those behind it. *)
LEMMA HeadTailRange ==
    ASSUME NEW S, NEW s \in Seq(S), s # <<>>
    PROVE  Range(s) = Range(Tail(s)) \union {Head(s)}
<1> DEFINE t == Tail(s)
<1>1. /\ t \in Seq(S) /\ Len(s) \in Nat \ {0} /\ Len(t) = Len(s) - 1 /\ Head(s) = s[1]
      /\ \A k \in 1..Len(s) - 1 : t[k] = s[k + 1]
  OBVIOUS
<1> HIDE DEF t
<1>2. ASSUME NEW y \in Range(s) PROVE y \in Range(t) \union {Head(s)}
  <2>1. PICK k \in 1..Len(s) : y = s[k]
    BY DEF Range
  <2>2. CASE k # 1
    <3>1. k - 1 \in 1..Len(s) - 1 /\ t[k - 1] = s[(k - 1) + 1] /\ (k - 1) + 1 = k
      BY <1>1, <2>2
    <3>2. k - 1 \in DOMAIN t /\ t[k - 1] = y
      BY <1>1, <2>1, <3>1
    <3> QED
      BY <3>2 DEF Range
  <2> QED
    BY <1>1, <2>1, <2>2
<1>3. Range(t) \subseteq Range(s) /\ Head(s) \in Range(s)
  BY TailFacts DEF t
<1> QED
  BY <1>2, <1>3 DEF t

-----------------------------------------------------------------------------
SemInv == SemTypeOK /\ Sleepers /\ NoLostWakeup

(* The goroutines on their way to a semaphore word can be counted. *)
LEMMA MoversFinite ==
    ASSUME NEW a
    PROVE  IsFiniteSet(Movers(a)) /\ Cardinality(Movers(a)) \in Nat
<1>1. Movers(a) \in SUBSET Proc
  BY DEF Movers
<1>2. IsFiniteSet(Movers(a))
  BY <1>1, SemaphoreConstants, FS_Subset
<1> QED
  BY <1>2, FS_CardinalityType

(* What a step of p on word a must do to the number of goroutines on their *)
(* way so that no wakeup is lost.                                          *)
LEMMA MoversStep ==
    ASSUME NEW a \in Addr, NEW p, sem[a] \in Nat, sem'[a] \in Nat,
           queue[a] # <<>> => sem[a] <= Cardinality(Movers(a)),
           queue'[a] # <<>> => queue[a] # <<>>,
           \/ sem'[a] <= sem[a] + 1 /\ p \notin Movers(a) /\ Movers(a)' = Movers(a) \union {p}
           \/ sem'[a] <= sem[a] - 1 /\ Movers(a)' = Movers(a) \ {p}
           \/ sem'[a] <= sem[a] /\ Movers(a)' = Movers(a)
    PROVE  queue'[a] # <<>> => sem'[a] <= Cardinality(Movers(a)')
<1> DEFINE M == Movers(a)
<1>1. IsFiniteSet(M) /\ Cardinality(M) \in Nat
  BY MoversFinite
<1>2. Cardinality(M \union {p}) = IF p \in M THEN Cardinality(M) ELSE Cardinality(M) + 1
  BY <1>1, FS_AddElement
<1>3. Cardinality(M \ {p}) = IF p \in M THEN Cardinality(M) - 1 ELSE Cardinality(M)
  BY <1>1, FS_RemoveElement
<1> HIDE DEF M
<1> DEFINE c == Cardinality(M)
<1>4. CASE sem'[a] <= sem[a] + 1 /\ p \notin M /\ Movers(a)' = M \union {p}
  <2>1. Cardinality(Movers(a)') = c + 1
    BY <1>2, <1>4
  <2> QED
    BY <2>1, <1>1, <1>4 DEF M
<1>5. CASE sem'[a] <= sem[a] - 1 /\ Movers(a)' = M \ {p}
  <2>1. Cardinality(Movers(a)') = c - 1 \/ Cardinality(Movers(a)') = c
    BY <1>3, <1>5
  <2> QED
    BY <2>1, <1>1, <1>5 DEF M
<1>6. CASE sem'[a] <= sem[a] /\ Movers(a)' = M
  BY <1>1, <1>6 DEF M
<1> QED
  BY <1>4, <1>5, <1>6 DEF M

(* A word whose permits, queue and movers a step leaves alone. *)
LEMMA MoversSame ==
    ASSUME NEW a \in Addr,
           queue[a] # <<>> => sem[a] <= Cardinality(Movers(a)),
           sem'[a] = sem[a], queue'[a] = queue[a], Movers(a)' = Movers(a)
    PROVE  queue'[a] # <<>> => sem'[a] <= Cardinality(Movers(a)')
  OBVIOUS

(* A step of p that neither sleeps, dequeues nor wakes anyone. *)
LEMMA SleepersSame ==
    ASSUME SemInv, NEW p \in Proc, queue' = queue,
           req[p].op # "parked", req'[p].op \notin {"parked", "ready"},
           \A x \in Proc : x # p => req'[x] = req[x]
    PROVE  Sleepers'
<1>1. \A a \in Addr : IsInjective(queue'[a])
  BY DEF SemInv, Sleepers
<1>2. \A a \in Addr : Range(queue[a]) \subseteq Proc
  BY DEF SemInv, SemTypeOK, Range
<1>3. \A a \in Addr : \A t \in Range(queue'[a]) : req'[t].op = "parked" /\ req'[t].addr = a
  BY <1>2 DEF SemInv, Sleepers
<1>4. ASSUME NEW r \in Proc, req'[r].op = "ready"
      PROVE  /\ req'[r].who \in Proc
             /\ req'[req'[r].who].op = "parked" /\ req'[req'[r].who].addr = req'[r].addr
             /\ \A a \in Addr : req'[r].who \notin Range(queue'[a])
             /\ \A q \in Proc : req'[q].op = "ready" /\ req'[q].who = req'[r].who => q = r
  <2>1. r # p /\ req'[r] = req[r]
    BY <1>4
  <2>2. \A q \in Proc : req'[q].op = "ready" => req'[q] = req[q]
    BY DEF SemInv
  <2> QED
    BY <1>4, <2>1, <2>2 DEF SemInv, Sleepers
<1> QED
  BY <1>1, <1>3, <1>4 DEF Sleepers

(* A call of runtime_Semacquire or runtime_Semrelease begins. *)
LEMMA CallInv ==
    ASSUME SemInv, NEW p \in Proc, NEW a \in Addr, NEW flag \in BOOLEAN, Returned(p),
           Semacquire(p, a, flag) \/ Semrelease(p, a, flag), UNCHANGED <<sem, queue>>
    PROVE  SemInv'
<1>1. PICK r \in Request : /\ req' = [req EXCEPT ![p] = r]
                           /\ r.op \in {"acquire", "release"} /\ r.addr = a
  <2>1. CASE Semacquire(p, a, flag)
    <3> DEFINE r == [op |-> "acquire", addr |-> a, flag |-> flag, who |-> Nil]
    <3>1. r \in Request /\ r.op = "acquire" /\ r.addr = a
      BY DEF Request
    <3>2. req' = [req EXCEPT ![p] = r]
      BY <2>1 DEF Semacquire
    <3> QED
      BY <3>1, <3>2
  <2>2. CASE Semrelease(p, a, flag)
    <3> DEFINE r == [op |-> "release", addr |-> a, flag |-> flag, who |-> Nil]
    <3>1. r \in Request /\ r.op = "release" /\ r.addr = a
      BY DEF Request
    <3>2. req' = [req EXCEPT ![p] = r]
      BY <2>2 DEF Semrelease
    <3> QED
      BY <3>1, <3>2
  <2> QED
    BY <2>1, <2>2
<1>2. /\ req \in [Proc -> Request] /\ req'[p] = r
      /\ \A x \in Proc : x # p => req'[x] = req[x]
  BY <1>1 DEF SemInv, SemTypeOK
<1>3. SemTypeOK'
  BY <1>1, <1>2 DEF SemInv, SemTypeOK
<1>4. Sleepers'
  BY <1>1, <1>2, SleepersSame DEF Returned
<1>5. ASSUME NEW b \in Addr
      PROVE  queue'[b] # <<>> => sem'[b] <= Cardinality(Movers(b)')
  <2>1. /\ sem[b] \in Nat /\ sem'[b] = sem[b] /\ queue'[b] = queue[b]
        /\ queue[b] # <<>> => sem[b] <= Cardinality(Movers(b))
    BY DEF SemInv, SemTypeOK, NoLostWakeup
  <2>2. p \notin Movers(b)
    BY DEF Movers, Returned
  <2>3. Movers(b)' = Movers(b) \/ Movers(b)' = Movers(b) \union {p}
    <3>1. CASE r.op = "acquire" /\ b = a
      BY <3>1, <1>1, <1>2 DEF Movers
    <3>2. CASE r.op = "release" \/ b # a
      BY <3>2, <2>2, <1>1, <1>2 DEF Movers
    <3> QED
      BY <3>1, <3>2, <1>1
  <2>4. \/ sem'[b] <= sem[b] + 1 /\ p \notin Movers(b) /\ Movers(b)' = Movers(b) \union {p}
        \/ sem'[b] <= sem[b] - 1 /\ Movers(b)' = Movers(b) \ {p}
        \/ sem'[b] <= sem[b] /\ Movers(b)' = Movers(b)
    BY <2>1, <2>2, <2>3
  <2> QED
    BY <2>1, <2>4, MoversStep
<1> QED
  BY <1>3, <1>4, <1>5 DEF SemInv, NoLostWakeup

(* A goroutine takes a permit. *)
LEMMA TakePermitInv ==
    ASSUME SemInv, NEW p \in Proc, TakePermit(p)
    PROVE  SemInv'
<1> DEFINE a == req[p].addr
<1>1. /\ req \in [Proc -> Request] /\ req[p].op = "acquire" /\ a \in Addr
      /\ sem \in [Addr -> Nat] /\ sem[a] \in Nat \ {0}
  BY DEF SemInv, SemTypeOK, TakePermit
<1>2. /\ sem' = [sem EXCEPT ![a] = sem[a] - 1] /\ queue' = queue
      /\ req' = [req EXCEPT ![p] = NoRequest]
  BY DEF TakePermit
<1> HIDE DEF a
<1>3. NoRequest \in Request /\ NoRequest.op = "none"
  BY DEF NoRequest, Request
<1>4. req'[p] = NoRequest /\ \A x \in Proc : x # p => req'[x] = req[x]
  BY <1>1, <1>2
<1>5. SemTypeOK'
  BY <1>1, <1>2, <1>3, <1>4 DEF SemInv, SemTypeOK
<1>6. Sleepers'
  <2>1. req[p].op # "parked" /\ req'[p].op \notin {"parked", "ready"} /\ queue' = queue
    BY <1>1, <1>2, <1>3, <1>4
  <2> QED
    BY <2>1, <1>4, SleepersSame
<1>7. ASSUME NEW b \in Addr
      PROVE  queue'[b] # <<>> => sem'[b] <= Cardinality(Movers(b)')
  <2>1. /\ sem[b] \in Nat /\ queue'[b] = queue[b]
        /\ queue[b] # <<>> => sem[b] <= Cardinality(Movers(b))
    BY <1>2 DEF SemInv, SemTypeOK, NoLostWakeup
  <2>2. CASE b = a
    <3>1. sem'[b] \in Nat /\ sem'[b] = sem[b] - 1
      BY <2>2, <1>1, <1>2
    <3>2. Movers(b)' = Movers(b) \ {p}
      BY <1>3, <1>4 DEF Movers
    <3>3. \/ sem'[b] <= sem[b] + 1 /\ p \notin Movers(b) /\ Movers(b)' = Movers(b) \union {p}
          \/ sem'[b] <= sem[b] - 1 /\ Movers(b)' = Movers(b) \ {p}
          \/ sem'[b] <= sem[b] /\ Movers(b)' = Movers(b)
      BY <2>1, <3>1, <3>2
    <3> QED
      BY <2>1, <3>1, <3>3, MoversStep
  <2>3. CASE b # a
    <3>1. sem'[b] = sem[b]
      BY <2>3, <1>1, <1>2
    <3>2. Movers(b)' = Movers(b)
      BY <2>3, <1>3, <1>4 DEF Movers, a
    <3> QED
      BY <2>1, <3>1, <3>2, MoversSame
  <2> QED
    BY <2>2, <2>3
<1> QED
  BY <1>5, <1>6, <1>7 DEF SemInv, NoLostWakeup

(* A release adds its permit. *)
LEMMA AddPermitInv ==
    ASSUME SemInv, NEW p \in Proc, AddPermit(p)
    PROVE  SemInv'
<1> DEFINE a == req[p].addr
           r == [req[p] EXCEPT !.op = "dequeue"]
<1>1. /\ req \in [Proc -> Request] /\ req[p].op = "release" /\ a \in Addr
      /\ sem \in [Addr -> Nat] /\ sem[a] \in Nat
  BY DEF SemInv, SemTypeOK, AddPermit
<1>2. /\ sem' = [sem EXCEPT ![a] = sem[a] + 1] /\ queue' = queue
      /\ req' = [req EXCEPT ![p] = r]
  BY DEF AddPermit
<1>3. r \in Request /\ r.op = "dequeue" /\ r.addr = a
  BY <1>1 DEF Request
<1> HIDE DEF a, r
<1>4. req'[p] = r /\ \A x \in Proc : x # p => req'[x] = req[x]
  BY <1>1, <1>2
<1>5. SemTypeOK'
  BY <1>1, <1>2, <1>3, <1>4 DEF SemInv, SemTypeOK
<1>6. Sleepers'
  <2>1. req[p].op # "parked" /\ req'[p].op \notin {"parked", "ready"} /\ queue' = queue
    BY <1>1, <1>2, <1>3, <1>4
  <2> QED
    BY <2>1, <1>4, SleepersSame
<1>7. ASSUME NEW b \in Addr
      PROVE  queue'[b] # <<>> => sem'[b] <= Cardinality(Movers(b)')
  <2>1. /\ sem[b] \in Nat /\ queue'[b] = queue[b]
        /\ queue[b] # <<>> => sem[b] <= Cardinality(Movers(b))
    BY <1>2 DEF SemInv, SemTypeOK, NoLostWakeup
  <2>2. CASE b = a
    <3>1. sem'[b] \in Nat /\ sem'[b] = sem[b] + 1
      BY <2>2, <1>1, <1>2
    <3>2. p \notin Movers(b) /\ Movers(b)' = Movers(b) \union {p}
      BY <2>2, <1>1, <1>3, <1>4 DEF Movers
    <3>3. \/ sem'[b] <= sem[b] + 1 /\ p \notin Movers(b) /\ Movers(b)' = Movers(b) \union {p}
          \/ sem'[b] <= sem[b] - 1 /\ Movers(b)' = Movers(b) \ {p}
          \/ sem'[b] <= sem[b] /\ Movers(b)' = Movers(b)
      BY <2>1, <3>1, <3>2
    <3> QED
      BY <2>1, <3>1, <3>3, MoversStep
  <2>3. CASE b # a
    <3>1. sem'[b] = sem[b]
      BY <2>3, <1>1, <1>2
    <3>2. Movers(b)' = Movers(b)
      BY <2>3, <1>1, <1>3, <1>4 DEF Movers, a
    <3> QED
      BY <2>1, <3>1, <3>2, MoversSame
  <2> QED
    BY <2>2, <2>3
<1> QED
  BY <1>5, <1>6, <1>7 DEF SemInv, NoLostWakeup

(* A release finds nobody to wake. *)
LEMMA NoWaiterInv ==
    ASSUME SemInv, NEW p \in Proc, NoWaiter(p)
    PROVE  SemInv'
<1> DEFINE a == req[p].addr
<1>1. /\ req \in [Proc -> Request] /\ req[p].op = "dequeue" /\ a \in Addr
      /\ queue[a] = <<>>
  BY DEF SemInv, SemTypeOK, NoWaiter
<1>2. sem' = sem /\ queue' = queue /\ req' = [req EXCEPT ![p] = NoRequest]
  BY DEF NoWaiter
<1> HIDE DEF a
<1>3. NoRequest \in Request /\ NoRequest.op = "none"
  BY DEF NoRequest, Request
<1>4. req'[p] = NoRequest /\ \A x \in Proc : x # p => req'[x] = req[x]
  BY <1>1, <1>2
<1>5. SemTypeOK'
  BY <1>1, <1>2, <1>3, <1>4 DEF SemInv, SemTypeOK
<1>6. Sleepers'
  <2>1. req[p].op # "parked" /\ req'[p].op \notin {"parked", "ready"} /\ queue' = queue
    BY <1>1, <1>2, <1>3, <1>4
  <2> QED
    BY <2>1, <1>4, SleepersSame
<1>7. ASSUME NEW b \in Addr
      PROVE  queue'[b] # <<>> => sem'[b] <= Cardinality(Movers(b)')
  <2>1. CASE b = a
    BY <2>1, <1>1, <1>2
  <2>2. CASE b # a
    <3>1. /\ sem'[b] = sem[b] /\ queue'[b] = queue[b]
          /\ queue[b] # <<>> => sem[b] <= Cardinality(Movers(b))
      BY <1>2 DEF SemInv, NoLostWakeup
    <3>2. Movers(b)' = Movers(b)
      BY <2>2, <1>3, <1>4 DEF Movers, a
    <3> QED
      BY <3>1, <3>2, MoversSame
  <2> QED
    BY <2>1, <2>2
<1> QED
  BY <1>5, <1>6, <1>7 DEF SemInv, NoLostWakeup

(* A goroutine goes to sleep. *)
LEMMA ParkInv ==
    ASSUME SemInv, NEW p \in Proc, Park(p)
    PROVE  SemInv'
<1> DEFINE a == req[p].addr
           r == [req[p] EXCEPT !.op = "parked"]
           s == IF req[p].flag THEN <<p>> \o queue[a] ELSE Append(queue[a], p)
<1>1. /\ req \in [Proc -> Request] /\ req[p].op = "acquire" /\ a \in Addr
      /\ queue \in [Addr -> Seq(Proc)] /\ queue[a] \in Seq(Proc)
      /\ sem \in [Addr -> Nat] /\ sem[a] = 0
  BY DEF SemInv, SemTypeOK, Park
<1>2. /\ sem' = sem /\ queue' = [queue EXCEPT ![a] = s]
      /\ req' = [req EXCEPT ![p] = r]
  BY DEF Park
<1>3. r \in Request /\ r.op = "parked" /\ r.addr = a
  BY <1>1 DEF Request
<1>4. \A b \in Addr : p \notin Range(queue[b])
  BY <1>1 DEF SemInv, Sleepers
<1>5. s \in Seq(Proc) /\ Range(s) = Range(queue[a]) \union {p} /\ IsInjective(s)
  <2>1. IsInjective(queue[a])
    BY <1>1 DEF SemInv, Sleepers
  <2>2. CASE req[p].flag
    BY <2>1, <2>2, <1>1, <1>4, PrependFacts
  <2>3. CASE ~req[p].flag
    BY <2>1, <2>3, <1>1, <1>4, AppendFacts
  <2> QED
    BY <2>2, <2>3
<1> HIDE DEF a, r, s
<1>6. /\ req'[p] = r /\ \A x \in Proc : x # p => req'[x] = req[x]
      /\ queue'[a] = s /\ \A b \in Addr : b # a => queue'[b] = queue[b]
  BY <1>1, <1>2
<1>7. SemTypeOK'
  BY <1>1, <1>2, <1>3, <1>5, <1>6 DEF SemInv, SemTypeOK
<1>8. \A b \in Addr : IsInjective(queue'[b])
  BY <1>5, <1>6 DEF SemInv, Sleepers
<1>9. ASSUME NEW b \in Addr, NEW t \in Range(queue'[b])
      PROVE  req'[t].op = "parked" /\ req'[t].addr = b
  <2>1. CASE t = p
    <3>1. b = a
      BY <2>1, <1>4, <1>6, <1>9
    <3> QED
      BY <2>1, <3>1, <1>3, <1>6
  <2>2. CASE t # p
    <3>1. t \in Range(queue[b])
      BY <2>2, <1>5, <1>6, <1>9
    <3>2. t \in Proc
      BY <3>1 DEF SemInv, SemTypeOK, Range
    <3> QED
      BY <2>2, <3>1, <3>2, <1>6 DEF SemInv, Sleepers
  <2> QED
    BY <2>1, <2>2
<1>10. ASSUME NEW x \in Proc, req'[x].op = "ready"
       PROVE  /\ req'[x].who \in Proc
              /\ req'[req'[x].who].op = "parked" /\ req'[req'[x].who].addr = req'[x].addr
              /\ \A b \in Addr : req'[x].who \notin Range(queue'[b])
              /\ \A q \in Proc : req'[q].op = "ready" /\ req'[q].who = req'[x].who => q = x
  <2>1. req'[x] = req[x]
    BY <1>3, <1>6, <1>10
  <2>2. /\ req[x].who \in Proc
        /\ req[req[x].who].op = "parked" /\ req[req[x].who].addr = req[x].addr
        /\ \A b \in Addr : req[x].who \notin Range(queue[b])
        /\ \A q \in Proc : req[q].op = "ready" /\ req[q].who = req[x].who => q = x
    BY <2>1, <1>10 DEF SemInv, Sleepers
  <2>3. req[x].who # p
    BY <2>2, <1>1
  <2>4. \A b \in Addr : req'[x].who \notin Range(queue'[b])
    BY <2>1, <2>2, <2>3, <1>5, <1>6
  <2>5. \A q \in Proc : req'[q].op = "ready" => req'[q] = req[q]
    BY <1>3, <1>6
  <2> QED
    BY <2>1, <2>2, <2>3, <2>4, <2>5, <1>6
<1>11. ASSUME NEW b \in Addr
       PROVE  queue'[b] # <<>> => sem'[b] <= Cardinality(Movers(b)')
  <2>1. CASE b = a
    <3>1. Cardinality(Movers(b)') \in Nat
      <4>1. Movers(b)' \in SUBSET Proc
        BY DEF Movers
      <4> QED
        BY <4>1, SemaphoreConstants, FS_Subset, FS_CardinalityType
    <3>2. sem'[b] = 0
      BY <2>1, <1>1, <1>2
    <3> QED
      BY <3>1, <3>2
  <2>2. CASE b # a
    <3>1. /\ sem'[b] = sem[b] /\ queue'[b] = queue[b]
          /\ queue[b] # <<>> => sem[b] <= Cardinality(Movers(b))
      BY <2>2, <1>2, <1>6 DEF SemInv, NoLostWakeup
    <3>2. Movers(b)' = Movers(b)
      BY <2>2, <1>3, <1>6 DEF Movers, a
    <3> QED
      BY <3>1, <3>2, MoversSame
  <2> QED
    BY <2>1, <2>2
<1>12. Sleepers'
  BY <1>8, <1>9, <1>10 DEF Sleepers
<1> QED
  BY <1>7, <1>12, <1>11 DEF SemInv, NoLostWakeup

(* A release takes the first sleeper out of the queue. *)
LEMMA DequeueInv ==
    ASSUME SemInv, NEW p \in Proc, Dequeue(p)
    PROVE  SemInv'
<1> DEFINE a == req[p].addr
           t == Head(queue[a])
           r == [req[p] EXCEPT !.op = "ready", !.who = t]
           s == Tail(queue[a])
<1>1. /\ req \in [Proc -> Request] /\ req[p].op = "dequeue" /\ a \in Addr
      /\ queue \in [Addr -> Seq(Proc)] /\ queue[a] \in Seq(Proc) /\ queue[a] # <<>>
      /\ sem \in [Addr -> Nat]
  BY DEF SemInv, SemTypeOK, Dequeue
<1>2. /\ sem' = sem /\ queue' = [queue EXCEPT ![a] = s]
  BY DEF Dequeue
<1>3. /\ s \in Seq(Proc) /\ t \in Proc /\ t \in Range(queue[a])
      /\ Range(s) \subseteq Range(queue[a]) /\ IsInjective(s) /\ t \notin Range(s)
  <2>1. IsInjective(queue[a])
    BY <1>1 DEF SemInv, Sleepers
  <2> QED
    BY <2>1, <1>1, TailFacts
<1>4. r \in Request /\ r.op = "ready" /\ r.addr = a /\ r.who = t
  BY <1>1, <1>3 DEF Request
<1>5. req' = [req EXCEPT ![p] = r]
  BY <1>1 DEF Dequeue, Request
<1> HIDE DEF a, t, r, s
<1>6. /\ req'[p] = r /\ \A x \in Proc : x # p => req'[x] = req[x]
      /\ queue'[a] = s /\ \A b \in Addr : b # a => queue'[b] = queue[b]
  BY <1>1, <1>2, <1>5
<1>7. /\ req[t].op = "parked" /\ req[t].addr = a /\ t # p /\ req'[t] = req[t]
      /\ \A b \in Addr : t \notin Range(queue'[b])
      /\ \A q \in Proc : req[q].op = "ready" => req[q].who # t
  <2>1. req[t].op = "parked" /\ req[t].addr = a
    BY <1>1, <1>3 DEF SemInv, Sleepers
  <2>2. \A b \in Addr : b # a => t \notin Range(queue[b])
    BY <2>1 DEF SemInv, Sleepers
  <2>3. \A q \in Proc : req[q].op = "ready" => req[q].who # t
    BY <1>1, <1>3 DEF SemInv, Sleepers
  <2>4. t # p
    BY <2>1, <1>1
  <2> QED
    BY <2>1, <2>2, <2>3, <2>4, <1>3, <1>6
<1>8. SemTypeOK'
  BY <1>1, <1>2, <1>3, <1>4, <1>5, <1>6 DEF SemInv, SemTypeOK
<1>9. \A b \in Addr : IsInjective(queue'[b])
  BY <1>3, <1>6 DEF SemInv, Sleepers
<1>10. ASSUME NEW b \in Addr, NEW u \in Range(queue'[b])
       PROVE  req'[u].op = "parked" /\ req'[u].addr = b
  <2>1. u \in Range(queue[b])
    BY <1>3, <1>6, <1>10
  <2>2. u \in Proc
    BY <2>1 DEF SemInv, SemTypeOK, Range
  <2>3. req[u].op = "parked" /\ req[u].addr = b
    BY <2>1 DEF SemInv, Sleepers
  <2>4. u # p
    BY <2>3, <1>1
  <2> QED
    BY <2>2, <2>3, <2>4, <1>6
<1>11. ASSUME NEW x \in Proc, req'[x].op = "ready"
       PROVE  /\ req'[x].who \in Proc
              /\ req'[req'[x].who].op = "parked" /\ req'[req'[x].who].addr = req'[x].addr
              /\ \A b \in Addr : req'[x].who \notin Range(queue'[b])
              /\ \A q \in Proc : req'[q].op = "ready" /\ req'[q].who = req'[x].who => q = x
  <2>1. CASE x = p
    BY <2>1, <1>3, <1>4, <1>6, <1>7
  <2>2. CASE x # p
    <3>1. req'[x] = req[x]
      BY <2>2, <1>6
    <3>2. /\ req[x].who \in Proc
          /\ req[req[x].who].op = "parked" /\ req[req[x].who].addr = req[x].addr
          /\ \A b \in Addr : req[x].who \notin Range(queue[b])
          /\ \A q \in Proc : req[q].op = "ready" /\ req[q].who = req[x].who => q = x
          /\ req[x].who # t
      BY <3>1, <1>7, <1>11 DEF SemInv, Sleepers
    <3>3. req[x].who # p
      BY <3>2, <1>1
    <3>4. \A b \in Addr : req'[x].who \notin Range(queue'[b])
      BY <3>1, <3>2, <1>3, <1>6
    <3>5. ASSUME NEW q \in Proc, req'[q].op = "ready", req'[q].who = req'[x].who
          PROVE  q = x
      BY <3>1, <3>2, <3>5, <1>4, <1>6
    <3> QED
      BY <3>1, <3>2, <3>3, <3>4, <3>5, <1>6
  <2> QED
    BY <2>1, <2>2
<1>12. ASSUME NEW b \in Addr
       PROVE  queue'[b] # <<>> => sem'[b] <= Cardinality(Movers(b)')
  <2>1. Movers(b)' = Movers(b)
    BY <1>1, <1>4, <1>6 DEF Movers, a
  <2>2. sem'[b] = sem[b] /\ (queue'[b] # <<>> => queue[b] # <<>>)
    BY <1>1, <1>2, <1>6
  <2>3. queue[b] # <<>> => sem[b] <= Cardinality(Movers(b))
    BY DEF SemInv, NoLostWakeup
  <2> QED
    BY <2>1, <2>2, <2>3
<1>13. Sleepers'
  BY <1>9, <1>10, <1>11 DEF Sleepers
<1> QED
  BY <1>8, <1>13, <1>12 DEF SemInv, NoLostWakeup

(* A release makes the sleeper it dequeued run again. *)
LEMMA ReadyInv ==
    ASSUME SemInv, NEW p \in Proc, Ready(p)
    PROVE  SemInv'
<1> DEFINE a == req[p].addr
           t == req[p].who
           ticket == req[p].flag /\ sem[a] > 0
           r == IF ticket THEN NoRequest ELSE [req[t] EXCEPT !.op = "acquire"]
           n == IF ticket THEN sem[a] - 1 ELSE sem[a]
<1>1. /\ req \in [Proc -> Request] /\ req[p].op = "ready" /\ a \in Addr
      /\ sem \in [Addr -> Nat] /\ sem[a] \in Nat
  BY DEF SemInv, SemTypeOK, Ready
<1>2. /\ t \in Proc /\ req[t].op = "parked" /\ req[t].addr = a /\ t # p
      /\ \A b \in Addr : t \notin Range(queue[b]) /\ p \notin Range(queue[b])
      /\ \A q \in Proc : req[q].op = "ready" /\ q # p => req[q].who # t /\ req[q].who # p
  BY <1>1 DEF SemInv, Sleepers
<1>3. /\ sem' = [sem EXCEPT ![a] = n] /\ queue' = queue
      /\ req' = [req EXCEPT ![p] = NoRequest, ![t] = r]
  BY DEF Ready
<1>4. NoRequest \in Request /\ NoRequest.op = "none"
  BY DEF NoRequest, Request
<1>5. /\ n \in Nat /\ r \in Request
      /\ \/ n = sem[a] - 1 /\ r.op = "none"
         \/ n = sem[a] /\ r.op = "acquire" /\ r.addr = a
  <2>1. CASE ticket
    BY <2>1, <1>1, <1>4
  <2>2. CASE ~ticket
    BY <2>2, <1>1, <1>2 DEF Request
  <2> QED
    BY <2>1, <2>2
<1> HIDE DEF a, t, ticket, r, n
<1>6. /\ req'[p] = NoRequest /\ req'[t] = r
      /\ \A x \in Proc : x # p /\ x # t => req'[x] = req[x]
      /\ sem'[a] = n /\ \A b \in Addr : b # a => sem'[b] = sem[b]
  BY <1>1, <1>2, <1>3
<1>7. SemTypeOK'
  <2>1. sem' \in [Addr -> Nat]
    BY <1>1, <1>3, <1>5
  <2>2. req' \in [Proc -> Request]
    BY <1>1, <1>3, <1>4, <1>5
  <2>3. \A x \in Proc : req'[x].op = "none" \/ req'[x].addr \in Addr
    BY <1>1, <1>4, <1>5, <1>6 DEF SemInv, SemTypeOK
  <2> QED
    BY <2>1, <2>2, <2>3, <1>3 DEF SemInv, SemTypeOK
<1>8. \A b \in Addr : IsInjective(queue'[b])
  BY <1>3 DEF SemInv, Sleepers
<1>9. ASSUME NEW b \in Addr, NEW u \in Range(queue'[b])
      PROVE  req'[u].op = "parked" /\ req'[u].addr = b
  <2>1. u \in Proc
    BY <1>3, <1>9 DEF SemInv, SemTypeOK, Range
  <2>2. u # p /\ u # t
    BY <1>2, <1>3, <1>9
  <2>3. req[u].op = "parked" /\ req[u].addr = b
    BY <1>3, <1>9 DEF SemInv, Sleepers
  <2> QED
    BY <2>1, <2>2, <2>3, <1>6
<1>10. ASSUME NEW x \in Proc, req'[x].op = "ready"
       PROVE  /\ req'[x].who \in Proc
              /\ req'[req'[x].who].op = "parked" /\ req'[req'[x].who].addr = req'[x].addr
              /\ \A b \in Addr : req'[x].who \notin Range(queue'[b])
              /\ \A q \in Proc : req'[q].op = "ready" /\ req'[q].who = req'[x].who => q = x
  <2>1. \A q \in Proc : req'[q].op = "ready" => req'[q] = req[q] /\ q # p /\ q # t
    BY <1>4, <1>5, <1>6
  <2>2. req'[x] = req[x] /\ req[x].who # t /\ req[x].who # p
    BY <2>1, <1>2, <1>10
  <2>3. /\ req[x].who \in Proc
        /\ req[req[x].who].op = "parked" /\ req[req[x].who].addr = req[x].addr
        /\ \A b \in Addr : req[x].who \notin Range(queue[b])
        /\ \A q \in Proc : req[q].op = "ready" /\ req[q].who = req[x].who => q = x
    BY <2>2, <1>10 DEF SemInv, Sleepers
  <2> QED
    BY <2>1, <2>2, <2>3, <1>3, <1>6
<1>11. ASSUME NEW b \in Addr
       PROVE  queue'[b] # <<>> => sem'[b] <= Cardinality(Movers(b)')
  <2>1. /\ sem[b] \in Nat /\ queue'[b] = queue[b]
        /\ queue[b] # <<>> => sem[b] <= Cardinality(Movers(b))
    BY <1>3 DEF SemInv, SemTypeOK, NoLostWakeup
  <2>2. CASE b # a
    <3>1. Movers(b)' = Movers(b)
      BY <2>2, <1>2, <1>4, <1>5, <1>6 DEF Movers, a
    <3> QED
      BY <2>1, <2>2, <3>1, <1>6, MoversSame
  <2>3. CASE b = a /\ n = sem[a] - 1 /\ r.op = "none"
    <3>1. Movers(b)' = Movers(b) \ {p}
      BY <2>3, <1>2, <1>4, <1>6 DEF Movers
    <3>2. sem'[b] \in Nat /\ sem'[b] = sem[b] - 1
      BY <2>3, <1>5, <1>6
    <3>3. \/ sem'[b] <= sem[b] + 1 /\ p \notin Movers(b) /\ Movers(b)' = Movers(b) \union {p}
          \/ sem'[b] <= sem[b] - 1 /\ Movers(b)' = Movers(b) \ {p}
          \/ sem'[b] <= sem[b] /\ Movers(b)' = Movers(b)
      BY <2>1, <3>1, <3>2
    <3> QED
      BY <2>1, <3>2, <3>3, MoversStep
  <2>4. CASE b = a /\ n = sem[a] /\ r.op = "acquire" /\ r.addr = a
    <3>1. p \in Movers(b) /\ t \notin Movers(b) /\ Movers(b)' = (Movers(b) \ {p}) \union {t}
      BY <2>4, <1>1, <1>2, <1>4, <1>6 DEF Movers, a
    <3>2. IsFiniteSet(Movers(b)) /\ Cardinality(Movers(b)) \in Nat
      BY MoversFinite
    <3>3. IsFiniteSet(Movers(b) \ {p}) /\ Cardinality(Movers(b) \ {p}) = Cardinality(Movers(b)) - 1
      BY <3>1, <3>2, FS_RemoveElement
    <3>4. t \notin Movers(b) \ {p}
      BY <3>1
    <3>5. Cardinality((Movers(b) \ {p}) \union {t}) = Cardinality(Movers(b) \ {p}) + 1
      BY <3>3, <3>4, FS_AddElement
    <3>6. Cardinality(Movers(b)') = Cardinality(Movers(b))
      BY <3>1, <3>2, <3>3, <3>5
    <3>7. sem'[b] = sem[b]
      BY <2>4, <1>6
    <3> QED
      BY <2>1, <3>6, <3>7
  <2> QED
    BY <2>2, <2>3, <2>4, <1>5
<1>12. Sleepers'
  BY <1>8, <1>9, <1>10 DEF Sleepers
<1> QED
  BY <1>7, <1>12, <1>11 DEF SemInv, NoLostWakeup

(* Every step inside a semaphore call keeps the invariant. *)
LEMMA SemStepInv ==
    ASSUME SemInv, NEW p \in Proc, SemStep(p)
    PROVE  SemInv'
  BY TakePermitInv, ParkInv, AddPermitInv, NoWaiterInv, DequeueInv, ReadyInv DEF SemStep

(* The permits of a word, and those on their way to it, can be counted. *)
LEMMA PermitsFacts ==
    ASSUME SemInv, NEW a \in Addr
    PROVE  /\ sem[a] \in Nat /\ IsFiniteSet(Releasing(a))
           /\ Cardinality(Releasing(a)) \in Nat /\ Permits(a) \in Nat
<1>1. Releasing(a) \in SUBSET Proc
  BY DEF Releasing
<1>2. IsFiniteSet(Releasing(a)) /\ Cardinality(Releasing(a)) \in Nat
  BY <1>1, SemaphoreConstants, FS_Subset, FS_CardinalityType
<1>3. sem[a] \in Nat
  BY DEF SemInv, SemTypeOK
<1> QED
  BY <1>2, <1>3 DEF Permits

(* p is in a call of runtime_Semacquire. *)
Acquiring(p) == req[p].op \in {"acquire", "parked"}

(* A step that leaves p in the call it is in, if any. *)
SameCall(p) ==
    /\ req'[p].addr = req[p].addr
    /\ Returned(p)' <=> Returned(p)
    /\ Acquiring(p)' <=> Acquiring(p)

(* What a caller of semaphores without handoff sees of a step inside a call: *)
(* p takes a permit, or no permit comes or goes and at most p's release      *)
(* returns.                                                                  *)
SemEffect(p) ==
    /\ \A x \in Proc : req'[x].flag = FALSE
    /\ \A x \in Proc : x # p => SameCall(x)
    /\ \/ /\ Acquiring(p) /\ Returned(p)'
          /\ \E a \in Addr : /\ a = req[p].addr /\ Permits(a) > 0
                             /\ Permits(a)' = Permits(a) - 1
                             /\ \A b \in Addr : b # a => Permits(b)' = Permits(b)
       \/ /\ SameCall(p) \/ (~Acquiring(p) /\ ~Returned(p) /\ Returned(p)')
          /\ \A b \in Addr : Permits(b)' = Permits(b)

(* A step that changes no permit and leaves everybody in the same calls. *)
LEMMA PermitsSame ==
    ASSUME NEW b, sem'[b] = sem[b], Releasing(b)' = Releasing(b)
    PROVE  Permits(b)' = Permits(b)
  BY DEF Permits

LEMMA TakePermitEffect ==
    ASSUME SemInv, NEW p \in Proc, TakePermit(p), \A x \in Proc : req[x].flag = FALSE
    PROVE  SemEffect(p)
<1>0. PICK a \in Addr : a = req[p].addr
  BY DEF SemInv, SemTypeOK, TakePermit
<1>1. /\ req \in [Proc -> Request] /\ req[p].op = "acquire"
      /\ sem \in [Addr -> Nat] /\ sem[a] \in Nat \ {0}
  BY <1>0 DEF SemInv, SemTypeOK, TakePermit
<1>2. /\ sem' = [sem EXCEPT ![a] = sem[a] - 1]
      /\ req' = [req EXCEPT ![p] = NoRequest]
  BY <1>0 DEF TakePermit
<1>3. NoRequest.op = "none" /\ NoRequest.flag = FALSE
  BY DEF NoRequest
<1>4. /\ req'[p] = NoRequest /\ \A x \in Proc : x # p => req'[x] = req[x]
      /\ sem'[a] = sem[a] - 1 /\ \A b \in Addr : b # a => sem'[b] = sem[b]
  BY <1>1, <1>2
<1>5. \A b \in Addr : Releasing(b)' = Releasing(b)
  BY <1>1, <1>3, <1>4 DEF Releasing
<1>6. \A b \in Addr : b # a => Permits(b)' = Permits(b)
  BY <1>4, <1>5, PermitsSame
<1>7. Permits(a) > 0 /\ Permits(a)' = Permits(a) - 1
  <2>1. /\ Permits(a) = sem[a] + Cardinality(Releasing(a))
        /\ Permits(a)' = sem'[a] + Cardinality(Releasing(a)')
    BY DEF Permits
  <2>2. Cardinality(Releasing(a)) \in Nat /\ Releasing(a)' = Releasing(a)
    BY <1>1, <1>5, PermitsFacts
  <2> QED
    BY <2>1, <2>2, <1>1, <1>4
<1>8. Acquiring(p) /\ Returned(p)' /\ \A x \in Proc : x # p => SameCall(x)
  BY <1>1, <1>3, <1>4 DEF Acquiring, Returned, SameCall
<1>9. \A x \in Proc : req'[x].flag = FALSE
  BY <1>3, <1>4
<1> QED
  BY <1>0, <1>6, <1>7, <1>8, <1>9 DEF SemEffect

LEMMA ParkEffect ==
    ASSUME SemInv, NEW p \in Proc, Park(p), \A x \in Proc : req[x].flag = FALSE
    PROVE  SemEffect(p)
<1> DEFINE q == [req[p] EXCEPT !.op = "parked"]
<1>1. req \in [Proc -> Request] /\ req[p].op = "acquire" /\ req[p] \in Request
  BY DEF SemInv, SemTypeOK, Park
<1>2. sem' = sem /\ req' = [req EXCEPT ![p] = q]
  BY DEF Park
<1>3. q.op = "parked" /\ q.flag = req[p].flag /\ q.addr = req[p].addr
  BY <1>1 DEF Request
<1> HIDE DEF q
<1>4. req'[p] = q /\ \A x \in Proc : x # p => req'[x] = req[x]
  BY <1>1, <1>2
<1>5. \A b \in Addr : Releasing(b)' = Releasing(b)
  BY <1>1, <1>3, <1>4 DEF Releasing
<1>6. \A b \in Addr : Permits(b)' = Permits(b)
  BY <1>2, <1>5, PermitsSame
<1>7. \A x \in Proc : SameCall(x) /\ req'[x].flag = FALSE
  BY <1>1, <1>3, <1>4 DEF Acquiring, Returned, SameCall
<1> QED
  BY <1>6, <1>7 DEF SemEffect

LEMMA AddPermitEffect ==
    ASSUME SemInv, NEW p \in Proc, AddPermit(p), \A x \in Proc : req[x].flag = FALSE
    PROVE  SemEffect(p)
<1> DEFINE q == [req[p] EXCEPT !.op = "dequeue"]
<1>0. PICK a \in Addr : a = req[p].addr
  BY DEF SemInv, SemTypeOK, AddPermit
<1>1. /\ req \in [Proc -> Request] /\ req[p].op = "release" /\ req[p] \in Request
      /\ sem \in [Addr -> Nat] /\ sem[a] \in Nat
  BY <1>0 DEF SemInv, SemTypeOK, AddPermit
<1>2. sem' = [sem EXCEPT ![a] = sem[a] + 1] /\ req' = [req EXCEPT ![p] = q]
  BY <1>0 DEF AddPermit
<1>3. q.op = "dequeue" /\ q.flag = req[p].flag /\ q.addr = a
  BY <1>0, <1>1 DEF Request
<1> HIDE DEF q
<1>4. /\ req'[p] = q /\ \A x \in Proc : x # p => req'[x] = req[x]
      /\ sem'[a] = sem[a] + 1 /\ \A b \in Addr : b # a => sem'[b] = sem[b]
  BY <1>1, <1>2
<1>5. \A b \in Addr : b # a => Permits(b)' = Permits(b)
  <2>1. \A b \in Addr : b # a => Releasing(b)' = Releasing(b)
    BY <1>0, <1>1, <1>3, <1>4 DEF Releasing
  <2> QED
    BY <2>1, <1>4, PermitsSame
<1>6. Permits(a)' = Permits(a)
  <2>1. p \in Releasing(a) /\ Releasing(a)' = Releasing(a) \ {p}
    BY <1>0, <1>1, <1>3, <1>4 DEF Releasing
  <2>2. IsFiniteSet(Releasing(a)) /\ Cardinality(Releasing(a)) \in Nat
    BY <1>1, PermitsFacts
  <2>3. Cardinality(Releasing(a)') = Cardinality(Releasing(a)) - 1
    BY <2>1, <2>2, FS_RemoveElement
  <2>4. /\ Permits(a) = sem[a] + Cardinality(Releasing(a))
        /\ Permits(a)' = sem'[a] + Cardinality(Releasing(a)')
    BY DEF Permits
  <2> QED
    BY <2>2, <2>3, <2>4, <1>1, <1>4
<1>7. \A x \in Proc : SameCall(x) /\ req'[x].flag = FALSE
  BY <1>0, <1>1, <1>3, <1>4 DEF Acquiring, Returned, SameCall
<1> QED
  BY <1>5, <1>6, <1>7 DEF SemEffect

LEMMA NoWaiterEffect ==
    ASSUME SemInv, NEW p \in Proc, NoWaiter(p), \A x \in Proc : req[x].flag = FALSE
    PROVE  SemEffect(p)
<1>1. req \in [Proc -> Request] /\ req[p].op = "dequeue"
  BY DEF SemInv, SemTypeOK, NoWaiter
<1>2. sem' = sem /\ req' = [req EXCEPT ![p] = NoRequest]
  BY DEF NoWaiter
<1>3. NoRequest.op = "none" /\ NoRequest.flag = FALSE
  BY DEF NoRequest
<1>4. req'[p] = NoRequest /\ \A x \in Proc : x # p => req'[x] = req[x]
  BY <1>1, <1>2
<1>5. \A b \in Addr : Releasing(b)' = Releasing(b)
  BY <1>1, <1>3, <1>4 DEF Releasing
<1>6. \A b \in Addr : Permits(b)' = Permits(b)
  BY <1>2, <1>5, PermitsSame
<1>7. /\ \A x \in Proc : x # p => SameCall(x)
      /\ \A x \in Proc : req'[x].flag = FALSE
      /\ ~Acquiring(p) /\ ~Returned(p) /\ Returned(p)'
  BY <1>1, <1>3, <1>4 DEF Acquiring, Returned, SameCall
<1> QED
  BY <1>6, <1>7 DEF SemEffect

LEMMA DequeueEffect ==
    ASSUME SemInv, NEW p \in Proc, Dequeue(p), \A x \in Proc : req[x].flag = FALSE
    PROVE  SemEffect(p)
<1> DEFINE q == [req[p] EXCEPT !.op = "ready", !.who = Head(queue[req[p].addr])]
<1>1. req \in [Proc -> Request] /\ req[p].op = "dequeue" /\ req[p] \in Request
  BY DEF SemInv, SemTypeOK, Dequeue
<1>2. sem' = sem /\ req' = [req EXCEPT ![p] = q]
  BY <1>1 DEF Dequeue, Request
<1>3. q.op = "ready" /\ q.flag = req[p].flag /\ q.addr = req[p].addr
  BY <1>1 DEF Request
<1> HIDE DEF q
<1>4. req'[p] = q /\ \A x \in Proc : x # p => req'[x] = req[x]
  BY <1>1, <1>2
<1>5. \A b \in Addr : Releasing(b)' = Releasing(b)
  BY <1>1, <1>3, <1>4 DEF Releasing
<1>6. \A b \in Addr : Permits(b)' = Permits(b)
  BY <1>2, <1>5, PermitsSame
<1>7. \A x \in Proc : SameCall(x) /\ req'[x].flag = FALSE
  BY <1>1, <1>3, <1>4 DEF Acquiring, Returned, SameCall
<1> QED
  BY <1>6, <1>7 DEF SemEffect

LEMMA ReadyEffect ==
    ASSUME SemInv, NEW p \in Proc, Ready(p), \A x \in Proc : req[x].flag = FALSE
    PROVE  SemEffect(p)
<1> DEFINE a == req[p].addr
           t == req[p].who
           q == [req[t] EXCEPT !.op = "acquire"]
<1>1. /\ req \in [Proc -> Request] /\ req[p].op = "ready" /\ a \in Addr
      /\ sem \in [Addr -> Nat] /\ sem[a] \in Nat /\ req[p].flag = FALSE
  BY DEF SemInv, SemTypeOK, Ready
<1>2. t \in Proc /\ req[t].op = "parked" /\ t # p /\ req[t] \in Request
  BY <1>1 DEF SemInv, Sleepers
<1>3. sem' = [sem EXCEPT ![a] = sem[a]] /\ req' = [req EXCEPT ![p] = NoRequest, ![t] = q]
  BY <1>1 DEF Ready
<1>4. NoRequest.op = "none" /\ NoRequest.flag = FALSE
  BY DEF NoRequest
<1>5. q.op = "acquire" /\ q.flag = req[t].flag /\ q.addr = req[t].addr
  BY <1>2 DEF Request
<1> HIDE DEF a, t, q
<1>6. /\ req'[p] = NoRequest /\ req'[t] = q
      /\ \A x \in Proc : x # p /\ x # t => req'[x] = req[x]
      /\ \A b \in Addr : sem'[b] = sem[b]
  BY <1>1, <1>2, <1>3
<1>7. \A b \in Addr : Releasing(b)' = Releasing(b)
  BY <1>1, <1>2, <1>4, <1>5, <1>6 DEF Releasing
<1>8. \A b \in Addr : Permits(b)' = Permits(b)
  BY <1>6, <1>7, PermitsSame
<1>9. /\ \A x \in Proc : x # p => SameCall(x)
      /\ \A x \in Proc : req'[x].flag = FALSE
      /\ ~Acquiring(p) /\ ~Returned(p) /\ Returned(p)'
  BY <1>1, <1>2, <1>4, <1>5, <1>6 DEF Acquiring, Returned, SameCall
<1> QED
  BY <1>8, <1>9 DEF SemEffect

(* Every step inside a call, seen by callers that hand nothing off. *)
LEMMA SemStepEffect ==
    ASSUME SemInv, NEW p \in Proc, SemStep(p), \A x \in Proc : req[x].flag = FALSE
    PROVE  SemEffect(p)
  BY TakePermitEffect, ParkEffect, AddPermitEffect, NoWaiterEffect, DequeueEffect, ReadyEffect
     DEF SemStep

(* How many goroutines are in a set, when only p may enter or leave it. *)
LEMMA CountStep ==
    ASSUME NEW S \in SUBSET Proc, NEW T \in SUBSET Proc, NEW p \in Proc, S \ {p} = T \ {p}
    PROVE  /\ Cardinality(S) \in Nat /\ Cardinality(T) \in Nat
           /\ Cardinality(T) = Cardinality(S) + (IF p \in T THEN 1 ELSE 0)
                                             - (IF p \in S THEN 1 ELSE 0)
<1>1. /\ IsFiniteSet(S) /\ Cardinality(S) \in Nat
      /\ IsFiniteSet(T) /\ Cardinality(T) \in Nat
  BY SemaphoreConstants, FS_Subset, FS_CardinalityType
<1>2. /\ Cardinality(S \ {p}) = IF p \in S THEN Cardinality(S) - 1 ELSE Cardinality(S)
      /\ Cardinality(T \ {p}) = IF p \in T THEN Cardinality(T) - 1 ELSE Cardinality(T)
  BY <1>1, FS_RemoveElement
<1> QED
  BY <1>1, <1>2

(* What a call that begins does to the permits. *)
LEMMA AcquireCall ==
    ASSUME SemInv, NEW p \in Proc, NEW a \in Addr, NEW lifo, Returned(p),
           Semacquire(p, a, lifo), sem' = sem
    PROVE  /\ req'[p].op = "acquire" /\ req'[p].addr = a /\ req'[p].flag = lifo
           /\ \A x \in Proc : x # p => req'[x] = req[x]
           /\ \A b \in Addr : Permits(b)' = Permits(b)
<1>1. req \in [Proc -> Request]
  BY DEF SemInv, SemTypeOK
<1>2. /\ req'[p].op = "acquire" /\ req'[p].addr = a /\ req'[p].flag = lifo
      /\ \A x \in Proc : x # p => req'[x] = req[x]
  BY <1>1 DEF Semacquire
<1>3. \A b \in Addr : Releasing(b)' = Releasing(b)
  BY <1>2 DEF Releasing, Returned
<1> QED
  BY <1>2, <1>3, PermitsSame

LEMMA ReleaseCall ==
    ASSUME SemInv, NEW p \in Proc, NEW a \in Addr, NEW handoff, Returned(p),
           Semrelease(p, a, handoff), sem' = sem
    PROVE  /\ req'[p].op = "release" /\ req'[p].addr = a /\ req'[p].flag = handoff
           /\ \A x \in Proc : x # p => req'[x] = req[x]
           /\ Permits(a)' = Permits(a) + 1
           /\ \A b \in Addr : b # a => Permits(b)' = Permits(b)
<1>1. req \in [Proc -> Request]
  BY DEF SemInv, SemTypeOK
<1>2. /\ req'[p].op = "release" /\ req'[p].addr = a /\ req'[p].flag = handoff
      /\ \A x \in Proc : x # p => req'[x] = req[x]
  BY <1>1 DEF Semrelease
<1>3. \A b \in Addr : b # a => Releasing(b)' = Releasing(b)
  BY <1>2 DEF Releasing, Returned
<1>4. p \notin Releasing(a) /\ Releasing(a)' = Releasing(a) \union {p}
  BY <1>2 DEF Releasing, Returned
<1>5. IsFiniteSet(Releasing(a)) /\ Cardinality(Releasing(a)) \in Nat /\ sem[a] \in Nat
  BY PermitsFacts
<1>6. Cardinality(Releasing(a)') = Cardinality(Releasing(a)) + 1
  BY <1>4, <1>5, FS_AddElement
<1>7. Permits(a)' = Permits(a) + 1
  BY <1>5, <1>6 DEF Permits
<1> QED
  BY <1>2, <1>3, <1>7, PermitsSame

(* No permit, no queue and no call changes. *)
LEMMA SemStutter ==
    ASSUME SemInv, UNCHANGED semVars
    PROVE  SemInv'
  BY DEF SemInv, SemTypeOK, Sleepers, NoLostWakeup, Movers, semVars

(* A step that leaves the semaphores alone leaves the permits alone. *)
LEMMA NoCall ==
    ASSUME SemInv, UNCHANGED semVars
    PROVE  /\ SemInv' /\ req' = req /\ \A x \in Proc : Returned(x)' <=> Returned(x)
           /\ \A a \in Addr : Permits(a)' = Permits(a)
<1>1. SemInv'
  BY SemStutter
<1>2. sem' = sem /\ req' = req
  BY DEF semVars
<1> QED
  BY <1>1, <1>2 DEF Returned, Permits, Releasing

(* All semaphores start without permits and without waiters. *)
LEMMA SemInitInv ==
    ASSUME SemInit
    PROVE  SemInv
<1>1. SemTypeOK
  BY DEF SemInit, SemTypeOK, NoRequest, Request
<1>2. Sleepers
  BY DEF SemInit, Sleepers, NoRequest, IsInjective, Range
<1>3. NoLostWakeup
  BY DEF SemInit, NoLostWakeup
<1> QED
  BY <1>1, <1>2, <1>3 DEF SemInv

(* Every call, every step inside a call and every stuttering step keeps the *)
(* invariant.                                                              *)
LEMMA SemNextInv ==
    ASSUME SemInv, [SemNext]_semVars
    PROVE  SemInv'
<1>1. CASE SemNext
  <2>1. PICK p \in Proc : Call(p) \/ SemStep(p)
    BY <1>1 DEF SemNext
  <2>2. CASE Call(p)
    BY <2>2, CallInv DEF Call
  <2> QED
    BY <2>1, <2>2, SemStepInv
<1>2. CASE UNCHANGED semVars
  BY <1>2, SemStutter
<1> QED
  BY <1>1, <1>2

(* The invariant of the semaphores, whatever calls the goroutines make. *)
THEOREM SemInvariant == SemSpec => []SemInv
<1>1. SemInit => SemInv
  BY SemInitInv
<1>2. SemInv /\ [SemNext]_semVars => SemInv'
  BY SemNextInv
<1> QED
  BY <1>1, <1>2, PTL DEF SemSpec

(* sema.go's queues never hold a goroutine that is not asleep on that very   *)
(* word, and two releases never wake the same goroutine, for every number of *)
(* goroutines and words and every pattern of calls.                          *)
THEOREM SemSleepers == SemSpec => []Sleepers
<1>1. SemInv => Sleepers
  BY DEF SemInv
<1> QED
  BY <1>1, SemInvariant, PTL

(* While goroutines sleep on a word, every permit of it has a goroutine on   *)
(* its way that will take it or wake a sleeper: the release that adds the    *)
(* permit before it looks for waiters loses no wakeup.                       *)
THEOREM SemNoLostWakeup == SemSpec => []NoLostWakeup
<1>1. SemInv => NoLostWakeup
  BY DEF SemInv
<1> QED
  BY <1>1, SemInvariant, PTL
=============================================================================
