---------------------- MODULE CondAndContextProofs ----------------------
(* Proofs about Cond and about Context.                                     *)
(*                                                                          *)
(* Cond: for any number of goroutines and for counters of any width that is *)
(* more than twice that number. The theorems assume that no goroutine with  *)
(* a ticket is overtaken by more than half the range of tickets before it   *)
(* gets to notifyListWait: MaxLag <= Wrap \div 2.                           *)
(*                                                                          *)
(* Context: for any goroutines and any tree of contexts, of any depth.      *)
EXTENDS Cond, Context, FiniteSetTheorems, SequenceTheorems, TLAPS

-----------------------------------------------------------------------------
(* What queueing and dequeueing do to the notifyList. *)

(* A queue of goroutines holds goroutines. *)
LEMMA RangeSeq ==
    ASSUME NEW S, NEW s \in Seq(S)
    PROVE  Range(s) \subseteq S
  BY DEF Range

(* Queueing a goroutine at the back. *)
LEMMA AppendFacts ==
    ASSUME NEW S, NEW s \in Seq(S), NEW x \in S
    PROVE  /\ Append(s, x) \in Seq(S)
           /\ Append(s, x) # <<>>
           /\ Range(Append(s, x)) = Range(s) \union {x}
           /\ IsInjective(s) /\ x \notin Range(s) => IsInjective(Append(s, x))
<1> DEFINE u == Append(s, x)
<1>1. /\ u \in Seq(S) /\ Len(u) = Len(s) + 1 /\ u[Len(s) + 1] = x
      /\ \A k \in 1..Len(s) : u[k] = s[k]
  OBVIOUS
<1> HIDE DEF u
<1>2. Len(s) \in Nat /\ DOMAIN s = 1..Len(s) /\ DOMAIN u = 1..Len(s) + 1
  BY <1>1
<1>3. u # <<>>
  BY <1>1, <1>2
<1>4. Range(u) = Range(s) \union {x}
  BY <1>1, <1>2 DEF Range
<1>5. IsInjective(s) /\ x \notin Range(s) => IsInjective(u)
  BY <1>1, <1>2 DEF IsInjective, Range
<1> QED
  BY <1>1, <1>3, <1>4, <1>5 DEF u

(* Taking the first goroutine out of a queue. *)
LEMMA TailFacts ==
    ASSUME NEW S, NEW s \in Seq(S), s # <<>>
    PROVE  /\ Tail(s) \in Seq(S)
           /\ Head(s) \in S /\ Head(s) \in Range(s)
           /\ Range(Tail(s)) \subseteq Range(s)
           /\ IsInjective(s) => IsInjective(Tail(s)) /\ Head(s) \notin Range(Tail(s))
<1> DEFINE u == Tail(s)
<1>1. /\ u \in Seq(S) /\ Len(s) \in Nat \ {0} /\ Len(u) = Len(s) - 1
      /\ Head(s) = s[1] /\ Head(s) \in S
      /\ \A k \in 1..Len(s) - 1 : u[k] = s[k + 1]
  OBVIOUS
<1> HIDE DEF u
<1>2. /\ DOMAIN s = 1..Len(s) /\ DOMAIN u = 1..Len(s) - 1 /\ 1 \in DOMAIN s
      /\ \A k \in DOMAIN u : k + 1 \in DOMAIN s /\ u[k] = s[k + 1] /\ k + 1 # 1
  BY <1>1
<1>3. Head(s) \in Range(s)
  BY <1>1, <1>2 DEF Range
<1>4. Range(u) \subseteq Range(s)
  BY <1>2 DEF Range
<1>5. ASSUME IsInjective(s) PROVE IsInjective(u) /\ Head(s) \notin Range(u)
  <2>1. IsInjective(u)
    BY <1>1, <1>2, <1>5 DEF IsInjective
  <2>2. Head(s) \notin Range(u)
    BY <1>1, <1>2, <1>5 DEF IsInjective, Range
  <2> QED
    BY <2>1, <2>2
<1> QED
  BY <1>1, <1>3, <1>4, <1>5 DEF u

(* A queue holds its first goroutine and those behind it. *)
LEMMA HeadTailRange ==
    ASSUME NEW S, NEW s \in Seq(S), s # <<>>
    PROVE  Range(s) = Range(Tail(s)) \union {Head(s)}
<1> DEFINE u == Tail(s)
<1>1. /\ u \in Seq(S) /\ Len(s) \in Nat \ {0} /\ Len(u) = Len(s) - 1 /\ Head(s) = s[1]
      /\ \A k \in 1..Len(s) - 1 : u[k] = s[k + 1]
  OBVIOUS
<1> HIDE DEF u
<1>2. ASSUME NEW y \in Range(s) PROVE y \in Range(u) \union {Head(s)}
  <2>1. PICK k \in 1..Len(s) : y = s[k]
    BY DEF Range
  <2>2. CASE k # 1
    <3>1. k - 1 \in 1..Len(s) - 1 /\ u[k - 1] = s[(k - 1) + 1] /\ (k - 1) + 1 = k
      BY <1>1, <2>2
    <3>2. k - 1 \in DOMAIN u /\ u[k - 1] = y
      BY <1>1, <2>1, <3>1
    <3> QED
      BY <3>2 DEF Range
  <2> QED
    BY <1>1, <2>1, <2>2
<1>3. Range(u) \subseteq Range(s) /\ Head(s) \in Range(s)
  BY TailFacts DEF u
<1> QED
  BY <1>2, <1>3 DEF u

-----------------------------------------------------------------------------
(* The ticket n places after a, and how far a is past b. *)
After(a, n) == IF a + n < Wrap THEN a + n ELSE a + n - Wrap
Gap(a, b) == IF b <= a THEN a - b ELSE a + Wrap - b

(* The tickets between notify and wait belong to the goroutines in line,    *)
(* none of which has returned from notifyListWait.                          *)
InLine ==
    /\ Len(line) = Gap(wait, notify)
    /\ \A i \in 1..Len(line) : t[line[i]] = After(notify, i - 1)
    /\ IsInjective(line)
    /\ \A p \in Range(line) : At(p, "ticket") \/ (At(p, "parked") /\ p \in Range(list))

(* A goroutine with a ticket that is not in line any more has been          *)
(* notified lag tickets ago.                                                *)
Passed ==
    \A p \in Proc : At(p, "ticket") /\ p \notin Range(line) =>
        lag[p] >= 1 /\ t[p] = Gap(notify, lag[p])

(* Who is asleep, and where. *)
InList ==
    /\ IsInjective(list)
    /\ \A p \in Range(list) : At(p, "parked") /\ p \in Range(line)

InTodo ==
    /\ \A q \in Proc : IsInjective(todo[q])
    /\ \A q \in Proc : ~At(q, "ready") => todo[q] = <<>>
    /\ \A q \in Proc : \A p \in Range(todo[q]) :
            /\ At(p, "parked") /\ p \notin Range(list) /\ p \notin Range(line)
            /\ \A r \in Proc : p \in Range(todo[r]) => r = q

Found ==
    \A p \in Proc : At(p, "parked") =>
        p \in Range(list) \/ \E q \in Proc : p \in Range(todo[q])

(* The waiters a notifier has found and nobody has notified yet are the     *)
(* first in line, up to the ticket that the notifier has read.              *)
Owing ==
    \A p \in Proc : pc[p] \in {"fast", "lock"} =>
        \/ owed[p] = {}
        \/ \E m \in 1..Len(line) : /\ owed[p] = {line[i] : i \in 1..m}
                                  /\ t[p] = After(notify, m)

IInv == TypeOK /\ InLine /\ Passed /\ InList /\ InTodo /\ Found /\ Owing

-----------------------------------------------------------------------------
(* Sequences and tickets *)

(* A sequence without repetitions is no longer than the set it is from. *)
LEMMA InjectiveShort ==
    ASSUME NEW S, IsFiniteSet(S), NEW s \in Seq(S), IsInjective(s)
    PROVE  Len(s) <= Cardinality(S)
<1>1. Len(s) \in Nat /\ s \in [1..Len(s) -> S]
  OBVIOUS
<1>2. s \in Injection(1..Len(s), S)
  BY <1>1 DEF IsInjective, Injection
<1>3. IsFiniteSet(1..Len(s)) /\ Cardinality(1..Len(s)) = Len(s)
  BY <1>1, FS_Interval
<1> QED
  BY <1>2, <1>3, FS_Injection

(* The goroutines that are left when the first n have gone. *)
LEMMA SubSeqFacts ==
    ASSUME NEW S, NEW s \in Seq(S), NEW n \in 0..Len(s), IsInjective(s)
    PROVE  LET u == SubSeq(s, n + 1, Len(s))
               gone == {s[i] : i \in 1..n}
           IN  /\ u \in Seq(S) /\ Len(u) = Len(s) - n
               /\ \A i \in 1..Len(s) - n : u[i] = s[i + n]
               /\ IsInjective(u)
               /\ Range(s) = Range(u) \union gone
               /\ Range(u) \intersect gone = {}
<1> DEFINE u == SubSeq(s, n + 1, Len(s))
           gone == {s[i] : i \in 1..n}
<1>1. /\ u \in Seq(S) /\ Len(u) = Len(s) - n /\ Len(s) \in Nat /\ n \in Nat
      /\ \A i \in 1..Len(s) - n : u[i] = s[i + n]
  BY SMT
<1> HIDE DEF u
<1>2. DOMAIN s = 1..Len(s) /\ DOMAIN u = 1..Len(s) - n
  BY <1>1
<1>p. \A i \in DOMAIN u : i + n \in DOMAIN s /\ u[i] = s[i + n]
  BY <1>1, <1>2
<1>3. IsInjective(u)
  <2> SUFFICES ASSUME NEW i \in DOMAIN u, NEW j \in DOMAIN u, u[i] = u[j] PROVE i = j
    BY DEF IsInjective
  <2>1. i + n = j + n
    BY <1>p DEF IsInjective
  <2> QED
    BY <2>1, <1>1, <1>2
<1>4. Range(s) \subseteq Range(u) \union gone
  <2> SUFFICES ASSUME NEW k \in 1..Len(s), k > n PROVE s[k] \in Range(u)
    BY <1>1, <1>2 DEF Range
  <2>1. k - n \in 1..Len(s) - n /\ (k - n) + n = k
    BY <1>1
  <2>2. u[k - n] = s[k]
    BY <2>1, <1>1
  <2> QED
    BY <2>1, <2>2, <1>2 DEF Range
<1>5. Range(u) \subseteq Range(s)
  BY <1>p DEF Range
<1>6. gone \subseteq Range(s)
  BY <1>1, <1>2 DEF Range
<1>7. Range(u) \intersect gone = {}
  <2> SUFFICES ASSUME NEW i \in 1..Len(s) - n, NEW k \in 1..n, u[i] = s[k] PROVE FALSE
    BY <1>2 DEF Range
  <2>1. i + n \in DOMAIN s /\ k \in DOMAIN s /\ i + n # k /\ s[i + n] = s[k]
    BY <1>1, <1>2
  <2> QED
    BY <2>1 DEF IsInjective
<1>8. Range(s) = Range(u) \union gone
  BY <1>4, <1>5, <1>6
<1> QED
  BY <1>1, <1>3, <1>7, <1>8 DEF u

(* Taking the goroutine at k out of a queue. *)
LEMMA RemoveAtFacts ==
    ASSUME NEW S, NEW s \in Seq(S), NEW k \in 1..Len(s), IsInjective(s)
    PROVE  /\ RemoveAt(s, k) \in Seq(S) /\ IsInjective(RemoveAt(s, k))
           /\ Range(RemoveAt(s, k)) = Range(s) \ {s[k]}
<1> DEFINE a == SubSeq(s, 1, k - 1)
           b == SubSeq(s, k + 1, Len(s))
           u == a \o b
<1>1. Len(s) \in Nat /\ k \in Nat /\ DOMAIN s = 1..Len(s)
  OBVIOUS
<1>2. /\ a \in Seq(S) /\ Len(a) = k - 1 /\ \A i \in 1..k - 1 : a[i] = s[i]
      /\ b \in Seq(S) /\ Len(b) = Len(s) - k /\ \A i \in 1..Len(s) - k : b[i] = s[k + i]
  BY SMT
<1> HIDE DEF a, b
<1>3. u \in Seq(S) /\ Len(u) = Len(s) - 1
  <2>1. u \in Seq(S) /\ Len(u) = Len(a) + Len(b)
    BY <1>2, ConcatProperties
  <2> QED
    BY <2>1, <1>1, <1>2
<1>4. ASSUME NEW i \in 1..Len(s) - 1
      PROVE  u[i] = IF i < k THEN s[i] ELSE s[i + 1]
  <2>1. CASE i < k
    BY <2>1, <1>1, <1>2
  <2>2. CASE i >= k
    <3>1. u[i] = b[i - (k - 1)]
      BY <2>2, <1>1, <1>2
    <3>2. i - (k - 1) \in 1..Len(s) - k /\ k + (i - (k - 1)) = i + 1
      BY <2>2, <1>1
    <3>3. b[i - (k - 1)] = s[i + 1]
      BY <3>2, <1>2
    <3> QED
      BY <2>2, <3>1, <3>3, <1>1
  <2>3. i < k \/ i >= k
    BY <1>1
  <2> QED
    BY <2>1, <2>2, <2>3, Zenon
<1>5. RemoveAt(s, k) = u
  BY DEF RemoveAt, a, b
<1> HIDE DEF u
<1>6. DOMAIN u = 1..Len(s) - 1
  BY <1>1, <1>3
<1>7. IsInjective(u)
  <2> SUFFICES ASSUME NEW i \in 1..Len(s) - 1, NEW j \in 1..Len(s) - 1, u[i] = u[j] PROVE i = j
    BY <1>6 DEF IsInjective
  <2>1. PICK c \in DOMAIN s : u[i] = s[c] /\ c = IF i < k THEN i ELSE i + 1
    BY <1>1, <1>4
  <2>2. PICK d \in DOMAIN s : u[j] = s[d] /\ d = IF j < k THEN j ELSE j + 1
    BY <1>1, <1>4
  <2>3. c = d
    BY <2>1, <2>2 DEF IsInjective
  <2> QED
    BY <2>1, <2>2, <2>3, <1>1
<1>8. ASSUME NEW x \in Range(u) PROVE x \in Range(s) \ {s[k]}
  <2>1. PICK i \in 1..Len(s) - 1 : x = u[i]
    BY <1>6 DEF Range
  <2>2. PICK c \in DOMAIN s : u[i] = s[c] /\ c # k
    BY <1>1, <1>4
  <2> QED
    BY <2>1, <2>2, <1>1 DEF Range, IsInjective
<1>9. ASSUME NEW x \in Range(s), x # s[k] PROVE x \in Range(u)
  <2>1. PICK c \in DOMAIN s : x = s[c] /\ c # k
    BY <1>9 DEF Range
  <2>2. CASE c < k
    BY <2>1, <2>2, <1>1, <1>4, <1>6 DEF Range
  <2>3. CASE c > k
    <3>1. c - 1 \in 1..Len(s) - 1 /\ ~(c - 1 < k) /\ (c - 1) + 1 = c
      BY <2>1, <2>3, <1>1
    <3>2. u[c - 1] = s[c]
      BY <3>1, <1>4
    <3> QED
      BY <3>1, <3>2, <2>1, <1>6 DEF Range
  <2> QED
    BY <2>1, <2>2, <2>3, <1>1
<1> QED
  BY <1>3, <1>5, <1>7, <1>8, <1>9

(* The arithmetic of the counters, without the remainders. *)
LEMMA Counters ==
    /\ Wrap \in Nat \ {0} /\ MaxLag \in Nat /\ Cardinality(Proc) \in Nat
    /\ 2 * Cardinality(Proc) < Wrap
    /\ \A a \in 0..Wrap - 1, n \in 0..Wrap - 1 :
          (a + n) % Wrap = After(a, n) /\ After(a, n) \in 0..Wrap - 1
    /\ \A a \in 0..Wrap - 1, b \in 0..Wrap - 1 :
          (a - b) % Wrap = Gap(a, b) /\ Gap(a, b) \in 0..Wrap - 1
<1>1. /\ Wrap \in Nat \ {0} /\ MaxLag \in Nat /\ Cardinality(Proc) \in Nat
      /\ 2 * Cardinality(Proc) < Wrap
  BY CondConstants, FS_CardinalityType
<1>2. ASSUME NEW x \in 0..Wrap - 1 PROVE x % Wrap = x
  BY <1>1
<1>3. ASSUME NEW x \in Wrap..2 * Wrap - 1 PROVE x % Wrap = x - Wrap
  BY <1>1
<1>4. ASSUME NEW x \in -Wrap..-1 PROVE x % Wrap = x + Wrap
  BY <1>1
<1>5. ASSUME NEW a \in 0..Wrap - 1, NEW n \in 0..Wrap - 1
      PROVE  (a + n) % Wrap = After(a, n) /\ After(a, n) \in 0..Wrap - 1
  <2>1. a + n \in 0..Wrap - 1 \/ a + n \in Wrap..2 * Wrap - 1
    BY <1>1
  <2> QED
    BY <2>1, <1>1, <1>2, <1>3 DEF After
<1>6. ASSUME NEW a \in 0..Wrap - 1, NEW b \in 0..Wrap - 1
      PROVE  (a - b) % Wrap = Gap(a, b) /\ Gap(a, b) \in 0..Wrap - 1
  <2>1. a - b \in 0..Wrap - 1 \/ a - b \in -Wrap..-1
    BY <1>1
  <2> QED
    BY <2>1, <1>1, <1>2, <1>4 DEF Gap
<1> QED
  BY <1>1, <1>5, <1>6

Places == {"idle", "ticket", "parked", "relock", "fast", "lock", "ready"}

(* The types, and how long the line can be. *)
LEMMA Facts ==
    ASSUME IInv
    PROVE  /\ wait \in 0..Wrap - 1 /\ notify \in 0..Wrap - 1
           /\ list \in Seq(Proc) /\ line \in Seq(Proc) /\ pc \in [Proc -> Places]
           /\ t \in [Proc -> 0..Wrap - 1] /\ all \in [Proc -> BOOLEAN]
           /\ todo \in [Proc -> Seq(Proc)] /\ lag \in [Proc -> 0..MaxLag]
           /\ owed \in [Proc -> SUBSET Proc]
           /\ Len(line) \in Nat /\ Len(line) <= Cardinality(Proc)
           /\ DOMAIN line = 1..Len(line) /\ IsInjective(line) /\ IsInjective(list)
           /\ Range(line) \subseteq Proc /\ Range(list) \subseteq Proc
           /\ \A q \in Proc : Range(todo[q]) \subseteq Proc
<1>1. /\ wait \in 0..Wrap - 1 /\ notify \in 0..Wrap - 1
      /\ list \in Seq(Proc) /\ line \in Seq(Proc) /\ pc \in [Proc -> Places]
      /\ t \in [Proc -> 0..Wrap - 1] /\ all \in [Proc -> BOOLEAN]
      /\ todo \in [Proc -> Seq(Proc)] /\ lag \in [Proc -> 0..MaxLag]
      /\ owed \in [Proc -> SUBSET Proc]
  BY DEF IInv, TypeOK, Places
<1>2. IsInjective(line) /\ IsInjective(list)
  BY DEF IInv, InLine, InList
<1>3. Len(line) <= Cardinality(Proc)
  BY <1>1, <1>2, InjectiveShort, CondConstants
<1>4. Len(line) \in Nat /\ DOMAIN line = 1..Len(line)
  BY <1>1
<1>5. Range(line) \subseteq Proc /\ Range(list) \subseteq Proc
  BY <1>1, RangeSeq
<1>6. \A q \in Proc : Range(todo[q]) \subseteq Proc
  BY <1>1, RangeSeq
<1> QED
  BY <1>1, <1>2, <1>3, <1>4, <1>5, <1>6

-----------------------------------------------------------------------------
LEMMA WaitInv ==
    ASSUME IInv, NEW p \in Proc, Wait(p)
    PROVE  IInv'
<1>1. /\ pc[p] = "idle" /\ t' = [t EXCEPT ![p] = wait] /\ wait' = (wait + 1) % Wrap
      /\ line' = Append(line, p) /\ pc' = [pc EXCEPT ![p] = "ticket"]
      /\ notify' = notify /\ list' = list /\ all' = all /\ todo' = todo /\ lag' = lag
      /\ owed' = owed
  BY DEF Wait, At, Goto
<1>2. /\ p \notin Range(line) /\ p \notin Range(list) /\ \A q \in Proc : p \notin Range(todo[q])
  BY <1>1 DEF IInv, InLine, InList, InTodo, At
<1>3. /\ line' \in Seq(Proc) /\ Range(line') = Range(line) \union {p} /\ IsInjective(line')
      /\ Len(line') = Len(line) + 1 /\ line'[Len(line) + 1] = p
      /\ \A i \in 1..Len(line) : line'[i] = line[i]
  BY <1>1, <1>2, Facts, AppendFacts
<1>4. Len(line) + 1 <= Cardinality(Proc)
  BY <1>3, InjectiveShort, CondConstants
<1>5. /\ pc' \in [Proc -> Places] /\ pc'[p] = "ticket" /\ t' \in [Proc -> 0..Wrap - 1]
      /\ t'[p] = wait /\ \A x \in Proc : x # p => pc'[x] = pc[x] /\ t'[x] = t[x]
  BY <1>1, Facts DEF Places
<1>6. wait' = After(wait, 1) /\ wait' \in 0..Wrap - 1
  <2>1. 1 \in 0..Wrap - 1 /\ wait \in 0..Wrap - 1
    BY <1>4, Facts, Counters
  <2> QED
    BY <2>1, <1>1, Counters
<1>n. /\ Len(line) \in Nat /\ 2 * Len(line) + 2 < Wrap /\ Wrap \in Nat
      /\ wait \in 0..Wrap - 1 /\ notify \in 0..Wrap - 1 /\ Len(line) = Gap(wait, notify)
  <2>1. Wrap \in Nat /\ Cardinality(Proc) \in Nat /\ 2 * Cardinality(Proc) < Wrap
    BY Counters
  <2>2. Len(line) \in Nat /\ wait \in 0..Wrap - 1 /\ notify \in 0..Wrap - 1
    BY Facts
  <2>3. Len(line) = Gap(wait, notify)
    BY DEF IInv, InLine
  <2> QED
    BY <2>1, <2>2, <2>3, <1>4
<1>7. TypeOK'
  BY <1>1, <1>3, <1>5, <1>6, Facts DEF TypeOK, Places
<1>8. InLine'
  <2>1. Len(line') = Gap(wait', notify')
    BY <1>1, <1>3, <1>6, <1>n DEF Gap, After
  <2>2. ASSUME NEW i \in 1..Len(line') PROVE t'[line'[i]] = After(notify', i - 1)
    <3>1. CASE i = Len(line) + 1
      BY <3>1, <1>1, <1>3, <1>5, <1>n DEF Gap, After
    <3>2. CASE i \in 1..Len(line)
      <4>1. line'[i] = line[i] /\ line[i] \in Proc /\ line[i] \in Range(line)
        BY <3>2, <1>3, Facts DEF Range
      <4>2. t[line[i]] = After(notify, i - 1)
        BY <3>2 DEF IInv, InLine
      <4> QED
        BY <4>1, <4>2, <1>1, <1>2, <1>5 DEF After
    <3> QED
      BY <3>1, <3>2, <1>3, Facts
  <2>3. \A x \in Range(line') : At(x, "ticket")' \/ (At(x, "parked")' /\ x \in Range(list'))
    BY <1>1, <1>3, <1>5, Facts DEF IInv, InLine, At
  <2> QED
    BY <2>1, <2>2, <2>3, <1>3 DEF InLine
<1>9. Passed'
  BY <1>1, <1>3, <1>5 DEF IInv, Passed, At, Gap
<1>10. InList'
  BY <1>1, <1>2, <1>3, <1>5, Facts DEF IInv, InList, At
<1>11. InTodo'
  BY <1>1, <1>2, <1>3, <1>5, Facts DEF IInv, InTodo, At
<1>12. Found'
  BY <1>1, <1>5 DEF IInv, Found, At
<1>13. Owing'
  <2> SUFFICES ASSUME NEW x \in Proc, pc'[x] \in {"fast", "lock"}, owed'[x] # {}
               PROVE  \E m \in 1..Len(line') : /\ owed'[x] = {line'[i] : i \in 1..m}
                                               /\ t'[x] = After(notify', m)
    BY DEF Owing
  <2>1. x # p /\ pc[x] \in {"fast", "lock"} /\ owed[x] # {} /\ t'[x] = t[x]
    BY <1>1, <1>5
  <2>2. PICK m \in 1..Len(line) : owed[x] = {line[i] : i \in 1..m} /\ t[x] = After(notify, m)
    BY <2>1 DEF IInv, Owing
  <2>3. m \in 1..Len(line') /\ \A i \in 1..m : line'[i] = line[i]
    BY <1>3, <1>n
  <2>4. {line'[i] : i \in 1..m} = {line[i] : i \in 1..m}
    BY <2>3
  <2> QED
    BY <2>1, <2>2, <2>3, <2>4, <1>1 DEF After
<1> QED
  BY <1>7, <1>8, <1>9, <1>10, <1>11, <1>12, <1>13 DEF IInv

(* The ticket tells whether the goroutine has been notified, as long as it  *)
(* has not been left behind by more than half of the counters' range.       *)
LEMMA TicketTells ==
    ASSUME IInv, MaxLag <= Wrap \div 2, NEW p \in Proc, pc[p] = "ticket"
    PROVE  less(t[p], notify) <=> p \notin Range(line)
<1>1. /\ Wrap \in Nat \ {0} /\ MaxLag \in Nat /\ 2 * Len(line) < Wrap /\ Len(line) \in Nat
      /\ t[p] \in 0..Wrap - 1 /\ notify \in 0..Wrap - 1
  <2>1. /\ Cardinality(Proc) \in Nat /\ 2 * Cardinality(Proc) < Wrap /\ Wrap \in Nat \ {0}
        /\ MaxLag \in Nat
    BY Counters
  <2>2. /\ Len(line) \in Nat /\ Len(line) <= Cardinality(Proc)
        /\ t[p] \in 0..Wrap - 1 /\ notify \in 0..Wrap - 1
    BY Facts
  <2> QED
    BY <2>1, <2>2
<1>2. less(t[p], notify) <=> Gap(t[p], notify) >= Wrap \div 2
  BY <1>1, Counters DEF less
<1>3. CASE p \in Range(line)
  <2>1. PICK i \in 1..Len(line) : line[i] = p
    BY <1>3, Facts DEF Range
  <2>2. t[p] = After(notify, i - 1)
    BY <2>1 DEF IInv, InLine
  <2>3. Gap(t[p], notify) = i - 1
    BY <2>2, <1>1 DEF Gap, After
  <2> QED
    BY <2>3, <1>1, <1>2, <1>3
<1>4. CASE p \notin Range(line)
  <2>1. lag[p] >= 1 /\ t[p] = Gap(notify, lag[p])
    BY <1>4 DEF IInv, Passed, At
  <2>2. lag[p] \in 0..MaxLag
    BY Facts
  <2>3. lag[p] \in 1..Wrap - 1 /\ lag[p] <= Wrap \div 2
    BY <2>1, <2>2, <1>1
  <2>4. ASSUME NEW k \in 1..Wrap - 1, NEW x \in 0..Wrap - 1, x = Gap(notify, k)
        PROVE  Gap(x, notify) = Wrap - k
    BY <2>4, <1>1 DEF Gap
  <2>5. Gap(t[p], notify) = Wrap - lag[p]
    BY <2>1, <2>3, <2>4, <1>1
  <2> QED
    BY <2>3, <2>5, <1>1, <1>2, <1>4
<1> QED
  BY <1>3, <1>4

LEMMA notifyListWaitInv ==
    ASSUME IInv, MaxLag <= Wrap \div 2, NEW p \in Proc, notifyListWait(p)
    PROVE  IInv'
<1>1. /\ pc[p] = "ticket" /\ lag' = [lag EXCEPT ![p] = 0]
      /\ wait' = wait /\ notify' = notify /\ t' = t /\ all' = all /\ todo' = todo
      /\ line' = line /\ owed' = owed
  BY DEF notifyListWait, At
<1>2. \/ /\ p \notin Range(line) /\ pc' = [pc EXCEPT ![p] = "relock"] /\ list' = list
      \/ /\ p \in Range(line) /\ pc' = [pc EXCEPT ![p] = "parked"] /\ list' = Append(list, p)
  BY <1>1, TicketTells DEF notifyListWait, Goto
<1>3. p \notin Range(list) /\ \A q \in Proc : p \notin Range(todo[q])
  BY <1>1 DEF IInv, InList, InTodo, At
<1>4. /\ list' \in Seq(Proc) /\ IsInjective(list')
      /\ \/ p \notin Range(line) /\ pc'[p] = "relock" /\ Range(list') = Range(list)
         \/ p \in Range(line) /\ pc'[p] = "parked" /\ Range(list') = Range(list) \union {p}
  <2>1. list \in Seq(Proc) /\ IsInjective(list) /\ pc \in [Proc -> Places]
    BY Facts
  <2>2. /\ Append(list, p) \in Seq(Proc) /\ IsInjective(Append(list, p))
        /\ Range(Append(list, p)) = Range(list) \union {p}
    BY <2>1, <1>3, AppendFacts
  <2> QED
    BY <2>1, <2>2, <1>2
<1>5. pc' \in [Proc -> Places] /\ \A x \in Proc : x # p => pc'[x] = pc[x] /\ lag'[x] = lag[x]
  BY <1>1, <1>2, Facts DEF Places
<1>6. lag' \in [Proc -> 0..MaxLag]
  BY <1>1, Facts, Counters
<1>7. TypeOK'
  BY <1>1, <1>4, <1>5, <1>6, Facts DEF TypeOK, Places
<1>8. InLine'
  <2>1. \A x \in Range(line') : At(x, "ticket")' \/ (At(x, "parked")' /\ x \in Range(list'))
    BY <1>1, <1>4, <1>5, Facts DEF IInv, InLine, At
  <2> QED
    BY <2>1, <1>1 DEF IInv, InLine, Gap, After
<1>9. Passed'
  BY <1>1, <1>4, <1>5 DEF IInv, Passed, At, Gap
<1>10. InList'
  BY <1>1, <1>4, <1>5, Facts DEF IInv, InList, At
<1>11. InTodo'
  BY <1>1, <1>3, <1>4, <1>5, Facts DEF IInv, InTodo, At
<1>12. Found'
  BY <1>1, <1>4, <1>5 DEF IInv, Found, At
<1>13. Owing'
  BY <1>1, <1>4, <1>5 DEF IInv, Owing, After
<1> QED
  BY <1>7, <1>8, <1>9, <1>10, <1>11, <1>12, <1>13 DEF IInv

(* A step of a goroutine that neither waits nor wakes anyone. *)
LEMMA MoveInv ==
    ASSUME IInv, NEW p \in Proc, NEW there \in {"idle", "fast", "lock"},
           pc' = [pc EXCEPT ![p] = there], pc[p] \notin {"ticket", "parked"}, todo[p] = <<>>,
           NEW k \in 0..Wrap - 1, t' = [t EXCEPT ![p] = k],
           all' \in [Proc -> BOOLEAN],
           NEW D \in SUBSET Proc, owed' = [owed EXCEPT ![p] = D],
           UNCHANGED <<wait, notify, list, todo, line, lag>>,
           \/ there = "idle" \/ D = {}
           \/ \E m \in 1..Len(line) : D = {line[i] : i \in 1..m} /\ k = After(notify, m)
    PROVE  IInv'
<1>1. /\ pc' \in [Proc -> Places] /\ pc'[p] = there
      /\ t' \in [Proc -> 0..Wrap - 1] /\ t'[p] = k
      /\ owed' \in [Proc -> SUBSET Proc] /\ owed'[p] = D
      /\ \A x \in Proc : x # p => pc'[x] = pc[x] /\ t'[x] = t[x] /\ owed'[x] = owed[x]
  BY Facts DEF Places
<1>2. TypeOK'
  BY <1>1, Facts DEF TypeOK, Places
<1>3. p \notin Range(line) /\ p \notin Range(list) /\ \A q \in Proc : p \notin Range(todo[q])
  BY DEF IInv, InLine, InList, InTodo, At
<1>4. \A i \in 1..Len(line) : line[i] \in Proc /\ line[i] # p
  BY <1>3, Facts DEF Range
<1>5. InLine'
  <2>1. \A i \in 1..Len(line) : t'[line[i]] = After(notify, i - 1)
    BY <1>1, <1>4 DEF IInv, InLine
  <2>2. \A x \in Range(line) : At(x, "ticket")' \/ (At(x, "parked")' /\ x \in Range(list))
    BY <1>1, <1>3, Facts DEF IInv, InLine, At
  <2> QED
    BY <2>1, <2>2 DEF IInv, InLine, Gap, After
<1>6. Passed'
  BY <1>1 DEF IInv, Passed, At, Gap
<1>7. InList'
  BY <1>1, <1>3, Facts DEF IInv, InList, At
<1>8. InTodo'
  <2>1. \A q \in Proc : ~At(q, "ready")' => todo[q] = <<>>
    BY <1>1 DEF IInv, InTodo, At
  <2>f. \A q \in Proc : Range(todo[q]) \subseteq Proc
    BY Facts
  <2>2. \A q \in Proc : \A x \in Range(todo[q]) : x \in Proc /\ x # p /\ pc[x] = "parked"
    BY <2>f, <1>3 DEF IInv, InTodo, At
  <2>3. \A q \in Proc : \A x \in Range(todo[q]) : At(x, "parked")'
    BY <2>2, <1>1 DEF At
  <2> QED
    BY <2>1, <2>3 DEF IInv, InTodo
<1>9. Found'
  BY <1>1 DEF IInv, Found, At
<1>10. Owing'
  BY <1>1 DEF IInv, Owing, After
<1> QED
  BY <1>2, <1>5, <1>6, <1>7, <1>8, <1>9, <1>10 DEF IInv

LEMMA RelockInv ==
    ASSUME IInv, NEW p \in Proc, Relock(p)
    PROVE  IInv'
<1>1. /\ pc[p] = "relock" /\ pc' = [pc EXCEPT ![p] = "idle"] /\ t' = [t EXCEPT ![p] = 0]
      /\ UNCHANGED <<wait, notify, list, todo, line, lag>> /\ all' = all /\ owed' = owed
  BY DEF Relock, At, Goto
<1>2. todo[p] = <<>>
  BY <1>1 DEF IInv, InTodo, At
<1>3. PICK D \in SUBSET Proc : owed' = [owed EXCEPT ![p] = D]
  BY <1>1, Facts
<1>4. 0 \in 0..Wrap - 1 /\ all' \in [Proc -> BOOLEAN]
  BY <1>1, Facts, Counters
<1> QED
  BY <1>1, <1>2, <1>3, <1>4, MoveInv

LEMMA CallInv ==
    ASSUME IInv, NEW p \in Proc, NEW b \in BOOLEAN, Call(p, b)
    PROVE  IInv'
<1>1. /\ pc[p] = "idle" /\ pc' = [pc EXCEPT ![p] = "fast"] /\ t' = [t EXCEPT ![p] = wait]
      /\ all' = [all EXCEPT ![p] = b] /\ owed' = [owed EXCEPT ![p] = Range(line)]
      /\ UNCHANGED <<wait, notify, list, todo, line, lag>>
  BY DEF Call, At, Goto
<1>2. todo[p] = <<>>
  BY <1>1 DEF IInv, InTodo, At
<1>3. wait \in 0..Wrap - 1 /\ Range(line) \in SUBSET Proc
  BY Facts
<1>4. all' \in [Proc -> BOOLEAN]
  <2>1. all \in [Proc -> BOOLEAN]
    BY Facts
  <2> QED
    BY <2>1, <1>1, Zenon
<1>5. Range(line) = {} \/ \E m \in 1..Len(line) : /\ Range(line) = {line[i] : i \in 1..m}
                                                /\ wait = After(notify, m)
  <2>1. Range(line) = {line[i] : i \in 1..Len(line)} /\ Len(line) \in Nat
    BY Facts DEF Range
  <2>2. CASE Len(line) = 0
    BY <2>1, <2>2
  <2>3. CASE Len(line) # 0
    <3>1. Len(line) = Gap(wait, notify)
      BY DEF IInv, InLine
    <3>2. /\ wait \in 0..Wrap - 1 /\ notify \in 0..Wrap - 1 /\ Wrap \in Nat
      BY Facts, Counters
    <3>3. wait = After(notify, Len(line))
      BY <3>1, <3>2, <2>1 DEF Gap, After
    <3> QED
      BY <2>1, <2>3, <3>3
  <2> QED
    BY <2>2, <2>3
<1> QED
  BY <1>1, <1>2, <1>3, <1>4, <1>5, MoveInv

(* A notifier returns. *)
LEMMA ReturnInv ==
    ASSUME IInv, NEW p \in Proc, Return(p), pc[p] \notin {"ticket", "parked"}, todo[p] = <<>>,
           UNCHANGED <<wait, notify, list, todo, line, lag>>
    PROVE  IInv'
<1>1. /\ pc' = [pc EXCEPT ![p] = "idle"] /\ t' = [t EXCEPT ![p] = 0]
      /\ all' = [all EXCEPT ![p] = FALSE] /\ owed' = [owed EXCEPT ![p] = {}]
  BY DEF Return, Goto
<1>2. all' \in [Proc -> BOOLEAN]
  <2>1. all \in [Proc -> BOOLEAN]
    BY Facts
  <2> QED
    BY <2>1, <1>1, Zenon
<1>3. 0 \in 0..Wrap - 1 /\ {} \in SUBSET Proc
  BY Counters
<1> QED
  BY <1>1, <1>2, <1>3, MoveInv

LEMMA FastPathInv ==
    ASSUME IInv, NEW p \in Proc, FastPath(p)
    PROVE  IInv'
<1>1. pc[p] = "fast" /\ UNCHANGED <<wait, notify, list, todo, line, lag>>
  BY DEF FastPath, At
<1>2. todo[p] = <<>>
  BY <1>1 DEF IInv, InTodo, At
<1>3. CASE t[p] = notify
  BY <1>1, <1>2, <1>3, ReturnInv DEF FastPath
<1>4. CASE t[p] # notify
  <2>1. pc' = [pc EXCEPT ![p] = "lock"] /\ t' = t /\ all' = all /\ owed' = owed
    BY <1>4 DEF FastPath, Goto
  <2>f. /\ owed \in [Proc -> SUBSET Proc] /\ t \in [Proc -> 0..Wrap - 1]
        /\ all \in [Proc -> BOOLEAN]
    BY Facts
  <2>2. PICK D \in SUBSET Proc, k \in 0..Wrap - 1 :
           /\ D = owed[p] /\ k = t[p]
           /\ owed' = [owed EXCEPT ![p] = D] /\ t' = [t EXCEPT ![p] = k]
    <3>1. owed[p] \in SUBSET Proc /\ owed' = [owed EXCEPT ![p] = owed[p]]
      BY <2>1, <2>f
    <3>2. t[p] \in 0..Wrap - 1 /\ t' = [t EXCEPT ![p] = t[p]]
      BY <2>1, <2>f
    <3> QED
      BY <3>1, <3>2
  <2>3. all' \in [Proc -> BOOLEAN] /\ pc' = [pc EXCEPT ![p] = "lock"]
    BY <2>1, <2>f
  <2>4. D = {} \/ \E m \in 1..Len(line) : D = {line[i] : i \in 1..m} /\ k = After(notify, m)
    BY <2>2, <1>1 DEF IInv, Owing
  <2> QED
    BY <2>2, <2>3, <2>4, <1>1, <1>2, MoveInv
<1> QED
  BY <1>3, <1>4

LEMMA NotifyReturnsInv ==
    ASSUME IInv, NEW p \in Proc, NotifyReturns(p)
    PROVE  IInv'
  BY ReturnInv DEF NotifyReturns, At

-----------------------------------------------------------------------------
(* Going on from a ticket further on. *)
LEMMA AfterAfter ==
    ASSUME NEW a \in 0..Wrap - 1, NEW n \in Nat, NEW i \in Nat, n + i < Wrap
    PROVE  After(After(a, n), i) = After(a, n + i)
<1>1. Wrap \in Nat \ {0}
  BY Counters
<1> QED
  BY <1>1 DEF After

LEMMA GapAfter ==
    ASSUME NEW a \in 0..Wrap - 1, NEW n \in Nat, NEW g \in Nat, g + n < Wrap
    PROVE  Gap(After(a, n), g + n) = Gap(a, g)
<1>1. Wrap \in Nat \ {0}
  BY Counters
<1> QED
  BY <1>1 DEF After, Gap

LEMMA AfterGap ==
    ASSUME NEW a \in 0..Wrap - 1, NEW n \in Nat, NEW i \in 0..n, n < Wrap
    PROVE  After(a, i) = Gap(After(a, n), n - i)
<1>1. Wrap \in Nat \ {0}
  BY Counters
<1> QED
  BY <1>1 DEF After, Gap

(* What the first n in line being notified means for the others. *)
LEMMA AdvanceFacts ==
    ASSUME IInv, MaxLag <= Wrap \div 2, NEW n \in 0..Len(line), Advance(n)
    PROVE  LET gone == {line[i] : i \in 1..n}
           IN  /\ notify' \in 0..Wrap - 1 /\ line' \in Seq(Proc) /\ IsInjective(line')
               /\ Range(line) = Range(line') \union gone /\ Range(line') \intersect gone = {}
               /\ Len(line') = Gap(wait, notify')
               /\ \A i \in 1..Len(line') : t[line'[i]] = After(notify', i - 1)
               /\ lag' \in [Proc -> 0..MaxLag]
               /\ \A q \in Proc : pc[q] = "ticket" /\ q \notin Range(line') =>
                     lag'[q] >= 1 /\ t[q] = Gap(notify', lag'[q])
               /\ owed' \in [Proc -> SUBSET Proc]
               /\ \A q \in Proc : owed'[q] = owed[q] \ gone
               /\ \A q \in Proc : pc[q] \in {"fast", "lock"} =>
                     \/ owed'[q] = {}
                     \/ \E m \in 1..Len(line') : /\ owed'[q] = {line'[i] : i \in 1..m}
                                                 /\ t[q] = After(notify', m)
<1> DEFINE gone == {line[i] : i \in 1..n}
<1>1. /\ notify' = (notify + n) % Wrap /\ line' = SubSeq(line, n + 1, Len(line))
      /\ \A q \in Proc : lag'[q] <= MaxLag
      /\ lag' = [q \in Proc |-> IF ~At(q, "ticket") \/ q \in Range(line') THEN lag[q]
                                ELSE IF q \in gone THEN n + 1 - Place(q) ELSE lag[q] + n]
      /\ owed' = [q \in Proc |-> owed[q] \ gone]
  BY DEF Advance
<1>2. /\ Wrap \in Nat \ {0} /\ MaxLag \in Nat /\ 2 * Len(line) < Wrap /\ Len(line) \in Nat
      /\ wait \in 0..Wrap - 1 /\ notify \in 0..Wrap - 1 /\ n \in Nat
      /\ Len(line) = Gap(wait, notify)
  <2>1. /\ Cardinality(Proc) \in Nat /\ 2 * Cardinality(Proc) < Wrap /\ Wrap \in Nat \ {0}
        /\ MaxLag \in Nat
    BY Counters
  <2>2. /\ Len(line) \in Nat /\ Len(line) <= Cardinality(Proc)
        /\ wait \in 0..Wrap - 1 /\ notify \in 0..Wrap - 1
    BY Facts
  <2>3. Len(line) = Gap(wait, notify)
    BY DEF IInv, InLine
  <2> QED
    BY <2>1, <2>2, <2>3
<1>3. notify' = After(notify, n) /\ notify' \in 0..Wrap - 1
  <2>1. n \in 0..Wrap - 1
    BY <1>2
  <2> QED
    BY <2>1, <1>1, <1>2, Counters
<1>4. /\ line' \in Seq(Proc) /\ Len(line') = Len(line) - n
      /\ \A i \in 1..Len(line) - n : line'[i] = line[i + n]
      /\ IsInjective(line')
      /\ Range(line) = Range(line') \union gone
      /\ Range(line') \intersect gone = {}
  <2>1. line \in Seq(Proc) /\ IsInjective(line)
    BY Facts
  <2> DEFINE u == SubSeq(line, n + 1, Len(line))
  <2>2. /\ u \in Seq(Proc) /\ Len(u) = Len(line) - n
        /\ \A i \in 1..Len(line) - n : u[i] = line[i + n]
        /\ IsInjective(u)
        /\ Range(line) = Range(u) \union gone
        /\ Range(u) \intersect gone = {}
    BY <2>1, SubSeqFacts
  <2>3. line' = u
    BY <1>1
  <2> HIDE DEF u, gone
  <2> QED
    BY <2>2, <2>3
<1>m. MaxLag < Wrap
  BY Counters
<1> HIDE DEF gone
<1>5. Len(line') = Gap(wait, notify')
  BY <1>2, <1>3, <1>4 DEF Gap, After
<1>6. ASSUME NEW i \in 1..Len(line') PROVE t[line'[i]] = After(notify', i - 1)
  <2>1. /\ i + n \in 1..Len(line) /\ line'[i] = line[i + n]
        /\ i - 1 \in Nat /\ n + (i - 1) < Wrap /\ (i + n) - 1 = n + (i - 1)
    BY <1>2, <1>4
  <2>2. t[line[i + n]] = After(notify, (i + n) - 1)
    BY <2>1 DEF IInv, InLine
  <2>3. After(After(notify, n), i - 1) = After(notify, n + (i - 1))
    BY <2>1, <1>2, AfterAfter
  <2> QED
    BY <2>1, <2>2, <2>3, <1>3
<1>7. ASSUME NEW q \in Proc, pc[q] = "ticket", q \notin Range(line')
      PROVE  lag'[q] \in 0..MaxLag /\ lag'[q] >= 1 /\ t[q] = Gap(notify', lag'[q])
  <2>1. CASE q \in gone
    <3>1. PICK i \in 1..n : q = line[i]
      BY <2>1 DEF gone
    <3>2. i \in DOMAIN line
      BY <1>2, Facts
    <3>3. Place(q) = i
      BY <3>1, <3>2, Facts DEF Place, IsInjective
    <3>4. lag'[q] = n + 1 - i /\ lag'[q] <= MaxLag
      BY <3>3, <2>1, <1>1, <1>7 DEF At
    <3>5. t[q] = After(notify, i - 1)
      BY <3>1, <1>2 DEF IInv, InLine
    <3>6. i - 1 \in 0..n /\ n < Wrap /\ n - (i - 1) = n + 1 - i /\ n + 1 - i \in Nat /\ n + 1 - i >= 1
      BY <1>2
    <3>7. After(notify, i - 1) = Gap(After(notify, n), n - (i - 1))
      BY <3>6, <1>2, AfterGap
    <3> QED
      BY <3>4, <3>5, <3>6, <3>7, <1>2, <1>3
  <2>2. CASE q \notin gone
    <3>1. q \notin Range(line)
      BY <2>2, <1>4, <1>7
    <3>2. lag[q] >= 1 /\ t[q] = Gap(notify, lag[q]) /\ lag[q] \in 0..MaxLag
      BY <3>1, <1>7, Facts DEF IInv, Passed, At
    <3>3. lag'[q] = lag[q] + n /\ lag'[q] <= MaxLag
      BY <2>2, <1>1, <1>7 DEF At
    <3>4. lag[q] \in Nat /\ lag[q] + n < Wrap
      BY <3>2, <3>3, <1>2, <1>m
    <3>5. Gap(After(notify, n), lag[q] + n) = Gap(notify, lag[q])
      BY <3>4, <1>2, GapAfter
    <3> QED
      BY <3>2, <3>3, <3>4, <3>5, <1>2, <1>3
  <2> QED
    BY <2>1, <2>2
<1>8. lag' \in [Proc -> 0..MaxLag]
  <2>1. ASSUME NEW q \in Proc PROVE lag'[q] \in 0..MaxLag
    <3>1. CASE ~At(q, "ticket") \/ q \in Range(line')
      BY <3>1, <1>1, Facts
    <3>2. CASE ~(~At(q, "ticket") \/ q \in Range(line'))
      BY <3>2, <1>7 DEF At
    <3> QED
      BY <3>1, <3>2
  <2>2. DOMAIN lag' = Proc /\ lag' = [q \in Proc |-> lag'[q]]
    BY <1>1
  <2> QED
    BY <2>1, <2>2
<1>9. owed' \in [Proc -> SUBSET Proc] /\ \A q \in Proc : owed'[q] = owed[q] \ gone
  BY <1>1, Facts
<1>10. ASSUME NEW q \in Proc, pc[q] \in {"fast", "lock"}, owed'[q] # {}
       PROVE  \E m \in 1..Len(line') : /\ owed'[q] = {line'[i] : i \in 1..m}
                                       /\ t[q] = After(notify', m)
  <2>1. PICK m \in 1..Len(line) : owed[q] = {line[i] : i \in 1..m} /\ t[q] = After(notify, m)
    BY <1>9, <1>10 DEF IInv, Owing
  <2>2. m > n
    BY <2>1, <1>2, <1>9, <1>10 DEF gone
  <2>3. m - n \in 1..Len(line')
    BY <2>1, <2>2, <1>2, <1>4
  <2>4. t[q] = After(notify', m - n)
    <3>1. m - n \in Nat /\ n + (m - n) < Wrap /\ n + (m - n) = m
      BY <2>1, <2>2, <1>2
    <3>2. After(After(notify, n), m - n) = After(notify, n + (m - n))
      BY <3>1, <1>2, AfterAfter
    <3> QED
      BY <3>1, <3>2, <2>1, <1>3
  <2>5. {line[i] : i \in 1..m} \ gone = {line'[i] : i \in 1..m - n}
    <3>1. ASSUME NEW i \in 1..m, line[i] \notin gone
          PROVE  \E j \in 1..m - n : line[i] = line'[j]
      <4>1. i > n
        BY <3>1, <1>2 DEF gone
      <4>2. i - n \in 1..m - n /\ i - n \in 1..Len(line) - n /\ (i - n) + n = i
        BY <4>1, <1>2
      <4> QED
        BY <4>2, <1>4
    <3>2. ASSUME NEW j \in 1..m - n
          PROVE  line'[j] \notin gone /\ \E i \in 1..m : line'[j] = line[i]
      <4>1. j \in 1..Len(line) - n /\ j + n \in 1..m /\ j \in DOMAIN line'
        BY <2>2, <1>2, <1>4
      <4>2. line'[j] = line[j + n] /\ line'[j] \in Range(line')
        BY <4>1, <1>4 DEF Range
      <4> QED
        BY <4>1, <4>2, <1>4
    <3> DEFINE A == {line[i] : i \in 1..m}
               B == {line'[i] : i \in 1..m - n}
    <3>3. A \ gone \subseteq B
      BY <3>1
    <3>4. B \subseteq A \ gone
      BY <3>2
    <3> QED
      BY <3>3, <3>4
  <2> QED
    BY <2>1, <2>3, <2>4, <2>5, <1>9
<1> QED
  BY <1>3, <1>4, <1>5, <1>6, <1>7, <1>8, <1>9, <1>10 DEF gone

(* The first n in line have been notified, and p has those of them that     *)
(* sleep.                                                                   *)
LEMMA NotifyInv ==
    ASSUME IInv, MaxLag <= Wrap \div 2, NEW p \in Proc, pc[p] = "lock",
           NEW n \in 0..Len(line), Advance(n),
           NEW G, G = {line[i] : i \in 1..n},
           list' \in Seq(Proc), IsInjective(list'), Range(list') = Range(list) \ G,
           NEW d \in Seq(Proc), IsInjective(d), Range(d) = Range(list) \intersect G,
           todo' = [todo EXCEPT ![p] = d], pc' = [pc EXCEPT ![p] = "ready"],
           UNCHANGED <<wait, t, all>>
    PROVE  IInv'
<1>1. /\ notify' \in 0..Wrap - 1 /\ line' \in Seq(Proc) /\ IsInjective(line')
      /\ Range(line) = Range(line') \union G /\ Range(line') \intersect G = {}
      /\ Len(line') = Gap(wait, notify')
      /\ \A i \in 1..Len(line') : t[line'[i]] = After(notify', i - 1)
      /\ lag' \in [Proc -> 0..MaxLag]
      /\ \A q \in Proc : pc[q] = "ticket" /\ q \notin Range(line') =>
            lag'[q] >= 1 /\ t[q] = Gap(notify', lag'[q])
      /\ owed' \in [Proc -> SUBSET Proc]
      /\ \A q \in Proc : pc[q] \in {"fast", "lock"} =>
            \/ owed'[q] = {}
            \/ \E m \in 1..Len(line') : /\ owed'[q] = {line'[i] : i \in 1..m}
                                        /\ t[q] = After(notify', m)
  BY AdvanceFacts
<1>2. /\ pc' \in [Proc -> Places] /\ pc'[p] = "ready"
      /\ todo' \in [Proc -> Seq(Proc)] /\ todo'[p] = d
      /\ \A x \in Proc : x # p => pc'[x] = pc[x] /\ todo'[x] = todo[x]
  BY Facts DEF Places
<1>3. \A x \in Range(list) : pc[x] = "parked" /\ x \in Range(line) /\ x # p
  BY DEF IInv, InList, At
<1>4. /\ \A x \in Range(line) : pc[x] = "ticket" \/ (pc[x] = "parked" /\ x \in Range(list))
      /\ todo[p] = <<>>
  BY DEF IInv, InLine, InTodo, At
<1>5. \A q \in Proc : \A x \in Range(todo[q]) :
         /\ pc[x] = "parked" /\ x \notin Range(list) /\ x \notin Range(line)
         /\ \A r \in Proc : x \in Range(todo[r]) => r = q
  BY DEF IInv, InTodo, At
<1>6. /\ Range(list) \subseteq Proc /\ Range(line) \subseteq Proc
      /\ \A q \in Proc : Range(todo[q]) \subseteq Proc
  BY Facts
<1>7. TypeOK'
  BY <1>1, <1>2, Facts DEF TypeOK, Places
<1>8. InLine'
  <2>1. \A x \in Range(line') : At(x, "ticket")' \/ (At(x, "parked")' /\ x \in Range(list'))
    BY <1>1, <1>2, <1>3, <1>4, <1>6 DEF At
  <2> QED
    BY <2>1, <1>1 DEF InLine, Gap, After
<1>9. Passed'
  BY <1>1, <1>2 DEF Passed, At, Gap
<1>10. InList'
  BY <1>1, <1>2, <1>3, <1>6 DEF InList, At
<1>11. InTodo'
  <2>1. \A q \in Proc : IsInjective(todo'[q])
    BY <1>2 DEF IInv, InTodo
  <2>2. \A q \in Proc : ~At(q, "ready")' => todo'[q] = <<>>
    BY <1>2 DEF IInv, InTodo, At
  <2>3. ASSUME NEW q \in Proc, NEW x \in Range(todo'[q])
        PROVE  /\ At(x, "parked")' /\ x \notin Range(list') /\ x \notin Range(line')
               /\ \A r \in Proc : x \in Range(todo'[r]) => r = q
    <3>1. CASE q = p
      <4>1. x \in Range(list) /\ x \in G
        BY <3>1, <2>3, <1>2
      <4> QED
        BY <4>1, <3>1, <1>1, <1>2, <1>3, <1>5, <1>6 DEF At
    <3>2. CASE q # p
      <4>1. x \in Range(todo[q]) /\ x # p /\ x \in Proc
        BY <3>2, <2>3, <1>2, <1>5, <1>6
      <4> QED
        BY <4>1, <3>2, <1>1, <1>2, <1>5 DEF At
    <3> QED
      BY <3>1, <3>2
  <2> QED
    BY <2>1, <2>2, <2>3 DEF InTodo
<1>12. Found'
  <2> SUFFICES ASSUME NEW x \in Proc, pc'[x] = "parked"
               PROVE  x \in Range(list') \/ \E q \in Proc : x \in Range(todo'[q])
    BY DEF Found, At
  <2>1. x # p /\ pc[x] = "parked"
    BY <1>2
  <2>2. CASE x \in Range(list)
    BY <2>2, <1>2
  <2>3. CASE \E q \in Proc : x \in Range(todo[q])
    <3>1. PICK q \in Proc : x \in Range(todo[q])
      BY <2>3
    <3>2. q # p
      BY <3>1, <1>4 DEF Range
    <3> QED
      BY <3>1, <3>2, <1>2
  <2> QED
    BY <2>1, <2>2, <2>3 DEF IInv, Found, At
<1>13. Owing'
  <2>1. \A q \in Proc : pc'[q] \in {"fast", "lock"} => pc[q] \in {"fast", "lock"}
    BY <1>2
  <2> QED
    BY <2>1, <1>1 DEF Owing, After
<1> QED
  BY <1>7, <1>8, <1>9, <1>10, <1>11, <1>12, <1>13 DEF IInv

(* The next ticket to notify is that of the first in line. *)
LEMMA FirstTicket ==
    ASSUME IInv, notify # wait
    PROVE  /\ Len(line) >= 1 /\ line[1] \in Proc
           /\ \A x \in Range(list) : t[x] = notify <=> x = line[1]
<1>1. /\ wait \in 0..Wrap - 1 /\ notify \in 0..Wrap - 1 /\ Wrap \in Nat \ {0}
      /\ Len(line) \in Nat /\ 2 * Len(line) < Wrap /\ Len(line) = Gap(wait, notify)
  <2>1. Wrap \in Nat \ {0} /\ Cardinality(Proc) \in Nat /\ 2 * Cardinality(Proc) < Wrap
    BY Counters
  <2>2. Len(line) \in Nat /\ Len(line) <= Cardinality(Proc)
    BY Facts
  <2>3. Len(line) = Gap(wait, notify)
    BY DEF IInv, InLine
  <2> QED
    BY <2>1, <2>2, <2>3, Facts
<1>2. Len(line) >= 1
  BY <1>1 DEF Gap
<1>3. 1 \in 1..Len(line) /\ line \in Seq(Proc)
  BY <1>1, <1>2, Facts
<1>4. line[1] \in Proc
  BY <1>3
<1>5. ASSUME NEW x \in Range(list) PROVE t[x] = notify <=> x = line[1]
  <2>1. x \in Range(line)
    BY DEF IInv, InList
  <2>2. PICK i \in 1..Len(line) : x = line[i]
    BY <2>1, Facts DEF Range
  <2>3. t[line[i]] = After(notify, i - 1) /\ t[line[1]] = After(notify, 1 - 1)
    BY <1>3 DEF IInv, InLine
  <2>4. After(notify, 1 - 1) = notify
    BY <1>1 DEF After
  <2>5. After(notify, i - 1) = notify => i = 1
    BY <1>1 DEF After
  <2> QED
    BY <2>2, <2>3, <2>4, <2>5
<1> QED
  BY <1>2, <1>4, <1>5

(* The waiter that Unpark takes is the first in line. *)
LEMMA UnparkFacts ==
    ASSUME IInv, notify # wait, NEW p \in Proc, Unpark(p)
    PROVE  /\ list' \in Seq(Proc) /\ IsInjective(list') /\ Range(list') = Range(list) \ {line[1]}
           /\ \E d \in Seq(Proc) : /\ IsInjective(d) /\ Range(d) = Range(list) \intersect {line[1]}
                                   /\ todo' = [todo EXCEPT ![p] = d]
<1> DEFINE found == {k \in DOMAIN list : t[list[k]] = notify}
<1>1. /\ list' = IF found = {} THEN list ELSE RemoveAt(list, Min(found))
      /\ todo' = [todo EXCEPT ![p] = IF found = {} THEN <<>> ELSE <<list[Min(found)]>>]
  BY DEF Unpark
<1>2. list \in Seq(Proc) /\ IsInjective(list) /\ DOMAIN list = 1..Len(list)
  BY Facts
<1>3. \A k \in DOMAIN list : k \in found <=> list[k] = line[1]
  BY FirstTicket DEF Range
<1>4. CASE found = {}
  <2>1. line[1] \notin Range(list)
    BY <1>3, <1>4 DEF Range
  <2>2. <<>> \in Seq(Proc) /\ IsInjective(<<>>) /\ Range(<<>>) = {}
    BY DEF IsInjective, Range
  <2>3. list' = list /\ todo' = [todo EXCEPT ![p] = <<>>]
    BY <1>1, <1>4
  <2> QED
    BY <2>1, <2>2, <2>3, <1>2
<1>5. CASE found # {}
  <2>1. PICK k \in 1..Len(list) : found = {k} /\ list[k] = line[1]
    BY <1>2, <1>3, <1>5 DEF IsInjective
  <2> HIDE DEF found
  <2>2. Min(found) = k
    BY <2>1 DEF Min
  <2>3. list' = RemoveAt(list, k) /\ todo' = [todo EXCEPT ![p] = <<line[1]>>]
    BY <2>1, <2>2, <1>1, <1>5
  <2>4. /\ RemoveAt(list, k) \in Seq(Proc) /\ IsInjective(RemoveAt(list, k))
        /\ Range(RemoveAt(list, k)) = Range(list) \ {list[k]}
    BY <1>2, RemoveAtFacts
  <2>5. line[1] \in Proc /\ line[1] \in Range(list)
    BY <2>1, <1>2 DEF Range
  <2>6. <<line[1]>> \in Seq(Proc) /\ IsInjective(<<line[1]>>) /\ Range(<<line[1]>>) = {line[1]}
    BY <2>5 DEF IsInjective, Range
  <2> QED
    BY <2>1, <2>3, <2>4, <2>5, <2>6
<1> QED
  BY <1>4, <1>5

LEMMA notifyListNotifyOneInv ==
    ASSUME IInv, MaxLag <= Wrap \div 2, NEW p \in Proc, notifyListNotifyOne(p)
    PROVE  IInv'
<1>1. pc[p] = "lock" /\ wait' = wait
  BY DEF notifyListNotifyOne, At
<1>2. CASE notify = wait
  <2>1. Return(p) /\ UNCHANGED <<notify, list, todo, line, lag>>
    BY <1>2 DEF notifyListNotifyOne
  <2>2. todo[p] = <<>>
    BY <1>1 DEF IInv, InTodo, At
  <2> QED
    BY <2>1, <2>2, <1>1, ReturnInv
<1>3. CASE notify # wait
  <2>1. Advance(1) /\ Unpark(p) /\ pc' = [pc EXCEPT ![p] = "ready"] /\ UNCHANGED <<t, all>>
    BY <1>3 DEF notifyListNotifyOne, Goto
  <2>2. /\ list' \in Seq(Proc) /\ IsInjective(list') /\ Range(list') = Range(list) \ {line[1]}
        /\ \E d \in Seq(Proc) : /\ IsInjective(d) /\ Range(d) = Range(list) \intersect {line[1]}
                                /\ todo' = [todo EXCEPT ![p] = d]
    BY <2>1, <1>3, UnparkFacts
  <2>3. 1 \in 0..Len(line)
    BY <1>3, FirstTicket, Facts
  <2>4. {line[1]} = {line[i] : i \in 1..1}
    OBVIOUS
  <2> QED
    BY <2>1, <2>2, <2>3, <2>4, <1>1, NotifyInv
<1> QED
  BY <1>2, <1>3

LEMMA notifyListNotifyAllInv ==
    ASSUME IInv, MaxLag <= Wrap \div 2, NEW p \in Proc, notifyListNotifyAll(p)
    PROVE  IInv'
<1>1. /\ pc[p] = "lock" /\ Advance((wait - notify) % Wrap) /\ list' = <<>>
      /\ todo' = [todo EXCEPT ![p] = list] /\ pc' = [pc EXCEPT ![p] = "ready"]
      /\ UNCHANGED <<wait, t, all>>
  BY DEF notifyListNotifyAll, At, Goto
<1>2. (wait - notify) % Wrap = Len(line)
  BY Facts, Counters DEF IInv, InLine
<1>3. Advance(Len(line))
  BY <1>1, <1>2
<1>4. /\ list \in Seq(Proc) /\ IsInjective(list) /\ Len(line) \in 0..Len(line)
      /\ Range(line) = {line[i] : i \in 1..Len(line)}
  <2>1. /\ list \in Seq(Proc) /\ IsInjective(list) /\ Len(line) \in Nat
        /\ DOMAIN line = 1..Len(line)
    BY Facts
  <2> QED
    BY <2>1 DEF Range
<1>5. Range(list) \subseteq Range(line)
  BY DEF IInv, InList
<1>6. <<>> \in Seq(Proc) /\ IsInjective(<<>>) /\ Range(<<>>) = {}
  BY DEF IsInjective, Range
<1>7. PICK G : G = {line[i] : i \in 1..Len(line)}
  OBVIOUS
<1>8. /\ list' \in Seq(Proc) /\ IsInjective(list') /\ Range(list') = Range(list) \ G
      /\ Range(list) = Range(list) \intersect G
  BY <1>1, <1>4, <1>5, <1>6, <1>7
<1> QED
  BY <1>1, <1>3, <1>4, <1>7, <1>8, NotifyInv

LEMMA ReadyInv ==
    ASSUME IInv, NEW p \in Proc, Ready(p)
    PROVE  IInv'
<1> DEFINE h == Head(todo[p])
<1>1. /\ pc[p] = "ready" /\ todo[p] # <<>> /\ pc' = [pc EXCEPT ![h] = "relock"]
      /\ todo' = [todo EXCEPT ![p] = Tail(todo[p])]
      /\ wait' = wait /\ notify' = notify /\ list' = list /\ t' = t /\ all' = all
      /\ line' = line /\ lag' = lag /\ owed' = owed
  BY DEF Ready, At
<1>2. todo[p] \in Seq(Proc) /\ IsInjective(todo[p])
  BY Facts DEF IInv, InTodo
<1>3. /\ Tail(todo[p]) \in Seq(Proc) /\ h \in Proc /\ h \in Range(todo[p])
      /\ Range(todo[p]) = Range(Tail(todo[p])) \union {h} /\ h \notin Range(Tail(todo[p]))
      /\ IsInjective(Tail(todo[p]))
  BY <1>1, <1>2, TailFacts, HeadTailRange
<1> HIDE DEF h
<1>4. /\ pc[h] = "parked" /\ h \notin Range(list) /\ h \notin Range(line)
      /\ \A r \in Proc : h \in Range(todo[r]) => r = p
  BY <1>3 DEF IInv, InTodo, At
<1>5. /\ pc' \in [Proc -> Places] /\ pc'[h] = "relock" /\ \A x \in Proc : x # h => pc'[x] = pc[x]
      /\ todo' \in [Proc -> Seq(Proc)] /\ todo'[p] = Tail(todo[p])
      /\ \A x \in Proc : x # p => todo'[x] = todo[x]
  BY <1>1, <1>3, Facts DEF Places
<1>6. ASSUME NEW q \in Proc PROVE Range(todo'[q]) = Range(todo[q]) \ {h}
  <2>1. CASE q = p
    BY <2>1, <1>3, <1>5
  <2>2. CASE q # p
    <3>1. todo'[q] = todo[q] /\ h \notin Range(todo[q])
      BY <2>2, <1>4, <1>5
    <3> QED
      BY <3>1
  <2> QED
    BY <2>1, <2>2
<1>7. TypeOK'
  BY <1>1, <1>5, Facts DEF TypeOK, Places
<1>8. InLine'
  <2>1. \A x \in Range(line) : At(x, "ticket")' \/ (At(x, "parked")' /\ x \in Range(list))
    BY <1>4, <1>5, Facts DEF IInv, InLine, At
  <2> QED
    BY <2>1, <1>1 DEF IInv, InLine, Gap, After
<1>9. Passed'
  BY <1>1, <1>5 DEF IInv, Passed, At, Gap
<1>10. InList'
  BY <1>1, <1>4, <1>5, Facts DEF IInv, InList, At
<1>11. InTodo'
  <2>1. \A q \in Proc : IsInjective(todo'[q])
    BY <1>3, <1>5 DEF IInv, InTodo
  <2>2. \A q \in Proc : ~At(q, "ready")' => todo'[q] = <<>>
    BY <1>1, <1>4, <1>5 DEF IInv, InTodo, At
  <2>3. ASSUME NEW q \in Proc, NEW x \in Range(todo'[q])
        PROVE  /\ At(x, "parked")' /\ x \notin Range(list') /\ x \notin Range(line')
               /\ \A r \in Proc : x \in Range(todo'[r]) => r = q
    <3>1. x \in Range(todo[q]) /\ x # h /\ x \in Proc
      BY <2>3, <1>6, Facts
    <3> QED
      BY <3>1, <1>1, <1>5, <1>6 DEF IInv, InTodo, At
  <2> QED
    BY <2>1, <2>2, <2>3 DEF InTodo
<1>12. Found'
  BY <1>1, <1>5, <1>6 DEF IInv, Found, At
<1>13. Owing'
  <2>1. \A x \in Proc : pc'[x] \in {"fast", "lock"} => pc[x] \in {"fast", "lock"}
    BY <1>5
  <2> QED
    BY <2>1, <1>1 DEF IInv, Owing, After
<1> QED
  BY <1>7, <1>8, <1>9, <1>10, <1>11, <1>12, <1>13 DEF IInv

-----------------------------------------------------------------------------
LEMMA InitInv ==
    ASSUME Init
    PROVE  IInv
<1>1. /\ wait \in {0, Wrap - 1} /\ notify = wait /\ list = <<>> /\ line = <<>>
      /\ pc = [p \in Proc |-> "idle"] /\ t = [p \in Proc |-> 0]
      /\ all = [p \in Proc |-> FALSE] /\ todo = [p \in Proc |-> <<>>]
      /\ lag = [p \in Proc |-> 0] /\ owed = [p \in Proc |-> {}]
  BY DEF Init
<1>2. Wrap \in Nat \ {0} /\ MaxLag \in Nat
  BY Counters
<1>3. <<>> \in Seq(Proc) /\ IsInjective(<<>>) /\ Range(<<>>) = {} /\ Len(<<>>) = 0
  BY DEF IsInjective, Range
<1>4. wait \in 0..Wrap - 1 /\ 0 \in 0..Wrap - 1 /\ 0 \in 0..MaxLag
  BY <1>1, <1>2
<1>5. TypeOK
  <2>1. all \in [Proc -> BOOLEAN]
    BY <1>1, Zenon
  <2> QED
    BY <2>1, <1>1, <1>3, <1>4 DEF TypeOK
<1>6. InLine
  BY <1>1, <1>2, <1>3 DEF InLine, Gap
<1>7. Passed /\ InList /\ InTodo /\ Found /\ Owing
  BY <1>1, <1>3 DEF Passed, InList, InTodo, Found, Owing, At
<1> QED
  BY <1>5, <1>6, <1>7 DEF IInv

LEMMA NextInv ==
    ASSUME IInv, MaxLag <= Wrap \div 2, [Next]_vars
    PROVE  IInv'
<1>1. CASE UNCHANGED vars
  <2>1. /\ wait' = wait /\ notify' = notify /\ list' = list /\ pc' = pc /\ t' = t /\ all' = all
        /\ todo' = todo /\ line' = line /\ lag' = lag /\ owed' = owed
    BY <1>1 DEF vars
  <2>2. TypeOK' /\ InList' /\ InTodo' /\ Found'
    BY <2>1 DEF IInv, TypeOK, InList, InTodo, Found, At
  <2>3. InLine'
    BY <2>1 DEF IInv, InLine, At, After, Gap
  <2>4. Passed'
    BY <2>1 DEF IInv, Passed, At, Gap
  <2>5. Owing'
    BY <2>1 DEF IInv, Owing, After
  <2> QED
    BY <2>2, <2>3, <2>4, <2>5 DEF IInv
<1>2. CASE Next
  <2>1. PICK p \in Proc : Wait(p) \/ Call(p, FALSE) \/ Call(p, TRUE) \/ Step(p)
    BY <1>2 DEF Next, Signal, Broadcast
  <2>2. FALSE \in BOOLEAN /\ TRUE \in BOOLEAN
    OBVIOUS
  <2> QED
    BY <2>1, <2>2, WaitInv, CallInv, notifyListWaitInv, RelockInv, FastPathInv,
       notifyListNotifyOneInv, notifyListNotifyAllInv, ReadyInv, NotifyReturnsInv DEF Step
<1> QED
  BY <1>1, <1>2

(* A waiter that falls behind by at most half of the range of the counters, *)
(* as Wait's ticket and int32(a-b) < 0 need, keeps everything in its place. *)
THEOREM CondInvariant == MaxLag <= Wrap \div 2 => (Spec => []IInv)
<1> SUFFICES ASSUME MaxLag <= Wrap \div 2 PROVE Spec => []IInv
  OBVIOUS
<1>1. Init => IInv
  BY InitInv
<1>2. IInv /\ [Next]_vars => IInv'
  BY NextInv
<1> QED
  BY <1>1, <1>2, PTL DEF Spec

(* A sleeping goroutine is in one place. *)
LEMMA OnePlace ==
    ASSUME IInv, NEW p \in Proc, pc[p] = "parked"
    PROVE  Cardinality(InListAt(p)) + Cardinality(InTodoAt(p)) = 1
<1>1. ASSUME NEW q \in Proc, NEW i \in DOMAIN todo[q], todo[q][i] = p
      PROVE  p \in Range(todo[q]) /\ p \notin Range(list) /\ \A r \in Proc : p \in Range(todo[r]) => r = q
  <2>1. p \in Range(todo[q])
    BY <1>1 DEF Range
  <2> QED
    BY <2>1 DEF IInv, InTodo
<1>2. CASE p \in Range(list)
  <2>1. PICK k \in DOMAIN list : list[k] = p
    BY <1>2 DEF Range
  <2>2. InListAt(p) = {k}
    BY <2>1, Facts DEF InListAt, IsInjective
  <2>3. InTodoAt(p) = {}
    <3> SUFFICES ASSUME NEW u \in InTodoAt(p) PROVE FALSE
      OBVIOUS
    <3>1. u[1] \in Proc /\ u[2] \in DOMAIN todo[u[1]] /\ todo[u[1]][u[2]] = p
      BY DEF InTodoAt
    <3> QED
      BY <3>1, <1>1, <1>2
  <2>4. Cardinality({k}) = 1 /\ Cardinality({}) = 0
    BY FS_Singleton, FS_EmptySet
  <2> QED
    BY <2>2, <2>3, <2>4
<1>3. CASE p \notin Range(list)
  <2>1. PICK q \in Proc : p \in Range(todo[q])
    BY <1>3 DEF IInv, Found, At
  <2>2. PICK i \in DOMAIN todo[q] : todo[q][i] = p
    BY <2>1 DEF Range
  <2>3. InListAt(p) = {}
    BY <1>3 DEF InListAt, Range
  <2>4. todo[q] \in Seq(Proc) /\ IsInjective(todo[q]) /\ IsFiniteSet(Proc)
    BY Facts, CondConstants DEF IInv, InTodo
  <2>5. Len(todo[q]) <= Cardinality(Proc) /\ DOMAIN todo[q] = 1..Len(todo[q])
    BY <2>4, InjectiveShort
  <2>6. i \in 1..Cardinality(Proc)
    BY <2>4, <2>5, Counters
  <2>7. <<q, i>> \in InTodoAt(p)
    BY <2>2, <2>6 DEF InTodoAt
  <2>8. ASSUME NEW u \in InTodoAt(p) PROVE u = <<q, i>>
    <3>1. /\ u \in Proc \X (1..Cardinality(Proc)) /\ u[1] \in Proc
          /\ u[2] \in DOMAIN todo[u[1]] /\ todo[u[1]][u[2]] = p
      BY DEF InTodoAt
    <3>2. u[1] = q
      BY <3>1, <2>1, <1>1
    <3>3. u[2] = i
      BY <3>1, <3>2, <2>2, <2>4 DEF IsInjective
    <3> QED
      BY <3>1, <3>2, <3>3
  <2>9. InTodoAt(p) = {<<q, i>>}
    BY <2>7, <2>8
  <2>10. Cardinality({<<q, i>>}) = 1 /\ Cardinality({}) = 0
    BY FS_Singleton, FS_EmptySet
  <2> QED
    BY <2>3, <2>9, <2>10
<1> QED
  BY <1>2, <1>3

LEMMA AsleepHolds ==
    ASSUME IInv
    PROVE  Asleep
<1>1. Tickets
  <2>1. Len(line) = (wait - notify) % Wrap
    BY Facts, Counters DEF IInv, InLine
  <2>2. ASSUME NEW i \in DOMAIN line PROVE t[line[i]] = (notify + i - 1) % Wrap
    <3>1. /\ Len(line) \in Nat /\ 2 * Len(line) < Wrap /\ Wrap \in Nat /\ DOMAIN line = 1..Len(line)
          /\ notify \in 0..Wrap - 1
      <4>1. Cardinality(Proc) \in Nat /\ 2 * Cardinality(Proc) < Wrap /\ Wrap \in Nat \ {0}
        BY Counters
      <4>2. /\ Len(line) \in Nat /\ Len(line) <= Cardinality(Proc) /\ DOMAIN line = 1..Len(line)
            /\ notify \in 0..Wrap - 1
        BY Facts
      <4> QED
        BY <4>1, <4>2
    <3>2. i \in 1..Len(line) /\ i - 1 \in 0..Wrap - 1 /\ notify + i - 1 = notify + (i - 1)
      BY <3>1
    <3>3. t[line[i]] = After(notify, i - 1)
      BY <3>2 DEF IInv, InLine
    <3>4. (notify + (i - 1)) % Wrap = After(notify, i - 1)
      BY <3>1, <3>2, Counters
    <3> QED
      BY <3>2, <3>3, <3>4
  <2> QED
    BY <2>1, <2>2 DEF Tickets
<1>2. TypeOK /\ NotifiedStaysAwake
  BY DEF IInv, InList, NotifiedStaysAwake
<1>3. \A p \in Proc : At(p, "parked") => Cardinality(InListAt(p)) + Cardinality(InTodoAt(p)) = 1
  BY OnePlace DEF At
<1>4. \A p \in Proc : p \in Range(line) => At(p, "ticket") \/ (At(p, "parked") /\ p \in Range(list))
  BY DEF IInv, InLine
<1> QED
  BY <1>1, <1>2, <1>3, <1>4 DEF Asleep

(* If a waiter is owed, its ticket has still to be notified, and it is the  *)
(* first in line or behind it.                                              *)
LEMMA OwedWaits ==
    ASSUME IInv, NEW p \in Proc, pc[p] \in {"fast", "lock"}, owed[p] # {}
    PROVE  /\ Len(line) >= 1 /\ line[1] \in owed[p] /\ owed[p] \subseteq Range(line)
           /\ t[p] # notify /\ notify # wait
<1>1. PICK m \in 1..Len(line) : owed[p] = {line[i] : i \in 1..m} /\ t[p] = After(notify, m)
  BY DEF IInv, Owing
<1>2. /\ Len(line) \in Nat /\ 2 * Len(line) < Wrap /\ Wrap \in Nat /\ DOMAIN line = 1..Len(line)
      /\ notify \in 0..Wrap - 1 /\ wait \in 0..Wrap - 1 /\ Len(line) = Gap(wait, notify)
  <2>1. Cardinality(Proc) \in Nat /\ 2 * Cardinality(Proc) < Wrap /\ Wrap \in Nat \ {0}
    BY Counters
  <2>2. /\ Len(line) \in Nat /\ Len(line) <= Cardinality(Proc) /\ DOMAIN line = 1..Len(line)
        /\ notify \in 0..Wrap - 1 /\ wait \in 0..Wrap - 1
    BY Facts
  <2>3. Len(line) = Gap(wait, notify)
    BY DEF IInv, InLine
  <2> QED
    BY <2>1, <2>2, <2>3
<1>3. Len(line) >= 1 /\ 1 \in 1..m /\ 1..m \subseteq DOMAIN line
  BY <1>1, <1>2
<1>4. t[p] # notify
  BY <1>1, <1>2 DEF After
<1>5. notify # wait
  BY <1>2, <1>3 DEF Gap
<1>6. line[1] \in owed[p] /\ owed[p] \subseteq Range(line)
  BY <1>1, <1>3 DEF Range
<1> QED
  BY <1>3, <1>4, <1>5, <1>6

(* Only its own steps move a notifier that has not advanced notify. *)
LEMMA OwnStep ==
    ASSUME IInv, Next, NEW p \in Proc, pc[p] \in {"fast", "lock"}, pc'[p] # pc[p]
    PROVE  FastPath(p) \/ notifyListNotifyOne(p) \/ notifyListNotifyAll(p)
<1>1. pc \in [Proc -> Places]
  BY Facts
<1>2. PICK q \in Proc : Wait(q) \/ Call(q, FALSE) \/ Call(q, TRUE) \/ Step(q)
  BY DEF Next, Signal, Broadcast
<1>3. ASSUME Wait(q) \/ Call(q, FALSE) \/ Call(q, TRUE) PROVE FALSE
  BY <1>1, <1>3 DEF Wait, Call, At, Goto
<1>4. ASSUME notifyListWait(q) \/ Relock(q) \/ NotifyReturns(q) PROVE FALSE
  BY <1>1, <1>4 DEF notifyListWait, Relock, NotifyReturns, Return, At, Goto
<1>5. ASSUME Ready(q) PROVE FALSE
  <2>1. todo[q] \in Seq(Proc) /\ todo[q] # <<>> /\ pc' = [pc EXCEPT ![Head(todo[q])] = "relock"]
    BY <1>5, Facts DEF Ready
  <2>2. Head(todo[q]) \in Range(todo[q])
    BY <2>1, TailFacts
  <2>3. pc[Head(todo[q])] = "parked"
    BY <2>2 DEF IInv, InTodo, At
  <2> QED
    BY <2>1, <2>3, <1>1
<1>6. ASSUME FastPath(q) \/ notifyListNotifyOne(q) \/ notifyListNotifyAll(q) PROVE q = p
  BY <1>1, <1>6 DEF FastPath, notifyListNotifyOne, notifyListNotifyAll, Return, Goto
<1> QED
  BY <1>2, <1>3, <1>4, <1>5, <1>6 DEF Step

LEMMA DeliveredStep ==
    ASSUME IInv, MaxLag <= Wrap \div 2, Next, NEW p \in Proc
    PROVE  /\ pc[p] \in {"fast", "lock"} /\ pc'[p] = "idle" => owed[p] = {}
           /\ pc[p] = "lock" /\ pc'[p] = "ready" =>
                 IF all[p] THEN owed'[p] = {} ELSE owed[p] = {} \/ owed'[p] # owed[p]
<1>1. pc \in [Proc -> Places]
  BY Facts
<1>2. ASSUME pc[p] \in {"fast", "lock"}, pc'[p] = "idle", owed[p] # {} PROVE FALSE
  <2>1. t[p] # notify /\ notify # wait
    BY <1>2, OwedWaits
  <2>2. FastPath(p) \/ notifyListNotifyOne(p) \/ notifyListNotifyAll(p)
    BY <1>2, OwnStep
  <2> QED
    BY <2>1, <2>2, <1>1, <1>2 DEF FastPath, notifyListNotifyOne, notifyListNotifyAll, Goto
<1>3. ASSUME pc[p] = "lock", pc'[p] = "ready", owed[p] # {}
      PROVE  IF all[p] THEN owed'[p] = {} ELSE owed'[p] # owed[p]
  <2>1. /\ Len(line) >= 1 /\ line[1] \in owed[p] /\ owed[p] \subseteq Range(line) /\ notify # wait
    BY <1>3, OwedWaits
  <2>2. notifyListNotifyOne(p) \/ notifyListNotifyAll(p)
    BY <1>3, OwnStep DEF FastPath, At
  <2>3. CASE notifyListNotifyOne(p)
    <3>1. Advance(1) /\ ~all[p]
      BY <2>1, <2>3 DEF notifyListNotifyOne
    <3>2. owed'[p] = owed[p] \ {line[i] : i \in 1..1}
      BY <3>1 DEF Advance
    <3>3. line[1] \notin owed'[p]
      BY <3>2
    <3> QED
      BY <3>1, <3>3, <2>1
  <2>4. CASE notifyListNotifyAll(p)
    <3>1. Advance((wait - notify) % Wrap) /\ all[p]
      BY <2>4 DEF notifyListNotifyAll
    <3>2. (wait - notify) % Wrap = Len(line) /\ DOMAIN line = 1..Len(line)
      BY Facts, Counters DEF IInv, InLine
    <3>3. Advance(Len(line))
      BY <3>1, <3>2
    <3>4. owed'[p] = owed[p] \ {line[i] : i \in 1..Len(line)}
      BY <3>3 DEF Advance
    <3>5. owed'[p] = {}
      BY <3>2, <3>4, <2>1 DEF Range
    <3> QED
      BY <3>1, <3>5
  <2> QED
    BY <2>2, <2>3, <2>4
<1>4. ASSUME pc[p] = "lock", pc'[p] = "ready", owed[p] = {} PROVE owed'[p] = {}
  <2>1. notifyListNotifyOne(p) \/ notifyListNotifyAll(p)
    BY <1>4, OwnStep DEF FastPath, At
  <2>2. PICK n : Advance(n) \/ owed'[p] = {}
    <3>1. owed \in [Proc -> SUBSET Proc]
      BY Facts
    <3> QED
      BY <3>1, <2>1 DEF notifyListNotifyOne, notifyListNotifyAll, Return
  <2> QED
    BY <2>2, <1>4 DEF Advance
<1> QED
  BY <1>2, <1>3, <1>4

(* However tickets, notifications and wake-ups interleave, and also when    *)
(* the counters wrap: no goroutine goes to sleep after its ticket has been  *)
(* notified, and whoever sleeps is in exactly one place that a notifier     *)
(* looks at.                                                                *)
THEOREM CondAsleep == MaxLag <= Wrap \div 2 => (Spec => []Asleep)
<1>1. IInv => Asleep
  BY AsleepHolds
<1> QED
  BY <1>1, CondInvariant, PTL

(* A Signal or Broadcast that returns early, on the unlocked fast path or   *)
(* under the lock, has missed no waiter that it found when it was called.   *)
THEOREM CondDelivered == MaxLag <= Wrap \div 2 => (Spec => Delivered)
<1> SUFFICES ASSUME MaxLag <= Wrap \div 2 PROVE Spec => Delivered
  OBVIOUS
<1>1. Spec => []IInv
  BY CondInvariant
<1>2. IInv /\ [Next]_vars =>
        [\A p \in Proc :
            /\ pc[p] \in {"fast", "lock"} /\ At(p, "idle")' => owed[p] = {}
            /\ At(p, "lock") /\ At(p, "ready")' =>
                  IF all[p] THEN owed'[p] = {} ELSE owed[p] = {} \/ owed'[p] # owed[p]]_vars
  BY DeliveredStep DEF At
<1> QED
  BY <1>1, <1>2, PTL DEF Spec, Delivered

-----------------------------------------------------------------------------
(* The tree of contexts. *)

(* The calls in progress, outermost first. *)
Depth(g) == Len(stack[g])
CallAt(g, k) == stack[g][Len(stack[g]) + 1 - k]

EarlyPlaces == {"propagate", "select", "err", "attach"}
WithPlaces == EarlyPlaces \union {"attached", "timer", "late"}
CancelPlaces == {"cancel", "children", "remove", "stop"}
WatchPlaces == {"watch", "watching"}

Calls == [at : WithPlaces \union CancelPlaces \union WatchPlaces, c : Ctx,
          remove : BOOLEAN, err : {Nil, Canceled, DeadlineExceeded}, todo : SUBSET Ctx]

StackOK == stack \in [Goroutine -> Seq(Calls)] /\ removes \in SUBSET Ctx

(* The call f holds the mutex of c. *)
Holds(f, c) == (f.at = "children" /\ f.c = c) \/ (f.at = "attached" /\ parent[f.c] = c)

CallOK(g, k) ==
    LET f == CallAt(g, k)
        p == parent[f.c]
    IN  /\ k < Depth(g) => f.at \in {"children", "timer", "attached", "late"}
        /\ k > 1 => f.at \in CancelPlaces
        /\ p # Nil
        /\ f.at \in WithPlaces => g \in User /\ f.c \notin known /\ (f.at # "late" => f.c \in removes)
        /\ f.at \in EarlyPlaces => err[f.c] = Nil /\ \A b \in Ctx : f.c \notin children[b]
        /\ f.at \in {"attach", "attached"} => p \in Ctx
        /\ f.at = "err" /\ p \in Ctx => err[p] # Nil
        /\ f.at = "late" => \/ err[f.c] # Nil
                            \/ Depth(g) = 2 /\ CallAt(g, 2).at = "cancel" /\ CallAt(g, 2).c = f.c
        /\ f.at \in CancelPlaces => f.err # Nil
        /\ f.at \in {"children", "remove", "stop"} => err[f.c] # Nil
        /\ f.at = "cancel" /\ ~f.remove => err[f.c] # Nil \/ p \notin Ctx \/ err[p] # Nil
        /\ f.at \in WatchPlaces => p = Foreign
        /\ \A c \in f.todo : parent[c] = f.c
        /\ \A c \in Ctx : Holds(f, c) => mu[c] = g
        /\ \A c \in Ctx : k = 1 /\ g = Timer(c) => f.c = c /\ f.at \in CancelPlaces
        /\ \A c \in Ctx : k = 1 /\ g = Watcher(c) => f.c = c /\ p = Foreign

CallsOK == \A g \in Goroutine : \A k \in 1..Depth(g) : CallOK(g, k)

(* Two calls make no context together, and hold no mutex together; nobody  *)
(* works on a context that its maker has not attached yet.                 *)
PairOK(f, e) ==
    /\ f.at \in WithPlaces /\ e.at \in WithPlaces => f.c # e.c
    /\ f.at \in EarlyPlaces => e.c # f.c /\ f.c \notin e.todo
    /\ \A c \in Ctx : ~(Holds(f, c) /\ Holds(e, c))

PairsOK ==
    \A g, h \in Goroutine : \A k \in 1..Depth(g), l \in 1..Depth(h) :
        g # h \/ k # l => PairOK(CallAt(g, k), CallAt(h, l))

Early(c) ==
    \E g \in Goroutine : \E k \in 1..Depth(g) :
        CallAt(g, k).c = c /\ CallAt(g, k).at \in EarlyPlaces

Cancelling(c) ==
    \E g \in Goroutine : \E k \in 1..Depth(g) :
        CallAt(g, k).c = c /\ CallAt(g, k).at \in {"children", "remove", "stop"}

Removing(c) ==
    \E g \in Goroutine : \E k \in 1..Depth(g) :
        CallAt(g, k).c = c /\ CallAt(g, k).remove /\ CallAt(g, k).at \in {"children", "remove"}

Locked(c) ==
    \E g \in Goroutine : \E k \in 1..Depth(g) :
        CallAt(g, k).c = c /\ CallAt(g, k).at = "children"

Awaits(c) ==
    \E g \in Goroutine : \E k \in 1..Depth(g) :
        CallAt(g, k).at = "children" /\ c \in CallAt(g, k).todo

Joining(c) ==
    \E g \in Goroutine :
        LET d == Depth(g)
        IN  /\ d > 1 /\ CallAt(g, d).at = "cancel" /\ CallAt(g, d).c = c
            /\ \/ CallAt(g, d - 1).c = c /\ CallAt(g, d - 1).at \in WithPlaces
               \/ CallAt(g, d - 1).c = parent[c] /\ CallAt(g, d - 1).at = "children"

CtxOK(c) ==
    LET p == parent[c]
    IN  /\ Closed(c) => err[c] # Nil
        /\ p = Nil => err[c] = Nil /\ c \notin known
        /\ c \in known /\ c \notin removes => err[c] # Nil
        /\ \A b \in children[c] : parent[b] = c
        /\ timer[c] # "none" => c \in known /\ c \in timed
        /\ timer[c] = "set" => stack[Timer(c)] = <<>>
        /\ stack[Timer(c)] # <<>> => c \in known
        /\ timer[c] = "set" /\ err[c] # Nil => Cancelling(c)
        /\ c \in known /\ c \in timed /\ err[c] = Nil => timer[c] = "set" \/ stack[Timer(c)] # <<>>
        /\ p \in Ctx /\ err[c] = Nil =>
              \/ Early(c) \/ Joining(c) \/ Awaits(c)
              \/ err[p] = Nil /\ c \in children[p]
        /\ p = Foreign /\ err[c] = Nil => Early(c) \/ Joining(c) \/ stack[Watcher(c)] # <<>>
        /\ p \in Ctx /\ c \in children[p] /\ err[c] # Nil => err[p] # Nil \/ Removing(c)
        /\ err[c] # Nil => children[c] = {} \/ Locked(c)

CtxsOK == \A c \in Ctx : CtxOK(c)

ContextInv == ContextTypeOK /\ StackOK /\ CallsOK /\ PairsOK /\ CtxsOK

-----------------------------------------------------------------------------
(* What the changes of a stack do to the calls in progress. *)

LEMMA StackTop ==
    ASSUME StackOK, NEW g \in Goroutine
    PROVE  /\ Depth(g) \in Nat /\ (stack[g] = <<>> <=> Depth(g) = 0)
           /\ stack[g] # <<>> => /\ Depth(g) > 0 /\ Top(g) = CallAt(g, Depth(g))
                                 /\ CallAt(g, Depth(g)) = stack[g][1]
           /\ \A k \in 1..Depth(g) : CallAt(g, k) \in Calls
<1>1. stack[g] \in Seq(Calls)
  BY DEF StackOK
<1> DEFINE s == stack[g]
<1>2. s \in Seq(Calls)
  BY <1>1
<1>3. /\ Len(s) \in Nat /\ (s = <<>> <=> Len(s) = 0)
      /\ s # <<>> => Len(s) > 0 /\ Head(s) = s[1]
      /\ \A k \in 1..Len(s) : s[Len(s) + 1 - k] \in Calls
  <2> HIDE DEF s
  <2>1. Len(s) \in Nat /\ (s = <<>> <=> Len(s) = 0) /\ (s # <<>> => Head(s) = s[1])
    BY <1>2
  <2>2. ASSUME NEW k \in 1..Len(s) PROVE s[Len(s) + 1 - k] \in Calls
    <3>1. Len(s) + 1 - k \in 1..Len(s)
      BY <2>1
    <3> QED
      BY <3>1, <1>2
  <2> QED
    BY <2>1, <2>2
<1> QED
  BY <1>3 DEF Depth, CallAt, Top

(* The call is as it was. *)
Kept(h, k) == k \in 1..Depth(h) /\ k \in 1..Depth(h)' /\ CallAt(h, k)' = CallAt(h, k)

(* One goroutine has another stack. *)
LEMMA StackSet ==
    ASSUME StackOK, NEW g \in Goroutine, NEW s \in Seq(Calls), stack' = [stack EXCEPT ![g] = s]
    PROVE  /\ stack' \in [Goroutine -> Seq(Calls)]
           /\ Depth(g)' = Len(s) /\ \A k \in 1..Len(s) : CallAt(g, k)' = s[Len(s) + 1 - k]
           /\ stack'[g] = s
           /\ \A h \in Goroutine \ {g} : /\ stack'[h] = stack[h] /\ Depth(h)' = Depth(h)
                                         /\ \A k \in 1..Depth(h) : Kept(h, k)
<1>1. stack' \in [Goroutine -> Seq(Calls)] /\ stack'[g] = s
  BY DEF StackOK
<1>2. ASSUME NEW h \in Goroutine \ {g}
      PROVE  /\ stack'[h] = stack[h] /\ Depth(h)' = Depth(h)
             /\ \A k \in 1..Depth(h) : Kept(h, k)
  <2>1. stack'[h] = stack[h]
    BY DEF StackOK
  <2> QED
    BY <2>1 DEF Kept, Depth, CallAt
<1> QED
  BY <1>1, <1>2 DEF Depth, CallAt

LEMMA CallsTail ==
    ASSUME NEW s \in Seq(Calls), s # <<>>
    PROVE  /\ Tail(s) \in Seq(Calls) /\ Len(Tail(s)) = Len(s) - 1 /\ Len(s) \in Nat \ {0}
           /\ \A i \in 1..Len(s) - 1 : Tail(s)[i] = s[i + 1]
  OBVIOUS

(* The innermost call goes on as x. *)
LEMMA StackGoOn ==
    ASSUME StackOK, NEW g \in Goroutine, stack[g] # <<>>, NEW x \in Calls,
           stack' = [stack EXCEPT ![g] = <<x>> \o Tail(@)],
           NEW d, d = Depth(g)
    PROVE  /\ stack' \in [Goroutine -> Seq(Calls)]
           /\ d \in Nat /\ d > 0 /\ Depth(g)' = d /\ CallAt(g, d)' = x
           /\ \A k \in 1..d - 1 : Kept(g, k)
           /\ \A h \in Goroutine \ {g} : /\ stack'[h] = stack[h] /\ Depth(h)' = Depth(h)
                                         /\ \A k \in 1..Depth(h) : Kept(h, k)
<1> DEFINE s == stack[g]
           v == <<x>> \o Tail(s)
<1>1. s \in Seq(Calls) /\ s # <<>>
  BY DEF StackOK
<1>2. /\ v \in Seq(Calls) /\ Len(v) = Len(s) /\ Len(s) \in Nat \ {0} /\ v[1] = x
      /\ \A i \in 2..Len(s) : v[i] = s[i]
  <2> DEFINE u == Tail(s)
  <2>1. u \in Seq(Calls) /\ Len(u) = Len(s) - 1 /\ Len(s) \in Nat \ {0}
        /\ \A i \in 1..Len(s) - 1 : u[i] = s[i + 1]
    BY <1>1, CallsTail
  <2> HIDE DEF s, u
  <2>2. <<x>> \o u \in Seq(Calls) /\ Len(<<x>> \o u) = Len(s) /\ (<<x>> \o u)[1] = x
        /\ \A i \in 2..Len(s) : (<<x>> \o u)[i] = u[i - 1]
    BY <2>1
  <2>3. \A i \in 2..Len(s) : u[i - 1] = s[i]
    BY <2>1
  <2> QED
    BY <2>1, <2>2, <2>3 DEF u
<1>3. stack' = [stack EXCEPT ![g] = v]
  OBVIOUS
<1>4. d = Len(s)
  BY DEF Depth
<1> HIDE DEF v
<1>5. /\ stack' \in [Goroutine -> Seq(Calls)]
      /\ Depth(g)' = Len(v) /\ \A k \in 1..Len(v) : CallAt(g, k)' = v[Len(v) + 1 - k]
      /\ \A h \in Goroutine \ {g} : /\ stack'[h] = stack[h] /\ Depth(h)' = Depth(h)
                                    /\ \A k \in 1..Depth(h) : Kept(h, k)
  BY <1>2, <1>3, StackSet, ZenonT(30)
<1>6. ASSUME NEW k \in 1..d - 1 PROVE Kept(g, k)
  <2>1. k \in 1..Len(v) /\ Len(v) + 1 - k \in 2..Len(s) /\ Len(v) = Len(s) /\ k \in 1..d
    BY <1>2, <1>4
  <2>2. CallAt(g, k)' = s[Len(s) + 1 - k]
    BY <1>2, <1>5, <2>1
  <2>3. CallAt(g, k) = s[Len(s) + 1 - k]
    BY DEF CallAt
  <2> QED
    BY <2>1, <2>2, <2>3, <1>5, <1>4 DEF Kept
<1>7. CallAt(g, d)' = x
  <2>1. d \in 1..Len(v) /\ Len(v) + 1 - d = 1
    BY <1>2, <1>4
  <2> QED
    BY <2>1, <1>5, <1>2
<1> QED
  BY <1>2, <1>4, <1>5, <1>6, <1>7

(* A call on top of one that goes on as x. *)
LEMMA PushFacts ==
    ASSUME NEW r \in Seq(Calls), r # <<>>, NEW x \in Calls, NEW f \in Calls
    PROVE  LET v == <<f, x>> \o Tail(r)
           IN  /\ v \in Seq(Calls) /\ Len(v) = Len(r) + 1 /\ v[1] = f /\ v[2] = x
               /\ \A i \in 2..Len(r) : v[i + 1] = r[i]
<1> DEFINE u == Tail(r)
<1>1. u \in Seq(Calls) /\ Len(u) = Len(r) - 1 /\ Len(r) \in Nat \ {0}
      /\ \A i \in 1..Len(r) - 1 : u[i] = r[i + 1]
  BY CallsTail
<1> HIDE DEF u
<1>2. <<f, x>> \o u \in Seq(Calls) /\ Len(<<f, x>> \o u) = Len(r) + 1
      /\ (<<f, x>> \o u)[1] = f /\ (<<f, x>> \o u)[2] = x
      /\ \A i \in 3..Len(r) + 1 : (<<f, x>> \o u)[i] = u[i - 2]
  BY <1>1
<1>3. ASSUME NEW i \in 2..Len(r) PROVE (<<f, x>> \o u)[i + 1] = r[i]
  <2>1. i + 1 \in 3..Len(r) + 1 /\ (i + 1) - 2 = i - 1 /\ i - 1 \in 1..Len(r) - 1 /\ (i - 1) + 1 = i
    BY <1>1
  <2> QED
    BY <2>1, <1>1, <1>2
<1> QED
  BY <1>1, <1>2, <1>3 DEF u

(* The innermost call calls another: s is the new stack. *)
LEMMA StackPush ==
    ASSUME StackOK, NEW g \in Goroutine, stack[g] # <<>>,
           NEW s \in Seq(Calls), Len(s) = Len(stack[g]) + 1,
           \A i \in 2..Len(stack[g]) : s[i + 1] = stack[g][i], stack' = [stack EXCEPT ![g] = s]
    PROVE  /\ stack' \in [Goroutine -> Seq(Calls)] /\ Len(s) = Depth(g) + 1
           /\ Depth(g)' = Len(s) /\ \A k \in 1..Len(s) : CallAt(g, k)' = s[Len(s) + 1 - k]
           /\ \A k \in 1..Depth(g) - 1 : Kept(g, k)
           /\ \A h \in Goroutine \ {g} : /\ stack'[h] = stack[h] /\ Depth(h)' = Depth(h)
                                         /\ \A k \in 1..Depth(h) : Kept(h, k)
<1>1. PICK r : r = stack[g]
  OBVIOUS
<1>2. PICK d : d = Depth(g)
  OBVIOUS
<1>3. r \in Seq(Calls) /\ r # <<>> /\ d = Len(r) /\ d \in Nat /\ d > 0 /\ Len(s) = d + 1
  BY <1>1, <1>2 DEF StackOK, Depth
<1>4. \A i \in 2..d : s[i + 1] = r[i]
  BY <1>1, <1>3
<1>5. /\ stack' \in [Goroutine -> Seq(Calls)]
      /\ Depth(g)' = Len(s) /\ \A k \in 1..Len(s) : CallAt(g, k)' = s[Len(s) + 1 - k]
      /\ \A h \in Goroutine \ {g} : /\ stack'[h] = stack[h] /\ Depth(h)' = Depth(h)
                                    /\ \A k \in 1..Depth(h) : Kept(h, k)
  BY StackSet
<1>6. ASSUME NEW k \in 1..d - 1 PROVE Kept(g, k)
  <2>1. PICK n : n = Len(s)
    OBVIOUS
  <2>2. k \in 1..n /\ n + 1 - k = (d + 1 - k) + 1 /\ d + 1 - k \in 2..d /\ k \in 1..d
    BY <1>3, <2>1
  <2>3. CallAt(g, k)' = s[n + 1 - k]
    BY <1>5, <2>1, <2>2
  <2>4. CallAt(g, k)' = r[d + 1 - k]
    BY <1>4, <2>2, <2>3
  <2>5. CallAt(g, k) = r[d + 1 - k]
    BY <1>1, <1>3 DEF CallAt
  <2> QED
    BY <1>2, <1>5, <2>1, <2>2, <2>4, <2>5 DEF Kept
<1> QED
  BY <1>2, <1>3, <1>5, <1>6

(* The innermost call ends. *)
LEMMA StackLeave ==
    ASSUME StackOK, NEW g \in Goroutine, stack[g] # <<>>,
           stack' = [stack EXCEPT ![g] = Tail(@)],
           NEW d, d = Depth(g)
    PROVE  /\ stack' \in [Goroutine -> Seq(Calls)]
           /\ d \in Nat /\ d > 0 /\ Depth(g)' = d - 1
           /\ \A k \in 1..d - 1 : Kept(g, k)
           /\ \A h \in Goroutine \ {g} : /\ stack'[h] = stack[h] /\ Depth(h)' = Depth(h)
                                         /\ \A k \in 1..Depth(h) : Kept(h, k)
<1> DEFINE s == stack[g]
           v == Tail(s)
<1>1. s \in Seq(Calls) /\ s # <<>>
  BY DEF StackOK
<1>2. /\ v \in Seq(Calls) /\ Len(v) = Len(s) - 1 /\ Len(s) \in Nat \ {0}
      /\ \A i \in 1..Len(s) - 1 : v[i] = s[i + 1]
  BY <1>1, CallsTail
<1>3. stack' = [stack EXCEPT ![g] = v]
  OBVIOUS
<1>4. d = Len(s)
  BY DEF Depth
<1> HIDE DEF v
<1>5. /\ stack' \in [Goroutine -> Seq(Calls)]
      /\ Depth(g)' = Len(v) /\ \A k \in 1..Len(v) : CallAt(g, k)' = v[Len(v) + 1 - k]
      /\ \A h \in Goroutine \ {g} : /\ stack'[h] = stack[h] /\ Depth(h)' = Depth(h)
                                    /\ \A k \in 1..Depth(h) : Kept(h, k)
  BY <1>2, <1>3, StackSet
<1>6. ASSUME NEW k \in 1..d - 1 PROVE Kept(g, k)
  <2>1. /\ k \in 1..Len(v) /\ (Len(v) + 1 - k) + 1 = Len(s) + 1 - k
        /\ Len(v) + 1 - k \in 1..Len(s) - 1 /\ k \in 1..d
    BY <1>2, <1>4
  <2>2. CallAt(g, k)' = s[Len(s) + 1 - k]
    BY <1>2, <1>5, <2>1
  <2>3. CallAt(g, k) = s[Len(s) + 1 - k]
    BY DEF CallAt
  <2> QED
    BY <2>1, <2>2, <2>3, <1>5, <1>4 DEF Kept
<1> QED
  BY <1>2, <1>4, <1>5, <1>6

(* The stack of g is one call. *)
LEMMA StackStart ==
    ASSUME StackOK, NEW g \in Goroutine, NEW f \in Calls, stack' = [stack EXCEPT ![g] = <<f>>]
    PROVE  /\ stack' \in [Goroutine -> Seq(Calls)]
           /\ Depth(g)' = 1 /\ CallAt(g, 1)' = f /\ stack'[g] # <<>>
           /\ \A h \in Goroutine \ {g} : /\ stack'[h] = stack[h] /\ Depth(h)' = Depth(h)
                                         /\ \A k \in 1..Depth(h) : Kept(h, k)
<1> DEFINE v == <<f>>
<1>1. v \in Seq(Calls) /\ Len(v) = 1 /\ v[1] = f /\ v # <<>>
  OBVIOUS
<1>2. stack' = [stack EXCEPT ![g] = v]
  OBVIOUS
<1> HIDE DEF v
<1>3. /\ stack' \in [Goroutine -> Seq(Calls)] /\ stack'[g] = v
      /\ Depth(g)' = Len(v) /\ \A k \in 1..Len(v) : CallAt(g, k)' = v[Len(v) + 1 - k]
      /\ \A h \in Goroutine \ {g} : /\ stack'[h] = stack[h] /\ Depth(h)' = Depth(h)
                                    /\ \A k \in 1..Depth(h) : Kept(h, k)
  BY <1>1, <1>2, StackSet
<1> QED
  BY <1>1, <1>3

-----------------------------------------------------------------------------
(* A step of the innermost call v of g. *)
Inner(g, d, v) ==
    /\ StackOK' /\ d = Depth(g) /\ d \in Nat /\ d > 0 /\ v = CallAt(g, d)
    /\ Depth(g)' \in {d - 1, d, d + 1}
    /\ \A k \in 1..d - 1 : Kept(g, k)
    /\ \A h \in Goroutine \ {g} : stack[h] # <<>> => stack'[h] = stack[h]

LEMMA SameStack ==
    ASSUME NEW h, stack'[h] = stack[h]
    PROVE  Depth(h)' = Depth(h) /\ \A k \in 1..Depth(h) : Kept(h, k)
  BY DEF Kept, Depth, CallAt

(* All other calls are as they were. *)
LEMMA OthersKept ==
    ASSUME StackOK, NEW g \in Goroutine, NEW d, NEW v, Inner(g, d, v),
           NEW h \in Goroutine, NEW k \in 1..Depth(h), h # g \/ k # d
    PROVE  Kept(h, k)
<1>1. Depth(h) \in Nat /\ (stack[h] = <<>> <=> Depth(h) = 0)
  BY StackTop
<1>2. CASE h # g
  <2>1. stack'[h] = stack[h]
    BY <1>1, <1>2 DEF Inner
  <2> QED
    BY <2>1, SameStack
<1>3. CASE h = g
  <2>1. d = Depth(h) /\ k \in 1..d - 1
    BY <1>1, <1>3 DEF Inner
  <2> QED
    BY <2>1, <1>3 DEF Inner
<1> QED
  BY <1>2, <1>3

LEMMA ContextTypes ==
    ASSUME ContextInv
    PROVE  /\ parent \in [Ctx -> Ctx \union {Background, Foreign, Nil}]
           /\ known \subseteq Ctx /\ removes \subseteq Ctx
           /\ mu \in [Ctx -> Goroutine \union {Nil}]
           /\ done \in [Ctx \union {Foreign} -> {"nil", "open", "closed", "closedchan"}]
           /\ children \in [Ctx -> SUBSET Ctx]
           /\ err \in [Ctx -> {Nil, Canceled, DeadlineExceeded}]
           /\ timer \in [Ctx -> {"none", "set", "fired"}]
           /\ stack \in [Goroutine -> Seq(Calls)] /\ StackOK
  BY DEF ContextInv, ContextTypeOK, StackOK

LEMMA ContextNames ==
    /\ Background # Foreign /\ timed \subseteq Ctx
    /\ Background \notin Ctx /\ Foreign \notin Ctx /\ Nil \notin Ctx
    /\ Nil # Background /\ Nil # Foreign /\ Nil \notin Goroutine
    /\ Nil # Canceled /\ Nil # DeadlineExceeded
    /\ \A c \in Ctx : /\ Timer(c) \in Goroutine /\ Watcher(c) \in Goroutine
                      /\ Timer(c) \notin User /\ Watcher(c) \notin User
    /\ \A c, b : Timer(c) # Watcher(b)
    /\ \A c, b : Timer(c) = Timer(b) => c = b
    /\ \A c, b : Watcher(c) = Watcher(b) => c = b
    /\ User \subseteq Goroutine
<1>1. /\ \A c, b : Timer(c) # Watcher(b)
      /\ \A c, b : Timer(c) = Timer(b) => c = b
      /\ \A c, b : Watcher(c) = Watcher(b) => c = b
  BY DEF Timer, Watcher
<1>2. /\ User \subseteq Goroutine
      /\ \A c \in Ctx : Timer(c) \in Goroutine /\ Watcher(c) \in Goroutine
  BY DEF Goroutine
<1> QED
  BY <1>1, <1>2, ContextConstants

(* A call that was there before, after a step of v. *)
LEMMA CallLasts ==
    ASSUME ContextInv, NEW g \in Goroutine, NEW d, NEW v, Inner(g, d, v),
           parent' = parent,
           known' = known \/ (v.at \in WithPlaces /\ known' = known \union {v.c}),
           removes' = removes \/ (v.at \in WithPlaces /\ removes' = removes \ {v.c}),
           \A c \in Ctx : \/ err'[c] = err[c]
                          \/ c = v.c /\ v.at = "cancel" /\ err[c] = Nil,
           v.at = "cancel" => err'[v.c] # Nil,
           \A b, c \in Ctx : \/ c \in children'[b] => c \in children[b]
                             \/ c = v.c /\ v.at \in WithPlaces,
           \A c \in Ctx : mu'[c] = mu[c] \/ mu[c] = Nil \/ Holds(v, c),
           NEW h \in Goroutine, NEW k \in 1..Depth(h), h # g \/ k # d
    PROVE  CallOK(h, k)'
<1>a. PICK f : f = CallAt(h, k)
  OBVIOUS
<1>b. PICK p : p = parent[f.c]
  OBVIOUS
<1>1. Kept(h, k)
  BY OthersKept DEF ContextInv
<1>2. CallOK(h, k) /\ f \in Calls /\ f.c \in Ctx /\ f.todo \subseteq Ctx
  BY <1>a, StackTop DEF ContextInv, CallsOK, Calls
<1>3. CallAt(h, k)' = f
  BY <1>a, <1>1 DEF Kept
<1>4. d \in 1..Depth(g) /\ v \in Calls /\ v = CallAt(g, d) /\ v.c \in Ctx
  <2>1. d \in 1..Depth(g)
    BY DEF Inner
  <2> QED
    BY <2>1, StackTop DEF Inner, ContextInv, Calls
<1>5. PairOK(f, v) /\ PairOK(v, f) /\ CallOK(g, d)
  BY <1>a, <1>4 DEF ContextInv, PairsOK, CallsOK
<1>6. \/ h # g /\ Depth(h)' = Depth(h) /\ \A l \in 1..Depth(h) : Kept(h, l)
      \/ h = g /\ k \in 1..d - 1 /\ k < Depth(g)
  <2>1. Depth(h) \in Nat /\ (stack[h] = <<>> <=> Depth(h) = 0)
    BY StackTop, ContextTypes
  <2>2. CASE h # g
    <3>1. stack'[h] = stack[h]
      BY <2>1, <2>2 DEF Inner
    <3> QED
      BY <2>2, <3>1, SameStack
  <2>3. CASE h = g
    BY <2>1, <2>3 DEF Inner
  <2> QED
    BY <2>2, <2>3
<1>7. f.at \in {"children", "timer", "attached", "late"} \/ Depth(h)' = Depth(h)
  BY <1>a, <1>b, <1>2, <1>6 DEF CallOK
<1>8. \A c \in Ctx : err[c] # Nil => err'[c] # Nil
  OBVIOUS
<1>9. k < Depth(h)' => f.at \in {"children", "timer", "attached", "late"}
  BY <1>a, <1>b, <1>2, <1>7 DEF CallOK
<1>10. f.at \in WithPlaces => h \in User /\ f.c \notin known' /\ (f.at # "late" => f.c \in removes')
  BY <1>a, <1>b, <1>2, <1>5 DEF CallOK, PairOK
<1>11. f.at \in EarlyPlaces => err'[f.c] = Nil /\ \A b \in Ctx : f.c \notin children'[b]
  BY <1>a, <1>b, <1>2, <1>5, <1>4 DEF CallOK, PairOK
<1>12. f.at = "late" => \/ err'[f.c] # Nil
                        \/ Depth(h)' = 2 /\ CallAt(h, 2)'.at = "cancel" /\ CallAt(h, 2)'.c = f.c
  <2>1. SUFFICES ASSUME f.at = "late", err'[f.c] = Nil
                 PROVE  Depth(h)' = 2 /\ CallAt(h, 2)'.at = "cancel" /\ CallAt(h, 2)'.c = f.c
    OBVIOUS
  <2>2. Depth(h) = 2 /\ CallAt(h, 2).at = "cancel" /\ CallAt(h, 2).c = f.c
    BY <1>a, <1>b, <2>1, <1>2, <1>8 DEF CallOK
  <2>3. h # g
    BY <2>1, <2>2, <1>4, <1>6 DEF Inner
  <2>4. Kept(h, 2) /\ Depth(h)' = 2
    BY <2>2, <2>3, <1>6
  <2> QED
    BY <2>2, <2>4 DEF Kept
<1>13. \A c \in Ctx : Holds(f, c)' => mu'[c] = h
  <2>1. SUFFICES ASSUME NEW c \in Ctx, Holds(f, c) PROVE mu'[c] = h
    BY <1>a, <1>b, <1>2 DEF Holds, CallOK
  <2>2. mu[c] = h /\ ~Holds(v, c)
    BY <1>a, <1>b, <2>1, <1>2, <1>5 DEF CallOK, PairOK
  <2> QED
    BY <2>2, ContextNames
<1>14. /\ k > 1 => f.at \in CancelPlaces
       /\ p # Nil
       /\ f.at \in {"attach", "attached"} => p \in Ctx
       /\ f.at = "err" /\ p \in Ctx => err'[p] # Nil
       /\ f.at \in CancelPlaces => f.err # Nil
       /\ f.at \in {"children", "remove", "stop"} => err'[f.c] # Nil
       /\ f.at = "cancel" /\ ~f.remove => err'[f.c] # Nil \/ p \notin Ctx \/ err'[p] # Nil
       /\ f.at \in WatchPlaces => p = Foreign
       /\ \A c \in f.todo : parent[c] = f.c
       /\ \A c \in Ctx : k = 1 /\ h = Timer(c) => f.c = c /\ f.at \in CancelPlaces
       /\ \A c \in Ctx : k = 1 /\ h = Watcher(c) => f.c = c /\ p = Foreign
  BY <1>a, <1>b, <1>2, <1>8 DEF CallOK
<1>15. /\ parent'[f.c] = p /\ CallAt(h, k)' = f
  BY <1>b, <1>3
<1> QED
  BY <1>9, <1>10, <1>11, <1>12, <1>13, <1>14, <1>15 DEF CallOK, Holds

-----------------------------------------------------------------------------
(* A call that has just begun holds nothing, and its context is attached. *)
Harmless(g, k) ==
    LET f == CallAt(g, k)
    IN  f.at \notin WithPlaces /\ f.at # "children" /\ f.todo = {} /\ ~Early(f.c)

(* The innermost call goes on with the same context. *)
Milder(g, d) ==
    LET v == CallAt(g, d)
        x == CallAt(g, d)'
    IN  /\ d \in 1..Depth(g) /\ x.c = v.c
        /\ x.at \in WithPlaces => v.at \in WithPlaces
        /\ x.at \in EarlyPlaces => v.at \in EarlyPlaces
        /\ \A c \in Ctx : Holds(CallAt(g, d), c)' => Holds(v, c) \/ mu[c] = Nil
        /\ \A b \in x.todo : b \in v.todo \/ \E p \in Ctx : b \in children[p]

LEMMA PairsLast ==
    ASSUME ContextInv, parent' = parent, NEW g \in Goroutine, NEW d,
           \A h \in Goroutine : \A k \in 1..Depth(h)' :
               Kept(h, k) \/ Harmless(h, k)' \/ (h = g /\ k = d /\ Milder(g, d))
    PROVE  PairsOK'
<1> SUFFICES ASSUME NEW h \in Goroutine, NEW i \in Goroutine,
                    NEW k \in 1..Depth(h)', NEW l \in 1..Depth(i)', h # i \/ k # l
             PROVE  PairOK(CallAt(h, k), CallAt(i, l))'
  BY DEF PairsOK
<1>a. PICK f : f = CallAt(h, k)'
  OBVIOUS
<1>b. PICK e : e = CallAt(i, l)'
  OBVIOUS
<1>1. ASSUME NEW j \in Goroutine, NEW m \in 1..Depth(j)', NEW x, x = CallAt(j, m)'
      PROVE  \/ Harmless(j, m)'
             \/ \E v : /\ m \in 1..Depth(j) /\ v = CallAt(j, m) /\ v.c = x.c
                       /\ x.at \in WithPlaces => v.at \in WithPlaces
                       /\ x.at \in EarlyPlaces => v.at \in EarlyPlaces
                       /\ \A c \in Ctx : Holds(x, c) => Holds(v, c) \/ (j = g /\ m = d /\ mu[c] = Nil)
                       /\ \A b \in x.todo : b \in v.todo \/ \E p \in Ctx : b \in children[p]
  <2>1. CASE Kept(j, m)
    <3>1. m \in 1..Depth(j) /\ CallAt(j, m) = x
      BY <1>1, <2>1 DEF Kept
    <3> QED
      BY <3>1
  <2>2. CASE j = g /\ m = d /\ Milder(g, d)
    <3>1. ASSUME NEW c \in Ctx PROVE Holds(CallAt(g, d), c)' <=> Holds(x, c)
      BY <1>1, <2>2 DEF Holds
    <3> QED
      BY <1>1, <2>2, <3>1 DEF Milder
  <2> QED
    BY <1>1, <2>1, <2>2
<1>2. \/ Harmless(h, k)'
      \/ \E v : /\ k \in 1..Depth(h) /\ v = CallAt(h, k) /\ v.c = f.c
                /\ f.at \in WithPlaces => v.at \in WithPlaces
                /\ f.at \in EarlyPlaces => v.at \in EarlyPlaces
                /\ \A c \in Ctx : Holds(f, c) => Holds(v, c) \/ (h = g /\ k = d /\ mu[c] = Nil)
                /\ \A b \in f.todo : b \in v.todo \/ \E p \in Ctx : b \in children[p]
  BY <1>1, <1>a
<1>3. \/ Harmless(i, l)'
      \/ \E v : /\ l \in 1..Depth(i) /\ v = CallAt(i, l) /\ v.c = e.c
                /\ e.at \in WithPlaces => v.at \in WithPlaces
                /\ e.at \in EarlyPlaces => v.at \in EarlyPlaces
                /\ \A c \in Ctx : Holds(e, c) => Holds(v, c) \/ (i = g /\ l = d /\ mu[c] = Nil)
                /\ \A b \in e.todo : b \in v.todo \/ \E p \in Ctx : b \in children[p]
  BY <1>1, <1>b
<1>4. \A c \in Ctx : (Holds(f, c)' <=> Holds(f, c)) /\ (Holds(e, c)' <=> Holds(e, c))
  BY DEF Holds
<1>5. f.at \in EarlyPlaces /\ Harmless(i, l)' => e.c # f.c
  BY <1>a, <1>b DEF Harmless, Early
<1>6. Harmless(h, k)' => f.at \notin WithPlaces /\ f.at \notin EarlyPlaces /\ f.todo = {}
                     /\ \A c \in Ctx : ~Holds(f, c)
  BY <1>a, <1>b DEF Harmless, Holds, WithPlaces
<1>7. Harmless(i, l)' => e.at \notin WithPlaces /\ e.at \notin EarlyPlaces /\ e.todo = {}
                     /\ \A c \in Ctx : ~Holds(e, c)
  BY <1>a, <1>b DEF Harmless, Holds, WithPlaces
<1>8. PairOK(f, e)
  <2>1. CASE Harmless(h, k)'
    BY <2>1, <1>6 DEF PairOK
  <2>2. CASE Harmless(i, l)'
    BY <2>2, <1>7, <1>5 DEF PairOK
  <2>3. CASE ~Harmless(h, k)' /\ ~Harmless(i, l)'
    <3>1. PICK v : /\ k \in 1..Depth(h) /\ v = CallAt(h, k) /\ v.c = f.c
                   /\ f.at \in WithPlaces => v.at \in WithPlaces
                   /\ f.at \in EarlyPlaces => v.at \in EarlyPlaces
                   /\ \A c \in Ctx : Holds(f, c) => Holds(v, c) \/ (h = g /\ k = d /\ mu[c] = Nil)
                   /\ \A b \in f.todo : b \in v.todo \/ \E p \in Ctx : b \in children[p]
      BY <1>2, <2>3
    <3>2. PICK u : /\ l \in 1..Depth(i) /\ u = CallAt(i, l) /\ u.c = e.c
                   /\ e.at \in WithPlaces => u.at \in WithPlaces
                   /\ e.at \in EarlyPlaces => u.at \in EarlyPlaces
                   /\ \A c \in Ctx : Holds(e, c) => Holds(u, c) \/ (i = g /\ l = d /\ mu[c] = Nil)
                   /\ \A b \in e.todo : b \in u.todo \/ \E p \in Ctx : b \in children[p]
      BY <1>3, <2>3
    <3>3. PairOK(v, u) /\ CallOK(h, k) /\ CallOK(i, l)
      BY <3>1, <3>2 DEF ContextInv, PairsOK, CallsOK
    <3>4. v.at \in EarlyPlaces => \A b \in Ctx : v.c \notin children[b]
      BY <3>1, <3>3 DEF CallOK
    <3>5. \A c \in Ctx : (Holds(v, c) => mu[c] = h) /\ (Holds(u, c) => mu[c] = i)
      BY <3>1, <3>2, <3>3 DEF CallOK
    <3>6. f.at \in WithPlaces /\ e.at \in WithPlaces => f.c # e.c
      BY <3>1, <3>2, <3>3 DEF PairOK
    <3>7. f.at \in EarlyPlaces => e.c # f.c /\ f.c \notin e.todo
      BY <3>1, <3>2, <3>3, <3>4 DEF PairOK
    <3>8. \A c \in Ctx : ~(Holds(f, c) /\ Holds(e, c))
      BY <3>1, <3>2, <3>3, <3>5, ContextNames DEF PairOK
    <3> QED
      BY <3>6, <3>7, <3>8 DEF PairOK
  <2> QED
    BY <2>1, <2>2, <2>3
<1>9. PairOK(f, e)'
  BY <1>8, <1>4 DEF PairOK
<1> QED
  BY <1>9, <1>a, <1>b DEF PairOK, Holds

(* A context is attached by the time somebody else works on it. *)
LEMMA Attaches ==
    ASSUME ContextInv, NEW g \in Goroutine, NEW d,
           \A h \in Goroutine : \A k \in 1..Depth(h)' :
               CallAt(h, k)'.at \in EarlyPlaces => Kept(h, k) /\ (h # g \/ k # d),
           NEW c,
           \/ c \in known
           \/ /\ d \in 1..Depth(g)
              /\ \/ c = CallAt(g, d).c /\ CallAt(g, d).at \in WithPlaces
                 \/ c \in CallAt(g, d).todo
    PROVE  ~Early(c)'
<1> SUFFICES ASSUME NEW h \in Goroutine, NEW k \in 1..Depth(h)',
                    CallAt(h, k)'.at \in EarlyPlaces, CallAt(h, k)'.c = c, Kept(h, k), h # g \/ k # d
             PROVE  FALSE
  BY DEF Early
<1>1. /\ k \in 1..Depth(h) /\ CallAt(h, k).at \in EarlyPlaces /\ CallAt(h, k).c = c
      /\ CallAt(h, k).at \in WithPlaces
  BY DEF Kept, WithPlaces
<1>2. CallOK(h, k)
  BY <1>1 DEF ContextInv, CallsOK
<1>3. c \notin known
  BY <1>1, <1>2 DEF CallOK
<1>4. PairOK(CallAt(h, k), CallAt(g, d))
  BY <1>1, <1>3 DEF ContextInv, PairsOK
<1> QED
  BY <1>1, <1>3, <1>4 DEF PairOK

(* What is said of c by a call that goes on. *)
LEMMA StillThere ==
    ASSUME StackOK, NEW g \in Goroutine, NEW d, NEW v, Inner(g, d, v), parent' = parent,
           NEW c
    PROVE  /\ Early(c) => Early(c)' \/ (v.c = c /\ v.at \in EarlyPlaces)
           /\ Cancelling(c) => \/ Cancelling(c)'
                               \/ v.c = c /\ v.at \in {"children", "remove", "stop"}
           /\ Removing(c) => \/ Removing(c)'
                             \/ v.c = c /\ v.remove /\ v.at \in {"children", "remove"}
           /\ Locked(c) => Locked(c)' \/ (v.c = c /\ v.at = "children")
           /\ Awaits(c) => Awaits(c)' \/ (v.at = "children" /\ c \in v.todo)
           /\ Joining(c) => Joining(c)' \/ (v.at = "cancel" /\ v.c = c)
<1>1. ASSUME NEW h \in Goroutine, NEW k \in 1..Depth(h)
      PROVE  \/ k \in 1..Depth(h)' /\ CallAt(h, k)' = CallAt(h, k)
             \/ CallAt(h, k) = v
  <2>1. CASE h # g \/ k # d
    BY <2>1, OthersKept DEF Kept
  <2>2. CASE h = g /\ k = d
    BY <2>2 DEF Inner
  <2> QED
    BY <2>1, <2>2
<1>2. Early(c) => Early(c)' \/ (v.c = c /\ v.at \in EarlyPlaces)
  BY <1>1 DEF Early
<1>3. Cancelling(c) => \/ Cancelling(c)'
                       \/ v.c = c /\ v.at \in {"children", "remove", "stop"}
  BY <1>1 DEF Cancelling
<1>4. Removing(c) => \/ Removing(c)'
                     \/ v.c = c /\ v.remove /\ v.at \in {"children", "remove"}
  BY <1>1 DEF Removing
<1>5. Locked(c) => Locked(c)' \/ (v.c = c /\ v.at = "children")
  BY <1>1 DEF Locked
<1>6. Awaits(c) => Awaits(c)' \/ (v.at = "children" /\ c \in v.todo)
  BY <1>1 DEF Awaits
<1>7. Joining(c) => Joining(c)' \/ (v.at = "cancel" /\ v.c = c)
  <2>1. SUFFICES ASSUME Joining(c) PROVE Joining(c)' \/ (v.at = "cancel" /\ v.c = c)
    OBVIOUS
  <2>2. PICK h \in Goroutine :
            /\ Depth(h) > 1 /\ CallAt(h, Depth(h)).at = "cancel" /\ CallAt(h, Depth(h)).c = c
            /\ \/ CallAt(h, Depth(h) - 1).c = c /\ CallAt(h, Depth(h) - 1).at \in WithPlaces
               \/ CallAt(h, Depth(h) - 1).c = parent[c] /\ CallAt(h, Depth(h) - 1).at = "children"
    BY <2>1 DEF Joining
  <2>3. CASE h = g
    BY <2>2, <2>3 DEF Inner
  <2>4. CASE h # g
    <3>1. stack[h] # <<>>
      BY <2>2, StackTop
    <3>2. stack'[h] = stack[h]
      BY <2>4, <3>1 DEF Inner
    <3>3. Depth(h) \in Nat
      BY StackTop
    <3>4. PICK n : n = Depth(h)
      OBVIOUS
    <3>5. /\ Depth(h)' = n /\ CallAt(h, n)' = CallAt(h, n)
          /\ CallAt(h, n - 1)' = CallAt(h, n - 1)
      BY <3>2, <3>4 DEF Depth, CallAt
    <3>6. Joining(c)'
      BY <2>2, <3>3, <3>4, <3>5 DEF Joining
    <3> QED
      BY <3>6
  <2> QED
    BY <2>3, <2>4
<1> QED
  BY <1>2, <1>3, <1>4, <1>5, <1>6, <1>7

-----------------------------------------------------------------------------
(* A context that the step of v is not about. *)
LEMMA OtherCtx ==
    ASSUME ContextInv, NEW g \in Goroutine, NEW d, NEW v, Inner(g, d, v), parent' = parent,
           NEW c \in Ctx, c # v.c,
           c \in known' <=> c \in known, c \in removes' <=> c \in removes,
           err'[c] = err[c], timer'[c] = timer[c],
           Closed(c)' => Closed(c),
           \A b \in Ctx : err[b] # Nil => err'[b] # Nil,
           \/ children'[c] \subseteq children[c]
           \/ err[c] = Nil /\ parent[v.c] = c /\ children'[c] \subseteq children[c] \union {v.c},
           NEW p, p = parent[c],
           p \in Ctx /\ c \in children'[p] => c \in children[p],
           p \in Ctx /\ c \in children[p] /\ err[p] = Nil =>
               Awaits(c)' \/ (err'[p] = Nil /\ c \in children'[p]),
           v.at = "children" /\ c \in v.todo => Awaits(c)' \/ Joining(c)',
           stack[Timer(c)] = <<>> => stack'[Timer(c)] = <<>>
    PROVE  CtxOK(c)'
<1>1. CtxOK(c) /\ StackOK
  BY DEF ContextInv, CtxsOK
<1>2. CallOK(g, 1)
  <2>1. 1 \in 1..Depth(g)
    BY DEF Inner
  <2> QED
    BY <2>1 DEF ContextInv, CallsOK
<1>3. ASSUME NEW h \in Goroutine, stack[h] # <<>>, h = g => d # 1
      PROVE  stack'[h] # <<>>
  <2>1. CASE h # g
    BY <1>3, <2>1 DEF Inner
  <2>2. CASE h = g
    <3>1. d \in Nat /\ d > 1 /\ Depth(g)' \in {d - 1, d, d + 1} /\ StackOK'
      BY <1>3, <2>2 DEF Inner
    <3>2. Depth(g)' # 0
      BY <3>1
    <3> QED
      BY <2>2, <3>2 DEF Depth
  <2> QED
    BY <2>1, <2>2
<1>4. /\ stack[Timer(c)] # <<>> <=> stack'[Timer(c)] # <<>>
      /\ stack[Watcher(c)] # <<>> => stack'[Watcher(c)] # <<>>
  <2>1. d = 1 => v = CallAt(g, 1)
    BY DEF Inner
  <2>2. d = 1 => g # Timer(c) /\ g # Watcher(c)
    BY <1>2, <2>1 DEF CallOK
  <2>3. Timer(c) \in Goroutine /\ Watcher(c) \in Goroutine
    BY ContextNames
  <2> QED
    BY <1>3, <2>2, <2>3
<1>5. /\ Early(c) => Early(c)'
      /\ Cancelling(c) => Cancelling(c)'
      /\ Removing(c) => Removing(c)'
      /\ Locked(c) => Locked(c)'
      /\ Awaits(c) => Awaits(c)' \/ Joining(c)'
      /\ Joining(c) => Joining(c)'
  BY <1>1, StillThere
<1>6. /\ Closed(c)' => err'[c] # Nil
      /\ p = Nil => err'[c] = Nil /\ c \notin known'
      /\ c \in known' /\ c \notin removes' => err'[c] # Nil
      /\ \A b \in children'[c] : parent[b] = c
      /\ timer'[c] # "none" => c \in known' /\ c \in timed
  BY <1>1 DEF CtxOK
<1>7. /\ timer'[c] = "set" => stack'[Timer(c)] = <<>>
      /\ stack'[Timer(c)] # <<>> => c \in known'
      /\ timer'[c] = "set" /\ err'[c] # Nil => Cancelling(c)'
      /\ c \in known' /\ c \in timed /\ err'[c] = Nil => timer'[c] = "set" \/ stack'[Timer(c)] # <<>>
  BY <1>1, <1>4, <1>5 DEF CtxOK
<1>8. p \in Ctx /\ err'[c] = Nil =>
         \/ Early(c)' \/ Joining(c)' \/ Awaits(c)'
         \/ err'[p] = Nil /\ c \in children'[p]
  BY <1>1, <1>5 DEF CtxOK
<1>9. p = Foreign /\ err'[c] = Nil => Early(c)' \/ Joining(c)' \/ stack'[Watcher(c)] # <<>>
  BY <1>1, <1>4, <1>5 DEF CtxOK
<1>10. /\ p \in Ctx /\ c \in children'[p] /\ err'[c] # Nil => err'[p] # Nil \/ Removing(c)'
       /\ err'[c] # Nil => children'[c] = {} \/ Locked(c)'
  BY <1>1, <1>5 DEF CtxOK
<1>11. parent'[c] = p
  OBVIOUS
<1> QED
  BY <1>6, <1>7, <1>8, <1>9, <1>10, <1>11 DEF CtxOK

(* The context that the step of v is about. *)
LEMMA OwnCtx ==
    ASSUME ContextInv, NEW g \in Goroutine, NEW d, NEW v, Inner(g, d, v), parent' = parent,
           NEW c \in Ctx, c = v.c,
           Closed(c)' => err'[c] # Nil,
           c \in known' /\ c \notin removes' => err'[c] # Nil,
           \/ children'[c] \subseteq children[c]
           \/ err'[c] = Nil /\ \A b \in children'[c] : parent[b] = c,
           known \subseteq known', err[c] # Nil => err'[c] # Nil,
           timer'[c] # "none" => timer[c] # "none" \/ (c \in known' /\ c \in timed),
           timer'[c] = "set" => timer[c] = "set" \/ c \notin known,
           stack[Timer(c)] = <<>> => stack'[Timer(c)] = <<>>,
           timer'[c] = "set" /\ err'[c] # Nil =>
               \/ Cancelling(c)'
               \/ timer[c] = "set" /\ err[c] # Nil /\ v.at \notin {"children", "remove", "stop"},
           c \in known' /\ c \in timed /\ err'[c] = Nil =>
               timer'[c] = "set" \/ (c \in known /\ timer'[c] = timer[c]),
           Depth(g)' = 0 => err'[c] # Nil \/ g \in User,
           NEW p, p = parent[c],
           p \in Ctx /\ err'[c] = Nil =>
               \/ Early(c)' \/ Joining(c)' \/ (err'[p] = Nil /\ c \in children'[p])
               \/ /\ v.at \notin EarlyPlaces /\ v.at # "cancel"
                  /\ c \in children[p] /\ err[p] = Nil => c \in children'[p] /\ err'[p] = Nil,
           p = Foreign /\ err'[c] = Nil =>
               \/ Early(c)' \/ Joining(c)' \/ stack'[Watcher(c)] # <<>>
               \/ v.at \notin EarlyPlaces /\ v.at # "cancel",
           p \in Ctx /\ c \in children'[p] /\ err'[c] # Nil =>
               \/ err'[p] # Nil \/ Removing(c)'
               \/ /\ err[c] # Nil /\ c \in children[p] /\ err[p] = err'[p]
                  /\ ~(v.remove /\ v.at \in {"children", "remove"}),
           err'[c] # Nil =>
               \/ children'[c] = {} \/ Locked(c)'
               \/ err[c] # Nil /\ v.at # "children"
    PROVE  CtxOK(c)'
<1>1. CtxOK(c) /\ StackOK
  BY DEF ContextInv, CtxsOK
<1>2. CallOK(g, d)
  <2>1. d \in 1..Depth(g)
    BY DEF Inner
  <2> QED
    BY <2>1 DEF ContextInv, CallsOK
<1>3. p # Nil /\ (v.at = "children" => err[c] # Nil)
  BY <1>2 DEF CallOK, Inner
<1>4. ASSUME NEW h \in Goroutine, stack[h] # <<>>
      PROVE  stack'[h] # <<>> \/ (h = g /\ Depth(g)' = 0)
  <2>1. CASE h # g
    BY <1>4, <2>1 DEF Inner
  <2>2. CASE h = g
    BY <1>4, <2>2 DEF Depth
  <2> QED
    BY <2>1, <2>2
<1>5. /\ stack'[Timer(c)] # <<>> => stack[Timer(c)] # <<>>
      /\ stack[Timer(c)] # <<>> => stack'[Timer(c)] # <<>> \/ err'[c] # Nil
      /\ stack[Watcher(c)] # <<>> => stack'[Watcher(c)] # <<>> \/ err'[c] # Nil
  BY <1>4, ContextNames
<1>6. /\ Early(c) => Early(c)' \/ v.at \in EarlyPlaces
      /\ Cancelling(c) => Cancelling(c)' \/ v.at \in {"children", "remove", "stop"}
      /\ Removing(c) => Removing(c)' \/ (v.remove /\ v.at \in {"children", "remove"})
      /\ Locked(c) => Locked(c)' \/ v.at = "children"
      /\ Awaits(c) => Awaits(c)' \/ v.at = "children"
      /\ Joining(c) => Joining(c)' \/ v.at = "cancel"
  BY <1>1, StillThere
<1>7. /\ p = Nil => err'[c] = Nil /\ c \notin known'
      /\ \A b \in children'[c] : parent[b] = c
      /\ timer'[c] # "none" => c \in known' /\ c \in timed
  BY <1>1, <1>3 DEF CtxOK
<1>8. /\ timer'[c] = "set" => stack'[Timer(c)] = <<>>
      /\ stack'[Timer(c)] # <<>> => c \in known'
  BY <1>1, <1>5 DEF CtxOK
<1>9. /\ timer'[c] = "set" /\ err'[c] # Nil => Cancelling(c)'
      /\ c \in known' /\ c \in timed /\ err'[c] = Nil => timer'[c] = "set" \/ stack'[Timer(c)] # <<>>
  BY <1>1, <1>5, <1>6 DEF CtxOK
<1>10. p \in Ctx /\ err'[c] = Nil =>
          \/ Early(c)' \/ Joining(c)' \/ Awaits(c)'
          \/ err'[p] = Nil /\ c \in children'[p]
  BY <1>1, <1>3, <1>6 DEF CtxOK
<1>11. p = Foreign /\ err'[c] = Nil => Early(c)' \/ Joining(c)' \/ stack'[Watcher(c)] # <<>>
  BY <1>1, <1>5, <1>6 DEF CtxOK
<1>12. /\ p \in Ctx /\ c \in children'[p] /\ err'[c] # Nil => err'[p] # Nil \/ Removing(c)'
       /\ err'[c] # Nil => children'[c] = {} \/ Locked(c)'
  BY <1>1, <1>6 DEF CtxOK
<1>13. parent'[c] = p
  OBVIOUS
<1> QED
  BY <1>7, <1>8, <1>9, <1>10, <1>11, <1>12, <1>13 DEF CtxOK

-----------------------------------------------------------------------------
(* What is known of the innermost call of a goroutine. *)
LEMMA TopFacts ==
    ASSUME ContextInv, NEW g \in Goroutine, stack[g] # <<>>, NEW v, v = Top(g), NEW d, d = Depth(g)
    PROVE  /\ d \in Nat /\ d > 0 /\ d \in 1..Depth(g) /\ v = CallAt(g, d) /\ v = stack[g][1]
           /\ v \in Calls /\ v.c \in Ctx
           /\ CallOK(g, d) /\ CtxOK(v.c)
           /\ v.at \in WithPlaces => d = 1 /\ g \in User /\ v.c \notin known
<1>1. d \in Nat /\ d > 0 /\ d \in 1..Depth(g) /\ v = CallAt(g, d) /\ v = stack[g][1] /\ v \in Calls
  BY StackTop, ContextTypes
<1>2. v.c \in Ctx
  BY <1>1 DEF Calls
<1>3. CallOK(g, d) /\ CtxOK(v.c)
  BY <1>1, <1>2 DEF ContextInv, CallsOK, CtxsOK
<1>4. v.at \in WithPlaces => d = 1 /\ g \in User /\ v.c \notin known
  BY <1>1, <1>3 DEF CallOK, WithPlaces, CancelPlaces, EarlyPlaces
<1> QED
  BY <1>1, <1>2, <1>3, <1>4

(* The same, with the parent of its context. *)
LEMMA TopCall ==
    ASSUME ContextInv, NEW g \in Goroutine, stack[g] # <<>>, NEW v, v = Top(g), NEW d, d = Depth(g),
           NEW p, p = parent[v.c]
    PROVE  /\ d > 1 => v.at \in CancelPlaces
           /\ p # Nil
           /\ v.at \in WithPlaces => /\ g \in User /\ v.c \notin known
                                     /\ v.at # "late" => v.c \in removes
           /\ v.at \in EarlyPlaces => err[v.c] = Nil /\ \A b \in Ctx : v.c \notin children[b]
           /\ v.at \in {"attach", "attached"} => p \in Ctx
           /\ v.at = "err" /\ p \in Ctx => err[p] # Nil
           /\ v.at = "late" => err[v.c] # Nil
           /\ v.at \in CancelPlaces => v.err # Nil
           /\ v.at \in {"children", "remove", "stop"} => err[v.c] # Nil
           /\ v.at = "cancel" /\ ~v.remove => err[v.c] # Nil \/ p \notin Ctx \/ err[p] # Nil
           /\ v.at \in WatchPlaces => p = Foreign
           /\ \A c \in v.todo : parent[c] = v.c
           /\ \A c \in Ctx : Holds(v, c) => mu[c] = g
           /\ \A c \in Ctx : d = 1 /\ g = Timer(c) => v.c = c /\ v.at \in CancelPlaces
           /\ \A c \in Ctx : d = 1 /\ g = Watcher(c) => v.c = c /\ p = Foreign
<1>1. CallOK(g, d) /\ v = CallAt(g, d)
  BY TopFacts
<1>2. v.at = "late" => d = 1
  BY TopFacts DEF WithPlaces
<1>3. v.at = "late" => err[v.c] # Nil
  BY <1>1, <1>2 DEF CallOK
<1> QED
  BY <1>1, <1>3 DEF CallOK

LEMMA GoOnInner ==
    ASSUME ContextInv, NEW g \in Goroutine, stack[g] # <<>>, NEW v, v = Top(g), NEW d, d = Depth(g),
           NEW there \in WithPlaces \union CancelPlaces \union WatchPlaces, GoOn(g, there),
           removes' \subseteq Ctx
    PROVE  /\ Inner(g, d, v) /\ Depth(g)' = d /\ stack'[g] # <<>>
           /\ \A h \in Goroutine \ {g} : stack'[h] = stack[h]
           /\ \A h \in Goroutine : \A k \in 1..Depth(h)' :
                 k \in 1..Depth(h) /\ ((h = g /\ k = d) \/ Kept(h, k))
           /\ \E x \in Calls : /\ x = CallAt(g, d)' /\ x.at = there /\ x.c = v.c /\ x.remove = v.remove
                               /\ x.err = v.err /\ x.todo = v.todo
<1>1. d \in Nat /\ d > 0 /\ v = CallAt(g, d) /\ v = stack[g][1] /\ v \in Calls /\ StackOK
  BY TopFacts, ContextTypes
<1>2. PICK x : x = [v EXCEPT !.at = there]
  OBVIOUS
<1>3. /\ x \in Calls /\ x.at = there /\ x.c = v.c /\ x.remove = v.remove
      /\ x.err = v.err /\ x.todo = v.todo
  BY <1>1, <1>2 DEF Calls
<1>4. stack' = [stack EXCEPT ![g] = <<x>> \o Tail(@)]
  BY <1>1, <1>2 DEF GoOn
<1>5. /\ stack' \in [Goroutine -> Seq(Calls)]
      /\ Depth(g)' = d /\ CallAt(g, d)' = x
      /\ \A k \in 1..d - 1 : Kept(g, k)
      /\ \A h \in Goroutine \ {g} : /\ stack'[h] = stack[h] /\ Depth(h)' = Depth(h)
                                    /\ \A k \in 1..Depth(h) : Kept(h, k)
  BY <1>1, <1>3, <1>4, StackGoOn
<1>6. Inner(g, d, v)
  BY <1>1, <1>5 DEF Inner, StackOK
<1>7. stack'[g] # <<>>
  BY <1>5, <1>1 DEF Depth
<1>8. \A h \in Goroutine : \A k \in 1..Depth(h)' :
          k \in 1..Depth(h) /\ ((h = g /\ k = d) \/ Kept(h, k))
  BY <1>5, <1>1
<1> QED
  BY <1>3, <1>5, <1>6, <1>7, <1>8

LEMMA LeaveInner ==
    ASSUME ContextInv, NEW g \in Goroutine, stack[g] # <<>>, NEW v, v = Top(g), NEW d, d = Depth(g),
           Leave(g), removes' \subseteq Ctx
    PROVE  /\ Inner(g, d, v) /\ Depth(g)' = d - 1
           /\ \A h \in Goroutine \ {g} : stack'[h] = stack[h]
           /\ \A h \in Goroutine : \A k \in 1..Depth(h)' :
                 k \in 1..Depth(h) /\ Kept(h, k) /\ (h # g \/ k # d)
<1>1. d \in Nat /\ d > 0 /\ v = CallAt(g, d) /\ v \in Calls /\ StackOK
  BY TopFacts, ContextTypes
<1>2. stack' = [stack EXCEPT ![g] = Tail(@)]
  BY DEF Leave
<1>3. /\ stack' \in [Goroutine -> Seq(Calls)]
      /\ Depth(g)' = d - 1
      /\ \A k \in 1..d - 1 : Kept(g, k)
      /\ \A h \in Goroutine \ {g} : /\ stack'[h] = stack[h] /\ Depth(h)' = Depth(h)
                                    /\ \A k \in 1..Depth(h) : Kept(h, k)
  BY <1>1, <1>2, StackLeave
<1>4. Inner(g, d, v)
  BY <1>1, <1>3 DEF Inner, StackOK
<1>5. \A h \in Goroutine : \A k \in 1..Depth(h)' :
          k \in 1..Depth(h) /\ Kept(h, k) /\ (h # g \/ k # d)
  <2>1. ASSUME NEW k \in 1..Depth(g)' PROVE k \in 1..Depth(g) /\ Kept(g, k) /\ k # d
    BY <1>1, <1>3, <2>1
  <2>2. ASSUME NEW h \in Goroutine \ {g}, NEW k \in 1..Depth(h)' PROVE k \in 1..Depth(h) /\ Kept(h, k)
    BY <1>3, <2>2
  <2> QED
    BY <2>1, <2>2
<1> QED
  BY <1>3, <1>4, <1>5

LEMMA EnterInner ==
    ASSUME ContextInv, NEW g \in Goroutine, stack[g] # <<>>, NEW v, v = Top(g), NEW d, d = Depth(g),
           NEW there \in WithPlaces \union CancelPlaces \union WatchPlaces, NEW f \in Calls,
           Enter(g, f, there), removes' \subseteq Ctx, NEW e, e = d + 1
    PROVE  /\ Inner(g, d, v) /\ Depth(g)' = e /\ CallAt(g, e)' = f
           /\ \A h \in Goroutine \ {g} : stack'[h] = stack[h]
           /\ \A h \in Goroutine : \A k \in 1..Depth(h)' :
                 \/ k \in 1..Depth(h) /\ Kept(h, k) /\ (h # g \/ k # d)
                 \/ h = g /\ (k = d \/ k = e)
           /\ \E x \in Calls : /\ x = CallAt(g, d)' /\ x.at = there /\ x.c = v.c /\ x.remove = v.remove
                               /\ x.err = v.err /\ x.todo = v.todo
<1>1. d \in Nat /\ d > 0 /\ v = CallAt(g, d) /\ v = stack[g][1] /\ v \in Calls /\ StackOK
  BY TopFacts, ContextTypes
<1>2. PICK x : x = [v EXCEPT !.at = there]
  OBVIOUS
<1>3. /\ x \in Calls /\ x.at = there /\ x.c = v.c /\ x.remove = v.remove
      /\ x.err = v.err /\ x.todo = v.todo
  BY <1>1, <1>2 DEF Calls
<1>a. PICK r : r = stack[g]
  OBVIOUS
<1>b. PICK s : s = <<f, x>> \o Tail(r)
  OBVIOUS
<1>4. stack' = [stack EXCEPT ![g] = s]
  BY <1>a, <1>b, <1>1, <1>2 DEF Enter
<1>5. /\ stack' \in [Goroutine -> Seq(Calls)]
      /\ Depth(g)' = e /\ CallAt(g, d)' = x /\ CallAt(g, e)' = f
      /\ \A k \in 1..d - 1 : Kept(g, k)
      /\ \A h \in Goroutine \ {g} : /\ stack'[h] = stack[h] /\ Depth(h)' = Depth(h)
                                    /\ \A k \in 1..Depth(h) : Kept(h, k)
  <2>1. r \in Seq(Calls) /\ r # <<>>
    BY <1>a, <1>1 DEF StackOK
  <2>2. /\ s \in Seq(Calls) /\ Len(s) = Len(r) + 1 /\ s[1] = f /\ s[2] = x
        /\ \A i \in 2..Len(r) : s[i + 1] = r[i]
    BY <1>b, <1>3, <2>1, PushFacts
  <2>3. /\ s \in Seq(Calls) /\ Len(s) = Len(stack[g]) + 1
        /\ \A i \in 2..Len(stack[g]) : s[i + 1] = stack[g][i]
    BY <1>a, <2>2
  <2>4. /\ stack' \in [Goroutine -> Seq(Calls)] /\ Len(s) = Depth(g) + 1
        /\ Depth(g)' = Len(s) /\ \A k \in 1..Len(s) : CallAt(g, k)' = s[Len(s) + 1 - k]
        /\ \A k \in 1..Depth(g) - 1 : Kept(g, k)
        /\ \A h \in Goroutine \ {g} : /\ stack'[h] = stack[h] /\ Depth(h)' = Depth(h)
                                      /\ \A k \in 1..Depth(h) : Kept(h, k)
    BY <1>1, <1>4, <2>3, StackPush
  <2>5. Len(s) = e
    BY <2>4
  <2>6. /\ d \in 1..Len(s) /\ Len(s) + 1 - d = 2
        /\ e \in 1..Len(s) /\ Len(s) + 1 - e = 1
    BY <1>1, <2>5
  <2>7. CallAt(g, d)' = x /\ CallAt(g, e)' = f
    BY <2>2, <2>4, <2>6
  <2> QED
    BY <2>4, <2>5, <2>7
<1>6. Inner(g, d, v)
  BY <1>1, <1>5 DEF Inner, StackOK
<1>7. \A h \in Goroutine : \A k \in 1..Depth(h)' :
          \/ k \in 1..Depth(h) /\ Kept(h, k) /\ (h # g \/ k # d)
          \/ h = g /\ (k = d \/ k = e)
  <2>1. ASSUME NEW k \in 1..Depth(g)'
        PROVE  (k \in 1..Depth(g) /\ Kept(g, k) /\ k # d) \/ k = d \/ k = e
    BY <1>1, <1>5, <2>1
  <2>2. ASSUME NEW h \in Goroutine \ {g}, NEW k \in 1..Depth(h)' PROVE k \in 1..Depth(h) /\ Kept(h, k)
    BY <1>5, <2>2
  <2> QED
    BY <2>1, <2>2
<1> QED
  BY <1>3, <1>5, <1>6, <1>7

(* The innermost call goes on, and changes neither errors nor the tree. *)
LEMMA GoOnInv ==
    ASSUME ContextInv, NEW g \in Goroutine, stack[g] # <<>>, NEW v, v = Top(g), NEW d, d = Depth(g),
           NEW p, p = parent[v.c],
           NEW there \in {"select", "err", "attach", "timer", "remove", "stop", "watching"},
           GoOn(g, there), ContextTypeOK',
           UNCHANGED <<parent, known, removes, err, timer>>,
           \A c \in Ctx : Closed(c)' => Closed(c),
           \A c \in Ctx : mu'[c] = mu[c] \/ Holds(v, c),
           \/ \A b \in Ctx : children'[b] \subseteq children[b]
           \/ /\ v.at \in EarlyPlaces /\ there \notin EarlyPlaces /\ p \in Ctx /\ err[p] = Nil
              /\ children' = [children EXCEPT ![p] = @ \union {v.c}],
           \A b, c \in Ctx : \/ c \in children[b] => c \in children'[b]
                             \/ c = v.c /\ v.at \in CancelPlaces
                             \/ b = v.c /\ v.at = "children",
           \/ v.at \in WithPlaces /\ there \in WithPlaces
           \/ v.at \in CancelPlaces /\ there \in {"remove", "stop"}
           \/ v.at \in WatchPlaces /\ there = "watching",
           there \in EarlyPlaces => v.at \in EarlyPlaces,
           v.at \in EarlyPlaces /\ there \notin EarlyPlaces =>
               p = Background \/ (p \in Ctx /\ err[p] = Nil /\ v.c \in children'[p]),
           there = "err" /\ p \in Ctx => err[p] # Nil,
           there = "attach" => p \in Ctx,
           v.at # "late", v.at = "cancel" => err[v.c] # Nil,
           v.at = "children" => v.todo = {} /\ children'[v.c] = {},
           v.at = "children" /\ v.remove => there = "remove",
           v.at = "remove" /\ p \in Ctx => v.c \notin children'[p] \/ err[p] # Nil
    PROVE  ContextInv'
<1>1. /\ d \in Nat /\ d > 0 /\ d \in 1..Depth(g) /\ v = CallAt(g, d)
      /\ v \in Calls /\ v.c \in Ctx
  BY TopFacts
<1>2. /\ d > 1 => v.at \in CancelPlaces
      /\ p # Nil
      /\ v.at \in WithPlaces => /\ g \in User /\ v.c \notin known
                                /\ v.at # "late" => v.c \in removes
      /\ v.at \in EarlyPlaces => err[v.c] = Nil /\ \A b \in Ctx : v.c \notin children[b]
      /\ v.at \in CancelPlaces => v.err # Nil
      /\ v.at \in {"children", "remove", "stop"} => err[v.c] # Nil
      /\ v.at \in WatchPlaces => p = Foreign
      /\ \A c \in v.todo : parent[c] = v.c
      /\ \A c \in Ctx : d = 1 /\ g = Timer(c) => v.c = c /\ v.at \in CancelPlaces
      /\ \A c \in Ctx : d = 1 /\ g = Watcher(c) => v.c = c /\ p = Foreign
  BY TopCall
<1>3. removes' \subseteq Ctx
  BY ContextTypes
<1>4. there \in WithPlaces \union CancelPlaces \union WatchPlaces
  BY DEF WithPlaces, EarlyPlaces, CancelPlaces, WatchPlaces
<1>5. /\ Inner(g, d, v) /\ Depth(g)' = d /\ stack'[g] # <<>>
      /\ \A h \in Goroutine \ {g} : stack'[h] = stack[h]
      /\ \A h \in Goroutine : \A k \in 1..Depth(h)' :
            k \in 1..Depth(h) /\ ((h = g /\ k = d) \/ Kept(h, k))
      /\ \E x \in Calls : /\ x = CallAt(g, d)' /\ x.at = there /\ x.c = v.c /\ x.remove = v.remove
                          /\ x.err = v.err /\ x.todo = v.todo
  BY <1>3, <1>4, GoOnInner
<1>6. PICK x \in Calls : /\ x = CallAt(g, d)' /\ x.at = there /\ x.c = v.c /\ x.remove = v.remove
                         /\ x.err = v.err /\ x.todo = v.todo
  BY <1>5
<1>7. v.at \in CancelPlaces => err[v.c] # Nil
  BY <1>2 DEF CancelPlaces
<1>8. /\ there \in WithPlaces <=> v.at \in WithPlaces
      /\ there \in CancelPlaces <=> v.at \in CancelPlaces
      /\ there \in WatchPlaces <=> v.at \in WatchPlaces
      /\ there \in {"remove", "stop"} => v.at \in CancelPlaces
      /\ there \notin {"children", "attached", "late", "cancel"}
  BY DEF WithPlaces, EarlyPlaces, CancelPlaces, WatchPlaces
<1>9. \A c \in Ctx : ~Holds(x, c)
  BY <1>6, <1>8 DEF Holds
<1>a. /\ \/ \A b \in Ctx : children'[b] \subseteq children[b]
         \/ v.at \in EarlyPlaces /\ there \notin EarlyPlaces /\ p \in Ctx /\ err[p] = Nil
      /\ \A b \in Ctx : children'[b] \subseteq children[b] \/ b = p
      /\ \A b \in Ctx : children'[b] \subseteq children[b] \union {v.c}
  BY ContextTypes
<1>10. CallOK(g, d)'
  <2>1. x.at \in WithPlaces => g \in User /\ x.c \notin known' /\ (x.at # "late" => x.c \in removes')
    BY <1>2, <1>6, <1>8
  <2>2. x.at \in EarlyPlaces => err'[x.c] = Nil /\ \A b \in Ctx : x.c \notin children'[b]
    BY <1>2, <1>6, <1>a
  <2>3. /\ d > 1 => x.at \in CancelPlaces
        /\ x.at \in {"attach", "attached"} => p \in Ctx
        /\ x.at = "err" /\ p \in Ctx => err'[p] # Nil
        /\ x.at # "late" /\ x.at # "cancel"
        /\ x.at \in CancelPlaces => x.err # Nil
        /\ x.at \in {"children", "remove", "stop"} => err'[x.c] # Nil
        /\ x.at \in WatchPlaces => p = Foreign
    BY <1>2, <1>6, <1>7, <1>8
  <2>4. /\ \A c \in x.todo : parent'[c] = x.c
        /\ \A c \in Ctx : d = 1 /\ g = Timer(c) => x.c = c /\ x.at \in CancelPlaces
        /\ \A c \in Ctx : d = 1 /\ g = Watcher(c) => x.c = c /\ p = Foreign
    BY <1>2, <1>6, <1>8
  <2>5. parent'[x.c] = p /\ ~(d < Depth(g)') /\ p # Nil
    BY <1>1, <1>2, <1>5, <1>6
  <2>6. \A c \in Ctx : ~Holds(x, c)'
    BY <1>9 DEF Holds
  <2> QED
    BY <2>1, <2>2, <2>3, <2>4, <2>5, <2>6, <1>6 DEF CallOK
<1>11. CallsOK'
  <2> SUFFICES ASSUME NEW h \in Goroutine, NEW k \in 1..Depth(h)' PROVE CallOK(h, k)'
    BY DEF CallsOK
  <2>1. CASE h = g /\ k = d
    BY <2>1, <1>10
  <2>2. CASE h # g \/ k # d
    <3>1. k \in 1..Depth(h)
      BY <1>5
    <3>2. /\ v.at = "cancel" => err'[v.c] # Nil
          /\ \A c \in Ctx : mu'[c] = mu[c] \/ mu[c] = Nil \/ Holds(v, c)
          /\ \A b, c \in Ctx : \/ c \in children'[b] => c \in children[b]
                               \/ c = v.c /\ v.at \in WithPlaces
          /\ \A c \in Ctx : \/ err'[c] = err[c]
                            \/ c = v.c /\ v.at = "cancel" /\ err[c] = Nil
      BY <1>a DEF WithPlaces
    <3> QED
      BY <2>2, <3>1, <3>2, <1>5, CallLasts
  <2> QED
    BY <2>1, <2>2
<1>12. PairsOK'
  <2>1. Milder(g, d)
    <3>1. \A c \in Ctx : ~Holds(CallAt(g, d), c)'
      BY <1>6, <1>9 DEF Holds
    <3> QED
      BY <3>1, <1>1, <1>6, <1>8 DEF Milder
  <2>2. \A h \in Goroutine : \A k \in 1..Depth(h)' :
            Kept(h, k) \/ Harmless(h, k)' \/ (h = g /\ k = d /\ Milder(g, d))
    BY <2>1, <1>5
  <2> QED
    BY <2>2, PairsLast
<1>13. \A h \in Goroutine : stack[h] = <<>> => stack'[h] = <<>>
  BY <1>5
<1>14. ASSUME NEW c \in Ctx, c # v.c PROVE CtxOK(c)'
  <2>1. PICK q : q = parent[c]
    OBVIOUS
  <2>2. /\ q \in Ctx /\ c \in children'[q] => c \in children[q]
        /\ q \in Ctx /\ c \in children[q] /\ err[q] = Nil => err'[q] = Nil /\ c \in children'[q]
    BY <1>2, <1>14, <1>a
  <2>3. stack[Timer(c)] = <<>> => stack'[Timer(c)] = <<>>
    BY <1>13, ContextNames
  <2>4. ~(v.at = "children" /\ c \in v.todo)
    OBVIOUS
  <2>5. /\ Closed(c)' => Closed(c)
        /\ \/ children'[c] \subseteq children[c]
           \/ err[c] = Nil /\ parent[v.c] = c /\ children'[c] \subseteq children[c] \union {v.c}
    BY <1>a
  <2>6. \A b \in Ctx : err[b] # Nil => err'[b] # Nil
    OBVIOUS
  <2> QED
    BY <2>1, <2>2, <2>3, <2>4, <2>5, <2>6, <1>14, <1>5, OtherCtx
<1>15. CtxOK(v.c)'
  <2>1. PICK c \in Ctx : c = v.c
    BY <1>1
  <2>2. CtxOK(c)
    BY <2>1 DEF ContextInv, CtxsOK
  <2>3. /\ Closed(c)' => err'[c] # Nil
        /\ c \in known' /\ c \notin removes' => err'[c] # Nil
        /\ timer'[c] # "none" => timer[c] # "none" \/ (c \in known' /\ c \in timed)
    BY <2>2 DEF CtxOK
  <2>4. stack[Timer(c)] = <<>> => stack'[Timer(c)] = <<>>
    BY <1>13, ContextNames
  <2>5. timer'[c] = "set" /\ err'[c] # Nil =>
            \/ Cancelling(c)'
            \/ timer[c] = "set" /\ err[c] # Nil /\ v.at \notin {"children", "remove", "stop"}
    <3>1. CASE v.at \in {"children", "remove", "stop"}
      <4>1. x.at \in {"remove", "stop"} /\ x.c = c
        BY <3>1, <2>1, <1>6, <1>8 DEF CancelPlaces
      <4>2. Cancelling(c)'
        BY <4>1, <1>5, <1>6, <1>1 DEF Cancelling
      <4> QED
        BY <4>2
    <3> QED
      BY <3>1
  <2>6. \/ Early(c)' \/ ~(v.at \in EarlyPlaces) \/ p = Background
        \/ p \in Ctx /\ err[p] = Nil /\ c \in children'[p]
    <3>1. there \in EarlyPlaces => Early(c)'
      BY <2>1, <1>1, <1>5, <1>6 DEF Early
    <3> QED
      BY <2>1, <3>1
  <2>7. v.at = "cancel" => err'[c] # Nil
    BY <2>1
  <2>8. Depth(g)' # 0
    BY <1>1, <1>5
  <2>9. p \in Ctx /\ err'[c] = Nil =>
           \/ Early(c)' \/ Joining(c)' \/ (err'[p] = Nil /\ c \in children'[p])
           \/ /\ v.at \notin EarlyPlaces /\ v.at # "cancel"
              /\ c \in children[p] /\ err[p] = Nil => c \in children'[p] /\ err'[p] = Nil
    <3>1. p # Background \/ p \notin Ctx
      BY ContextNames
    <3>2. err'[c] = Nil => v.at \notin CancelPlaces
      BY <1>7, <2>1
    <3>3. err'[c] = Nil /\ v.at \notin CancelPlaces /\ p \in Ctx /\ c \in children[p] => c \in children'[p]
      <4>1. ~("children" \notin CancelPlaces)
        BY DEF CancelPlaces
      <4> QED
        BY <4>1
    <3> QED
      BY <2>6, <2>7, <3>1, <3>2, <3>3
  <2>10. p = Foreign /\ err'[c] = Nil =>
            \/ Early(c)' \/ Joining(c)' \/ stack'[Watcher(c)] # <<>>
            \/ v.at \notin EarlyPlaces /\ v.at # "cancel"
    BY <2>6, <2>7, ContextNames
  <2>11. p \in Ctx /\ c \in children'[p] /\ err'[c] # Nil =>
            \/ err'[p] # Nil \/ Removing(c)'
            \/ /\ err[c] # Nil /\ c \in children[p] /\ err[p] = err'[p]
               /\ ~(v.remove /\ v.at \in {"children", "remove"})
    <3>1. v.remove /\ v.at = "children" => Removing(c)'
      BY <2>1, <1>1, <1>5, <1>6 DEF Removing
    <3>2. err[c] # Nil => \A b \in Ctx : children'[b] \subseteq children[b]
      BY <2>1, <1>2, <1>a
    <3> QED
      BY <2>1, <3>1, <3>2
  <2>12. err'[c] # Nil => children'[c] = {} \/ Locked(c)' \/ (err[c] # Nil /\ v.at # "children")
    BY <2>1
  <2>13. (err[c] # Nil => err'[c] # Nil) /\ timer'[c] = timer[c]
    OBVIOUS
  <2>14. p = parent[c]
    BY <2>1
  <2>a. \/ children'[c] \subseteq children[c]
        \/ err'[c] = Nil /\ \A b \in children'[c] : parent[b] = c
    <3>1. v.at \in EarlyPlaces => err[c] = Nil
      BY <2>1, <1>2
    <3>2. \A b \in children[c] : parent[b] = c
      BY <2>2 DEF CtxOK
    <3> QED
      BY <2>1, <2>14, <1>a, <3>1, <3>2
  <2>15. CtxOK(c)'
    BY <2>1, <2>3, <2>4, <2>5, <2>8, <2>9, <2>10, <2>11, <2>12, <2>13, <2>14, <2>a, <1>5, OwnCtx
  <2> QED
    BY <2>1, <2>15
<1>16. CtxsOK'
  BY <1>14, <1>15 DEF CtxsOK
<1>17. StackOK'
  BY <1>5 DEF Inner
<1> QED
  BY <1>11, <1>12, <1>16, <1>17 DEF ContextInv

(* The innermost call ends. *)
LEMMA LeaveInv ==
    ASSUME ContextInv, NEW g \in Goroutine, stack[g] # <<>>, NEW v, v = Top(g), NEW d, d = Depth(g),
           NEW p, p = parent[v.c],
           Leave(g), ContextTypeOK', UNCHANGED <<parent, removes, err>>,
           \/ v.at \in {"timer", "late"} /\ known' = known \union {v.c}
           \/ v.at \in CancelPlaces \union WatchPlaces /\ known' = known,
           \A c \in Ctx : Closed(c)' => Closed(c),
           \A c \in Ctx : mu'[c] = mu[c] \/ Holds(v, c),
           \A b \in Ctx : children'[b] \subseteq children[b],
           \A b, c \in Ctx : \/ c \in children[b] => c \in children'[b]
                             \/ c = v.c /\ v.at \in CancelPlaces
                             \/ b = v.c /\ v.at = "children",
           \A c \in Ctx : timer'[c] = timer[c] \/ c = v.c,
           timer'[v.c] # "none" => \/ timer'[v.c] = timer[v.c] /\ v.at # "stop"
                                   \/ v.at = "timer" /\ v.c \in timed /\ err[v.c] = Nil,
           v.at = "timer" /\ v.c \in timed /\ err[v.c] = Nil => timer'[v.c] = "set",
           v.at \in {"cancel", "watch", "watching"} => err[v.c] # Nil,
           v.at \in {"children", "remove"} => v.c \notin timed,
           v.at = "children" => v.todo = {} /\ children'[v.c] = {} /\ ~v.remove,
           v.at = "remove" /\ p \in Ctx => v.c \notin children'[p] \/ err[p] # Nil
    PROVE  ContextInv'
<1>1. /\ d \in Nat /\ d > 0 /\ d \in 1..Depth(g) /\ v = CallAt(g, d)
      /\ v \in Calls /\ v.c \in Ctx
  BY TopFacts
<1>2. /\ p # Nil
      /\ v.at \in WithPlaces => /\ g \in User /\ v.c \notin known
                                /\ v.at # "late" => v.c \in removes
      /\ v.at = "late" => err[v.c] # Nil
      /\ v.at \in {"children", "remove", "stop"} => err[v.c] # Nil
      /\ \A c \in v.todo : parent[c] = v.c
  BY TopCall
<1>3. removes' \subseteq Ctx
  BY ContextTypes
<1>4. /\ Inner(g, d, v) /\ Depth(g)' = d - 1
      /\ \A h \in Goroutine \ {g} : stack'[h] = stack[h]
      /\ \A h \in Goroutine : \A k \in 1..Depth(h)' :
            k \in 1..Depth(h) /\ Kept(h, k) /\ (h # g \/ k # d)
  BY <1>3, LeaveInner
<1>5. /\ v.at # "timer" => err[v.c] # Nil
      /\ v.at = "timer" => g \in User /\ v.c \notin known /\ v.c \in removes
      /\ v.at = "late" => g \in User /\ v.c \notin known
      /\ v.at = "timer" => v.c \in known'
      /\ v.at \in {"timer", "late"} => v.at \in WithPlaces
      /\ v.at \notin EarlyPlaces
  BY <1>2 DEF WithPlaces, EarlyPlaces, CancelPlaces, WatchPlaces
<1>6. CallsOK'
  <2> SUFFICES ASSUME NEW h \in Goroutine, NEW k \in 1..Depth(h)' PROVE CallOK(h, k)'
    BY DEF CallsOK
  <2>1. k \in 1..Depth(h) /\ (h # g \/ k # d)
    BY <1>4
  <2>2. /\ v.at = "cancel" => err'[v.c] # Nil
        /\ \A c \in Ctx : mu'[c] = mu[c] \/ mu[c] = Nil \/ Holds(v, c)
        /\ \A b, c \in Ctx : \/ c \in children'[b] => c \in children[b]
                             \/ c = v.c /\ v.at \in WithPlaces
        /\ \A c \in Ctx : \/ err'[c] = err[c]
                          \/ c = v.c /\ v.at = "cancel" /\ err[c] = Nil
        /\ known' = known \/ (v.at \in WithPlaces /\ known' = known \union {v.c})
    BY <1>5
  <2> QED
    BY <2>1, <2>2, <1>4, CallLasts
<1>7. PairsOK'
  <2>1. \A h \in Goroutine : \A k \in 1..Depth(h)' :
            Kept(h, k) \/ Harmless(h, k)' \/ (h = g /\ k = d /\ Milder(g, d))
    BY <1>4
  <2> QED
    BY <2>1, PairsLast
<1>8. \A h \in Goroutine : stack[h] = <<>> => stack'[h] = <<>>
  BY <1>4
<1>9. ASSUME NEW c \in Ctx, c # v.c PROVE CtxOK(c)'
  <2>1. PICK q : q = parent[c]
    OBVIOUS
  <2>2. /\ q \in Ctx /\ c \in children'[q] => c \in children[q]
        /\ q \in Ctx /\ c \in children[q] /\ err[q] = Nil => err'[q] = Nil /\ c \in children'[q]
    BY <1>2, <1>9
  <2>3. stack[Timer(c)] = <<>> => stack'[Timer(c)] = <<>>
    BY <1>8, ContextNames
  <2>4. ~(v.at = "children" /\ c \in v.todo)
    OBVIOUS
  <2>5. children'[c] \subseteq children[c] /\ (Closed(c)' => Closed(c))
    OBVIOUS
  <2>6. \A b \in Ctx : err[b] # Nil => err'[b] # Nil
    OBVIOUS
  <2>7. timer'[c] = timer[c] /\ (c \in known' <=> c \in known)
    BY <1>9
  <2> QED
    BY <2>1, <2>2, <2>3, <2>4, <2>5, <2>6, <2>7, <1>9, <1>4, OtherCtx
<1>10. CtxOK(v.c)'
  <2>1. PICK c \in Ctx : c = v.c
    BY <1>1
  <2>2. CtxOK(c)
    BY <2>1 DEF ContextInv, CtxsOK
  <2>3. /\ Closed(c)' => err'[c] # Nil
        /\ timer[c] = "set" => c \in timed
        /\ timer[c] # "none" => c \in known
        /\ c \in known /\ c \notin removes' => err'[c] # Nil
    BY <2>2 DEF CtxOK
  <2>4. stack[Timer(c)] = <<>> => stack'[Timer(c)] = <<>>
    BY <1>8, ContextNames
  <2>5. /\ timer'[c] = "set" => timer[c] = "set" \/ c \notin known
        /\ timer'[c] # "none" => timer[c] # "none" \/ (c \in known' /\ c \in timed)
        /\ c \in known' /\ c \notin removes' => err'[c] # Nil
    <3>1. timer'[c] = "set" => timer[c] = "set" \/ c \notin known
      BY <2>1, <1>5
    <3>2. timer'[c] # "none" => timer[c] # "none" \/ (c \in known' /\ c \in timed)
      BY <2>1, <1>5
    <3>3. c \in known' /\ c \notin removes' => err'[c] # Nil
      <4>1. v.at = "timer" => c \in removes
        BY <2>1, <1>5
      <4>2. v.at # "timer" => err[c] # Nil
        BY <2>1, <1>5
      <4> QED
        BY <4>1, <4>2
    <3> QED
      BY <3>1, <3>2, <3>3
  <2>6. timer'[c] = "set" /\ err'[c] # Nil =>
            \/ Cancelling(c)'
            \/ timer[c] = "set" /\ err[c] # Nil /\ v.at \notin {"children", "remove", "stop"}
    BY <2>1, <2>3
  <2>7. c \in known' /\ c \in timed /\ err'[c] = Nil =>
            timer'[c] = "set" \/ (c \in known /\ timer'[c] = timer[c])
    BY <2>1, <1>5
  <2>8. Depth(g)' = 0 => err'[c] # Nil \/ g \in User
    BY <2>1, <1>5
  <2>9. p \in Ctx /\ err'[c] = Nil =>
           \/ Early(c)' \/ Joining(c)' \/ (err'[p] = Nil /\ c \in children'[p])
           \/ /\ v.at \notin EarlyPlaces /\ v.at # "cancel"
              /\ c \in children[p] /\ err[p] = Nil => c \in children'[p] /\ err'[p] = Nil
    <3>1. "timer" \notin CancelPlaces
      BY DEF CancelPlaces
    <3> QED
      BY <2>1, <3>1, <1>5
  <2>10. p = Foreign /\ err'[c] = Nil =>
            \/ Early(c)' \/ Joining(c)' \/ stack'[Watcher(c)] # <<>>
            \/ v.at \notin EarlyPlaces /\ v.at # "cancel"
    BY <2>1, <1>5
  <2>11. p \in Ctx /\ c \in children'[p] /\ err'[c] # Nil =>
            \/ err'[p] # Nil \/ Removing(c)'
            \/ /\ err[c] # Nil /\ c \in children[p] /\ err[p] = err'[p]
               /\ ~(v.remove /\ v.at \in {"children", "remove"})
    BY <2>1
  <2>12. err'[c] # Nil => children'[c] = {} \/ Locked(c)' \/ (err[c] # Nil /\ v.at # "children")
    BY <2>1
  <2>13. /\ children'[c] \subseteq children[c] /\ (err[c] # Nil => err'[c] # Nil)
         /\ known \subseteq known'
    OBVIOUS
  <2>14. p = parent[c]
    BY <2>1
  <2>15. CtxOK(c)'
    <3>1. Inner(g, d, v) /\ parent' = parent
      BY <1>4
    <3> QED
      BY <2>1, <2>3, <2>4, <2>5, <2>6, <2>7, <2>8, <2>9, <2>10, <2>11, <2>12, <2>13, <2>14, <3>1, OwnCtx
  <2> QED
    BY <2>1, <2>15
<1>11. CtxsOK'
  BY <1>9, <1>10 DEF CtxsOK
<1>12. StackOK'
  BY <1>4 DEF Inner
<1> QED
  BY <1>6, <1>7, <1>11, <1>12 DEF ContextInv

(* The two innermost calls of g cancel c, for its maker or for its parent. *)
LEMMA Joins ==
    ASSUME NEW g \in Goroutine, NEW d \in Nat, d > 0, NEW e, e = d + 1, NEW c, NEW q, q = parent'[c],
           Depth(g)' = e, CallAt(g, e)'.at = "cancel", CallAt(g, e)'.c = c,
           \/ CallAt(g, d)'.c = c /\ CallAt(g, d)'.at \in WithPlaces
           \/ CallAt(g, d)'.c = q /\ CallAt(g, d)'.at = "children"
    PROVE  Joining(c)'
<1>1. PICK r : r = stack'[g]
  OBVIOUS
<1>2. Len(r) = e
  BY <1>1 DEF Depth
<1>3. /\ r[1].at = "cancel" /\ r[1].c = c
      /\ \/ r[2].c = c /\ r[2].at \in WithPlaces
         \/ r[2].c = q /\ r[2].at = "children"
  <2>1. Len(r) + 1 - e = 1 /\ Len(r) + 1 - d = 2
    BY <1>2
  <2> QED
    BY <1>1, <2>1 DEF CallAt
<1>4. /\ Len(r) > 1 /\ Len(r) + 1 - Len(r) = 1 /\ Len(r) + 1 - (Len(r) - 1) = 2
  BY <1>2
<1> QED
  BY <1>1, <1>3, <1>4 DEF Joining, Depth, CallAt

(* The maker of a context cancels it. *)
LEMMA EnterInv ==
    ASSUME ContextInv, NEW g \in Goroutine, stack[g] # <<>>, NEW v, v = Top(g), NEW d, d = Depth(g),
           NEW p, p = parent[v.c], NEW f \in Calls,
           f.at = "cancel", f.c = v.c, f.todo = {}, f.err # Nil,
           f.remove \/ p \notin Ctx \/ err[p] # Nil,
           NEW there, Enter(g, f, there), ContextTypeOK',
           UNCHANGED <<parent, known, done, children, err, timer>>,
           \/ v.at = "err" /\ there = "timer" /\ mu' = mu /\ removes' = removes
           \/ /\ v.at = "attach" /\ there = "attached" /\ p \in Ctx /\ mu[p] = Nil
              /\ mu' = [mu EXCEPT ![p] = g] /\ removes' = removes
           \/ v.at = "timer" /\ there = "late" /\ mu' = mu /\ removes' = removes \ {v.c}
    PROVE  ContextInv'
<1>1. /\ d \in Nat /\ d > 0 /\ d \in 1..Depth(g) /\ v = CallAt(g, d)
      /\ v \in Calls /\ v.c \in Ctx
  BY TopFacts
<1>2. v.at \in WithPlaces /\ v.at \notin CancelPlaces /\ there \in WithPlaces /\ there \notin EarlyPlaces
      /\ "cancel" \in CancelPlaces /\ "cancel" \notin WithPlaces /\ "cancel" \notin WatchPlaces
      /\ "cancel" \notin EarlyPlaces /\ there \notin CancelPlaces /\ there \notin WatchPlaces
  BY DEF WithPlaces, EarlyPlaces, CancelPlaces, WatchPlaces
<1>3. d = 1 /\ g \in User /\ v.c \notin known
  BY <1>2, TopFacts
<1>4. /\ p # Nil
      /\ v.c \in removes
      /\ \A c \in v.todo : parent[c] = v.c
  <2>1. v.at # "late"
    OBVIOUS
  <2> QED
    BY <1>2, <2>1, TopCall
<1>5. removes' \subseteq Ctx
  BY ContextTypes
<1>6. PICK e : e = d + 1
  OBVIOUS
<1>7. /\ Inner(g, d, v) /\ Depth(g)' = e /\ CallAt(g, e)' = f
      /\ \A h \in Goroutine \ {g} : stack'[h] = stack[h]
      /\ \A h \in Goroutine : \A k \in 1..Depth(h)' :
            \/ k \in 1..Depth(h) /\ Kept(h, k) /\ (h # g \/ k # d)
            \/ h = g /\ (k = d \/ k = e)
      /\ \E x \in Calls : /\ x = CallAt(g, d)' /\ x.at = there /\ x.c = v.c /\ x.remove = v.remove
                          /\ x.err = v.err /\ x.todo = v.todo
  <2>1. there \in WithPlaces \union CancelPlaces \union WatchPlaces
    BY <1>2
  <2> QED
    BY <2>1, <1>5, <1>6, EnterInner
<1>8. PICK x \in Calls : /\ x = CallAt(g, d)' /\ x.at = there /\ x.c = v.c /\ x.remove = v.remove
                         /\ x.err = v.err /\ x.todo = v.todo
  BY <1>7
<1>9. /\ \A c \in Ctx : Timer(c) # g /\ Watcher(c) # g
  BY <1>3, ContextNames
<1>10. \A c \in Ctx : /\ Holds(x, c)' => c = p /\ there = "attached" /\ mu[c] = Nil /\ mu'[c] = g
                      /\ ~Holds(f, c)'
  <2>1. mu \in [Ctx -> Goroutine \union {Nil}]
    BY ContextTypes
  <2> QED
    BY <1>8, <2>1 DEF Holds
<1>11. CallOK(g, d)'
  <2>1. CallAt(g, 2)'.at = "cancel" /\ CallAt(g, 2)'.c = x.c /\ Depth(g)' = 2
    <3>1. e = 2
      BY <1>3, <1>6
    <3> QED
      BY <3>1, <1>7, <1>8
  <2>2. /\ x.at \in {"children", "timer", "attached", "late"} /\ ~(d > 1)
        /\ p # Nil /\ parent'[x.c] = p
        /\ g \in User /\ x.c \notin known' /\ (x.at # "late" => x.c \in removes')
        /\ x.at \notin EarlyPlaces /\ x.at \notin CancelPlaces /\ x.at \notin WatchPlaces
        /\ x.at \in {"attach", "attached"} => p \in Ctx
        /\ x.at \notin {"err", "children", "remove", "stop", "cancel"}
        /\ \A c \in x.todo : parent'[c] = x.c
    BY <1>2, <1>3, <1>4, <1>8
  <2>3. \A c \in Ctx : Holds(x, c)' => mu'[c] = g
    BY <1>10
  <2> QED
    BY <2>1, <2>2, <2>3, <1>8, <1>9 DEF CallOK
<1>12. CallOK(g, e)'
  <2>1. ~(e < Depth(g)') /\ e # 1
    BY <1>3, <1>6, <1>7
  <2>2. \A c \in f.todo : parent'[c] = f.c
    OBVIOUS
  <2>3. f.at \in CancelPlaces /\ f.at \notin WithPlaces /\ f.at \notin EarlyPlaces /\ f.at \notin WatchPlaces
    BY <1>2
  <2>4. parent'[f.c] = p /\ err' = err
    OBVIOUS
  <2> QED
    BY <2>1, <2>2, <2>3, <2>4, <1>4, <1>7, <1>10 DEF CallOK
<1>13. CallsOK'
  <2> SUFFICES ASSUME NEW h \in Goroutine, NEW k \in 1..Depth(h)' PROVE CallOK(h, k)'
    BY DEF CallsOK
  <2>1. CASE h = g /\ (k = d \/ k = e)
    BY <2>1, <1>11, <1>12
  <2>2. CASE ~(h = g /\ (k = d \/ k = e))
    <3>1. k \in 1..Depth(h) /\ (h # g \/ k # d)
      BY <2>2, <1>7
    <3>2. /\ v.at = "cancel" => err'[v.c] # Nil
          /\ \A b, c \in Ctx : \/ c \in children'[b] => c \in children[b]
                               \/ c = v.c /\ v.at \in WithPlaces
          /\ \A c \in Ctx : \/ err'[c] = err[c]
                            \/ c = v.c /\ v.at = "cancel" /\ err[c] = Nil
          /\ known' = known
          /\ removes' = removes \/ (v.at \in WithPlaces /\ removes' = removes \ {v.c})
      BY <1>2
    <3>3. \A c \in Ctx : mu'[c] = mu[c] \/ mu[c] = Nil \/ Holds(v, c)
      <4>1. mu \in [Ctx -> Goroutine \union {Nil}]
        BY ContextTypes
      <4> QED
        BY <4>1
    <3> QED
      BY <3>1, <3>2, <3>3, <1>7, CallLasts
  <2> QED
    BY <2>1, <2>2
<1>14. ~Early(v.c)'
  <2>1. \A h \in Goroutine : \A k \in 1..Depth(h)' :
            CallAt(h, k)'.at \in EarlyPlaces => Kept(h, k) /\ (h # g \/ k # d)
    BY <1>2, <1>7, <1>8
  <2>2. v.c = CallAt(g, d).c /\ CallAt(g, d).at \in WithPlaces
    BY <1>1, <1>2
  <2> QED
    BY <2>1, <2>2, <1>1, Attaches
<1>15. PairsOK'
  <2>1. Milder(g, d)
    <3>1. \A c \in Ctx : Holds(CallAt(g, d), c)' => mu[c] = Nil
      BY <1>8, <1>10 DEF Holds
    <3> QED
      BY <3>1, <1>1, <1>2, <1>8 DEF Milder
  <2>2. Harmless(g, e)'
    BY <1>7, <1>2, <1>14 DEF Harmless
  <2>3. \A h \in Goroutine : \A k \in 1..Depth(h)' :
            Kept(h, k) \/ Harmless(h, k)' \/ (h = g /\ k = d /\ Milder(g, d))
    BY <2>1, <2>2, <1>7
  <2> QED
    BY <2>3, PairsLast
<1>16. stack'[g] # <<>> /\ \A h \in Goroutine : stack[h] = <<>> => stack'[h] = <<>>
  <2>1. Depth(g)' # 0
    BY <1>1, <1>6, <1>7
  <2> QED
    BY <1>7, <2>1 DEF Depth
<1>17. ASSUME NEW c \in Ctx, c # v.c PROVE CtxOK(c)'
  <2>1. PICK q : q = parent[c]
    OBVIOUS
  <2>2. stack[Timer(c)] = <<>> => stack'[Timer(c)] = <<>>
    BY <1>16, ContextNames
  <2>3. ~(v.at = "children" /\ c \in v.todo)
    OBVIOUS
  <2>4. children'[c] \subseteq children[c] /\ (Closed(c)' => Closed(c))
    BY DEF Closed
  <2>5. \A b \in Ctx : err[b] # Nil => err'[b] # Nil
    OBVIOUS
  <2>6. (c \in known' <=> c \in known) /\ (c \in removes' <=> c \in removes)
    BY <1>17
  <2> QED
    BY <2>1, <2>2, <2>3, <2>4, <2>5, <2>6, <1>17, <1>7, OtherCtx
<1>18. CtxOK(v.c)'
  <2>1. PICK c \in Ctx : c = v.c
    BY <1>1
  <2>2. CtxOK(c)
    BY <2>1 DEF ContextInv, CtxsOK
  <2>3. /\ Closed(c)' => err'[c] # Nil
        /\ c \in known' /\ c \notin removes' => err'[c] # Nil
        /\ children'[c] \subseteq children[c]
        /\ timer'[c] # "none" => timer[c] # "none" \/ (c \in known' /\ c \in timed)
    BY <2>1, <2>2, <1>3 DEF CtxOK, Closed
  <2>4. stack[Timer(c)] = <<>> => stack'[Timer(c)] = <<>>
    BY <1>16, ContextNames
  <2>5. Joining(c)'
    <3>1. CallAt(g, d)'.c = c /\ CallAt(g, d)'.at \in WithPlaces
      BY <1>2, <1>8, <2>1
    <3>2. CallAt(g, e)'.at = "cancel" /\ CallAt(g, e)'.c = c
      BY <1>7, <2>1
    <3> QED
      BY <3>1, <3>2, <1>1, <1>6, <1>7, Joins
  <2>6. /\ timer'[c] = "set" => timer[c] = "set" \/ c \notin known
        /\ timer'[c] = "set" /\ err'[c] # Nil =>
              \/ Cancelling(c)'
              \/ timer[c] = "set" /\ err[c] # Nil /\ v.at \notin {"children", "remove", "stop"}
        /\ c \in known' /\ c \in timed /\ err'[c] = Nil =>
              timer'[c] = "set" \/ (c \in known /\ timer'[c] = timer[c])
        /\ Depth(g)' = 0 => err'[c] # Nil \/ g \in User
    BY <1>3
  <2>7. p \in Ctx /\ c \in children'[p] /\ err'[c] # Nil =>
            \/ err'[p] # Nil \/ Removing(c)'
            \/ /\ err[c] # Nil /\ c \in children[p] /\ err[p] = err'[p]
               /\ ~(v.remove /\ v.at \in {"children", "remove"})
    OBVIOUS
  <2>8. err'[c] # Nil => children'[c] = {} \/ Locked(c)' \/ (err[c] # Nil /\ v.at # "children")
    OBVIOUS
  <2>9. p = parent[c] /\ known \subseteq known' /\ (err[c] # Nil => err'[c] # Nil)
    BY <2>1
  <2>10. CtxOK(c)'
    <3>1. Inner(g, d, v) /\ parent' = parent
      BY <1>7
    <3> QED
      BY <2>1, <2>3, <2>4, <2>5, <2>6, <2>7, <2>8, <2>9, <3>1, OwnCtx
  <2> QED
    BY <2>1, <2>10
<1>19. CtxsOK'
  BY <1>17, <1>18 DEF CtxsOK
<1>20. StackOK'
  BY <1>7 DEF Inner
<1> QED
  BY <1>13, <1>15, <1>19, <1>20 DEF ContextInv

-----------------------------------------------------------------------------
(* A call of a goroutine whose stack is the same. *)
LEMMA SameCall ==
    ASSUME StackOK, NEW h \in Goroutine, stack'[h] = stack[h], NEW k \in 1..Depth(h), CallOK(h, k),
           UNCHANGED <<known, mu, children, err>>, removes \subseteq removes',
           \A c : parent[c] # Nil => parent'[c] = parent[c],
           \A c \in Ctx : parent[c] \in Ctx => parent'[c] = parent[c]
    PROVE  CallOK(h, k)' /\ k \in 1..Depth(h)' /\ Kept(h, k)
<1>a. PICK f : f = CallAt(h, k)
  OBVIOUS
<1>b. PICK p : p = parent[f.c]
  OBVIOUS
<1>1. Depth(h)' = Depth(h) /\ Kept(h, k)
  BY SameStack
<1>2. CallAt(h, k)' = f /\ (Depth(h) = 2 => CallAt(h, 2)' = CallAt(h, 2))
  BY <1>a DEF CallAt
<1>3. f \in Calls /\ f.c \in Ctx /\ f.todo \subseteq Ctx
  BY <1>a, StackTop DEF Calls
<1>4. p # Nil
  BY <1>a, <1>b DEF CallOK
<1>5. parent'[f.c] = p
  BY <1>b, <1>4
<1>6. \A c \in f.todo : parent'[c] = f.c
  <2>1. \A c \in f.todo : parent[c] = f.c
    BY <1>a, <1>b DEF CallOK
  <2> QED
    BY <2>1, <1>3
<1>7. \A c \in Ctx : Holds(f, c)' => mu'[c] = h
  <2>1. \A c \in Ctx : Holds(f, c) => mu[c] = h
    BY <1>a, <1>b DEF CallOK
  <2>2. \A c \in Ctx : Holds(f, c)' => Holds(f, c)
    BY <1>b, <1>5 DEF Holds
  <2> QED
    BY <2>1, <2>2
<1>8. /\ k < Depth(h)' => f.at \in {"children", "timer", "attached", "late"}
      /\ k > 1 => f.at \in CancelPlaces
      /\ f.at \in WithPlaces => h \in User /\ f.c \notin known' /\ (f.at # "late" => f.c \in removes')
      /\ f.at \in EarlyPlaces => err'[f.c] = Nil /\ \A b \in Ctx : f.c \notin children'[b]
      /\ f.at \in {"attach", "attached"} => p \in Ctx
      /\ f.at = "err" /\ p \in Ctx => err'[p] # Nil
      /\ f.at = "late" => \/ err'[f.c] # Nil
                          \/ Depth(h)' = 2 /\ CallAt(h, 2)'.at = "cancel" /\ CallAt(h, 2)'.c = f.c
      /\ f.at \in CancelPlaces => f.err # Nil
      /\ f.at \in {"children", "remove", "stop"} => err'[f.c] # Nil
      /\ f.at = "cancel" /\ ~f.remove => err'[f.c] # Nil \/ p \notin Ctx \/ err'[p] # Nil
      /\ f.at \in WatchPlaces => p = Foreign
      /\ \A c \in Ctx : k = 1 /\ h = Timer(c) => f.c = c /\ f.at \in CancelPlaces
      /\ \A c \in Ctx : k = 1 /\ h = Watcher(c) => f.c = c /\ p = Foreign
  BY <1>a, <1>b, <1>1, <1>2 DEF CallOK
<1>9. CallOK(h, k)'
  BY <1>2, <1>4, <1>5, <1>6, <1>7, <1>8 DEF CallOK
<1> QED
  BY <1>1, <1>9

(* When calls only begin, what others do is still done. *)
LEMMA StillHere ==
    ASSUME StackOK, \A h \in Goroutine : stack[h] # <<>> => stack'[h] = stack[h],
           NEW c, parent'[c] = parent[c]
    PROVE  /\ Early(c) => Early(c)'
           /\ Cancelling(c) => Cancelling(c)'
           /\ Removing(c) => Removing(c)'
           /\ Locked(c) => Locked(c)'
           /\ Awaits(c) => Awaits(c)'
           /\ Joining(c) => Joining(c)'
<1>1. ASSUME NEW h \in Goroutine, NEW k \in 1..Depth(h)
      PROVE  k \in 1..Depth(h)' /\ CallAt(h, k)' = CallAt(h, k)
  <2>1. stack[h] # <<>>
    BY StackTop
  <2> QED
    BY <2>1, SameStack DEF Kept
<1>2. Early(c) => Early(c)'
  BY <1>1 DEF Early
<1>3. Cancelling(c) => Cancelling(c)'
  BY <1>1 DEF Cancelling
<1>4. Removing(c) => Removing(c)'
  BY <1>1 DEF Removing
<1>5. Locked(c) => Locked(c)'
  BY <1>1 DEF Locked
<1>6. Awaits(c) => Awaits(c)'
  BY <1>1 DEF Awaits
<1>7. Joining(c) => Joining(c)'
  <2>1. SUFFICES ASSUME Joining(c) PROVE Joining(c)'
    OBVIOUS
  <2>2. PICK h \in Goroutine :
            /\ Depth(h) > 1 /\ CallAt(h, Depth(h)).at = "cancel" /\ CallAt(h, Depth(h)).c = c
            /\ \/ CallAt(h, Depth(h) - 1).c = c /\ CallAt(h, Depth(h) - 1).at \in WithPlaces
               \/ CallAt(h, Depth(h) - 1).c = parent[c] /\ CallAt(h, Depth(h) - 1).at = "children"
    BY <2>1 DEF Joining
  <2>3. stack'[h] = stack[h] /\ Depth(h) \in Nat
    BY <2>2, StackTop
  <2>4. PICK n : n = Depth(h)
    OBVIOUS
  <2>5. /\ Depth(h)' = n /\ CallAt(h, n)' = CallAt(h, n)
        /\ CallAt(h, n - 1)' = CallAt(h, n - 1)
    BY <2>3, <2>4 DEF Depth, CallAt
  <2> QED
    BY <2>2, <2>3, <2>4, <2>5 DEF Joining
<1> QED
  BY <1>2, <1>3, <1>4, <1>5, <1>6, <1>7

(* A context that a call only begins on. *)
LEMMA SameCtx ==
    ASSUME ContextInv, NEW c \in Ctx, NEW p, p = parent[c], parent'[c] = p,
           \A h \in Goroutine : stack[h] # <<>> => stack'[h] = stack[h],
           UNCHANGED <<known, err, children>>, Closed(c)' => Closed(c),
           removes \subseteq removes',
           \A b \in Ctx : parent[b] = c => parent'[b] = c,
           \/ timer'[c] = timer[c] /\ (stack[Timer(c)] = <<>> => stack'[Timer(c)] = <<>>)
           \/ timer'[c] = "fired" /\ timer[c] = "set" /\ stack'[Timer(c)] # <<>>
    PROVE  CtxOK(c)'
<1>1. CtxOK(c) /\ StackOK
  BY DEF ContextInv, CtxsOK
<1>2. /\ Early(c) => Early(c)'
      /\ Cancelling(c) => Cancelling(c)'
      /\ Removing(c) => Removing(c)'
      /\ Locked(c) => Locked(c)'
      /\ Awaits(c) => Awaits(c)'
      /\ Joining(c) => Joining(c)'
  BY <1>1, StillHere
<1>3. /\ stack[Timer(c)] # <<>> => stack'[Timer(c)] # <<>>
      /\ stack[Watcher(c)] # <<>> => stack'[Watcher(c)] # <<>>
  <2>1. Timer(c) \in Goroutine /\ Watcher(c) \in Goroutine
    BY ContextNames
  <2> QED
    BY <2>1
<1>4. children[c] \subseteq Ctx
  BY ContextTypes
<1>5. /\ Closed(c)' => err'[c] # Nil
      /\ p = Nil => err'[c] = Nil /\ c \notin known'
      /\ c \in known' /\ c \notin removes' => err'[c] # Nil
      /\ \A b \in children'[c] : parent'[b] = c
      /\ timer'[c] # "none" => c \in known' /\ c \in timed
  BY <1>1, <1>4 DEF CtxOK
<1>6. /\ timer'[c] = "set" => stack'[Timer(c)] = <<>>
      /\ stack'[Timer(c)] # <<>> => c \in known'
      /\ timer'[c] = "set" /\ err'[c] # Nil => Cancelling(c)'
      /\ c \in known' /\ c \in timed /\ err'[c] = Nil => timer'[c] = "set" \/ stack'[Timer(c)] # <<>>
  BY <1>1, <1>2, <1>3 DEF CtxOK
<1>7. p \in Ctx /\ err'[c] = Nil =>
         \/ Early(c)' \/ Joining(c)' \/ Awaits(c)'
         \/ err'[p] = Nil /\ c \in children'[p]
  BY <1>1, <1>2 DEF CtxOK
<1>8. p = Foreign /\ err'[c] = Nil => Early(c)' \/ Joining(c)' \/ stack'[Watcher(c)] # <<>>
  BY <1>1, <1>2, <1>3 DEF CtxOK
<1>9. /\ p \in Ctx /\ c \in children'[p] /\ err'[c] # Nil => err'[p] # Nil \/ Removing(c)'
      /\ err'[c] # Nil => children'[c] = {} \/ Locked(c)'
  BY <1>1, <1>2 DEF CtxOK
<1> QED
  BY <1>5, <1>6, <1>7, <1>8, <1>9 DEF CtxOK

(* A channel is made, or that of Foreign is closed. *)
LEMMA DoneInv ==
    ASSUME ContextInv, ContextTypeOK',
           UNCHANGED <<parent, known, mu, children, err, timer, removes, stack>>,
           \A c \in Ctx : Closed(c)' => Closed(c)
    PROVE  ContextInv'
<1>1. StackOK /\ StackOK'
  BY DEF ContextInv, StackOK
<1>2. CallsOK'
  <2> SUFFICES ASSUME NEW h \in Goroutine, NEW k \in 1..Depth(h)' PROVE CallOK(h, k)'
    BY DEF CallsOK
  <2>1. k \in 1..Depth(h) /\ stack'[h] = stack[h]
    BY DEF Depth
  <2>2. CallOK(h, k)
    BY <2>1 DEF ContextInv, CallsOK
  <2> QED
    BY <1>1, <2>1, <2>2, SameCall
<1>3. PairsOK'
  <2>1. \A h \in Goroutine : \A k \in 1..Depth(h)' : Kept(h, k)
    BY DEF Kept, Depth, CallAt
  <2>2. PICK g : \A h \in Goroutine : \A k \in 1..Depth(h)' :
            Kept(h, k) \/ Harmless(h, k)' \/ (h = g /\ k = 1 /\ Milder(g, 1))
    BY <2>1
  <2> QED
    BY <2>1, PairsLast DEF PairsOK, Kept
<1>4. CtxsOK'
  <2> SUFFICES ASSUME NEW c \in Ctx PROVE CtxOK(c)'
    BY DEF CtxsOK
  <2> QED
    BY SameCtx
<1> QED
  BY <1>1, <1>2, <1>3, <1>4 DEF ContextInv

(* Somebody cancels a known context. *)
LEMMA StartInv ==
    ASSUME ContextInv, ContextTypeOK', NEW g \in Goroutine, stack[g] = <<>>, NEW f \in Calls,
           stack' = [stack EXCEPT ![g] = <<f>>],
           f.at = "cancel", f.c \in known, f.todo = {}, f.err # Nil,
           f.remove \/ f.c \notin removes,
           UNCHANGED <<parent, known, mu, done, children, err, removes>>,
           \/ g \in User /\ timer' = timer
           \/ g = Timer(f.c) /\ timer[f.c] = "set" /\ timer' = [timer EXCEPT ![f.c] = "fired"]
    PROVE  ContextInv'
<1>1. StackOK /\ f.c \in Ctx /\ CtxOK(f.c) /\ parent[f.c] # Nil
  <2>1. StackOK /\ f.c \in Ctx
    BY ContextTypes
  <2>2. CtxOK(f.c)
    BY <2>1 DEF ContextInv, CtxsOK
  <2> QED
    BY <2>1, <2>2 DEF CtxOK
<1>2. /\ stack' \in [Goroutine -> Seq(Calls)]
      /\ Depth(g)' = 1 /\ CallAt(g, 1)' = f /\ stack'[g] # <<>>
      /\ \A h \in Goroutine \ {g} : /\ stack'[h] = stack[h] /\ Depth(h)' = Depth(h)
                                    /\ \A k \in 1..Depth(h) : Kept(h, k)
  BY <1>1, StackStart
<1>3. StackOK'
  BY <1>1, <1>2 DEF StackOK
<1>4. /\ "cancel" \in CancelPlaces /\ "cancel" \notin WithPlaces
      /\ "cancel" \notin EarlyPlaces /\ "cancel" \notin WatchPlaces
  BY DEF CancelPlaces, WithPlaces, EarlyPlaces, WatchPlaces
<1>5. \A c \in Ctx : /\ g = Timer(c) => f.c = c
                     /\ g # Watcher(c)
  BY <1>1, ContextNames
<1>6. CallOK(g, 1)'
  <2>1. f.remove \/ err[f.c] # Nil
    BY <1>1 DEF CtxOK
  <2>2. \A c \in Ctx : ~Holds(f, c)'
    BY DEF Holds
  <2> QED
    BY <1>1, <1>2, <1>4, <1>5, <2>1, <2>2 DEF CallOK
<1>7. CallsOK'
  <2> SUFFICES ASSUME NEW h \in Goroutine, NEW k \in 1..Depth(h)' PROVE CallOK(h, k)'
    BY DEF CallsOK
  <2>1. CASE h = g
    <3>1. k = 1
      BY <1>2, <2>1
    <3> QED
      BY <1>6, <2>1, <3>1
  <2>2. CASE h # g
    <3>1. k \in 1..Depth(h) /\ stack'[h] = stack[h]
      BY <1>2, <2>2
    <3>2. CallOK(h, k)
      BY <3>1 DEF ContextInv, CallsOK
    <3> QED
      BY <1>1, <3>1, <3>2, SameCall
  <2> QED
    BY <2>1, <2>2
<1>8. PairsOK'
  <2>1. ~Early(f.c)'
    <3>1. \A h \in Goroutine : \A k \in 1..Depth(h)' :
              CallAt(h, k)'.at \in EarlyPlaces => Kept(h, k) /\ (h # g \/ k # 1)
      BY <1>2, <1>4
    <3> QED
      BY <3>1, Attaches
  <2>2. Harmless(g, 1)'
    BY <1>2, <1>4, <2>1 DEF Harmless
  <2>3. \A h \in Goroutine : \A k \in 1..Depth(h)' :
            Kept(h, k) \/ Harmless(h, k)' \/ (h = g /\ k = 1 /\ Milder(g, 1))
    BY <1>2, <2>2
  <2> QED
    BY <2>3, PairsLast
<1>9. CtxsOK'
  <2> SUFFICES ASSUME NEW c \in Ctx PROVE CtxOK(c)'
    BY DEF CtxsOK
  <2>1. \A h \in Goroutine : stack[h] # <<>> => stack'[h] = stack[h]
    BY <1>2
  <2>2. \/ timer'[c] = timer[c] /\ (stack[Timer(c)] = <<>> => stack'[Timer(c)] = <<>>)
        \/ timer'[c] = "fired" /\ timer[c] = "set" /\ stack'[Timer(c)] # <<>>
    <3>1. timer \in [Ctx -> {"none", "set", "fired"}]
      BY ContextTypes
    <3>2. Timer(c) \in Goroutine /\ Timer(c) \notin User /\ (Timer(c) = Timer(f.c) => c = f.c)
      BY ContextNames
    <3> QED
      BY <1>1, <1>2, <3>1, <3>2
  <2>3. Closed(c)' => Closed(c)
    BY DEF Closed
  <2> QED
    BY <2>1, <2>2, <2>3, SameCtx
<1> QED
  BY <1>3, <1>7, <1>8, <1>9 DEF ContextInv

-----------------------------------------------------------------------------
(* The actions that are none of these. *)

(* A context is made. *)
LEMMA WithInv ==
    ASSUME ContextInv, ContextTypeOK', NEW u \in User, NEW c \in Ctx,
           NEW p \in Ctx \union {Background, Foreign}, With(u, c, p)
    PROVE  ContextInv'
<1>1. /\ stack[u] = <<>> /\ parent[c] = Nil /\ u \in Goroutine
      /\ parent' = [parent EXCEPT ![c] = p] /\ removes' = removes \union {c}
      /\ UNCHANGED <<known, mu, done, children, err, timer>>
  BY ContextNames DEF With
<1>2. PICK f : f = Frame("propagate", c)
  OBVIOUS
<1>3. /\ f \in Calls /\ f.at = "propagate" /\ f.c = c /\ f.todo = {}
      /\ stack' = [stack EXCEPT ![u] = <<f>>]
  BY <1>2 DEF With, Frame, Calls, WithPlaces, EarlyPlaces
<1>4. /\ StackOK /\ parent \in [Ctx -> Ctx \union {Background, Foreign, Nil}]
      /\ parent'[c] = p /\ \A b \in Ctx \ {c} : parent'[b] = parent[b]
      /\ p # Nil /\ removes \subseteq removes' /\ removes' \subseteq Ctx
  BY <1>1, ContextTypes, ContextNames
<1>5. /\ stack' \in [Goroutine -> Seq(Calls)]
      /\ Depth(u)' = 1 /\ CallAt(u, 1)' = f /\ stack'[u] # <<>>
      /\ \A h \in Goroutine \ {u} : /\ stack'[h] = stack[h] /\ Depth(h)' = Depth(h)
                                    /\ \A k \in 1..Depth(h) : Kept(h, k)
  BY <1>1, <1>3, <1>4, StackStart
<1>6. StackOK'
  BY <1>4, <1>5 DEF StackOK
<1>7. CtxOK(c) /\ err[c] = Nil /\ c \notin known /\ \A b \in Ctx : c \notin children[b]
  <2>1. CtxOK(c)
    BY DEF ContextInv, CtxsOK
  <2>2. err[c] = Nil /\ c \notin known
    BY <2>1, <1>1 DEF CtxOK
  <2>3. ASSUME NEW b \in Ctx, c \in children[b] PROVE FALSE
    <3>1. CtxOK(b)
      BY DEF ContextInv, CtxsOK
    <3>2. parent[c] = b
      BY <2>3, <3>1 DEF CtxOK
    <3> QED
      BY <1>1, <3>2, ContextNames
  <2> QED
    BY <2>1, <2>2, <2>3
<1>8. ASSUME NEW h \in Goroutine, NEW k \in 1..Depth(h), NEW e, e = CallAt(h, k)
      PROVE  /\ CallOK(h, k) /\ e \in Calls /\ e.c \in Ctx /\ e.c # c /\ c \notin e.todo
             /\ \A b : Holds(e, b)' <=> Holds(e, b)
  <2>1. CallOK(h, k) /\ e \in Calls /\ e.c \in Ctx
    BY <1>4, <1>8, StackTop DEF ContextInv, CallsOK, Calls
  <2>2. e.c # c
    BY <1>1, <1>8, <2>1 DEF CallOK
  <2>3. c \notin e.todo
    <3>1. \A b \in e.todo : parent[b] = e.c
      BY <1>8, <2>1 DEF CallOK
    <3> QED
      BY <3>1, <1>1, <2>1, ContextNames
  <2> QED
    BY <1>4, <2>1, <2>2, <2>3 DEF Holds
<1>9. CallOK(u, 1)'
  <2>1. f.at \notin CancelPlaces /\ f.at \notin WatchPlaces /\ f.at \in EarlyPlaces
    BY <1>3 DEF CancelPlaces, WatchPlaces, EarlyPlaces
  <2>2. \A b \in Ctx : ~Holds(f, b)'
    BY <1>3 DEF Holds
  <2>3. parent'[f.c] = p /\ f.c \notin known' /\ f.c \in removes'
        /\ err'[f.c] = Nil /\ \A b \in Ctx : f.c \notin children'[b]
    BY <1>1, <1>3, <1>4, <1>7
  <2>4. \A b \in Ctx : Timer(b) # u /\ Watcher(b) # u
    BY ContextNames
  <2> QED
    BY <1>3, <1>4, <1>5, <2>1, <2>2, <2>3, <2>4 DEF CallOK
<1>10. CallsOK'
  <2> SUFFICES ASSUME NEW h \in Goroutine, NEW k \in 1..Depth(h)' PROVE CallOK(h, k)'
    BY DEF CallsOK
  <2>1. CASE h = u
    <3>1. k = 1
      BY <1>5, <2>1
    <3> QED
      BY <1>9, <2>1, <3>1
  <2>2. CASE h # u
    <3>1. k \in 1..Depth(h) /\ stack'[h] = stack[h] /\ CallOK(h, k)
      BY <1>5, <1>8, <2>2
    <3>2. /\ \A b : parent[b] # Nil => parent'[b] = parent[b]
          /\ \A b \in Ctx : parent[b] \in Ctx => parent'[b] = parent[b]
      BY <1>1, ContextNames
    <3> QED
      BY <1>1, <1>4, <3>1, <3>2, SameCall
  <2> QED
    BY <2>1, <2>2
<1>11. PairsOK'
  <2> SUFFICES ASSUME NEW h \in Goroutine, NEW i \in Goroutine,
                      NEW k \in 1..Depth(h)', NEW l \in 1..Depth(i)', h # i \/ k # l
               PROVE  PairOK(CallAt(h, k), CallAt(i, l))'
    BY DEF PairsOK
  <2>a. PICK x : x = CallAt(h, k)'
    OBVIOUS
  <2>b. PICK y : y = CallAt(i, l)'
    OBVIOUS
  <2>1. /\ h # u => k \in 1..Depth(h) /\ x = CallAt(h, k)
        /\ i # u => l \in 1..Depth(i) /\ y = CallAt(i, l)
        /\ h = u => x = f /\ k = 1
        /\ i = u => y = f /\ l = 1
    BY <2>a, <2>b, <1>5 DEF Kept
  <2>2. \A b \in Ctx : ~Holds(f, b)'
    BY <1>3 DEF Holds
  <2>3. PairOK(x, y)'
    <3>1. CASE h # u /\ i # u
      <4>1. PairOK(x, y)
        BY <2>1, <3>1 DEF ContextInv, PairsOK
      <4>2. \A b \in Ctx : (Holds(x, b)' <=> Holds(x, b)) /\ (Holds(y, b)' <=> Holds(y, b))
        BY <2>1, <3>1, <1>8
      <4> QED
        BY <4>1, <4>2 DEF PairOK
    <3>2. CASE h = u
      <4>1. i # u
        BY <2>1, <3>2
      <4>2. y.c # c /\ c \notin y.todo
        BY <2>1, <4>1, <1>8
      <4> QED
        BY <2>1, <2>2, <3>2, <4>2, <1>3 DEF PairOK
    <3>3. CASE i = u
      <4>1. h # u
        BY <2>1, <3>3
      <4>2. x.c # c /\ c \notin x.todo
        BY <2>1, <4>1, <1>8
      <4> QED
        BY <2>1, <2>2, <3>3, <4>2, <1>3 DEF PairOK
    <3> QED
      BY <3>1, <3>2, <3>3
  <2> QED
    BY <2>3, <2>a, <2>b DEF PairOK, Holds
<1>12. \A h \in Goroutine : stack[h] # <<>> => stack'[h] = stack[h]
  BY <1>1, <1>5
<1>13. ASSUME NEW b \in Ctx
       PROVE  (stack[Timer(b)] = <<>> => stack'[Timer(b)] = <<>>) /\ (Closed(b)' => Closed(b))
  <2>1. Timer(b) \in Goroutine /\ Timer(b) # u
    BY ContextNames
  <2> QED
    BY <1>1, <1>5, <2>1 DEF Closed
<1>14. ASSUME NEW b \in Ctx, b # c PROVE CtxOK(b)'
  <2>1. /\ parent'[b] = parent[b]
        /\ \A a \in Ctx : parent[a] = b => parent'[a] = b
    BY <1>1, <1>4, <1>14, ContextNames
  <2> QED
    BY <1>1, <1>4, <1>12, <1>13, <2>1, SameCtx
<1>15. CtxOK(c)'
  <2>1. Early(c)'
    <3>1. f.at \in EarlyPlaces /\ 1 \in 1..Depth(u)'
      BY <1>3, <1>5 DEF EarlyPlaces
    <3> QED
      BY <1>1, <1>3, <1>5, <3>1 DEF Early
  <2>2. /\ Closed(c)' => err'[c] # Nil
        /\ timer'[c] # "none" => c \in known' /\ c \in timed
        /\ timer'[c] = "set" => stack'[Timer(c)] = <<>>
        /\ stack'[Timer(c)] # <<>> => c \in known'
        /\ \A b \in children'[c] : parent'[b] = c
    <3>1. \A b \in children[c] : parent[b] = c /\ b \in Ctx
      BY <1>7, ContextTypes DEF CtxOK
    <3>2. \A b \in children[c] : parent'[b] = c
      BY <3>1, <1>1, <1>4, ContextNames
    <3> QED
      BY <1>1, <1>7, <1>13, <3>2 DEF CtxOK
  <2>3. err'[c] = Nil /\ c \notin known' /\ parent'[c] = p /\ p # Nil
    BY <1>1, <1>4, <1>7
  <2> QED
    BY <2>1, <2>2, <2>3 DEF CtxOK
<1>16. CtxsOK'
  BY <1>14, <1>15 DEF CtxsOK
<1> QED
  BY <1>6, <1>10, <1>11, <1>16 DEF ContextInv

(* The context is cancelled for the first time. *)
LEMMA FirstCancelInv ==
    ASSUME ContextInv, ContextTypeOK', NEW g \in Goroutine, stack[g] # <<>>, NEW v, v = Top(g),
           NEW d, d = Depth(g), NEW x \in Calls, x.at = "children", x.c = v.c,
           x.remove = v.remove, x.err = v.err, x.todo = children[v.c],
           v.at = "cancel", err[v.c] = Nil, mu[v.c] = Nil,
           mu' = [mu EXCEPT ![v.c] = g],
           err' = [err EXCEPT ![v.c] = v.err],
           done' = [done EXCEPT ![v.c] = IF @ = "nil" THEN "closedchan" ELSE "closed"],
           stack' = [stack EXCEPT ![g] = <<x>> \o Tail(@)],
           UNCHANGED <<parent, known, removes, children, timer>>
    PROVE  ContextInv'
<1>1. /\ d \in Nat /\ d > 0 /\ d \in 1..Depth(g) /\ v = CallAt(g, d)
      /\ v \in Calls /\ v.c \in Ctx /\ StackOK /\ CtxOK(v.c)
  BY TopFacts, ContextTypes
<1>a. PICK c \in Ctx : c = v.c
  BY <1>1
<1>b. PICK p : p = parent[c]
  OBVIOUS
<1>2. /\ p # Nil
      /\ v.err # Nil
      /\ ~v.remove => p \notin Ctx \/ err[p] # Nil
      /\ \A b \in Ctx : d = 1 /\ g = Timer(b) => v.c = b
      /\ \A b \in Ctx : d = 1 /\ g = Watcher(b) => v.c = b /\ p = Foreign
  BY <1>a, <1>b, TopCall DEF CancelPlaces
<1>3. /\ children[c] \subseteq Ctx /\ removes \subseteq Ctx
      /\ mu \in [Ctx -> Goroutine \union {Nil}]
      /\ err \in [Ctx -> {Nil, Canceled, DeadlineExceeded}]
      /\ done \in [Ctx \union {Foreign} -> {"nil", "open", "closed", "closedchan"}]
      /\ \A b \in children[c] : parent[b] = c
  BY <1>a, <1>1, ContextTypes DEF CtxOK
<1>4. x.c = c /\ x.todo = children[c]
  BY <1>a
<1>5. /\ stack' \in [Goroutine -> Seq(Calls)]
      /\ Depth(g)' = d /\ CallAt(g, d)' = x
      /\ \A k \in 1..d - 1 : Kept(g, k)
      /\ \A h \in Goroutine \ {g} : /\ stack'[h] = stack[h] /\ Depth(h)' = Depth(h)
                                    /\ \A k \in 1..Depth(h) : Kept(h, k)
  BY <1>1, <1>4, StackGoOn
<1>6. StackOK' /\ Inner(g, d, v)
  BY <1>1, <1>3, <1>5 DEF Inner, StackOK
<1>7. \A h \in Goroutine : \A k \in 1..Depth(h)' :
          k \in 1..Depth(h) /\ ((h = g /\ k = d) \/ Kept(h, k))
  BY <1>1, <1>5
<1>8. "children" \in CancelPlaces /\ "children" \notin WithPlaces /\ "children" \notin WatchPlaces
      /\ "children" \notin EarlyPlaces
  BY DEF WithPlaces, EarlyPlaces, CancelPlaces, WatchPlaces
<1>9. /\ err'[c] # Nil /\ mu'[c] = g
      /\ \A b \in Ctx \ {c} : err'[b] = err[b] /\ mu'[b] = mu[b] /\ (Closed(b)' => Closed(b))
      /\ \A b \in Ctx : err[b] # Nil => err'[b] # Nil
  BY <1>a, <1>2, <1>3 DEF Closed
<1>10. \A b \in Ctx : Holds(x, b)' => b = c
  BY <1>4 DEF Holds
<1>11. CallOK(g, d)'
  <2>1. parent'[x.c] = p /\ ~(d < Depth(g)') /\ x.at \in CancelPlaces
        /\ x.at \notin WithPlaces /\ x.at \notin EarlyPlaces /\ x.at \notin WatchPlaces
    BY <1>b, <1>1, <1>4, <1>5, <1>8
  <2>2. /\ \A b \in Ctx : Holds(x, b)' => mu'[b] = g
        /\ \A b \in x.todo : parent'[b] = x.c
        /\ x.err # Nil /\ err'[x.c] # Nil
    BY <1>2, <1>3, <1>4, <1>9, <1>10
  <2>3. /\ \A b \in Ctx : d = 1 /\ g = Timer(b) => x.c = b
        /\ \A b \in Ctx : d = 1 /\ g = Watcher(b) => x.c = b /\ p = Foreign
    BY <1>a, <1>2, <1>4
  <2> QED
    BY <2>1, <2>2, <2>3, <1>2, <1>4, <1>5 DEF CallOK
<1>12. CallsOK'
  <2> SUFFICES ASSUME NEW h \in Goroutine, NEW k \in 1..Depth(h)' PROVE CallOK(h, k)'
    BY DEF CallsOK
  <2>1. CASE h = g /\ k = d
    BY <2>1, <1>11
  <2>2. CASE h # g \/ k # d
    <3>1. k \in 1..Depth(h)
      BY <1>7
    <3>2. /\ \A b \in Ctx : err'[b] = err[b] \/ (b = v.c /\ v.at = "cancel" /\ err[b] = Nil)
          /\ v.at = "cancel" => err'[v.c] # Nil
          /\ \A a, b \in Ctx : \/ b \in children'[a] => b \in children[a]
                               \/ b = v.c /\ v.at \in WithPlaces
          /\ \A b \in Ctx : mu'[b] = mu[b] \/ mu[b] = Nil \/ Holds(v, b)
      BY <1>a, <1>9
    <3> QED
      BY <2>2, <3>1, <3>2, <1>6, CallLasts
  <2> QED
    BY <2>1, <2>2
<1>13. PairsOK'
  <2>1. Milder(g, d)
    <3>1. \A b \in Ctx : Holds(CallAt(g, d), b)' => mu[b] = Nil
      BY <1>a, <1>5, <1>10 DEF Holds
    <3> QED
      BY <3>1, <1>a, <1>1, <1>4, <1>5, <1>8 DEF Milder
  <2>2. \A h \in Goroutine : \A k \in 1..Depth(h)' :
            Kept(h, k) \/ Harmless(h, k)' \/ (h = g /\ k = d /\ Milder(g, d))
    BY <2>1, <1>7
  <2> QED
    BY <2>2, PairsLast
<1>14. ASSUME NEW b \in Ctx PROVE stack[Timer(b)] = <<>> => stack'[Timer(b)] = <<>>
  BY <1>5, ContextNames
<1>15. ASSUME NEW b \in Ctx, b # v.c PROVE CtxOK(b)'
  <2>1. PICK q : q = parent[b]
    OBVIOUS
  <2>2. q \in Ctx /\ b \in children[q] /\ err[q] = Nil =>
            Awaits(b)' \/ (err'[q] = Nil /\ b \in children'[q])
    <3>1. b \in x.todo => Awaits(b)'
      BY <1>1, <1>4, <1>5 DEF Awaits
    <3>2. q = c /\ q \in Ctx /\ b \in children[q] => Awaits(b)'
      BY <3>1, <1>4
    <3> QED
      BY <3>2, <1>9
  <2>3. err'[b] = err[b] /\ (Closed(b)' => Closed(b))
    BY <1>a, <1>9, <1>15
  <2>4. \A a \in Ctx : err[a] # Nil => err'[a] # Nil
    BY <1>9
  <2>5. ~(v.at = "children" /\ b \in v.todo)
    OBVIOUS
  <2>6. children'[b] \subseteq children[b] /\ (q \in Ctx /\ b \in children'[q] => b \in children[q])
    OBVIOUS
  <2> QED
    BY <2>1, <2>2, <2>3, <2>4, <2>5, <2>6, <1>6, <1>14, <1>15, OtherCtx
<1>16. CtxOK(c)'
  <2>1. d \in 1..Depth(g)'
    BY <1>1, <1>5
  <2>2. Cancelling(c)' /\ Locked(c)' /\ (v.remove => Removing(c)')
    BY <2>1, <1>4, <1>5 DEF Cancelling, Locked, Removing
  <2>3. err'[c] # Nil
    BY <1>9
  <2>4. p \in Ctx /\ c \in children'[p] /\ err'[c] # Nil => err'[p] # Nil \/ Removing(c)'
    BY <2>2, <1>2, <1>9
  <2>5. stack[Timer(c)] = <<>> => stack'[Timer(c)] = <<>>
    BY <1>14
  <2>6. Depth(g)' = 0 => err'[c] # Nil \/ g \in User
    BY <2>3
  <2>7. timer'[c] # "none" => timer[c] # "none" \/ (c \in known' /\ c \in timed)
    OBVIOUS
  <2> QED
    BY <2>2, <2>3, <2>4, <2>5, <2>6, <2>7, <1>a, <1>b, <1>6, OwnCtx
<1>17. CtxsOK'
  BY <1>a, <1>15, <1>16 DEF CtxsOK
<1> QED
  BY <1>6, <1>12, <1>13, <1>17 DEF ContextInv

(* A child is cancelled under its parent's mutex. *)
LEMMA CancelChildInv ==
    ASSUME ContextInv, ContextTypeOK', NEW g \in Goroutine, stack[g] # <<>>, NEW v, v = Top(g),
           NEW d, d = Depth(g), NEW child \in v.todo,
           NEW f \in Calls, f.at = "cancel", f.c = child, ~f.remove, f.err = v.err, f.todo = {},
           NEW x \in Calls, x.at = "children", x.c = v.c,
           x.remove = v.remove, x.err = v.err, x.todo = v.todo \ {child},
           v.at = "children", stack' = [stack EXCEPT ![g] = <<f, x>> \o Tail(@)],
           UNCHANGED <<parent, known, removes, mu, done, children, err, timer>>
    PROVE  ContextInv'
<1>1. /\ d \in Nat /\ d > 0 /\ d \in 1..Depth(g) /\ v = CallAt(g, d)
      /\ v \in Calls /\ v.c \in Ctx /\ StackOK /\ CallOK(g, d)
  BY TopFacts, ContextTypes
<1>a. PICK c \in Ctx : c = v.c
  BY <1>1
<1>b. PICK p : p = parent[c]
  OBVIOUS
<1>c. PICK e : e = d + 1
  OBVIOUS
<1>2. /\ d > 1 => v.at \in CancelPlaces
      /\ p # Nil /\ v.err # Nil /\ err[c] # Nil
      /\ \A b \in v.todo : parent[b] = c
      /\ \A b \in Ctx : Holds(v, b) => mu[b] = g
      /\ \A b \in Ctx : d = 1 /\ g = Timer(b) => v.c = b
      /\ \A b \in Ctx : d = 1 /\ g = Watcher(b) => v.c = b /\ p = Foreign
  BY <1>a, <1>b, TopCall DEF CancelPlaces
<1>3. v.todo \subseteq Ctx /\ child \in Ctx /\ parent[child] = c /\ removes \subseteq Ctx
  BY <1>1, <1>2, ContextTypes DEF Calls
<1>4. x.c = c
  BY <1>a
<1>5. /\ stack' \in [Goroutine -> Seq(Calls)]
      /\ Depth(g)' = e /\ CallAt(g, d)' = x /\ CallAt(g, e)' = f
      /\ \A k \in 1..d - 1 : Kept(g, k)
      /\ \A h \in Goroutine \ {g} : /\ stack'[h] = stack[h] /\ Depth(h)' = Depth(h)
                                    /\ \A k \in 1..Depth(h) : Kept(h, k)
  <2>a. PICK r : r = stack[g]
    OBVIOUS
  <2>b. PICK s : s = <<f, x>> \o Tail(r)
    OBVIOUS
  <2>1. r \in Seq(Calls) /\ r # <<>> /\ stack' = [stack EXCEPT ![g] = s]
    BY <2>a, <2>b, <1>1 DEF StackOK
  <2>2. /\ s \in Seq(Calls) /\ Len(s) = Len(r) + 1 /\ s[1] = f /\ s[2] = x
        /\ \A i \in 2..Len(r) : s[i + 1] = r[i]
    BY <2>b, <2>1, PushFacts
  <2>3. /\ s \in Seq(Calls) /\ Len(s) = Len(stack[g]) + 1
        /\ \A i \in 2..Len(stack[g]) : s[i + 1] = stack[g][i]
    BY <2>a, <2>2
  <2>4. /\ stack' \in [Goroutine -> Seq(Calls)] /\ Len(s) = Depth(g) + 1
        /\ Depth(g)' = Len(s) /\ \A k \in 1..Len(s) : CallAt(g, k)' = s[Len(s) + 1 - k]
        /\ \A k \in 1..Depth(g) - 1 : Kept(g, k)
        /\ \A h \in Goroutine \ {g} : /\ stack'[h] = stack[h] /\ Depth(h)' = Depth(h)
                                      /\ \A k \in 1..Depth(h) : Kept(h, k)
    BY <1>1, <2>1, <2>3, StackPush
  <2>5. Len(s) = e
    BY <1>c, <2>4
  <2>6. /\ d \in 1..Len(s) /\ Len(s) + 1 - d = 2
        /\ e \in 1..Len(s) /\ Len(s) + 1 - e = 1
    BY <1>c, <1>1, <2>5
  <2>7. CallAt(g, d)' = x /\ CallAt(g, e)' = f
    BY <2>2, <2>4, <2>6
  <2> QED
    BY <2>4, <2>5, <2>7
<1>6. StackOK' /\ Inner(g, d, v)
  BY <1>c, <1>1, <1>3, <1>5 DEF Inner, StackOK
<1>7. \A h \in Goroutine : \A k \in 1..Depth(h)' :
          \/ k \in 1..Depth(h) /\ Kept(h, k) /\ (h # g \/ k # d)
          \/ h = g /\ (k = d \/ k = e)
  <2>1. ASSUME NEW k \in 1..Depth(g)'
        PROVE  (k \in 1..Depth(g) /\ Kept(g, k) /\ k # d) \/ k = d \/ k = e
    BY <1>c, <1>1, <1>5, <2>1
  <2>2. ASSUME NEW h \in Goroutine \ {g}, NEW k \in 1..Depth(h)' PROVE k \in 1..Depth(h) /\ Kept(h, k)
    BY <1>5, <2>2
  <2> QED
    BY <2>1, <2>2
<1>8. /\ "children" \in CancelPlaces /\ "children" \notin WithPlaces /\ "children" \notin WatchPlaces
      /\ "children" \notin EarlyPlaces
      /\ "cancel" \in CancelPlaces /\ "cancel" \notin WithPlaces /\ "cancel" \notin WatchPlaces
      /\ "cancel" \notin EarlyPlaces
  BY DEF WithPlaces, EarlyPlaces, CancelPlaces, WatchPlaces
<1>9. \A b \in Ctx : (Holds(x, b)' => b = c /\ Holds(v, b)) /\ ~Holds(f, b)'
  BY <1>a, <1>4 DEF Holds
<1>10. CallOK(g, d)'
  <2>1. parent'[x.c] = p /\ x.at \in CancelPlaces
        /\ x.at \notin WithPlaces /\ x.at \notin EarlyPlaces /\ x.at \notin WatchPlaces
    BY <1>b, <1>4, <1>8
  <2>2. /\ \A b \in Ctx : Holds(x, b)' => mu'[b] = g
        /\ \A b \in x.todo : parent'[b] = x.c
        /\ x.err # Nil /\ err'[x.c] # Nil
    BY <1>2, <1>4, <1>9
  <2>3. /\ \A b \in Ctx : d = 1 /\ g = Timer(b) => x.c = b
        /\ \A b \in Ctx : d = 1 /\ g = Watcher(b) => x.c = b /\ p = Foreign
    BY <1>a, <1>2, <1>4
  <2> QED
    BY <2>1, <2>2, <2>3, <1>2, <1>4, <1>5 DEF CallOK
<1>11. CallOK(g, e)'
  <2>1. ~(e < Depth(g)') /\ e # 1
    BY <1>c, <1>1, <1>5
  <2>2. parent'[f.c] = c /\ err'[c] # Nil /\ c # Nil /\ f.err # Nil
    BY <1>2, <1>3, <1>4, ContextNames
  <2> QED
    BY <2>1, <2>2, <1>4, <1>5, <1>8, <1>9 DEF CallOK
<1>12. CallsOK'
  <2> SUFFICES ASSUME NEW h \in Goroutine, NEW k \in 1..Depth(h)' PROVE CallOK(h, k)'
    BY DEF CallsOK
  <2>1. CASE h = g /\ (k = d \/ k = e)
    BY <2>1, <1>10, <1>11
  <2>2. CASE ~(h = g /\ (k = d \/ k = e))
    <3>1. k \in 1..Depth(h) /\ (h # g \/ k # d)
      BY <2>2, <1>7
    <3>2. /\ \A b \in Ctx : err'[b] = err[b] \/ (b = v.c /\ v.at = "cancel" /\ err[b] = Nil)
          /\ v.at = "cancel" => err'[v.c] # Nil
          /\ \A a, b \in Ctx : \/ b \in children'[a] => b \in children[a]
                               \/ b = v.c /\ v.at \in WithPlaces
          /\ \A b \in Ctx : mu'[b] = mu[b] \/ mu[b] = Nil \/ Holds(v, b)
      OBVIOUS
    <3> QED
      BY <3>1, <3>2, <1>6, CallLasts
  <2> QED
    BY <2>1, <2>2
<1>13. ~Early(child)'
  <2>1. \A h \in Goroutine : \A k \in 1..Depth(h)' :
            CallAt(h, k)'.at \in EarlyPlaces => Kept(h, k) /\ (h # g \/ k # d)
    BY <1>4, <1>5, <1>7, <1>8
  <2>2. child \in CallAt(g, d).todo
    BY <1>1
  <2> QED
    BY <2>1, <2>2, <1>1, Attaches
<1>14. PairsOK'
  <2>1. Milder(g, d)
    <3>1. \A b \in Ctx : Holds(CallAt(g, d), b)' => Holds(v, b)
      BY <1>5, <1>9 DEF Holds
    <3> QED
      BY <3>1, <1>a, <1>1, <1>4, <1>5, <1>8 DEF Milder
  <2>2. Harmless(g, e)'
    BY <1>4, <1>5, <1>8, <1>13 DEF Harmless
  <2>3. \A h \in Goroutine : \A k \in 1..Depth(h)' :
            Kept(h, k) \/ Harmless(h, k)' \/ (h = g /\ k = d /\ Milder(g, d))
    BY <2>1, <2>2, <1>7
  <2>4. parent' = parent
    OBVIOUS
  <2> QED
    BY <2>3, <2>4, PairsLast, SMTT(20)
<1>15. ASSUME NEW b \in Ctx
       PROVE  (stack[Timer(b)] = <<>> => stack'[Timer(b)] = <<>>) /\ (Closed(b)' => Closed(b))
  BY <1>5, ContextNames DEF Closed
<1>16. d \in 1..Depth(g)'
  BY <1>c, <1>1, <1>5
<1>17. ASSUME NEW b \in Ctx, b # v.c PROVE CtxOK(b)'
  <2>1. PICK q : q = parent[b]
    OBVIOUS
  <2>2. v.at = "children" /\ b \in v.todo => Awaits(b)' \/ Joining(b)'
    <3>1. CASE b = child
      <4>1. /\ CallAt(g, e)'.at = "cancel" /\ CallAt(g, e)'.c = b
            /\ CallAt(g, d)'.c = q /\ CallAt(g, d)'.at = "children" /\ q = parent'[b]
        BY <2>1, <3>1, <1>3, <1>4, <1>5
      <4> QED
        BY <4>1, <1>c, <1>1, <1>5, Joins
    <3>2. CASE b # child
      <4>1. b \in v.todo => b \in x.todo
        BY <3>2, <1>4
      <4> QED
        BY <4>1, <1>4, <1>5, <1>16 DEF Awaits
    <3> QED
      BY <3>1, <3>2
  <2>3. q \in Ctx /\ b \in children[q] /\ err[q] = Nil =>
            Awaits(b)' \/ (err'[q] = Nil /\ b \in children'[q])
    OBVIOUS
  <2>4. \A a \in Ctx : err[a] # Nil => err'[a] # Nil
    OBVIOUS
  <2>5. children'[b] \subseteq children[b] /\ (q \in Ctx /\ b \in children'[q] => b \in children[q])
    OBVIOUS
  <2> QED
    BY <2>1, <2>2, <2>3, <2>4, <2>5, <1>6, <1>15, <1>17, OtherCtx
<1>18. CtxOK(c)'
  <2>1. Cancelling(c)' /\ Locked(c)' /\ (v.remove => Removing(c)')
    BY <1>4, <1>5, <1>16 DEF Cancelling, Locked, Removing
  <2>2. CtxOK(c)
    BY DEF ContextInv, CtxsOK
  <2>3. p \in Ctx /\ c \in children'[p] /\ err'[c] # Nil =>
            \/ err'[p] # Nil \/ Removing(c)'
            \/ /\ err[c] # Nil /\ c \in children[p] /\ err[p] = err'[p]
               /\ ~(v.remove /\ v.at \in {"children", "remove"})
    BY <2>1, <1>2
  <2>4. /\ c \in known' /\ c \notin removes' => err'[c] # Nil
        /\ err'[c] # Nil
    BY <1>2
  <2>5. timer'[c] # "none" => timer[c] # "none" \/ (c \in known' /\ c \in timed)
    OBVIOUS
  <2> QED
    BY <2>1, <2>2, <2>3, <2>4, <2>5, <1>a, <1>b, <1>6, <1>15, OwnCtx
<1>19. CtxsOK'
  BY <1>a, <1>17, <1>18 DEF CtxsOK
<1> QED
  BY <1>6, <1>12, <1>14, <1>19 DEF ContextInv

(* Two goroutines get another stack. *)
LEMMA StackSetTwo ==
    ASSUME StackOK, NEW g \in Goroutine, NEW w \in Goroutine, w # g,
           NEW r \in Seq(Calls), NEW s \in Seq(Calls), stack' = [stack EXCEPT ![g] = r, ![w] = s]
    PROVE  /\ stack' \in [Goroutine -> Seq(Calls)] /\ stack'[g] = r /\ stack'[w] = s
           /\ \A h \in Goroutine \ {g, w} : stack'[h] = stack[h]
<1>1. stack \in [Goroutine -> Seq(Calls)]
  BY DEF StackOK
<1>2. PICK z : z = [stack EXCEPT ![g] = r]
  OBVIOUS
<1>3. z \in [Goroutine -> Seq(Calls)] /\ z[g] = r /\ \A h \in Goroutine \ {g} : z[h] = stack[h]
  BY <1>1, <1>2
<1>4. stack' = [z EXCEPT ![w] = s]
  BY <1>2
<1> QED
  BY <1>3, <1>4

(* A child of Foreign gets its watcher. *)
LEMMA WatcherInv ==
    ASSUME ContextInv, ContextTypeOK', NEW g \in Goroutine, stack[g] # <<>>, NEW v, v = Top(g),
           NEW c \in Ctx, c = v.c, NEW x \in Calls, NEW f \in Calls, NEW w, w = Watcher(c),
           x.at = "timer", x.c = c, x.todo = {}, f.at = "watch", f.c = c, f.todo = {},
           v.at = "select", parent[c] = Foreign,
           stack' \in [Goroutine -> Seq(Calls)],
           NEW r \in Seq(Calls), Len(r) = 1, r[1] = x, stack'[g] = r,
           NEW s \in Seq(Calls), Len(s) = 1, s[1] = f, stack'[w] = s,
           \A h \in Goroutine \ {g, w} : stack'[h] = stack[h],
           UNCHANGED <<parent, known, removes, mu, done, children, err, timer>>
    PROVE  ContextInv'
<1>1. /\ 1 = Depth(g) /\ 1 \in 1..Depth(g) /\ v = CallAt(g, 1) /\ v \in Calls
      /\ g \in User /\ c \notin known /\ v.at \in WithPlaces /\ v.at \in EarlyPlaces
  BY TopFacts DEF WithPlaces, EarlyPlaces
<1>2. c \in removes /\ err[c] = Nil /\ (\A b \in Ctx : c \notin children[b])
  <2>1. PICK d : d = Depth(g)
    OBVIOUS
  <2>2. PICK p : p = parent[v.c]
    OBVIOUS
  <2>3. /\ v.at \in WithPlaces => /\ g \in User /\ v.c \notin known
                                  /\ v.at # "late" => v.c \in removes
        /\ v.at \in EarlyPlaces => err[v.c] = Nil /\ \A b \in Ctx : v.c \notin children[b]
    BY <2>1, <2>2, TopCall
  <2> QED
    BY <1>1, <2>3
<1>3. w \in Goroutine /\ w # g /\ g \notin {Timer(b) : b \in Ctx} \union {Watcher(b) : b \in Ctx}
      /\ w \notin User /\ (\A b \in Ctx : w # Timer(b)) /\ (\A b \in Ctx : w = Watcher(b) => b = c)
  BY <1>1, ContextNames
<1>4. stack[w] = <<>>
  <2>1. SUFFICES ASSUME stack[w] # <<>> PROVE FALSE
    OBVIOUS
  <2>2. 1 \in 1..Depth(w)
    BY <1>3, <2>1, StackTop, ContextTypes
  <2>3. CallOK(w, 1) /\ PairOK(CallAt(g, 1), CallAt(w, 1))
    BY <1>1, <1>3, <2>2 DEF ContextInv, CallsOK, PairsOK
  <2>4. CallAt(w, 1).c = c
    BY <2>3 DEF CallOK
  <2> QED
    BY <1>1, <2>3, <2>4 DEF PairOK
<1>5. StackOK /\ stack \in [Goroutine -> Seq(Calls)] /\ removes' \subseteq Ctx
  BY ContextTypes
<1>6. stack'[g] # <<>> /\ stack'[w] # <<>>
  OBVIOUS
<1>7. /\ Depth(g)' = 1 /\ CallAt(g, 1)' = x
      /\ Depth(w)' = 1 /\ CallAt(w, 1)' = f
  <2>1. Depth(g)' = 1 /\ Depth(w)' = 1
    BY DEF Depth
  <2>2. Len(r) + 1 - 1 = 1 /\ Len(s) + 1 - 1 = 1
    OBVIOUS
  <2>3. CallAt(g, 1)' = x
    BY <2>2 DEF CallAt
  <2>4. CallAt(w, 1)' = f
    BY <2>2 DEF CallAt
  <2> QED
    BY <2>1, <2>3, <2>4
<1>8. StackOK'
  BY <1>5 DEF StackOK
<1>9. Inner(g, 1, v)
  <2>1. \A h \in Goroutine \ {g} : stack[h] # <<>> => stack'[h] = stack[h]
    BY <1>4, <1>6
  <2> QED
    BY <1>1, <1>7, <1>8, <2>1 DEF Inner
<1>10. ASSUME NEW h \in Goroutine, NEW k \in 1..Depth(h)'
       PROVE  \/ h = g /\ k = 1
              \/ h = w /\ k = 1
              \/ h # g /\ h # w /\ k \in 1..Depth(h) /\ Kept(h, k)
  <2>1. CASE h \in {g, w}
    BY <1>7, <2>1
  <2>2. CASE h \notin {g, w}
    BY <1>6, <2>2, SameStack
  <2> QED
    BY <2>1, <2>2
<1>11. /\ x.at \in WithPlaces /\ x.at \notin EarlyPlaces /\ x.at \notin CancelPlaces /\ x.at \notin WatchPlaces
       /\ f.at \in WatchPlaces /\ f.at \notin WithPlaces /\ f.at \notin EarlyPlaces /\ f.at \notin CancelPlaces
  BY DEF WithPlaces, EarlyPlaces, CancelPlaces, WatchPlaces
<1>12. \A b \in Ctx : ~Holds(x, b)' /\ ~Holds(f, b)'
  BY DEF Holds
<1>13. Foreign # Nil /\ Foreign \notin Ctx /\ parent'[c] = Foreign
  BY ContextNames
<1>14. CallOK(g, 1)'
  <2>1. \A b \in Ctx : g # Timer(b) /\ g # Watcher(b)
    BY <1>3
  <2> QED
    BY <2>1, <1>1, <1>2, <1>7, <1>11, <1>12, <1>13 DEF CallOK
<1>15. CallOK(w, 1)'
  BY <1>3, <1>7, <1>11, <1>12, <1>13 DEF CallOK
<1>16. CallsOK'
  <2> SUFFICES ASSUME NEW h \in Goroutine, NEW k \in 1..Depth(h)' PROVE CallOK(h, k)'
    BY DEF CallsOK
  <2>1. CASE h \in {g, w} /\ k = 1
    BY <2>1, <1>14, <1>15
  <2>2. CASE ~(h \in {g, w} /\ k = 1)
    <3>1. h # g /\ h # w /\ k \in 1..Depth(h) /\ stack'[h] = stack[h]
      BY <2>2, <1>6, <1>10
    <3>2. CallOK(h, k)
      BY <3>1 DEF ContextInv, CallsOK
    <3> QED
      BY <3>1, <3>2, <1>5, SameCall
  <2> QED
    BY <2>1, <2>2
<1>17. PairsOK'
  <2>1. Milder(g, 1)
    <3>1. \A b \in Ctx : ~Holds(CallAt(g, 1), b)'
      BY <1>7, <1>12 DEF Holds
    <3> QED
      BY <3>1, <1>1, <1>7, <1>11 DEF Milder
  <2>2. ~Early(c)'
    <3>1. \A h \in Goroutine : \A k \in 1..Depth(h)' :
              CallAt(h, k)'.at \in EarlyPlaces => Kept(h, k) /\ (h # g \/ k # 1)
      BY <1>7, <1>10, <1>11
    <3>2. c = CallAt(g, 1).c /\ CallAt(g, 1).at \in WithPlaces
      BY <1>1
    <3> QED
      BY <3>1, <3>2, <1>1, Attaches
  <2>3. Harmless(w, 1)'
    BY <1>7, <1>11, <2>2 DEF Harmless
  <2>4. \A h \in Goroutine : \A k \in 1..Depth(h)' :
            Kept(h, k) \/ Harmless(h, k)' \/ (h = g /\ k = 1 /\ Milder(g, 1))
    BY <1>10, <2>1, <2>3
  <2> QED
    BY <2>4, PairsLast
<1>18. ASSUME NEW b \in Ctx
       PROVE  (stack[Timer(b)] = <<>> => stack'[Timer(b)] = <<>>) /\ (Closed(b)' => Closed(b))
  <2>1. Timer(b) \in Goroutine \ {g, w}
    BY <1>3, ContextNames
  <2> QED
    BY <1>6, <2>1 DEF Closed
<1>19. ASSUME NEW b \in Ctx, b # v.c PROVE CtxOK(b)'
  <2>1. ~(v.at = "children" /\ b \in v.todo)
    OBVIOUS
  <2>2. PICK q : q = parent[b]
    OBVIOUS
  <2>3. /\ q \in Ctx /\ b \in children'[q] => b \in children[q]
        /\ q \in Ctx /\ b \in children[q] /\ err[q] = Nil =>
              Awaits(b)' \/ (err'[q] = Nil /\ b \in children'[q])
    OBVIOUS
  <2> QED
    BY <2>1, <2>2, <2>3, <1>9, <1>18, <1>19, OtherCtx
<1>20. CtxOK(c)'
  <2>1. CtxOK(c)
    BY DEF ContextInv, CtxsOK
  <2>2. stack'[Watcher(c)] # <<>> /\ Depth(g)' # 0
    BY <1>6, <1>7
  <2>3. PICK p : p = parent[c]
    OBVIOUS
  <2>4. p = Foreign /\ p \notin Ctx
    BY <2>3, <1>13
  <2>5. timer'[c] # "none" => timer[c] # "none" \/ (c \in known' /\ c \in timed)
    OBVIOUS
  <2> QED
    BY <2>1, <2>2, <2>3, <2>4, <2>5, <1>1, <1>2, <1>9, <1>18, OwnCtx DEF CtxOK
<1>21. CtxsOK'
  BY <1>19, <1>20 DEF CtxsOK
<1> QED
  BY <1>8, <1>16, <1>17, <1>21 DEF ContextInv

(* The watcher cancels its child. *)
LEMMA WatchedInv ==
    ASSUME ContextInv, ContextTypeOK', NEW g \in Goroutine, stack[g] # <<>>, NEW v, v = Top(g),
           NEW c \in Ctx, c = v.c, NEW f \in Calls,
           f.at = "cancel", f.c = c, f.todo = {}, f.err # Nil, v.at = "watching",
           stack' = [stack EXCEPT ![g] = <<f>>],
           UNCHANGED <<parent, known, removes, mu, done, children, err, timer>>
    PROVE  ContextInv'
<1>1. v.at \in WatchPlaces /\ v.at \notin WithPlaces /\ v.at \notin CancelPlaces /\ v.at \notin EarlyPlaces
      /\ f.at \in CancelPlaces /\ f.at \notin WithPlaces /\ f.at \notin WatchPlaces /\ f.at \notin EarlyPlaces
  BY DEF WithPlaces, EarlyPlaces, CancelPlaces, WatchPlaces
<1>a. PICK d : d = Depth(g)
  OBVIOUS
<1>2. /\ d = 1 /\ v = CallAt(g, 1) /\ 1 \in 1..Depth(g) /\ parent[c] = Foreign
      /\ \A b \in Ctx : g # Timer(b)
      /\ \A b \in Ctx : g = Watcher(b) => b = c
  <2>1. /\ d \in Nat /\ d > 0 /\ v = CallAt(g, d)
        /\ d > 1 => v.at \in CancelPlaces
        /\ v.at \in WatchPlaces => parent[v.c] = Foreign
        /\ \A b \in Ctx : d = 1 /\ g = Timer(b) => v.c = b /\ v.at \in CancelPlaces
        /\ \A b \in Ctx : d = 1 /\ g = Watcher(b) => v.c = b
    BY <1>a, TopFacts, TopCall
  <2>2. d = 1
    BY <1>1, <2>1
  <2> QED
    BY <1>1, <1>a, <2>1, <2>2
<1>3. StackOK /\ removes' \subseteq Ctx
  BY ContextTypes
<1>4. /\ stack' \in [Goroutine -> Seq(Calls)]
      /\ Depth(g)' = 1 /\ CallAt(g, 1)' = f /\ stack'[g] # <<>>
      /\ \A h \in Goroutine \ {g} : /\ stack'[h] = stack[h] /\ Depth(h)' = Depth(h)
                                    /\ \A k \in 1..Depth(h) : Kept(h, k)
  BY <1>3, StackStart
<1>5. StackOK' /\ Inner(g, 1, v)
  BY <1>a, <1>2, <1>3, <1>4 DEF Inner, StackOK
<1>6. \A h \in Goroutine : \A k \in 1..Depth(h)' :
          (h = g /\ k = 1) \/ (h # g /\ k \in 1..Depth(h) /\ Kept(h, k))
  BY <1>4
<1>7. Foreign # Nil /\ Foreign \notin Ctx /\ parent'[c] = Foreign
  BY <1>2, ContextNames
<1>8. \A b \in Ctx : ~Holds(f, b)'
  BY DEF Holds
<1>9. CallOK(g, 1)'
  BY <1>1, <1>2, <1>4, <1>7, <1>8 DEF CallOK
<1>10. CallsOK'
  <2> SUFFICES ASSUME NEW h \in Goroutine, NEW k \in 1..Depth(h)' PROVE CallOK(h, k)'
    BY DEF CallsOK
  <2>1. CASE h = g /\ k = 1
    BY <2>1, <1>9
  <2>2. CASE ~(h = g /\ k = 1)
    <3>1. h # g /\ k \in 1..Depth(h) /\ stack'[h] = stack[h]
      BY <2>2, <1>4, <1>6
    <3>2. CallOK(h, k)
      BY <3>1 DEF ContextInv, CallsOK
    <3> QED
      BY <3>1, <3>2, <1>3, SameCall
  <2> QED
    BY <2>1, <2>2
<1>11. PairsOK'
  <2>1. Milder(g, 1)
    <3>1. \A b \in Ctx : ~Holds(CallAt(g, 1), b)'
      BY <1>4, <1>8 DEF Holds
    <3> QED
      BY <3>1, <1>1, <1>2, <1>4 DEF Milder
  <2>2. \A h \in Goroutine : \A k \in 1..Depth(h)' :
            Kept(h, k) \/ Harmless(h, k)' \/ (h = g /\ k = 1 /\ Milder(g, 1))
    BY <1>6, <2>1
  <2> QED
    BY <2>2, PairsLast
<1>12. ASSUME NEW b \in Ctx
       PROVE  (stack[Timer(b)] = <<>> => stack'[Timer(b)] = <<>>) /\ (Closed(b)' => Closed(b))
  <2>1. Timer(b) \in Goroutine \ {g}
    BY <1>2, ContextNames
  <2> QED
    BY <1>4, <2>1 DEF Closed
<1>13. ASSUME NEW b \in Ctx, b # v.c PROVE CtxOK(b)'
  <2>1. ~(v.at = "children" /\ b \in v.todo)
    OBVIOUS
  <2>2. PICK q : q = parent[b]
    OBVIOUS
  <2>3. /\ q \in Ctx /\ b \in children'[q] => b \in children[q]
        /\ q \in Ctx /\ b \in children[q] /\ err[q] = Nil =>
              Awaits(b)' \/ (err'[q] = Nil /\ b \in children'[q])
    OBVIOUS
  <2> QED
    BY <2>1, <2>2, <2>3, <1>5, <1>12, <1>13, OtherCtx
<1>14. CtxOK(c)'
  <2>1. CtxOK(c)
    BY DEF ContextInv, CtxsOK
  <2>2. PICK p : p = parent[c]
    OBVIOUS
  <2>3. p = Foreign /\ p \notin Ctx /\ Depth(g)' # 0
    BY <2>2, <1>4, <1>7
  <2>4. /\ timer'[c] # "none" => timer[c] # "none" \/ (c \in known' /\ c \in timed)
        /\ Closed(c)' => err'[c] # Nil
        /\ c \in known' /\ c \notin removes' => err'[c] # Nil
    BY <2>1, <1>12 DEF CtxOK
  <2>5. /\ timer'[c] = "set" /\ err'[c] # Nil =>
              timer[c] = "set" /\ err[c] # Nil /\ v.at \notin {"children", "remove", "stop"}
        /\ c \in known' /\ c \in timed /\ err'[c] = Nil =>
              timer'[c] = "set" \/ (c \in known /\ timer'[c] = timer[c])
        /\ err'[c] # Nil => err[c] # Nil /\ v.at # "children"
    OBVIOUS
  <2> QED
    BY <2>2, <2>3, <2>4, <2>5, <1>1, <1>5, <1>12, OwnCtx
<1>15. CtxsOK'
  BY <1>13, <1>14 DEF CtxsOK
<1> QED
  BY <1>5, <1>10, <1>11, <1>15 DEF ContextInv

-----------------------------------------------------------------------------
(* Every action keeps the invariant. *)

LEMMA MakeDoneOK ==
    ASSUME ContextInv, NEW q, MakeDone(q)
    PROVE  /\ done' \in [Ctx \union {Foreign} -> {"nil", "open", "closed", "closedchan"}]
           /\ \A c \in Ctx : Closed(c)' => Closed(c)
<1>1. done \in [Ctx \union {Foreign} -> {"nil", "open", "closed", "closedchan"}]
  BY ContextTypes
<1>2. CASE UNCHANGED done
  BY <1>1, <1>2 DEF Closed
<1>3. CASE done' = [done EXCEPT ![q] = "open"]
  BY <1>1, <1>3 DEF Closed
<1> QED
  BY <1>2, <1>3 DEF MakeDone

LEMMA ParentDoneInv ==
    ASSUME ContextInv, NEW g \in Goroutine, ParentDone(g)
    PROVE  ContextInv'
<1>a. PICK v : v = Top(g)
  OBVIOUS
<1>b. PICK d : d = Depth(g)
  OBVIOUS
<1>c. PICK p : p = parent[v.c]
  OBVIOUS
<1>1. /\ stack[g] # <<>> /\ v.at = "propagate"
      /\ UNCHANGED <<parent, known, removes, mu, children, err, timer>>
      /\ \/ p = Background /\ GoOn(g, "timer") /\ UNCHANGED done
         \/ MakeDone(p) /\ GoOn(g, "select")
  BY <1>a, <1>c DEF ParentDone, Doing, tree
<1>2. /\ done' \in [Ctx \union {Foreign} -> {"nil", "open", "closed", "closedchan"}]
      /\ \A c \in Ctx : Closed(c)' => Closed(c)
  <2>1. CASE MakeDone(p)
    BY <2>1, MakeDoneOK
  <2>2. CASE UNCHANGED done
    BY <2>2, ContextTypes DEF Closed
  <2> QED
    BY <1>1, <2>1, <2>2
<1>3. ContextTypeOK'
  BY <1>1, <1>2 DEF ContextInv, ContextTypeOK
<1>4. v.at \in WithPlaces /\ v.at \in EarlyPlaces /\ v.at \notin CancelPlaces
      /\ "timer" \in WithPlaces /\ "select" \in WithPlaces /\ "select" \in EarlyPlaces
  BY <1>1 DEF WithPlaces, EarlyPlaces, CancelPlaces
<1>5. CASE p = Background /\ GoOn(g, "timer")
  BY <1>a, <1>b, <1>c, <1>1, <1>2, <1>3, <1>4, <1>5, GoOnInv
<1>6. CASE GoOn(g, "select")
  BY <1>a, <1>b, <1>c, <1>1, <1>2, <1>3, <1>4, <1>6, GoOnInv
<1> QED
  BY <1>1, <1>5, <1>6

LEMMA SelectInv ==
    ASSUME ContextInv, NEW g \in Goroutine, Select(g)
    PROVE  ContextInv'
<1>a. PICK v : v = Top(g)
  OBVIOUS
<1>b. PICK d : d = Depth(g)
  OBVIOUS
<1>c. PICK p : p = parent[v.c]
  OBVIOUS
<1>1. /\ stack[g] # <<>> /\ v.at = "select"
      /\ UNCHANGED <<parent, known, removes, mu, done, children, err, timer>>
      /\ \/ Closed(p) /\ GoOn(g, "err")
         \/ p \in Ctx /\ GoOn(g, "attach")
         \/ /\ p = Foreign
            /\ stack' = [stack EXCEPT ![g] = <<Frame("timer", v.c)>>,
                                      ![Watcher(v.c)] = <<Frame("watch", v.c)>>]
  BY <1>a, <1>c DEF Select, Doing, tree
<1>2. ContextTypeOK' /\ (\A c \in Ctx : Closed(c)' => Closed(c))
  BY <1>1 DEF ContextInv, ContextTypeOK, Closed
<1>3. v.at \in WithPlaces /\ v.at \in EarlyPlaces /\ v.at \notin CancelPlaces
      /\ "err" \in WithPlaces /\ "err" \in EarlyPlaces
      /\ "attach" \in WithPlaces /\ "attach" \in EarlyPlaces
  BY <1>1 DEF WithPlaces, EarlyPlaces, CancelPlaces
<1>4. CASE Closed(p) /\ GoOn(g, "err")
  <2>1. p \in Ctx => err[p] # Nil
    BY <1>4 DEF ContextInv, CtxsOK, CtxOK
  <2> QED
    BY <1>a, <1>b, <1>c, <1>1, <1>2, <1>3, <1>4, <2>1, GoOnInv
<1>5. CASE p \in Ctx /\ GoOn(g, "attach")
  BY <1>a, <1>b, <1>c, <1>1, <1>2, <1>3, <1>5, GoOnInv
<1>6. CASE /\ p = Foreign
           /\ stack' = [stack EXCEPT ![g] = <<Frame("timer", v.c)>>,
                                     ![Watcher(v.c)] = <<Frame("watch", v.c)>>]
  <2>1. v.c \in Ctx /\ g \in User
    BY <1>a, <1>1, <1>3, TopFacts
  <2>2. PICK x : x = Frame("timer", v.c)
    OBVIOUS
  <2>3. PICK f : f = Frame("watch", v.c)
    OBVIOUS
  <2>4. /\ x \in Calls /\ x.at = "timer" /\ x.c = v.c /\ x.todo = {}
        /\ f \in Calls /\ f.at = "watch" /\ f.c = v.c /\ f.todo = {}
    BY <2>1, <2>2, <2>3 DEF Frame, Calls, WithPlaces, WatchPlaces
  <2>5. PICK r : r = <<x>>
    OBVIOUS
  <2>6. PICK s : s = <<f>>
    OBVIOUS
  <2>7. /\ r \in Seq(Calls) /\ Len(r) = 1 /\ r[1] = x
        /\ s \in Seq(Calls) /\ Len(s) = 1 /\ s[1] = f
    BY <2>4, <2>5, <2>6
  <2>8. PICK w : w = Watcher(v.c)
    OBVIOUS
  <2>9. w \in Goroutine /\ w # g
    BY <2>1, <2>8, ContextNames
  <2>10. stack' = [stack EXCEPT ![g] = r, ![w] = s]
    BY <1>6, <2>2, <2>3, <2>5, <2>6, <2>8
  <2>11. /\ stack' \in [Goroutine -> Seq(Calls)] /\ stack'[g] = r /\ stack'[w] = s
         /\ \A h \in Goroutine \ {g, w} : stack'[h] = stack[h]
    BY <2>7, <2>9, <2>10, StackSetTwo, ContextTypes
  <2>12. PICK c \in Ctx : c = v.c
    BY <2>1
  <2>13. x.c = c /\ f.c = c /\ parent[c] = Foreign /\ w = Watcher(c)
    BY <1>c, <1>6, <2>4, <2>8, <2>12
  <2> QED
    BY <1>a, <1>1, <1>2, <2>4, <2>7, <2>11, <2>12, <2>13, WatcherInv
<1> QED
  BY <1>1, <1>4, <1>5, <1>6

LEMMA ParentErrInv ==
    ASSUME ContextInv, NEW g \in Goroutine, ParentErr(g)
    PROVE  ContextInv'
<1>a. PICK v : v = Top(g)
  OBVIOUS
<1>b. PICK d : d = Depth(g)
  OBVIOUS
<1>c. PICK p : p = parent[v.c]
  OBVIOUS
<1>1. /\ stack[g] # <<>> /\ v.at = "err"
      /\ UNCHANGED <<parent, known, removes, mu, done, children, err, timer>>
      /\ \/ p = Foreign /\ Enter(g, Cancel(v.c, FALSE, Canceled), "timer")
         \/ p \in Ctx /\ Enter(g, Cancel(v.c, FALSE, err[p]), "timer")
  BY <1>a, <1>c DEF ParentErr, Doing, tree
<1>2. ContextTypeOK' /\ v.c \in Ctx /\ (p \in Ctx => err[p] # Nil)
  BY <1>a, <1>b, <1>c, <1>1, TopFacts, TopCall DEF ContextInv, ContextTypeOK
<1>3. PICK e \in {Nil, Canceled, DeadlineExceeded} :
          e # Nil /\ Enter(g, Cancel(v.c, FALSE, e), "timer") /\ (p \notin Ctx \/ err[p] # Nil)
  <2>1. err \in [Ctx -> {Nil, Canceled, DeadlineExceeded}]
    BY ContextTypes
  <2> QED
    BY <1>1, <1>2, <2>1, ContextNames
<1>4. PICK f : f = Cancel(v.c, FALSE, e)
  OBVIOUS
<1>5. f \in Calls /\ f.at = "cancel" /\ f.c = v.c /\ f.err = e /\ f.todo = {}
  BY <1>2, <1>4 DEF Cancel, Frame, Calls, CancelPlaces
<1>6. Enter(g, f, "timer")
  BY <1>3, <1>4
<1> QED
  BY <1>a, <1>b, <1>c, <1>1, <1>2, <1>3, <1>5, <1>6, EnterInv

LEMMA AttachInv ==
    ASSUME ContextInv, NEW g \in Goroutine, Attach(g)
    PROVE  ContextInv'
<1>a. PICK v : v = Top(g)
  OBVIOUS
<1>b. PICK d : d = Depth(g)
  OBVIOUS
<1>c. PICK p : p = parent[v.c]
  OBVIOUS
<1>1. /\ stack[g] # <<>> /\ v.at = "attach" /\ mu[p] = Nil
      /\ UNCHANGED <<parent, known, removes, done, err, timer>>
      /\ \/ /\ err[p] = Nil /\ children' = [children EXCEPT ![p] = @ \union {v.c}]
            /\ GoOn(g, "timer") /\ mu' = mu
         \/ /\ err[p] # Nil /\ mu' = [mu EXCEPT ![p] = g]
            /\ Enter(g, Cancel(v.c, FALSE, err[p]), "attached") /\ children' = children
  BY <1>a, <1>c DEF Attach, Doing, tree, Free
<1>2. v.c \in Ctx /\ p \in Ctx
  BY <1>a, <1>b, <1>c, <1>1, TopFacts, TopCall
<1>3. /\ children \in [Ctx -> SUBSET Ctx] /\ mu \in [Ctx -> Goroutine \union {Nil}]
      /\ err \in [Ctx -> {Nil, Canceled, DeadlineExceeded}]
  BY ContextTypes
<1>4. ContextTypeOK' /\ (\A c \in Ctx : Closed(c)' => Closed(c))
  <2>1. children' \in [Ctx -> SUBSET Ctx]
    <3>1. [children EXCEPT ![p] = @ \union {v.c}] \in [Ctx -> SUBSET Ctx]
      BY <1>2, <1>3
    <3> QED
      BY <1>1, <1>3, <3>1
  <2>2. mu' \in [Ctx -> Goroutine \union {Nil}]
    BY <1>1, <1>2, <1>3
  <2> QED
    BY <1>1, <2>1, <2>2 DEF ContextInv, ContextTypeOK, Closed
<1>5. CASE /\ err[p] = Nil /\ children' = [children EXCEPT ![p] = @ \union {v.c}]
           /\ GoOn(g, "timer") /\ mu' = mu
  <2>1. v.at \in WithPlaces /\ v.at \in EarlyPlaces /\ "timer" \in WithPlaces /\ "timer" \notin EarlyPlaces
    BY <1>1 DEF WithPlaces, EarlyPlaces
  <2>2. v.c \in children'[p] /\ \A b, c \in Ctx : c \in children[b] => c \in children'[b]
    BY <1>2, <1>3, <1>5
  <2> QED
    BY <1>a, <1>b, <1>c, <1>1, <1>2, <1>4, <1>5, <2>1, <2>2, GoOnInv
<1>6. CASE /\ err[p] # Nil /\ mu' = [mu EXCEPT ![p] = g]
           /\ Enter(g, Cancel(v.c, FALSE, err[p]), "attached") /\ children' = children
  <2>1. PICK f : f = Cancel(v.c, FALSE, err[p])
    OBVIOUS
  <2>2. err[p] \in {Nil, Canceled, DeadlineExceeded}
    BY <1>2, <1>3
  <2>3. f \in Calls /\ f.at = "cancel" /\ f.c = v.c /\ f.err # Nil /\ f.todo = {}
    BY <1>2, <1>6, <2>1, <2>2 DEF Cancel, Frame, Calls, CancelPlaces
  <2>4. Enter(g, f, "attached")
    BY <1>6, <2>1
  <2> QED
    BY <1>a, <1>b, <1>c, <1>1, <1>2, <1>4, <1>6, <2>3, <2>4, EnterInv
<1> QED
  BY <1>1, <1>5, <1>6

LEMMA AttachedInv ==
    ASSUME ContextInv, NEW g \in Goroutine, Attached(g)
    PROVE  ContextInv'
<1>a. PICK v : v = Top(g)
  OBVIOUS
<1>b. PICK d : d = Depth(g)
  OBVIOUS
<1>c. PICK p : p = parent[v.c]
  OBVIOUS
<1>1. /\ stack[g] # <<>> /\ v.at = "attached" /\ mu' = [mu EXCEPT ![p] = Nil]
      /\ UNCHANGED <<parent, known, removes, done, children, err, timer>>
      /\ GoOn(g, "timer")
  BY <1>a, <1>c DEF Attached, Doing, tree
<1>2. mu \in [Ctx -> Goroutine \union {Nil}]
  BY ContextTypes
<1>3. ContextTypeOK' /\ (\A c \in Ctx : Closed(c)' => Closed(c))
  BY <1>1, <1>2 DEF ContextInv, ContextTypeOK, Closed
<1>4. \A c \in Ctx : mu'[c] = mu[c] \/ Holds(v, c)
  BY <1>c, <1>1, <1>2 DEF Holds
<1>5. v.at \in WithPlaces /\ v.at \notin EarlyPlaces /\ "timer" \in WithPlaces /\ "timer" \notin EarlyPlaces
  BY <1>1 DEF WithPlaces, EarlyPlaces
<1> QED
  BY <1>a, <1>b, <1>c, <1>1, <1>3, <1>4, <1>5, GoOnInv

LEMMA SetTimerInv ==
    ASSUME ContextInv, NEW g \in Goroutine, SetTimer(g)
    PROVE  ContextInv'
<1>a. PICK v : v = Top(g)
  OBVIOUS
<1>b. PICK d : d = Depth(g)
  OBVIOUS
<1>c. PICK p : p = parent[v.c]
  OBVIOUS
<1>1. /\ stack[g] # <<>> /\ v.at = "timer" /\ Leave(g) /\ known' = known \union {v.c}
      /\ timer' = IF v.c \in timed /\ err[v.c] = Nil THEN [timer EXCEPT ![v.c] = "set"] ELSE timer
      /\ UNCHANGED <<parent, removes, mu, done, children, err>>
  BY <1>a DEF SetTimer, Doing
<1>2. v.c \in Ctx /\ p # Nil /\ CtxOK(v.c) /\ v.at \in WithPlaces /\ v.c \notin known
  <2>1. v.at \in WithPlaces
    BY <1>1 DEF WithPlaces
  <2> QED
    BY <1>a, <1>b, <1>c, <1>1, <2>1, TopFacts, TopCall
<1>3. timer \in [Ctx -> {"none", "set", "fired"}]
  BY ContextTypes
<1>4. timer' \in [Ctx -> {"none", "set", "fired"}]
  <2>1. [timer EXCEPT ![v.c] = "set"] \in [Ctx -> {"none", "set", "fired"}]
    BY <1>3
  <2> QED
    BY <1>1, <1>3, <2>1
<1>5. ContextTypeOK' /\ (\A c \in Ctx : Closed(c)' => Closed(c))
  BY <1>c, <1>1, <1>2, <1>4 DEF ContextInv, ContextTypeOK, Closed
<1>6. timer[v.c] = "none"
  BY <1>2, <1>3 DEF CtxOK
<1>7. /\ \A c \in Ctx : timer'[c] = timer[c] \/ c = v.c
      /\ timer'[v.c] # "none" => v.c \in timed /\ err[v.c] = Nil
      /\ v.c \in timed /\ err[v.c] = Nil => timer'[v.c] = "set"
  <2>1. CASE v.c \in timed /\ err[v.c] = Nil
    <3>1. timer' = [timer EXCEPT ![v.c] = "set"]
      BY <1>1, <2>1
    <3> QED
      BY <1>2, <1>3, <2>1, <3>1
  <2>2. CASE ~(v.c \in timed /\ err[v.c] = Nil)
    <3>1. timer' = timer
      BY <1>1, <2>2
    <3> QED
      BY <1>6, <2>2, <3>1
  <2> QED
    BY <2>1, <2>2
<1> QED
  BY <1>a, <1>b, <1>c, <1>1, <1>5, <1>7, LeaveInv

LEMMA TooLateInv ==
    ASSUME ContextInv, NEW g \in Goroutine, TooLate(g)
    PROVE  ContextInv'
<1>a. PICK v : v = Top(g)
  OBVIOUS
<1>b. PICK d : d = Depth(g)
  OBVIOUS
<1>c. PICK p : p = parent[v.c]
  OBVIOUS
<1>1. /\ stack[g] # <<>> /\ v.at = "timer" /\ removes' = removes \ {v.c}
      /\ Enter(g, Cancel(v.c, TRUE, DeadlineExceeded), "late")
      /\ UNCHANGED <<parent, known, mu, done, children, err, timer>>
  BY <1>a DEF TooLate, Doing
<1>2. v.c \in Ctx
  BY <1>a, <1>b, <1>1, TopFacts
<1>3. ContextTypeOK'
  BY <1>1 DEF ContextInv, ContextTypeOK
<1>4. PICK f : f = Cancel(v.c, TRUE, DeadlineExceeded)
  OBVIOUS
<1>5. f \in Calls /\ f.at = "cancel" /\ f.c = v.c /\ f.err # Nil /\ f.todo = {} /\ f.remove
  BY <1>2, <1>4, ContextNames DEF Cancel, Frame, Calls, CancelPlaces
<1>6. Enter(g, f, "late")
  BY <1>1, <1>4
<1> QED
  BY <1>a, <1>b, <1>c, <1>1, <1>3, <1>5, <1>6, EnterInv

LEMMA WithReturnsInv ==
    ASSUME ContextInv, NEW g \in Goroutine, WithReturns(g)
    PROVE  ContextInv'
<1>a. PICK v : v = Top(g)
  OBVIOUS
<1>b. PICK d : d = Depth(g)
  OBVIOUS
<1>c. PICK p : p = parent[v.c]
  OBVIOUS
<1>1. /\ stack[g] # <<>> /\ v.at = "late" /\ Leave(g) /\ known' = known \union {v.c}
      /\ UNCHANGED <<parent, removes, mu, done, children, err, timer>>
  BY <1>a DEF WithReturns, Doing
<1>2. v.c \in Ctx /\ p # Nil
  BY <1>a, <1>b, <1>c, <1>1, TopFacts, TopCall
<1>3. ContextTypeOK' /\ (\A c \in Ctx : Closed(c)' => Closed(c))
  BY <1>c, <1>1, <1>2 DEF ContextInv, ContextTypeOK, Closed
<1> QED
  BY <1>a, <1>b, <1>c, <1>1, <1>3, LeaveInv

(* The context was cancelled before, or is cancelled now. *)
LEMMA LockCancelInv ==
    ASSUME ContextInv, NEW g \in Goroutine, LockCancel(g)
    PROVE  ContextInv'
<1>a. PICK v : v = Top(g)
  OBVIOUS
<1>b. PICK d : d = Depth(g)
  OBVIOUS
<1>c. PICK p : p = parent[v.c]
  OBVIOUS
<1>1. /\ stack[g] # <<>> /\ v.at = "cancel" /\ mu[v.c] = Nil
      /\ UNCHANGED <<parent, known, removes, children, timer>>
      /\ \/ err[v.c] # Nil /\ Rest(g, FALSE) /\ UNCHANGED <<mu, done, err>>
         \/ /\ err[v.c] = Nil
            /\ mu' = [mu EXCEPT ![v.c] = g]
            /\ err' = [err EXCEPT ![v.c] = v.err]
            /\ done' = [done EXCEPT ![v.c] = IF @ = "nil" THEN "closedchan" ELSE "closed"]
            /\ stack' = [stack EXCEPT ![g] = <<[@[1] EXCEPT !.at = "children",
                                                            !.todo = children[v.c]]>> \o Tail(@)]
  BY <1>a DEF LockCancel, Doing, tree, Free
<1>2. /\ v.c \in Ctx /\ v \in Calls /\ v = stack[g][1] /\ v.at \in CancelPlaces
      /\ v.at \notin WithPlaces /\ v.at \notin EarlyPlaces
  BY <1>a, <1>b, <1>1, TopFacts DEF CancelPlaces, WithPlaces, EarlyPlaces
<1>3. CASE err[v.c] # Nil /\ Rest(g, FALSE) /\ UNCHANGED <<mu, done, err>>
  <2>1. ContextTypeOK' /\ (\A c \in Ctx : Closed(c)' => Closed(c))
    BY <1>1, <1>3 DEF ContextInv, ContextTypeOK, Closed
  <2>2. GoOn(g, "remove") \/ GoOn(g, "stop") \/ (v.c \notin timed /\ Leave(g))
    BY <1>a, <1>3 DEF Rest
  <2>3. CASE GoOn(g, "remove")
    <3>1. "remove" \notin EarlyPlaces
      BY DEF EarlyPlaces
    <3> QED
      BY <1>a, <1>b, <1>c, <1>1, <1>2, <1>3, <2>1, <2>3, <3>1, GoOnInv
  <2>4. CASE GoOn(g, "stop")
    <3>1. "stop" \notin EarlyPlaces
      BY DEF EarlyPlaces
    <3> QED
      BY <1>a, <1>b, <1>c, <1>1, <1>2, <1>3, <2>1, <2>4, <3>1, GoOnInv
  <2>5. CASE Leave(g)
    BY <1>a, <1>b, <1>c, <1>1, <1>2, <1>3, <2>1, <2>5, LeaveInv
  <2> QED
    BY <2>2, <2>3, <2>4, <2>5
<1>4. CASE /\ err[v.c] = Nil
           /\ mu' = [mu EXCEPT ![v.c] = g]
           /\ err' = [err EXCEPT ![v.c] = v.err]
           /\ done' = [done EXCEPT ![v.c] = IF @ = "nil" THEN "closedchan" ELSE "closed"]
           /\ stack' = [stack EXCEPT ![g] = <<[@[1] EXCEPT !.at = "children",
                                                           !.todo = children[v.c]]>> \o Tail(@)]
  <2>1. /\ mu' \in [Ctx -> Goroutine \union {Nil}]
        /\ err' \in [Ctx -> {Nil, Canceled, DeadlineExceeded}]
        /\ done' \in [Ctx \union {Foreign} -> {"nil", "open", "closed", "closedchan"}]
    <3>1. v.err \in {Nil, Canceled, DeadlineExceeded}
      BY <1>2 DEF Calls
    <3> QED
      BY <1>2, <1>4, <3>1, ContextTypes
  <2>2. ContextTypeOK'
    BY <1>1, <2>1 DEF ContextInv, ContextTypeOK
  <2>3. PICK x : x = [v EXCEPT !.at = "children", !.todo = children[v.c]]
    OBVIOUS
  <2>4. children[v.c] \subseteq Ctx
    BY <1>2, ContextTypes
  <2>5. /\ x \in Calls /\ x.at = "children" /\ x.c = v.c
        /\ x.remove = v.remove /\ x.err = v.err /\ x.todo = children[v.c]
    BY <1>2, <2>3, <2>4 DEF Calls, CancelPlaces
  <2>6. stack' = [stack EXCEPT ![g] = <<x>> \o Tail(@)]
    BY <1>2, <1>4, <2>3
  <2> QED
    BY <1>a, <1>b, <1>1, <1>4, <2>2, <2>5, <2>6, FirstCancelInv
<1> QED
  BY <1>1, <1>3, <1>4

LEMMA CancelChildStepInv ==
    ASSUME ContextInv, NEW g \in Goroutine, CancelChild(g)
    PROVE  ContextInv'
<1>a. PICK v : v = Top(g)
  OBVIOUS
<1>b. PICK d : d = Depth(g)
  OBVIOUS
<1>1. /\ stack[g] # <<>> /\ v.at = "children"
      /\ UNCHANGED <<parent, known, removes, mu, done, children, err, timer>>
  BY <1>a DEF CancelChild, Doing, tree
<1>2. PICK child \in v.todo :
          stack' = [stack EXCEPT ![g] = <<Cancel(child, FALSE, v.err),
                                          [@[1] EXCEPT !.todo = v.todo \ {child}]>> \o Tail(@)]
  BY <1>a DEF CancelChild
<1>3. v \in Calls /\ v = stack[g][1]
  BY <1>a, <1>b, <1>1, TopFacts
<1>4. v.todo \subseteq Ctx /\ v.err \in {Nil, Canceled, DeadlineExceeded} /\ child \in Ctx
  BY <1>2, <1>3 DEF Calls
<1>5. ContextTypeOK'
  BY <1>1 DEF ContextInv, ContextTypeOK
<1>6. PICK f : f = Cancel(child, FALSE, v.err)
  OBVIOUS
<1>7. f \in Calls /\ f.at = "cancel" /\ f.c = child /\ ~f.remove /\ f.err = v.err /\ f.todo = {}
  BY <1>4, <1>6 DEF Cancel, Frame, Calls, CancelPlaces
<1>8. PICK x : x = [v EXCEPT !.todo = v.todo \ {child}]
  OBVIOUS
<1>9. /\ x \in Calls /\ x.at = "children" /\ x.c = v.c
      /\ x.remove = v.remove /\ x.err = v.err /\ x.todo = v.todo \ {child}
  BY <1>1, <1>3, <1>8 DEF Calls
<1>10. stack' = [stack EXCEPT ![g] = <<f, x>> \o Tail(@)]
  BY <1>2, <1>3, <1>6, <1>8
<1>11. child \in v.todo
  BY <1>2
<1> QED
  BY <1>a, <1>b, <1>1, <1>5, <1>7, <1>9, <1>10, <1>11, CancelChildInv

LEMMA UnlockCancelInv ==
    ASSUME ContextInv, NEW g \in Goroutine, UnlockCancel(g)
    PROVE  ContextInv'
<1>a. PICK v : v = Top(g)
  OBVIOUS
<1>b. PICK d : d = Depth(g)
  OBVIOUS
<1>c. PICK p : p = parent[v.c]
  OBVIOUS
<1>1. /\ stack[g] # <<>> /\ v.at = "children" /\ v.todo = {}
      /\ children' = [children EXCEPT ![v.c] = {}]
      /\ mu' = [mu EXCEPT ![v.c] = Nil]
      /\ UNCHANGED <<parent, known, removes, done, err, timer>>
  BY <1>a DEF UnlockCancel, Doing, tree
<1>2. /\ v.c \in Ctx /\ v.at \in CancelPlaces /\ v.at \notin WithPlaces /\ v.at \notin EarlyPlaces
  BY <1>a, <1>b, <1>1, TopFacts DEF CancelPlaces, WithPlaces, EarlyPlaces
<1>3. children \in [Ctx -> SUBSET Ctx] /\ mu \in [Ctx -> Goroutine \union {Nil}]
  BY ContextTypes
<1>4. ContextTypeOK' /\ (\A c \in Ctx : Closed(c)' => Closed(c))
  <2>1. children' \in [Ctx -> SUBSET Ctx]
    BY <1>1, <1>3
  <2>2. mu' \in [Ctx -> Goroutine \union {Nil}]
    BY <1>1, <1>3
  <2> QED
    BY <1>1, <2>1, <2>2 DEF ContextInv, ContextTypeOK, Closed
<1>5. /\ \A c \in Ctx : mu'[c] = mu[c] \/ Holds(v, c)
      /\ children'[v.c] = {}
      /\ \A b \in Ctx : children'[b] \subseteq children[b]
      /\ \A b, c \in Ctx : (c \in children[b] => c \in children'[b]) \/ (b = v.c /\ v.at = "children")
  BY <1>1, <1>2, <1>3 DEF Holds
<1>6. \/ GoOn(g, "remove")
      \/ ~v.remove /\ GoOn(g, "stop")
      \/ v.c \notin timed /\ ~v.remove /\ Leave(g)
  BY <1>a DEF UnlockCancel, Rest
<1>7. "remove" \notin EarlyPlaces /\ "stop" \notin EarlyPlaces
  BY DEF EarlyPlaces
<1>8. CASE GoOn(g, "remove")
  BY <1>a, <1>b, <1>c, <1>1, <1>2, <1>4, <1>5, <1>7, <1>8, GoOnInv
<1>9. CASE ~v.remove /\ GoOn(g, "stop")
  BY <1>a, <1>b, <1>c, <1>1, <1>2, <1>4, <1>5, <1>7, <1>9, GoOnInv
<1>10. CASE v.c \notin timed /\ ~v.remove /\ Leave(g)
  BY <1>a, <1>b, <1>c, <1>1, <1>2, <1>4, <1>5, <1>10, LeaveInv
<1> QED
  BY <1>6, <1>8, <1>9, <1>10

LEMMA RemoveChildInv ==
    ASSUME ContextInv, NEW g \in Goroutine, RemoveChild(g)
    PROVE  ContextInv'
<1>a. PICK v : v = Top(g)
  OBVIOUS
<1>b. PICK d : d = Depth(g)
  OBVIOUS
<1>c. PICK p : p = parent[v.c]
  OBVIOUS
<1>1. /\ stack[g] # <<>> /\ v.at = "remove"
      /\ \/ p \in Ctx /\ children' = [children EXCEPT ![p] = @ \ {v.c}]
         \/ ~HasCancelCtx(p) /\ children' = children
      /\ \/ GoOn(g, "stop")
         \/ v.c \notin timed /\ Leave(g)
      /\ UNCHANGED <<parent, known, removes, mu, done, err, timer>>
  BY <1>a, <1>c DEF RemoveChild, Doing, tree, HasCancelCtx
<1>2. /\ v.c \in Ctx /\ v.at \in CancelPlaces /\ v.at \notin WithPlaces /\ v.at \notin EarlyPlaces
  BY <1>a, <1>b, <1>1, TopFacts DEF CancelPlaces, WithPlaces, EarlyPlaces
<1>3. children \in [Ctx -> SUBSET Ctx]
  BY ContextTypes
<1>4. /\ children' \in [Ctx -> SUBSET Ctx]
      /\ \A b \in Ctx : children'[b] \subseteq children[b]
      /\ \A b, c \in Ctx : (c \in children[b] => c \in children'[b]) \/ c = v.c
  <2>1. CASE p \in Ctx /\ children' = [children EXCEPT ![p] = @ \ {v.c}]
    BY <1>3, <2>1
  <2>2. CASE children' = children
    BY <1>3, <2>2
  <2> QED
    BY <1>1, <2>1, <2>2
<1>5. p \in Ctx => v.c \notin children'[p] \/ err[p] # Nil
  <2>1. CASE p \in Ctx /\ children' = [children EXCEPT ![p] = @ \ {v.c}]
    BY <1>3, <2>1
  <2>2. CASE ~HasCancelCtx(p)
    <3>1. p \in Ctx => Closed(p)
      BY <2>2 DEF HasCancelCtx, Closed
    <3>2. p \in Ctx => CtxOK(p)
      BY DEF ContextInv, CtxsOK
    <3> QED
      BY <3>1, <3>2 DEF CtxOK
  <2> QED
    BY <1>1, <2>1, <2>2
<1>6. ContextTypeOK' /\ (\A c \in Ctx : Closed(c)' => Closed(c))
  BY <1>1, <1>4 DEF ContextInv, ContextTypeOK, Closed
<1>7. "stop" \notin EarlyPlaces
  BY DEF EarlyPlaces
<1>8. CASE GoOn(g, "stop")
  BY <1>a, <1>b, <1>c, <1>1, <1>2, <1>4, <1>5, <1>6, <1>7, <1>8, GoOnInv
<1>9. CASE v.c \notin timed /\ Leave(g)
  BY <1>a, <1>b, <1>c, <1>1, <1>2, <1>4, <1>5, <1>6, <1>9, LeaveInv
<1> QED
  BY <1>1, <1>8, <1>9

LEMMA StopTimerInv ==
    ASSUME ContextInv, NEW g \in Goroutine, StopTimer(g)
    PROVE  ContextInv'
<1>a. PICK v : v = Top(g)
  OBVIOUS
<1>b. PICK d : d = Depth(g)
  OBVIOUS
<1>c. PICK p : p = parent[v.c]
  OBVIOUS
<1>1. /\ stack[g] # <<>> /\ v.at = "stop" /\ Leave(g) /\ timer' = [timer EXCEPT ![v.c] = "none"]
      /\ UNCHANGED <<parent, known, removes, mu, done, children, err>>
  BY <1>a DEF StopTimer, Doing, tree
<1>2. v.c \in Ctx /\ v.at \in CancelPlaces
  BY <1>a, <1>b, <1>1, TopFacts DEF CancelPlaces
<1>3. timer \in [Ctx -> {"none", "set", "fired"}]
  BY ContextTypes
<1>4. /\ timer' \in [Ctx -> {"none", "set", "fired"}] /\ timer'[v.c] = "none"
      /\ \A c \in Ctx : timer'[c] = timer[c] \/ c = v.c
  BY <1>1, <1>2, <1>3
<1>5. ContextTypeOK' /\ (\A c \in Ctx : Closed(c)' => Closed(c))
  BY <1>1, <1>4 DEF ContextInv, ContextTypeOK, Closed
<1> QED
  BY <1>a, <1>b, <1>c, <1>1, <1>2, <1>4, <1>5, LeaveInv

LEMMA WatchInv ==
    ASSUME ContextInv, NEW g \in Goroutine, Watch(g)
    PROVE  ContextInv'
<1>a. PICK v : v = Top(g)
  OBVIOUS
<1>b. PICK d : d = Depth(g)
  OBVIOUS
<1>c. PICK p : p = parent[v.c]
  OBVIOUS
<1>1. /\ stack[g] # <<>>
      /\ UNCHANGED <<parent, known, removes, mu, children, err, timer>>
      /\ \/ v.at = "watch" /\ MakeDone(v.c) /\ GoOn(g, "watching")
         \/ /\ v.at = "watching" /\ done' = done
            /\ stack' = [stack EXCEPT ![g] = <<Cancel(v.c, FALSE, Canceled)>>]
         \/ v.at = "watching" /\ done' = done /\ Closed(v.c) /\ Leave(g)
  BY <1>a DEF Watch, Doing, tree
<1>2. v.c \in Ctx /\ CtxOK(v.c)
  BY <1>a, <1>b, <1>1, TopFacts
<1>3. /\ done' \in [Ctx \union {Foreign} -> {"nil", "open", "closed", "closedchan"}]
      /\ \A c \in Ctx : Closed(c)' => Closed(c)
  <2>1. CASE MakeDone(v.c)
    BY <2>1, MakeDoneOK
  <2>2. CASE done' = done
    BY <2>2, ContextTypes DEF Closed
  <2> QED
    BY <1>1, <2>1, <2>2
<1>4. ContextTypeOK'
  BY <1>1, <1>3 DEF ContextInv, ContextTypeOK
<1>5. CASE v.at = "watch" /\ MakeDone(v.c) /\ GoOn(g, "watching")
  <2>1. /\ v.at \in WatchPlaces /\ v.at \notin CancelPlaces /\ v.at \notin EarlyPlaces
        /\ "watching" \notin EarlyPlaces
    BY <1>5 DEF WatchPlaces, CancelPlaces, EarlyPlaces
  <2> QED
    BY <1>a, <1>b, <1>c, <1>1, <1>3, <1>4, <1>5, <2>1, GoOnInv
<1>6. CASE /\ v.at = "watching" /\ done' = done
           /\ stack' = [stack EXCEPT ![g] = <<Cancel(v.c, FALSE, Canceled)>>]
  <2>1. PICK f : f = Cancel(v.c, FALSE, Canceled)
    OBVIOUS
  <2>2. f \in Calls /\ f.at = "cancel" /\ f.c = v.c /\ f.err # Nil /\ f.todo = {}
    BY <1>2, <2>1, ContextNames DEF Cancel, Frame, Calls, CancelPlaces
  <2>3. stack' = [stack EXCEPT ![g] = <<f>>]
    BY <1>6, <2>1
  <2>4. PICK c \in Ctx : c = v.c
    BY <1>2
  <2> QED
    <3>1. f.c = c /\ v.at = "watching" /\ done' = done
      BY <1>6, <2>2, <2>4
    <3> QED
      BY <1>a, <1>1, <1>4, <2>2, <2>3, <2>4, <3>1, WatchedInv
<1>7. CASE v.at = "watching" /\ done' = done /\ Closed(v.c) /\ Leave(g)
  <2>1. v.at \in WatchPlaces
    BY <1>7 DEF WatchPlaces
  <2>2. err[v.c] # Nil
    BY <1>2, <1>7 DEF CtxOK
  <2> QED
    BY <1>a, <1>b, <1>c, <1>1, <1>3, <1>4, <1>7, <2>1, <2>2, LeaveInv
<1> QED
  BY <1>1, <1>5, <1>6, <1>7

LEMMA CancelFuncInv ==
    ASSUME ContextInv, NEW u \in User, NEW c \in Ctx, CancelFunc(u, c)
    PROVE  ContextInv'
<1>1. /\ u \in Goroutine /\ stack[u] = <<>> /\ c \in known
      /\ stack' = [stack EXCEPT ![u] = <<Cancel(c, c \in removes, Canceled)>>]
      /\ UNCHANGED <<parent, known, mu, done, children, err, timer, removes>>
  BY ContextNames DEF CancelFunc, tree
<1>2. ASSUME NEW r \in BOOLEAN, stack' = [stack EXCEPT ![u] = <<Cancel(c, r, Canceled)>>],
             r \/ c \notin removes
      PROVE  ContextInv'
  <2>1. PICK f : f = Cancel(c, r, Canceled)
    OBVIOUS
  <2>2. /\ f \in Calls /\ f.at = "cancel" /\ f.c = c /\ f.err # Nil /\ f.todo = {}
        /\ f.remove = r
    BY <2>1, ContextNames DEF Cancel, Frame, Calls, CancelPlaces
  <2>3. stack' = [stack EXCEPT ![u] = <<f>>]
    BY <1>2, <2>1
  <2>4. ContextTypeOK'
    BY <1>1 DEF ContextInv, ContextTypeOK
  <2>5. f.c \in known /\ (f.remove \/ f.c \notin removes)
    BY <1>1, <1>2, <2>2
  <2> QED
    BY <1>1, <2>2, <2>3, <2>4, <2>5, StartInv
<1>3. CASE c \in removes
  <2>1. (c \in removes) = TRUE
    BY <1>3
  <2>2. stack' = [stack EXCEPT ![u] = <<Cancel(c, TRUE, Canceled)>>]
    BY <1>1, <2>1
  <2> QED
    BY <1>2, <2>2
<1>4. CASE c \notin removes
  <2>1. (c \in removes) = FALSE
    BY <1>4
  <2>2. stack' = [stack EXCEPT ![u] = <<Cancel(c, FALSE, Canceled)>>]
    BY <1>1, <2>1
  <2> QED
    BY <1>2, <1>4, <2>2
<1> QED
  BY <1>3, <1>4

LEMMA FireInv ==
    ASSUME ContextInv, NEW c \in Ctx, Fire(c)
    PROVE  ContextInv'
<1>1. /\ timer[c] = "set" /\ timer' = [timer EXCEPT ![c] = "fired"]
      /\ stack' = [stack EXCEPT ![Timer(c)] = <<Cancel(c, TRUE, DeadlineExceeded)>>]
      /\ UNCHANGED <<parent, known, mu, done, children, err, removes>>
  BY DEF Fire, tree
<1>2. CtxOK(c)
  BY DEF ContextInv, CtxsOK
<1>3. stack[Timer(c)] = <<>> /\ c \in known
  BY <1>1, <1>2 DEF CtxOK
<1>4. PICK g \in Goroutine : g = Timer(c)
  BY ContextNames
<1>5. PICK f : f = Cancel(c, TRUE, DeadlineExceeded)
  OBVIOUS
<1>6. /\ f \in Calls /\ f.at = "cancel" /\ f.c = c /\ f.err # Nil /\ f.todo = {}
      /\ f.remove
  BY <1>5, ContextNames DEF Cancel, Frame, Calls, CancelPlaces
<1>7. stack' = [stack EXCEPT ![g] = <<f>>]
  BY <1>1, <1>4, <1>5
<1>8. timer' \in [Ctx -> {"none", "set", "fired"}]
  BY <1>1, ContextTypes
<1>9. ContextTypeOK'
  BY <1>1, <1>8 DEF ContextInv, ContextTypeOK
<1>10. /\ f.c \in known /\ stack[g] = <<>> /\ g = Timer(f.c) /\ timer[f.c] = "set"
       /\ timer' = [timer EXCEPT ![f.c] = "fired"]
  BY <1>1, <1>3, <1>4, <1>6
<1> QED
  BY <1>1, <1>6, <1>7, <1>9, <1>10, StartInv

LEMMA MadeDoneInv ==
    ASSUME ContextInv, NEW c \in Ctx, Done(c)
    PROVE  ContextInv'
<1>1. MakeDone(c) /\ UNCHANGED <<parent, known, mu, children, err, timer, removes, stack>>
  BY DEF Done, tree
<1>2. /\ done' \in [Ctx \union {Foreign} -> {"nil", "open", "closed", "closedchan"}]
      /\ \A b \in Ctx : Closed(b)' => Closed(b)
  BY <1>1, MakeDoneOK
<1>3. ContextTypeOK'
  BY <1>1, <1>2 DEF ContextInv, ContextTypeOK
<1> QED
  BY <1>1, <1>2, <1>3, DoneInv

LEMMA CloseForeignInv ==
    ASSUME ContextInv, CloseForeign
    PROVE  ContextInv'
<1>1. /\ done' = [done EXCEPT ![Foreign] = "closed"]
      /\ UNCHANGED <<parent, known, mu, children, err, timer, removes, stack>>
  BY DEF CloseForeign, tree
<1>2. /\ done' \in [Ctx \union {Foreign} -> {"nil", "open", "closed", "closedchan"}]
      /\ \A b \in Ctx : Closed(b)' => Closed(b)
  BY <1>1, ContextTypes, ContextNames DEF Closed
<1>3. ContextTypeOK'
  BY <1>1, <1>2 DEF ContextInv, ContextTypeOK
<1> QED
  BY <1>1, <1>2, <1>3, DoneInv

LEMMA MadeInv ==
    ASSUME ContextInv, NEW u \in User, NEW c \in Ctx,
           NEW p \in Ctx \union {Background, Foreign}, With(u, c, p)
    PROVE  ContextInv'
<1>1. /\ parent' = [parent EXCEPT ![c] = p]
      /\ UNCHANGED <<known, mu, done, children, err, timer>>
  BY DEF With
<1>2. parent' \in [Ctx -> Ctx \union {Background, Foreign, Nil}]
  BY <1>1, ContextTypes
<1>3. known \subseteq {b \in Ctx : parent[b] # Nil}
  BY DEF ContextInv, ContextTypeOK
<1>4. \A b \in Ctx : parent[b] # Nil => parent'[b] # Nil
  BY <1>1, ContextTypes, ContextNames
<1>5. known' \subseteq {b \in Ctx : parent'[b] # Nil}
  BY <1>1, <1>3, <1>4
<1>6. ContextTypeOK'
  BY <1>1, <1>2, <1>5 DEF ContextInv, ContextTypeOK
<1> QED
  BY <1>6, WithInv

-----------------------------------------------------------------------------
(* The invariant holds at first, and every step keeps it. *)

LEMMA ContextInitInv == ContextInit => ContextInv
<1> SUFFICES ASSUME ContextInit PROVE ContextInv
  OBVIOUS
<1>1. /\ parent = [c \in Ctx |-> Nil] /\ known = {} /\ removes = {}
      /\ mu = [c \in Ctx |-> Nil]
      /\ done = [c \in Ctx \union {Foreign} |-> IF c = Foreign THEN "open" ELSE "nil"]
      /\ children = [c \in Ctx |-> {}]
      /\ err = [c \in Ctx |-> Nil]
      /\ timer = [c \in Ctx |-> "none"]
      /\ stack = [g \in Goroutine |-> <<>>]
  BY DEF ContextInit
<1>2. ContextTypeOK
  BY <1>1 DEF ContextTypeOK
<1>3. StackOK
  BY <1>1 DEF StackOK
<1>4. \A g \in Goroutine : stack[g] = <<>> /\ Depth(g) = 0
  BY <1>1 DEF Depth
<1>5. CallsOK /\ PairsOK
  BY <1>4 DEF CallsOK, PairsOK
<1>6. ASSUME NEW c \in Ctx PROVE CtxOK(c)
  <2>1. /\ parent[c] = Nil /\ c \notin known /\ ~Closed(c) /\ children[c] = {} /\ err[c] = Nil
        /\ timer[c] = "none" /\ stack[Timer(c)] = <<>>
    BY <1>1, <1>4, ContextNames DEF Closed
  <2> QED
    BY <2>1, ContextNames DEF CtxOK
<1> QED
  BY <1>2, <1>3, <1>5, <1>6 DEF ContextInv, CtxsOK

LEMMA ContextStepInv ==
    ASSUME ContextInv, NEW g \in Goroutine, ContextStep(g)
    PROVE  ContextInv'
<1>1. ParentDone(g) => ContextInv'
  BY ParentDoneInv
<1>2. Select(g) => ContextInv'
  BY SelectInv
<1>3. ParentErr(g) => ContextInv'
  BY ParentErrInv
<1>4. Attach(g) => ContextInv'
  BY AttachInv
<1>5. Attached(g) => ContextInv'
  BY AttachedInv
<1>6. SetTimer(g) => ContextInv'
  BY SetTimerInv
<1>7. TooLate(g) => ContextInv'
  BY TooLateInv
<1>8. WithReturns(g) => ContextInv'
  BY WithReturnsInv
<1>9. LockCancel(g) => ContextInv'
  BY LockCancelInv
<1>10. CancelChild(g) => ContextInv'
  BY CancelChildStepInv
<1>11. UnlockCancel(g) => ContextInv'
  BY UnlockCancelInv
<1>12. RemoveChild(g) => ContextInv'
  BY RemoveChildInv
<1>13. StopTimer(g) => ContextInv'
  BY StopTimerInv
<1>14. Watch(g) => ContextInv'
  BY WatchInv
<1> QED
  BY <1>1, <1>2, <1>3, <1>4, <1>5, <1>6, <1>7, <1>8, <1>9, <1>10, <1>11, <1>12, <1>13, <1>14
     DEF ContextStep

LEMMA ContextNextInv == ContextInv /\ [ContextNext]_contextVars => ContextInv'
<1> SUFFICES ASSUME ContextInv, [ContextNext]_contextVars PROVE ContextInv'
  OBVIOUS
<1>1. CASE UNCHANGED contextVars
  <2>1. UNCHANGED <<parent, known, mu, done, children, err, timer, removes, stack>>
    BY <1>1 DEF contextVars
  <2>2. ContextTypeOK' /\ \A c \in Ctx : Closed(c)' => Closed(c)
    BY <2>1 DEF ContextInv, ContextTypeOK, Closed
  <2> QED
    BY <2>1, <2>2, DoneInv
<1>2. ASSUME NEW u \in User, NEW c \in Ctx, CancelFunc(u, c) PROVE ContextInv'
  BY <1>2, CancelFuncInv
<1>3. ASSUME NEW u \in User, NEW c \in Ctx, NEW p \in Ctx \union {Background, Foreign}, With(u, c, p)
      PROVE  ContextInv'
  BY <1>3, MadeInv
<1>4. ASSUME NEW c \in Ctx, Fire(c) PROVE ContextInv'
  BY <1>4, FireInv
<1>5. ASSUME NEW c \in Ctx, Done(c) PROVE ContextInv'
  BY <1>5, MadeDoneInv
<1>6. CASE CloseForeign
  BY <1>6, CloseForeignInv
<1>7. ASSUME NEW g \in Goroutine, ContextStep(g) PROVE ContextInv'
  BY <1>7, ContextStepInv
<1> QED
  BY <1>1, <1>2, <1>3, <1>4, <1>5, <1>6, <1>7 DEF ContextNext

LEMMA ContextInvariant == ContextSpec => []ContextInv
<1>1. ContextInit => ContextInv
  BY ContextInitInv
<1>2. ContextInv /\ [ContextNext]_contextVars => ContextInv'
  BY ContextNextInv
<1> QED
  BY <1>1, <1>2, PTL DEF ContextSpec

-----------------------------------------------------------------------------
(* What the invariant says about a context that With... has returned. *)

(* A call of a chain that is not a child's or the maker's own. *)
LEMMA CallFacts ==
    ASSUME ContextInv, NEW g \in Goroutine, NEW k \in 1..Depth(g), NEW f, f = CallAt(g, k)
    PROVE  /\ f \in Calls /\ f.c \in Ctx
           /\ f.at \in WithPlaces => f.c \notin known
           /\ f.at = "children" => /\ err[f.c] # Nil /\ mu[f.c] # Nil
                                   /\ \A c \in f.todo : parent[c] = f.c
<1>1. f \in Calls
  BY StackTop, ContextTypes
<1>2. CallOK(g, k)
  BY DEF ContextInv, CallsOK
<1>3. f.c \in Ctx
  BY <1>1 DEF Calls
<1>4. f.at \in WithPlaces => f.c \notin known
  BY <1>2 DEF CallOK
<1>5. f.at = "children" => err[f.c] # Nil /\ \A c \in f.todo : parent[c] = f.c
  BY <1>2 DEF CallOK
<1>6. f.at = "children" => mu[f.c] = g
  BY <1>2, <1>3 DEF CallOK, Holds
<1> QED
  BY <1>1, <1>3, <1>4, <1>5, <1>6, ContextNames

(* Whoever is not cancelled is among the children of a parent that is not, *)
(* or the parent is being cancelled under its mutex.                       *)
LEMMA KnownFacts ==
    ASSUME ContextInv, NEW c \in known, NEW p, p = parent[c]
    PROVE  /\ c \in Ctx /\ ~Early(c)
           /\ Awaits(c) \/ Joining(c) => p \in Ctx /\ err[p] # Nil /\ mu[p] # Nil
           /\ Locked(c) => mu[c] # Nil
           /\ Cancelling(c) \/ Removing(c) => Busy(c)
<1>1. c \in Ctx
  BY ContextTypes
<1>2. ~Early(c)
  <2> SUFFICES ASSUME NEW g \in Goroutine, NEW k \in 1..Depth(g),
                      CallAt(g, k).c = c, CallAt(g, k).at \in EarlyPlaces
               PROVE  FALSE
    BY DEF Early
  <2> QED
    BY CallFacts DEF WithPlaces
<1>3. Awaits(c) => p \in Ctx /\ err[p] # Nil /\ mu[p] # Nil
  <2> SUFFICES ASSUME NEW g \in Goroutine, NEW k \in 1..Depth(g),
                      CallAt(g, k).at = "children", c \in CallAt(g, k).todo
               PROVE  p \in Ctx /\ err[p] # Nil /\ mu[p] # Nil
    BY DEF Awaits
  <2>1. PICK f : f = CallAt(g, k)
    OBVIOUS
  <2> QED
    BY <2>1, CallFacts
<1>4. Joining(c) => p \in Ctx /\ err[p] # Nil /\ mu[p] # Nil
  <2> SUFFICES ASSUME NEW g \in Goroutine, Depth(g) > 1,
                      \/ CallAt(g, Depth(g) - 1).c = c /\ CallAt(g, Depth(g) - 1).at \in WithPlaces
                      \/ CallAt(g, Depth(g) - 1).c = p /\ CallAt(g, Depth(g) - 1).at = "children"
               PROVE  p \in Ctx /\ err[p] # Nil /\ mu[p] # Nil
    BY DEF Joining
  <2>1. PICK k : k = Depth(g) - 1
    OBVIOUS
  <2>2. Depth(g) \in Nat
    BY StackTop, ContextTypes
  <2>3. k \in 1..Depth(g)
    BY <2>1, <2>2
  <2>4. PICK f : f = CallAt(g, k)
    OBVIOUS
  <2>5. (f.c = c /\ f.at \in WithPlaces) \/ (f.c = p /\ f.at = "children")
    BY <2>1, <2>4
  <2> QED
    BY <2>3, <2>4, <2>5, CallFacts
<1>5. Locked(c) => mu[c] # Nil
  <2> SUFFICES ASSUME NEW g \in Goroutine, NEW k \in 1..Depth(g),
                      CallAt(g, k).c = c, CallAt(g, k).at = "children"
               PROVE  mu[c] # Nil
    BY DEF Locked
  <2> QED
    BY CallFacts
<1>6. ASSUME NEW g \in Goroutine, NEW k \in 1..Depth(g), CallAt(g, k).c = c
      PROVE  Busy(c)
  <2>1. Depth(g) \in Nat
    BY StackTop, ContextTypes
  <2>2. PICK i : i = Depth(g) + 1 - k
    OBVIOUS
  <2>3. i \in 1..Len(stack[g]) /\ stack[g][i].c = c
    BY <1>6, <2>1, <2>2 DEF Depth, CallAt
  <2> QED
    BY <2>3 DEF Busy
<1>7. Cancelling(c) \/ Removing(c) => Busy(c)
  BY <1>6 DEF Cancelling, Removing
<1> QED
  BY <1>1, <1>2, <1>3, <1>4, <1>5, <1>7

LEMMA TimerBusy ==
    ASSUME ContextInv, NEW c \in Ctx, stack[Timer(c)] # <<>>
    PROVE  Busy(c)
<1>1. PICK g \in Goroutine : g = Timer(c)
  BY ContextNames
<1>2. Depth(g) \in Nat /\ Depth(g) > 0
  BY <1>1, StackTop, ContextTypes
<1>3. 1 \in 1..Depth(g)
  BY <1>2
<1>4. CallOK(g, 1)
  BY <1>3 DEF ContextInv, CallsOK
<1>5. CallAt(g, 1).c = c
  BY <1>1, <1>4 DEF CallOK
<1>6. PICK i : i = Depth(g)
  OBVIOUS
<1>7. i \in 1..Len(stack[g]) /\ stack[g][i].c = c
  BY <1>2, <1>5, <1>6 DEF CallAt, Depth
<1> QED
  BY <1>7 DEF Busy

LEMMA CancelledHolds == ContextInv => Cancelled
<1> SUFFICES ASSUME ContextInv PROVE Cancelled
  OBVIOUS
<1>1. ContextTypeOK
  BY DEF ContextInv
<1>2. ASSUME NEW c \in known, parent[c] \in Ctx, err[parent[c]] # Nil, Free(parent[c]), err[c] = Nil
      PROVE  FALSE
  <2>1. PICK p : p = parent[c]
    OBVIOUS
  <2>2. /\ c \in Ctx /\ ~Early(c)
        /\ Awaits(c) \/ Joining(c) => mu[p] # Nil
    BY <2>1, KnownFacts
  <2>3. CtxOK(c)
    BY <2>2 DEF ContextInv, CtxsOK
  <2> QED
    BY <1>2, <2>1, <2>2, <2>3 DEF CtxOK, Free
<1> QED
  BY <1>1, <1>2 DEF Cancelled

LEMMA ReleasedHolds == ContextInv => Released
<1> SUFFICES ASSUME ContextInv, NEW c \in known, NEW p, p = parent[c]
             PROVE  /\ err[c] # Nil /\ ~Busy(c) =>
                           timer[c] # "set" /\ (p \in Ctx /\ Free(p) => c \notin children[p])
                    /\ err[c] = Nil =>
                           /\ p \in Ctx /\ err[p] = Nil => c \in children[p]
                           /\ p = Foreign => stack[Watcher(c)] # <<>>
                           /\ c \in timed => timer[c] = "set" \/ Busy(c)
  BY DEF Released
<1>1. /\ c \in Ctx /\ ~Early(c)
      /\ Awaits(c) \/ Joining(c) => p \in Ctx /\ err[p] # Nil /\ mu[p] # Nil
      /\ Cancelling(c) \/ Removing(c) => Busy(c)
  BY KnownFacts
<1>2. CtxOK(c)
  BY <1>1 DEF ContextInv, CtxsOK
<1>3. ASSUME err[c] # Nil, ~Busy(c) PROVE timer[c] # "set"
  BY <1>1, <1>2, <1>3 DEF CtxOK
<1>4. ASSUME err[c] # Nil, ~Busy(c), p \in Ctx, Free(p), c \in children[p] PROVE FALSE
  <2>1. err[p] # Nil
    BY <1>1, <1>2, <1>4 DEF CtxOK
  <2>2. CtxOK(p)
    BY <1>4 DEF ContextInv, CtxsOK
  <2>3. Locked(p)
    BY <1>4, <2>1, <2>2 DEF CtxOK
  <2>4. PICK g \in Goroutine :
            \E k \in 1..Depth(g) : CallAt(g, k).c = p /\ CallAt(g, k).at = "children"
    BY <2>3 DEF Locked
  <2>5. PICK k \in 1..Depth(g) : CallAt(g, k).c = p /\ CallAt(g, k).at = "children"
    BY <2>4
  <2>6. mu[p] # Nil
    BY <2>5, CallFacts
  <2> QED
    BY <1>4, <2>6 DEF Free
<1>5. ASSUME err[c] = Nil, p \in Ctx, err[p] = Nil PROVE c \in children[p]
  BY <1>1, <1>2, <1>5 DEF CtxOK
<1>6. ASSUME err[c] = Nil, p = Foreign PROVE stack[Watcher(c)] # <<>>
  BY <1>1, <1>2, <1>6, ContextNames DEF CtxOK
<1>7. ASSUME err[c] = Nil, c \in timed PROVE timer[c] = "set" \/ Busy(c)
  BY <1>1, <1>2, <1>7, TimerBusy DEF CtxOK
<1> QED
  BY <1>3, <1>4, <1>5, <1>6, <1>7

(* However cancellations from above, from timers and by CancelFuncs meet   *)
(* the making of contexts: once the mutex of a cancelled context is free,  *)
(* every context derived from it is cancelled, also one that joined late.  *)
THEOREM ContextCancelled == ContextSpec => []Cancelled
<1>1. ContextInv => Cancelled
  BY CancelledHolds
<1> QED
  BY <1>1, ContextInvariant, PTL

(* A cancelled context that nobody works on is held neither by a timer nor *)
(* by its parent, and one that is not cancelled is where its parent, its   *)
(* watcher and its timer will find it.                                     *)
THEOREM ContextReleased == ContextSpec => []Released
<1>1. ContextInv => Released
  BY ReleasedHolds
<1> QED
  BY <1>1, ContextInvariant, PTL
=============================================================================
