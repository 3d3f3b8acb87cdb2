-------------------- MODULE RuntimeSemaAndChannelProofs --------------------
(* Proofs about RuntimeSema: sema.go implements the semaphores of module    *)
(* Semaphore, for any number of goroutines and of words under one root.     *)
(* Proofs about Channel: the invariant of the hchans and of the goroutines  *)
(* that wait on them, for any number of channels and any buffer sizes.      *)
EXTENDS RuntimeSema, Channel, FiniteSetTheorems, SequenceTheorems,
        WellFoundedInduction, TLAPS

(* What SemaphoreProofs shows of the semaphores, read through the mapping. *)
SemP == INSTANCE SemaphoreProofs WITH req <- AbsReq

LEMMA SemPConstants == Nil \notin Proc /\ Nil \notin Addr /\ SemP!IsFiniteSet(Proc)
  BY RuntimeSemaConstants DEF IsFiniteSet, SemP!IsFiniteSet

(* The facts about wait queues that are shown there. *)
LEMMA RangeSeq ==
    ASSUME NEW S, NEW s \in Seq(S)
    PROVE  Range(s) \subseteq S
  BY SemPConstants, SemP!RangeSeq DEF Range, SemP!Range

LEMMA PrependFacts ==
    ASSUME NEW S, NEW s \in Seq(S), NEW x \in S
    PROVE  /\ <<x>> \o s \in Seq(S)
           /\ <<x>> \o s # <<>>
           /\ Range(<<x>> \o s) = Range(s) \union {x}
           /\ IsInjective(s) /\ x \notin Range(s) => IsInjective(<<x>> \o s)
  BY SemPConstants, SemP!PrependFacts DEF Range, SemP!Range, IsInjective, SemP!IsInjective

LEMMA AppendFacts ==
    ASSUME NEW S, NEW s \in Seq(S), NEW x \in S
    PROVE  /\ Append(s, x) \in Seq(S)
           /\ Append(s, x) # <<>>
           /\ Range(Append(s, x)) = Range(s) \union {x}
           /\ IsInjective(s) /\ x \notin Range(s) => IsInjective(Append(s, x))
  BY SemPConstants, SemP!AppendFacts DEF Range, SemP!Range, IsInjective, SemP!IsInjective

LEMMA TailFacts ==
    ASSUME NEW S, NEW s \in Seq(S), s # <<>>
    PROVE  /\ Tail(s) \in Seq(S)
           /\ Head(s) \in S /\ Head(s) \in Range(s)
           /\ Range(Tail(s)) \subseteq Range(s)
           /\ IsInjective(s) => IsInjective(Tail(s)) /\ Head(s) \notin Range(Tail(s))
  BY SemPConstants, SemP!TailFacts DEF Range, SemP!Range, IsInjective, SemP!IsInjective

LEMMA HeadTailRange ==
    ASSUME NEW S, NEW s \in Seq(S), s # <<>>
    PROVE  Range(s) = Range(Tail(s)) \union {Head(s)}
  BY SemPConstants, SemP!HeadTailRange DEF Range, SemP!Range

-----------------------------------------------------------------------------
Waiters == Queued \union {p \in Proc : At(p, "recheck") \/ At(p, "unwait")}

(* The treap holds every sleeping goroutine once, under its own word. *)
QueueOK ==
    \A a \in Addr :
        /\ IsInjective(queue[a])
        /\ \A t \in Range(queue[a]) : At(t, "parked") /\ call[t].addr = a

(* A release that has dequeued a waiter, and nobody else, holds on to it. *)
WhoOK ==
    \A r \in Proc :
        IF At(r, "handoff") \/ At(r, "goready")
        THEN /\ call[r].who \in Proc
             /\ At(call[r].who, "parked") /\ call[call[r].who].addr = call[r].addr
             /\ \A a \in Addr : call[r].who \notin Range(queue[a])
             /\ \A q \in Proc : call[q].who = call[r].who => q = r
        ELSE call[r].who = Nil

(* A sudog that has left the treap has left its priority there. *)
TicketOK == \A r \in Proc : At(r, "handoff") => ~ticket[call[r].who]

SemaInv == TypeOK /\ QueueOK /\ WhoOK /\ TicketOK /\ WaitersCounted /\ Asleep

(* The goroutines that nwait counts are finitely many. *)
LEMMA WaitersFinite ==
    ASSUME TypeOK
    PROVE  Waiters \subseteq Proc /\ IsFiniteSet(Waiters) /\ Cardinality(Waiters) \in Nat
<1>1. Waiters \in SUBSET Proc
  BY DEF TypeOK, Waiters, Queued, Range
<1>2. IsFiniteSet(Waiters)
  BY <1>1, RuntimeSemaConstants, FS_Subset
<1> QED
  BY <1>1, <1>2, FS_CardinalityType

(* A step changes the call of one goroutine and the rest within its types. *)
LEMMA CallStep ==
    ASSUME TypeOK, NEW p \in Proc, NEW c, call' = [call EXCEPT ![p] = c],
           c.at = "idle" \/ c.addr \in Addr,
           c \in CallState,
           sem' \in [Addr -> Nat], queue' \in [Addr -> Seq(Proc)], nwait' \in Nat,
           lock' \in Proc \union {Nil}, ticket' \in [Proc -> BOOLEAN], calls' \in Nat
    PROVE  TypeOK'
<1>1. call'[p] = c /\ \A q \in Proc : q # p => call'[q] = call[q]
  BY DEF TypeOK
<1>2. \A q \in Proc : call'[q].at = "idle" \/ call'[q].addr \in Addr
  BY <1>1 DEF TypeOK, At
<1>3. call' \in [Proc -> CallState]
  BY DEF TypeOK
<1> QED
  BY <1>2, <1>3 DEF TypeOK, At

(* Who waits, word by word. *)
LEMMA InQueued ==
    ASSUME NEW t
    PROVE  t \in Queued <=> \E a \in Addr : t \in Range(queue[a])
  BY DEF Queued

(* The places of a call that touch neither the treap nor a sleeper. *)
Plain == {"idle", "easy", "lock", "resumed", "xadd", "load", "dequeue"}

(* A step of p between two such places. *)
LEMMA PlainStep ==
    ASSUME SemaInv, TypeOK', NEW p \in Proc, queue' = queue, nwait' = nwait,
           \A q \in Proc : q # p => call'[q] = call[q] /\ ticket'[q] = ticket[q],
           call[p].at \in Plain, call'[p].at \in Plain, call'[p].who = Nil
    PROVE  SemaInv'
<1>1. QueueOK'
  <2>1. \A a \in Addr : Range(queue[a]) \subseteq Proc
    BY DEF SemaInv, TypeOK, Range
  <2> QED
    BY <2>1 DEF SemaInv, QueueOK, At, Plain
<1>2. call[p].who = Nil
  BY DEF SemaInv, WhoOK, At, Plain
<1>3. \A q \in Proc : call'[q].who = call[q].who
  BY <1>2
<1>4. ASSUME NEW r \in Proc
      PROVE  IF At(r, "handoff")' \/ At(r, "goready")'
             THEN /\ call'[r].who \in Proc
                  /\ At(call[r].who, "parked")' /\ call'[call'[r].who].addr = call'[r].addr
                  /\ \A a \in Addr : call'[r].who \notin Range(queue'[a])
                  /\ \A q \in Proc : call'[q].who = call'[r].who => q = r
             ELSE call'[r].who = Nil
  <2>1. CASE r = p
    BY <2>1 DEF At, Plain
  <2>2. CASE r # p
    <3>1. call'[r] = call[r]
      BY <2>2
    <3>2. CASE At(r, "handoff") \/ At(r, "goready")
      <4>1. /\ call[r].who \in Proc
            /\ At(call[r].who, "parked") /\ call[call[r].who].addr = call[r].addr
            /\ \A a \in Addr : call[r].who \notin Range(queue[a])
            /\ \A q \in Proc : call[q].who = call[r].who => q = r
        BY <3>2 DEF SemaInv, WhoOK
      <4>2. call[r].who # p
        BY <4>1 DEF At, Plain
      <4> QED
        BY <1>3, <3>1, <3>2, <4>1, <4>2 DEF At
    <3>3. CASE ~(At(r, "handoff") \/ At(r, "goready"))
      BY <3>1, <3>3 DEF SemaInv, WhoOK, At
    <3> QED
      BY <3>2, <3>3
  <2> QED
    BY <2>1, <2>2
<1>5. WhoOK'
  BY <1>4 DEF WhoOK, At
<1>6. TicketOK'
  <2> SUFFICES ASSUME NEW r \in Proc, At(r, "handoff")'
               PROVE  ~ticket'[call'[r].who]
    BY DEF TicketOK, At
  <2>1. call'[r] = call[r] /\ At(r, "handoff")
    BY DEF At, Plain
  <2>2. call[r].who \in Proc /\ At(call[r].who, "parked") /\ ~ticket[call[r].who]
    BY <2>1 DEF SemaInv, WhoOK, TicketOK
  <2>3. call[r].who # p
    BY <2>2 DEF At, Plain
  <2> QED
    BY <2>1, <2>2, <2>3
<1>7. WaitersCounted'
  <2>1. Queued' = Queued
    BY DEF Queued
  <2>2. Waiters' = Waiters
    BY <2>1 DEF Waiters, At, Plain
  <2> QED
    BY <2>2 DEF SemaInv, WaitersCounted, Waiters
<1>8. Asleep'
  <2>1. Queued' = Queued
    BY DEF Queued
  <2>2. \A q \in Proc : At(q, "parked")' <=> At(q, "parked")
    BY DEF At, Plain
  <2> QED
    BY <1>3, <1>6, <2>1, <2>2 DEF SemaInv, Asleep, TicketOK
<1> QED
  BY <1>1, <1>5, <1>6, <1>7, <1>8 DEF SemaInv

(* A permit is taken without the lock. *)
LEMMA TakeInv ==
    ASSUME SemaInv, NEW p \in Proc, Take(p)
    PROVE  SemaInv'
<1>1. TypeOK'
  BY DEF SemaInv, TypeOK, CallState, At, Take, Cansemacquire, Return, NoCall
<1>2. /\ queue' = queue /\ nwait' = nwait
      /\ \A q \in Proc : q # p => call'[q] = call[q] /\ ticket'[q] = ticket[q]
  BY DEF SemaInv, TypeOK, CallState, Take, Cansemacquire, Return, NoCall
<1>3. /\ call[p].at \in Plain /\ call'[p].at \in Plain /\ call'[p].who = Nil
  BY DEF SemaInv, TypeOK, CallState, WhoOK, At, Plain, Take, Cansemacquire, Return, NoCall
<1> QED
  BY <1>1, <1>2, <1>3, PlainStep

(* There is no permit. *)
LEMMA NoPermitInv ==
    ASSUME SemaInv, NEW p \in Proc, NoPermit(p)
    PROVE  SemaInv'
<1>1. TypeOK'
  BY DEF SemaInv, TypeOK, CallState, At, NoPermit, Goto
<1>2. /\ queue' = queue /\ nwait' = nwait
      /\ \A q \in Proc : q # p => call'[q] = call[q] /\ ticket'[q] = ticket[q]
  BY DEF SemaInv, TypeOK, CallState, NoPermit, Goto
<1>3. /\ call[p].at \in Plain /\ call'[p].at \in Plain /\ call'[p].who = Nil
  BY DEF SemaInv, TypeOK, CallState, WhoOK, At, Plain, NoPermit, Goto
<1> QED
  BY <1>1, <1>2, <1>3, PlainStep

(* The woken goroutine has a ticket. *)
LEMMA TakeTicketInv ==
    ASSUME SemaInv, NEW p \in Proc, TakeTicket(p)
    PROVE  SemaInv'
<1>1. TypeOK'
  BY DEF SemaInv, TypeOK, CallState, At, TakeTicket, Return, NoCall
<1>2. /\ queue' = queue /\ nwait' = nwait
      /\ \A q \in Proc : q # p => call'[q] = call[q] /\ ticket'[q] = ticket[q]
  BY DEF SemaInv, TypeOK, CallState, TakeTicket, Return, NoCall
<1>3. /\ call[p].at \in Plain /\ call'[p].at \in Plain /\ call'[p].who = Nil
  BY DEF SemaInv, TypeOK, CallState, WhoOK, At, Plain, TakeTicket, Return, NoCall
<1> QED
  BY <1>1, <1>2, <1>3, PlainStep

(* A release adds its permit. *)
LEMMA XaddInv ==
    ASSUME SemaInv, NEW p \in Proc, Xadd(p)
    PROVE  SemaInv'
<1>1. TypeOK'
  <2>1. call[p].addr \in Addr /\ sem \in [Addr -> Nat]
    BY DEF SemaInv, TypeOK, CallState, Xadd, At
  <2>2. sem' \in [Addr -> Nat]
    BY <2>1 DEF Xadd
  <2> DEFINE c == [call[p] EXCEPT !.at = "load"]
  <2>3. call' = [call EXCEPT ![p] = c]
    BY DEF Xadd, Goto
  <2>4. c \in CallState /\ c.addr \in Addr
    BY <2>1 DEF SemaInv, TypeOK, CallState
  <2>5. /\ queue' \in [Addr -> Seq(Proc)] /\ nwait' \in Nat /\ lock' \in Proc \union {Nil}
        /\ ticket' \in [Proc -> BOOLEAN] /\ calls' \in Nat /\ TypeOK
    BY DEF SemaInv, TypeOK, Xadd
  <2> HIDE DEF c
  <2> QED
    BY <2>2, <2>3, <2>4, <2>5, CallStep
<1>2. /\ queue' = queue /\ nwait' = nwait
      /\ \A q \in Proc : q # p => call'[q] = call[q] /\ ticket'[q] = ticket[q]
  BY DEF SemaInv, TypeOK, CallState, Xadd, Goto
<1>3. /\ call[p].at \in Plain /\ call'[p].at \in Plain /\ call'[p].who = Nil
  BY DEF SemaInv, TypeOK, CallState, WhoOK, At, Plain, Xadd, Goto
<1> QED
  BY <1>1, <1>2, <1>3, PlainStep

(* A release looks at nwait. *)
LEMMA LoadNwaitInv ==
    ASSUME SemaInv, NEW p \in Proc, LoadNwait(p)
    PROVE  SemaInv'
<1>1. TypeOK'
  <2>1. CASE nwait = 0
    <3>1. call' = [call EXCEPT ![p] = NoCall]
      BY <2>1 DEF LoadNwait, Return
    <3> QED
      BY <3>1, CallStep DEF SemaInv, TypeOK, CallState, LoadNwait, NoCall
  <2>2. CASE nwait # 0
    <3> DEFINE c == [call[p] EXCEPT !.at = "dequeue"]
    <3>1. call' = [call EXCEPT ![p] = c]
      BY <2>2 DEF LoadNwait, Goto
    <3>2. call[p].addr \in Addr
      BY DEF SemaInv, TypeOK, CallState, LoadNwait, At
    <3> QED
      BY <3>1, <3>2, CallStep DEF SemaInv, TypeOK, CallState, LoadNwait
  <2> QED
    BY <2>1, <2>2
<1>2. /\ queue' = queue /\ nwait' = nwait
      /\ \A q \in Proc : q # p => call'[q] = call[q] /\ ticket'[q] = ticket[q]
  BY DEF SemaInv, TypeOK, CallState, LoadNwait, Return, Goto, NoCall
<1>3. /\ call[p].at \in Plain /\ call'[p].at \in Plain /\ call'[p].who = Nil
  <2>1. call \in [Proc -> CallState] /\ At(p, "load") /\ call[p].who = Nil
    BY DEF SemaInv, TypeOK, WhoOK, At, LoadNwait
  <2>2. call'[p] = NoCall \/ call'[p] = [call[p] EXCEPT !.at = "dequeue"]
    BY <2>1 DEF LoadNwait, Return, Goto
  <2>3. call'[p].at \in {"idle", "dequeue"} /\ call'[p].who = Nil
    BY <2>1, <2>2 DEF CallState, NoCall
  <2> QED
    BY <2>1, <2>3 DEF At, Plain
<1> QED
  BY <1>1, <1>2, <1>3, PlainStep

(* A release finds nobody on its word. *)
LEMMA NoWaiterInv ==
    ASSUME SemaInv, NEW p \in Proc, NoWaiter(p)
    PROVE  SemaInv'
<1>1. TypeOK'
  BY DEF SemaInv, TypeOK, CallState, At, NoWaiter, Return, NoCall
<1>2. /\ queue' = queue /\ nwait' = nwait
      /\ \A q \in Proc : q # p => call'[q] = call[q] /\ ticket'[q] = ticket[q]
  BY DEF SemaInv, TypeOK, CallState, NoWaiter, Return, NoCall
<1>3. /\ call[p].at \in Plain /\ call'[p].at \in Plain /\ call'[p].who = Nil
  BY DEF SemaInv, TypeOK, CallState, WhoOK, At, Plain, NoWaiter, Return, NoCall
<1> QED
  BY <1>1, <1>2, <1>3, PlainStep

(* An acquire begins. *)
LEMMA Semacquire1Inv ==
    ASSUME SemaInv, NEW p \in Proc, NEW a \in Addr, NEW flag \in BOOLEAN, Semacquire1(p, a, flag)
    PROVE  SemaInv'
<1>1. TypeOK'
  BY DEF SemaInv, TypeOK, CallState, At, Semacquire1, Enter
<1>2. /\ queue' = queue /\ nwait' = nwait
      /\ \A q \in Proc : q # p => call'[q] = call[q] /\ ticket'[q] = ticket[q]
  BY DEF SemaInv, TypeOK, CallState, Semacquire1, Enter
<1>3. /\ call[p].at \in Plain /\ call'[p].at \in Plain /\ call'[p].who = Nil
  BY DEF SemaInv, TypeOK, CallState, WhoOK, At, Plain, Semacquire1, Enter
<1> QED
  BY <1>1, <1>2, <1>3, PlainStep

(* A release begins. *)
LEMMA Semrelease1Inv ==
    ASSUME SemaInv, NEW p \in Proc, NEW a \in Addr, NEW flag \in BOOLEAN, Semrelease1(p, a, flag)
    PROVE  SemaInv'
<1>1. TypeOK'
  BY DEF SemaInv, TypeOK, CallState, At, Semrelease1, Enter
<1>2. /\ queue' = queue /\ nwait' = nwait
      /\ \A q \in Proc : q # p => call'[q] = call[q] /\ ticket'[q] = ticket[q]
  BY DEF SemaInv, TypeOK, CallState, Semrelease1, Enter
<1>3. /\ call[p].at \in Plain /\ call'[p].at \in Plain /\ call'[p].who = Nil
  BY DEF SemaInv, TypeOK, CallState, WhoOK, At, Plain, Semrelease1, Enter
<1> QED
  BY <1>1, <1>2, <1>3, PlainStep

(* The goroutines that nwait counts change by one, and so does nwait. *)
LEMMA CountStep ==
    ASSUME TypeOK, WaitersCounted, NEW t,
           \/ t \notin Waiters /\ Waiters' = Waiters \union {t} /\ nwait' = nwait + 1
           \/ t \in Waiters /\ Waiters' = Waiters \ {t} /\ nwait' = nwait - 1
           \/ Waiters' = Waiters /\ nwait' = nwait
    PROVE  WaitersCounted' /\ nwait' \in Nat
<1> DEFINE W == Waiters
<1>1. IsFiniteSet(W) /\ Cardinality(W) \in Nat /\ nwait = Cardinality(W)
  BY WaitersFinite DEF WaitersCounted, Waiters
<1>2. /\ Cardinality(W \union {t}) = IF t \in W THEN Cardinality(W) ELSE Cardinality(W) + 1
      /\ IsFiniteSet(W \union {t})
  BY <1>1, FS_AddElement
<1>3. /\ Cardinality(W \ {t}) = IF t \in W THEN Cardinality(W) - 1 ELSE Cardinality(W)
      /\ IsFiniteSet(W \ {t})
  BY <1>1, FS_RemoveElement
<1>4. Cardinality(W \ {t}) \in Nat
  BY <1>3, FS_CardinalityType
<1> HIDE DEF W
<1>5. nwait' = Cardinality(Waiters') /\ nwait' \in Nat
  <2>1. CASE t \notin W /\ Waiters' = W \union {t} /\ nwait' = nwait + 1
    BY <2>1, <1>1, <1>2
  <2>2. CASE t \in W /\ Waiters' = W \ {t} /\ nwait' = nwait - 1
    BY <2>2, <1>1, <1>3, <1>4
  <2>3. CASE Waiters' = W /\ nwait' = nwait
    BY <2>3, <1>1
  <2> QED
    BY <2>1, <2>2, <2>3 DEF W
<1> QED
  BY <1>5 DEF WaitersCounted, Waiters

(* Steps of p under the root lock that leave the treap alone: p is awake   *)
(* before and after.                                                       *)
LEMMA LockedStep ==
    ASSUME SemaInv, NEW p \in Proc, queue' = queue, ticket' = ticket,
           \A q \in Proc : q # p => call'[q] = call[q],
           call[p].at \in {"lock", "recheck", "unwait"},
           call'[p].at \in {"recheck", "unwait", "idle"}, call'[p].who = Nil,
           call'[p].at = "recheck" => call[p].at = "lock"
    PROVE  QueueOK' /\ WhoOK' /\ TicketOK' /\ Asleep'
<1>1. QueueOK'
  <2>1. \A a \in Addr : Range(queue[a]) \subseteq Proc
    BY DEF SemaInv, TypeOK, Range
  <2> QED
    BY <2>1 DEF SemaInv, QueueOK, At
<1>2. \A q \in Proc : call'[q].who = call[q].who
  BY DEF SemaInv, WhoOK, At
<1>3. \A q \in Proc : At(q, "handoff")' \/ At(q, "goready")'
                     <=> At(q, "handoff") \/ At(q, "goready")
  BY DEF At
<1>4. ASSUME NEW r \in Proc, At(r, "handoff") \/ At(r, "goready")
      PROVE  /\ call'[r].who \in Proc
             /\ At(call[r].who, "parked")' /\ call'[call'[r].who].addr = call'[r].addr
             /\ \A a \in Addr : call'[r].who \notin Range(queue'[a])
             /\ \A q \in Proc : call'[q].who = call'[r].who => q = r
  <2>1. /\ call[r].who \in Proc
        /\ At(call[r].who, "parked") /\ call[call[r].who].addr = call[r].addr
        /\ \A a \in Addr : call[r].who \notin Range(queue[a])
        /\ \A q \in Proc : call[q].who = call[r].who => q = r
    BY <1>4 DEF SemaInv, WhoOK
  <2>2. call[r].who # p /\ r # p
    BY <2>1, <1>4 DEF At
  <2> QED
    BY <1>2, <2>1, <2>2 DEF At
<1>5. ASSUME NEW r \in Proc, ~(At(r, "handoff") \/ At(r, "goready"))
      PROVE  call'[r].who = Nil
  BY <1>2, <1>5 DEF SemaInv, WhoOK
<1>6. WhoOK'
  BY <1>3, <1>4, <1>5 DEF WhoOK, At
<1>7. TicketOK'
  BY <1>2 DEF SemaInv, TicketOK, At
<1>8. Asleep'
  <2>1. Queued' = Queued
    BY DEF Queued
  <2>2. \A q \in Proc : At(q, "parked")' <=> At(q, "parked")
    BY DEF At
  <2> QED
    BY <1>2, <1>7, <2>1, <2>2 DEF SemaInv, Asleep, TicketOK
<1> QED
  BY <1>1, <1>6, <1>7, <1>8

(* The lock is taken and nwait announces p. *)
LEMMA LockRootInv ==
    ASSUME SemaInv, NEW p \in Proc, LockRoot(p)
    PROVE  SemaInv'
<1>1. /\ call[p].at = "lock" /\ call'[p].at = "recheck" /\ call'[p].who = Nil
      /\ \A q \in Proc : q # p => call'[q] = call[q]
      /\ queue' = queue /\ ticket' = ticket /\ nwait' = nwait + 1
  BY DEF SemaInv, TypeOK, CallState, WhoOK, LockRoot, Goto, At
<1>2. p \notin Waiters /\ Waiters' = Waiters \union {p}
  <2>1. p \notin Queued /\ Queued' = Queued
    BY <1>1 DEF SemaInv, QueueOK, Queued, At
  <2> QED
    BY <1>1, <2>1 DEF Waiters, At
<1>3. WaitersCounted' /\ nwait' \in Nat
  BY <1>1, <1>2, CountStep DEF SemaInv
<1>4. TypeOK'
  BY <1>3 DEF SemaInv, TypeOK, CallState, LockRoot, Goto, At
<1> QED
  BY <1>1, <1>3, <1>4, LockedStep DEF SemaInv

(* The second look finds a permit. *)
LEMMA RecheckInv ==
    ASSUME SemaInv, NEW p \in Proc, Recheck(p)
    PROVE  SemaInv'
<1>1. /\ call[p].at = "recheck" /\ call'[p].at = "unwait" /\ call'[p].who = Nil
      /\ \A q \in Proc : q # p => call'[q] = call[q]
      /\ queue' = queue /\ ticket' = ticket /\ nwait' = nwait
  BY DEF SemaInv, TypeOK, CallState, WhoOK, Recheck, Goto, At
<1>2. Waiters' = Waiters
  <2>1. Queued' = Queued
    BY <1>1 DEF Queued
  <2> QED
    BY <1>1, <2>1 DEF Waiters, At
<1>3. WaitersCounted'
  BY <1>1, <1>2, CountStep DEF SemaInv
<1>4. TypeOK'
  <2>1. call[p].addr \in Addr /\ sem \in [Addr -> Nat]
    BY DEF SemaInv, TypeOK, CallState, Recheck, At
  <2>2. sem' \in [Addr -> Nat]
    BY <2>1 DEF Recheck, Cansemacquire
  <2> QED
    BY <2>2 DEF SemaInv, TypeOK, CallState, Recheck, Goto, At
<1> QED
  BY <1>1, <1>3, <1>4, LockedStep DEF SemaInv

(* The lock is given up and p is no waiter any more. *)
LEMMA UnlockRootInv ==
    ASSUME SemaInv, NEW p \in Proc, UnlockRoot(p)
    PROVE  SemaInv'
<1>1. /\ call[p].at = "unwait" /\ call'[p].at = "idle" /\ call'[p].who = Nil
      /\ \A q \in Proc : q # p => call'[q] = call[q]
      /\ queue' = queue /\ ticket' = ticket /\ nwait' = nwait - 1
  BY DEF SemaInv, TypeOK, CallState, UnlockRoot, Return, NoCall, At
<1>2. p \in Waiters /\ Waiters' = Waiters \ {p}
  <2>1. p \notin Queued /\ Queued' = Queued
    BY <1>1 DEF SemaInv, QueueOK, Queued, At
  <2> QED
    BY <1>1, <2>1 DEF Waiters, At
<1>3. WaitersCounted' /\ nwait' \in Nat
  BY <1>1, <1>2, CountStep DEF SemaInv
<1>4. TypeOK'
  BY <1>3 DEF SemaInv, TypeOK, CallState, UnlockRoot, Return, NoCall, At
<1> QED
  BY <1>1, <1>3, <1>4, LockedStep DEF SemaInv

(* Whoever is queued is not on its way out of the treap. *)
LEMMA QueuedAsleep ==
    ASSUME SemaInv, NEW a \in Addr, NEW t \in Range(queue[a])
    PROVE  ~Woken(t) /\ \A r \in Proc : At(r, "handoff") => call[r].who # t
<1>1. call[t].at = "parked"
  BY DEF SemaInv, QueueOK, At
<1>2. \A r \in Proc : At(r, "handoff") \/ At(r, "goready") => call[r].who # t
  BY DEF SemaInv, WhoOK
<1> QED
  BY <1>1, <1>2 DEF Woken, At

(* Parking changes the ticket of the goroutine that parks. *)
LEMMA ParkTickets ==
    ASSUME SemaInv, NEW p \in Proc, ParkUnlock(p)
    PROVE  /\ ticket' \in [Proc -> BOOLEAN]
           /\ \A q \in Proc : q # p => ticket'[q] = ticket[q]
<1> DEFINE a == call[p].addr
           x == IF queue[a] = <<>> THEN TRUE
                ELSE IF call[p].flag THEN ticket[Head(queue[a])] ELSE ticket[p]
<1>1. ticket \in [Proc -> BOOLEAN] /\ a \in Addr /\ queue[a] \in Seq(Proc)
  BY DEF SemaInv, TypeOK, ParkUnlock, At
<1>2. ticket' = [ticket EXCEPT ![p] = x]
  BY DEF ParkUnlock, QueueSudog
<1>3. x \in BOOLEAN
  <2>1. queue[a] # <<>> => Head(queue[a]) \in Proc
    BY <1>1, TailFacts
  <2> QED
    BY <1>1, <2>1
<1> HIDE DEF x
<1> QED
  BY <1>1, <1>2, <1>3

(* Taking a waiter out of the treap clears its ticket and changes those of *)
(* queued goroutines only.                                                 *)
LEMMA DequeueTickets ==
    ASSUME SemaInv, NEW p \in Proc, Dequeue(p)
    PROVE  /\ ticket' \in [Proc -> BOOLEAN]
           /\ ~ticket'[Head(queue[call[p].addr])]
           /\ \A q \in Proc : ticket'[q] = ticket[q] \/ q \in Range(queue[call[p].addr])
<1> DEFINE s == queue[call[p].addr]
           first == Head(s)
           next == IF Tail(s) = <<>> THEN first ELSE Head(Tail(s))
<1>1. ticket \in [Proc -> BOOLEAN] /\ s \in Seq(Proc) /\ s # <<>>
  BY DEF SemaInv, TypeOK, Dequeue, At
<1>2. /\ first \in Proc /\ first \in Range(s)
      /\ Tail(s) \in Seq(Proc) /\ Range(Tail(s)) \subseteq Range(s)
  BY <1>1, TailFacts
<1>3. next \in Proc /\ next \in Range(s)
  <2>1. Tail(s) # <<>> => Head(Tail(s)) \in Proc /\ Head(Tail(s)) \in Range(Tail(s))
    BY <1>2, TailFacts
  <2> QED
    BY <1>2, <2>1
<1>4. ticket' = [ticket EXCEPT ![next] = ticket[first], ![first] = FALSE]
  BY DEF Dequeue, TicketsWithout
<1> HIDE DEF s, first, next
<1>5. /\ ticket' \in [Proc -> BOOLEAN] /\ ~ticket'[first]
      /\ \A q \in Proc : ticket'[q] = ticket[q] \/ q \in Range(s)
  BY <1>1, <1>2, <1>3, <1>4
<1> QED
  BY <1>5 DEF s, first

(* p goes to sleep: it is a waiter before and after. *)
LEMMA ParkUnlockInv ==
    ASSUME SemaInv, NEW p \in Proc, ParkUnlock(p)
    PROVE  SemaInv'
<1> DEFINE s == IF call[p].flag THEN <<p>> \o queue[call[p].addr]
                ELSE Append(queue[call[p].addr], p)
<1>1. PICK a \in Addr : a = call[p].addr
  BY DEF SemaInv, TypeOK, CallState, ParkUnlock, At
<1>2. /\ call[p].at = "recheck" /\ call'[p].at = "parked" /\ call'[p].who = Nil
      /\ call'[p].addr = a
      /\ \A q \in Proc : q # p => call'[q] = call[q]
      /\ queue \in [Addr -> Seq(Proc)] /\ queue' = [queue EXCEPT ![a] = s]
      /\ nwait' = nwait
  BY <1>1 DEF SemaInv, TypeOK, CallState, WhoOK, ParkUnlock, QueueSudog, Goto, At
<1>3. \A b \in Addr : p \notin Range(queue[b])
  BY <1>2 DEF SemaInv, QueueOK, At
<1>4. s \in Seq(Proc) /\ Range(s) = Range(queue[a]) \union {p} /\ IsInjective(s)
  <2>1. IsInjective(queue[a]) /\ queue[a] \in Seq(Proc)
    BY <1>2 DEF SemaInv, QueueOK
  <2>2. CASE call[p].flag
    BY <2>1, <2>2, <1>1, <1>3, PrependFacts
  <2>3. CASE ~call[p].flag
    BY <2>1, <2>3, <1>1, <1>3, AppendFacts
  <2> QED
    BY <2>2, <2>3
<1> HIDE DEF s
<1>5. queue'[a] = s /\ \A b \in Addr : b # a => queue'[b] = queue[b]
  BY <1>2
<1>6. \A b \in Addr :
        Range(queue'[b]) = IF b = a THEN Range(queue[b]) \union {p} ELSE Range(queue[b])
  BY <1>4, <1>5
<1>7. Queued' = Queued \union {p}
  BY <1>6 DEF Queued
<1>8. WaitersCounted'
  <2>1. Waiters' = Waiters
    BY <1>2, <1>7 DEF Waiters, At
  <2> QED
    BY <1>2, <2>1, CountStep DEF SemaInv
<1>9. TypeOK'
  <2> DEFINE c == [call[p] EXCEPT !.at = "parked"]
  <2>1. queue' \in [Addr -> Seq(Proc)]
    BY <1>2, <1>4
  <2>2. call' = [call EXCEPT ![p] = c] /\ c.addr \in Addr
    BY <1>1 DEF SemaInv, TypeOK, CallState, ParkUnlock, Goto
  <2> QED
    <3>1. /\ c \in CallState
          /\ TypeOK
      BY DEF SemaInv, TypeOK, CallState
    <3>2. /\ sem' \in [Addr -> Nat] /\ nwait' \in Nat /\ lock' \in Proc \union {Nil}
          /\ ticket' \in [Proc -> BOOLEAN] /\ calls' \in Nat
      BY ParkTickets DEF SemaInv, TypeOK, CallState, ParkUnlock
    <3> HIDE DEF c
    <3> QED
      BY <2>1, <2>2, <3>1, <3>2, CallStep
<1>10. QueueOK'
  <2>1. \A b \in Addr : IsInjective(queue'[b])
    BY <1>4, <1>5 DEF SemaInv, QueueOK
  <2>2. ASSUME NEW b \in Addr, NEW t \in Range(queue'[b])
        PROVE  call'[t].at = "parked" /\ call'[t].addr = b
    <3>1. CASE t = p
      BY <1>2, <1>3, <1>6, <2>2, <3>1
    <3>2. CASE t # p
      <4>1. t \in Range(queue[b]) /\ t \in Proc
        <5>1. t \in Range(queue[b])
          BY <1>6, <2>2, <3>2
        <5>2. queue[b] \in Seq(Proc)
          BY <1>2
        <5> QED
          BY <5>1, <5>2, RangeSeq
      <4> QED
        BY <1>2, <3>2, <4>1 DEF SemaInv, QueueOK, At
    <3> QED
      BY <3>1, <3>2
  <2> QED
    BY <2>1, <2>2 DEF QueueOK, At
<1>11. \A q \in Proc : call'[q].who = call[q].who
  BY <1>2 DEF SemaInv, WhoOK, At
<1>12. WhoOK'
  <2>1. ASSUME NEW r \in Proc, At(r, "handoff") \/ At(r, "goready")
        PROVE  /\ call'[r].who \in Proc
               /\ call'[call'[r].who].at = "parked" /\ call'[call'[r].who].addr = call'[r].addr
               /\ \A b \in Addr : call'[r].who \notin Range(queue'[b])
               /\ \A q \in Proc : call'[q].who = call'[r].who => q = r
    <3>1. /\ call[r].who \in Proc
          /\ At(call[r].who, "parked") /\ call[call[r].who].addr = call[r].addr
          /\ \A b \in Addr : call[r].who \notin Range(queue[b])
          /\ \A q \in Proc : call[q].who = call[r].who => q = r
      BY <2>1 DEF SemaInv, WhoOK
    <3>2. call[r].who # p /\ r # p
      BY <1>2, <2>1, <3>1 DEF At
    <3>3. call'[r].who = call[r].who /\ call'[r].addr = call[r].addr
          /\ call'[call[r].who] = call[call[r].who]
      BY <1>2, <1>11, <3>1, <3>2
    <3>4. \A b \in Addr : call[r].who \notin Range(queue'[b])
      BY <1>6, <3>1, <3>2
    <3> QED
      BY <1>11, <3>1, <3>3, <3>4 DEF At
  <2>2. ASSUME NEW r \in Proc, ~(At(r, "handoff") \/ At(r, "goready"))
        PROVE  call'[r].who = Nil
    BY <1>11, <2>2 DEF SemaInv, WhoOK
  <2>3. \A r \in Proc : At(r, "handoff")' \/ At(r, "goready")'
                       <=> At(r, "handoff") \/ At(r, "goready")
    BY <1>2 DEF At
  <2> QED
    BY <2>1, <2>2, <2>3 DEF WhoOK, At
<1>13. TicketOK'
  <2> SUFFICES ASSUME NEW r \in Proc, At(r, "handoff")'
               PROVE  ~ticket'[call'[r].who]
    BY DEF TicketOK, At
  <2>1. r # p /\ call'[r] = call[r] /\ At(r, "handoff")
    BY <1>2 DEF At
  <2>2. call[r].who \in Proc /\ At(call[r].who, "parked") /\ ~ticket[call[r].who]
    BY <2>1 DEF SemaInv, WhoOK, TicketOK
  <2>3. call[r].who # p
    BY <1>2, <2>2 DEF At
  <2> QED
    BY <2>1, <2>2, <2>3, ParkTickets
<1>14. Asleep'
  <2>1. \A q \in Proc : At(q, "parked")' <=> At(q, "parked") \/ q = p
    BY <1>2 DEF At
  <2>2. \A q \in Proc : (\E r \in Proc : call'[r].who = q) <=> (\E r \in Proc : call[r].who = q)
    BY <1>11
  <2> QED
    BY <1>7, <1>13, <2>1, <2>2 DEF SemaInv, Asleep, TicketOK
<1> QED
  BY <1>8, <1>9, <1>10, <1>12, <1>13, <1>14 DEF SemaInv

(* A release takes a waiter out of the treap. *)
LEMMA DequeueInv ==
    ASSUME SemaInv, NEW p \in Proc, Dequeue(p)
    PROVE  SemaInv'
<1>1. PICK a \in Addr : a = call[p].addr
  BY DEF SemaInv, TypeOK, CallState, Dequeue, At
<1>2. /\ queue \in [Addr -> Seq(Proc)] /\ queue[a] \in Seq(Proc) /\ queue[a] # <<>>
      /\ queue' = [queue EXCEPT ![a] = Tail(queue[a])]
      /\ nwait' = nwait - 1 /\ call[p].at = "dequeue"
  BY <1>1 DEF SemaInv, TypeOK, CallState, Dequeue, At
<1>3. PICK t \in Proc :
        /\ t = Head(queue[a]) /\ t \in Range(queue[a]) /\ t \notin Range(Tail(queue[a]))
        /\ Tail(queue[a]) \in Seq(Proc) /\ IsInjective(Tail(queue[a]))
        /\ Range(Tail(queue[a])) \subseteq Range(queue[a])
        /\ Range(queue[a]) = Range(Tail(queue[a])) \union {t}
  <2>1. IsInjective(queue[a])
    BY DEF SemaInv, QueueOK
  <2> QED
    BY <1>2, <2>1, TailFacts, HeadTailRange
<1>4. /\ call'[p].at = "handoff" /\ call'[p].who = t /\ call'[p].addr = a
      /\ \A q \in Proc : q # p => call'[q] = call[q]
  BY <1>1, <1>3 DEF SemaInv, TypeOK, CallState, Dequeue
<1>5. /\ call[t].at = "parked" /\ call[t].addr = a /\ t # p
      /\ \A b \in Addr : b # a => t \notin Range(queue[b])
      /\ \A q \in Proc : call[q].who # t
  <2>1. call[t].at = "parked" /\ call[t].addr = a
    BY <1>3 DEF SemaInv, QueueOK, At
  <2>2. \A b \in Addr : b # a => t \notin Range(queue[b])
    BY <2>1 DEF SemaInv, QueueOK
  <2>3. \A q \in Proc : call[q].who # t
    BY <1>3, RuntimeSemaConstants DEF SemaInv, WhoOK
  <2> QED
    BY <1>2, <2>1, <2>2, <2>3
<1>6. /\ queue'[a] = Tail(queue[a]) /\ \A b \in Addr : b # a => queue'[b] = queue[b]
      /\ \A b \in Addr : t \notin Range(queue'[b]) /\ Range(queue'[b]) \subseteq Range(queue[b])
  BY <1>2, <1>3, <1>5
<1>7. Queued' = Queued \ {t} /\ t \in Queued
  <2>1. t \in Queued
    BY <1>3 DEF Queued
  <2>2. ASSUME NEW u \in Queued, u # t PROVE u \in Queued'
    <3>1. PICK b \in Addr : u \in Range(queue[b])
      BY DEF Queued
    <3>2. u \in Range(queue'[b])
      BY <1>3, <1>6, <2>2, <3>1
    <3> QED
      BY <3>2 DEF Queued
  <2>3. ASSUME NEW u \in Queued' PROVE u \in Queued /\ u # t
    <3>1. PICK b \in Addr : u \in Range(queue'[b])
      BY <2>3 DEF Queued
    <3>2. u # t /\ u \in Range(queue[b])
      BY <1>6, <3>1
    <3> QED
      BY <3>2 DEF Queued
  <2> QED
    BY <2>1, <2>2, <2>3
<1>8. WaitersCounted' /\ nwait' \in Nat
  <2>1. t \in Waiters
    BY <1>7 DEF Waiters
  <2>2. \A q \in Proc : At(q, "recheck")' \/ At(q, "unwait")'
                       <=> At(q, "recheck") \/ At(q, "unwait")
    BY <1>2, <1>4 DEF At
  <2>3. ~At(t, "recheck") /\ ~At(t, "unwait")
    BY <1>5 DEF At
  <2>4. Waiters' = Waiters \ {t}
    BY <1>7, <2>2, <2>3 DEF Waiters
  <2> QED
    BY <1>2, <2>1, <2>4, CountStep DEF SemaInv
<1>9. TypeOK'
  <2>1. queue' \in [Addr -> Seq(Proc)]
    BY <1>2, <1>3
  <2> DEFINE c == [call[p] EXCEPT !.at = "handoff", !.who = t]
  <2>2. call' = [call EXCEPT ![p] = c] /\ c.addr \in Addr
    <3>1. call' = [call EXCEPT ![p].at = "handoff", ![p].who = t]
      BY <1>1, <1>3 DEF Dequeue
    <3>2. call \in [Proc -> CallState]
      BY DEF SemaInv, TypeOK, CallState
    <3> QED
      BY <1>1, <3>1, <3>2 DEF CallState
  <2> QED
    <3>1. /\ c \in CallState
          /\ TypeOK
      BY DEF SemaInv, TypeOK, CallState
    <3>2. /\ sem' \in [Addr -> Nat] /\ lock' \in Proc \union {Nil}
          /\ ticket' \in [Proc -> BOOLEAN] /\ calls' \in Nat
      BY DequeueTickets DEF SemaInv, TypeOK, CallState, Dequeue
    <3> HIDE DEF c
    <3> QED
      BY <1>8, <2>1, <2>2, <3>1, <3>2, CallStep
<1>10. QueueOK'
  <2>1. \A b \in Addr : IsInjective(queue'[b])
    BY <1>3, <1>6 DEF SemaInv, QueueOK
  <2>2. ASSUME NEW b \in Addr, NEW u \in Range(queue'[b])
        PROVE  call'[u].at = "parked" /\ call'[u].addr = b
    <3>1. u \in Range(queue[b]) /\ u \in Proc
      BY <1>2, <1>6, <2>2, RangeSeq
    <3>2. call[u].at = "parked" /\ call[u].addr = b
      BY <3>1 DEF SemaInv, QueueOK, At
    <3> QED
      BY <1>2, <1>4, <3>1, <3>2
  <2> QED
    BY <2>1, <2>2 DEF QueueOK, At
<1>11. WhoOK'
  <2>1. /\ call'[p].who \in Proc
        /\ call'[call'[p].who].at = "parked" /\ call'[call'[p].who].addr = call'[p].addr
        /\ \A b \in Addr : call'[p].who \notin Range(queue'[b])
        /\ \A q \in Proc : call'[q].who = call'[p].who => q = p
    BY <1>4, <1>5, <1>6
  <2>2. ASSUME NEW r \in Proc, r # p, At(r, "handoff") \/ At(r, "goready")
        PROVE  /\ call'[r].who \in Proc
               /\ call'[call'[r].who].at = "parked" /\ call'[call'[r].who].addr = call'[r].addr
               /\ \A b \in Addr : call'[r].who \notin Range(queue'[b])
               /\ \A q \in Proc : call'[q].who = call'[r].who => q = r
    <3>1. /\ call[r].who \in Proc
          /\ call[call[r].who].at = "parked" /\ call[call[r].who].addr = call[r].addr
          /\ \A b \in Addr : call[r].who \notin Range(queue[b])
          /\ \A q \in Proc : call[q].who = call[r].who => q = r
      BY <2>2 DEF SemaInv, WhoOK, At
    <3>2. call'[r] = call[r] /\ call[r].who # p /\ call[r].who # t
      BY <1>2, <1>4, <1>5, <2>2, <3>1
    <3>3. \A b \in Addr : call'[r].who \notin Range(queue'[b])
      BY <1>6, <3>1, <3>2
    <3>4. \A q \in Proc : call'[q].who = call'[r].who => q = r
      BY <1>4, <3>1, <3>2
    <3> QED
      BY <1>4, <3>1, <3>2, <3>3, <3>4
  <2>3. ASSUME NEW r \in Proc, r # p, ~(At(r, "handoff") \/ At(r, "goready"))
        PROVE  call'[r].who = Nil
    BY <1>4, <2>3 DEF SemaInv, WhoOK
  <2>4. \A r \in Proc : r # p => (At(r, "handoff")' <=> At(r, "handoff"))
                                 /\ (At(r, "goready")' <=> At(r, "goready"))
    BY <1>4 DEF At
  <2>5. At(p, "handoff")'
    BY <1>4 DEF At
  <2> QED
    BY <2>1, <2>2, <2>3, <2>4, <2>5 DEF WhoOK, At
<1>12. TicketOK'
  <2> SUFFICES ASSUME NEW r \in Proc, At(r, "handoff")'
               PROVE  ~ticket'[call'[r].who]
    BY DEF TicketOK, At
  <2>1. CASE r = p
    BY <1>1, <1>3, <1>4, <2>1, DequeueTickets
  <2>2. CASE r # p
    <3>1. call'[r] = call[r] /\ At(r, "handoff")
      BY <1>4, <2>2 DEF At
    <3>2. call[r].who \in Proc /\ ~ticket[call[r].who] /\ call[r].who \notin Range(queue[a])
      BY <3>1 DEF SemaInv, WhoOK, TicketOK
    <3> QED
      BY <1>1, <3>1, <3>2, DequeueTickets
  <2> QED
    BY <2>1, <2>2
<1>13. Asleep'
  <2>1. ASSUME NEW q \in Proc
        PROVE  (\E r \in Proc : call'[r].who = q) <=> (q = t \/ \E r \in Proc : call[r].who = q)
    <3>1. call[p].who = Nil
      BY <1>2 DEF SemaInv, WhoOK, At
    <3> QED
      BY <1>4, <1>5, <3>1, RuntimeSemaConstants
  <2>2. \A q \in Proc : At(q, "parked")' <=> At(q, "parked")
    BY <1>2, <1>4 DEF At
  <2> QED
    BY <1>7, <1>12, <2>1, <2>2 DEF SemaInv, Asleep, TicketOK
<1> QED
  BY <1>8, <1>9, <1>10, <1>11, <1>12, <1>13 DEF SemaInv

(* A release passes its permit on to the waiter it dequeued, or does not. *)
LEMMA HandoffInv ==
    ASSUME SemaInv, NEW p \in Proc, Handoff(p)
    PROVE  SemaInv'
<1>1. /\ call[p].at = "handoff" /\ call[p].addr \in Addr /\ queue' = queue /\ nwait' = nwait
      /\ call \in [Proc -> CallState] /\ ticket \in [Proc -> BOOLEAN] /\ sem \in [Addr -> Nat]
  BY DEF SemaInv, TypeOK, Handoff, At
<1>2. PICK t \in Proc : /\ t = call[p].who /\ t # p /\ call[t].at = "parked"
  BY <1>1 DEF SemaInv, WhoOK, At
<1>3. call' = [call EXCEPT ![p] = [call[p] EXCEPT !.at = "goready"]]
  BY DEF Handoff, Goto
<1>4. /\ call'[p].at = "goready" /\ call'[p].who = call[p].who /\ call'[p].addr = call[p].addr
      /\ \A q \in Proc : q # p => call'[q] = call[q]
  BY <1>1, <1>3 DEF CallState
<1>5. ticket' \in [Proc -> BOOLEAN] /\ \A q \in Proc : q # t => ticket'[q] = ticket[q]
  BY <1>1, <1>2 DEF Handoff
<1>6. sem' \in [Addr -> Nat]
  BY <1>1 DEF Handoff, Cansemacquire
<1>7. TypeOK'
  <2> DEFINE c == [call[p] EXCEPT !.at = "goready"]
  <2>1. c \in CallState /\ c.addr \in Addr
    BY <1>1 DEF CallState
  <2>2. /\ TypeOK /\ queue' \in [Addr -> Seq(Proc)] /\ nwait' \in Nat
        /\ lock' \in Proc \union {Nil} /\ calls' \in Nat
    BY <1>1 DEF SemaInv, TypeOK, Handoff
  <2> HIDE DEF c
  <2> QED
    BY <1>3, <1>5, <1>6, <2>1, <2>2, CallStep DEF c
<1>8. QueueOK'
  <2>1. \A a \in Addr : Range(queue[a]) \subseteq Proc
    BY DEF SemaInv, TypeOK, Range
  <2> QED
    BY <1>1, <1>4, <2>1 DEF SemaInv, QueueOK, At
<1>9. \A q \in Proc : /\ call'[q].who = call[q].who /\ call'[q].addr = call[q].addr
                      /\ (At(q, "parked")' <=> At(q, "parked"))
                      /\ (At(q, "handoff")' \/ At(q, "goready")' <=> At(q, "handoff") \/ At(q, "goready"))
  BY <1>1, <1>4 DEF At
<1>10. WhoOK'
  BY <1>1, <1>9 DEF SemaInv, WhoOK
<1>11. TicketOK'
  <2> SUFFICES ASSUME NEW r \in Proc, At(r, "handoff")'
               PROVE  ~ticket'[call'[r].who]
    BY DEF TicketOK, At
  <2>1. r # p /\ call'[r] = call[r] /\ At(r, "handoff")
    BY <1>4 DEF At
  <2>2. call[r].who \in Proc /\ ~ticket[call[r].who] /\ call[r].who # t
    BY <1>2, <2>1 DEF SemaInv, WhoOK, TicketOK
  <2> QED
    BY <1>5, <2>1, <2>2
<1>12. WaitersCounted' /\ Asleep'
  <2>1. Queued' = Queued
    BY <1>1 DEF Queued
  <2>2. Waiters' = Waiters
    BY <1>1, <1>4, <2>1 DEF Waiters, At
  <2>3. WaitersCounted'
    BY <1>1, <2>2, CountStep DEF SemaInv
  <2> QED
    BY <1>9, <1>11, <2>1, <2>3 DEF SemaInv, Asleep, TicketOK
<1> QED
  BY <1>7, <1>8, <1>10, <1>11, <1>12 DEF SemaInv

(* The waiter runs again. *)
LEMMA GoreadyInv ==
    ASSUME SemaInv, NEW p \in Proc, Goready(p)
    PROVE  SemaInv'
<1>1. /\ call[p].at = "goready" /\ queue' = queue /\ nwait' = nwait /\ ticket' = ticket
      /\ call \in [Proc -> CallState]
  BY DEF SemaInv, TypeOK, Goready, At
<1>2. PICK t \in Proc : /\ t = call[p].who /\ t # p /\ call[t].at = "parked"
                        /\ \A a \in Addr : t \notin Range(queue[a])
                        /\ \A q \in Proc : call[q].who = t => q = p
  BY <1>1 DEF SemaInv, WhoOK, At
<1>3. call' = [call EXCEPT ![p] = NoCall, ![t] = [call[t] EXCEPT !.at = "resumed"]]
  BY <1>1, <1>2 DEF Goready
<1>4. /\ call'[p] = NoCall /\ call'[t].at = "resumed"
      /\ call'[t].who = call[t].who /\ call'[t].addr = call[t].addr
      /\ \A q \in Proc : q # p /\ q # t => call'[q] = call[q]
  BY <1>1, <1>2, <1>3 DEF CallState
<1>5. TypeOK'
  <2>1. NoCall \in CallState /\ [call[t] EXCEPT !.at = "resumed"] \in CallState
    BY <1>1, <1>2 DEF NoCall, CallState
  <2>2. call' \in [Proc -> CallState]
    BY <1>1, <1>3, <2>1
  <2>3. ASSUME NEW q \in Proc PROVE call'[q].at = "idle" \/ call'[q].addr \in Addr
    <3>1. CASE q = p
      BY <3>1, <1>4 DEF NoCall
    <3>2. CASE q = t
      <4>1. call[t].addr \in Addr
        BY <1>2 DEF SemaInv, TypeOK, At
      <4> QED
        BY <3>2, <4>1, <1>4
    <3>3. CASE q # p /\ q # t
      <4>1. call[q].at = "idle" \/ call[q].addr \in Addr
        BY DEF SemaInv, TypeOK, At
      <4> QED
        BY <3>3, <4>1, <1>4
    <3> QED
      BY <3>1, <3>2, <3>3
  <2> QED
    BY <2>2, <2>3 DEF SemaInv, TypeOK, Goready, At
<1>6. QueueOK'
  <2>1. ASSUME NEW a \in Addr, NEW u \in Range(queue[a])
        PROVE  call'[u].at = "parked" /\ call'[u].addr = a
    <3>1. queue[a] \in Seq(Proc) /\ call[u].at = "parked" /\ call[u].addr = a
      BY <2>1 DEF SemaInv, TypeOK, QueueOK, At
    <3>2. u \in Proc
      BY <2>1, <3>1, RangeSeq
    <3> QED
      BY <1>1, <1>2, <1>4, <2>1, <3>1, <3>2
  <2> QED
    BY <1>1, <2>1 DEF SemaInv, QueueOK, At
<1>7. WhoOK'
  <2>1. call[t].who = Nil /\ call'[t].who = Nil /\ call'[p].who = Nil
    BY <1>2, <1>4 DEF SemaInv, WhoOK, At, NoCall
  <2>2. ASSUME NEW r \in Proc, r # p, At(r, "handoff") \/ At(r, "goready")
        PROVE  /\ call'[r].who \in Proc
               /\ call'[call'[r].who].at = "parked" /\ call'[call'[r].who].addr = call'[r].addr
               /\ \A b \in Addr : call'[r].who \notin Range(queue'[b])
               /\ \A q \in Proc : call'[q].who = call'[r].who => q = r
    <3>1. /\ call[r].who \in Proc
          /\ call[call[r].who].at = "parked" /\ call[call[r].who].addr = call[r].addr
          /\ \A b \in Addr : call[r].who \notin Range(queue[b])
          /\ \A q \in Proc : call[q].who = call[r].who => q = r
      BY <2>2 DEF SemaInv, WhoOK, At
    <3>2. r # t /\ call[r].who # t /\ call[r].who # p
      BY <1>1, <1>2, <2>2, <3>1 DEF At
    <3>3. call'[r] = call[r] /\ call'[call[r].who] = call[call[r].who]
      BY <1>4, <2>2, <3>1, <3>2
    <3>4. \A q \in Proc : call'[q].who = call'[r].who => q = r
      BY <1>4, <2>1, <3>1, <3>3, RuntimeSemaConstants
    <3> QED
      BY <1>1, <3>1, <3>3, <3>4
  <2>3. ASSUME NEW r \in Proc, ~(At(r, "handoff") \/ At(r, "goready"))
        PROVE  call'[r].who = Nil
    BY <1>4, <2>1, <2>3 DEF SemaInv, WhoOK
  <2>4. \A r \in Proc : At(r, "handoff")' \/ At(r, "goready")'
                          <=> r # p /\ (At(r, "handoff") \/ At(r, "goready"))
    BY <1>2, <1>4 DEF At, NoCall
  <2> QED
    BY <2>1, <2>2, <2>3, <2>4 DEF WhoOK, At
<1>8. TicketOK'
  <2> SUFFICES ASSUME NEW r \in Proc, At(r, "handoff")'
               PROVE  ~ticket'[call'[r].who]
    BY DEF TicketOK, At
  <2>1. r # p /\ r # t
    BY <1>4 DEF At, NoCall
  <2>2. call'[r] = call[r] /\ At(r, "handoff")
    BY <1>4, <2>1 DEF At
  <2> QED
    BY <1>1, <2>2 DEF SemaInv, TicketOK
<1>9. WaitersCounted'
  <2>1. Queued' = Queued
    BY <1>1 DEF Queued
  <2>2. Waiters' = Waiters
    BY <1>1, <1>2, <1>4, <2>1 DEF Waiters, At, NoCall
  <2> QED
    BY <1>1, <2>2, CountStep DEF SemaInv
<1>10. Asleep'
  <2>1. Queued' = Queued /\ t \notin Queued
    BY <1>1, <1>2 DEF Queued
  <2>2. \A q \in Proc : At(q, "parked")' <=> At(q, "parked") /\ q # t
    BY <1>1, <1>2, <1>4 DEF At, NoCall
  <2>3. call'[p].who = Nil /\ \A q \in Proc : q # p => call'[q].who = call[q].who
    BY <1>4 DEF NoCall
  <2>4. \A q \in Proc : (\E r \in Proc : call'[r].who = q) <=> q # t /\ \E r \in Proc : call[r].who = q
    BY <1>2, <2>3, RuntimeSemaConstants
  <2> QED
    BY <1>8, <2>1, <2>2, <2>4 DEF SemaInv, Asleep, TicketOK
<1> QED
  BY <1>5, <1>6, <1>7, <1>8, <1>9, <1>10 DEF SemaInv

(* Initially no call has been made. *)
LEMMA SemaInitInv ==
    ASSUME Init
    PROVE  SemaInv
<1>1. TypeOK
  BY DEF Init, TypeOK, CallState, NoCall, At
<1>2. QueueOK /\ WhoOK /\ TicketOK
  BY DEF Init, QueueOK, WhoOK, TicketOK, NoCall, At, IsInjective, Range
<1>3. Queued = {}
  BY DEF Init, Queued, Range
<1>4. Waiters = {}
  BY <1>3 DEF Init, Waiters, At, NoCall
<1>5. WaitersCounted
  BY <1>4, FS_EmptySet DEF Init, WaitersCounted, Waiters
<1>6. Asleep
  BY <1>3, RuntimeSemaConstants DEF Init, Asleep, At, NoCall
<1> QED
  BY <1>1, <1>2, <1>5, <1>6 DEF SemaInv

(* Nothing moves. *)
LEMMA SemaStutter ==
    ASSUME SemaInv, UNCHANGED vars
    PROVE  SemaInv'
<1>1. TypeOK' /\ QueueOK' /\ WhoOK' /\ TicketOK'
  BY DEF SemaInv, TypeOK, QueueOK, WhoOK, TicketOK, Woken, At, vars
<1>2. WaitersCounted' /\ Asleep'
  BY DEF SemaInv, WaitersCounted, Asleep, Queued, At, vars
<1> QED
  BY <1>1, <1>2 DEF SemaInv

(* Every step inside a call keeps the invariant. *)
LEMMA SemaStepInv ==
    ASSUME SemaInv, NEW p \in Proc, Step(p)
    PROVE  SemaInv'
<1>1. CASE Take(p) \/ NoPermit(p) \/ LockRoot(p) \/ Recheck(p) \/ UnlockRoot(p)
  BY <1>1, TakeInv, NoPermitInv, LockRootInv, RecheckInv, UnlockRootInv
<1>2. CASE ParkUnlock(p) \/ TakeTicket(p) \/ Xadd(p) \/ LoadNwait(p) \/ NoWaiter(p)
  BY <1>2, ParkUnlockInv, TakeTicketInv, XaddInv, LoadNwaitInv, NoWaiterInv
<1>3. CASE Dequeue(p) \/ Handoff(p) \/ Goready(p)
  BY <1>3, DequeueInv, HandoffInv, GoreadyInv
<1> QED
  BY <1>1, <1>2, <1>3 DEF Step

(* The inductive invariant of sema.go. *)
THEOREM SemaInvariant == Spec => []SemaInv
<1>1. Init => SemaInv
  BY SemaInitInv
<1>2. SemaInv /\ [Next]_vars => SemaInv'
  <2> SUFFICES ASSUME SemaInv, [Next]_vars PROVE SemaInv'
    OBVIOUS
  <2>1. CASE Next
    <3>1. PICK p \in Proc :
            \/ \E a \in Addr, flag \in BOOLEAN : Semacquire1(p, a, flag) \/ Semrelease1(p, a, flag)
            \/ Step(p)
      BY <2>1 DEF Next
    <3> QED
      BY <3>1, Semacquire1Inv, Semrelease1Inv, SemaStepInv
  <2>2. CASE UNCHANGED vars
    BY <2>2, SemaStutter
  <2> QED
    BY <2>1, <2>2
<1> QED
  BY <1>1, <1>2, PTL DEF Spec

(* root.nwait counts the goroutines that are queued or hold the lock to      *)
(* queue: a release that reads zero without the lock misses nobody.          *)
THEOREM SemaWaitersCounted == Spec => []WaitersCounted
<1>1. SemaInv => WaitersCounted
  BY DEF SemaInv
<1> QED
  BY <1>1, SemaInvariant, PTL

(* A goroutine sleeps exactly while it is in the treap or a releaser is      *)
(* about to make it ready, and no releaser finds a ticket that is not zero:  *)
(* the priority in the treap is not mistaken for a permit handed over.       *)
THEOREM SemaAsleep == Spec => []Asleep
<1>1. SemaInv => Asleep
  BY DEF SemaInv
<1> QED
  BY <1>1, SemaInvariant, PTL

-----------------------------------------------------------------------------
(* The refinement: sema.go implements module Semaphore. *)

(* What a caller sees of a call at each of its steps. *)
View(o, c) == [op |-> o, addr |-> c.addr, flag |-> c.flag, who |-> c.who]

NoView == [op |-> "none", addr |-> Nil, flag |-> FALSE, who |-> Nil]

AbsAt ==
    \A p \in Proc :
        /\ call[p].at \in {"idle", "unwait", "goready"} => AbsReq[p] = NoView
        /\ call[p].at \in {"easy", "lock", "recheck"} => AbsReq[p] = View("acquire", call[p])
        /\ call[p].at = "parked" /\ ~Woken(p) => AbsReq[p] = View("parked", call[p])
        /\ Woken(p) => AbsReq[p] = IF ticket[p] THEN NoView ELSE View("acquire", call[p])
        /\ call[p].at = "xadd" => AbsReq[p] = View("release", call[p])
        /\ call[p].at \in {"load", "dequeue"} => AbsReq[p] = View("dequeue", call[p])
        /\ call[p].at = "handoff" => AbsReq[p] = View("ready", call[p])

(* Only a goroutine that slept is woken. *)
LEMMA WokenAt ==
    ASSUME SemaInv, NEW p \in Proc, Woken(p)
    PROVE  call[p].at \in {"parked", "resumed"}
  BY DEF SemaInv, WhoOK, Woken, At

(* The refinement mapping, step of the call by step of the call. *)
LEMMA AbsByStep == SemaInv => AbsAt
<1> SUFFICES ASSUME SemaInv, NEW p \in Proc
             PROVE
        /\ call[p].at \in {"idle", "unwait", "goready"} => AbsReq[p] = NoView
        /\ call[p].at \in {"easy", "lock", "recheck"} => AbsReq[p] = View("acquire", call[p])
        /\ call[p].at = "parked" /\ ~Woken(p) => AbsReq[p] = View("parked", call[p])
        /\ Woken(p) => AbsReq[p] = IF ticket[p] THEN NoView ELSE View("acquire", call[p])
        /\ call[p].at = "xadd" => AbsReq[p] = View("release", call[p])
        /\ call[p].at \in {"load", "dequeue"} => AbsReq[p] = View("dequeue", call[p])
        /\ call[p].at = "handoff" => AbsReq[p] = View("ready", call[p])
  BY DEF AbsAt
<1>1. Woken(p) => call[p].at \in {"parked", "resumed"}
  BY WokenAt
<1>2. AbsReq[p] = IF AbsOp(p) = "none" THEN NoView ELSE View(AbsOp(p), call[p])
  BY DEF AbsReq, NoView, View
<1>3. call[p].at \in {"idle", "unwait", "goready"} => AbsOp(p) = "none"
  BY <1>1 DEF AbsOp, At
<1>4. call[p].at \in {"easy", "lock", "recheck"} => AbsOp(p) = "acquire"
  BY <1>1 DEF AbsOp, At
<1>5. call[p].at = "parked" /\ ~Woken(p) => AbsOp(p) = "parked"
  BY <1>1 DEF AbsOp, At
<1>6. Woken(p) => AbsOp(p) = IF ticket[p] THEN "none" ELSE "acquire"
  BY <1>1 DEF AbsOp, At
<1>7. call[p].at = "xadd" => AbsOp(p) = "release"
  BY <1>1 DEF AbsOp, At
<1>8. call[p].at \in {"load", "dequeue"} => AbsOp(p) = "dequeue"
  BY <1>1 DEF AbsOp, At
<1>9. call[p].at = "handoff" => AbsOp(p) = "ready"
  BY <1>1 DEF AbsOp, At
<1> QED
  BY <1>2, <1>3, <1>4, <1>5, <1>6, <1>7, <1>8, <1>9

(* A goroutine whose call and wakeup a step leaves alone, and whose ticket, *)
(* if it matters yet.                                                       *)
LEMMA AbsFrame ==
    ASSUME NEW q \in Proc, call'[q] = call[q], Woken(q) => ticket'[q] = ticket[q],
           Woken(q)' <=> Woken(q)
    PROVE  AbsReq'[q] = AbsReq[q]
<1>1. AbsOp(q)' = AbsOp(q)
  BY DEF AbsOp, At
<1> QED
  BY <1>1 DEF AbsReq

(* A step that changes the view of one call. *)
LEMMA AbsOne ==
    ASSUME NEW p \in Proc,
           \A q \in Proc : q # p => call'[q] = call[q],
           \A q \in Proc : q # p /\ Woken(q) => ticket'[q] = ticket[q],
           call[p].at # "goready", call'[p].at # "goready"
    PROVE  AbsReq' = [AbsReq EXCEPT ![p] = AbsReq'[p]]
<1>1. ASSUME NEW q \in Proc, q # p PROVE AbsReq'[q] = AbsReq[q]
  <2>1. Woken(q)' <=> Woken(q)
    BY <1>1 DEF Woken, At
  <2> QED
    BY <1>1, <2>1, AbsFrame
<1>2. AbsReq = [q \in Proc |-> AbsReq[q]] /\ AbsReq' = [q \in Proc |-> AbsReq'[q]]
  BY DEF AbsReq
<1> QED
  BY <1>1, <1>2

(* Taking a permit without the lock is the caller's TakePermit. *)
LEMMA TakeAbs ==
    ASSUME SemaInv, SemaInv', NEW p \in Proc, Take(p)
    PROVE  Sem!TakePermit(p)
<1>1. AbsAt /\ AbsAt'
  BY AbsByStep, PTL
<1>2. /\ call[p].at \in {"easy", "resumed"} /\ call'[p] = NoCall
      /\ \A q \in Proc : q # p => call'[q] = call[q] /\ ticket'[q] = ticket[q]
  BY DEF SemaInv, TypeOK, Take, Return, At
<1>3. AbsReq' = [AbsReq EXCEPT ![p] = NoView]
  BY <1>1, <1>2, AbsOne DEF AbsAt, NoCall
<1>4. AbsReq[p] = View("acquire", call[p])
  BY <1>1, <1>2 DEF AbsAt, Take, At, Woken
<1> QED
  BY <1>3, <1>4 DEF Sem!TakePermit, Sem!NoRequest, NoView, View, Take, Cansemacquire

(* The call begins: the caller's call. *)
LEMMA CallAbs ==
    ASSUME SemaInv, SemaInv', NEW p \in Proc, NEW a \in Addr, NEW flag \in BOOLEAN,
           Semacquire1(p, a, flag) \/ Semrelease1(p, a, flag)
    PROVE  Sem!Call(p)
<1>1. AbsAt /\ AbsAt'
  BY AbsByStep, PTL
<1>2. /\ call[p].at = "idle" /\ sem' = sem /\ queue' = queue
      /\ \A q \in Proc : q # p => call'[q] = call[q] /\ ticket'[q] = ticket[q]
  BY DEF SemaInv, TypeOK, Semacquire1, Semrelease1, Enter, At
<1>3. AbsReq[p] = NoView
  BY <1>1, <1>2 DEF AbsAt
<1>4. CASE Semacquire1(p, a, flag)
  <2>1. call'[p] = [at |-> "easy", addr |-> a, flag |-> flag, who |-> Nil]
    BY <1>4 DEF SemaInv, TypeOK, Semacquire1, Enter
  <2>2. AbsReq'[p] = [op |-> "acquire", addr |-> a, flag |-> flag, who |-> Nil]
    <3>1. call'[p].at = "easy" /\ call'[p].addr = a /\ call'[p].flag = flag /\ call'[p].who = Nil
      BY <2>1
    <3>2. AbsReq'[p] = View("acquire", call'[p])
      BY <1>1, <3>1 DEF AbsAt
    <3> QED
      BY <3>1, <3>2 DEF View
  <2>3. Sem!Semacquire(p, a, flag)
    BY <1>2, <2>1, <2>2, AbsOne DEF Sem!Semacquire
  <2> QED
    BY <1>2, <1>3, <2>3 DEF Sem!Call, Sem!Returned, NoView
<1>5. CASE Semrelease1(p, a, flag)
  <2>1. call'[p] = [at |-> "xadd", addr |-> a, flag |-> flag, who |-> Nil]
    BY <1>5 DEF SemaInv, TypeOK, Semrelease1, Enter
  <2>2. AbsReq'[p] = [op |-> "release", addr |-> a, flag |-> flag, who |-> Nil]
    <3>1. call'[p].at = "xadd" /\ call'[p].addr = a /\ call'[p].flag = flag /\ call'[p].who = Nil
      BY <2>1
    <3>2. AbsReq'[p] = View("release", call'[p])
      BY <1>1, <3>1 DEF AbsAt
    <3> QED
      BY <3>1, <3>2 DEF View
  <2>3. Sem!Semrelease(p, a, flag)
    BY <1>2, <2>1, <2>2, AbsOne DEF Sem!Semrelease
  <2> QED
    BY <1>2, <1>3, <2>3 DEF Sem!Call, Sem!Returned, NoView
<1> QED
  BY <1>4, <1>5

(* Taking a permit under the lock is TakePermit too. *)
LEMMA RecheckAbs ==
    ASSUME SemaInv, SemaInv', NEW p \in Proc, Recheck(p)
    PROVE  Sem!TakePermit(p)
<1>1. AbsAt /\ AbsAt'
  BY AbsByStep, PTL
<1>2. /\ call[p].at = "recheck" /\ call'[p].at = "unwait"
      /\ \A q \in Proc : q # p => call'[q] = call[q] /\ ticket'[q] = ticket[q]
  BY DEF SemaInv, TypeOK, CallState, Recheck, Goto, At
<1>3. AbsReq' = [AbsReq EXCEPT ![p] = NoView]
  BY <1>1, <1>2, AbsOne DEF AbsAt
<1>4. AbsReq[p] = View("acquire", call[p])
  BY <1>1, <1>2 DEF AbsAt
<1> QED
  BY <1>3, <1>4 DEF Sem!TakePermit, Sem!NoRequest, NoView, View, Recheck, Cansemacquire

(* Going to sleep is Park: the permits are looked at under the lock. *)
LEMMA ParkAbs ==
    ASSUME SemaInv, SemaInv', NEW p \in Proc, ParkUnlock(p)
    PROVE  Sem!Park(p)
<1>1. AbsAt /\ AbsAt'
  BY AbsByStep, PTL
<1>2. /\ call[p].at = "recheck" /\ call'[p] = [call[p] EXCEPT !.at = "parked"]
      /\ call[p] \in CallState
      /\ \A q \in Proc : q # p => call'[q] = call[q] /\ ticket'[q] = ticket[q]
  BY ParkTickets DEF SemaInv, TypeOK, ParkUnlock, Goto, At
<1>3. call'[p].at = "parked" /\ View("parked", call'[p]) = View("parked", call[p])
  BY <1>2 DEF CallState, View
<1>4. ~Woken(p)'
  <2>1. ~Woken(p)
    BY <1>2, WokenAt
  <2> QED
    BY <1>2, <1>3, <2>1 DEF Woken, At
<1>5. AbsReq' = [AbsReq EXCEPT ![p] = View("parked", call[p])]
  BY <1>1, <1>2, <1>3, <1>4, AbsOne DEF AbsAt
<1>6. AbsReq[p] = View("acquire", call[p])
  BY <1>1, <1>2 DEF AbsAt
<1>7. AbsReq' = [AbsReq EXCEPT ![p].op = "parked"]
  <2>1. [AbsReq[p] EXCEPT !.op = "parked"] = View("parked", call[p])
    BY <1>6 DEF View
  <2> QED
    BY <1>5, <2>1
<1> QED
  BY <1>6, <1>7 DEF Sem!Park, View, ParkUnlock, QueueSudog

(* The atomic addition is AddPermit. *)
LEMMA XaddAbs ==
    ASSUME SemaInv, SemaInv', NEW p \in Proc, Xadd(p)
    PROVE  Sem!AddPermit(p)
<1>1. AbsAt /\ AbsAt'
  BY AbsByStep, PTL
<1>2. /\ call[p].at = "xadd" /\ call'[p] = [call[p] EXCEPT !.at = "load"]
      /\ call[p] \in CallState
      /\ \A q \in Proc : q # p => call'[q] = call[q] /\ ticket'[q] = ticket[q]
  BY DEF SemaInv, TypeOK, Xadd, Goto, At
<1>3. call'[p].at = "load" /\ View("dequeue", call'[p]) = View("dequeue", call[p])
  BY <1>2 DEF CallState, View
<1>4. AbsReq' = [AbsReq EXCEPT ![p] = View("dequeue", call[p])]
  BY <1>1, <1>2, <1>3, AbsOne DEF AbsAt
<1>5. AbsReq[p] = View("release", call[p])
  BY <1>1, <1>2 DEF AbsAt
<1>6. AbsReq' = [AbsReq EXCEPT ![p].op = "dequeue"]
  <2>1. [AbsReq[p] EXCEPT !.op = "dequeue"] = View("dequeue", call[p])
    BY <1>5 DEF View
  <2> QED
    BY <1>4, <2>1
<1> QED
  BY <1>5, <1>6 DEF Sem!AddPermit, View, Xadd

(* nwait = 0, read without the lock or with it, means empty queues. *)
LEMMA NobodyWaits ==
    ASSUME SemaInv, nwait = 0, NEW a \in Addr
    PROVE  queue[a] = <<>>
<1>1. Cardinality(Waiters) = 0 /\ IsFiniteSet(Waiters)
  BY WaitersFinite DEF SemaInv, WaitersCounted, Waiters
<1>2. Waiters = {}
  BY <1>1, FS_EmptySet
<1>3. queue[a] \in Seq(Proc)
  BY DEF SemaInv, TypeOK
<1>4. Range(queue[a]) \subseteq Waiters
  BY Zenon DEF Waiters, Queued
<1>5. Range(queue[a]) = {}
  BY <1>2, <1>4
<1>6. ASSUME queue[a] # <<>> PROVE FALSE
  BY <1>3, <1>5, <1>6, HeadTailRange
<1> QED
  BY <1>6

(* A release ends without a waiter. *)
LEMMA ReturnAbs ==
    ASSUME SemaInv, SemaInv', NEW p \in Proc, call[p].at \in {"load", "dequeue"}, Return(p),
           queue[call[p].addr] = <<>>, UNCHANGED <<sem, queue, ticket>>
    PROVE  Sem!NoWaiter(p)
<1>1. AbsAt /\ AbsAt'
  BY AbsByStep, PTL
<1>2. /\ call'[p] = NoCall
      /\ \A q \in Proc : q # p => call'[q] = call[q] /\ ticket'[q] = ticket[q]
  BY DEF SemaInv, TypeOK, Return
<1>3. AbsReq' = [AbsReq EXCEPT ![p] = NoView]
  BY <1>1, <1>2, AbsOne DEF AbsAt, NoCall
<1>4. AbsReq[p] = View("dequeue", call[p])
  BY <1>1 DEF AbsAt
<1> QED
  BY <1>3, <1>4 DEF Sem!NoWaiter, Sem!NoRequest, NoView, View

(* A step inside a call that changes nothing of the view. *)
LEMMA HiddenStep ==
    ASSUME NEW p \in Proc, AbsReq'[p] = AbsReq[p], UNCHANGED <<sem, queue>>,
           \A q \in Proc : q # p => call'[q] = call[q] /\ ticket'[q] = ticket[q],
           call[p].at # "goready", call'[p].at # "goready"
    PROVE  UNCHANGED Sem!semVars
<1>1. AbsReq' = [AbsReq EXCEPT ![p] = AbsReq'[p]]
  BY AbsOne
<1>2. AbsReq = [q \in Proc |-> AbsReq[q]]
  BY DEF AbsReq
<1>3. AbsReq' = AbsReq
  BY <1>1, <1>2
<1> QED
  BY <1>3 DEF Sem!semVars

(* The easy case of a release ends it; otherwise nothing is visible yet. *)
LEMMA LoadNwaitAbs ==
    ASSUME SemaInv, SemaInv', NEW p \in Proc, LoadNwait(p)
    PROVE  Sem!NoWaiter(p) \/ UNCHANGED Sem!semVars
<1>1. AbsAt /\ AbsAt'
  BY AbsByStep, PTL
<1>2. call[p].at = "load" /\ UNCHANGED <<sem, queue, ticket>> /\ call[p].addr \in Addr
  BY DEF LoadNwait, At, SemaInv, TypeOK
<1>3. CASE nwait = 0
  BY <1>2, <1>3, NobodyWaits, ReturnAbs DEF LoadNwait
<1>4. CASE nwait # 0
  <2>1. /\ call'[p] = [call[p] EXCEPT !.at = "dequeue"] /\ call[p] \in CallState
        /\ \A q \in Proc : q # p => call'[q] = call[q]
    BY <1>4 DEF SemaInv, TypeOK, LoadNwait, Goto
  <2>2. call'[p].at = "dequeue" /\ View("dequeue", call'[p]) = View("dequeue", call[p])
    BY <2>1 DEF CallState, View
  <2>3. AbsReq'[p] = AbsReq[p]
    BY <1>1, <1>2, <2>2 DEF AbsAt
  <2> QED
    BY <1>2, <2>1, <2>2, <2>3, HiddenStep
<1> QED
  BY <1>3, <1>4

(* A release that finds nobody under the lock is over. *)
LEMMA NoWaiterAbs ==
    ASSUME SemaInv, SemaInv', NEW p \in Proc, NoWaiter(p)
    PROVE  Sem!NoWaiter(p)
<1>1. call[p].at = "dequeue" /\ call[p].addr \in Addr
  BY DEF NoWaiter, At, SemaInv, TypeOK
<1>2. queue[call[p].addr] = <<>>
  BY <1>1, NobodyWaits DEF NoWaiter
<1> QED
  BY <1>1, <1>2, ReturnAbs DEF NoWaiter

(* Taking a waiter out of the treap is Dequeue. *)
LEMMA DequeueAbs ==
    ASSUME SemaInv, SemaInv', NEW p \in Proc, Dequeue(p)
    PROVE  Sem!Dequeue(p)
<1>1. AbsAt /\ AbsAt'
  BY AbsByStep, PTL
<1>2. PICK h : h = Head(queue[call[p].addr])
  OBVIOUS
<1>3. /\ call[p].at = "dequeue" /\ call[p] \in CallState
      /\ call'[p] = [call[p] EXCEPT !.at = "handoff", !.who = h]
      /\ \A q \in Proc : q # p => call'[q] = call[q]
      /\ \A q \in Proc : Woken(q) => ticket'[q] = ticket[q]
  <2>1. call[p].addr \in Addr
    BY DEF SemaInv, TypeOK, Dequeue, At
  <2>2. \A q \in Proc : Woken(q) => ticket'[q] = ticket[q]
    BY <2>1, QueuedAsleep, DequeueTickets
  <2> QED
    BY <1>2, <2>2 DEF SemaInv, TypeOK, Dequeue, At
<1>4. /\ call'[p].at = "handoff" /\ call'[p].addr = call[p].addr
      /\ call'[p].flag = call[p].flag /\ call'[p].who = h
  BY <1>3 DEF CallState
<1>5. AbsReq[p] = View("dequeue", call[p])
  BY <1>1, <1>3 DEF AbsAt
<1>6. AbsReq'[p] = View("ready", call'[p])
  BY <1>1, <1>4 DEF AbsAt
<1>7. AbsReq' = [AbsReq EXCEPT ![p].op = "ready", ![p].who = h]
  <2>1. [AbsReq[p] EXCEPT !.op = "ready"] = View("ready", call[p])
    BY <1>5 DEF View
  <2>2. [View("ready", call[p]) EXCEPT !.who = h] = View("ready", call'[p])
    BY <1>4 DEF View
  <2>3. AbsReq' = [AbsReq EXCEPT ![p] = View("ready", call'[p])]
    BY <1>3, <1>4, <1>6, AbsOne
  <2>4. AbsReq = [q \in Proc |-> AbsReq[q]]
    BY DEF AbsReq
  <2>5. [AbsReq EXCEPT ![p].op = "ready"] = [AbsReq EXCEPT ![p] = View("ready", call[p])]
    BY <2>1
  <2> QED
    BY <2>2, <2>3, <2>4, <2>5
<1>8. AbsReq[p].op = "dequeue" /\ AbsReq[p].addr = call[p].addr
  BY <1>5 DEF View
<1> QED
  BY <1>2, <1>7, <1>8 DEF Sem!Dequeue, Dequeue

(* The releaser decides the fate of the permit: to the caller, the waiter   *)
(* runs again from here on.                                                 *)
LEMMA HandoffAbs ==
    ASSUME SemaInv, SemaInv', NEW p \in Proc, Handoff(p)
    PROVE  Sem!Ready(p)
<1>1. AbsAt /\ AbsAt'
  BY AbsByStep, PTL
<1>2. /\ call[p].at = "handoff" /\ call \in [Proc -> CallState]
      /\ call[p].addr \in Addr /\ sem \in [Addr -> Nat] /\ ticket \in [Proc -> BOOLEAN]
  BY DEF Handoff, At, SemaInv, TypeOK
<1>3. PICK t \in Proc : /\ t = call[p].who /\ t # p /\ call[t].at = "parked"
                        /\ \A q \in Proc : call[q].who = t => q = p
  BY <1>2 DEF SemaInv, WhoOK, At
<1>4. PICK given \in BOOLEAN : given <=> (call[p].flag /\ sem[call[p].addr] > 0)
  OBVIOUS
<1>5. /\ call'[p].at = "goready" /\ call'[p].who = t
      /\ \A q \in Proc : q # p => call'[q] = call[q]
      /\ queue' = queue
  BY <1>2, <1>3 DEF Handoff, Goto, CallState
<1>6. /\ ticket'[t] = given
      /\ \A q \in Proc : q # t => ticket'[q] = ticket[q]
      /\ sem' = [sem EXCEPT ![call[p].addr] = IF given THEN @ - 1 ELSE @]
  <2>1. ~ticket[t]
    BY <1>2, <1>3 DEF SemaInv, TicketOK, At
  <2>2. CASE given
    BY <1>2, <1>3, <1>4, <2>2 DEF Handoff, Cansemacquire
  <2>3. CASE ~given
    BY <1>2, <1>3, <1>4, <2>1, <2>3 DEF Handoff
  <2> QED
    BY <2>2, <2>3
<1>7. AbsReq[p] = View("ready", call[p]) /\ AbsReq[t] = View("parked", call[t])
  <2>1. ~Woken(t)
    BY <1>2, <1>3 DEF Woken, At
  <2> QED
    BY <1>1, <1>2, <1>3, <2>1 DEF AbsAt
<1>8. AbsReq'[p] = NoView
  BY <1>1, <1>5 DEF AbsAt
<1>9. AbsReq'[t] = IF given THEN NoView ELSE View("acquire", call[t])
  <2>1. Woken(t)'
    BY <1>5 DEF Woken, At
  <2>2. call'[t] = call[t]
    BY <1>3, <1>5
  <2>3. AbsReq'[t] = IF ticket'[t] THEN NoView ELSE View("acquire", call'[t])
    BY <1>1, <2>1 DEF AbsAt
  <2> QED
    BY <1>6, <2>2, <2>3
<1>10. ASSUME NEW q \in Proc, q # p, q # t PROVE AbsReq'[q] = AbsReq[q]
  <2>1. Woken(q)' <=> Woken(q)
    BY <1>2, <1>3, <1>5, <1>10 DEF Woken, At
  <2> QED
    BY <1>5, <1>6, <1>10, <2>1, AbsFrame
<1>11. View("acquire", call[t]) = [AbsReq[t] EXCEPT !.op = "acquire"]
  BY <1>7 DEF View
<1>12. AbsReq' = [AbsReq EXCEPT ![p] = NoView,
                    ![t] = IF given THEN NoView ELSE [AbsReq[t] EXCEPT !.op = "acquire"]]
  <2>1. AbsReq = [q \in Proc |-> AbsReq[q]] /\ AbsReq' = [q \in Proc |-> AbsReq'[q]]
    BY DEF AbsReq
  <2> QED
    BY <1>3, <1>8, <1>9, <1>10, <1>11, <2>1
<1>13. /\ AbsReq[p].op = "ready" /\ AbsReq[p].addr = call[p].addr
       /\ AbsReq[p].flag = call[p].flag /\ AbsReq[p].who = t
  BY <1>3, <1>7 DEF View
<1> QED
  BY <1>4, <1>5, <1>6, <1>12, <1>13 DEF Sem!Ready, Sem!NoRequest, NoView

(* goready itself is invisible: the waiter runs already. *)
LEMMA GoreadyAbs ==
    ASSUME SemaInv, SemaInv', NEW p \in Proc, Goready(p)
    PROVE  UNCHANGED Sem!semVars
<1>1. AbsAt /\ AbsAt'
  BY AbsByStep, PTL
<1>2. /\ call[p].at = "goready" /\ call \in [Proc -> CallState]
      /\ UNCHANGED <<sem, queue, ticket>>
  BY DEF Goready, At, SemaInv, TypeOK
<1>3. PICK t \in Proc : /\ t = call[p].who /\ t # p /\ call[t].at = "parked"
                        /\ \A q \in Proc : call[q].who = t => q = p
  BY <1>2 DEF SemaInv, WhoOK, At
<1>4. call' = [call EXCEPT ![p] = NoCall, ![t] = [call[t] EXCEPT !.at = "resumed"]]
  BY <1>2, <1>3 DEF Goready
<1>5. /\ call'[p] = NoCall /\ call'[t].at = "resumed"
      /\ call'[t].addr = call[t].addr /\ call'[t].flag = call[t].flag
      /\ call'[t].who = call[t].who
      /\ \A q \in Proc : q # p /\ q # t => call'[q] = call[q]
  BY <1>2, <1>3, <1>4 DEF CallState
<1>6. AbsReq'[p] = AbsReq[p]
  BY <1>1, <1>2, <1>5 DEF AbsAt, NoCall
<1>7. AbsReq'[t] = AbsReq[t]
  <2>1. Woken(t) /\ Woken(t)'
    BY <1>2, <1>3, <1>5 DEF Woken, At
  <2>2. View("acquire", call'[t]) = View("acquire", call[t])
    BY <1>5 DEF View
  <2> QED
    BY <1>1, <1>2, <2>1, <2>2 DEF AbsAt
<1>8. ASSUME NEW q \in Proc, q # p, q # t PROVE AbsReq'[q] = AbsReq[q]
  <2>1. Woken(q)' <=> Woken(q)
    BY <1>2, <1>3, <1>5, <1>8 DEF Woken, At, NoCall
  <2> QED
    BY <1>2, <1>5, <1>8, <2>1, AbsFrame
<1>9. AbsReq = [q \in Proc |-> AbsReq[q]] /\ AbsReq' = [q \in Proc |-> AbsReq'[q]]
  BY DEF AbsReq
<1>10. AbsReq' = AbsReq
  BY <1>6, <1>7, <1>8, <1>9
<1> QED
  BY <1>2, <1>10 DEF Sem!semVars

(* The slow path of an acquire up to the lock: still an acquire. *)
LEMMA ToLockAbs ==
    ASSUME SemaInv, SemaInv', NEW p \in Proc, NoPermit(p) \/ LockRoot(p)
    PROVE  UNCHANGED Sem!semVars
<1>1. AbsAt /\ AbsAt'
  BY AbsByStep, PTL
<1>2. /\ UNCHANGED <<sem, queue>> /\ call[p] \in CallState
      /\ \/ call[p].at = "easy"
         \/ call[p].at = "resumed" /\ ~ticket[p]
         \/ call[p].at = "lock"
      /\ \E l \in {"lock", "recheck"} : call'[p] = [call[p] EXCEPT !.at = l]
      /\ \A q \in Proc : q # p => call'[q] = call[q] /\ ticket'[q] = ticket[q]
  BY DEF SemaInv, TypeOK, NoPermit, LockRoot, Goto, At
<1>3. /\ call'[p].at \in {"lock", "recheck"} /\ call'[p].addr = call[p].addr
      /\ call'[p].flag = call[p].flag /\ call'[p].who = call[p].who
  BY <1>2 DEF CallState
<1>4. View("acquire", call'[p]) = View("acquire", call[p])
  BY <1>3 DEF View
<1>5. AbsReq[p] = View("acquire", call[p])
  BY <1>1, <1>2 DEF AbsAt, Woken, At
<1>6. AbsReq'[p] = View("acquire", call'[p])
  BY <1>1, <1>3 DEF AbsAt
<1>7. AbsReq'[p] = AbsReq[p]
  BY <1>4, <1>5, <1>6
<1>8. call[p].at # "goready" /\ call'[p].at # "goready"
  BY <1>2, <1>3
<1> QED
  BY <1>2, <1>7, <1>8, HiddenStep, Zenon

(* An acquire that has its permit goes home. *)
LEMMA GoHomeAbs ==
    ASSUME SemaInv, SemaInv', NEW p \in Proc, UnlockRoot(p) \/ TakeTicket(p)
    PROVE  UNCHANGED Sem!semVars
<1>1. AbsAt /\ AbsAt'
  BY AbsByStep, PTL
<1>2. /\ UNCHANGED <<sem, queue, ticket>> /\ call'[p] = NoCall
      /\ call[p].at = "unwait" \/ (call[p].at = "resumed" /\ ticket[p])
      /\ \A q \in Proc : q # p => call'[q] = call[q]
  BY DEF SemaInv, TypeOK, UnlockRoot, TakeTicket, Return, At
<1>3. AbsReq[p] = NoView
  BY <1>1, <1>2 DEF AbsAt, Woken, At
<1>4. call'[p].at = "idle" /\ AbsReq'[p] = NoView
  BY <1>1, <1>2 DEF AbsAt, NoCall
<1> QED
  BY <1>2, <1>3, <1>4, HiddenStep

(* Every step inside a call is a semaphore step or invisible to callers. *)
LEMMA StepAbs ==
    ASSUME SemaInv, SemaInv', NEW p \in Proc, Step(p)
    PROVE  Sem!SemStep(p) \/ UNCHANGED Sem!semVars
<1>1. CASE Take(p) \/ Recheck(p) \/ ParkUnlock(p) \/ Xadd(p)
  BY <1>1, TakeAbs, RecheckAbs, ParkAbs, XaddAbs DEF Sem!SemStep
<1>2. CASE LoadNwait(p) \/ NoWaiter(p) \/ Dequeue(p) \/ Handoff(p)
  BY <1>2, LoadNwaitAbs, NoWaiterAbs, DequeueAbs, HandoffAbs DEF Sem!SemStep
<1>3. CASE NoPermit(p) \/ LockRoot(p) \/ UnlockRoot(p) \/ TakeTicket(p) \/ Goready(p)
  BY <1>3, ToLockAbs, GoHomeAbs, GoreadyAbs
<1> QED
  BY <1>1, <1>2, <1>3 DEF Step

(* semacquire1 and semrelease1 implement the semaphores of module Semaphore: *)
(* whatever the steps of other goroutines between the unlocked looks at the  *)
(* word and at nwait and the locked ones, a caller sees only its steps.      *)
THEOREM SemaRefines == Spec => RefinesSemaphore
<1>1. Init => Sem!SemInit
  <2> SUFFICES ASSUME Init PROVE Sem!SemInit
    OBVIOUS
  <2>1. ASSUME NEW p \in Proc PROVE AbsOp(p) = "none"
    <3>1. call[p].at = "idle" /\ ~Woken(p)
      BY DEF Init, NoCall, Woken, At
    <3> QED
      BY <3>1 DEF AbsOp, At
  <2>2. AbsReq = [p \in Proc |-> NoView]
    BY <2>1 DEF AbsReq, NoView
  <2> QED
    BY <2>2 DEF Init, Sem!SemInit, Sem!NoRequest, NoView
<1>2. SemaInv /\ SemaInv' /\ [Next]_vars => [Sem!SemNext]_(Sem!semVars)
  <2> SUFFICES ASSUME SemaInv, SemaInv', [Next]_vars
               PROVE  Sem!SemNext \/ UNCHANGED Sem!semVars
    OBVIOUS
  <2>1. CASE Next
    <3>1. PICK p \in Proc :
            \/ \E a \in Addr, flag \in BOOLEAN : Semacquire1(p, a, flag) \/ Semrelease1(p, a, flag)
            \/ Step(p)
      BY <2>1 DEF Next
    <3> QED
      BY <3>1, CallAbs, StepAbs DEF Sem!SemNext
  <2>2. CASE UNCHANGED vars
    <3>1. UNCHANGED <<sem, queue, call, ticket>>
      BY <2>2 DEF vars
    <3>2. AbsReq' = AbsReq
      BY <3>1 DEF AbsReq, AbsOp, Woken, At
    <3> QED
      BY <3>1, <3>2 DEF Sem!semVars
  <2> QED
    BY <2>1, <2>2
<1> QED
  BY <1>1, <1>2, SemaInvariant, PTL DEF Spec, RefinesSemaphore, Sem!SemSpec
-----------------------------------------------------------------------------
(* A step of the semaphores is a step of the semaphores SemaphoreProofs is *)
(* about.                                                                  *)
LEMMA SemPStep == [Sem!SemNext]_(Sem!semVars) => [SemP!SemNext]_(SemP!semVars)
  BY DEF Sem!semVars, SemP!semVars, Sem!SemNext, SemP!SemNext, Sem!Call, SemP!Call,
     Sem!SemStep, SemP!SemStep, Sem!TakePermit, SemP!TakePermit, Sem!Park, SemP!Park,
     Sem!AddPermit, SemP!AddPermit, Sem!NoWaiter, SemP!NoWaiter, Sem!Dequeue, SemP!Dequeue,
     Sem!Ready, SemP!Ready, Sem!NoRequest, SemP!NoRequest, Sem!Returned, SemP!Returned,
     Sem!Semacquire, SemP!Semacquire, Sem!Semrelease, SemP!Semrelease

(* semacquire1 and semrelease1 miss no wakeup: while a goroutine sleeps on a *)
(* word, some goroutine is on its way to every permit of it, although a      *)
(* release that reads nwait = 0 never takes the lock.  The refinement        *)
(* carries the invariant of the abstract semaphores over to sema.go.         *)
THEOREM SemaNoMissedWakeup == Spec => []NoMissedWakeup
<1>1. Sem!SemInit => SemP!SemInv
  <2>1. Sem!SemInit => SemP!SemInit
    BY DEF Sem!SemInit, SemP!SemInit, Sem!NoRequest, SemP!NoRequest
  <2>2. SemP!SemInit => SemP!SemInv
    BY SemPConstants, SemP!SemInitInv
  <2> QED
    BY <2>1, <2>2
<1>2. SemP!SemInv /\ [Sem!SemNext]_(Sem!semVars) => SemP!SemInv'
  <2>1. SemP!SemInv /\ [SemP!SemNext]_(SemP!semVars) => SemP!SemInv'
    BY SemPConstants, SemP!SemNextInv
  <2> QED
    BY <2>1, SemPStep
<1>3. SemP!SemInv => NoMissedWakeup
  <2>1. SemP!SemInv => SemP!NoLostWakeup
    BY DEF SemP!SemInv
  <2>2. SemP!NoLostWakeup => NoMissedWakeup
    BY DEF SemP!NoLostWakeup, NoMissedWakeup, Sem!NoLostWakeup, SemP!Movers, Sem!Movers,
       SemP!Cardinality, Sem!Cardinality, SemP!IsFiniteSet, Sem!IsFiniteSet
  <2> QED
    BY <2>1, <2>2
<1> QED
  BY SemaRefines, <1>1, <1>2, <1>3, PTL DEF RefinesSemaphore, Sem!SemSpec

-----------------------------------------------------------------------------
(* Sequences. *)

(* The elements of a sequence. *)
LEMMA ToSetFacts ==
    ASSUME NEW S, NEW q \in Seq(S)
    PROVE  /\ ToSet(q) = {q[i] : i \in 1..Len(q)}
           /\ ToSet(q) \subseteq S
           /\ q = <<>> <=> ToSet(q) = {}
           /\ Len(q) \in Nat
<1>1. DOMAIN q = 1..Len(q) /\ Len(q) \in Nat /\ \A i \in 1..Len(q) : q[i] \in S
  OBVIOUS
<1>2. ToSet(q) = {q[i] : i \in 1..Len(q)}
  BY <1>1 DEF ToSet
<1>3. q = <<>> <=> Len(q) = 0
  OBVIOUS
<1> QED
  BY <1>1, <1>2, <1>3

(* One more at the end of a queue. *)
LEMMA PushFacts ==
    ASSUME NEW S, NEW q \in Seq(S), NEW x \in S
    PROVE  Append(q, x) \in Seq(S) /\ ToSet(Append(q, x)) = ToSet(q) \union {x}
<1> DEFINE p == Append(q, x)
<1>1. /\ p \in Seq(S) /\ Len(p) = Len(q) + 1 /\ Len(q) \in Nat
      /\ \A i \in 1..Len(q) : p[i] = q[i]
      /\ p[Len(q) + 1] = x
  OBVIOUS
<1> HIDE DEF p
<1>2. ToSet(p) = {p[i] : i \in 1..Len(q) + 1} /\ ToSet(q) = {q[i] : i \in 1..Len(q)}
  BY <1>1, ToSetFacts
<1>3. \A i : i \in 1..Len(q) + 1 <=> i \in 1..Len(q) \/ i = Len(q) + 1
  BY <1>1
<1>4. p \in Seq(S) /\ ToSet(p) = ToSet(q) \union {x}
  BY <1>1, <1>2, <1>3
<1> QED
  BY <1>4 DEF p

(* A set of numbers has a least one. *)
LEMMA LeastNumber ==
    ASSUME NEW T \in SUBSET Nat, T # {}
    PROVE  Min(T) \in T /\ \A y \in T : Min(T) <= y
<1> DEFINE R == OpToRel(<, Nat)
<1>1. IsWellFoundedOn(R, Nat)
  BY NatLessThanWellFounded
<1>2. \A x \in Nat, y \in Nat : y < x => <<y, x>> \in R
  BY DEF OpToRel
<1> HIDE DEF R
<1>3. PICK x \in T : \A y \in T : ~(<<y, x>> \in R)
  BY <1>1, WFMin
<1>4. ASSUME NEW y \in T PROVE x <= y
  <2>1. x \in Nat /\ y \in Nat /\ ~(y < x)
    BY <1>2, <1>3
  <2> QED
    BY <2>1
<1> QED
  BY <1>4 DEF Min

(* p is left of q when some are taken out. *)
Thins(p, q) ==
    /\ ToSet(p) \subseteq ToSet(q)
    /\ \A i, j \in 1..Len(p) : i < j =>
           \E x, y \in 1..Len(q) : x < y /\ p[i] = q[x] /\ p[j] = q[y]

(* Nothing taken out. *)
LEMMA ThinsSelf ==
    ASSUME NEW S, NEW q \in Seq(S)
    PROVE  Thins(q, q)
  BY DEF Thins

(* Without the first o. *)
LEMMA DropFacts ==
    ASSUME NEW S, NEW q \in Seq(S), NEW o \in 0..Len(q), NEW p \in Seq(S),
           Len(p) = Len(q) - o, \A i \in 1..Len(p) : p[i] = q[i + o]
    PROVE  /\ Thins(p, q)
           /\ \A s \in ToSet(q) : s \in ToSet(p) \/ \E i \in 1..o : s = q[i]
<1>1. Len(q) \in Nat /\ Len(p) \in Nat /\ o \in Nat
  OBVIOUS
<1>2. ToSet(q) = {q[i] : i \in 1..Len(q)} /\ ToSet(p) = {p[i] : i \in 1..Len(p)}
  BY ToSetFacts
<1>3. \A i \in 1..Len(p) : i + o \in 1..Len(q)
  BY <1>1
<1>4. ToSet(p) \subseteq ToSet(q)
  BY <1>2, <1>3
<1>5. ASSUME NEW i \in 1..Len(p), NEW j \in 1..Len(p), i < j
      PROVE  \E x, y \in 1..Len(q) : x < y /\ p[i] = q[x] /\ p[j] = q[y]
  <2>1. i + o \in 1..Len(q) /\ j + o \in 1..Len(q) /\ i + o < j + o
    BY <1>1, <1>3, <1>5
  <2> QED
    BY <2>1
<1>6. ASSUME NEW i \in 1..Len(q)
      PROVE  q[i] \in ToSet(p) \/ i \in 1..o
  <2>1. CASE i > o
    <3>1. i - o \in 1..Len(p) /\ (i - o) + o = i
      BY <1>1, <2>1
    <3>2. p[i - o] = q[i]
      BY <3>1
    <3> QED
      BY <3>1, <3>2, <1>2
  <2> QED
    BY <2>1, <1>1
<1> QED
  BY <1>2, <1>4, <1>5, <1>6 DEF Thins

(* The first taken out. *)
LEMMA TailThins ==
    ASSUME NEW S, NEW q \in Seq(S), q # <<>>
    PROVE  /\ Tail(q) \in Seq(S) /\ Head(q) \in ToSet(q) /\ Head(q) = q[1]
           /\ Thins(Tail(q), q)
           /\ ToSet(q) = ToSet(Tail(q)) \union {Head(q)}
<1>1. /\ Tail(q) \in Seq(S) /\ Len(Tail(q)) = Len(q) - 1 /\ Len(q) \in Nat \ {0}
      /\ \A i \in 1..Len(q) - 1 : Tail(q)[i] = q[i + 1]
      /\ Head(q) = q[1]
  OBVIOUS
<1>2. Head(q) \in ToSet(q)
  BY <1>1, ToSetFacts
<1>3. 1 \in 0..Len(q) /\ Len(q) - 1 = Len(Tail(q))
  BY <1>1
<1> DEFINE p == Tail(q)
           o == 1
<1>4. p \in Seq(S) /\ o \in 0..Len(q) /\ Len(p) = Len(q) - o
  BY <1>1, <1>3
<1>5. \A i \in 1..Len(p) : p[i] = q[i + o]
  BY <1>1, <1>3
<1> HIDE DEF p, o
<1>6. /\ Thins(p, q)
      /\ \A s \in ToSet(q) : s \in ToSet(p) \/ \E i \in 1..o : s = q[i]
  BY <1>4, <1>5, DropFacts
<1>7. /\ Thins(Tail(q), q)
      /\ \A s \in ToSet(q) : s \in ToSet(Tail(q)) \/ \E i \in 1..1 : s = q[i]
  BY <1>6 DEF p, o
<1> QED
  BY <1>1, <1>2, <1>7 DEF Thins

-----------------------------------------------------------------------------
(* dequeue. *)

(* dequeue keeps all that can still be had, and what it returns is one of them. *)
LEMMA PurgeFacts ==
    ASSUME NEW q \in Seq(Sudog)
    PROVE  /\ Purge(q) \in Seq(Sudog) /\ Thins(Purge(q), q)
           /\ \A s \in ToSet(q) : Live(s) => s \in ToSet(Purge(q))
           /\ Purge(q) # <<>> => Live(Head(Purge(q)))
           /\ q = <<>> => Purge(q) = <<>>
<1> DEFINE I == {i \in 1..Len(q) : Live(q[i])}
<1>1. Len(q) \in Nat /\ I \in SUBSET Nat
  OBVIOUS
<1>2. Purge(q) = IF I = {} THEN <<>> ELSE SubSeq(q, Min(I), Len(q))
  <2>1. SelectInSeq(q, Live) = IF I # {} THEN Min(I) ELSE 0
    BY DEF SelectInSeq
  <2>2. I # {} => Min(I) \in I
    BY <1>1, LeastNumber
  <2>3. I # {} => Min(I) # 0
    BY <2>2
  <2> QED
    BY <2>1, <2>3 DEF Purge
<1>3. CASE I = {}
  <2>1. Purge(q) = <<>>
    BY <1>2, <1>3
  <2>2. \A i \in 1..Len(q) : ~Live(q[i])
    BY <1>3
  <2>3. \A s \in ToSet(q) : ~Live(s)
    BY <2>2, ToSetFacts
  <2>4. <<>> \in Seq(Sudog) /\ Len(<<>>) = 0
    OBVIOUS
  <2>5. ToSet(<<>>) = {}
    BY <2>4, ToSetFacts
  <2> QED
    BY <2>1, <2>3, <2>4, <2>5 DEF Thins
<1>4. CASE I # {}
  <2> DEFINE m == Min(I)
             p == SubSeq(q, m, Len(q))
  <2>1. m \in I /\ \A y \in I : m <= y
    BY <1>1, <1>4, LeastNumber
  <2>2. m \in 1..Len(q) /\ Live(q[m])
    BY <2>1
  <2> HIDE DEF m
  <2>3. \A i \in 1..m - 1 : ~Live(q[i])
    BY <2>1, <2>2, <1>1
  <2>4. /\ p \in Seq(Sudog) /\ Len(p) = Len(q) - (m - 1)
        /\ \A i \in 1..Len(p) : p[i] = q[i + (m - 1)]
    BY <2>2, <1>1
  <2>5. m - 1 \in 0..Len(q)
    BY <2>2, <1>1
  <2> HIDE DEF p
  <2>6. /\ Thins(p, q)
        /\ \A s \in ToSet(q) : s \in ToSet(p) \/ \E i \in 1..m - 1 : s = q[i]
    BY <2>4, <2>5, DropFacts
  <2>7. 1 \in 1..Len(p) /\ 1 + (m - 1) = m
    BY <2>2, <2>4, <1>1
  <2>8. p[1] = q[m] /\ Head(p) = p[1]
    BY <2>4, <2>7
  <2>9. Purge(q) = p
    BY <1>2, <1>4 DEF m, p
  <2>10. q # <<>>
    BY <2>2
  <2> QED
    BY <2>2, <2>3, <2>4, <2>6, <2>8, <2>9, <2>10
<1> QED
  BY <1>3, <1>4

(* Who waits stays the same. *)
LEMMA PurgeWaiters ==
    ASSUME NEW q \in Seq(Sudog)
    PROVE  /\ WaitersIn(Purge(q)) = WaitersIn(q)
           /\ Purge(q) = <<>> <=> WaitersIn(q) = {}
<1>1. /\ Purge(q) \in Seq(Sudog) /\ ToSet(Purge(q)) \subseteq ToSet(q)
      /\ \A s \in ToSet(q) : Live(s) => s \in ToSet(Purge(q))
      /\ Purge(q) # <<>> => Live(Head(Purge(q)))
  BY PurgeFacts DEF Thins
<1>2. Purge(q) # <<>> => Head(Purge(q)) \in ToSet(Purge(q))
  BY <1>1, TailThins
<1>3. Purge(q) = <<>> => ToSet(Purge(q)) = {}
  BY <1>1, ToSetFacts
<1> QED
  BY <1>1, <1>2, <1>3 DEF WaitersIn

(* dequeueSudoG. *)
LEMMA RemoveAtThins ==
    ASSUME NEW S, NEW q \in Seq(S), NEW k \in 1..Len(q)
    PROVE  /\ RemoveAt(q, k) \in Seq(S) /\ Thins(RemoveAt(q, k), q)
           /\ \A s \in ToSet(q) : s \in ToSet(RemoveAt(q, k)) \/ s = q[k]
           /\ \A s \in ToSet(RemoveAt(q, k)) : \E i \in 1..Len(q) : i # k /\ s = q[i]
<1> DEFINE a == SubSeq(q, 1, k - 1)
           b == SubSeq(q, k + 1, Len(q))
           u == a \o b
           f(i) == IF i < k THEN i ELSE i + 1
<1>1. Len(q) \in Nat /\ k \in Nat /\ DOMAIN q = 1..Len(q)
  OBVIOUS
<1>2. /\ a \in Seq(S) /\ Len(a) = k - 1 /\ \A i \in 1..k - 1 : a[i] = q[i]
      /\ b \in Seq(S) /\ Len(b) = Len(q) - k /\ \A i \in 1..Len(q) - k : b[i] = q[k + i]
  BY SMT
<1> HIDE DEF a, b
<1>3. u \in Seq(S) /\ Len(u) = Len(q) - 1
  <2>1. u \in Seq(S) /\ Len(u) = Len(a) + Len(b)
    BY <1>2, ConcatProperties
  <2> QED
    BY <2>1, <1>1, <1>2
<1>4. ASSUME NEW i \in 1..Len(q) - 1
      PROVE  u[i] = q[f(i)] /\ f(i) \in 1..Len(q) /\ f(i) # k
  <2>1. CASE i < k
    BY <2>1, <1>1, <1>2
  <2>2. CASE i >= k
    <3>1. u[i] = b[i - (k - 1)]
      BY <2>2, <1>1, <1>2
    <3>2. i - (k - 1) \in 1..Len(q) - k /\ k + (i - (k - 1)) = i + 1
      BY <2>2, <1>1
    <3>3. b[i - (k - 1)] = q[i + 1]
      BY <3>2, <1>2
    <3> QED
      BY <2>2, <3>1, <3>3, <1>1
  <2>3. i < k \/ i >= k
    BY <1>1
  <2> QED
    BY <2>1, <2>2, <2>3, Zenon
<1>5. RemoveAt(q, k) = u
  BY DEF RemoveAt, a, b
<1> HIDE DEF u
<1>6. ASSUME NEW i \in 1..Len(u), NEW j \in 1..Len(u), i < j
      PROVE  f(i) < f(j)
  BY <1>6, <1>1, <1>3
<1>7. ASSUME NEW i \in 1..Len(q), i # k
      PROVE  \E j \in 1..Len(u) : f(j) = i
  <2>1. CASE i < k
    BY <2>1, <1>1, <1>3
  <2>2. CASE i > k
    <3>1. i - 1 \in 1..Len(u) /\ f(i - 1) = i
      BY <2>2, <1>1, <1>3
    <3> QED
      BY <3>1
  <2> QED
    BY <2>1, <2>2, <1>7, <1>1
<1> HIDE DEF f
<1>8. ToSet(u) = {u[i] : i \in 1..Len(u)} /\ ToSet(q) = {q[i] : i \in 1..Len(q)}
  BY <1>3, ToSetFacts
<1>9. \A i \in 1..Len(u) : u[i] = q[f(i)] /\ f(i) \in 1..Len(q) /\ f(i) # k
  BY <1>3, <1>4
<1>10. Thins(u, q)
  <2>1. ToSet(u) \subseteq ToSet(q)
    BY <1>8, <1>9
  <2> QED
    BY <2>1, <1>6, <1>9 DEF Thins
<1>11. \A s \in ToSet(q) : s \in ToSet(u) \/ s = q[k]
  BY <1>7, <1>8, <1>9
<1>12. \A s \in ToSet(u) : \E i \in 1..Len(q) : i # k /\ s = q[i]
  BY <1>8, <1>9
<1> QED
  BY <1>3, <1>5, <1>10, <1>11, <1>12

(* dequeueSudoG takes out the sudog of g, if g has one, and no other. *)
LEMMA WithoutFacts ==
    ASSUME NEW q \in Seq(Sudog), NEW g
    PROVE  /\ Without(q, g) \in Seq(Sudog) /\ Thins(Without(q, g), q)
           /\ \A s \in ToSet(q) : s \in ToSet(Without(q, g)) \/ s.g = g
           /\ (\A i, j \in 1..Len(q) : q[i].g = q[j].g => i = j)
                  => \A s \in ToSet(Without(q, g)) : s.g # g
<1> DEFINE I == {i \in 1..Len(q) : q[i].g = g}
<1>1. I \in SUBSET Nat /\ ToSet(q) = {q[i] : i \in 1..Len(q)}
  BY ToSetFacts
<1>2. Without(q, g) = IF I # {} THEN RemoveAt(q, Min(I)) ELSE q
  BY DEF Without, RemoveFirstMatch, SelectInSeq
<1>3. CASE I = {}
  <2>1. \A s \in ToSet(q) : s.g # g
    BY <1>1, <1>3
  <2> QED
    BY <2>1, <1>2, <1>3, ThinsSelf
<1>4. CASE I # {}
  <2> DEFINE m == Min(I)
  <2>1. m \in I
    BY <1>1, <1>4, LeastNumber
  <2>2. m \in 1..Len(q) /\ q[m].g = g
    BY <2>1
  <2> HIDE DEF m
  <2>3. /\ RemoveAt(q, m) \in Seq(Sudog) /\ Thins(RemoveAt(q, m), q)
        /\ \A s \in ToSet(q) : s \in ToSet(RemoveAt(q, m)) \/ s = q[m]
        /\ \A s \in ToSet(RemoveAt(q, m)) : \E i \in 1..Len(q) : i # m /\ s = q[i]
    BY <2>2, RemoveAtThins
  <2>4. Without(q, g) = RemoveAt(q, m)
    BY <1>2, <1>4 DEF m
  <2>5. (\A i, j \in 1..Len(q) : q[i].g = q[j].g => i = j)
            => \A s \in ToSet(RemoveAt(q, m)) : s.g # g
    BY <2>2, <2>3
  <2> QED
    BY <2>2, <2>3, <2>4, <2>5
<1> QED
  BY <1>3, <1>4

-----------------------------------------------------------------------------
(* The ring of N slots, from slot x, with m items. *)
Ring(b, x, m, N) == [i \in 1..m |-> b[(x + i - 1) % N]]

Slot(y, N) == IF y < N THEN y ELSE y - N

(* The slot index without a division. *)
LEMMA SlotMod ==
    ASSUME NEW N \in Nat \ {0}, NEW y \in 0..2 * N - 1
    PROVE  y % N = Slot(y, N) /\ Slot(y, N) \in 0..N - 1
<1>1. \A q \in Int, r \in 0..N - 1 : (q * N + r) % N = r
  OBVIOUS
<1>2. CASE y < N
  <2>1. y \in 0..N - 1 /\ 0 * N + y = y /\ 0 \in Int
    BY <1>2
  <2>2. (0 * N + y) % N = y
    BY <2>1, <1>1
  <2> QED
    BY <1>2, <2>1, <2>2 DEF Slot
<1>3. CASE y >= N
  <2>1. y - N \in 0..N - 1 /\ 1 * N + (y - N) = y /\ 1 \in Int
    BY <1>3
  <2>2. (1 * N + (y - N)) % N = y - N
    BY <2>1, <1>1
  <2> QED
    BY <1>3, <2>1, <2>2 DEF Slot
<1> QED
  BY <1>2, <1>3

(* The items in the ring, and where each is. *)
LEMMA RingFacts ==
    ASSUME NEW S, NEW N \in Nat, NEW x \in Nat, NEW m \in 0..N, NEW b \in [0..N - 1 -> S],
           N > 0 => x < N
    PROVE  /\ Ring(b, x, m, N) \in Seq(S) /\ Len(Ring(b, x, m, N)) = m
           /\ \A i \in 1..m : /\ Ring(b, x, m, N)[i] = b[Slot(x + i - 1, N)]
                              /\ Slot(x + i - 1, N) \in 0..N - 1
<1>1. ASSUME NEW i \in 1..m
      PROVE  /\ (x + i - 1) % N = Slot(x + i - 1, N) /\ Slot(x + i - 1, N) \in 0..N - 1
             /\ b[(x + i - 1) % N] \in S
  <2>1. N \in Nat \ {0} /\ x + i - 1 \in 0..2 * N - 1
    OBVIOUS
  <2>2. (x + i - 1) % N = Slot(x + i - 1, N) /\ Slot(x + i - 1, N) \in 0..N - 1
    BY <2>1, SlotMod
  <2> QED
    BY <2>2
<1>2. Ring(b, x, m, N) \in [1..m -> S]
  BY <1>1 DEF Ring
<1>3. Ring(b, x, m, N) \in Seq(S) /\ Len(Ring(b, x, m, N)) = m
  BY <1>2
<1> QED
  BY <1>1, <1>3 DEF Ring

(* Two sequences are equal if they agree everywhere. *)
LEMMA SameSequence ==
    ASSUME NEW S, NEW p \in Seq(S), NEW q \in Seq(S), Len(p) = Len(q),
           \A i \in 1..Len(p) : p[i] = q[i]
    PROVE  p = q
  OBVIOUS

(* Two sequences put together. *)
LEMMA JoinFacts ==
    ASSUME NEW S, NEW p \in Seq(S), NEW q \in Seq(S), NEW r, r = p \o q
    PROVE  /\ r \in Seq(S) /\ Len(r) = Len(p) + Len(q)
           /\ \A i \in 1..Len(p) : r[i] = p[i]
           /\ \A i \in 1..Len(q) : r[Len(p) + i] = q[i]
<1>1. p \o q \in Seq(S) /\ Len(p \o q) = Len(p) + Len(q)
  OBVIOUS
<1>2. \A i \in 1..Len(p) : (p \o q)[i] = p[i]
  OBVIOUS
<1>3. ASSUME NEW i \in 1..Len(q)
      PROVE  (p \o q)[Len(p) + i] = q[i]
  <2>1. (p \o q)[Len(p) + i] = q[(Len(p) + i) - Len(p)]
    OBVIOUS
  <2>2. (Len(p) + i) - Len(p) = i
    OBVIOUS
  <2> QED
    BY <2>1, <2>2
<1> QED
  BY <1>1, <1>2, <1>3

(* Left after right or the other way round, an item more at the end. *)
LEMMA JoinPush ==
    ASSUME NEW S, NEW p \in Seq(S), NEW q \in Seq(S), NEW v \in S
    PROVE  p \o Append(q, v) = Append(p \o q, v)
<1> DEFINE a == Append(q, v)
           l == p \o a
           j == p \o q
           r == Append(j, v)
<1>1. a \in Seq(S) /\ Len(a) = Len(q) + 1 /\ (\A i \in 1..Len(q) : a[i] = q[i]) /\ a[Len(q) + 1] = v
  OBVIOUS
<1> HIDE DEF a
<1> HIDE DEF l, j
<1>2. /\ l \in Seq(S) /\ Len(l) = Len(p) + Len(a)
      /\ \A i \in 1..Len(p) : l[i] = p[i]
      /\ \A i \in 1..Len(a) : l[Len(p) + i] = a[i]
  <2>1. l = p \o a
    BY DEF l
  <2> QED
    BY <1>1, <2>1, JoinFacts
<1>3. /\ j \in Seq(S) /\ Len(j) = Len(p) + Len(q)
      /\ \A i \in 1..Len(p) : j[i] = p[i]
      /\ \A i \in 1..Len(q) : j[Len(p) + i] = q[i]
  <2>1. j = p \o q
    BY DEF j
  <2> QED
    BY <2>1, JoinFacts
<1>4. r \in Seq(S) /\ Len(r) = Len(j) + 1 /\ (\A i \in 1..Len(j) : r[i] = j[i]) /\ r[Len(j) + 1] = v
  BY <1>3
<1> HIDE DEF r
<1>5. Len(p) \in Nat /\ Len(q) \in Nat
  OBVIOUS
<1>6. ASSUME NEW i \in 1..Len(l)
      PROVE  l[i] = r[i]
  <2>1. CASE i <= Len(p)
    BY <2>1, <1>1, <1>2, <1>3, <1>4, <1>5
  <2>2. CASE i > Len(p)
    <3>1. PICK k \in 1..Len(q) + 1 : i = Len(p) + k
      <4>1. i - Len(p) \in 1..Len(q) + 1 /\ i = Len(p) + (i - Len(p))
        BY <2>2, <1>1, <1>2, <1>5
      <4> QED
        BY <4>1
    <3>2. l[i] = a[k]
      BY <3>1, <1>1, <1>2
    <3>3. CASE k = Len(q) + 1
      BY <3>1, <3>2, <3>3, <1>1, <1>3, <1>4, <1>5
    <3>4. CASE k \in 1..Len(q)
      <4>1. i \in 1..Len(j) /\ r[i] = j[i]
        BY <3>1, <3>4, <1>3, <1>4, <1>5
      <4> QED
        BY <4>1, <3>1, <3>2, <3>4, <1>1, <1>3
    <3> QED
      BY <3>3, <3>4, <1>5
  <2> QED
    BY <2>1, <2>2, <1>2, <1>5
<1>7. l = r
  BY <1>1, <1>2, <1>3, <1>4, <1>5, <1>6, SameSequence
<1> QED
  BY <1>7 DEF l, r, j, a

(* What got through: s was received, and the rest is in the ring. *)
Joined(s, b, x, m, N) == s \o Ring(b, x, m, N)

PushArgs(N, x, m, b, d, v, s) ==
    /\ N \in Nat \ {0} /\ x \in 0..N - 1 /\ m \in 0..N - 1 /\ v \in Nat /\ s \in Seq(Nat)
    /\ b \in [0..N - 1 -> Nat] /\ d \in [0..N - 1 -> Nat]
    /\ d[Slot(x + m, N)] = v /\ \A i \in 0..N - 1 : i # Slot(x + m, N) => d[i] = b[i]

(* A new item behind the others. *)
LEMMA RingPush ==
    ASSUME NEW N, NEW x, NEW m, NEW b, NEW d, NEW v, NEW s, PushArgs(N, x, m, b, d, v, s)
    PROVE  Joined(s, d, x, m + 1, N) = Append(Joined(s, b, x, m, N), v)
<1>0. PICK S : S = Nat
  OBVIOUS
<1>7. /\ N \in Nat \ {0} /\ x \in 0..N - 1 /\ m \in 0..N - 1 /\ v \in S /\ s \in Seq(S)
      /\ b \in [0..N - 1 -> S] /\ d \in [0..N - 1 -> S]
  BY <1>0 DEF PushArgs
<1>8. d[Slot(x + m, N)] = v /\ \A i \in 0..N - 1 : i # Slot(x + m, N) => d[i] = b[i]
  BY DEF PushArgs
<1> USE <1>7
<1> DEFINE p == Ring(d, x, m + 1, N)
           q == Ring(b, x, m, N)
           r == Append(q, v)
<1>1. /\ p \in Seq(S) /\ Len(p) = m + 1
      /\ \A i \in 1..m + 1 : p[i] = d[Slot(x + i - 1, N)] /\ Slot(x + i - 1, N) \in 0..N - 1
  <2>1. N \in Nat /\ x \in Nat /\ m + 1 \in 0..N /\ (N > 0 => x < N)
    OBVIOUS
  <2> QED
    BY <2>1, RingFacts
<1>2. /\ q \in Seq(S) /\ Len(q) = m
      /\ \A i \in 1..m : q[i] = b[Slot(x + i - 1, N)] /\ Slot(x + i - 1, N) \in 0..N - 1
  <2>1. N \in Nat /\ x \in Nat /\ m \in 0..N /\ (N > 0 => x < N)
    OBVIOUS
  <2> QED
    BY <2>1, RingFacts
<1> HIDE DEF p, q
<1>3. r \in Seq(S) /\ Len(r) = m + 1 /\ (\A i \in 1..m : r[i] = q[i]) /\ r[m + 1] = v
  BY <1>2
<1> HIDE DEF r
<1>4. \A i \in 1..m : Slot(x + i - 1, N) # Slot(x + m, N)
  BY DEF Slot
<1>5. ASSUME NEW i \in 1..m + 1
      PROVE  p[i] = r[i]
  <2>1. CASE i \in 1..m
    BY <2>1, <1>1, <1>2, <1>3, <1>4, <1>8
  <2>2. CASE i = m + 1
    <3>1. x + i - 1 = x + m
      BY <2>2
    <3>2. p[i] = d[Slot(x + m, N)]
      BY <1>1, <3>1
    <3> QED
      BY <3>2, <2>2, <1>3, <1>8
  <2> QED
    BY <2>1, <2>2
<1>6. p = r
  BY <1>1, <1>3, <1>5, SameSequence
<1>9. Ring(d, x, m + 1, N) = Append(q, v)
  BY <1>6 DEF p, r
<1>10. s \o Append(q, v) = Append(s \o q, v)
  <2>1. q \in Seq(S)
    BY <1>2
  <2> QED
    BY <2>1, JoinPush
<1> QED
  BY <1>9, <1>10 DEF Joined, q

(* The oldest leaves. *)
PopArgs(N, x, m, b, d, s) ==
    /\ N \in Nat \ {0} /\ x \in 0..N - 1 /\ m \in 1..N /\ s \in Seq(Nat)
    /\ b \in [0..N - 1 -> Nat] /\ d \in [0..N - 1 -> Nat]
    /\ \A i \in 0..N - 1 : i # x => d[i] = b[i]

(* What was in the oldest slot has come out; nothing else got through or was lost. *)
LEMMA RingPop ==
    ASSUME NEW N, NEW x, NEW m, NEW b, NEW d, NEW s, PopArgs(N, x, m, b, d, s)
    PROVE  Joined(Append(s, b[x]), d, Slot(x + 1, N), m - 1, N) = Joined(s, b, x, m, N)
<1>0. PICK S : S = Nat
  OBVIOUS
<1>14. /\ N \in Nat \ {0} /\ x \in 0..N - 1 /\ m \in 1..N /\ s \in Seq(S)
       /\ b \in [0..N - 1 -> S] /\ d \in [0..N - 1 -> S]
  BY <1>0 DEF PopArgs
<1>15. \A i \in 0..N - 1 : i # x => d[i] = b[i]
  BY DEF PopArgs
<1> USE <1>14
<1> DEFINE y == Slot(x + 1, N)
           p == Ring(d, y, m - 1, N)
           q == Ring(b, x, m, N)
           a == Append(s, b[x])
           l == a \o p
           r == s \o q
<1>1. y \in 0..N - 1
  BY DEF Slot
<1>2. \A i \in 1..m - 1 : Slot(y + i - 1, N) = Slot(x + (i + 1) - 1, N) /\ Slot(y + i - 1, N) # x
  BY DEF Slot
<1> HIDE DEF y
<1>3. /\ p \in Seq(S) /\ Len(p) = m - 1
      /\ \A i \in 1..m - 1 : p[i] = d[Slot(y + i - 1, N)] /\ Slot(y + i - 1, N) \in 0..N - 1
  <2>1. N \in Nat /\ y \in Nat /\ m - 1 \in 0..N /\ (N > 0 => y < N)
    BY <1>1
  <2> QED
    BY <2>1, RingFacts
<1>4. /\ q \in Seq(S) /\ Len(q) = m
      /\ \A i \in 1..m : q[i] = b[Slot(x + i - 1, N)] /\ Slot(x + i - 1, N) \in 0..N - 1
  <2>1. N \in Nat /\ x \in Nat /\ m \in 0..N /\ (N > 0 => x < N)
    OBVIOUS
  <2> QED
    BY <2>1, RingFacts
<1> HIDE DEF p, q
<1>5. a \in Seq(S) /\ Len(a) = Len(s) + 1 /\ (\A i \in 1..Len(s) : a[i] = s[i]) /\ a[Len(s) + 1] = b[x]
  BY b[x] \in S
<1> HIDE DEF a
<1> HIDE DEF l, r
<1>6. /\ l \in Seq(S) /\ Len(l) = Len(a) + Len(p)
      /\ \A i \in 1..Len(a) : l[i] = a[i]
      /\ \A i \in 1..Len(p) : l[Len(a) + i] = p[i]
  <2>1. l = a \o p
    BY DEF l
  <2>2. a \in Seq(S) /\ p \in Seq(S)
    BY <1>3, <1>5
  <2> QED
    BY <2>1, <2>2, JoinFacts
<1>7. /\ r \in Seq(S) /\ Len(r) = Len(s) + Len(q)
      /\ \A i \in 1..Len(s) : r[i] = s[i]
      /\ \A i \in 1..Len(q) : r[Len(s) + i] = q[i]
  <2>1. r = s \o q
    BY DEF r
  <2>2. q \in Seq(S)
    BY <1>4
  <2> QED
    BY <2>1, <2>2, JoinFacts
<1>8. Len(s) \in Nat
  OBVIOUS
<1>9. q[1] = b[x]
  <2>1. Slot(x + 1 - 1, N) = x
    BY DEF Slot
  <2> QED
    BY <2>1, <1>4
<1>10. ASSUME NEW i \in 1..m - 1
       PROVE  p[i] = q[i + 1]
  <2>1. /\ Slot(y + i - 1, N) = Slot(x + (i + 1) - 1, N) /\ Slot(y + i - 1, N) # x
        /\ p[i] = d[Slot(y + i - 1, N)] /\ Slot(y + i - 1, N) \in 0..N - 1
    BY <1>2, <1>3
  <2>2. i + 1 \in 1..m
    OBVIOUS
  <2>3. q[i + 1] = b[Slot(x + (i + 1) - 1, N)]
    BY <2>2, <1>4
  <2> QED
    BY <2>1, <2>3, <1>15
<1>11. ASSUME NEW i \in 1..Len(l)
       PROVE  l[i] = r[i]
  <2>1. CASE i <= Len(s)
    <3>1. i \in 1..Len(s) /\ i \in 1..Len(a)
      BY <2>1, <1>5, <1>6, <1>8
    <3> QED
      BY <3>1, <1>5, <1>6, <1>7
  <2>2. CASE i = Len(s) + 1
    <3>1. i \in 1..Len(a) /\ 1 \in 1..Len(q)
      BY <2>2, <1>4, <1>5, <1>8
    <3>2. l[i] = a[i] /\ r[Len(s) + 1] = q[1]
      BY <3>1, <1>6, <1>7
    <3> QED
      BY <2>2, <3>2, <1>5, <1>9
  <2>3. CASE i > Len(s) + 1
    <3>1. PICK k \in 1..m - 1 : i = Len(a) + k
      <4>1. i - Len(a) \in 1..m - 1 /\ i = Len(a) + (i - Len(a))
        BY <2>3, <1>3, <1>5, <1>6, <1>8
      <4> QED
        BY <4>1
    <3>2. i = Len(s) + (k + 1) /\ k + 1 \in 1..m
      BY <3>1, <1>5, <1>8
    <3>3. l[i] = p[k] /\ p[k] = q[k + 1]
      BY <3>1, <1>3, <1>6, <1>10
    <3>4. r[Len(s) + (k + 1)] = q[k + 1]
      BY <3>2, <1>4, <1>7
    <3> QED
      BY <3>2, <3>3, <3>4
  <2> QED
    BY <2>1, <2>2, <2>3, <1>8
<1>12. Len(l) = Len(r)
  BY <1>3, <1>4, <1>5, <1>6, <1>7, <1>8
<1>13. l = r
  BY <1>6, <1>7, <1>11, <1>12, SameSequence, Zenon
<1> QED
  BY <1>13 DEF Joined, l, r, a, p, q, y

(* In a full ring another item takes the place of the oldest. *)
SwapArgs(N, x, b, d, v, s) ==
    /\ N \in Nat \ {0} /\ x \in 0..N - 1 /\ v \in Nat /\ s \in Seq(Nat)
    /\ b \in [0..N - 1 -> Nat] /\ d \in [0..N - 1 -> Nat]
    /\ d[x] = v /\ \A i \in 0..N - 1 : i # x => d[i] = b[i]

(* The oldest comes out and v is behind the others. *)
LEMMA RingSwap ==
    ASSUME NEW N, NEW x, NEW b, NEW d, NEW v, NEW s, SwapArgs(N, x, b, d, v, s)
    PROVE  Joined(Append(s, b[x]), d, Slot(x + 1, N), N, N) = Append(Joined(s, b, x, N, N), v)
<1>0. PICK S : S = Nat
  OBVIOUS
<1>15. /\ N \in Nat \ {0} /\ x \in 0..N - 1 /\ v \in S /\ s \in Seq(S)
       /\ b \in [0..N - 1 -> S] /\ d \in [0..N - 1 -> S]
  BY <1>0 DEF SwapArgs
<1>16. d[x] = v
  BY DEF SwapArgs
<1>17. \A i \in 0..N - 1 : i # x => d[i] = b[i]
  BY DEF SwapArgs
<1> USE <1>15
<1> DEFINE y == Slot(x + 1, N)
           p == Ring(d, y, N, N)
           q == Ring(b, x, N, N)
           a == Append(s, b[x])
           l == a \o p
           j == s \o q
           r == Append(j, v)
<1>1. y \in 0..N - 1 /\ Slot(y + N - 1, N) = x
  BY DEF Slot
<1>2. \A i \in 1..N - 1 : Slot(y + i - 1, N) = Slot(x + (i + 1) - 1, N) /\ Slot(y + i - 1, N) # x
  BY DEF Slot
<1> HIDE DEF y
<1>3. /\ p \in Seq(S) /\ Len(p) = N
      /\ \A i \in 1..N : p[i] = d[Slot(y + i - 1, N)] /\ Slot(y + i - 1, N) \in 0..N - 1
  <2>1. N \in Nat /\ y \in Nat /\ N \in 0..N /\ (N > 0 => y < N)
    BY <1>1
  <2> QED
    BY <2>1, RingFacts
<1>4. /\ q \in Seq(S) /\ Len(q) = N
      /\ \A i \in 1..N : q[i] = b[Slot(x + i - 1, N)] /\ Slot(x + i - 1, N) \in 0..N - 1
  <2>1. N \in Nat /\ x \in Nat /\ N \in 0..N /\ (N > 0 => x < N)
    OBVIOUS
  <2> QED
    BY <2>1, RingFacts
<1> HIDE DEF p, q
<1>5. a \in Seq(S) /\ Len(a) = Len(s) + 1 /\ (\A i \in 1..Len(s) : a[i] = s[i]) /\ a[Len(s) + 1] = b[x]
  BY b[x] \in S
<1> HIDE DEF a, l, j
<1>6. /\ l \in Seq(S) /\ Len(l) = Len(a) + Len(p)
      /\ \A i \in 1..Len(a) : l[i] = a[i]
      /\ \A i \in 1..Len(p) : l[Len(a) + i] = p[i]
  <2>1. l = a \o p
    BY DEF l
  <2>2. a \in Seq(S) /\ p \in Seq(S)
    BY <1>3, <1>5
  <2> QED
    BY <2>1, <2>2, JoinFacts
<1>7. /\ j \in Seq(S) /\ Len(j) = Len(s) + Len(q)
      /\ \A i \in 1..Len(s) : j[i] = s[i]
      /\ \A i \in 1..Len(q) : j[Len(s) + i] = q[i]
  <2>1. j = s \o q
    BY DEF j
  <2>2. q \in Seq(S)
    BY <1>4
  <2> QED
    BY <2>1, <2>2, JoinFacts
<1>8. r \in Seq(S) /\ Len(r) = Len(j) + 1 /\ (\A i \in 1..Len(j) : r[i] = j[i]) /\ r[Len(j) + 1] = v
  <2>1. j \in Seq(S)
    BY <1>7
  <2> QED
    BY <2>1
<1> HIDE DEF r
<1>9. Len(s) \in Nat
  OBVIOUS
<1>10. q[1] = b[x] /\ p[N] = v
  <2>1. Slot(x + 1 - 1, N) = x /\ 1 \in 1..N /\ N \in 1..N
    BY DEF Slot
  <2> QED
    BY <2>1, <1>1, <1>3, <1>4, <1>16
<1>11. ASSUME NEW i \in 1..N - 1
       PROVE  p[i] = q[i + 1]
  <2>1. /\ Slot(y + i - 1, N) = Slot(x + (i + 1) - 1, N) /\ Slot(y + i - 1, N) # x
        /\ p[i] = d[Slot(y + i - 1, N)] /\ Slot(y + i - 1, N) \in 0..N - 1
    BY <1>2, <1>3
  <2>2. i + 1 \in 1..N
    OBVIOUS
  <2>3. q[i + 1] = b[Slot(x + (i + 1) - 1, N)]
    BY <2>2, <1>4
  <2> QED
    BY <2>1, <2>3, <1>17
<1>12. ASSUME NEW i \in 1..Len(l)
       PROVE  l[i] = r[i]
  <2>1. CASE i <= Len(s)
    BY <2>1, <1>3, <1>4, <1>5, <1>6, <1>7, <1>8, <1>9
  <2>2. CASE i = Len(s) + 1
    <3>1. l[i] = b[x] /\ r[i] = j[i] /\ 1 \in 1..Len(q) /\ i = Len(s) + 1
      BY <2>2, <1>3, <1>4, <1>5, <1>6, <1>7, <1>8, <1>9
    <3>2. j[Len(s) + 1] = q[1]
      BY <3>1, <1>7
    <3> QED
      BY <3>1, <3>2, <1>10
  <2>3. CASE i > Len(s) + 1
    <3>1. PICK k \in 1..N : i = Len(a) + k
      <4>1. i - Len(a) \in 1..N /\ i = Len(a) + (i - Len(a))
        BY <2>3, <1>3, <1>5, <1>6, <1>9
      <4> QED
        BY <4>1
    <3>2. i = Len(s) + (k + 1) /\ l[i] = p[k]
      BY <3>1, <1>3, <1>5, <1>6, <1>9
    <3>3. CASE k = N
      BY <3>2, <3>3, <1>4, <1>7, <1>8, <1>9, <1>10
    <3>4. CASE k \in 1..N - 1
      <4>1. p[k] = q[k + 1] /\ k + 1 \in 1..Len(q) /\ i \in 1..Len(j)
        BY <3>2, <3>4, <1>4, <1>7, <1>9, <1>11
      <4>2. j[Len(s) + (k + 1)] = q[k + 1] /\ r[i] = j[i]
        BY <4>1, <1>7, <1>8
      <4> QED
        BY <3>2, <4>1, <4>2
    <3> QED
      BY <3>3, <3>4
  <2> QED
    BY <2>1, <2>2, <2>3, <1>9
<1>13. Len(l) = Len(r)
  BY <1>3, <1>4, <1>5, <1>6, <1>7, <1>8, <1>9
<1>14. l = r
  BY <1>6, <1>8, <1>12, <1>13, SameSequence, Zenon
<1> QED
  BY <1>14 DEF Joined, l, r, j, a, p, q, y

-----------------------------------------------------------------------------
(* The invariant.                                                          *)

Awake(g) == \E r \in G : g \in readies[r]
Notified(g) == Awake(g) \/ pc[g] = "woken"
Sleeps(g) == pc[g] = "parked" /\ ~Awake(g) /\ g \notin selectDone
Sends(ks) == \E k \in ks : k.dir = "send"
Won(g) == Notified(g) /\ param[g].ok /\ Sends(param[g].case)

GoroutineOK(g) ==
    /\ g \in selectDone => Notified(g)
    /\ pc[g] = "woken" => g \in selectDone
    /\ Awake(g) => pc[g] = "parked"
    /\ readies[g] # {} => pc[g] = "goready"
    /\ Notified(g) => /\ param[g].case # {} /\ param[g].case \subseteq cases[g]
                      /\ g \in selectDone \/ param[g].case = cases[g]
    /\ item[g] # 0 <=> pc[g] \in {"parked", "woken"} /\ Sends(cases[g])
    /\ item[g] <= items /\ item[g] \notin failed

(* Two goroutines have not the same item, and nobody wakes one of them twice. *)
ApartOK ==
    /\ \A g, e \in G : item[g] = item[e] /\ item[g] # 0 => g = e
    /\ \A g, r, e \in G : g \in readies[r] /\ g \in readies[e] => r = e

(* The sudog s is in the queue of case k. *)
SudogOK(s, k) ==
    /\ k \in cases[s.g] /\ pc[s.g] \in {"parked", "woken"} /\ s.item = item[s.g]
    /\ Live(s) => Sleeps(s.g)
    /\ ~s.isSelect => cases[s.g] = {k}

InOrder(q, k) ==
    \A i, j \in 1..Len(q) : i < j =>
        q[i].g # q[j].g /\ (k.dir = "send" => q[i].item < q[j].item)

LineOK(q, k) ==
    /\ \A s \in ToSet(q) : SudogOK(s, k)
    /\ InOrder(q, k)
    /\ \A g \in G : Sleeps(g) /\ k \in cases[g] => \E s \in ToSet(q) : s.g = g

(* The queue that a case k waits in; h is what the channels are. *)
Line(h, k) == IF k.dir = "send" THEN h[k.chan].sendq ELSE h[k.chan].recvq

(* Those that wait in vain. *)
WaitOK(r, c) ==
    /\ r.closed => r.sendq = <<>> /\ r.recvq = <<>>
    /\ \A s \in WaitersIn(r.sendq) :
           r.qcount = dataqsiz[c] /\ \A e \in WaitersIn(r.recvq) : e.g = s.g
    /\ \A s \in WaitersIn(r.recvq) : r.qcount = 0

RingOK(r, c) ==
    /\ dataqsiz[c] = 0 => r.recvx = 0 /\ r.sendx = 0
    /\ dataqsiz[c] > 0 => /\ r.recvx < dataqsiz[c]
                          /\ r.sendx = Slot(r.recvx + r.qcount, dataqsiz[c])

(* What got through, channel by channel. *)
Outs(h) == [c \in Chan |-> rcvd[c] \o Ring(h[c].buf, h[c].recvx, h[c].qcount, dataqsiz[c])]

OutsOK(o) ==
    /\ \A c \in Chan : o[c] \in Seq(Nat) /\ StrictlyIncreasing(o[c])
    /\ \A c \in Chan : \A x \in ToSet(o[c]) :
           x \in 1..items /\ x \notin failed /\ \A g \in G : item[g] = x => Won(g)
    /\ \A c, d \in Chan : c # d => ToSet(o[c]) \intersect ToSet(o[d]) = {}
    /\ \A x \in acked : \E c \in Chan : x \in ToSet(o[c])
    /\ \A g \in G : Won(g) => \E c \in Chan : item[g] \in ToSet(o[c])
    /\ \A x \in failed : x <= items

(* Who waits to send comes after all that. *)
AfterOK(h, o) ==
    \A c \in Chan : \A s \in WaitersIn(h[c].sendq) : \A x \in ToSet(o[c]) : x < s.item

HchansOK(h) ==
    /\ DOMAIN h = Chan /\ \A c \in Chan : h[c] \in Hchan(c)
    /\ \A k \in Case : LineOK(Line(h, k), k)
    /\ \A c \in Chan : WaitOK(h[c], c) /\ RingOK(h[c], c)
    /\ OutsOK(Outs(h)) /\ AfterOK(h, Outs(h))

(* What a non-blocking receive has seen. *)
LookOK ==
    \A g \in G :
        /\ pc[g] \in {"empty?", "open?", "still empty?"} => \E c \in Chan : cases[g] = {Recv(c)}
        /\ pc[g] = "open?" => g \in witness \/ ch[ChanOf(g)].closed
        /\ pc[g] = "still empty?" => ch[ChanOf(g)].closed

ChanInv ==
    /\ ChanTypeOK /\ (\A g \in G : GoroutineOK(g)) /\ ApartOK
    /\ HchansOK(ch) /\ LookOK

-----------------------------------------------------------------------------
(* Taking sudogs out of a queue leaves it in order. *)
LEMMA ThinsInOrder ==
    ASSUME NEW p \in Seq(Sudog), NEW q \in Seq(Sudog), NEW k, Thins(p, q), InOrder(q, k)
    PROVE  InOrder(p, k)
<1> SUFFICES ASSUME NEW i \in 1..Len(p), NEW j \in 1..Len(p), i < j
             PROVE  p[i].g # p[j].g /\ (k.dir = "send" => p[i].item < p[j].item)
  BY DEF InOrder
<1>1. PICK x \in 1..Len(q), y \in 1..Len(q) : x < y /\ p[i] = q[x] /\ p[j] = q[y]
  BY DEF Thins
<1>2. q[x].g # q[y].g /\ (k.dir = "send" => q[x].item < q[y].item)
  BY <1>1 DEF InOrder
<1> QED
  BY <1>1, <1>2

(* A goroutine has one sudog in a queue. *)
LEMMA OneSudog ==
    ASSUME NEW q \in Seq(Sudog), NEW k, InOrder(q, k)
    PROVE  /\ \A i, j \in 1..Len(q) : q[i].g = q[j].g => i = j
           /\ \A s, t \in ToSet(q) : s.g = t.g => s = t
<1>1. \A i, j \in 1..Len(q) : i < j \/ j < i \/ i = j
  OBVIOUS
<1>2. \A i, j \in 1..Len(q) : q[i].g = q[j].g => i = j
  BY <1>1 DEF InOrder
<1> QED
  BY <1>2, ToSetFacts

(* A goroutine that has no sudog in the queue, and a newer item, may be put at its end. *)
LEMMA PushInOrder ==
    ASSUME NEW q \in Seq(Sudog), NEW k, NEW s \in Sudog, InOrder(q, k),
           \A t \in ToSet(q) : t.g # s.g /\ (k.dir = "send" => t.item < s.item)
    PROVE  InOrder(Append(q, s), k)
<1> DEFINE p == Append(q, s)
<1>1. /\ p \in Seq(Sudog) /\ Len(p) = Len(q) + 1 /\ Len(q) \in Nat
      /\ \A i \in 1..Len(q) : p[i] = q[i]
      /\ p[Len(q) + 1] = s
  OBVIOUS
<1> HIDE DEF p
<1>2. \A i \in 1..Len(q) : q[i] \in ToSet(q)
  BY ToSetFacts
<1>3. ASSUME NEW i \in 1..Len(p), NEW j \in 1..Len(p), i < j
      PROVE  p[i].g # p[j].g /\ (k.dir = "send" => p[i].item < p[j].item)
  <2>1. i \in 1..Len(q)
    BY <1>1, <1>3
  <2>2. CASE j \in 1..Len(q)
    BY <2>1, <2>2, <1>1, <1>3 DEF InOrder
  <2>3. CASE j = Len(q) + 1
    BY <2>1, <2>3, <1>1, <1>2
  <2> QED
    BY <2>2, <2>3, <1>1
<1>4. InOrder(p, k)
  BY <1>3 DEF InOrder
<1> QED
  BY <1>4 DEF p

(* The fields of a channel. *)
LEMMA HchanFields ==
    ASSUME NEW c \in Chan, NEW r \in Hchan(c)
    PROVE  /\ dataqsiz[c] \in Nat
           /\ r.closed \in BOOLEAN /\ r.qcount \in 0..dataqsiz[c]
           /\ r.sendx \in 0..dataqsiz[c] /\ r.recvx \in 0..dataqsiz[c]
           /\ r.buf \in [0..dataqsiz[c] - 1 -> 0..MaxItems]
           /\ r.sendq \in Seq(Sudog) /\ r.recvq \in Seq(Sudog)
  BY ChannelConstants DEF Hchan

(* A queue consists of sudogs. *)
LEMMA LineType ==
    ASSUME NEW h, \A c \in Chan : h[c] \in Hchan(c), NEW k \in Case
    PROVE  Line(h, k) \in Seq(Sudog)
  BY HchanFields DEF Line, Case

(* The cases of a channel. *)
LEMMA CaseFacts ==
    /\ \A c \in Chan : Send(c) \in Case /\ Recv(c) \in Case /\ Send(c) # Recv(c)
    /\ \A c \in Chan : Send(c).dir = "send" /\ Send(c).chan = c
    /\ \A c \in Chan : Recv(c).dir = "recv" /\ Recv(c).chan = c
    /\ \A k \in Case : k.chan \in Chan /\ (k = Send(k.chan) \/ k = Recv(k.chan))
    /\ \A k \in Case : k.dir = "send" => k = Send(k.chan)
    /\ \A k \in Case : k.dir # "send" => k = Recv(k.chan)
<1>1. \A c \in Chan : Send(c).dir # Recv(c).dir
  BY DEF Send, Recv
<1> QED
  BY <1>1 DEF Case, Send, Recv

(* The queues by their names. *)
LEMMA LineOf ==
    ASSUME NEW h, NEW c \in Chan
    PROVE  Line(h, Send(c)) = h[c].sendq /\ Line(h, Recv(c)) = h[c].recvq
  BY CaseFacts DEF Line

-----------------------------------------------------------------------------
(* The channels h when some dead sudogs have been taken out. *)
Swept(p, q) == p = q \/ p = Purge(q)
Thinned(h, t) ==
    /\ DOMAIN t = Chan
    /\ \A c \in Chan :
           /\ t[c] \in Hchan(c)
           /\ t[c].closed = h[c].closed /\ t[c].qcount = h[c].qcount
           /\ t[c].sendx = h[c].sendx /\ t[c].recvx = h[c].recvx /\ t[c].buf = h[c].buf
           /\ Swept(t[c].sendq, h[c].sendq) /\ Swept(t[c].recvq, h[c].recvq)

(* Purged or not, all that can still be had are in the queue. *)
LEMMA SweptFacts ==
    ASSUME NEW q \in Seq(Sudog), NEW p, Swept(p, q)
    PROVE  /\ p \in Seq(Sudog) /\ Thins(p, q) /\ WaitersIn(p) = WaitersIn(q)
           /\ \A s \in ToSet(q) : Live(s) => s \in ToSet(p)
           /\ q = <<>> => p = <<>>
  BY PurgeFacts, PurgeWaiters, ThinsSelf DEF Swept

(* A queue may be purged at any time. *)
LEMMA SweptLine ==
    ASSUME NEW k \in Case, NEW q \in Seq(Sudog), NEW p, Swept(p, q), LineOK(q, k)
    PROVE  LineOK(p, k)
<1>1. /\ p \in Seq(Sudog) /\ Thins(p, q) /\ ToSet(p) \subseteq ToSet(q)
      /\ \A s \in ToSet(q) : Live(s) => s \in ToSet(p)
  BY SweptFacts DEF Thins
<1>2. InOrder(p, k)
  BY <1>1, ThinsInOrder DEF LineOK
<1>3. \A g \in G : Sleeps(g) /\ k \in cases[g] => \E s \in ToSet(p) : s.g = g
  <2>1. \A s \in ToSet(q) : Sleeps(s.g) => Live(s)
    BY DEF Sleeps, Live
  <2> QED
    BY <1>1, <2>1 DEF LineOK
<1> QED
  BY <1>1, <1>2, <1>3 DEF LineOK

(* So may all queues; nothing gets through by that. *)
LEMMA ThinnedOK ==
    ASSUME NEW h, HchansOK(h), NEW t, Thinned(h, t)
    PROVE  HchansOK(t) /\ Outs(t) = Outs(h)
<1>1. \A c \in Chan : h[c].sendq \in Seq(Sudog) /\ h[c].recvq \in Seq(Sudog)
  BY HchanFields DEF HchansOK
<1>2. ASSUME NEW k \in Case
      PROVE  LineOK(Line(t, k), k)
  <2>1. k.chan \in Chan
    BY CaseFacts
  <2>2. Swept(Line(t, k), Line(h, k)) /\ Line(h, k) \in Seq(Sudog)
    BY <1>1, <2>1 DEF Line, Thinned
  <2> QED
    BY <2>2, SweptLine DEF HchansOK
<1>3. \A c \in Chan : /\ WaitersIn(t[c].sendq) = WaitersIn(h[c].sendq)
                      /\ WaitersIn(t[c].recvq) = WaitersIn(h[c].recvq)
                      /\ h[c].sendq = <<>> => t[c].sendq = <<>>
                      /\ h[c].recvq = <<>> => t[c].recvq = <<>>
  BY <1>1, SweptFacts DEF Thinned
<1>4. \A c \in Chan : WaitOK(t[c], c) /\ RingOK(t[c], c)
  <2>1. \A c \in Chan : WaitOK(t[c], c)
    BY <1>3 DEF HchansOK, Thinned, WaitOK
  <2>2. \A c \in Chan : RingOK(t[c], c)
    BY DEF HchansOK, Thinned, RingOK
  <2> QED
    BY <2>1, <2>2
<1>5. Outs(t) = Outs(h)
  BY DEF Outs, Thinned
<1>6. AfterOK(t, Outs(t))
  BY <1>3, <1>5 DEF HchansOK, AfterOK
<1> QED
  BY <1>2, <1>4, <1>5, <1>6 DEF HchansOK, Thinned

(* The look of select in vain is such a purge. *)
LEMMA PurgedThinned ==
    ASSUME HchansOK(ch), NEW ks
    PROVE  Thinned(ch, Purged(ks))
<1> DEFINE t == Purged(ks)
<1>1. ASSUME NEW c \in Chan
      PROVE  /\ t[c].closed = ch[c].closed /\ t[c].qcount = ch[c].qcount
             /\ t[c].sendx = ch[c].sendx /\ t[c].recvx = ch[c].recvx /\ t[c].buf = ch[c].buf
             /\ t[c].sendq = IF Recv(c) \in ks THEN Purge(ch[c].sendq) ELSE ch[c].sendq
             /\ t[c].recvq = IF Send(c) \in ks THEN Purge(ch[c].recvq) ELSE ch[c].recvq
             /\ t[c] \in Hchan(c)
  <2>1. ch[c] \in Hchan(c) /\ Purge(ch[c].sendq) \in Seq(Sudog) /\ Purge(ch[c].recvq) \in Seq(Sudog)
    BY HchanFields, PurgeFacts DEF HchansOK
  <2>2. t[c] = [ch[c] EXCEPT !.sendq = IF Recv(c) \in ks THEN Purge(ch[c].sendq) ELSE ch[c].sendq,
                             !.recvq = IF Send(c) \in ks THEN Purge(ch[c].recvq) ELSE ch[c].recvq]
    BY DEF Purged
  <2> QED
    BY <2>1, <2>2 DEF Hchan
<1>2. DOMAIN t = Chan
  BY DEF Purged
<1> QED
  BY <1>1, <1>2 DEF Thinned, Swept

-----------------------------------------------------------------------------
(* The steps in which g wakes the sleepers gs (often none), the selects ws *)
(* among them.                                                             *)
Wake(g, gs, ws) ==
    /\ pc[g] \notin {"parked", "woken", "goready"}
    /\ pc'[g] \notin {"parked", "woken"} /\ (gs # {} => pc'[g] = "goready")
    /\ \A e \in gs : e \in G /\ Sleeps(e)
    /\ \A e \in ws : e \in gs
    /\ \A e \in G : e # g => /\ pc'[e] = pc[e] /\ cases'[e] = cases[e] /\ item'[e] = item[e]
                             /\ readies'[e] = readies[e]
    /\ readies'[g] = gs /\ item'[g] = 0
    /\ \A e \in G : e \in selectDone' <=> e \in selectDone \/ e \in ws
    /\ \A e \in G : e \notin gs => param'[e] = param[e]
    /\ \A e \in gs : /\ param'[e].case # {} /\ param'[e].case \subseteq cases[e]
                     /\ e \in ws \/ param'[e].case = cases[e]
    /\ failed' = failed /\ items \in Nat /\ items' \in Nat /\ items <= items'

GsOK == ChanTypeOK /\ (\A g \in G : GoroutineOK(g)) /\ ApartOK

(* What a wake changes for each goroutine. *)
LEMMA WakeView ==
    ASSUME GsOK, NEW g \in G, NEW gs, NEW ws, Wake(g, gs, ws)
    PROVE  /\ g \notin gs /\ item[g] = 0 /\ readies[g] = {}
           /\ \A e \in G : item'[e] = item[e]
           /\ \A e \in G : Awake(e)' <=> Awake(e) \/ e \in gs
           /\ \A e \in G : Notified(e)' <=> Notified(e) \/ e \in gs
           /\ \A e \in G : Sleeps(e)' <=> Sleeps(e) /\ e \notin gs
           /\ \A e \in G : e \notin gs => (Won(e)' <=> Won(e))
           /\ \A e \in gs : ~Won(e) /\ (Won(e)' <=> param'[e].ok /\ Sends(param'[e].case))
<1>1. item[g] = 0 /\ readies[g] = {}
  BY DEF GsOK, GoroutineOK, Wake
<1>2. \A e \in G : item'[e] = item[e]
  BY <1>1 DEF Wake
<1>3. g \notin gs
  BY DEF Wake, Sleeps
<1>4. ASSUME NEW e \in G
      PROVE  Awake(e)' <=> Awake(e) \/ e \in gs
  <2>1. ASSUME Awake(e)' PROVE Awake(e) \/ e \in gs
    BY <2>1 DEF Awake, Wake
  <2>2. ASSUME Awake(e) PROVE Awake(e)'
    BY <2>2, <1>1 DEF Awake, Wake
  <2>3. ASSUME e \in gs PROVE Awake(e)'
    BY <2>3 DEF Awake, Wake
  <2> QED
    BY <2>1, <2>2, <2>3
<1>5. \A e \in G : pc'[e] = "woken" <=> pc[e] = "woken"
  BY DEF Wake
<1>6. \A e \in G : Notified(e)' <=> Notified(e) \/ e \in gs
  BY <1>4, <1>5 DEF Notified
<1>7. \A e \in G : pc'[e] = "parked" <=> pc[e] = "parked"
  BY DEF Wake
<1>8. \A e \in G : Sleeps(e)' <=> Sleeps(e) /\ e \notin gs
  BY <1>4, <1>7 DEF Sleeps, Wake
<1>9. \A e \in gs : e \in G /\ ~Notified(e)
  BY DEF Wake, Sleeps, Notified
<1>10. \A e \in G : e \notin gs => (Won(e)' <=> Won(e))
  <2>1. \A e \in G : e \notin gs => param'[e] = param[e]
    BY DEF Wake
  <2> QED
    BY <2>1, <1>6 DEF Won
<1>11. \A e \in gs : ~Won(e) /\ (Won(e)' <=> param'[e].ok /\ Sends(param'[e].case))
  BY <1>6, <1>9 DEF Won, Sends
<1> QED
  BY <1>1, <1>2, <1>3, <1>4, <1>6, <1>8, <1>10, <1>11

(* The goroutines after a wake. *)
LEMMA WakeGoroutines ==
    ASSUME GsOK, NEW g \in G, NEW gs, NEW ws, Wake(g, gs, ws)
    PROVE  (\A e \in G : GoroutineOK(e)') /\ ApartOK'
<1>1. /\ g \notin gs /\ item[g] = 0 /\ readies[g] = {}
      /\ \A e \in G : item'[e] = item[e]
      /\ \A e \in G : Awake(e)' <=> Awake(e) \/ e \in gs
      /\ \A e \in G : Notified(e)' <=> Notified(e) \/ e \in gs
  BY WakeView
<1>2. \A e \in gs : e \in G /\ pc[e] = "parked" /\ e # g /\ ~Awake(e)
  BY <1>1 DEF Wake, Sleeps
<1>3. ~Notified(g) /\ g \notin selectDone
  BY <1>1 DEF GsOK, GoroutineOK, Wake, Notified
<1>4. ASSUME NEW e \in G
      PROVE  GoroutineOK(e)'
  <2>1. item[e] \in Nat
    BY DEF GsOK, ChanTypeOK
  <2>2. item'[e] <= items' /\ item'[e] \notin failed'
    BY <2>1, <1>1 DEF GsOK, GoroutineOK, Wake
  <2>3. e \in selectDone' => Notified(e)'
    BY <1>1 DEF GsOK, GoroutineOK, Wake
  <2>4. pc'[e] = "woken" => e \in selectDone'
    BY DEF GsOK, GoroutineOK, Wake
  <2>5. Awake(e)' => pc'[e] = "parked"
    BY <1>1, <1>2, <1>3 DEF GsOK, GoroutineOK, Wake, Notified
  <2>6. readies'[e] # {} => pc'[e] = "goready"
    BY DEF GsOK, GoroutineOK, Wake
  <2>7. Notified(e)' => /\ param'[e].case # {} /\ param'[e].case \subseteq cases'[e]
                        /\ e \in selectDone' \/ param'[e].case = cases'[e]
    <3>1. CASE e \in gs
      BY <3>1, <1>2 DEF Wake
    <3>2. CASE e \notin gs
      BY <3>2, <1>1, <1>3 DEF GsOK, GoroutineOK, Wake
    <3> QED
      BY <3>1, <3>2
  <2>8. item'[e] # 0 <=> pc'[e] \in {"parked", "woken"} /\ Sends(cases'[e])
    <3>1. CASE e = g
      BY <3>1, <1>1 DEF Wake
    <3>2. CASE e # g
      BY <3>2 DEF GsOK, GoroutineOK, Wake
    <3> QED
      BY <3>1, <3>2
  <2>9. Sends(cases[e])' <=> Sends(cases'[e])
    BY DEF Sends
  <2> QED
    BY <2>2, <2>3, <2>4, <2>5, <2>6, <2>7, <2>8, <2>9 DEF GoroutineOK
<1>5. ApartOK'
  <2>1. \A d, e \in G : item'[d] = item'[e] /\ item'[d] # 0 => d = e
    BY <1>1 DEF GsOK, ApartOK
  <2>2. ASSUME NEW d \in G, NEW r \in G, NEW e \in G, d \in readies'[r], d \in readies'[e]
        PROVE  r = e
    <3>1. d \in gs => \A x \in G : d \notin readies[x]
      BY <1>2 DEF Awake
    <3>2. CASE d \in gs
      BY <2>2, <3>1, <3>2 DEF Wake
    <3>3. CASE d \notin gs
      BY <2>2, <3>3 DEF Wake, GsOK, ApartOK
    <3> QED
      BY <3>2, <3>3
  <2> QED
    BY <2>1, <2>2 DEF ApartOK
<1> QED
  BY <1>4, <1>5

(* The queues: from those of h the woken have been taken out, or are dead. *)
Roused(h, gs, ws) ==
    \A k \in Case :
        LET p == Line(ch', k)
            q == Line(h, k)
        IN  /\ p \in Seq(Sudog) /\ q \in Seq(Sudog) /\ Thins(p, q)
            /\ \A s \in ToSet(q) : Live(s) /\ s.g \notin gs => s \in ToSet(p)
            /\ \A s \in ToSet(p) : s.g \in gs => s.isSelect /\ s.g \in ws

(* A queue after a wake. *)
LEMMA WakeLine ==
    ASSUME GsOK, NEW g \in G, NEW gs, NEW ws, Wake(g, gs, ws),
           NEW k \in Case, NEW p \in Seq(Sudog), NEW q \in Seq(Sudog), LineOK(q, k), Thins(p, q),
           \A s \in ToSet(q) : Live(s) /\ s.g \notin gs => s \in ToSet(p),
           \A s \in ToSet(p) : s.g \in gs => s.isSelect /\ s.g \in ws
    PROVE  /\ \A s \in ToSet(p) : SudogOK(s, k)'
           /\ \A s \in ToSet(p) : Live(s)' <=> Live(s) /\ s.g \notin gs
           /\ InOrder(p, k)
           /\ \A e \in G : Sleeps(e)' /\ k \in cases'[e] => \E s \in ToSet(p) : s.g = e
<1>1. /\ g \notin gs
      /\ \A e \in G : item'[e] = item[e]
      /\ \A e \in G : Sleeps(e)' <=> Sleeps(e) /\ e \notin gs
  BY WakeView
<1>2. ToSet(p) \subseteq ToSet(q) /\ ToSet(q) \subseteq Sudog
  BY ToSetFacts DEF Thins
<1>3. \A s \in ToSet(p) : s.g \in G /\ SudogOK(s, k) /\ s.g # g
  BY <1>2 DEF LineOK, SudogOK, Sudog, Wake
<1>4. ASSUME NEW s \in ToSet(p)
      PROVE  Live(s)' <=> Live(s) /\ s.g \notin gs
  BY <1>3 DEF Live, Wake
<1>5. ASSUME NEW s \in ToSet(p)
      PROVE  SudogOK(s, k)'
  <2>1. /\ s.g \in G /\ s.g # g
        /\ pc'[s.g] = pc[s.g] /\ cases'[s.g] = cases[s.g] /\ item'[s.g] = item[s.g]
    BY <1>3 DEF Wake
  <2>2. Live(s)' => Sleeps(s.g)'
    BY <1>1, <1>3, <1>4 DEF SudogOK
  <2> QED
    BY <2>1, <2>2, <1>3 DEF SudogOK
<1>6. InOrder(p, k)
  BY ThinsInOrder DEF LineOK
<1>7. ASSUME NEW e \in G, Sleeps(e)', k \in cases'[e]
      PROVE  \E s \in ToSet(p) : s.g = e
  <2>1. e \notin gs /\ Sleeps(e) /\ e # g
    BY <1>1, <1>7 DEF Sleeps, Wake
  <2>2. k \in cases[e]
    BY <2>1, <1>7 DEF Wake
  <2>3. PICK s \in ToSet(q) : s.g = e
    BY <2>1, <2>2 DEF LineOK
  <2>4. Live(s)
    BY <2>1, <2>3 DEF Live, Sleeps
  <2> QED
    BY <2>1, <2>3, <2>4
<1> QED
  BY <1>4, <1>5, <1>6, <1>7

(* All queues after a wake. *)
LEMMA WakeLines ==
    ASSUME GsOK, NEW g \in G, NEW gs, NEW ws, Wake(g, gs, ws),
           NEW h, \A k \in Case : LineOK(Line(h, k), k), Roused(h, gs, ws)
    PROVE  /\ \A k \in Case : LineOK(Line(ch, k), k)'
           /\ \A k \in Case : WaitersIn(Line(ch, k))'
                                  = {s \in WaitersIn(Line(h, k)) : s.g \notin gs}
<1>1. ASSUME NEW k \in Case
      PROVE  /\ LineOK(Line(ch, k), k)'
             /\ WaitersIn(Line(ch, k))' = {s \in WaitersIn(Line(h, k)) : s.g \notin gs}
  <2>1. PICK p : p = Line(ch', k)
    OBVIOUS
  <2>2. PICK q : q = Line(h, k)
    OBVIOUS
  <2>3. /\ p \in Seq(Sudog) /\ q \in Seq(Sudog) /\ Thins(p, q)
        /\ \A s \in ToSet(q) : Live(s) /\ s.g \notin gs => s \in ToSet(p)
        /\ \A s \in ToSet(p) : s.g \in gs => s.isSelect /\ s.g \in ws
    BY <2>1, <2>2 DEF Roused
  <2>4. LineOK(q, k)
    BY <2>2
  <2>5. /\ \A s \in ToSet(p) : SudogOK(s, k)'
        /\ \A s \in ToSet(p) : Live(s)' <=> Live(s) /\ s.g \notin gs
        /\ InOrder(p, k)
        /\ \A e \in G : Sleeps(e)' /\ k \in cases'[e] => \E s \in ToSet(p) : s.g = e
    BY <2>3, <2>4, WakeLine
  <2>6. LineOK(Line(ch, k), k)'
    BY <2>1, <2>5 DEF LineOK
  <2>7. WaitersIn(Line(ch, k))' = {s \in ToSet(p) : Live(s)'}
    BY <2>1 DEF WaitersIn
  <2>8. WaitersIn(Line(h, k)) = {s \in ToSet(q) : Live(s)}
    BY <2>2 DEF WaitersIn
  <2>9. ToSet(p) \subseteq ToSet(q)
    BY <2>3 DEF Thins
  <2> QED
    BY <2>3, <2>5, <2>6, <2>7, <2>8, <2>9
<1> QED
  BY <1>1

(* Other sudogs of somebody in a select are of that select. *)
LEMMA SameSelect ==
    ASSUME NEW h, \A c \in Chan : h[c] \in Hchan(c), \A k \in Case : LineOK(Line(h, k), k),
           NEW k \in Case, NEW j \in Case, NEW s \in ToSet(Line(h, k)),
           NEW t \in ToSet(Line(h, j)), s.g = t.g
    PROVE  /\ j = k => s = t
           /\ j # k => s.isSelect /\ t.isSelect
<1>1. SudogOK(s, k) /\ SudogOK(t, j)
  BY DEF LineOK
<1>2. j = k => s = t
  BY OneSudog, LineType DEF LineOK
<1>3. j # k => s.isSelect /\ t.isSelect
  BY <1>1 DEF SudogOK
<1> QED
  BY <1>2, <1>3

-----------------------------------------------------------------------------
(* What comes out of the channels. *)

(* A greater number may be put at the end. *)
LEMMA IncreasingPush ==
    ASSUME NEW q \in Seq(Nat), StrictlyIncreasing(q), NEW v \in Nat, \A x \in ToSet(q) : x < v
    PROVE  StrictlyIncreasing(Append(q, v))
<1> DEFINE p == Append(q, v)
<1>1. /\ p \in Seq(Nat) /\ Len(p) = Len(q) + 1 /\ Len(q) \in Nat
      /\ \A i \in 1..Len(q) : p[i] = q[i]
      /\ p[Len(q) + 1] = v
  OBVIOUS
<1> HIDE DEF p
<1>2. \A i \in 1..Len(q) : q[i] < v
  BY ToSetFacts
<1>3. DOMAIN p = 1..Len(q) + 1 /\ DOMAIN q = 1..Len(q)
  BY <1>1
<1>4. ASSUME NEW i \in 1..Len(q) + 1, NEW j \in 1..Len(q) + 1, i < j
      PROVE  p[i] < p[j]
  <2>1. i \in 1..Len(q)
    BY <1>1, <1>4
  <2>2. CASE j \in 1..Len(q)
    BY <2>1, <2>2, <1>1, <1>3, <1>4 DEF StrictlyIncreasing
  <2>3. CASE j = Len(q) + 1
    BY <2>1, <2>3, <1>1, <1>2
  <2> QED
    BY <2>2, <2>3, <1>1
<1>5. StrictlyIncreasing(p)
  BY <1>3, <1>4 DEF StrictlyIncreasing
<1> QED
  BY <1>5 DEF p

(* Nothing gets through. *)
LEMMA OutsKeep ==
    ASSUME GsOK, NEW o, OutsOK(o), items' \in Nat, items <= items',
           \A e \in G : Won(e)' => Won(e) /\ item'[e] = item[e],
           \A e \in G : \/ item'[e] = 0 \/ item'[e] > items
                        \/ item'[e] = item[e] /\ (Won(e) => Won(e)'),
           \A x \in acked' : x \in acked \/ \E e \in G : Won(e) /\ item[e] = x,
           \A x \in failed' : x \in failed \/ \E e \in G : ~Won(e) /\ item[e] = x
    PROVE  OutsOK(o)'
<1>1. \A e \in G : item[e] \in Nat /\ item[e] <= items
  BY DEF GsOK, GoroutineOK, ChanTypeOK
<1>2. \A c \in Chan : ToSet(o[c]) \subseteq Nat
  BY ToSetFacts DEF OutsOK
<1>3. items \in Nat /\ \A x \in failed : x \in Nat /\ x <= items
  BY ChannelConstants DEF GsOK, ChanTypeOK, OutsOK
<1>4. ASSUME NEW c \in Chan, NEW x \in ToSet(o[c])
      PROVE  x \in 1..items' /\ x \notin failed' /\ \A g \in G : item'[g] = x => Won(g)'
  <2>1. x \in 1..items /\ x \notin failed /\ \A g \in G : item[g] = x => Won(g)
    BY DEF OutsOK
  <2>2. x \in 1..items'
    BY <2>1, <1>3
  <2>3. x \notin failed'
    BY <2>1
  <2>4. ASSUME NEW g \in G, item'[g] = x PROVE Won(g)'
    <3>1. ~(item'[g] = 0) /\ ~(item'[g] > items)
      BY <2>1, <2>4, <1>3
    <3> QED
      BY <3>1, <2>1, <2>4
  <2> QED
    BY <2>2, <2>3, <2>4
<1>5. \A x \in acked' : \E c \in Chan : x \in ToSet(o[c])
  BY DEF OutsOK
<1>6. \A g \in G : Won(g)' => \E c \in Chan : item'[g] \in ToSet(o[c])
  BY DEF OutsOK
<1>7. \A x \in failed' : x <= items'
  <2>1. ASSUME NEW x \in failed' PROVE x \in Nat /\ x <= items
    BY <1>1, <1>3
  <2> QED
    BY <2>1, <1>3
<1>8. \A c \in Chan : o[c] \in Seq(Nat) /\ StrictlyIncreasing(o[c])
  BY DEF OutsOK
<1>9. \A c, d \in Chan : c # d => ToSet(o[c]) \intersect ToSet(o[d]) = {}
  BY DEF OutsOK
<1> QED
  BY <1>4, <1>5, <1>6, <1>7, <1>8, <1>9 DEF OutsOK

(* The item v gets through c. *)
LEMMA OutsPush ==
    ASSUME GsOK, NEW o, OutsOK(o), NEW p, NEW c \in Chan, NEW v \in Nat,
           \A d \in Chan : d # c => p[d] = o[d], p[c] = Append(o[c], v),
           items' \in Nat, items <= items', v \in 1..items', v \notin failed, failed' = failed,
           \A d \in Chan : v \notin ToSet(o[d]), \A x \in ToSet(o[c]) : x < v,
           \A e \in G : item'[e] = item[e],
           \A e \in G : Won(e) => Won(e)',
           \A e \in G : Won(e)' => Won(e) \/ item[e] = v,
           \A e \in G : item[e] = v => Won(e)',
           \A x \in acked' : x \in acked \/ x = v
    PROVE  OutsOK(p)'
<1>1. items \in Nat /\ \A x \in failed : x \in Nat /\ x <= items
  BY ChannelConstants DEF GsOK, ChanTypeOK, OutsOK
<1>2. o[c] \in Seq(Nat) /\ StrictlyIncreasing(o[c])
  BY DEF OutsOK
<1>3. /\ p[c] \in Seq(Nat) /\ ToSet(p[c]) = ToSet(o[c]) \union {v}
      /\ StrictlyIncreasing(p[c])
  BY <1>2, PushFacts, IncreasingPush
<1>4. \A d \in Chan : p[d] \in Seq(Nat) /\ StrictlyIncreasing(p[d])
  BY <1>3 DEF OutsOK
<1>5. \A d \in Chan : \A x : x \in ToSet(p[d]) <=> x \in ToSet(o[d]) \/ (d = c /\ x = v)
  <2>1. \A d \in Chan : d # c => ToSet(p[d]) = ToSet(o[d])
    OBVIOUS
  <2>2. ASSUME NEW d \in Chan, NEW x
        PROVE  x \in ToSet(p[d]) <=> x \in ToSet(o[d]) \/ (d = c /\ x = v)
    <3>1. CASE d = c
      BY <3>1, <1>3
    <3>2. CASE d # c
      BY <3>2, <2>1
    <3> QED
      BY <3>1, <3>2
  <2> QED
    BY <2>2
<1>6. ASSUME NEW d \in Chan, NEW x \in ToSet(p[d])
      PROVE  x \in 1..items' /\ x \notin failed' /\ \A g \in G : item'[g] = x => Won(g)'
  <2>1. CASE x \in ToSet(o[d])
    <3>1. x \in 1..items /\ x \notin failed /\ \A g \in G : item[g] = x => Won(g)
      BY <2>1 DEF OutsOK
    <3> QED
      BY <3>1, <1>1
  <2>2. CASE x = v
    BY <2>2
  <2> QED
    BY <2>1, <2>2, <1>5
<1>7. ASSUME NEW d \in Chan, NEW e \in Chan, d # e
      PROVE  ToSet(p[d]) \intersect ToSet(p[e]) = {}
  <2>1. ToSet(o[d]) \intersect ToSet(o[e]) = {}
    BY <1>7 DEF OutsOK
  <2> QED
    BY <2>1, <1>5, <1>7
<1>8. \A x \in acked' : \E d \in Chan : x \in ToSet(p[d])
  BY <1>5 DEF OutsOK
<1>9. \A g \in G : Won(g)' => \E d \in Chan : item'[g] \in ToSet(p[d])
  BY <1>5 DEF OutsOK
<1>10. \A x \in failed' : x <= items'
  BY <1>1
<1> QED
  BY <1>4, <1>6, <1>7, <1>8, <1>9, <1>10 DEF OutsOK

(* All about the channels after a wake. *)
LEMMA WakeHchans ==
    ASSUME GsOK, NEW h, HchansOK(h), NEW g \in G, NEW gs, NEW ws, Wake(g, gs, ws),
           Roused(h, gs, ws), DOMAIN ch' = Chan, \A c \in Chan : ch'[c] \in Hchan(c),
           \A c \in Chan : RingOK(ch'[c], c),
           \A c \in Chan : ch'[c].closed => ch'[c].sendq = <<>> /\ ch'[c].recvq = <<>>,
           \A c \in Chan : \/ ch'[c].qcount = h[c].qcount
                           \/ WaitersIn(h[c].sendq) = {} /\ WaitersIn(h[c].recvq) = {},
           NEW p, p = Outs(ch)', OutsOK(p)',
           \A c \in Chan : \A s \in WaitersIn(h[c].sendq) :
               s.g \notin gs => \A x \in ToSet(p[c]) : x < s.item
    PROVE  HchansOK(ch)'
<1>1. /\ \A k \in Case : LineOK(Line(ch, k), k)'
      /\ \A k \in Case : WaitersIn(Line(ch, k))'
                             = {s \in WaitersIn(Line(h, k)) : s.g \notin gs}
  BY WakeLines DEF HchansOK
<1>2. ASSUME NEW c \in Chan
      PROVE  /\ WaitersIn(ch[c].sendq)' = {s \in WaitersIn(h[c].sendq) : s.g \notin gs}
             /\ WaitersIn(ch[c].recvq)' = {s \in WaitersIn(h[c].recvq) : s.g \notin gs}
  <2>1. Line(ch', Send(c)) = ch'[c].sendq /\ Line(ch', Recv(c)) = ch'[c].recvq
    BY LineOf
  <2>2. Line(h, Send(c)) = h[c].sendq /\ Line(h, Recv(c)) = h[c].recvq
    BY LineOf
  <2>3. Send(c) \in Case /\ Recv(c) \in Case
    BY CaseFacts
  <2>4. WaitersIn(Line(ch, Send(c)))' = WaitersIn(ch[c].sendq)'
    BY <2>1 DEF WaitersIn
  <2>5. WaitersIn(Line(ch, Recv(c)))' = WaitersIn(ch[c].recvq)'
    BY <2>1 DEF WaitersIn
  <2> QED
    BY <2>2, <2>3, <2>4, <2>5, <1>1
<1>3. ASSUME NEW c \in Chan
      PROVE  WaitOK(ch[c], c)'
  <2>1. /\ \A s \in WaitersIn(h[c].sendq) :
               h[c].qcount = dataqsiz[c] /\ \A e \in WaitersIn(h[c].recvq) : e.g = s.g
        /\ \A s \in WaitersIn(h[c].recvq) : h[c].qcount = 0
    BY DEF HchansOK, WaitOK
  <2>2. \A s \in WaitersIn(ch[c].sendq)' :
            ch'[c].qcount = dataqsiz[c] /\ \A e \in WaitersIn(ch[c].recvq)' : e.g = s.g
    BY <2>1, <1>2
  <2>3. \A s \in WaitersIn(ch[c].recvq)' : ch'[c].qcount = 0
    BY <2>1, <1>2
  <2> QED
    BY <2>2, <2>3 DEF WaitOK
<1>4. AfterOK(ch, Outs(ch))'
  <2>1. \A c \in Chan : \A s \in WaitersIn(ch[c].sendq)' : \A x \in ToSet(p[c]) : x < s.item
    BY <1>2
  <2> QED
    BY <2>1 DEF AfterOK
<1>5. OutsOK(Outs(ch))'
  BY DEF OutsOK
<1>6. \A c \in Chan : RingOK(ch[c], c)'
  BY DEF RingOK
<1>7. DOMAIN ch' = Chan /\ \A c \in Chan : (ch[c] \in Hchan(c))'
  BY DEF Hchan
<1> QED
  BY <1>1, <1>3, <1>4, <1>5, <1>6, <1>7 DEF HchansOK

-----------------------------------------------------------------------------
(* What a step keeps of the invariant, but for the types. *)
Kept == (\A e \in G : GoroutineOK(e)) /\ ApartOK /\ HchansOK(ch)

(* Nothing in the ring. *)
LEMMA EmptyRing ==
    ASSUME NEW b, NEW x, NEW N
    PROVE  Ring(b, x, 0, N) = <<>>
  BY DEF Ring

(* A queue of one channel purged. *)
LEMMA PurgeOne ==
    ASSUME NEW h, HchansOK(h), NEW c \in Chan, NEW t, DOMAIN t = Chan,
           \A d \in Chan : d # c => t[d] = h[d],
           \/ t[c] = [h[c] EXCEPT !.recvq = Purge(h[c].recvq)]
           \/ t[c] = [h[c] EXCEPT !.sendq = Purge(h[c].sendq)]
    PROVE  HchansOK(t) /\ Outs(t) = Outs(h)
<1>1. \A d \in Chan : h[d] \in Hchan(d)
  BY DEF HchansOK
<1>2. Purge(h[c].sendq) \in Seq(Sudog) /\ Purge(h[c].recvq) \in Seq(Sudog)
  BY <1>1, HchanFields, PurgeFacts
<1>3. /\ t[c] \in Hchan(c)
      /\ t[c].closed = h[c].closed /\ t[c].qcount = h[c].qcount
      /\ t[c].sendx = h[c].sendx /\ t[c].recvx = h[c].recvx /\ t[c].buf = h[c].buf
      /\ Swept(t[c].sendq, h[c].sendq) /\ Swept(t[c].recvq, h[c].recvq)
  <2>1. h[c] \in Hchan(c)
    BY <1>1
  <2>2. CASE t[c] = [h[c] EXCEPT !.recvq = Purge(h[c].recvq)]
    BY <2>1, <2>2, <1>2 DEF Hchan, Swept
  <2>3. CASE t[c] = [h[c] EXCEPT !.sendq = Purge(h[c].sendq)]
    BY <2>1, <2>3, <1>2 DEF Hchan, Swept
  <2> QED
    BY <2>2, <2>3
<1>4. Thinned(h, t)
  BY <1>1, <1>3 DEF Thinned, Swept
<1> QED
  BY <1>4, ThinnedOK

(* Nobody is woken and nothing gets through. *)
LEMMA Quiet ==
    ASSUME GsOK, NEW h, HchansOK(h), NEW g \in G, pc[g] \notin {"parked", "woken", "goready"},
           ch' = h, UNCHANGED <<selectDone, param, readies, items, rcvd, acked, failed>>,
           \A e \in G : e # g => pc'[e] = pc[e] /\ cases'[e] = cases[e] /\ item'[e] = item[e],
           pc'[g] \notin {"parked", "woken"}, item'[g] = 0
    PROVE  Kept'
<1> DEFINE gs == {}
<1>1. readies[g] = {} /\ items \in Nat /\ items <= items'
  BY ChannelConstants DEF GsOK, GoroutineOK, ChanTypeOK
<1>2. Wake(g, gs, gs)
  BY <1>1 DEF Wake
<1>3. \A k \in Case : Line(h, k) \in Seq(Sudog)
  BY LineType DEF HchansOK
<1>4. Roused(h, gs, gs)
  BY <1>3, ThinsSelf DEF Roused
<1>5. PICK p : p = Outs(ch)'
  OBVIOUS
<1>6. p = Outs(h)
  BY <1>5 DEF Outs
<1>7. /\ \A e \in G : item'[e] = item[e]
      /\ \A e \in G : e \notin gs => (Won(e)' <=> Won(e))
  BY <1>2, WakeView
<1> HIDE DEF gs
<1>8. \A e \in G : Won(e)' <=> Won(e)
  BY <1>7 DEF gs
<1>9. OutsOK(p)
  BY <1>6 DEF HchansOK
<1>10. OutsOK(p)'
  BY <1>1, <1>7, <1>8, <1>9, OutsKeep
<1>11. \A c \in Chan : \A s \in WaitersIn(h[c].sendq) : \A x \in ToSet(p[c]) : x < s.item
  BY <1>6 DEF HchansOK, AfterOK
<1>12. /\ DOMAIN ch' = Chan /\ \A c \in Chan : ch'[c] \in Hchan(c)
       /\ \A c \in Chan : RingOK(ch'[c], c)
       /\ \A c \in Chan : ch'[c].closed => ch'[c].sendq = <<>> /\ ch'[c].recvq = <<>>
       /\ \A c \in Chan : ch'[c].qcount = h[c].qcount
  BY DEF HchansOK, WaitOK
<1>13. HchansOK(ch)'
  BY <1>2, <1>4, <1>5, <1>10, <1>11, <1>12, WakeHchans
<1>14. (\A e \in G : GoroutineOK(e)') /\ ApartOK'
  BY <1>2, WakeGoroutines
<1> QED
  BY <1>13, <1>14 DEF Kept

(* Somebody who waits is had. *)
HandOver(t, g, k, s) ==
    /\ HchansOK(t) /\ pc[g] \notin {"parked", "woken", "goready"}
    /\ Line(t, k) # <<>> /\ s = Head(Line(t, k)) /\ Live(s) /\ Dequeued(g, s, k)
    /\ Line(ch', k) = Tail(Line(t, k)) /\ \A j \in Case : j # k => Line(ch', j) = Line(t, j)
    /\ DOMAIN ch' = Chan /\ (\A d \in Chan : ch'[d] \in Hchan(d))
    /\ \A d \in Chan : RingOK(ch'[d], d)
    /\ \A d \in Chan : ch'[d].closed = t[d].closed /\ ch'[d].qcount = t[d].qcount
    /\ failed' = failed

(* To hand over is to wake one. *)
LEMMA HandWake ==
    ASSUME GsOK, NEW t, NEW g \in G, NEW k \in Case, NEW s, HandOver(t, g, k, s),
           items' \in Nat, items <= items'
    PROVE  /\ s \in ToSet(Line(t, k)) /\ s \in WaitersIn(Line(t, k))
           /\ s \in Sudog /\ SudogOK(s, k) /\ Sleeps(s.g)
           /\ param'[s.g].ok /\ param'[s.g].case = {k}
           /\ \E ws : Wake(g, {s.g}, ws) /\ Roused(t, {s.g}, ws)
<1>1. Line(t, k) \in Seq(Sudog) /\ \A c \in Chan : t[c] \in Hchan(c)
  BY LineType DEF HandOver, HchansOK
<1>2. /\ Tail(Line(t, k)) \in Seq(Sudog) /\ s \in ToSet(Line(t, k))
      /\ Thins(Tail(Line(t, k)), Line(t, k))
      /\ ToSet(Line(t, k)) = ToSet(Tail(Line(t, k))) \union {s}
  BY <1>1, TailThins DEF HandOver
<1>3. s \in Sudog /\ SudogOK(s, k) /\ s \in WaitersIn(Line(t, k))
  BY <1>1, <1>2, ToSetFacts DEF HandOver, HchansOK, LineOK, WaitersIn
<1>4. s.g \in G /\ Sleeps(s.g)
  BY <1>3 DEF HandOver, SudogOK, Sudog
<1>5. param'[s.g].ok /\ param'[s.g].case = {k} /\ \A e \in G : e # s.g => param'[e] = param[e]
  BY <1>4 DEF HandOver, Dequeued, GsOK, ChanTypeOK
<1> DEFINE gs == {s.g}
           ws == IF s.isSelect THEN {s.g} ELSE {}
<1>6. s.g # g
  BY <1>4 DEF HandOver, Sleeps
<1>7. Wake(g, gs, ws)
  <2>1. /\ pc'[g] = "goready" /\ readies'[g] = {s.g} /\ item'[g] = 0
        /\ \A e \in G : e # g => /\ pc'[e] = pc[e] /\ cases'[e] = cases[e]
                                 /\ item'[e] = item[e] /\ readies'[e] = readies[e]
    BY DEF HandOver, Dequeued, GsOK, ChanTypeOK
  <2>2. \A e \in G : e \in selectDone' <=> e \in selectDone \/ e \in ws
    BY DEF HandOver, Dequeued
  <2>3. {k} \subseteq cases[s.g] /\ (s.g \in ws \/ {k} = cases[s.g])
    BY <1>3 DEF SudogOK
  <2>4. items \in Nat
    BY ChannelConstants DEF GsOK, ChanTypeOK
  <2>5. \A e \in gs : /\ param'[e].case # {} /\ param'[e].case \subseteq cases[e]
                      /\ e \in ws \/ param'[e].case = cases[e]
    BY <1>5, <2>3
  <2>6. (\A e \in gs : e \in G /\ Sleeps(e)) /\ \A e \in ws : e \in gs
    BY <1>4
  <2>7. \A e \in G : e \notin gs => param'[e] = param[e]
    BY <1>5
  <2> HIDE DEF gs, ws
  <2>8. pc'[g] \notin {"parked", "woken"}
    BY <2>1
  <2>9. readies'[g] = gs
    BY <2>1 DEF gs
  <2> QED
    BY <2>1, <2>2, <2>4, <2>5, <2>6, <2>7, <2>8, <2>9 DEF HandOver, Wake
<1>8. Roused(t, gs, ws)
  <2>1. ASSUME NEW j \in Case
        PROVE  /\ Line(ch', j) \in Seq(Sudog) /\ Line(t, j) \in Seq(Sudog)
               /\ Thins(Line(ch', j), Line(t, j))
               /\ \A x \in ToSet(Line(t, j)) : x.g \notin gs => x \in ToSet(Line(ch', j))
    <3>1. Line(t, j) \in Seq(Sudog)
      BY <1>1, LineType
    <3>2. CASE j = k
      BY <1>1, <1>2, <3>2 DEF HandOver
    <3>3. CASE j # k
      BY <3>1, <3>3, ThinsSelf DEF HandOver
    <3> QED
      BY <3>1, <3>2, <3>3
  <2>2. ASSUME NEW j \in Case, NEW x \in ToSet(Line(ch', j)), x.g \in gs
        PROVE  x.isSelect /\ x.g \in ws
    <3>1. x \in ToSet(Line(t, j)) /\ x.g = s.g
      BY <2>1, <2>2 DEF Thins
    <3>2. (j = k => x = s) /\ (j # k => s.isSelect /\ x.isSelect)
      BY <1>1, <1>2, <3>1, SameSelect DEF HandOver, HchansOK
    <3>3. j # k
      <4>1. ASSUME j = k PROVE FALSE
        <5>1. PICK q : q = Line(t, k)
          OBVIOUS
        <5>2. q \in Seq(Sudog) /\ InOrder(q, k) /\ q # <<>> /\ s = q[1]
          BY <5>1, <1>1, TailThins DEF HandOver, HchansOK, LineOK
        <5>3. PICK r : r = Tail(q)
          OBVIOUS
        <5>7. s \in ToSet(r) /\ r \in Seq(Sudog)
          BY <2>2, <3>2, <4>1, <5>1, <5>2, <5>3, TailThins DEF HandOver
        <5>8. PICK i \in 1..Len(r) : s = r[i]
          BY <5>7, ToSetFacts
        <5>4. i \in 1..Len(Tail(q)) /\ s = Tail(q)[i]
          BY <5>3, <5>8
        <5>5. i + 1 \in 1..Len(q) /\ 1 \in 1..Len(q) /\ q[i + 1] = s /\ i + 1 # 1
          BY <5>2, <5>4
        <5>6. \A a, b \in 1..Len(q) : q[a].g = q[b].g => a = b
          BY <5>2, OneSudog
        <5> QED
          BY <5>2, <5>5, <5>6
      <4> QED
        BY <4>1
    <3> QED
      BY <3>1, <3>2, <3>3
  <2> QED
    BY <2>1, <2>2 DEF Roused
<1>9. \E w : Wake(g, {s.g}, w) /\ Roused(t, {s.g}, w)
  BY <1>7, <1>8
<1> QED
  BY <1>2, <1>3, <1>4, <1>5, <1>9

-----------------------------------------------------------------------------
(* The first in a queue of senders has the oldest item. *)
LEMMA HeadFirst ==
    ASSUME NEW q \in Seq(Sudog), q # <<>>, NEW k, InOrder(q, k), k.dir = "send",
           NEW x \in ToSet(q), x.g # Head(q).g
    PROVE  Head(q).item < x.item
<1>1. Head(q) = q[1] /\ Len(q) \in Nat /\ Len(q) >= 1
  OBVIOUS
<1>2. PICK i \in 1..Len(q) : x = q[i]
  BY ToSetFacts
<1>3. 1 < i /\ 1 \in 1..Len(q)
  BY <1>1, <1>2
<1> QED
  BY <1>1, <1>2, <1>3 DEF InOrder

(* The item v goes from a sender to a receiver, one of which has waited. *)
Moved(k, s, v, o, p) ==
    /\ p[k.chan] = Append(o[k.chan], v)
    /\ \A d \in Chan : d # k.chan => p[d] = o[d]
    /\ \/ k.dir = "send" /\ v = s.item /\ items' = items /\ acked' = acked
       \/ k.dir # "send" /\ v = items + 1 /\ items' = items + 1 /\ acked' = acked \union {v}

(* The invariant after a handover. *)
LEMMA Handed ==
    ASSUME GsOK, NEW t, NEW g \in G, NEW k \in Case, NEW s, HandOver(t, g, k, s),
           NEW v \in Nat, NEW p, p = Outs(ch)', Moved(k, s, v, Outs(t), p)
    PROVE  Kept'
<1> DEFINE o == Outs(t)
           c == k.chan
<1>0. HchansOK(t) /\ failed' = failed
  BY DEF HandOver
<1>1. items \in Nat /\ items' \in Nat /\ items <= items'
  BY ChannelConstants DEF GsOK, ChanTypeOK, Moved
<1>2. /\ s \in ToSet(Line(t, k)) /\ s \in WaitersIn(Line(t, k))
      /\ s \in Sudog /\ SudogOK(s, k) /\ Sleeps(s.g)
      /\ param'[s.g].ok /\ param'[s.g].case = {k}
      /\ \E ws : Wake(g, {s.g}, ws) /\ Roused(t, {s.g}, ws)
  BY <1>1, HandWake
<1>3. PICK ws : Wake(g, {s.g}, ws) /\ Roused(t, {s.g}, ws)
  BY <1>2
<1>4. /\ \A e \in G : item'[e] = item[e]
      /\ \A e \in G : e # s.g => (Won(e)' <=> Won(e))
      /\ ~Won(s.g) /\ (Won(s.g)' <=> Sends(param'[s.g].case))
  <2>1. PICK gs : gs = {s.g}
    OBVIOUS
  <2>2. /\ \A e \in G : item'[e] = item[e]
        /\ \A e \in G : e \notin gs => (Won(e)' <=> Won(e))
        /\ \A e \in gs : ~Won(e) /\ (Won(e)' <=> param'[e].ok /\ Sends(param'[e].case))
    BY <2>1, <1>3, WakeView
  <2> QED
    BY <2>1, <2>2, <1>2
<1>5. c \in Chan /\ s.g \in G
  BY <1>2, CaseFacts DEF Sudog
<1>6. OutsOK(o) /\ AfterOK(t, o)
  BY <1>0 DEF HchansOK
<1>7. \A e \in G : item[e] \in Nat /\ item[e] <= items /\ item[e] \notin failed
  BY DEF GsOK, GoroutineOK, ChanTypeOK
<1>8. Won(s.g)' <=> k.dir = "send"
  BY <1>2, <1>4 DEF Sends
<1>9. /\ v \in 1..items' /\ v \notin failed
      /\ \A d \in Chan : v \notin ToSet(o[d])
      /\ \A x \in ToSet(o[c]) : x < v
      /\ \A e \in G : Won(e)' => Won(e) \/ item[e] = v
      /\ \A e \in G : item[e] = v => Won(e)'
  <2>1. CASE k.dir = "send"
    <3>1. v = item[s.g] /\ Sends(cases[s.g])
      BY <2>1, <1>2 DEF Moved, SudogOK, Sends
    <3>2. v # 0
      BY <3>1, <1>2, <1>5 DEF GsOK, GoroutineOK, Sleeps
    <3>3. v \in 1..items' /\ v \notin failed
      BY <2>1, <3>1, <3>2, <1>1, <1>5, <1>7 DEF Moved
    <3>4. \A d \in Chan : v \notin ToSet(o[d])
      BY <3>1, <1>4, <1>5, <1>6 DEF OutsOK
    <3>5. \A x \in ToSet(o[c]) : x < v
      <4>1. s \in WaitersIn(t[c].sendq) /\ v = s.item
        BY <2>1, <1>2 DEF Moved, Line
      <4> QED
        BY <4>1, <1>5, <1>6 DEF AfterOK
    <3>6. \A e \in G : item[e] = v => e = s.g
      BY <3>1, <3>2, <1>5 DEF GsOK, ApartOK
    <3> QED
      BY <2>1, <3>1, <3>3, <3>4, <3>5, <3>6, <1>4, <1>8
  <2>2. CASE k.dir # "send"
    <3>1. v = items + 1 /\ items' = items + 1
      BY <2>2 DEF Moved
    <3>2. \A x \in failed : x \in Nat /\ x <= items
      BY <1>6, ChannelConstants DEF GsOK, ChanTypeOK, OutsOK
    <3>3. v \in 1..items' /\ v \notin failed
      BY <3>1, <3>2, <1>1
    <3>4. \A d \in Chan : \A x \in ToSet(o[d]) : x \in 1..items
      BY <1>6 DEF OutsOK
    <3>5. (\A d \in Chan : v \notin ToSet(o[d])) /\ \A x \in ToSet(o[c]) : x < v
      <4>1. \A x \in 1..items : x < v
        BY <3>1, <1>1
      <4>2. ~(v < v)
        BY <3>1, <1>1
      <4> QED
        BY <4>1, <4>2, <3>4, <1>5
    <3>6. \A e \in G : item[e] # v
      BY <3>1, <1>1, <1>7
    <3> QED
      BY <2>2, <3>3, <3>5, <3>6, <1>4, <1>8
  <2> QED
    BY <2>1, <2>2
<1>10. \A e \in G : Won(e) => Won(e)'
  BY <1>4
<1>11. \A x \in acked' : x \in acked \/ x = v
  BY DEF Moved
<1>12. p[c] = Append(o[c], v) /\ \A d \in Chan : d # c => p[d] = o[d]
  BY DEF Moved
<1> HIDE DEF o, c
<1>13. OutsOK(p)'
  BY <1>0, <1>1, <1>4, <1>5, <1>6, <1>9, <1>10, <1>11, <1>12, OutsPush
<1>14. ASSUME NEW d \in Chan, NEW x \in WaitersIn(t[d].sendq), x.g # s.g, NEW y \in ToSet(p[d])
       PROVE  y < x.item
  <2>1. CASE d # c
    BY <2>1, <1>6, <1>12 DEF AfterOK
  <2>2. CASE d = c /\ k.dir = "send"
    <3>1. Line(t, k) = t[c].sendq /\ v = s.item
      BY <2>2 DEF Moved, Line, c
    <3>2. Line(t, k) \in Seq(Sudog) /\ InOrder(Line(t, k), k)
      BY <1>0, LineType DEF HchansOK, LineOK
    <3>3. x \in ToSet(Line(t, k))
      BY <2>2, <3>1 DEF WaitersIn
    <3>4. v < x.item
      <4>1. Line(t, k) # <<>> /\ s = Head(Line(t, k))
        BY DEF HandOver
      <4> QED
        BY <2>2, <3>1, <3>2, <3>3, <4>1, <1>14, HeadFirst
    <3>5. y \in ToSet(o[c]) \/ y = v
      <4>1. o[c] \in Seq(Nat)
        BY <1>5, <1>6 DEF OutsOK
      <4> QED
        BY <2>2, <4>1, <1>12, PushFacts
    <3>6. y \in ToSet(o[c]) => y < x.item
      BY <2>2, <1>6 DEF AfterOK
    <3> QED
      BY <3>4, <3>5, <3>6
  <2>3. CASE d = c /\ k.dir # "send"
    <3>1. s \in WaitersIn(t[c].recvq)
      BY <2>3, <1>2 DEF Line, c
    <3>2. s.g = x.g
      BY <1>0, <2>3, <3>1, <1>5 DEF HchansOK, WaitOK
    <3> QED
      BY <3>2, <1>14
  <2> QED
    BY <2>1, <2>2, <2>3
<1>15. ASSUME NEW d \in Chan, ch'[d].closed
       PROVE  ch'[d].sendq = <<>> /\ ch'[d].recvq = <<>>
  <2>1. t[d].sendq = <<>> /\ t[d].recvq = <<>>
    BY <1>0, <1>15 DEF HandOver, HchansOK, WaitOK
  <2>2. /\ Line(t, Send(d)) = t[d].sendq /\ Line(t, Recv(d)) = t[d].recvq
        /\ Line(ch', Send(d)) = ch'[d].sendq /\ Line(ch', Recv(d)) = ch'[d].recvq
    BY LineOf
  <2>3. Send(d) # k /\ Recv(d) # k /\ Send(d) \in Case /\ Recv(d) \in Case
    BY <2>1, <2>2, CaseFacts DEF HandOver
  <2> QED
    BY <2>1, <2>2, <2>3 DEF HandOver
<1>16. HchansOK(ch)'
  <2>1. \A d \in Chan : \A x \in WaitersIn(t[d].sendq) :
            x.g \notin {s.g} => \A y \in ToSet(p[d]) : y < x.item
    BY <1>14
  <2> QED
    BY <1>0, <2>1, <1>3, <1>13, <1>15, WakeHchans DEF HandOver
<1>17. (\A e \in G : GoroutineOK(e)') /\ ApartOK'
  BY <1>3, WakeGoroutines
<1> QED
  BY <1>16, <1>17 DEF Kept

-----------------------------------------------------------------------------

-----------------------------------------------------------------------------
(* The disjuncts of DoSend and DoRecv. *)

(* What got through one channel. *)
LEMMA OutsAt ==
    ASSUME NEW h, NEW c \in Chan
    PROVE  Outs(h)[c] = rcvd[c] \o Ring(h[c].buf, h[c].recvx, h[c].qcount, dataqsiz[c])
  BY DEF Outs

(* A channel changes and the others do not. *)
OnlyAt(c, h, t) == DOMAIN t = Chan /\ \A d \in Chan : d # c => t[d] = h[d]

(* The other queues stay. *)
LEMMA LinesElsewhere ==
    ASSUME NEW c \in Chan, NEW h, NEW t, OnlyAt(c, h, t), NEW k, k \in {Send(c), Recv(c)},
           k = Send(c) => t[c].recvq = h[c].recvq,
           k = Recv(c) => t[c].sendq = h[c].sendq
    PROVE  \A j \in Case : j # k => Line(t, j) = Line(h, j)
<1> TAKE j \in Case
<1> HAVE j # k
<1>1. CASE j.chan # c
  BY <1>1, CaseFacts DEF Line, OnlyAt
<1>2. CASE j.chan = c
  <2>1. j = Send(c) \/ j = Recv(c)
    BY <1>2, CaseFacts
  <2>2. /\ Line(h, Send(c)) = h[c].sendq /\ Line(h, Recv(c)) = h[c].recvq
        /\ Line(t, Send(c)) = t[c].sendq /\ Line(t, Recv(c)) = t[c].recvq
    BY LineOf
  <2> QED
    BY <2>1, <2>2
<1> QED
  BY <1>1, <1>2

(* What got through the other channels stays. *)
LEMMA OthersOut ==
    ASSUME NEW c \in Chan, NEW t, OnlyAt(c, t, ch'), NEW s,
           rcvd'[c] = s /\ \A d \in Chan : d # c => rcvd'[d] = rcvd[d]
    PROVE  /\ \A d \in Chan : d # c => Outs(ch)'[d] = Outs(t)[d]
           /\ Outs(ch)'[c] = s \o Ring(ch'[c].buf, ch'[c].recvx, ch'[c].qcount, dataqsiz[c])
  BY DEF OnlyAt, Outs

SendsDirect(g, c, h, q) ==
    /\ q # <<>>
    /\ items < MaxItems /\ items' = items + 1 /\ acked' = acked \union {items + 1}
    /\ failed' = failed
    /\ ch' = [h EXCEPT ![c] = [h[c] EXCEPT !.recvq = Tail(q)]]
    /\ rcvd' = [rcvd EXCEPT ![c] = Append(rcvd[c], items + 1)]
    /\ Dequeued(g, Head(q), Recv(c))

(* send: the item goes to a receiver that waits. *)
LEMMA SendDirect ==
    ASSUME GsOK, NEW h, HchansOK(h), NEW g \in G, pc[g] \notin {"parked", "woken", "goready"},
           NEW c \in Chan, NEW q, q = Purge(h[c].recvq), SendsDirect(g, c, h, q)
    PROVE  Kept'
<1>1. DOMAIN h = Chan /\ h[c] \in Hchan(c)
  BY DEF HchansOK
<1>2. q \in Seq(Sudog) /\ q # <<>> /\ Live(Head(q)) /\ Head(q) \in ToSet(q) /\ Tail(q) \in Seq(Sudog)
  BY <1>1, HchanFields, PurgeFacts, TailThins DEF SendsDirect
<1>3. PICK t : t = [h EXCEPT ![c] = [h[c] EXCEPT !.recvq = q]]
  OBVIOUS
<1>4. OnlyAt(c, h, t) /\ t[c] = [h[c] EXCEPT !.recvq = Purge(h[c].recvq)]
  BY <1>1, <1>3 DEF OnlyAt
<1>5. HchansOK(t)
  BY <1>4, PurgeOne DEF OnlyAt
<1>6. OnlyAt(c, t, ch')
  BY <1>1, <1>4 DEF OnlyAt, SendsDirect
<1>61. ch'[c] = [h[c] EXCEPT !.recvq = Tail(q)]
  BY <1>1 DEF SendsDirect
<1>7. /\ ch'[c] \in Hchan(c)
      /\ ch'[c].closed = t[c].closed /\ ch'[c].qcount = t[c].qcount
      /\ ch'[c].sendx = t[c].sendx /\ ch'[c].recvx = t[c].recvx /\ ch'[c].buf = t[c].buf
      /\ ch'[c].sendq = t[c].sendq /\ ch'[c].recvq = Tail(q) /\ t[c].recvq = q
  BY <1>1, <1>2, <1>4, <1>61 DEF Hchan
<1>8. PICK k : k = Recv(c)
  OBVIOUS
<1>9. k \in Case /\ k.chan = c /\ k.dir # "send"
  BY <1>8, CaseFacts
<1>10. PICK s : s = Head(q)
  OBVIOUS
<1>11. Line(t, k) = q /\ Line(ch', k) = Tail(q)
  BY <1>7, <1>8, LineOf
<1>12. \A j \in Case : j # k => Line(ch', j) = Line(t, j)
  BY <1>6, <1>7, <1>8, CaseFacts, LinesElsewhere
<1>13. \A d \in Chan : /\ ch'[d] \in Hchan(d) /\ RingOK(ch'[d], d)
                       /\ ch'[d].closed = t[d].closed /\ ch'[d].qcount = t[d].qcount
  <2>1. \A d \in Chan : t[d] \in Hchan(d) /\ RingOK(t[d], d)
    BY <1>5 DEF HchansOK
  <2>2. RingOK(ch'[c], c)
    BY <2>1, <1>7 DEF RingOK
  <2> QED
    BY <2>1, <2>2, <1>6, <1>7 DEF OnlyAt
<1>14. HandOver(t, g, k, s)
  BY <1>2, <1>5, <1>6, <1>8, <1>10, <1>11, <1>12, <1>13 DEF HandOver, OnlyAt, SendsDirect
<1>15. t[c].qcount = 0
  <2>1. Head(q) \in WaitersIn(t[c].recvq)
    BY <1>2, <1>7 DEF WaitersIn
  <2> QED
    BY <2>1, <1>5 DEF HchansOK, WaitOK
<1>16. PICK p : p = Outs(ch)'
  OBVIOUS
<1>17. PICK v \in Nat : v = items + 1
  BY ChannelConstants DEF GsOK, ChanTypeOK
<1>18. rcvd[c] \in Seq(Nat)
  BY ChannelConstants DEF GsOK, ChanTypeOK
<1>19. rcvd'[c] = Append(rcvd[c], v) /\ \A d \in Chan : d # c => rcvd'[d] = rcvd[d]
  BY <1>17 DEF SendsDirect, GsOK, ChanTypeOK
<1>20. /\ \A d \in Chan : d # c => p[d] = Outs(t)[d]
       /\ p[c] = rcvd'[c] \o Ring(ch'[c].buf, ch'[c].recvx, ch'[c].qcount, dataqsiz[c])
  <2>1. PICK r : r = rcvd'[c]
    OBVIOUS
  <2>2. rcvd'[c] = r /\ \A d \in Chan : d # c => rcvd'[d] = rcvd[d]
    BY <2>1, <1>19
  <2> QED
    BY <2>1, <2>2, <1>6, <1>16, OthersOut, Zenon
<1>21. Outs(t)[c] = rcvd[c]
  <2>1. Outs(t)[c] = rcvd[c] \o Ring(t[c].buf, t[c].recvx, 0, dataqsiz[c])
    BY <1>15, OutsAt
  <2>2. Outs(t)[c] = rcvd[c] \o <<>>
    BY <2>1, EmptyRing, Zenon
  <2> QED
    BY <2>2, <1>18
<1>22. p[c] = Append(rcvd[c], v)
  <2>1. Append(rcvd[c], v) \in Seq(Nat)
    BY <1>17, <1>18
  <2>2. ch'[c].qcount = 0 /\ rcvd'[c] = Append(rcvd[c], v)
    BY <1>7, <1>15, <1>19
  <2>3. p[c] = rcvd'[c] \o <<>>
    BY <2>2, <1>20, EmptyRing, Zenon
  <2> QED
    BY <2>1, <2>2, <2>3
<1>23. Moved(k, s, v, Outs(t), p)
  BY <1>9, <1>17, <1>20, <1>21, <1>22 DEF Moved, SendsDirect
<1> QED
  BY <1>9, <1>14, <1>16, <1>23, Handed

Refilled(r, q, b, x) == [r EXCEPT !.sendq = q, !.buf = b, !.recvx = x, !.sendx = x]

RecvsDirect(g, c, h, q, x) ==
    /\ q # <<>>
    /\ ch' = [h EXCEPT ![c] =
               IF dataqsiz[c] = 0 THEN [h[c] EXCEPT !.sendq = Tail(q)]
               ELSE Refilled(h[c], Tail(q), [h[c].buf EXCEPT ![x] = Head(q).item],
                             Wrapped(x, c))]
    /\ rcvd' = [rcvd EXCEPT ![c] = Append(rcvd[c], IF dataqsiz[c] = 0 THEN Head(q).item
                                                   ELSE h[c].buf[x])]
    /\ Dequeued(g, Head(q), Send(c))
    /\ UNCHANGED <<items, acked, failed>>

(* recv: an item comes from the buffer or, without one, from a sender that waits. *)
LEMMA RecvDirect ==
    ASSUME GsOK, NEW h, HchansOK(h), NEW g \in G, pc[g] \notin {"parked", "woken", "goready"},
           NEW c \in Chan, NEW q, q = Purge(h[c].sendq), NEW x, x = h[c].recvx,
           RecvsDirect(g, c, h, q, x)
    PROVE  Kept'
<1>1. DOMAIN h = Chan /\ h[c] \in Hchan(c)
  BY DEF HchansOK
<1>2. q \in Seq(Sudog) /\ q # <<>> /\ Live(Head(q)) /\ Head(q) \in ToSet(q) /\ Tail(q) \in Seq(Sudog)
  BY <1>1, HchanFields, PurgeFacts, TailThins DEF RecvsDirect
<1>3. PICK t : t = [h EXCEPT ![c] = [h[c] EXCEPT !.sendq = q]]
  OBVIOUS
<1>4. OnlyAt(c, h, t) /\ t[c] = [h[c] EXCEPT !.sendq = Purge(h[c].sendq)]
  BY <1>1, <1>3 DEF OnlyAt
<1>5. HchansOK(t)
  BY <1>4, PurgeOne DEF OnlyAt
<1>6. OnlyAt(c, t, ch')
  BY <1>1, <1>4 DEF OnlyAt, RecvsDirect
<1>61. ch'[c] = IF dataqsiz[c] = 0 THEN [h[c] EXCEPT !.sendq = Tail(q)]
                ELSE Refilled(h[c], Tail(q), [h[c].buf EXCEPT ![x] = Head(q).item], Wrapped(x, c))
  BY <1>1 DEF RecvsDirect
<1>7. /\ t[c].closed = h[c].closed /\ t[c].qcount = h[c].qcount
      /\ t[c].sendx = h[c].sendx /\ t[c].recvx = h[c].recvx /\ t[c].buf = h[c].buf
      /\ t[c].recvq = h[c].recvq /\ t[c].sendq = q /\ t[c] \in Hchan(c)
  BY <1>1, <1>2, <1>4 DEF Hchan
<1>8. PICK k : k = Send(c)
  OBVIOUS
<1>9. k \in Case /\ k.chan = c /\ k.dir = "send"
  BY <1>8, CaseFacts
<1>10. PICK s : s = Head(q)
  OBVIOUS
<1>11. PICK v : v = s.item
  OBVIOUS
<1>12. v \in 0..MaxItems /\ v \in Nat
  <2>1. s \in Sudog
    BY <1>2, <1>10, ToSetFacts
  <2> QED
    BY <2>1, <1>11, ChannelConstants DEF Sudog
<1>13. PICK N : N = dataqsiz[c]
  OBVIOUS
<1>14. N \in Nat /\ RingOK(t[c], c) /\ x = t[c].recvx
  BY <1>5, <1>7, <1>13, ChannelConstants DEF HchansOK
<1>15. t[c].qcount = N
  <2>1. Head(q) \in WaitersIn(t[c].sendq)
    BY <1>2, <1>7 DEF WaitersIn
  <2> QED
    BY <2>1, <1>5, <1>13 DEF HchansOK, WaitOK
<1>16. N > 0 => /\ x \in 0..N - 1 /\ Wrapped(x, c) = Slot(x + 1, N) /\ Slot(x + 1, N) \in 0..N - 1
                /\ Slot(Slot(x + 1, N) + N, N) = Slot(x + 1, N)
  <2> SUFFICES ASSUME N > 0
               PROVE  /\ x \in 0..N - 1 /\ Wrapped(x, c) = Slot(x + 1, N) /\ Slot(x + 1, N) \in 0..N - 1
                      /\ Slot(Slot(x + 1, N) + N, N) = Slot(x + 1, N)
    OBVIOUS
  <2>1. x \in 0..N
    BY <1>7, <1>13, <1>14, HchanFields
  <2>2. x < N
    BY <1>13, <1>14 DEF RingOK
  <2>3. x \in 0..N - 1 /\ Slot(x + 1, N) \in 0..N - 1
    BY <2>1, <2>2, <1>14 DEF Slot
  <2>4. Wrapped(x, c) = Slot(x + 1, N)
    BY <2>3, <1>13, <1>14 DEF Wrapped, Slot
  <2>5. \A y \in 0..N - 1 : Slot(y + N, N) = y
    BY <1>14 DEF Slot
  <2> QED
    BY <2>3, <2>4, <2>5
<1>17. /\ ch'[c] \in Hchan(c)
       /\ ch'[c].closed = t[c].closed /\ ch'[c].qcount = t[c].qcount
       /\ ch'[c].recvq = t[c].recvq /\ ch'[c].sendq = Tail(q)
       /\ N = 0 => /\ ch'[c].buf = t[c].buf
                   /\ ch'[c].recvx = t[c].recvx /\ ch'[c].sendx = t[c].sendx
       /\ N > 0 => /\ ch'[c].buf[x] = v
                   /\ \A i \in 0..N - 1 : i # x => ch'[c].buf[i] = t[c].buf[i]
                   /\ ch'[c].recvx = Slot(x + 1, N) /\ ch'[c].sendx = Slot(x + 1, N)
  <2>1. CASE N = 0
    <3>1. ch'[c] = [h[c] EXCEPT !.sendq = Tail(q)]
      BY <2>1, <1>61, <1>13
    <3>2. /\ ch'[c].closed = t[c].closed /\ ch'[c].qcount = t[c].qcount
          /\ ch'[c].recvq = t[c].recvq /\ ch'[c].sendq = Tail(q) /\ ch'[c].buf = t[c].buf
          /\ ch'[c].recvx = t[c].recvx /\ ch'[c].sendx = t[c].sendx /\ ch'[c] \in Hchan(c)
      BY <3>1, <1>1, <1>2, <1>7 DEF Hchan
    <3> QED
      BY <2>1, <3>2
  <2>2. CASE N > 0
    <3>1. PICK b, y : b = [h[c].buf EXCEPT ![x] = v] /\ y = Slot(x + 1, N)
      OBVIOUS
    <3>2. ch'[c] = Refilled(h[c], Tail(q), b, y)
      <4>1. b = [h[c].buf EXCEPT ![x] = Head(q).item] /\ y = Wrapped(x, c)
        BY <2>2, <3>1, <1>10, <1>11, <1>16
      <4>2. dataqsiz[c] # 0
        BY <2>2, <1>13, <1>14
      <4> QED
        BY <4>1, <4>2, <1>61, Zenon
    <3>3. y \in 0..dataqsiz[c] /\ b \in [0..dataqsiz[c] - 1 -> 0..MaxItems]
      BY <2>2, <3>1, <1>1, <1>12, <1>13, <1>16, HchanFields
    <3>4. /\ ch'[c].closed = t[c].closed /\ ch'[c].qcount = t[c].qcount
          /\ ch'[c].recvq = t[c].recvq /\ ch'[c].sendq = Tail(q)
          /\ ch'[c].buf = b /\ ch'[c].recvx = y /\ ch'[c].sendx = y /\ ch'[c] \in Hchan(c)
      BY <3>2, <3>3, <1>1, <1>2, <1>7 DEF Hchan, Refilled
    <3>5. b[x] = v /\ \A i \in 0..N - 1 : i # x => b[i] = t[c].buf[i]
      BY <2>2, <3>1, <1>1, <1>7, <1>13, <1>16, HchanFields
    <3>6. ~(N = 0)
      BY <2>2, <1>14
    <3> QED
      BY <3>1, <3>4, <3>5, <3>6
  <2> QED
    BY <2>1, <2>2, <1>14
<1>18. Line(t, k) = q /\ Line(ch', k) = Tail(q)
  BY <1>7, <1>8, <1>17, LineOf
<1>19. \A j \in Case : j # k => Line(ch', j) = Line(t, j)
  <2>1. ch'[c].recvq = t[c].recvq
    BY <1>17
  <2> QED
    BY <2>1, <1>6, <1>8, CaseFacts, LinesElsewhere
<1>20. RingOK(ch'[c], c)
  <2>1. CASE N = 0
    BY <2>1, <1>13, <1>14, <1>17 DEF RingOK
  <2>2. CASE N > 0
    <3>1. ch'[c].recvx = Slot(x + 1, N) /\ ch'[c].sendx = Slot(x + 1, N) /\ ch'[c].qcount = N
      BY <2>2, <1>15, <1>17
    <3>2. N # 0 /\ Slot(x + 1, N) < N /\ Slot(Slot(x + 1, N) + N, N) = Slot(x + 1, N)
      BY <2>2, <1>14, <1>16
    <3> QED
      BY <3>1, <3>2, <1>13 DEF RingOK
  <2> QED
    BY <2>1, <2>2, <1>14
<1>21. \A d \in Chan : /\ ch'[d] \in Hchan(d) /\ RingOK(ch'[d], d)
                       /\ ch'[d].closed = t[d].closed /\ ch'[d].qcount = t[d].qcount
  <2>1. \A d \in Chan : t[d] \in Hchan(d) /\ RingOK(t[d], d)
    BY <1>5 DEF HchansOK
  <2> QED
    BY <2>1, <1>6, <1>17, <1>20 DEF OnlyAt
<1>22. HandOver(t, g, k, s)
  BY <1>2, <1>5, <1>6, <1>8, <1>10, <1>18, <1>19, <1>21 DEF HandOver, OnlyAt, RecvsDirect
<1>23. PICK p : p = Outs(ch)'
  OBVIOUS
<1>24. rcvd[c] \in Seq(Nat)
  BY ChannelConstants DEF GsOK, ChanTypeOK
<1>25. PICK b, d : b = t[c].buf /\ d = ch'[c].buf
  OBVIOUS
<1>26. b \in [0..N - 1 -> Nat] /\ d \in [0..N - 1 -> Nat]
  <2>1. \A f \in [0..dataqsiz[c] - 1 -> 0..MaxItems] : f \in [0..dataqsiz[c] - 1 -> Nat]
    BY ChannelConstants
  <2> QED
    BY <2>1, <1>7, <1>13, <1>17, <1>25, HchanFields
<1>27. PICK z : z = IF N = 0 THEN v ELSE b[x]
  OBVIOUS
<1>28. rcvd'[c] = Append(rcvd[c], z) /\ \A e \in Chan : e # c => rcvd'[e] = rcvd[e]
  BY <1>7, <1>10, <1>11, <1>13, <1>25, <1>27 DEF RecvsDirect, GsOK, ChanTypeOK
<1>29. /\ \A e \in Chan : e # c => p[e] = Outs(t)[e]
       /\ p[c] = rcvd'[c] \o Ring(ch'[c].buf, ch'[c].recvx, ch'[c].qcount, dataqsiz[c])
  <2>1. PICK r : r = rcvd'[c]
    OBVIOUS
  <2>2. rcvd'[c] = r /\ \A e \in Chan : e # c => rcvd'[e] = rcvd[e]
    BY <2>1, <1>28
  <2> QED
    BY <2>1, <2>2, <1>6, <1>23, OthersOut, Zenon
<1>30. Outs(t)[c] = rcvd[c] \o Ring(b, x, N, N)
  BY <1>13, <1>14, <1>15, <1>25, OutsAt
<1>31. p[c] = Append(Outs(t)[c], v)
  <2>1. CASE N = 0
    <3>1. Outs(t)[c] = rcvd[c]
      <4>1. Outs(t)[c] = rcvd[c] \o <<>>
        BY <2>1, <1>30, EmptyRing, Zenon
      <4> QED
        BY <4>1, <1>24
    <3>2. Append(rcvd[c], v) \in Seq(Nat)
      BY <1>12, <1>24
    <3>3. ch'[c].qcount = 0 /\ rcvd'[c] = Append(rcvd[c], v)
      BY <2>1, <1>15, <1>17, <1>27, <1>28
    <3>4. p[c] = rcvd'[c] \o <<>>
      BY <3>3, <1>29, EmptyRing, Zenon
    <3> QED
      BY <3>1, <3>2, <3>3, <3>4
  <2>2. CASE N > 0
    <3>1. p[c] = Append(rcvd[c], b[x]) \o Ring(d, Slot(x + 1, N), N, N)
      <4>1. rcvd'[c] = Append(rcvd[c], b[x])
        BY <2>2, <1>27, <1>28
      <4>2. ch'[c].recvx = Slot(x + 1, N) /\ ch'[c].qcount = N
        BY <2>2, <1>15, <1>17
      <4> QED
        BY <4>1, <4>2, <1>13, <1>25, <1>29, Zenon
    <3>2. d[x] = v /\ \A i \in 0..N - 1 : i # x => d[i] = b[i]
      BY <2>2, <1>16, <1>17, <1>25, <1>26
    <3>3. N \in Nat \ {0} /\ x \in 0..N - 1
      BY <2>2, <1>14, <1>16
    <3>4. Append(rcvd[c], b[x]) \o Ring(d, Slot(x + 1, N), N, N)
              = Append(rcvd[c] \o Ring(b, x, N, N), v)
      <4>1. SwapArgs(N, x, b, d, v, rcvd[c])
        BY <3>2, <3>3, <1>12, <1>24, <1>26 DEF SwapArgs
      <4>2. Joined(Append(rcvd[c], b[x]), d, Slot(x + 1, N), N, N)
                = Append(Joined(rcvd[c], b, x, N, N), v)
        BY <4>1, RingSwap
      <4> QED
        BY <4>2 DEF Joined
    <3> QED
      BY <3>1, <3>4, <1>30
  <2> QED
    BY <2>1, <2>2, <1>14
<1>32. Moved(k, s, v, Outs(t), p)
  BY <1>9, <1>11, <1>29, <1>31 DEF Moved, RecvsDirect
<1> QED
  BY <1>9, <1>12, <1>22, <1>23, <1>32, Handed

-----------------------------------------------------------------------------
(* A step of g that wakes nobody. *)
Calm(g) ==
    /\ pc[g] \notin {"parked", "woken", "goready"} /\ pc'[g] \notin {"parked", "woken"}
    /\ item'[g] = 0 /\ UNCHANGED <<selectDone, param, readies, failed>>
    /\ \A e \in G : e # g => pc'[e] = pc[e] /\ cases'[e] = cases[e] /\ item'[e] = item[e]

(* A wake of nobody. *)
LEMMA CalmWake ==
    ASSUME GsOK, NEW g \in G, Calm(g), items' \in Nat, items <= items'
    PROVE  /\ Wake(g, {}, {})
           /\ \A e \in G : item'[e] = item[e] /\ (Won(e)' <=> Won(e))
<1>1. readies[g] = {} /\ items \in Nat
  BY ChannelConstants DEF GsOK, GoroutineOK, ChanTypeOK, Calm
<1>2. PICK gs : gs = {}
  OBVIOUS
<1>3. Wake(g, gs, gs)
  BY <1>1, <1>2 DEF Wake, Calm
<1>4. /\ \A e \in G : item'[e] = item[e]
      /\ \A e \in G : e \notin gs => (Won(e)' <=> Won(e))
  BY <1>3, WakeView
<1> QED
  BY <1>2, <1>3, <1>4

(* A call that returns wakes nobody. *)
LEMMA LeaveCalm ==
    ASSUME GsOK, NEW g \in G, pc[g] \notin {"parked", "woken", "goready"}, Leave(g), UNCHANGED wake,
           failed' = failed
    PROVE  Calm(g)
  BY DEF GsOK, ChanTypeOK, Leave, wake, Calm

(* The channels but for what came out of them. *)
CalmChannels(t) ==
    /\ DOMAIN ch' = Chan /\ (\A d \in Chan : ch'[d] \in Hchan(d))
    /\ \A d \in Chan : RingOK(ch'[d], d)
    /\ \A d \in Chan : /\ ch'[d].closed = t[d].closed
                       /\ ch'[d].sendq = t[d].sendq /\ ch'[d].recvq = t[d].recvq
    /\ \A d \in Chan : \/ ch'[d].qcount = t[d].qcount
                       \/ WaitersIn(t[d].sendq) = {} /\ WaitersIn(t[d].recvq) = {}

(* The invariant after a step that wakes nobody. *)
LEMMA CalmKept ==
    ASSUME GsOK, NEW t, HchansOK(t), NEW g \in G, Calm(g), CalmChannels(t),
           items' \in Nat, items <= items', NEW p, p = Outs(ch)', OutsOK(p)',
           \A d \in Chan : \A x \in WaitersIn(t[d].sendq) : \A y \in ToSet(p[d]) : y < x.item
    PROVE  Kept'
<1>1. PICK gs : gs = {}
  OBVIOUS
<1>2. Wake(g, gs, gs)
  BY <1>1, CalmWake
<1>3. \A k \in Case : Line(t, k) \in Seq(Sudog) /\ Line(ch', k) = Line(t, k)
  BY LineType, CaseFacts DEF HchansOK, CalmChannels, Line
<1>4. Roused(t, gs, gs)
  <2>1. ASSUME NEW k \in Case
        PROVE  /\ Line(ch', k) \in Seq(Sudog) /\ Line(t, k) \in Seq(Sudog)
               /\ Thins(Line(ch', k), Line(t, k)) /\ ToSet(Line(ch', k)) = ToSet(Line(t, k))
    BY <1>3, ThinsSelf
  <2> QED
    BY <2>1, <1>1 DEF Roused
<1>5. \A c \in Chan : ch'[c].closed => ch'[c].sendq = <<>> /\ ch'[c].recvq = <<>>
  BY DEF CalmChannels, HchansOK, WaitOK
<1>6. HchansOK(ch)'
  BY <1>2, <1>4, <1>5, WakeHchans DEF CalmChannels
<1>7. (\A e \in G : GoroutineOK(e)') /\ ApartOK'
  BY <1>2, WakeGoroutines
<1> QED
  BY <1>6, <1>7 DEF Kept

(* Nobody is in an empty queue. *)
LEMMA NoWaiters == WaitersIn(<<>>) = {}
<1>1. <<>> \in Seq(Sudog)
  OBVIOUS
<1>2. ToSet(<<>>) = {}
  BY <1>1, ToSetFacts
<1> QED
  BY <1>2 DEF WaitersIn

Stored(r, b, x) == [r EXCEPT !.recvq = <<>>, !.buf = b, !.sendx = x, !.qcount = r.qcount + 1]

SendsBuffer(g, c, h, q, x) ==
    /\ q = <<>> /\ h[c].qcount < dataqsiz[c]
    /\ items < MaxItems /\ items' = items + 1 /\ acked' = acked \union {items + 1}
    /\ failed' = failed /\ rcvd' = rcvd
    /\ ch' = [h EXCEPT ![c] = Stored(h[c], [h[c].buf EXCEPT ![x] = items + 1], Wrapped(x, c))]
    /\ Leave(g) /\ UNCHANGED wake

(* chansend: the item goes into the buffer. *)
LEMMA SendBuffer ==
    ASSUME GsOK, NEW h, HchansOK(h), NEW g \in G, pc[g] \notin {"parked", "woken", "goready"},
           NEW c \in Chan, NEW q, q = Purge(h[c].recvq), NEW x, x = h[c].sendx,
           SendsBuffer(g, c, h, q, x)
    PROVE  Kept'
<1>1. DOMAIN h = Chan /\ h[c] \in Hchan(c)
  BY DEF HchansOK
<1>2. PICK t : t = [h EXCEPT ![c] = [h[c] EXCEPT !.recvq = <<>>]]
  OBVIOUS
<1>3. OnlyAt(c, h, t) /\ t[c] = [h[c] EXCEPT !.recvq = Purge(h[c].recvq)]
  BY <1>1, <1>2 DEF OnlyAt, SendsBuffer
<1>4. HchansOK(t)
  BY <1>3, PurgeOne DEF OnlyAt
<1>5. OnlyAt(c, t, ch')
  BY <1>1, <1>3 DEF OnlyAt, SendsBuffer
<1>6. /\ t[c].closed = h[c].closed /\ t[c].qcount = h[c].qcount
      /\ t[c].sendx = h[c].sendx /\ t[c].recvx = h[c].recvx /\ t[c].buf = h[c].buf
      /\ t[c].recvq = <<>> /\ t[c].sendq = h[c].sendq /\ t[c] \in Hchan(c)
  <2>1. t[c] = [h[c] EXCEPT !.recvq = <<>>]
    BY <1>1, <1>2
  <2>2. t[c] \in Hchan(c)
    BY <1>4 DEF HchansOK
  <2> QED
    BY <2>1, <2>2, <1>1 DEF Hchan
<1>7. PICK N, m, y : N = dataqsiz[c] /\ m = t[c].qcount /\ y = t[c].recvx
  OBVIOUS
<1>8. N \in Nat /\ m \in 0..N /\ y \in 0..N /\ m < N /\ RingOK(t[c], c)
  BY <1>4, <1>6, <1>7, HchanFields DEF HchansOK, SendsBuffer
<1>9. N \in Nat \ {0} /\ m \in 0..N - 1
  BY <1>8
<1>10. y \in 0..N - 1 /\ x = Slot(y + m, N)
  BY <1>6, <1>7, <1>8, <1>9 DEF RingOK
<1>11. x \in 0..N - 1 /\ Wrapped(x, c) = Slot(y + (m + 1), N) /\ Wrapped(x, c) \in 0..N - 1
  BY <1>7, <1>9, <1>10 DEF Wrapped, Slot
<1>12. PICK v : v = items + 1
  OBVIOUS
<1>13. items \in Nat /\ v \in Nat /\ v \in 0..MaxItems /\ items' \in Nat /\ items <= items'
  BY <1>12, ChannelConstants DEF GsOK, ChanTypeOK, SendsBuffer
<1>14. PICK b, d, z : b = t[c].buf /\ d = [b EXCEPT ![x] = v] /\ z = Wrapped(x, c)
  OBVIOUS
<1>15. /\ b \in [0..N - 1 -> 0..MaxItems] /\ d \in [0..N - 1 -> 0..MaxItems]
       /\ d[x] = v /\ \A i \in 0..N - 1 : i # x => d[i] = b[i]
  BY <1>6, <1>7, <1>11, <1>13, <1>14, HchanFields
<1>16. ch'[c] = Stored(h[c], d, z)
  <2>1. ch'[c] = Stored(h[c], [h[c].buf EXCEPT ![x] = items + 1], Wrapped(x, c))
    BY <1>1 DEF SendsBuffer
  <2>2. d = [h[c].buf EXCEPT ![x] = items + 1]
    BY <1>6, <1>12, <1>14
  <2> QED
    BY <2>1, <2>2, <1>14, Zenon
<1>17. /\ ch'[c].closed = t[c].closed /\ ch'[c].qcount = m + 1
       /\ ch'[c].sendx = z /\ ch'[c].recvx = y /\ ch'[c].buf = d
       /\ ch'[c].recvq = t[c].recvq /\ ch'[c].sendq = t[c].sendq
  BY <1>1, <1>6, <1>7, <1>16 DEF Hchan, Stored
<1>18. ch'[c] \in Hchan(c)
  <2>1. PICK a : a = m + 1
    OBVIOUS
  <2>2. a \in 0..dataqsiz[c] /\ z \in 0..dataqsiz[c]
    BY <2>1, <1>7, <1>9, <1>11, <1>14
  <2>3. d \in [0..dataqsiz[c] - 1 -> 0..MaxItems]
    BY <1>7, <1>15, Zenon
  <2>4. h[c].qcount + 1 = a /\ <<>> \in Seq(Sudog)
    BY <2>1, <1>6, <1>7
  <2> QED
    BY <2>2, <2>3, <2>4, <1>1, <1>16 DEF Hchan, Stored
<1>19. RingOK(ch'[c], c)
  BY <1>7, <1>9, <1>10, <1>11, <1>14, <1>17 DEF RingOK
<1>20. WaitersIn(t[c].sendq) = {} /\ WaitersIn(t[c].recvq) = {}
  <2>1. t[c].qcount # dataqsiz[c]
    BY <1>7, <1>8
  <2> QED
    BY <2>1, <1>4, <1>6, NoWaiters DEF HchansOK, WaitOK
<1>21. CalmChannels(t)
  <2>1. \A e \in Chan : t[e] \in Hchan(e) /\ RingOK(t[e], e)
    BY <1>4 DEF HchansOK
  <2> QED
    BY <2>1, <1>5, <1>17, <1>18, <1>19, <1>20 DEF CalmChannels, OnlyAt
<1>22. Calm(g)
  BY LeaveCalm DEF SendsBuffer
<1>23. \A e \in G : item'[e] = item[e] /\ (Won(e)' <=> Won(e))
  BY <1>13, <1>22, CalmWake
<1>24. PICK p : p = Outs(ch)'
  OBVIOUS
<1>25. rcvd[c] \in Seq(Nat)
  BY ChannelConstants DEF GsOK, ChanTypeOK
<1>26. PICK s : s = rcvd[c]
  OBVIOUS
<1>27. rcvd'[c] = s /\ \A e \in Chan : e # c => rcvd'[e] = rcvd[e]
  BY <1>26 DEF SendsBuffer
<1>28. /\ \A e \in Chan : e # c => p[e] = Outs(t)[e]
       /\ p[c] = s \o Ring(ch'[c].buf, ch'[c].recvx, ch'[c].qcount, dataqsiz[c])
  BY <1>5, <1>24, <1>27, OthersOut, Zenon
<1>29. p[c] = Append(Outs(t)[c], v)
  <2>1. PushArgs(N, y, m, b, d, v, s)
    <3>1. \A f \in [0..N - 1 -> 0..MaxItems] : f \in [0..N - 1 -> Nat]
      BY ChannelConstants
    <3> QED
      BY <3>1, <1>9, <1>10, <1>13, <1>15, <1>25, <1>26 DEF PushArgs
  <2>2. Joined(s, d, y, m + 1, N) = Append(Joined(s, b, y, m, N), v)
    BY <2>1, RingPush
  <2>3. Joined(s, b, y, m, N) = Outs(t)[c]
    BY <1>7, <1>14, <1>26, OutsAt DEF Joined
  <2>4. Joined(s, d, y, m + 1, N) = p[c]
    BY <1>7, <1>17, <1>28 DEF Joined
  <2> QED
    BY <2>2, <2>3, <2>4
<1>30. PICK o : o = Outs(t)
  OBVIOUS
<1>31. OutsOK(o) /\ AfterOK(t, o)
  BY <1>4, <1>30 DEF HchansOK
<1>32. OutsOK(p)'
  <2>1. \A e \in Chan : \A i \in ToSet(o[e]) : i \in Nat /\ i < v
    <3>1. \A e \in Chan : \A i \in ToSet(o[e]) : i \in 1..items
      BY <1>31 DEF OutsOK
    <3>2. \A i \in 1..items : i \in Nat /\ i < v
      BY <1>12, <1>13
    <3> QED
      BY <3>1, <3>2
  <2>2. ~(v < v) /\ v \in 1..items' /\ failed' = failed
    BY <1>12, <1>13 DEF SendsBuffer
  <2>3. v \notin failed
    BY <2>2, <1>12, <1>13, <1>31, ChannelConstants DEF OutsOK, GsOK, ChanTypeOK
  <2>4. \A e \in G : item[e] # v
    BY <1>12, <1>13 DEF GsOK, GoroutineOK, ChanTypeOK
  <2>5. \A i \in acked' : i \in acked \/ i = v
    BY <1>12 DEF SendsBuffer
  <2>6. p[c] = Append(o[c], v) /\ \A e \in Chan : e # c => p[e] = o[e]
    BY <1>28, <1>29, <1>30
  <2> QED
    BY <2>1, <2>2, <2>3, <2>4, <2>5, <2>6, <1>13, <1>23, <1>31, OutsPush
<1>33. \A e \in Chan : \A i \in WaitersIn(t[e].sendq) : \A j \in ToSet(p[e]) : j < i.item
  BY <1>20, <1>28, <1>30, <1>31 DEF AfterOK
<1> QED
  BY <1>4, <1>13, <1>21, <1>22, <1>24, <1>32, <1>33, CalmKept

Taken(r, b, x) == [r EXCEPT !.sendq = <<>>, !.buf = b, !.recvx = x, !.qcount = r.qcount - 1]

RecvsBuffer(g, c, h, q, x) ==
    /\ q = <<>> /\ h[c].qcount > 0
    /\ ch' = [h EXCEPT ![c] = Taken(h[c], [h[c].buf EXCEPT ![x] = 0], Wrapped(x, c))]
    /\ rcvd' = [rcvd EXCEPT ![c] = Append(rcvd[c], h[c].buf[x])]
    /\ Leave(g) /\ UNCHANGED wake /\ UNCHANGED <<items, acked, failed>>

(* chanrecv: the item comes from the buffer, and nobody waits. *)
LEMMA RecvBuffer ==
    ASSUME GsOK, NEW h, HchansOK(h), NEW g \in G, pc[g] \notin {"parked", "woken", "goready"},
           NEW c \in Chan, NEW q, q = Purge(h[c].sendq), NEW x, x = h[c].recvx,
           RecvsBuffer(g, c, h, q, x)
    PROVE  Kept'
<1>1. DOMAIN h = Chan /\ h[c] \in Hchan(c)
  BY DEF HchansOK
<1>2. PICK t : t = [h EXCEPT ![c] = [h[c] EXCEPT !.sendq = <<>>]]
  OBVIOUS
<1>3. OnlyAt(c, h, t) /\ t[c] = [h[c] EXCEPT !.sendq = Purge(h[c].sendq)]
  BY <1>1, <1>2 DEF OnlyAt, RecvsBuffer
<1>4. HchansOK(t)
  BY <1>3, PurgeOne DEF OnlyAt
<1>5. OnlyAt(c, t, ch')
  BY <1>1, <1>3 DEF OnlyAt, RecvsBuffer
<1>6. /\ t[c].closed = h[c].closed /\ t[c].qcount = h[c].qcount
      /\ t[c].sendx = h[c].sendx /\ t[c].recvx = h[c].recvx /\ t[c].buf = h[c].buf
      /\ t[c].sendq = <<>> /\ t[c].recvq = h[c].recvq /\ t[c] \in Hchan(c)
  <2>1. t[c] = [h[c] EXCEPT !.sendq = <<>>]
    BY <1>1, <1>2
  <2>2. t[c] \in Hchan(c)
    BY <1>4 DEF HchansOK
  <2> QED
    BY <2>1, <2>2, <1>1 DEF Hchan
<1>7. PICK N, m, y : N = dataqsiz[c] /\ m = t[c].qcount /\ y = t[c].sendx
  OBVIOUS
<1>8. N \in Nat /\ m \in 0..N /\ x \in 0..N /\ m > 0 /\ RingOK(t[c], c)
  BY <1>4, <1>6, <1>7, HchanFields DEF HchansOK, RecvsBuffer
<1>9. N \in Nat \ {0} /\ m \in 1..N
  BY <1>8
<1>10. x \in 0..N - 1 /\ y = Slot(x + m, N)
  BY <1>6, <1>7, <1>8, <1>9 DEF RingOK
<1>11. /\ Wrapped(x, c) = Slot(x + 1, N) /\ Wrapped(x, c) \in 0..N - 1
       /\ y = Slot(Wrapped(x, c) + (m - 1), N)
  BY <1>7, <1>9, <1>10 DEF Wrapped, Slot
<1>12. items \in Nat /\ items' \in Nat /\ items <= items'
  BY ChannelConstants DEF GsOK, ChanTypeOK, RecvsBuffer
<1>13. PICK b, d, z : b = t[c].buf /\ d = [b EXCEPT ![x] = 0] /\ z = Wrapped(x, c)
  OBVIOUS
<1>14. /\ b \in [0..N - 1 -> 0..MaxItems] /\ d \in [0..N - 1 -> 0..MaxItems]
       /\ \A i \in 0..N - 1 : i # x => d[i] = b[i]
  <2>1. 0 \in 0..MaxItems
    BY ChannelConstants
  <2> QED
    BY <2>1, <1>6, <1>7, <1>10, <1>13, HchanFields
<1>15. ch'[c] = Taken(h[c], d, z)
  <2>1. ch'[c] = Taken(h[c], [h[c].buf EXCEPT ![x] = 0], Wrapped(x, c))
    BY <1>1 DEF RecvsBuffer
  <2>2. d = [h[c].buf EXCEPT ![x] = 0]
    BY <1>6, <1>13
  <2> QED
    BY <2>1, <2>2, <1>13, Zenon
<1>16. /\ ch'[c].closed = t[c].closed /\ ch'[c].qcount = m - 1
       /\ ch'[c].sendx = y /\ ch'[c].recvx = z /\ ch'[c].buf = d
       /\ ch'[c].recvq = t[c].recvq /\ ch'[c].sendq = t[c].sendq
  BY <1>1, <1>6, <1>7, <1>15 DEF Hchan, Taken
<1>17. ch'[c] \in Hchan(c)
  <2>1. PICK a : a = m - 1
    OBVIOUS
  <2>2. a \in 0..dataqsiz[c] /\ z \in 0..dataqsiz[c]
    BY <2>1, <1>7, <1>9, <1>11, <1>13
  <2>3. d \in [0..dataqsiz[c] - 1 -> 0..MaxItems]
    BY <1>7, <1>14, Zenon
  <2>4. h[c].qcount - 1 = a /\ <<>> \in Seq(Sudog)
    BY <2>1, <1>6, <1>7
  <2> QED
    BY <2>2, <2>3, <2>4, <1>1, <1>15 DEF Hchan, Taken
<1>18. RingOK(ch'[c], c)
  BY <1>7, <1>9, <1>10, <1>11, <1>13, <1>16 DEF RingOK
<1>19. WaitersIn(t[c].sendq) = {} /\ WaitersIn(t[c].recvq) = {}
  <2>1. t[c].qcount # 0
    BY <1>7, <1>9
  <2> QED
    BY <2>1, <1>4, <1>6, NoWaiters DEF HchansOK, WaitOK
<1>20. CalmChannels(t)
  <2>1. \A e \in Chan : t[e] \in Hchan(e) /\ RingOK(t[e], e)
    BY <1>4 DEF HchansOK
  <2> QED
    BY <2>1, <1>5, <1>16, <1>17, <1>18, <1>19 DEF CalmChannels, OnlyAt
<1>21. Calm(g)
  BY LeaveCalm DEF RecvsBuffer
<1>22. \A e \in G : item'[e] = item[e] /\ (Won(e)' <=> Won(e))
  BY <1>12, <1>21, CalmWake
<1>23. PICK p : p = Outs(ch)'
  OBVIOUS
<1>24. PICK s : s = rcvd[c]
  OBVIOUS
<1>25. s \in Seq(Nat)
  BY <1>24, ChannelConstants DEF GsOK, ChanTypeOK
<1>26. PICK u : u = Append(s, b[x])
  OBVIOUS
<1>27. rcvd'[c] = u /\ \A e \in Chan : e # c => rcvd'[e] = rcvd[e]
  BY <1>6, <1>13, <1>24, <1>26 DEF RecvsBuffer, GsOK, ChanTypeOK
<1>28. /\ \A e \in Chan : e # c => p[e] = Outs(t)[e]
       /\ p[c] = u \o Ring(ch'[c].buf, ch'[c].recvx, ch'[c].qcount, dataqsiz[c])
  BY <1>5, <1>23, <1>27, OthersOut, Zenon
<1>29. p[c] = Outs(t)[c]
  <2>1. PopArgs(N, x, m, b, d, s)
    <3>1. \A f \in [0..N - 1 -> 0..MaxItems] : f \in [0..N - 1 -> Nat]
      BY ChannelConstants
    <3> QED
      BY <3>1, <1>9, <1>10, <1>14, <1>25 DEF PopArgs
  <2>2. Joined(Append(s, b[x]), d, Slot(x + 1, N), m - 1, N) = Joined(s, b, x, m, N)
    BY <2>1, RingPop
  <2>3. Joined(s, b, x, m, N) = Outs(t)[c]
    BY <1>6, <1>7, <1>13, <1>24, OutsAt DEF Joined
  <2>4. Joined(u, d, z, m - 1, N) = p[c]
    BY <1>7, <1>16, <1>28 DEF Joined
  <2> QED
    BY <2>2, <2>3, <2>4, <1>11, <1>13, <1>26
<1>30. p = Outs(t)
  <2>1. \A e \in Chan : p[e] = Outs(t)[e]
    BY <1>28, <1>29
  <2> QED
    BY <2>1, <1>23 DEF Outs
<1>31. OutsOK(p) /\ AfterOK(t, p)
  BY <1>4, <1>30 DEF HchansOK
<1>32. acked' = acked /\ failed' = failed
  BY DEF RecvsBuffer
<1>33. OutsOK(p)'
  BY <1>12, <1>22, <1>31, <1>32, OutsKeep
<1>34. \A e \in Chan : \A i \in WaitersIn(t[e].sendq) : \A j \in ToSet(p[e]) : j < i.item
  BY <1>31 DEF AfterOK
<1> QED
  BY <1>4, <1>12, <1>20, <1>21, <1>23, <1>33, <1>34, CalmKept

-----------------------------------------------------------------------------
(* The types, but for what the other parts of the invariant tell. *)
Typed ==
    /\ selectDone \subseteq G
    /\ pc \in [G -> {"idle", "parked", "woken", "goready"} \union Looks]
    /\ cases \in [G -> SUBSET Case] /\ item \in [G -> 0..MaxItems]
    /\ param \in [G -> [case : SUBSET Case, ok : BOOLEAN]]
    /\ readies \in [G -> SUBSET G] /\ items \in 0..MaxItems
    /\ rcvd \in [Chan -> Seq(Nat)] /\ failed \subseteq 1..MaxItems

(* The one part of the invariant gives the other. *)
LEMMA TypedAlready ==
    ASSUME ChanTypeOK
    PROVE  Typed
<1>1. \A q \in Seq(1..MaxItems) : q \in Seq(Nat)
  BY ChannelConstants
<1> QED
  BY <1>1 DEF ChanTypeOK, Typed

(* The rest of the types follow from the invariant. *)
LEMMA TypedEnough ==
    ASSUME Typed, HchansOK(ch)
    PROVE  ChanTypeOK
<1>1. OutsOK(Outs(ch)) /\ \A c \in Chan : ch[c] \in Hchan(c) /\ RingOK(ch[c], c)
  BY DEF HchansOK
<1>2. items \in 0..MaxItems
  BY DEF Typed
<1>3. ASSUME NEW c \in Chan
      PROVE  rcvd[c] \in Seq(1..MaxItems) /\ ToSet(Outs(ch)[c]) \subseteq 1..MaxItems
  <2>1. PICK p, q, r : /\ p = rcvd[c] /\ r = Outs(ch)[c]
                       /\ q = Ring(ch[c].buf, ch[c].recvx, ch[c].qcount, dataqsiz[c])
    OBVIOUS
  <2>2. p \in Seq(Nat) /\ r = p \o q
    BY <2>1, OutsAt DEF Typed
  <2>3. q \in Seq(Nat)
    <3>1. ch[c].buf \in [0..dataqsiz[c] - 1 -> Nat] /\ dataqsiz[c] \in Nat
      <4>1. ch[c].buf \in [0..dataqsiz[c] - 1 -> 0..MaxItems] /\ dataqsiz[c] \in Nat
        BY <1>1, HchanFields
      <4> QED
        BY <4>1, ChannelConstants
    <3>2. /\ ch[c].recvx \in Nat /\ ch[c].qcount \in 0..dataqsiz[c]
          /\ dataqsiz[c] > 0 => ch[c].recvx < dataqsiz[c]
      <4>1. /\ dataqsiz[c] \in Nat /\ ch[c].recvx \in 0..dataqsiz[c]
            /\ ch[c].qcount \in 0..dataqsiz[c]
        BY <1>1, HchanFields
      <4> QED
        BY <1>1, <4>1 DEF RingOK
    <3> QED
      BY <2>1, <3>1, <3>2, RingFacts
  <2>4. \A i \in 1..Len(p) : r[i] = p[i] /\ i \in 1..Len(r)
    <3>1. /\ r \in Seq(Nat) /\ Len(r) = Len(p) + Len(q)
          /\ \A i \in 1..Len(p) : r[i] = p[i]
      BY <2>2, <2>3, JoinFacts
    <3>2. Len(p) \in Nat /\ Len(q) \in Nat
      BY <2>2, <2>3
    <3> QED
      BY <3>1, <3>2
  <2>5. r \in Seq(Nat) /\ \A x \in ToSet(r) : x \in 1..items
    BY <1>1, <2>1 DEF OutsOK
  <2>6. \A i \in 1..items : i \in 1..MaxItems
    BY <1>2, ChannelConstants
  <2>7. \A i \in 1..Len(p) : p[i] \in 1..MaxItems
    BY <2>4, <2>5, <2>6, ToSetFacts
  <2>8. p \in Seq(1..MaxItems)
    <3>1. PICK S : S = 1..MaxItems
      OBVIOUS
    <3>2. PICK n : n = Len(p)
      OBVIOUS
    <3>3. DOMAIN p = 1..n /\ n \in Nat /\ p = [i \in 1..n |-> p[i]]
      BY <2>2, <3>2
    <3>4. p \in [1..n -> S]
      BY <2>7, <3>1, <3>2, <3>3
    <3>5. p \in Seq(S)
      BY <3>3, <3>4
    <3> QED
      BY <3>1, <3>5
  <2> QED
    BY <2>1, <2>5, <2>6, <2>8
<1>4. acked \subseteq 1..MaxItems
  BY <1>1, <1>3 DEF OutsOK
<1>5. rcvd \in [Chan -> Seq(1..MaxItems)]
  BY <1>3 DEF Typed
<1> QED
  BY <1>4, <1>5 DEF HchansOK, Typed, ChanTypeOK

(* Nobody starts to look, and no channel is opened. *)
Steady ==
    /\ \A c \in Chan : ch[c].closed => ch'[c].closed
    /\ \A e \in G : pc'[e] \in {"empty?", "open?", "still empty?"}
                        => pc'[e] = pc[e] /\ cases'[e] = cases[e]

(* The types after a return. *)
LEMMA LeaveTyped ==
    ASSUME Typed, NEW g \in G, Leave(g)
    PROVE  /\ pc' \in [G -> {"idle", "parked", "woken", "goready"} \union Looks]
           /\ cases' \in [G -> SUBSET Case] /\ item' \in [G -> 0..MaxItems]
           /\ \A e \in G : pc'[e] \in {"empty?", "open?", "still empty?"}
                               => pc'[e] = pc[e] /\ cases'[e] = cases[e]
<1>1. 0 \in 0..MaxItems
  BY ChannelConstants
<1> QED
  BY <1>1 DEF Typed, Leave

(* The types after a dequeue. *)
LEMMA DequeuedTyped ==
    ASSUME Typed, NEW g \in G, NEW s \in Sudog, NEW k \in Case, Dequeued(g, s, k)
    PROVE  /\ selectDone' \subseteq G
           /\ pc' \in [G -> {"idle", "parked", "woken", "goready"} \union Looks]
           /\ cases' \in [G -> SUBSET Case] /\ item' \in [G -> 0..MaxItems]
           /\ param' \in [G -> [case : SUBSET Case, ok : BOOLEAN]]
           /\ readies' \in [G -> SUBSET G]
           /\ \A e \in G : pc'[e] \in {"empty?", "open?", "still empty?"}
                               => pc'[e] = pc[e] /\ cases'[e] = cases[e]
<1>1. 0 \in 0..MaxItems /\ s.g \in G
  BY ChannelConstants DEF Sudog
<1>2. [case |-> {k}, ok |-> TRUE] \in [case : SUBSET Case, ok : BOOLEAN]
  OBVIOUS
<1>3. param' \in [G -> [case : SUBSET Case, ok : BOOLEAN]]
  BY <1>2 DEF Typed, Dequeued
<1>4. selectDone' \subseteq G /\ readies' \in [G -> SUBSET G]
  BY <1>1 DEF Typed, Dequeued
<1>5. /\ pc' \in [G -> {"idle", "parked", "woken", "goready"} \union Looks]
      /\ cases' \in [G -> SUBSET Case] /\ item' \in [G -> 0..MaxItems]
      /\ \A e \in G : pc'[e] \in {"empty?", "open?", "still empty?"}
                          => pc'[e] = pc[e] /\ cases'[e] = cases[e]
  BY <1>1 DEF Typed, Dequeued
<1> QED
  BY <1>3, <1>4, <1>5

-----------------------------------------------------------------------------
(* What a send or a receive does, h being what the channels are. *)
SendPanics(g, c, h) == h[c].closed /\ ch' = h /\ Leave(g) /\ UNCHANGED <<wake, log>>
RecvEnds(g, c, h, q) ==
    /\ q = <<>> /\ h[c].qcount = 0 /\ h[c].closed
    /\ ch' = [h EXCEPT ![c] = [h[c] EXCEPT !.sendq = <<>>]]
    /\ Leave(g) /\ UNCHANGED <<wake, log>>

(* The alternatives of DoSend. *)
LEMMA SendCases ==
    ASSUME NEW g, NEW c, NEW h, ChanTypeOK, NEW q, q = Purge(h[c].recvq), NEW x, x = h[c].sendx,
           DoSend(g, c, h)
    PROVE  SendPanics(g, c, h) \/ SendsDirect(g, c, h, q) \/ SendsBuffer(g, c, h, q, x)
  BY DEF DoSend, SendPanics, SendsDirect, SendsBuffer, Stored

(* The alternatives of DoRecv. *)
LEMMA RecvCases ==
    ASSUME NEW g, NEW c, NEW h, ChanTypeOK, NEW q, q = Purge(h[c].sendq), NEW x, x = h[c].recvx,
           DoRecv(g, c, h)
    PROVE  RecvsDirect(g, c, h, q, x) \/ RecvsBuffer(g, c, h, q, x) \/ RecvEnds(g, c, h, q)
  BY DEF DoRecv, RecvEnds, RecvsDirect, RecvsBuffer, Refilled, Taken

(* chanrecv at the end of a closed channel. *)
LEMMA RecvEnd ==
    ASSUME GsOK, NEW h, HchansOK(h), NEW g \in G, pc[g] \notin {"parked", "woken", "goready"},
           NEW c \in Chan, NEW q, q = Purge(h[c].sendq), RecvEnds(g, c, h, q)
    PROVE  Kept'
<1>1. DOMAIN h = Chan /\ h[c] \in Hchan(c)
  BY DEF HchansOK
<1>2. PICK t : t = [h EXCEPT ![c] = [h[c] EXCEPT !.sendq = <<>>]]
  OBVIOUS
<1>3. OnlyAt(c, h, t) /\ t[c] = [h[c] EXCEPT !.sendq = Purge(h[c].sendq)]
  BY <1>1, <1>2 DEF OnlyAt, RecvEnds
<1>4. HchansOK(t)
  BY <1>3, PurgeOne DEF OnlyAt
<1>5. ch' = t /\ UNCHANGED <<selectDone, param, readies, items, rcvd, acked, failed>>
  BY <1>2 DEF RecvEnds, wake, log
<1>6. Calm(g)
  BY LeaveCalm DEF RecvEnds, wake, log
<1> QED
  BY <1>4, <1>5, <1>6, Quiet DEF Calm

(* chansend on a closed channel. *)
LEMMA SendPanic ==
    ASSUME GsOK, NEW h, HchansOK(h), NEW g \in G, pc[g] \notin {"parked", "woken", "goready"},
           NEW c \in Chan, SendPanics(g, c, h)
    PROVE  Kept'
<1>1. ch' = h /\ UNCHANGED <<selectDone, param, readies, items, rcvd, acked, failed>>
  BY DEF SendPanics, wake, log
<1>2. Calm(g)
  BY LeaveCalm DEF SendPanics, wake, log
<1> QED
  BY <1>1, <1>2, Quiet DEF Calm

(* The invariant after a send or a receive, whichever way it goes. *)
LEMMA DoKept ==
    ASSUME GsOK, NEW h, HchansOK(h), NEW g \in G, pc[g] \notin {"parked", "woken", "goready"},
           NEW k \in Case, Do(g, k, h)
    PROVE  Kept'
<1>1. k.chan \in Chan /\ ChanTypeOK
  BY CaseFacts DEF GsOK
<1>2. CASE k.dir = "send"
  <2>1. DoSend(g, k.chan, h)
    BY <1>2 DEF Do
  <2>2. PICK q, x : q = Purge(h[k.chan].recvq) /\ x = h[k.chan].sendx
    OBVIOUS
  <2>3. SendPanics(g, k.chan, h) \/ SendsDirect(g, k.chan, h, q) \/ SendsBuffer(g, k.chan, h, q, x)
    BY <1>1, <2>1, <2>2, SendCases
  <2> QED
    BY <1>1, <2>2, <2>3, SendPanic, SendDirect, SendBuffer
<1>3. CASE k.dir # "send"
  <2>1. DoRecv(g, k.chan, h)
    BY <1>3 DEF Do
  <2>2. PICK q, x : q = Purge(h[k.chan].sendq) /\ x = h[k.chan].recvx
    OBVIOUS
  <2>3. \/ RecvsDirect(g, k.chan, h, q, x) \/ RecvsBuffer(g, k.chan, h, q, x)
        \/ RecvEnds(g, k.chan, h, q)
    BY <1>1, <2>1, <2>2, RecvCases
  <2> QED
    BY <1>1, <2>2, <2>3, RecvDirect, RecvBuffer, RecvEnd
<1> QED
  BY <1>2, <1>3

-----------------------------------------------------------------------------
(* Of a channel, what goes into the types. *)
LEMMA ChannelValues ==
    ASSUME NEW h, HchansOK(h), NEW c \in Chan
    PROVE  /\ \A q \in {Purge(h[c].sendq), Purge(h[c].recvq)} : q # <<>> => Head(q) \in Sudog
           /\ h[c].qcount > 0 \/ (dataqsiz[c] # 0 /\ h[c].recvx \in 0..dataqsiz[c])
                  => dataqsiz[c] # 0 /\ h[c].buf[h[c].recvx] \in Nat
<1>1. h[c] \in Hchan(c) /\ RingOK(h[c], c)
  BY DEF HchansOK
<1>2. /\ dataqsiz[c] \in Nat
      /\ h[c].qcount \in 0..dataqsiz[c] /\ h[c].recvx \in 0..dataqsiz[c]
      /\ h[c].buf \in [0..dataqsiz[c] - 1 -> 0..MaxItems]
      /\ h[c].sendq \in Seq(Sudog) /\ h[c].recvq \in Seq(Sudog)
  BY <1>1, HchanFields
<1>3. \A q \in {Purge(h[c].sendq), Purge(h[c].recvq)} : q \in Seq(Sudog)
  BY <1>2, PurgeFacts
<1>4. \A q \in {Purge(h[c].sendq), Purge(h[c].recvq)} : q # <<>> => Head(q) \in Sudog
  BY <1>3
<1>5. dataqsiz[c] > 0 => h[c].recvx \in 0..dataqsiz[c] - 1
  BY <1>1, <1>2 DEF RingOK
<1>6. dataqsiz[c] > 0 => h[c].buf[h[c].recvx] \in 0..MaxItems
  BY <1>2, <1>5
<1>7. \A y \in 0..MaxItems : y \in Nat
  BY ChannelConstants
<1>8. (h[c].qcount > 0 \/ dataqsiz[c] # 0) => dataqsiz[c] > 0 /\ dataqsiz[c] # 0
  BY <1>2
<1> QED
  BY <1>4, <1>6, <1>7, <1>8

(* One more item received. *)
LEMMA RcvdTyped ==
    ASSUME Typed, NEW c \in Chan, NEW v \in Nat, rcvd' = [rcvd EXCEPT ![c] = Append(rcvd[c], v)]
    PROVE  rcvd' \in [Chan -> Seq(Nat)]
<1>1. Append(rcvd[c], v) \in Seq(Nat) /\ rcvd \in [Chan -> Seq(Nat)]
  BY DEF Typed
<1> QED
  BY <1>1

(* A channel that is changed otherwise is as closed as before. *)
LEMMA ClosedAt ==
    ASSUME NEW h, HchansOK(h), NEW c \in Chan, NEW r, ch' = [h EXCEPT ![c] = r], r.closed = h[c].closed
    PROVE  \A d \in Chan : ch'[d].closed = h[d].closed
  BY DEF HchansOK

(* The types after a send. *)
LEMMA SendTyped ==
    ASSUME Typed, NEW h, HchansOK(h), NEW g \in G, NEW c \in Chan, DoSend(g, c, h),
           \A d \in Chan : h[d].closed = ch[d].closed, ChanTypeOK
    PROVE  Typed' /\ Steady
<1>1. h[c] \in Hchan(c) /\ items \in Nat /\ MaxItems \in Nat
  BY ChannelConstants DEF HchansOK, Typed
<1>2. PICK q, x : q = Purge(h[c].recvq) /\ x = h[c].sendx
  OBVIOUS
<1>3. SendPanics(g, c, h) \/ SendsDirect(g, c, h, q) \/ SendsBuffer(g, c, h, q, x)
  BY <1>2, SendCases
<1>4. CASE SendPanics(g, c, h)
  <2>1. /\ Leave(g) /\ ch' = h
        /\ UNCHANGED <<selectDone, param, readies, items, rcvd, acked, failed>>
    BY <1>4 DEF SendPanics, wake, log
  <2> QED
    BY <2>1, LeaveTyped DEF Typed, Steady
<1>5. CASE SendsDirect(g, c, h, q)
  <2>1. Head(q) \in Sudog /\ Recv(c) \in Case /\ Dequeued(g, Head(q), Recv(c))
    BY <1>2, <1>5, ChannelValues, CaseFacts DEF SendsDirect
  <2>2. items' \in 0..MaxItems /\ items + 1 \in Nat /\ failed' = failed
    BY <1>1, <1>5 DEF SendsDirect
  <2>3. rcvd' \in [Chan -> Seq(Nat)]
    BY <1>5, <2>2, RcvdTyped DEF SendsDirect
  <2>4. \A d \in Chan : ch'[d].closed = h[d].closed
    <3>1. [h[c] EXCEPT !.recvq = Tail(q)].closed = h[c].closed
      BY <1>1 DEF Hchan
    <3> QED
      BY <1>5, <3>1, ClosedAt DEF SendsDirect
  <2> QED
    BY <2>1, <2>2, <2>3, <2>4, DequeuedTyped DEF Typed, Steady
<1>6. CASE SendsBuffer(g, c, h, q, x)
  <2>1. Leave(g) /\ UNCHANGED <<selectDone, param, readies, rcvd, failed>>
    BY <1>6 DEF SendsBuffer, wake
  <2>2. items' \in 0..MaxItems
    BY <1>1, <1>6 DEF SendsBuffer
  <2>3. \A d \in Chan : ch'[d].closed = h[d].closed
    <3>1. \A b, y : Stored(h[c], b, y).closed = h[c].closed
      BY <1>1 DEF Hchan, Stored
    <3> QED
      BY <1>6, <3>1, ClosedAt DEF SendsBuffer
  <2> QED
    BY <2>1, <2>2, <2>3, LeaveTyped DEF Typed, Steady
<1> QED
  BY <1>3, <1>4, <1>5, <1>6

(* The types after a receive. *)
LEMMA RecvTyped ==
    ASSUME Typed, NEW h, HchansOK(h), NEW g \in G, NEW c \in Chan, DoRecv(g, c, h),
           \A d \in Chan : h[d].closed = ch[d].closed, ChanTypeOK
    PROVE  Typed' /\ Steady
<1>1. h[c] \in Hchan(c) /\ dataqsiz[c] \in Nat /\ h[c].recvx \in 0..dataqsiz[c]
  BY HchanFields DEF HchansOK
<1>2. PICK q, x : q = Purge(h[c].sendq) /\ x = h[c].recvx
  OBVIOUS
<1>3. RecvsDirect(g, c, h, q, x) \/ RecvsBuffer(g, c, h, q, x) \/ RecvEnds(g, c, h, q)
  BY <1>2, RecvCases
<1>4. CASE RecvsDirect(g, c, h, q, x)
  <2>1. Head(q) \in Sudog /\ Send(c) \in Case /\ Dequeued(g, Head(q), Send(c))
    BY <1>2, <1>4, ChannelValues, CaseFacts DEF RecvsDirect
  <2>2. UNCHANGED <<items, acked, failed>>
    BY <1>4 DEF RecvsDirect
  <2>3. PICK v : v = IF dataqsiz[c] = 0 THEN Head(q).item ELSE h[c].buf[x]
    OBVIOUS
  <2>4. v \in Nat
    <3>1. Head(q).item \in Nat
      BY <2>1, ChannelConstants DEF Sudog
    <3>2. dataqsiz[c] # 0 => h[c].buf[x] \in Nat
      BY <1>1, <1>2, ChannelValues
    <3> QED
      BY <2>3, <3>1, <3>2
  <2>5. rcvd' \in [Chan -> Seq(Nat)]
    BY <1>4, <2>3, <2>4, RcvdTyped DEF RecvsDirect
  <2>6. \A d \in Chan : ch'[d].closed = h[d].closed
    <3>1. [h[c] EXCEPT !.sendq = Tail(q)].closed = h[c].closed
      BY <1>1 DEF Hchan
    <3>2. \A b, y : Refilled(h[c], Tail(q), b, y).closed = h[c].closed
      BY <1>1 DEF Hchan, Refilled
    <3>3. PICK r : r = IF dataqsiz[c] = 0 THEN [h[c] EXCEPT !.sendq = Tail(q)]
                       ELSE Refilled(h[c], Tail(q), [h[c].buf EXCEPT ![x] = Head(q).item],
                                     Wrapped(x, c))
      OBVIOUS
    <3>4. ch' = [h EXCEPT ![c] = r]
      BY <1>4, <3>3 DEF RecvsDirect
    <3>5. r.closed = h[c].closed
      BY <3>1, <3>2, <3>3
    <3> QED
      BY <3>4, <3>5, ClosedAt
  <2> QED
    BY <2>1, <2>2, <2>5, <2>6, DequeuedTyped DEF Typed, Steady
<1>5. CASE RecvsBuffer(g, c, h, q, x)
  <2>1. Leave(g) /\ UNCHANGED <<selectDone, param, readies, items, acked, failed>>
    BY <1>5 DEF RecvsBuffer, wake
  <2>2. h[c].buf[x] \in Nat
    BY <1>2, <1>5, ChannelValues DEF RecvsBuffer
  <2>3. rcvd' \in [Chan -> Seq(Nat)]
    BY <1>5, <2>2, RcvdTyped DEF RecvsBuffer
  <2>4. \A d \in Chan : ch'[d].closed = h[d].closed
    <3>1. \A b, y : Taken(h[c], b, y).closed = h[c].closed
      BY <1>1 DEF Hchan, Taken
    <3> QED
      BY <1>5, <3>1, ClosedAt DEF RecvsBuffer
  <2> QED
    BY <2>1, <2>3, <2>4, LeaveTyped DEF Typed, Steady
<1>6. CASE RecvEnds(g, c, h, q)
  <2>1. Leave(g) /\ UNCHANGED <<selectDone, param, readies, items, rcvd, acked, failed>>
    BY <1>6 DEF RecvEnds, wake, log
  <2>2. \A d \in Chan : ch'[d].closed = h[d].closed
    <3>1. [h[c] EXCEPT !.sendq = <<>>].closed = h[c].closed
      BY <1>1 DEF Hchan
    <3> QED
      BY <1>6, <3>1, ClosedAt DEF RecvEnds
  <2> QED
    BY <2>1, <2>2, LeaveTyped DEF Typed, Steady
<1> QED
  BY <1>3, <1>4, <1>5, <1>6

(* What an action keeps. *)
Good == Kept' /\ Typed' /\ Steady

(* The invariant without what is seen by those that look. *)
Held == ChanTypeOK /\ (\A e \in G : GoroutineOK(e)) /\ ApartOK /\ HchansOK(ch)

(* The parts of Held. *)
LEMMA HeldFacts ==
    ASSUME Held
    PROVE  GsOK /\ Typed /\ Kept
  BY TypedAlready DEF Held, GsOK, Kept

(* Sends and receives of calls and selects. *)
LEMMA DoGood ==
    ASSUME Held, NEW t, Thinned(ch, t), NEW g \in G, pc[g] \notin {"parked", "woken", "goready"},
           NEW k \in Case, Do(g, k, t)
    PROVE  Good
<1>1. HchansOK(t) /\ \A d \in Chan : t[d].closed = ch[d].closed
  BY ThinnedOK DEF Held, Thinned
<1>2. Kept'
  BY <1>1, DoKept, HeldFacts
<1>3. Typed' /\ Steady
  BY <1>1, SendTyped, RecvTyped, HeldFacts, CaseFacts DEF Do, Held
<1> QED
  BY <1>2, <1>3 DEF Good

(* No channel is purged. *)
LEMMA ThinnedSelf ==
    ASSUME Held
    PROVE  Thinned(ch, ch)
  BY DEF Held, HchansOK, Thinned, Swept

-----------------------------------------------------------------------------
(* Somebody queues. *)

(* The sudog s of g is put into the queues of ks; t is what the channels are. *)
Queues(g, ks, s, t) ==
    /\ DOMAIN ch' = Chan
    /\ \A c \in Chan :
           /\ ch'[c] \in Hchan(c) /\ ch'[c].closed = t[c].closed /\ ch'[c].qcount = t[c].qcount
           /\ ch'[c].sendx = t[c].sendx /\ ch'[c].recvx = t[c].recvx /\ ch'[c].buf = t[c].buf
    /\ \A k \in Case : Line(ch', k) = IF k \in ks THEN Append(Line(t, k), s) ELSE Line(t, k)

(* g was idle and parks. *)
Parks(g, ks, s) ==
    /\ pc[g] = "idle" /\ pc' = [pc EXCEPT ![g] = "parked"]
    /\ cases' = [cases EXCEPT ![g] = ks] /\ item' = [item EXCEPT ![g] = s.item]
    /\ UNCHANGED <<selectDone, param, readies, rcvd, acked, failed>>
    /\ s \in Sudog /\ s.g = g /\ (s.isSelect \/ \E k \in ks : ks = {k}) /\ ks \subseteq Case
    /\ items' \in 0..MaxItems /\ items <= items' /\ items \in Nat
    /\ IF Sends(ks) THEN s.item = items + 1 /\ items' = items + 1 ELSE s.item = 0

(* Enqueue in the terms of the goroutine and of the queues. *)
LEMMA EnqueueQueues ==
    ASSUME Held, NEW g \in G, NEW ks \in SUBSET Case, NEW isSelect \in BOOLEAN,
           isSelect \/ \E k \in ks : ks = {k}, pc[g] = "idle", Enqueue(g, ks, isSelect)
    PROVE  \E s : Parks(g, ks, s) /\ Queues(g, ks, s, Purged(ks))
<1>1. PICK i : i = IF Sends(ks) THEN items + 1 ELSE 0
  OBVIOUS
<1>2. PICK s : s = [g |-> g, item |-> i, isSelect |-> isSelect]
  OBVIOUS
<1>3. items \in 0..MaxItems /\ MaxItems \in Nat
  BY ChannelConstants DEF Held, ChanTypeOK
<1>4. Sends(ks) => items < MaxItems
  BY DEF Enqueue, Sends
<1>5. i \in 0..MaxItems
  BY <1>1, <1>3, <1>4
<1>6. s \in Sudog /\ s.g = g /\ s.item = i /\ s.isSelect = isSelect
  BY <1>2, <1>5 DEF Sudog
<1>7. items' = IF Sends(ks) THEN items + 1 ELSE items
  BY DEF Enqueue, Sends
<1>8. PICK t : t = Purged(ks)
  OBVIOUS
<1>9. \A c \in Chan : t[c] \in Hchan(c)
  BY <1>8, PurgedThinned DEF Held, Thinned
<1>10. ch' = [c \in Chan |-> [t[c] EXCEPT
               !.sendq = IF Send(c) \in ks THEN Append(t[c].sendq, s) ELSE t[c].sendq,
               !.recvq = IF Recv(c) \in ks THEN Append(t[c].recvq, s) ELSE t[c].recvq]]
  BY <1>1, <1>2, <1>8 DEF Enqueue, Sends
<1>11. Parks(g, ks, s)
  <2>1. item' = [item EXCEPT ![g] = i]
    BY <1>1 DEF Enqueue, Sends
  <2>2. items' \in 0..MaxItems /\ items <= items' /\ items \in Nat
    BY <1>3, <1>4, <1>7
  <2>3. /\ pc' = [pc EXCEPT ![g] = "parked"] /\ cases' = [cases EXCEPT ![g] = ks]
        /\ UNCHANGED <<selectDone, param, readies, rcvd, acked, failed>>
    BY DEF Enqueue, wake
  <2> QED
    BY <2>1, <2>2, <2>3, <1>1, <1>6, <1>7 DEF Parks
<1>12. ASSUME NEW c \in Chan
       PROVE  /\ ch'[c] \in Hchan(c) /\ ch'[c].closed = t[c].closed /\ ch'[c].qcount = t[c].qcount
              /\ ch'[c].sendx = t[c].sendx /\ ch'[c].recvx = t[c].recvx /\ ch'[c].buf = t[c].buf
              /\ ch'[c].sendq = IF Send(c) \in ks THEN Append(t[c].sendq, s) ELSE t[c].sendq
              /\ ch'[c].recvq = IF Recv(c) \in ks THEN Append(t[c].recvq, s) ELSE t[c].recvq
  <2>1. PICK p, q : /\ p = IF Send(c) \in ks THEN Append(t[c].sendq, s) ELSE t[c].sendq
                    /\ q = IF Recv(c) \in ks THEN Append(t[c].recvq, s) ELSE t[c].recvq
    OBVIOUS
  <2>2. p \in Seq(Sudog) /\ q \in Seq(Sudog)
    BY <2>1, <1>6, <1>9, HchanFields
  <2>3. ch'[c] = [t[c] EXCEPT !.sendq = p, !.recvq = q]
    BY <2>1, <1>10
  <2>4. t[c] \in Hchan(c)
    BY <1>9
  <2>5. /\ ch'[c] \in Hchan(c) /\ ch'[c].closed = t[c].closed /\ ch'[c].qcount = t[c].qcount
        /\ ch'[c].sendx = t[c].sendx /\ ch'[c].recvx = t[c].recvx /\ ch'[c].buf = t[c].buf
        /\ ch'[c].sendq = p /\ ch'[c].recvq = q
    BY <2>2, <2>3, <2>4 DEF Hchan
  <2> QED
    BY <2>1, <2>5
<1>13. ASSUME NEW k \in Case
       PROVE  Line(ch', k) = IF k \in ks THEN Append(Line(t, k), s) ELSE Line(t, k)
  <2>1. PICK c \in Chan : k = Send(c) \/ k = Recv(c)
    BY CaseFacts
  <2>2. /\ Line(ch', Send(c)) = ch'[c].sendq /\ Line(ch', Recv(c)) = ch'[c].recvq
        /\ Line(t, Send(c)) = t[c].sendq /\ Line(t, Recv(c)) = t[c].recvq
    BY LineOf
  <2>3. /\ ch'[c].sendq = IF Send(c) \in ks THEN Append(t[c].sendq, s) ELSE t[c].sendq
        /\ ch'[c].recvq = IF Recv(c) \in ks THEN Append(t[c].recvq, s) ELSE t[c].recvq
    BY <1>12
  <2>4. CASE k = Send(c)
    BY <2>2, <2>3, <2>4, Zenon
  <2>5. CASE k = Recv(c)
    BY <2>2, <2>3, <2>5, Zenon
  <2> QED
    BY <2>1, <2>4, <2>5
<1>14. Queues(g, ks, s, t)
  <2>1. DOMAIN ch' = Chan
    BY <1>10
  <2> QED
    BY <2>1, <1>12, <1>13 DEF Queues
<1> QED
  BY <1>8, <1>11, <1>14

(* What the others see of it. *)
LEMMA ParksView ==
    ASSUME Held, NEW g \in G, NEW ks, NEW s, Parks(g, ks, s)
    PROVE  /\ pc'[g] = "parked" /\ cases'[g] = ks /\ item'[g] = s.item
           /\ g \notin selectDone /\ ~Notified(g) /\ ~Notified(g)' /\ Sleeps(g)'
           /\ \A e \in G : e # g => /\ pc'[e] = pc[e] /\ cases'[e] = cases[e] /\ item'[e] = item[e]
                                    /\ (Sleeps(e)' <=> Sleeps(e))
           /\ \A e \in G : /\ Awake(e)' <=> Awake(e)
                           /\ Notified(e)' <=> Notified(e)
                           /\ Won(e)' <=> Won(e)
           /\ readies[g] = {}
<1>1. /\ pc'[g] = "parked" /\ cases'[g] = ks /\ item'[g] = s.item
      /\ \A e \in G : e # g => /\ pc'[e] = pc[e] /\ cases'[e] = cases[e] /\ item'[e] = item[e]
  BY DEF Parks, Held, ChanTypeOK
<1>2. g \notin selectDone /\ ~Awake(g) /\ ~Notified(g) /\ readies[g] = {}
  BY DEF Parks, Held, GoroutineOK, Notified
<1>3. UNCHANGED <<selectDone, param, readies>>
  BY DEF Parks
<1>4. \A e \in G : Awake(e)' <=> Awake(e)
  BY <1>3 DEF Awake
<1>5. \A e \in G : Notified(e)' <=> Notified(e)
  BY <1>1, <1>2, <1>4 DEF Notified
<1>6. \A e \in G : Won(e)' <=> Won(e)
  BY <1>3, <1>5 DEF Won
<1>7. Sleeps(g)' /\ \A e \in G : e # g => (Sleeps(e)' <=> Sleeps(e))
  BY <1>1, <1>2, <1>3, <1>4 DEF Sleeps
<1> QED
  BY <1>1, <1>2, <1>4, <1>5, <1>6, <1>7

(* The goroutines after one has parked. *)
LEMMA ParksGoroutines ==
    ASSUME Held, NEW g \in G, NEW ks, NEW s, Parks(g, ks, s)
    PROVE  (\A e \in G : GoroutineOK(e)') /\ ApartOK'
<1>1. /\ pc'[g] = "parked" /\ cases'[g] = ks /\ item'[g] = s.item
      /\ g \notin selectDone /\ ~Notified(g) /\ ~Notified(g)' /\ Sleeps(g)'
      /\ \A e \in G : e # g => /\ pc'[e] = pc[e] /\ cases'[e] = cases[e] /\ item'[e] = item[e]
                               /\ (Sleeps(e)' <=> Sleeps(e))
      /\ \A e \in G : /\ Awake(e)' <=> Awake(e)
                      /\ Notified(e)' <=> Notified(e)
                      /\ Won(e)' <=> Won(e)
      /\ readies[g] = {}
  BY ParksView
<1>2. UNCHANGED <<selectDone, param, readies, failed>> /\ items \in Nat /\ items' \in Nat /\ items <= items'
  BY ChannelConstants DEF Parks
<1>3. \A x \in failed : x \in Nat /\ x # 0 /\ x <= items
  BY ChannelConstants DEF Held, ChanTypeOK, HchansOK, OutsOK
<1>4. \A e \in G : item[e] \in Nat /\ item[e] <= items
  BY ChannelConstants DEF Held, ChanTypeOK, GoroutineOK
<1>5. ASSUME NEW e \in G
      PROVE  GoroutineOK(e)'
  <2>1. CASE e = g
    <3>1. s.item <= items' /\ s.item \notin failed /\ (s.item # 0 <=> Sends(ks))
      BY <1>2, <1>3 DEF Parks
    <3>2. Sends(cases[g])' <=> Sends(ks)
      BY <1>1 DEF Sends
    <3>3. ~Awake(g)'
      BY <1>1 DEF Notified
    <3> QED
      BY <2>1, <3>1, <3>2, <3>3, <1>1, <1>2 DEF GoroutineOK
  <2>2. CASE e # g
    <3>1. GoroutineOK(e)
      BY DEF Held
    <3>2. Sends(cases[e])' <=> Sends(cases[e])
      BY <2>2, <1>1 DEF Sends
    <3>3. item'[e] <= items'
      BY <2>2, <1>1, <1>2, <1>4
    <3> QED
      BY <2>2, <3>1, <3>2, <3>3, <1>1, <1>2 DEF GoroutineOK
  <2> QED
    BY <2>1, <2>2
<1>6. ApartOK'
  <2>1. \A e \in G : e # g => item'[e] # item'[g] \/ item'[g] = 0
    <3>1. s.item = 0 \/ s.item = items + 1
      BY DEF Parks
    <3> QED
      BY <3>1, <1>1, <1>2, <1>4
  <2>2. \A d, e \in G : item'[d] = item'[e] /\ item'[d] # 0 => d = e
    BY <2>1, <1>1 DEF Held, ApartOK
  <2> QED
    BY <2>2, <1>2 DEF Held, ApartOK
<1> QED
  BY <1>5, <1>6

(* A queue of a case in ks gets the sudog, the others stay. *)
Lengthened(p, q, k, ks, s) == p = IF k \in ks THEN Append(q, s) ELSE q

(* A queue after one has parked. *)
LEMMA ParksLine ==
    ASSUME Held, NEW g \in G, NEW ks, NEW s, Parks(g, ks, s), NEW k \in Case,
           NEW q \in Seq(Sudog), LineOK(q, k), NEW p, Lengthened(p, q, k, ks, s)
    PROVE  /\ \A x : x \in ToSet(p) <=> x \in ToSet(q) \/ (k \in ks /\ x = s)
           /\ \A x \in ToSet(p) : SudogOK(x, k)' /\ (Live(x)' <=> Live(x) \/ x = s)
           /\ InOrder(p, k) /\ Live(s)
           /\ \A e \in G : Sleeps(e)' /\ k \in cases'[e] => \E x \in ToSet(p) : x.g = e
<1>1. /\ pc'[g] = "parked" /\ cases'[g] = ks /\ item'[g] = s.item
      /\ g \notin selectDone /\ ~Notified(g) /\ ~Notified(g)' /\ Sleeps(g)'
      /\ \A e \in G : e # g => /\ pc'[e] = pc[e] /\ cases'[e] = cases[e] /\ item'[e] = item[e]
                               /\ (Sleeps(e)' <=> Sleeps(e))
  BY ParksView
<1>2. s \in Sudog /\ s.g = g /\ selectDone' = selectDone /\ (s.isSelect \/ \E j \in ks : ks = {j})
  BY DEF Parks
<1>3. p \in Seq(Sudog) /\ \A x : x \in ToSet(p) <=> x \in ToSet(q) \/ (k \in ks /\ x = s)
  <2>1. Append(q, s) \in Seq(Sudog) /\ ToSet(Append(q, s)) = ToSet(q) \union {s}
    BY <1>2, PushFacts
  <2> QED
    BY <2>1 DEF Lengthened
<1>4. ASSUME NEW x \in ToSet(q)
      PROVE  x.g \in G /\ x.g # g /\ SudogOK(x, k)
  <2>1. x \in Sudog /\ SudogOK(x, k)
    BY ToSetFacts DEF LineOK
  <2>2. pc[g] = "idle"
    BY DEF Parks
  <2> QED
    BY <2>1, <2>2 DEF SudogOK, Sudog
<1>5. \A x : Live(x)' <=> Live(x)
  BY <1>2 DEF Live
<1>6. ASSUME NEW x \in ToSet(q)
      PROVE  SudogOK(x, k)'
  BY <1>1, <1>4, <1>5 DEF SudogOK
<1>7. ASSUME k \in ks
      PROVE  SudogOK(s, k)'
  <2>1. ~s.isSelect => ks = {k}
    BY <1>2, <1>7
  <2> QED
    BY <2>1, <1>1, <1>2, <1>7 DEF SudogOK
<1>8. InOrder(p, k)
  <2>1. CASE k \in ks
    <3>1. k.dir = "send" => s.item = items + 1
      BY <2>1 DEF Parks, Sends
    <3>2. ASSUME NEW x \in ToSet(q)
          PROVE  x.item \in Nat /\ x.item <= items
      BY <1>4 DEF SudogOK, Held, GoroutineOK, ChanTypeOK
    <3>3. items \in Nat
      BY DEF Parks
    <3>4. \A x \in ToSet(q) : x.g # s.g /\ (k.dir = "send" => x.item < s.item)
      BY <3>1, <3>2, <3>3, <1>2, <1>4
    <3>5. InOrder(q, k)
      BY DEF LineOK
    <3>6. InOrder(Append(q, s), k)
      BY <3>4, <3>5, <1>2, PushInOrder
    <3> QED
      BY <2>1, <3>6 DEF Lengthened
  <2>2. CASE k \notin ks
    BY <2>2 DEF LineOK, Lengthened
  <2> QED
    BY <2>1, <2>2
<1>9. ASSUME NEW e \in G, Sleeps(e)', k \in cases'[e]
      PROVE  \E x \in ToSet(p) : x.g = e
  <2>1. CASE e = g
    BY <2>1, <1>1, <1>2, <1>3, <1>9
  <2>2. CASE e # g
    <3>1. \E x \in ToSet(q) : x.g = e
      BY <2>2, <1>1, <1>9 DEF LineOK
    <3> QED
      BY <3>1, <1>3
  <2> QED
    BY <2>1, <2>2
<1>10. \A x \in ToSet(p) : SudogOK(x, k)'
  BY <1>3, <1>6, <1>7
<1>11. Live(s)
  BY <1>1, <1>2 DEF Live
<1> QED
  BY <1>3, <1>5, <1>8, <1>9, <1>10, <1>11

-----------------------------------------------------------------------------
(* What it says of a channel that a case is not ready. *)
LEMMA NotReady ==
    ASSUME Held, NEW c \in Chan
    PROVE  /\ ~Ready(Send(c)) => /\ ~ch[c].closed /\ WaitersIn(ch[c].recvq) = {}
                                 /\ ch[c].qcount = dataqsiz[c]
           /\ ~Ready(Recv(c)) => /\ ~ch[c].closed /\ WaitersIn(ch[c].sendq) = {}
                                 /\ ch[c].qcount = 0
           /\ ~Ready(Recv(c)) <=> ~ch[c].closed /\ Purge(ch[c].sendq) = <<>> /\ ch[c].qcount = 0
<1>1. /\ dataqsiz[c] \in Nat /\ ch[c].qcount \in 0..dataqsiz[c]
      /\ ch[c].sendq \in Seq(Sudog) /\ ch[c].recvq \in Seq(Sudog)
  BY HchanFields DEF Held, HchansOK
<1>2. /\ Purge(ch[c].sendq) = <<>> <=> WaitersIn(ch[c].sendq) = {}
      /\ Purge(ch[c].recvq) = <<>> <=> WaitersIn(ch[c].recvq) = {}
  BY <1>1, PurgeWaiters
<1>3. Ready(Send(c)) <=> ch[c].closed \/ Purge(ch[c].recvq) # <<>> \/ ch[c].qcount < dataqsiz[c]
  BY CaseFacts DEF Ready
<1>4. Ready(Recv(c)) <=> ch[c].closed \/ Purge(ch[c].sendq) # <<>> \/ ch[c].qcount > 0
  BY CaseFacts DEF Ready
<1>5. ~(ch[c].qcount < dataqsiz[c]) => ch[c].qcount = dataqsiz[c]
  BY <1>1
<1>6. ~(ch[c].qcount > 0) <=> ch[c].qcount = 0
  BY <1>1
<1> QED
  BY <1>2, <1>3, <1>4, <1>5, <1>6

(* Who parks on channels that are not ready waits in vain, behind the others. *)
LEMMA EnqueueKept ==
    ASSUME Held, NEW g \in G, NEW ks \in SUBSET Case, NEW t, Thinned(ch, t),
           \A k \in ks : ~Ready(k), NEW s, Parks(g, ks, s), Queues(g, ks, s, t)
    PROVE  Kept'
<1>1. HchansOK(t) /\ Outs(t) = Outs(ch)
  BY ThinnedOK DEF Held
<1>2. \A c \in Chan : ch[c].sendq \in Seq(Sudog) /\ ch[c].recvq \in Seq(Sudog)
  BY HchanFields DEF Held, HchansOK
<1>3. \A c \in Chan : /\ t[c].closed = ch[c].closed /\ t[c].qcount = ch[c].qcount
                      /\ WaitersIn(t[c].sendq) = WaitersIn(ch[c].sendq)
                      /\ WaitersIn(t[c].recvq) = WaitersIn(ch[c].recvq)
  BY <1>2, SweptFacts DEF Thinned
<1>4. ASSUME NEW k \in Case
      PROVE  /\ LineOK(Line(ch, k), k)'
             /\ \A x : x \in WaitersIn(Line(ch, k))'
                           <=> x \in WaitersIn(Line(t, k)) \/ (k \in ks /\ x = s)
  <2>1. PICK q : q = Line(t, k)
    OBVIOUS
  <2>2. PICK p : p = Line(ch', k)
    OBVIOUS
  <2>3. q \in Seq(Sudog) /\ LineOK(q, k)
    BY <1>1, <2>1, LineType DEF HchansOK
  <2>4. Lengthened(p, q, k, ks, s)
    BY <2>1, <2>2 DEF Queues, Lengthened
  <2>5. /\ \A x : x \in ToSet(p) <=> x \in ToSet(q) \/ (k \in ks /\ x = s)
        /\ \A x \in ToSet(p) : SudogOK(x, k)' /\ (Live(x)' <=> Live(x) \/ x = s)
        /\ InOrder(p, k) /\ Live(s)
        /\ \A e \in G : Sleeps(e)' /\ k \in cases'[e] => \E x \in ToSet(p) : x.g = e
    BY <2>3, <2>4, ParksLine
  <2>6. LineOK(Line(ch, k), k)'
    BY <2>2, <2>5 DEF LineOK
  <2>7. WaitersIn(Line(ch, k))' = {x \in ToSet(p) : Live(x)'}
    BY <2>2 DEF WaitersIn
  <2>8. WaitersIn(Line(t, k)) = {x \in ToSet(q) : Live(x)}
    BY <2>1 DEF WaitersIn
  <2> QED
    BY <2>5, <2>6, <2>7, <2>8
<1>5. ASSUME NEW c \in Chan
      PROVE  /\ \A x : x \in WaitersIn(ch[c].sendq)'
                           <=> x \in WaitersIn(ch[c].sendq) \/ (Send(c) \in ks /\ x = s)
             /\ \A x : x \in WaitersIn(ch[c].recvq)'
                           <=> x \in WaitersIn(ch[c].recvq) \/ (Recv(c) \in ks /\ x = s)
  <2>1. /\ Line(ch', Send(c)) = ch'[c].sendq /\ Line(ch', Recv(c)) = ch'[c].recvq
        /\ Line(t, Send(c)) = t[c].sendq /\ Line(t, Recv(c)) = t[c].recvq
    BY LineOf
  <2>2. Send(c) \in Case /\ Recv(c) \in Case
    BY CaseFacts
  <2>3. WaitersIn(Line(ch, Send(c)))' = WaitersIn(ch[c].sendq)'
    BY <2>1 DEF WaitersIn
  <2>4. WaitersIn(Line(ch, Recv(c)))' = WaitersIn(ch[c].recvq)'
    BY <2>1 DEF WaitersIn
  <2>5. /\ WaitersIn(Line(t, Send(c))) = WaitersIn(ch[c].sendq)
        /\ WaitersIn(Line(t, Recv(c))) = WaitersIn(ch[c].recvq)
    BY <2>1, <1>3
  <2> QED
    BY <2>2, <2>3, <2>4, <2>5, <1>4
<1>6. ASSUME NEW c \in Chan
      PROVE  /\ Send(c) \in ks => /\ ~ch[c].closed /\ WaitersIn(ch[c].recvq) = {}
                                  /\ ch[c].qcount = dataqsiz[c]
             /\ Recv(c) \in ks => /\ ~ch[c].closed /\ WaitersIn(ch[c].sendq) = {}
                                  /\ ch[c].qcount = 0
  BY NotReady
<1>7. ASSUME NEW c \in Chan
      PROVE  WaitOK(ch[c], c)'
  <2>1. ch'[c].closed = ch[c].closed /\ ch'[c].qcount = ch[c].qcount
    BY <1>3 DEF Queues
  <2>2. WaitOK(ch[c], c)
    BY DEF Held, HchansOK
  <2>3. ch'[c].closed => ch'[c].sendq = <<>> /\ ch'[c].recvq = <<>>
    <3> SUFFICES ASSUME ch'[c].closed PROVE ch'[c].sendq = <<>> /\ ch'[c].recvq = <<>>
      OBVIOUS
    <3>1. Send(c) \notin ks /\ Recv(c) \notin ks
      BY <2>1, <1>6
    <3>2. t[c].sendq = <<>> /\ t[c].recvq = <<>>
      BY <2>1, <1>1, <1>3 DEF HchansOK, WaitOK
    <3>3. Line(ch', Send(c)) = Line(t, Send(c)) /\ Line(ch', Recv(c)) = Line(t, Recv(c))
      BY <3>1, CaseFacts DEF Queues
    <3> QED
      BY <3>2, <3>3, LineOf
  <2>4. ASSUME NEW x, x \in WaitersIn(ch[c].sendq)'
        PROVE  ch'[c].qcount = dataqsiz[c] /\ \A e \in WaitersIn(ch[c].recvq)' : e.g = x.g
    <3>1. x \in WaitersIn(ch[c].sendq) \/ (Send(c) \in ks /\ x = s)
      BY <2>4, <1>5
    <3>2. \A e \in WaitersIn(ch[c].recvq)' :
              e \in WaitersIn(ch[c].recvq) \/ (Recv(c) \in ks /\ e = s)
      BY <1>5
    <3> QED
      BY <2>1, <2>2, <3>1, <3>2, <1>6 DEF WaitOK
  <2>5. ASSUME NEW x, x \in WaitersIn(ch[c].recvq)'
        PROVE  ch'[c].qcount = 0
    BY <2>1, <2>2, <2>5, <1>5, <1>6 DEF WaitOK
  <2> QED
    BY <2>3, <2>4, <2>5 DEF WaitOK
<1>8. PICK o : o = Outs(ch)'
  OBVIOUS
<1>9. o = Outs(ch)
  <2>1. o = Outs(t)
    BY <1>8 DEF Outs, Queues, Parks
  <2> QED
    BY <2>1, <1>1
<1>10. OutsOK(o)'
  <2>1. OutsOK(o)
    BY <1>9 DEF Held, HchansOK
  <2>2. /\ item'[g] = s.item /\ ~Notified(g) /\ ~Notified(g)'
        /\ \A e \in G : e # g => item'[e] = item[e]
        /\ \A e \in G : Won(e)' <=> Won(e)
    BY ParksView
  <2>3. item'[g] = 0 \/ item'[g] > items
    BY <2>2 DEF Parks
  <2>4. items' \in Nat /\ items <= items' /\ acked' = acked /\ failed' = failed
    BY ChannelConstants DEF Parks
  <2>5. \A e \in G : Won(e)' => Won(e) /\ item'[e] = item[e]
    BY <2>2 DEF Won
  <2>6. \A e \in G : \/ item'[e] = 0 \/ item'[e] > items
                     \/ item'[e] = item[e] /\ (Won(e) => Won(e)')
    BY <2>2, <2>3
  <2> QED
    BY <2>1, <2>4, <2>5, <2>6, OutsKeep, HeldFacts
<1>11. ASSUME NEW c \in Chan, NEW x, x \in WaitersIn(ch[c].sendq)', NEW y \in ToSet(o[c])
       PROVE  y < x.item
  <2>1. CASE x \in WaitersIn(ch[c].sendq)
    BY <2>1, <1>9 DEF Held, HchansOK, AfterOK
  <2>2. CASE Send(c) \in ks /\ x = s
    <3>1. x.item = items + 1 /\ items \in Nat
      BY <2>2, CaseFacts DEF Parks, Sends
    <3>2. y \in 1..items
      BY <1>9 DEF Held, HchansOK, OutsOK
    <3> QED
      BY <3>1, <3>2
  <2> QED
    BY <2>1, <2>2, <1>5, <1>11
<1>12. AfterOK(ch, Outs(ch))'
  BY <1>8, <1>11 DEF AfterOK
<1>13. OutsOK(Outs(ch))'
  BY <1>8, <1>10 DEF OutsOK
<1>14. \A c \in Chan : RingOK(ch[c], c)'
  BY <1>1 DEF HchansOK, Queues, RingOK
<1>15. DOMAIN ch' = Chan /\ \A c \in Chan : (ch[c] \in Hchan(c))'
  BY DEF Queues, Hchan
<1>16. HchansOK(ch)'
  BY <1>4, <1>7, <1>12, <1>13, <1>14, <1>15 DEF HchansOK
<1> QED
  BY <1>16, ParksGoroutines DEF Kept

(* Parking keeps the invariant. *)
LEMMA EnqueueGood ==
    ASSUME Held, NEW g \in G, NEW ks \in SUBSET Case, NEW isSelect \in BOOLEAN,
           isSelect \/ \E k \in ks : ks = {k}, pc[g] = "idle", Enqueue(g, ks, isSelect),
           \A k \in ks : ~Ready(k)
    PROVE  Good
<1>1. PICK s : Parks(g, ks, s) /\ Queues(g, ks, s, Purged(ks))
  BY EnqueueQueues
<1>2. Thinned(ch, Purged(ks))
  BY PurgedThinned DEF Held
<1>3. Kept'
  BY <1>1, <1>2, EnqueueKept
<1>4. Typed'
  <2>1. Typed /\ s.item \in 0..MaxItems /\ items' \in 0..MaxItems
    BY <1>1, HeldFacts DEF Parks, Sudog
  <2> QED
    BY <1>1, <2>1 DEF Typed, Parks
<1>5. Steady
  <2>1. \A c \in Chan : ch'[c].closed = ch[c].closed
    BY <1>1, <1>2 DEF Queues, Thinned
  <2>2. pc'[g] = "parked" /\ \A e \in G : e # g => pc'[e] = pc[e] /\ cases'[e] = cases[e]
    BY <1>1, ParksView
  <2> QED
    BY <2>1, <2>2 DEF Steady
<1> QED
  BY <1>3, <1>4, <1>5 DEF Good

-----------------------------------------------------------------------------
(* Steps that change nothing but the goroutine's own and dead sudogs. *)
LEMMA QuietGood ==
    ASSUME Held, NEW t, Thinned(ch, t), ch' = t, NEW g \in G,
           pc[g] \notin {"parked", "woken", "goready"}, UNCHANGED <<wake, log>>,
           \A e \in G : e # g => pc'[e] = pc[e] /\ cases'[e] = cases[e] /\ item'[e] = item[e],
           pc' \in [G -> {"idle", "parked", "woken", "goready"} \union Looks],
           cases' \in [G -> SUBSET Case], item' \in [G -> 0..MaxItems],
           pc'[g] \notin {"parked", "woken"}, item'[g] = 0
    PROVE  /\ Kept' /\ Typed' /\ (\A c \in Chan : ch'[c].closed = ch[c].closed)
           /\ pc'[g] \notin {"empty?", "open?", "still empty?"} => Good
<1>1. UNCHANGED <<selectDone, param, readies, items, rcvd, acked, failed>>
  BY DEF wake, log
<1>2. HchansOK(t) /\ GsOK
  BY ThinnedOK, HeldFacts DEF Held
<1>3. Kept'
  BY <1>1, <1>2, Quiet
<1>4. Typed'
  BY <1>1, HeldFacts DEF Typed
<1>5. \A c \in Chan : ch'[c].closed = ch[c].closed
  BY DEF Thinned
<1>6. pc'[g] \notin {"empty?", "open?", "still empty?"} => Steady
  BY <1>5 DEF Steady
<1> QED
  BY <1>3, <1>4, <1>5, <1>6 DEF Good

(* chansend and chanrecv that may block. *)
LEMMA BlockGood ==
    ASSUME Held, NEW g \in G, NEW k \in Case, Block(g, k)
    PROVE  Good
<1>1. CASE Ready(k)
  BY <1>1, ThinnedSelf, DoGood DEF Block
<1>2. CASE ~Ready(k)
  <2>1. pc[g] = "idle" /\ Enqueue(g, {k}, FALSE)
    BY <1>2 DEF Block
  <2>2. PICK ks : ks = {k}
    OBVIOUS
  <2>3. ks \in SUBSET Case /\ (\A j \in ks : ~Ready(j)) /\ \E j \in ks : ks = {j}
    BY <2>2, <1>2
  <2>4. Enqueue(g, ks, FALSE) /\ FALSE \in BOOLEAN
    BY <2>1, <2>2
  <2> QED
    BY <2>1, <2>3, <2>4, EnqueueGood
<1> QED
  BY <1>1, <1>2

(* selectgo, with a case that is ready and without. *)
LEMMA SelectGood ==
    ASSUME Held, NEW g \in G, NEW ks \in SUBSET Case, NEW block \in BOOLEAN, Select(g, ks, block)
    PROVE  Good
<1>1. CASE \E k \in {j \in ks : Ready(j)} : \E es \in SUBSET {j \in ks : ~Ready(j)} :
               Do(g, k, Purged(es))
  <2>1. PICK k \in Case : \E es : Do(g, k, Purged(es))
    BY <1>1
  <2>2. PICK es : Do(g, k, Purged(es))
    BY <2>1
  <2>3. pc[g] = "idle"
    BY DEF Select
  <2>4. Thinned(ch, Purged(es))
    BY PurgedThinned DEF Held
  <2> QED
    BY <2>2, <2>3, <2>4, DoGood
<1>2. CASE (\A k \in ks : ~Ready(k)) /\ Enqueue(g, ks, TRUE)
  BY <1>2, EnqueueGood DEF Select
<1>3. CASE ch' = Purged(ks) /\ UNCHANGED <<pc, cases, item, wake, log>>
  <2>1. pc[g] = "idle"
    BY DEF Select
  <2>2. Thinned(ch, Purged(ks))
    BY PurgedThinned DEF Held
  <2>3. UNCHANGED <<pc, cases, item>> /\ UNCHANGED <<wake, log>>
    BY <1>3
  <2>4. item[g] = 0
    BY <2>1 DEF Held, GoroutineOK
  <2>5. /\ pc \in [G -> {"idle", "parked", "woken", "goready"} \union Looks]
        /\ cases \in [G -> SUBSET Case] /\ item \in [G -> 0..MaxItems]
    BY DEF Held, ChanTypeOK
  <2> QED
    BY <1>3, <2>1, <2>2, <2>3, <2>4, <2>5, QuietGood
<1> QED
  BY <1>1, <1>2, <1>3 DEF Select

-----------------------------------------------------------------------------
(* Close. *)

(* What Close makes of those that wait, opaque. *)
Closes(g, c, rs, ss, gs, ws) ==
    /\ pc[g] = "idle" /\ ~ch[c].closed
    /\ rs = WaitersIn(ch[c].recvq) /\ ss = WaitersIn(ch[c].sendq)
    /\ gs = {s.g : s \in rs \union ss}
    /\ ws = {s.g : s \in {x \in rs \union ss : x.isSelect}}
    /\ ch' = [ch EXCEPT ![c] = [ch[c] EXCEPT !.closed = TRUE, !.recvq = <<>>, !.sendq = <<>>]]
    /\ selectDone' = selectDone \union ws
    /\ param' = [r \in G |->
           IF r \notin gs THEN param[r]
           ELSE [case |-> {IF \E s \in rs : s.g = r THEN Recv(c) ELSE Send(c)}, ok |-> FALSE]]
    /\ readies' = [readies EXCEPT ![g] = gs]
    /\ pc' = [pc EXCEPT ![g] = IF gs = {} THEN "idle" ELSE "goready"]
    /\ UNCHANGED <<cases, item, items, rcvd, acked, failed>>

(* Close in these terms. *)
LEMMA CloseCloses ==
    ASSUME NEW g, NEW c, Close(g, c)
    PROVE  \E rs, ss, gs, ws : Closes(g, c, rs, ss, gs, ws)
<1>1. PICK rs, ss : rs = WaitersIn(ch[c].recvq) /\ ss = WaitersIn(ch[c].sendq)
  OBVIOUS
<1>2. PICK gs, ws : /\ gs = {s.g : s \in rs \union ss}
                    /\ ws = {s.g : s \in {x \in rs \union ss : x.isSelect}}
  OBVIOUS
<1>3. Closes(g, c, rs, ss, gs, ws)
  BY <1>1, <1>2 DEF Close, Closes, log
<1> QED
  BY <1>3

(* Those that Close dequeues sleep. *)
LEMMA CloseWaiters ==
    ASSUME Held, NEW g \in G, NEW c \in Chan, NEW rs, NEW ss, NEW gs, NEW ws,
           Closes(g, c, rs, ss, gs, ws)
    PROVE  /\ \A s \in rs : /\ s \in ToSet(Line(ch, Recv(c))) /\ s \in Sudog
                            /\ SudogOK(s, Recv(c)) /\ Sleeps(s.g) /\ s.g \in gs
                            /\ s.isSelect => s.g \in ws
           /\ \A s \in ss : /\ s \in ToSet(Line(ch, Send(c))) /\ s \in Sudog
                            /\ SudogOK(s, Send(c)) /\ Sleeps(s.g) /\ s.g \in gs
                            /\ s.isSelect => s.g \in ws
           /\ \A e \in gs : \E s \in rs \union ss : s.g = e
           /\ \A e \in ws : e \in gs
<1>1. /\ gs = {s.g : s \in rs \union ss}
      /\ ws = {s.g : s \in {x \in rs \union ss : x.isSelect}}
      /\ rs = WaitersIn(ch[c].recvq) /\ ss = WaitersIn(ch[c].sendq)
  BY DEF Closes
<1>2. Line(ch, Recv(c)) = ch[c].recvq /\ Line(ch, Send(c)) = ch[c].sendq
  BY LineOf
<1>3. /\ \A s \in rs : s \in ToSet(Line(ch, Recv(c))) /\ Live(s)
      /\ \A s \in ss : s \in ToSet(Line(ch, Send(c))) /\ Live(s)
  BY <1>1, <1>2 DEF WaitersIn
<1>4. /\ Send(c) \in Case /\ Recv(c) \in Case
      /\ \A k \in Case : LineOK(Line(ch, k), k) /\ Line(ch, k) \in Seq(Sudog)
  BY CaseFacts, LineType DEF Held, HchansOK
<1>5. \A k \in Case : \A s \in ToSet(Line(ch, k)) : s \in Sudog /\ SudogOK(s, k)
  BY <1>4, ToSetFacts DEF LineOK
<1>6. /\ \A s \in rs : s \in Sudog /\ SudogOK(s, Recv(c)) /\ Sleeps(s.g)
      /\ \A s \in ss : s \in Sudog /\ SudogOK(s, Send(c)) /\ Sleeps(s.g)
  BY <1>3, <1>4, <1>5 DEF SudogOK
<1>7. \A s \in rs \union ss : s.g \in gs /\ (s.isSelect => s.g \in ws)
  BY <1>1
<1>8. (\A e \in gs : \E s \in rs \union ss : s.g = e) /\ \A e \in ws : e \in gs
  BY <1>1
<1> QED
  BY <1>3, <1>6, <1>7, <1>8

(* Close is a wake of all of them, without success. *)
LEMMA CloseWake ==
    ASSUME Held, NEW g \in G, NEW c \in Chan, NEW rs, NEW ss, NEW gs, NEW ws,
           Closes(g, c, rs, ss, gs, ws)
    PROVE  Wake(g, gs, ws) /\ (\A e \in gs : ~param'[e].ok) /\ gs \subseteq G /\ ws \subseteq G
<1>1. /\ \A s \in rs : s \in Sudog /\ SudogOK(s, Recv(c)) /\ Sleeps(s.g) /\ s.g \in gs
                       /\ (s.isSelect => s.g \in ws)
      /\ \A s \in ss : s \in Sudog /\ SudogOK(s, Send(c)) /\ Sleeps(s.g) /\ s.g \in gs
                       /\ (s.isSelect => s.g \in ws)
      /\ \A e \in gs : \E s \in rs \union ss : s.g = e
      /\ \A e \in ws : e \in gs
  BY CloseWaiters
<1>2. \A e \in gs : e \in G /\ Sleeps(e)
  BY <1>1 DEF Sudog
<1>3. ASSUME NEW e \in gs
      PROVE  /\ ~param'[e].ok
             /\ param'[e].case # {} /\ param'[e].case \subseteq cases[e]
             /\ e \in ws \/ param'[e].case = cases[e]
  <2>1. PICK k : k = IF \E s \in rs : s.g = e THEN Recv(c) ELSE Send(c)
    OBVIOUS
  <2>2. param'[e] = [case |-> {k}, ok |-> FALSE]
    BY <1>2, <2>1 DEF Closes
  <2>3. PICK s \in rs \union ss : s.g = e /\ SudogOK(s, k) /\ (s.isSelect => e \in ws)
    <3>1. CASE \E s \in rs : s.g = e
      BY <3>1, <2>1, <1>1
    <3>2. CASE ~\E s \in rs : s.g = e
      BY <3>2, <2>1, <1>1
    <3> QED
      BY <3>1, <3>2
  <2>4. k \in cases[e] /\ (e \in ws \/ cases[e] = {k})
    BY <2>3 DEF SudogOK
  <2>5. param'[e].case = {k} /\ ~param'[e].ok
    BY <2>2
  <2> QED
    BY <2>4, <2>5
<1>4. readies'[g] = gs /\ \A e \in G : e # g => pc'[e] = pc[e] /\ readies'[e] = readies[e]
  BY DEF Closes, Held, ChanTypeOK
<1>5. pc'[g] = IF gs = {} THEN "idle" ELSE "goready"
  BY DEF Closes, Held, ChanTypeOK
<1>6. item[g] = 0
  BY DEF Closes, Held, GoroutineOK
<1>7. \A e \in G : e \in selectDone' <=> e \in selectDone \/ e \in ws
  BY DEF Closes
<1>8. \A e \in G : e \notin gs => param'[e] = param[e]
  BY DEF Closes
<1>9. UNCHANGED <<cases, item, items, failed>> /\ pc[g] = "idle" /\ items \in Nat /\ items <= items
  BY ChannelConstants DEF Closes, Held, ChanTypeOK
<1>10. Wake(g, gs, ws)
  BY <1>1, <1>2, <1>3, <1>4, <1>5, <1>6, <1>7, <1>8, <1>9 DEF Wake
<1> QED
  BY <1>1, <1>2, <1>3, <1>10

(* What Close makes of the channels. *)
LEMMA CloseChannels ==
    ASSUME Held, NEW g \in G, NEW c \in Chan, NEW rs, NEW ss, NEW gs, NEW ws,
           Closes(g, c, rs, ss, gs, ws)
    PROVE  /\ OnlyAt(c, ch, ch') /\ ch'[c].closed
           /\ \A d \in Chan : /\ ch'[d] \in Hchan(d) /\ ch'[d].qcount = ch[d].qcount
                              /\ ch'[d].sendx = ch[d].sendx /\ ch'[d].recvx = ch[d].recvx
                              /\ ch'[d].buf = ch[d].buf
           /\ ch'[c].sendq = <<>> /\ ch'[c].recvq = <<>>
<1>1. DOMAIN ch = Chan /\ \A d \in Chan : ch[d] \in Hchan(d)
  BY DEF Held, HchansOK
<1>2. ch' = [ch EXCEPT ![c] = [ch[c] EXCEPT !.closed = TRUE, !.recvq = <<>>, !.sendq = <<>>]]
  BY DEF Closes
<1>3. OnlyAt(c, ch, ch')
  BY <1>1, <1>2 DEF OnlyAt
<1>4. ch'[c] = [ch[c] EXCEPT !.closed = TRUE, !.recvq = <<>>, !.sendq = <<>>] /\ ch[c] \in Hchan(c)
  BY <1>1, <1>2
<1>5. <<>> \in Seq(Sudog)
  OBVIOUS
<1>6. /\ ch'[c] \in Hchan(c) /\ ch'[c].qcount = ch[c].qcount
      /\ ch'[c].sendx = ch[c].sendx /\ ch'[c].recvx = ch[c].recvx /\ ch'[c].buf = ch[c].buf
      /\ ch'[c].sendq = <<>> /\ ch'[c].recvq = <<>> /\ ch'[c].closed
  BY <1>4, <1>5 DEF Hchan
<1> QED
  BY <1>1, <1>3, <1>6 DEF OnlyAt

(* What it makes of the queues. *)
LEMMA CloseRoused ==
    ASSUME Held, NEW g \in G, NEW c \in Chan, NEW rs, NEW ss, NEW gs, NEW ws,
           Closes(g, c, rs, ss, gs, ws)
    PROVE  Roused(ch, gs, ws)
<1>1. /\ OnlyAt(c, ch, ch') /\ ch'[c].sendq = <<>> /\ ch'[c].recvq = <<>>
  BY CloseChannels
<1>2. /\ Line(ch', Send(c)) = <<>> /\ Line(ch', Recv(c)) = <<>>
      /\ Line(ch, Send(c)) = ch[c].sendq /\ Line(ch, Recv(c)) = ch[c].recvq
  BY <1>1, LineOf
<1>3. \A j \in Case : j # Send(c) /\ j # Recv(c) => Line(ch', j) = Line(ch, j)
  <2>1. \A j \in Case : j # Send(c) /\ j # Recv(c) => j.chan \in Chan /\ j.chan # c
    BY CaseFacts
  <2> QED
    BY <2>1, <1>1 DEF Line, OnlyAt
<1>4. \A k \in Case : Line(ch, k) \in Seq(Sudog)
  BY LineType DEF Held, HchansOK
<1>5. <<>> \in Seq(Sudog) /\ ToSet(<<>>) = {} /\ \A q \in Seq(Sudog) : Thins(<<>>, q)
  <2>1. <<>> \in Seq(Sudog) /\ Len(<<>>) = 0
    OBVIOUS
  <2>2. ToSet(<<>>) = {}
    BY <2>1, ToSetFacts
  <2> QED
    BY <2>1, <2>2 DEF Thins
<1>6. /\ \A s \in rs : s \in ToSet(Line(ch, Recv(c))) /\ s.g \in gs /\ (s.isSelect => s.g \in ws)
      /\ \A s \in ss : s \in ToSet(Line(ch, Send(c))) /\ s.g \in gs /\ (s.isSelect => s.g \in ws)
      /\ \A e \in gs : \E s \in rs \union ss : s.g = e
  BY CloseWaiters
<1>7. ASSUME NEW k \in Case, k = Send(c) \/ k = Recv(c)
      PROVE  /\ Line(ch', k) = <<>>
             /\ \A s \in ToSet(Line(ch, k)) : Live(s) => s.g \in gs
  <2>1. /\ \A s \in ToSet(Line(ch, Send(c))) : Live(s) => s \in ss
        /\ \A s \in ToSet(Line(ch, Recv(c))) : Live(s) => s \in rs
    BY <1>2 DEF Closes, WaitersIn
  <2> QED
    BY <2>1, <1>2, <1>6, <1>7
<1>8. ASSUME NEW j \in Case, j # Send(c), j # Recv(c), NEW s \in ToSet(Line(ch, j)), s.g \in gs
      PROVE  s.isSelect /\ s.g \in ws
  <2>1. PICK x \in rs \union ss : x.g = s.g
    BY <1>6, <1>8
  <2>2. PICK k \in Case : k # j /\ x \in ToSet(Line(ch, k))
    BY <2>1, <1>6, <1>8, CaseFacts
  <2>3. x.isSelect /\ s.isSelect
    BY <2>1, <2>2, SameSelect DEF Held, HchansOK
  <2> QED
    BY <2>1, <2>3, <1>6
<1>9. ASSUME NEW k \in Case
      PROVE  /\ Line(ch', k) \in Seq(Sudog) /\ Line(ch, k) \in Seq(Sudog)
             /\ Thins(Line(ch', k), Line(ch, k))
             /\ \A s \in ToSet(Line(ch, k)) : Live(s) /\ s.g \notin gs => s \in ToSet(Line(ch', k))
             /\ \A s \in ToSet(Line(ch', k)) : s.g \in gs => s.isSelect /\ s.g \in ws
  <2>1. CASE k = Send(c) \/ k = Recv(c)
    BY <2>1, <1>4, <1>5, <1>7
  <2>2. CASE ~(k = Send(c) \/ k = Recv(c))
    BY <2>2, <1>3, <1>4, <1>8, ThinsSelf
  <2> QED
    BY <2>1, <2>2
<1> QED
  BY <1>9 DEF Roused

(* closechan. *)
LEMMA CloseGood ==
    ASSUME Held, NEW g \in G, NEW c \in Chan, Close(g, c)
    PROVE  Good
<1>1. PICK rs, ss, gs, ws : Closes(g, c, rs, ss, gs, ws)
  BY CloseCloses
<1>2. /\ Wake(g, gs, ws) /\ Roused(ch, gs, ws) /\ (\A e \in gs : ~param'[e].ok)
      /\ gs \subseteq G /\ ws \subseteq G
  BY <1>1, CloseWake, CloseRoused
<1>3. /\ OnlyAt(c, ch, ch') /\ ch'[c].closed
      /\ \A d \in Chan : /\ ch'[d] \in Hchan(d) /\ ch'[d].qcount = ch[d].qcount
                         /\ ch'[d].sendx = ch[d].sendx /\ ch'[d].recvx = ch[d].recvx
                         /\ ch'[d].buf = ch[d].buf
      /\ ch'[c].sendq = <<>> /\ ch'[c].recvq = <<>>
  BY <1>1, CloseChannels
<1>4. GsOK /\ Typed
  BY HeldFacts
<1>5. /\ \A e \in G : item'[e] = item[e]
      /\ \A e \in G : e \notin gs => (Won(e)' <=> Won(e))
      /\ \A e \in gs : ~Won(e) /\ (Won(e)' <=> param'[e].ok /\ Sends(param'[e].case))
  BY <1>2, <1>4, WakeView
<1>6. \A e \in G : Won(e)' <=> Won(e)
  BY <1>2, <1>5
<1>7. UNCHANGED <<cases, item, items, rcvd, acked, failed>> /\ items \in Nat /\ items <= items
  BY <1>1, ChannelConstants DEF Closes, Held, ChanTypeOK
<1>8. PICK p : p = Outs(ch)'
  OBVIOUS
<1>9. p = Outs(ch)
  BY <1>3, <1>7, <1>8 DEF Outs
<1>10. OutsOK(p) /\ AfterOK(ch, p) /\ HchansOK(ch)
  BY <1>9 DEF Held, HchansOK
<1>11. OutsOK(p)'
  BY <1>4, <1>5, <1>6, <1>7, <1>10, OutsKeep
<1>12. \A d \in Chan : RingOK(ch'[d], d)
  BY <1>3, <1>10 DEF HchansOK, RingOK
<1>13. \A d \in Chan : ch'[d].closed => ch'[d].sendq = <<>> /\ ch'[d].recvq = <<>>
  <2>1. \A d \in Chan : ch[d].closed => ch[d].sendq = <<>> /\ ch[d].recvq = <<>>
    BY <1>10 DEF HchansOK, WaitOK
  <2> QED
    BY <2>1, <1>3 DEF OnlyAt
<1>14. \A d \in Chan : \A s \in WaitersIn(ch[d].sendq) : \A x \in ToSet(p[d]) : x < s.item
  BY <1>10 DEF AfterOK
<1>15. HchansOK(ch)'
  BY <1>2, <1>3, <1>4, <1>8, <1>10, <1>11, <1>12, <1>13, <1>14, WakeHchans DEF OnlyAt
<1>16. (\A e \in G : GoroutineOK(e)') /\ ApartOK'
  BY <1>2, <1>4, WakeGoroutines
<1>17. Typed'
  <2>1. selectDone' \subseteq G /\ readies' \in [G -> SUBSET G]
    BY <1>1, <1>2, <1>4 DEF Closes, Typed
  <2>2. pc' \in [G -> {"idle", "parked", "woken", "goready"} \union Looks]
    BY <1>1, <1>4 DEF Closes, Typed
  <2>3. param' \in [G -> [case : SUBSET Case, ok : BOOLEAN]]
    <3>1. Send(c) \in Case /\ Recv(c) \in Case
      BY CaseFacts
    <3>2. \A r \in G : [case |-> {IF \E s \in rs : s.g = r THEN Recv(c) ELSE Send(c)}, ok |-> FALSE]
                           \in [case : SUBSET Case, ok : BOOLEAN]
      BY <3>1
    <3> QED
      BY <3>2, <1>1, <1>4 DEF Closes, Typed
  <2> QED
    BY <2>1, <2>2, <2>3, <1>4, <1>7 DEF Typed
<1>18. Steady
  <2>1. \A d \in Chan : ch[d].closed => ch'[d].closed
    BY <1>3 DEF OnlyAt
  <2>2. \A e \in G : pc'[e] \in {"empty?", "open?", "still empty?"} => pc'[e] = pc[e]
    BY <1>1, <1>4 DEF Closes, Typed
  <2> QED
    BY <2>1, <2>2, <1>7 DEF Steady
<1> QED
  BY <1>15, <1>16, <1>17, <1>18 DEF Good, Kept

-----------------------------------------------------------------------------
(* Those who were woken go on. *)

(* The goroutines R, who were woken, return; no other has another state.   *)
Rests(R) ==
    /\ \A e \in R : e \in G /\ Notified(e) /\ item'[e] = 0 /\ ~Won(e)' /\ ~Sleeps(e)'
    /\ \A e \in G : e \notin R =>
           /\ cases'[e] = cases[e] /\ item'[e] = item[e] /\ (e \in selectDone' <=> e \in selectDone)
           /\ (Sleeps(e)' <=> Sleeps(e)) /\ (Won(e)' <=> Won(e))
           /\ pc[e] \in {"parked", "woken"} => pc'[e] \in {"parked", "woken"}
    /\ items' = items /\ rcvd' = rcvd
    /\ \A x \in acked' : x \in acked \/ \E e \in G : Won(e) /\ item[e] = x
    /\ \A x \in failed' : x \in failed \/ \E e \in G : ~Won(e) /\ item[e] = x

(* They have no sudogs left. *)
Leaves(R) ==
    /\ DOMAIN ch' = Chan
    /\ \A c \in Chan :
           /\ ch'[c] \in Hchan(c) /\ ch'[c].closed = ch[c].closed /\ ch'[c].qcount = ch[c].qcount
           /\ ch'[c].sendx = ch[c].sendx /\ ch'[c].recvx = ch[c].recvx /\ ch'[c].buf = ch[c].buf
    /\ \A k \in Case :
           LET p == Line(ch', k)
               q == Line(ch, k)
           IN  /\ p \in Seq(Sudog) /\ q \in Seq(Sudog) /\ Thins(p, q)
               /\ \A s \in ToSet(q) : s.g \notin R => s \in ToSet(p)
               /\ \A s \in ToSet(p) : s.g \notin R

(* A queue after they have returned. *)
LEMMA RestsLine ==
    ASSUME NEW R, Rests(R), NEW k \in Case, NEW p \in Seq(Sudog), NEW q \in Seq(Sudog),
           LineOK(q, k), Thins(p, q),
           \A s \in ToSet(q) : s.g \notin R => s \in ToSet(p), \A s \in ToSet(p) : s.g \notin R
    PROVE  /\ \A s \in ToSet(p) : SudogOK(s, k)'
           /\ \A s \in ToSet(p) : Live(s)' <=> Live(s)
           /\ \A s \in ToSet(q) : s \notin ToSet(p) => ~Live(s)
           /\ InOrder(p, k)
           /\ \A e \in G : Sleeps(e)' /\ k \in cases'[e] => \E s \in ToSet(p) : s.g = e
<1>1. ToSet(p) \subseteq ToSet(q) /\ ToSet(q) \subseteq Sudog
  BY ToSetFacts DEF Thins
<1>2. \A s \in ToSet(q) : s.g \in G /\ SudogOK(s, k)
  BY <1>1 DEF LineOK, Sudog
<1>3. ASSUME NEW s \in ToSet(p)
      PROVE  SudogOK(s, k)' /\ (Live(s)' <=> Live(s))
  <2>1. s.g \in G /\ s.g \notin R /\ SudogOK(s, k)
    BY <1>1, <1>2
  <2>2. Live(s)' <=> Live(s)
    BY <2>1 DEF Live, Rests
  <2>3. /\ cases'[s.g] = cases[s.g] /\ item'[s.g] = item[s.g] /\ (Sleeps(s.g)' <=> Sleeps(s.g))
        /\ pc[s.g] \in {"parked", "woken"} => pc'[s.g] \in {"parked", "woken"}
    BY <2>1 DEF Rests
  <2> QED
    BY <2>1, <2>2, <2>3 DEF SudogOK
<1>4. ASSUME NEW s \in ToSet(q), s \notin ToSet(p)
      PROVE  ~Live(s)
  <2>1. Notified(s.g)
    BY <1>4 DEF Rests
  <2>2. ~Sleeps(s.g)
    BY <2>1 DEF Notified, Sleeps
  <2> QED
    BY <2>2, <1>2 DEF SudogOK
<1>5. InOrder(p, k)
  BY ThinsInOrder DEF LineOK
<1>6. ASSUME NEW e \in G, Sleeps(e)', k \in cases'[e]
      PROVE  \E s \in ToSet(p) : s.g = e
  <2>1. e \notin R /\ Sleeps(e) /\ k \in cases[e]
    BY <1>6 DEF Rests
  <2> QED
    BY <2>1 DEF LineOK
<1> QED
  BY <1>3, <1>4, <1>5, <1>6

(* The channels after they have returned. *)
LEMMA RestsHchans ==
    ASSUME Held, NEW R, Rests(R), Leaves(R)
    PROVE  HchansOK(ch)'
<1>1. ASSUME NEW k \in Case
      PROVE  LineOK(Line(ch, k), k)' /\ WaitersIn(Line(ch, k))' = WaitersIn(Line(ch, k))
  <2>1. PICK p : p = Line(ch', k)
    OBVIOUS
  <2>2. PICK q : q = Line(ch, k)
    OBVIOUS
  <2>3. /\ p \in Seq(Sudog) /\ q \in Seq(Sudog) /\ Thins(p, q)
        /\ \A s \in ToSet(q) : s.g \notin R => s \in ToSet(p)
        /\ \A s \in ToSet(p) : s.g \notin R
    BY <2>1, <2>2 DEF Leaves
  <2>4. LineOK(q, k)
    BY <2>2 DEF Held, HchansOK
  <2>5. /\ \A s \in ToSet(p) : SudogOK(s, k)'
        /\ \A s \in ToSet(p) : Live(s)' <=> Live(s)
        /\ \A s \in ToSet(q) : s \notin ToSet(p) => ~Live(s)
        /\ InOrder(p, k)
        /\ \A e \in G : Sleeps(e)' /\ k \in cases'[e] => \E s \in ToSet(p) : s.g = e
    BY <2>3, <2>4, RestsLine
  <2>6. LineOK(Line(ch, k), k)'
    BY <2>1, <2>5 DEF LineOK
  <2>7. WaitersIn(Line(ch, k))' = {s \in ToSet(p) : Live(s)'}
    BY <2>1 DEF WaitersIn
  <2>8. WaitersIn(Line(ch, k)) = {s \in ToSet(q) : Live(s)}
    BY <2>2 DEF WaitersIn
  <2>9. ToSet(p) \subseteq ToSet(q)
    BY <2>3 DEF Thins
  <2> QED
    BY <2>5, <2>6, <2>7, <2>8, <2>9
<1>2. ASSUME NEW c \in Chan
      PROVE  /\ WaitersIn(ch[c].sendq)' = WaitersIn(ch[c].sendq)
             /\ WaitersIn(ch[c].recvq)' = WaitersIn(ch[c].recvq)
             /\ ch[c].sendq = <<>> => ch'[c].sendq = <<>>
             /\ ch[c].recvq = <<>> => ch'[c].recvq = <<>>
  <2>1. /\ Line(ch', Send(c)) = ch'[c].sendq /\ Line(ch', Recv(c)) = ch'[c].recvq
        /\ Line(ch, Send(c)) = ch[c].sendq /\ Line(ch, Recv(c)) = ch[c].recvq
    BY LineOf
  <2>2. Send(c) \in Case /\ Recv(c) \in Case
    BY CaseFacts
  <2>3. WaitersIn(Line(ch, Send(c)))' = WaitersIn(ch[c].sendq)'
    BY <2>1 DEF WaitersIn
  <2>4. WaitersIn(Line(ch, Recv(c)))' = WaitersIn(ch[c].recvq)'
    BY <2>1 DEF WaitersIn
  <2>5. \A k \in Case : /\ Line(ch', k) \in Seq(Sudog) /\ Line(ch, k) \in Seq(Sudog)
                        /\ ToSet(Line(ch', k)) \subseteq ToSet(Line(ch, k))
    BY DEF Leaves, Thins
  <2>6. \A k \in Case : Line(ch, k) = <<>> => Line(ch', k) = <<>>
    <3>1. \A q \in Seq(Sudog) : q = <<>> <=> ToSet(q) = {}
      BY ToSetFacts
    <3> QED
      BY <2>5, <3>1
  <2> QED
    BY <2>1, <2>2, <2>3, <2>4, <2>6, <1>1
<1>3. \A c \in Chan : /\ ch'[c].closed = ch[c].closed /\ ch'[c].qcount = ch[c].qcount
                      /\ ch'[c].sendx = ch[c].sendx /\ ch'[c].recvx = ch[c].recvx
                      /\ ch'[c].buf = ch[c].buf
  BY DEF Leaves
<1>4. ASSUME NEW c \in Chan
      PROVE  WaitOK(ch[c], c)'
  <2>1. WaitOK(ch[c], c)
    BY DEF Held, HchansOK
  <2> QED
    BY <2>1, <1>2, <1>3 DEF WaitOK
<1>5. \A c \in Chan : RingOK(ch[c], c)'
  BY <1>3 DEF Held, HchansOK, RingOK
<1>6. PICK o : o = Outs(ch)'
  OBVIOUS
<1>7. o = Outs(ch)
  BY <1>3, <1>6 DEF Outs, Rests
<1>8. OutsOK(o) /\ AfterOK(ch, o)
  BY <1>7 DEF Held, HchansOK
<1>9. OutsOK(o)'
  <2>1. items' = items /\ items \in Nat /\ items <= items
    BY ChannelConstants DEF Rests, Held, ChanTypeOK
  <2>2. \A e \in G : Won(e)' => Won(e) /\ item'[e] = item[e]
    BY DEF Rests
  <2>3. \A e \in G : \/ item'[e] = 0 \/ item'[e] > items
                     \/ item'[e] = item[e] /\ (Won(e) => Won(e)')
    BY DEF Rests
  <2>4. /\ \A x \in acked' : x \in acked \/ \E e \in G : Won(e) /\ item[e] = x
        /\ \A x \in failed' : x \in failed \/ \E e \in G : ~Won(e) /\ item[e] = x
    BY DEF Rests
  <2> QED
    BY <1>8, <2>1, <2>2, <2>3, <2>4, OutsKeep, HeldFacts
<1>10. OutsOK(Outs(ch))'
  BY <1>6, <1>9 DEF OutsOK
<1>11. AfterOK(ch, Outs(ch))'
  BY <1>2, <1>6, <1>8 DEF AfterOK
<1>12. DOMAIN ch' = Chan /\ \A c \in Chan : (ch[c] \in Hchan(c))'
  BY DEF Leaves, Hchan
<1> QED
  BY <1>1, <1>4, <1>5, <1>10, <1>11, <1>12 DEF HchansOK

-----------------------------------------------------------------------------
(* The goroutine takes its sudogs back. *)
LEMMA Pass3Channels ==
    ASSUME Held, NEW g \in G, NEW R, R = {g},
           ch' = [c \in Chan |-> [ch[c] EXCEPT !.sendq = Without(ch[c].sendq, g),
                                               !.recvq = Without(ch[c].recvq, g)]]
    PROVE  Leaves(R)
<1>1. \A c \in Chan : /\ ch[c] \in Hchan(c)
                      /\ ch[c].sendq \in Seq(Sudog) /\ ch[c].recvq \in Seq(Sudog)
  BY HchanFields DEF Held, HchansOK
<1>2. ASSUME NEW c \in Chan
      PROVE  /\ ch'[c] \in Hchan(c) /\ ch'[c].closed = ch[c].closed /\ ch'[c].qcount = ch[c].qcount
             /\ ch'[c].sendx = ch[c].sendx /\ ch'[c].recvx = ch[c].recvx /\ ch'[c].buf = ch[c].buf
             /\ ch'[c].sendq = Without(ch[c].sendq, g) /\ ch'[c].recvq = Without(ch[c].recvq, g)
  <2>1. PICK p, q : p = Without(ch[c].sendq, g) /\ q = Without(ch[c].recvq, g)
    OBVIOUS
  <2>2. p \in Seq(Sudog) /\ q \in Seq(Sudog)
    BY <2>1, <1>1, WithoutFacts
  <2>3. ch'[c] = [ch[c] EXCEPT !.sendq = p, !.recvq = q] /\ ch[c] \in Hchan(c)
    BY <2>1, <1>1
  <2>4. /\ ch'[c] \in Hchan(c) /\ ch'[c].closed = ch[c].closed /\ ch'[c].qcount = ch[c].qcount
        /\ ch'[c].sendx = ch[c].sendx /\ ch'[c].recvx = ch[c].recvx /\ ch'[c].buf = ch[c].buf
        /\ ch'[c].sendq = p /\ ch'[c].recvq = q
    BY <2>2, <2>3 DEF Hchan
  <2> QED
    BY <2>1, <2>4
<1>3. ASSUME NEW k \in Case
      PROVE  /\ Line(ch', k) \in Seq(Sudog) /\ Line(ch, k) \in Seq(Sudog)
             /\ Thins(Line(ch', k), Line(ch, k))
             /\ \A s \in ToSet(Line(ch, k)) : s.g \notin R => s \in ToSet(Line(ch', k))
             /\ \A s \in ToSet(Line(ch', k)) : s.g \notin R
  <2>1. PICK c \in Chan : k = Send(c) \/ k = Recv(c)
    BY CaseFacts
  <2>2. /\ Line(ch', Send(c)) = ch'[c].sendq /\ Line(ch', Recv(c)) = ch'[c].recvq
        /\ Line(ch, Send(c)) = ch[c].sendq /\ Line(ch, Recv(c)) = ch[c].recvq
    BY LineOf
  <2>3. PICK q : q = Line(ch, k)
    OBVIOUS
  <2>4. q \in Seq(Sudog) /\ Line(ch', k) = Without(q, g)
    BY <2>1, <2>2, <2>3, <1>1, <1>2
  <2>5. \A i, j \in 1..Len(q) : q[i].g = q[j].g => i = j
    BY <2>3, <2>4, OneSudog DEF Held, HchansOK, LineOK
  <2>6. /\ Without(q, g) \in Seq(Sudog) /\ Thins(Without(q, g), q)
        /\ \A s \in ToSet(q) : s \in ToSet(Without(q, g)) \/ s.g = g
        /\ \A s \in ToSet(Without(q, g)) : s.g # g
    BY <2>4, <2>5, WithoutFacts
  <2> QED
    BY <2>3, <2>4, <2>6
<1>4. DOMAIN ch' = Chan
  OBVIOUS
<1> QED
  BY <1>2, <1>3, <1>4 DEF Leaves

(* Pass 3 of selectgo. *)
LEMMA Pass3Good ==
    ASSUME Held, NEW g \in G, Pass3(g)
    PROVE  Good
<1>1. PICK R : R = {g}
  OBVIOUS
<1>2. Leaves(R)
  BY <1>1, Pass3Channels DEF Pass3
<1>3. /\ pc[g] = "woken" /\ pc'[g] = "idle" /\ cases'[g] = {} /\ item'[g] = 0
      /\ \A e \in G : e # g => pc'[e] = pc[e] /\ cases'[e] = cases[e] /\ item'[e] = item[e]
                               /\ param'[e] = param[e]
      /\ \A e \in G : e \in selectDone' <=> e \in selectDone /\ e # g
      /\ UNCHANGED <<readies, items, rcvd>>
  BY DEF Pass3, Leave, Held, ChanTypeOK
<1>4. \A e \in G : GoroutineOK(e)
  BY DEF Held
<1>5. readies[g] = {} /\ ~Awake(g) /\ Notified(g)
  BY <1>3, <1>4 DEF GoroutineOK, Notified
<1>6. \A e \in G : Awake(e)' <=> Awake(e)
  BY <1>3 DEF Awake
<1>7. \A e \in G : Notified(e)' <=> Notified(e) /\ e # g
  BY <1>3, <1>5, <1>6 DEF Notified
<1>8. \A e \in G : Sleeps(e)' <=> Sleeps(e) /\ e # g
  BY <1>3, <1>6 DEF Sleeps
<1>9. \A e \in G : e # g => (Won(e)' <=> Won(e))
  BY <1>3, <1>7 DEF Won
<1>10. ~Won(g)' /\ ~Sleeps(g)'
  BY <1>7, <1>8 DEF Won
<1>11. PICK won : won = (param[g].ok /\ \E k \in param[g].case : k.dir = "send")
  OBVIOUS
<1>12. won <=> Won(g)
  BY <1>5, <1>11 DEF Won, Sends
<1>13. /\ \A x \in acked' : x \in acked \/ (Won(g) /\ item[g] = x)
       /\ \A x \in failed' : x \in failed \/ (~Won(g) /\ item[g] = x /\ x # 0)
  <2>1. /\ acked' = IF won THEN acked \union {item[g]} ELSE acked
        /\ failed' = IF won \/ item[g] = 0 THEN failed ELSE failed \union {item[g]}
    BY <1>11 DEF Pass3
  <2> QED
    BY <2>1, <1>12
<1>14. Rests(R)
  <2>1. \A e \in R : e \in G /\ Notified(e) /\ item'[e] = 0 /\ ~Won(e)' /\ ~Sleeps(e)'
    BY <1>1, <1>3, <1>5, <1>10
  <2>2. \A e \in G : e \notin R =>
           /\ cases'[e] = cases[e] /\ item'[e] = item[e] /\ (e \in selectDone' <=> e \in selectDone)
           /\ (Sleeps(e)' <=> Sleeps(e)) /\ (Won(e)' <=> Won(e))
           /\ pc[e] \in {"parked", "woken"} => pc'[e] \in {"parked", "woken"}
    BY <1>1, <1>3, <1>8, <1>9
  <2> QED
    BY <2>1, <2>2, <1>3, <1>13 DEF Rests
<1>15. HchansOK(ch)'
  BY <1>2, <1>14, RestsHchans
<1>16. ApartOK'
  <2>1. \A d, e \in G : item'[d] = item'[e] /\ item'[d] # 0 => d = e
    BY <1>3 DEF Held, ApartOK
  <2> QED
    BY <2>1, <1>3 DEF Held, ApartOK
<1>17. ASSUME NEW e \in G
       PROVE  GoroutineOK(e)'
  <2>1. CASE e = g
    <3>1. item'[g] \notin failed' /\ item'[g] <= items'
      BY <1>3, <1>13, ChannelConstants DEF Held, ChanTypeOK
    <3>2. g \notin selectDone' /\ ~Awake(g)' /\ ~Notified(g)' /\ readies'[g] = {}
      BY <1>3, <1>5, <1>6, <1>7
    <3> QED
      BY <2>1, <3>1, <3>2, <1>3 DEF GoroutineOK
  <2>2. CASE e # g
    <3>1. GoroutineOK(e)
      BY <1>4
    <3>2. item'[e] \notin failed'
      <4>1. item[e] # 0 => item[e] # item[g]
        BY <2>2 DEF Held, ApartOK
      <4> QED
        BY <2>2, <3>1, <4>1, <1>3, <1>13 DEF GoroutineOK
    <3>3. Sends(cases[e])' <=> Sends(cases[e])
      BY <2>2, <1>3 DEF Sends
    <3> QED
      BY <2>2, <3>1, <3>2, <3>3, <1>3, <1>6, <1>7 DEF GoroutineOK
  <2> QED
    BY <2>1, <2>2
<1>18. Typed'
  <2>1. NoCase \in [case : SUBSET Case, ok : BOOLEAN]
    BY DEF NoCase
  <2>2. param' \in [G -> [case : SUBSET Case, ok : BOOLEAN]] /\ selectDone' \subseteq G
    BY <2>1, HeldFacts DEF Pass3, Typed
  <2>3. failed' \subseteq 1..MaxItems
    <3>1. item[g] \in 0..MaxItems /\ failed \subseteq 1..MaxItems
      BY HeldFacts DEF Typed
    <3>2. \A y \in 0..MaxItems : y # 0 => y \in 1..MaxItems
      OBVIOUS
    <3> QED
      BY <3>1, <3>2, <1>13
  <2>4. /\ pc' \in [G -> {"idle", "parked", "woken", "goready"} \union Looks]
        /\ cases' \in [G -> SUBSET Case] /\ item' \in [G -> 0..MaxItems]
    BY LeaveTyped, HeldFacts DEF Pass3
  <2> QED
    BY <2>2, <2>3, <2>4, <1>3, HeldFacts DEF Typed
<1>19. Steady
  BY <1>2, <1>3 DEF Leaves, Steady
<1> QED
  BY <1>15, <1>16, <1>17, <1>18, <1>19 DEF Good, Kept

-----------------------------------------------------------------------------
(* One that was dequeued is made ready. *)
LEMMA SameChannels ==
    ASSUME Held, ch' = ch, NEW R, \A k \in Case : \A s \in ToSet(Line(ch, k)) : s.g \notin R
    PROVE  Leaves(R)
<1>1. \A k \in Case : Line(ch, k) \in Seq(Sudog)
  BY LineType DEF Held, HchansOK
<1>2. \A k \in Case : Thins(Line(ch, k), Line(ch, k))
  BY <1>1, ThinsSelf
<1>3. DOMAIN ch = Chan /\ \A c \in Chan : ch[c] \in Hchan(c)
  BY DEF Held, HchansOK
<1> QED
  BY <1>1, <1>2, <1>3 DEF Leaves

(* What goready does, r being the one. *)
Readies(g, r) ==
    /\ pc[g] = "goready" /\ r \in readies[g]
    /\ readies' = [readies EXCEPT ![g] = readies[g] \ {r}]
    /\ pc' = [pc EXCEPT ![g] = IF readies[g] = {r} THEN "idle" ELSE "goready",
                        ![r] = IF r \in selectDone THEN "woken" ELSE "idle"]
    /\ IF r \in selectDone
       THEN UNCHANGED <<cases, item, param, acked, failed>>
       ELSE /\ cases' = [cases EXCEPT ![r] = {}]
            /\ item' = [item EXCEPT ![r] = 0]
            /\ param' = [param EXCEPT ![r] = NoCase]
            /\ acked' = IF param[r].ok THEN acked \union ({item[r]} \ {0}) ELSE acked
            /\ failed' = IF param[r].ok THEN failed ELSE failed \union ({item[r]} \ {0})
    /\ UNCHANGED <<ch, selectDone, items, rcvd>>

(* What goready changes for each goroutine. *)
LEMMA ReadiesView ==
    ASSUME Held, NEW g \in G, NEW r, Readies(g, r)
    PROVE  /\ r \in G /\ r # g /\ pc[r] = "parked" /\ Notified(r) /\ Awake(r)
           /\ readies'[g] = readies[g] \ {r} /\ \A e \in G : e # g => readies'[e] = readies[e]
           /\ pc'[g] = IF readies[g] = {r} THEN "idle" ELSE "goready"
           /\ pc'[r] = IF r \in selectDone THEN "woken" ELSE "idle"
           /\ \A e \in G : e # g /\ e # r => pc'[e] = pc[e]
           /\ \A e \in G : Awake(e)' <=> Awake(e) /\ e # r
           /\ \A e \in G : Notified(e)' <=> Notified(e) /\ (e # r \/ r \in selectDone)
           /\ \A e \in G : Sleeps(e)' <=> Sleeps(e)
           /\ ~Sleeps(r)
<1>1. Awake(r) /\ r \in G /\ Notified(r)
  BY DEF Readies, Awake, Notified, Held, ChanTypeOK
<1>2. pc[r] = "parked" /\ r # g
  BY <1>1 DEF Readies, Held, GoroutineOK
<1>3. /\ readies'[g] = readies[g] \ {r} /\ \A e \in G : e # g => readies'[e] = readies[e]
      /\ pc'[g] = IF readies[g] = {r} THEN "idle" ELSE "goready"
      /\ pc'[r] = IF r \in selectDone THEN "woken" ELSE "idle"
      /\ \A e \in G : e # g /\ e # r => pc'[e] = pc[e]
      /\ selectDone' = selectDone
  BY <1>1, <1>2 DEF Readies, Held, ChanTypeOK
<1>4. ASSUME NEW e \in G
      PROVE  Awake(e)' <=> Awake(e) /\ e # r
  <2>1. CASE e = r
    <3>1. \A x \in G : r \in readies[x] => x = g
      BY <1>1 DEF Readies, Held, ApartOK
    <3>2. \A x \in G : r \notin readies'[x]
      BY <3>1, <1>3
    <3> QED
      BY <2>1, <3>2 DEF Awake
  <2>2. CASE e # r
    <3>1. \A x \in G : e \in readies'[x] <=> e \in readies[x]
      BY <2>2, <1>3
    <3> QED
      BY <2>2, <3>1 DEF Awake
  <2> QED
    BY <2>1, <2>2
<1>5. pc[g] = "goready"
  BY DEF Readies
<1>6. \A e \in G : pc'[e] = "woken" <=> pc[e] = "woken" \/ (e = r /\ r \in selectDone)
  BY <1>2, <1>3, <1>5
<1>7. \A e \in G : Notified(e)' <=> Notified(e) /\ (e # r \/ r \in selectDone)
  BY <1>1, <1>2, <1>4, <1>6 DEF Notified
<1>8. ~Sleeps(r)
  BY <1>1 DEF Sleeps
<1>9. \A e \in G : e # r => (pc'[e] = "parked" <=> pc[e] = "parked")
  BY <1>3, <1>5
<1>10. \A e \in G : Sleeps(e)' <=> Sleeps(e)
  <2>1. ~Sleeps(r)'
    BY <1>2, <1>3 DEF Sleeps
  <2> QED
    BY <2>1, <1>3, <1>4, <1>8, <1>9 DEF Sleeps
<1> QED
  BY <1>1, <1>2, <1>3, <1>4, <1>7, <1>8, <1>10

(* The goroutines after goready. *)
LEMMA ReadiesGoroutines ==
    ASSUME Held, NEW g \in G, NEW r, Readies(g, r),
           \A x \in failed' : x \in failed \/ (item[r] = x /\ x # 0 /\ r \notin selectDone)
    PROVE  (\A e \in G : GoroutineOK(e)') /\ ApartOK'
<1>1. /\ r \in G /\ r # g /\ pc[r] = "parked" /\ Notified(r) /\ Awake(r)
      /\ readies'[g] = readies[g] \ {r} /\ \A e \in G : e # g => readies'[e] = readies[e]
      /\ pc'[g] = IF readies[g] = {r} THEN "idle" ELSE "goready"
      /\ pc'[r] = IF r \in selectDone THEN "woken" ELSE "idle"
      /\ \A e \in G : e # g /\ e # r => pc'[e] = pc[e]
      /\ \A e \in G : Awake(e)' <=> Awake(e) /\ e # r
      /\ \A e \in G : Notified(e)' <=> Notified(e) /\ (e # r \/ r \in selectDone)
  BY ReadiesView
<1>2. \A e \in G : GoroutineOK(e)
  BY DEF Held
<1>3. selectDone' = selectDone /\ items' = items /\ items \in Nat
  BY ChannelConstants DEF Readies, Held, ChanTypeOK
<1>4. \A e \in G : e # r \/ r \in selectDone
          => cases'[e] = cases[e] /\ item'[e] = item[e] /\ param'[e] = param[e]
  BY <1>1 DEF Readies, Held, ChanTypeOK
<1>5. r \notin selectDone => cases'[r] = {} /\ item'[r] = 0
  BY <1>1 DEF Readies, Held, ChanTypeOK
<1>6. readies[r] = {}
  BY <1>1, <1>2 DEF GoroutineOK
<1>7. \A e \in G : item'[e] = item[e] \/ item'[e] = 0
  BY <1>4, <1>5
<1>8. pc[g] = "goready" /\ ~Notified(g) /\ item[g] = 0 /\ g \notin selectDone /\ ~Awake(g)
  <2>1. pc[g] = "goready" /\ GoroutineOK(g)
    BY <1>2 DEF Readies
  <2> QED
    BY <2>1 DEF GoroutineOK, Notified
<1>9. ASSUME NEW e \in G
      PROVE  item'[e] \notin failed'
  <2>1. failed \subseteq 1..MaxItems
    BY DEF Held, ChanTypeOK
  <2>2. 0 \notin failed'
    BY <2>1
  <2>3. CASE item'[e] = 0
    BY <2>2, <2>3
  <2>4. CASE item'[e] # 0
    <3>1. item'[e] = item[e] /\ (e # r \/ r \in selectDone)
      BY <2>4, <1>5, <1>7
    <3>2. e # r => item[e] # item[r]
      BY <2>4, <3>1, <1>1 DEF Held, ApartOK
    <3>3. item[e] \notin failed
      BY <1>2 DEF GoroutineOK
    <3> QED
      BY <3>1, <3>2, <3>3
  <2> QED
    BY <2>3, <2>4
<1>10. \A e \in G : item'[e] <= items'
  BY <1>2, <1>3, <1>7 DEF GoroutineOK
<1>11. ASSUME NEW e \in G
       PROVE  GoroutineOK(e)'
  <2>1. item'[e] \notin failed' /\ item'[e] <= items'
    BY <1>9, <1>10
  <2>2. CASE e = g
    <3>1. cases'[g] = cases[g] /\ item'[g] = 0 /\ ~Notified(g)' /\ ~Awake(g)' /\ g \notin selectDone'
      BY <1>1, <1>3, <1>4, <1>8
    <3>2. pc'[g] \in {"idle", "goready"} /\ (readies'[g] # {} => pc'[g] = "goready")
      BY <1>1 DEF Readies
    <3> QED
      BY <2>1, <2>2, <3>1, <3>2 DEF GoroutineOK
  <2>3. CASE e = r /\ r \in selectDone
    <3>1. /\ cases'[r] = cases[r] /\ item'[r] = item[r] /\ param'[r] = param[r]
          /\ pc'[r] = "woken" /\ ~Awake(r)' /\ Notified(r)' /\ readies'[r] = {} /\ r \in selectDone'
      BY <2>3, <1>1, <1>3, <1>4, <1>6
    <3>2. Sends(cases[r])' <=> Sends(cases[r])
      BY <3>1 DEF Sends
    <3>3. GoroutineOK(r) /\ Notified(r) /\ pc[r] = "parked"
      BY <1>1, <1>2
    <3> QED
      BY <2>1, <2>3, <3>1, <3>2, <3>3 DEF GoroutineOK
  <2>4. CASE e = r /\ r \notin selectDone
    <3>1. /\ cases'[r] = {} /\ item'[r] = 0 /\ pc'[r] = "idle" /\ ~Awake(r)' /\ ~Notified(r)'
          /\ readies'[r] = {} /\ r \notin selectDone'
      BY <2>4, <1>1, <1>3, <1>5, <1>6
    <3> QED
      BY <2>1, <2>4, <3>1 DEF GoroutineOK
  <2>5. CASE e # g /\ e # r
    <3>1. /\ cases'[e] = cases[e] /\ item'[e] = item[e] /\ param'[e] = param[e] /\ pc'[e] = pc[e]
          /\ (Awake(e)' <=> Awake(e)) /\ (Notified(e)' <=> Notified(e)) /\ readies'[e] = readies[e]
      BY <2>5, <1>1, <1>4
    <3>2. Sends(cases[e])' <=> Sends(cases[e])
      BY <3>1 DEF Sends
    <3>3. GoroutineOK(e)
      BY <1>2
    <3> QED
      BY <2>1, <3>1, <3>2, <3>3, <1>3 DEF GoroutineOK
  <2> QED
    BY <2>2, <2>3, <2>4, <2>5
<1>12. ApartOK'
  <2>1. \A d, e \in G : item'[d] = item'[e] /\ item'[d] # 0 => d = e
    BY <1>7 DEF Held, ApartOK
  <2>2. \A e \in G : readies'[e] \subseteq readies[e]
    BY <1>1
  <2> QED
    BY <2>1, <2>2 DEF Held, ApartOK
<1> QED
  BY <1>11, <1>12

-----------------------------------------------------------------------------
(* goready, and the return of a call that is in no select. *)
LEMMA ReadyGood ==
    ASSUME Held, NEW g \in G, goready(g)
    PROVE  Good
<1>1. PICK r : Readies(g, r)
  BY DEF goready, Readies
<1>2. /\ r \in G /\ r # g /\ pc[r] = "parked" /\ Notified(r) /\ Awake(r)
      /\ readies'[g] = readies[g] \ {r} /\ \A e \in G : e # g => readies'[e] = readies[e]
      /\ pc'[g] = IF readies[g] = {r} THEN "idle" ELSE "goready"
      /\ pc'[r] = IF r \in selectDone THEN "woken" ELSE "idle"
      /\ \A e \in G : e # g /\ e # r => pc'[e] = pc[e]
      /\ \A e \in G : Notified(e)' <=> Notified(e) /\ (e # r \/ r \in selectDone)
      /\ \A e \in G : Sleeps(e)' <=> Sleeps(e)
      /\ ~Sleeps(r)
  BY <1>1, ReadiesView
<1>3. selectDone' = selectDone /\ items' = items /\ rcvd' = rcvd /\ ch' = ch /\ pc[g] = "goready"
  BY <1>1 DEF Readies
<1>4. \A e \in G : e # r \/ r \in selectDone
          => cases'[e] = cases[e] /\ item'[e] = item[e] /\ param'[e] = param[e]
  BY <1>1, <1>2 DEF Readies, Held, ChanTypeOK
<1>5. r \notin selectDone => cases'[r] = {} /\ item'[r] = 0
  BY <1>1, <1>2 DEF Readies, Held, ChanTypeOK
<1>6. GoroutineOK(r) /\ \A k \in Case : LineOK(Line(ch, k), k) /\ Line(ch, k) \in Seq(Sudog)
  BY <1>2, LineType DEF Held, HchansOK
<1>7. \A e \in G : e # r \/ r \in selectDone => (Won(e)' <=> Won(e))
  BY <1>2, <1>4 DEF Won
<1>8. r \notin selectDone => ~Won(r)'
  BY <1>2 DEF Won
<1>9. r \notin selectDone => param[r].case = cases[r] /\ (Won(r) <=> param[r].ok /\ Sends(cases[r]))
  BY <1>2, <1>6 DEF GoroutineOK, Won
<1>10. item[r] # 0 => Sends(cases[r])
  BY <1>6 DEF GoroutineOK
<1>11. /\ \A x \in acked' : x \in acked \/ (Won(r) /\ item[r] = x)
       /\ \A x \in failed' : x \in failed \/ (item[r] = x /\ x # 0 /\ r \notin selectDone /\ ~Won(r))
  <2>1. CASE r \in selectDone
    BY <2>1, <1>1 DEF Readies
  <2>2. CASE r \notin selectDone
    <3>1. /\ acked' = IF param[r].ok THEN acked \union ({item[r]} \ {0}) ELSE acked
          /\ failed' = IF param[r].ok THEN failed ELSE failed \union ({item[r]} \ {0})
      BY <2>2, <1>1 DEF Readies
    <3> QED
      BY <2>2, <3>1, <1>9, <1>10
  <2> QED
    BY <2>1, <2>2
<1>12. (\A e \in G : GoroutineOK(e)') /\ ApartOK'
  BY <1>1, <1>11, ReadiesGoroutines
<1>13. PICK R : R = IF r \in selectDone THEN {} ELSE {r}
  OBVIOUS
<1>14. ASSUME NEW k \in Case, NEW s \in ToSet(Line(ch, k))
       PROVE  s.g \notin R
  <2>1. SudogOK(s, k)
    BY <1>6 DEF LineOK
  <2>2. CASE s.g = r
    <3>1. ~Live(s)
      BY <2>1, <2>2, <1>2 DEF SudogOK
    <3>2. r \in selectDone
      BY <2>2, <3>1 DEF Live
    <3> QED
      BY <3>2, <1>13
  <2>3. CASE s.g # r
    BY <2>3, <1>13
  <2> QED
    BY <2>2, <2>3
<1>15. Leaves(R)
  BY <1>3, <1>14, SameChannels
<1>16. Rests(R)
  <2>1. \A e \in R : e \in G /\ Notified(e) /\ item'[e] = 0 /\ ~Won(e)' /\ ~Sleeps(e)'
    BY <1>2, <1>5, <1>8, <1>13
  <2>2. \A e \in G : pc[e] \in {"parked", "woken"} /\ e \notin R => pc'[e] \in {"parked", "woken"}
    BY <1>2, <1>3, <1>13
  <2>3. \A e \in G : e \notin R =>
           /\ cases'[e] = cases[e] /\ item'[e] = item[e] /\ (e \in selectDone' <=> e \in selectDone)
           /\ (Sleeps(e)' <=> Sleeps(e)) /\ (Won(e)' <=> Won(e))
    BY <1>2, <1>3, <1>4, <1>7, <1>13
  <2> QED
    BY <2>1, <2>2, <2>3, <1>2, <1>3, <1>11 DEF Rests
<1>17. HchansOK(ch)'
  BY <1>15, <1>16, RestsHchans
<1>18. Typed'
  <2>1. NoCase \in [case : SUBSET Case, ok : BOOLEAN] /\ 0 \in 0..MaxItems
    BY ChannelConstants DEF NoCase
  <2>2. /\ pc' \in [G -> {"idle", "parked", "woken", "goready"} \union Looks]
        /\ readies' \in [G -> SUBSET G]
    BY <1>1, <1>2, HeldFacts DEF Readies, Typed
  <2>3. /\ param' \in [G -> [case : SUBSET Case, ok : BOOLEAN]]
        /\ cases' \in [G -> SUBSET Case] /\ item' \in [G -> 0..MaxItems]
    <3>1. /\ param \in [G -> [case : SUBSET Case, ok : BOOLEAN]]
          /\ cases \in [G -> SUBSET Case] /\ item \in [G -> 0..MaxItems]
      BY HeldFacts DEF Typed
    <3>2. CASE r \in selectDone
      BY <3>1, <3>2, <1>1 DEF Readies
    <3>3. CASE r \notin selectDone
      <4>1. /\ cases' = [cases EXCEPT ![r] = {}] /\ item' = [item EXCEPT ![r] = 0]
            /\ param' = [param EXCEPT ![r] = NoCase]
        BY <3>3, <1>1 DEF Readies
      <4> QED
        BY <2>1, <3>1, <4>1
    <3> QED
      BY <3>2, <3>3
  <2>4. failed' \subseteq 1..MaxItems
    <3>1. item[r] \in 0..MaxItems /\ failed \subseteq 1..MaxItems
      BY <1>2, HeldFacts DEF Typed
    <3>2. \A y \in 0..MaxItems : y # 0 => y \in 1..MaxItems
      OBVIOUS
    <3> QED
      BY <3>1, <3>2, <1>11
  <2> QED
    BY <2>2, <2>3, <2>4, <1>3, HeldFacts DEF Typed
<1>19. Steady
  <2>1. \A e \in G : pc'[e] \in {"empty?", "open?", "still empty?"} => e # g /\ e # r
    BY <1>2
  <2> QED
    BY <2>1, <1>2, <1>3, <1>4 DEF Steady
<1> QED
  BY <1>12, <1>17, <1>18, <1>19 DEF Good, Kept

-----------------------------------------------------------------------------
(* Those that look. *)

(* What a step of g changes when it only looks. *)
Peeks(g) ==
    /\ pc[g] \notin {"parked", "woken", "goready"} /\ UNCHANGED <<ch, wake, log>>
    /\ pc' \in [G -> {"idle", "parked", "woken", "goready"} \union Looks]
    /\ pc'[g] \notin {"parked", "woken"} /\ item'[g] = 0
    /\ cases' \in [G -> SUBSET Case] /\ item' \in [G -> 0..MaxItems]
    /\ \A e \in G : e # g => pc'[e] = pc[e] /\ cases'[e] = cases[e] /\ item'[e] = item[e]

(* A look keeps the invariant. *)
LEMMA PeeksKept ==
    ASSUME Held, NEW g \in G, Peeks(g)
    PROVE  Kept' /\ Typed' /\ (pc'[g] \notin {"empty?", "open?", "still empty?"} => Good)
<1>1. PICK t : t = ch
  OBVIOUS
<1>2. Thinned(ch, t) /\ ch' = t
  BY <1>1, ThinnedSelf DEF Peeks
<1> QED
  BY <1>2, QuietGood DEF Peeks

(* On to another look. *)
LEMMA GoOnPeeks ==
    ASSUME Held, NEW g \in G, pc[g] \in Looks, NEW l \in Looks, GoOn(g, l),
           UNCHANGED <<ch, wake, log>>
    PROVE  Peeks(g) /\ pc'[g] = l /\ cases' = cases
<1>1. item[g] = 0
  BY DEF Held, GoroutineOK, Looks
<1> QED
  BY <1>1 DEF GoOn, Held, ChanTypeOK, Peeks, Looks

(* The look was enough. *)
LEMMA LeavePeeks ==
    ASSUME Held, NEW g \in G, pc[g] \in Looks, Leave(g), UNCHANGED <<ch, wake, log>>
    PROVE  Peeks(g) /\ pc'[g] = "idle"
<1>1. 0 \in 0..MaxItems
  BY ChannelConstants
<1> QED
  BY <1>1 DEF Leave, Held, ChanTypeOK, Peeks, Looks

(* selectnbsend and selectnbrecv begin to look. *)
LEMMA NonBlockPeeks ==
    ASSUME Held, NEW g \in G, NEW k \in Case, NonBlock(g, k)
    PROVE  /\ Peeks(g) /\ cases'[g] = {k}
           /\ pc'[g] = IF k.dir = "send" THEN "closed?" ELSE "empty?"
<1>1. pc[g] = "idle" /\ item[g] = 0
  BY DEF NonBlock, Held, GoroutineOK
<1>2. PICK l \in Looks : l = IF k.dir = "send" THEN "closed?" ELSE "empty?"
  BY DEF Looks
<1>3. pc' = [pc EXCEPT ![g] = l] /\ cases' = [cases EXCEPT ![g] = {k}] /\ item' = item
      /\ UNCHANGED <<ch, wake, log>>
  BY <1>2 DEF NonBlock
<1>4. Peeks(g) /\ cases'[g] = {k} /\ pc'[g] = l
  BY <1>1, <1>2, <1>3 DEF Held, ChanTypeOK, Peeks, Looks
<1> QED
  BY <1>2, <1>4

(* The fast path of chansend. *)
LEMMA FastSendGood ==
    ASSUME Held, NEW g \in G, FastSend(g)
    PROVE  Good
<1>1. UNCHANGED <<ch, wake, log>> /\ pc[g] \in Looks
  BY DEF FastSend, Looks
<1>2. (\E l \in {"lock", "full?"} : GoOn(g, l)) \/ Leave(g)
  BY DEF FastSend
<1>3. ASSUME NEW l \in {"lock", "full?"}, GoOn(g, l)
      PROVE  Good
  <2>1. l \in Looks
    BY DEF Looks
  <2> QED
    BY <2>1, <1>1, <1>3, GoOnPeeks, PeeksKept
<1>4. ASSUME Leave(g)
      PROVE  Good
  BY <1>1, <1>4, LeavePeeks, PeeksKept
<1> QED
  BY <1>2, <1>3, <1>4

(* Non-blocking operations under the lock. *)
LEMMA NonBlockLockedGood ==
    ASSUME Held, NEW g \in G, NonBlockLocked(g)
    PROVE  Good
<1>1. pc[g] = "lock" /\ cases[g] \subseteq Case
  BY DEF NonBlockLocked, Held, ChanTypeOK
<1>2. PICK k \in Case : \/ Do(g, k, ch)
                        \/ ch' = Purged({k}) /\ Leave(g) /\ UNCHANGED <<wake, log>>
  BY <1>1 DEF NonBlockLocked
<1>3. CASE Do(g, k, ch)
  BY <1>1, <1>3, ThinnedSelf, DoGood
<1>4. CASE ch' = Purged({k}) /\ Leave(g) /\ UNCHANGED <<wake, log>>
  <2>1. Thinned(ch, Purged({k}))
    BY PurgedThinned DEF Held
  <2>2. 0 \in 0..MaxItems
    BY ChannelConstants
  <2>3. UNCHANGED <<wake, log>>
    BY <1>4
  <2>4. /\ pc' \in [G -> {"idle", "parked", "woken", "goready"} \union Looks]
        /\ cases' \in [G -> SUBSET Case] /\ item' \in [G -> 0..MaxItems]
        /\ pc'[g] = "idle" /\ item'[g] = 0
        /\ \A e \in G : e # g => pc'[e] = pc[e] /\ cases'[e] = cases[e] /\ item'[e] = item[e]
    BY <2>2, <1>4 DEF Leave, Held, ChanTypeOK
  <2> QED
    BY <2>1, <2>3, <2>4, <1>1, <1>4, QuietGood
<1> QED
  BY <1>2, <1>3, <1>4

-----------------------------------------------------------------------------
(* What is seen without the lock. *)

(* The choice among one. *)
LEMMA OnlyCase ==
    ASSUME NEW k, NEW ks, ks = {k}
    PROVE  (CHOOSE j \in ks : TRUE) = k
  OBVIOUS

(* Whether there is nothing depends on the channels and on selectDone. *)
LEMMA NothingSame ==
    ASSUME ch' = ch, selectDone' = selectDone, NEW c
    PROVE  Nothing(c)' <=> Nothing(c)
<1>1. Purge(ch[c].sendq)' = Purge(ch[c].sendq)
  BY DEF Purge, SelectInSeq, Live
<1>2. Recv(c).chan = c /\ Recv(c).dir = "recv"
  BY DEF Recv
<1>3. Ready(Recv(c)) <=> ch[c].closed \/ Purge(ch[c].sendq) # <<>> \/ ch[c].qcount > 0
  BY <1>2 DEF Ready
<1>4. Ready(Recv(c))' <=> ch'[c].closed \/ Purge(ch[c].sendq)' # <<>> \/ ch'[c].qcount > 0
  BY <1>2 DEF Ready
<1> QED
  BY <1>1, <1>3, <1>4 DEF Nothing

(* A channel that is open and seems empty has nothing. *)
LEMMA EmptyNothing ==
    ASSUME Held, NEW c \in Chan, empty(c)
    PROVE  ch[c].qcount = 0 /\ (~ch[c].closed => Nothing(c))
<1>1. /\ dataqsiz[c] \in Nat /\ ch[c].qcount \in 0..dataqsiz[c] /\ ch[c].sendq \in Seq(Sudog)
      /\ WaitOK(ch[c], c)
  BY HchanFields DEF Held, HchansOK
<1>2. ch[c].qcount = 0
  BY <1>1 DEF empty
<1>3. WaitersIn(ch[c].sendq) = {}
  <2>1. CASE dataqsiz[c] = 0
    BY <2>1, NoWaiters DEF empty
  <2>2. CASE dataqsiz[c] # 0
    BY <2>2, <1>1, <1>2 DEF WaitOK
  <2> QED
    BY <2>1, <2>2
<1>4. Purge(ch[c].sendq) = <<>>
  BY <1>1, <1>3, PurgeWaiters
<1> QED
  BY <1>2, <1>4, NotReady DEF Nothing

(* What g has to see to. *)
Sees(g) ==
    /\ pc'[g] \in {"empty?", "open?", "still empty?"} => \E c \in Chan : cases'[g] = {Recv(c)}
    /\ \A c \in Chan : cases'[g] = {Recv(c)} =>
           /\ pc'[g] = "open?" => g \in witness' \/ ch'[c].closed
           /\ pc'[g] = "still empty?" => ch'[c].closed

(* What one that looks has seen. *)
LEMMA LookFacts ==
    ASSUME LookOK, NEW g \in G
    PROVE  /\ pc[g] \in {"empty?", "open?", "still empty?"}
                  => \E c \in Chan : cases[g] = {Recv(c)} /\ ChanOf(g) = c
           /\ \A c \in Chan : cases[g] = {Recv(c)} =>
                  /\ pc[g] = "open?" => g \in witness \/ ch[c].closed
                  /\ pc[g] = "still empty?" => ch[c].closed
<1>1. \A c \in Chan : cases[g] = {Recv(c)} => ChanOf(g) = c
  BY OnlyCase, CaseFacts DEF ChanOf
<1> QED
  BY <1>1 DEF LookOK

(* Everybody sees to it. *)
LEMMA SeesLook ==
    ASSUME \A g \in G : Sees(g)
    PROVE  LookOK'
<1> SUFFICES ASSUME NEW g \in G
             PROVE  /\ pc'[g] \in {"empty?", "open?", "still empty?"}
                           => \E c \in Chan : cases'[g] = {Recv(c)}
                    /\ pc'[g] = "open?" => g \in witness' \/ ch'[ChanOf(g)'].closed
                    /\ pc'[g] = "still empty?" => ch'[ChanOf(g)'].closed
  BY DEF LookOK
<1>1. \A c \in Chan : cases'[g] = {Recv(c)} => ChanOf(g)' = c
  BY OnlyCase, CaseFacts DEF ChanOf
<1> QED
  BY <1>1 DEF Sees

(* Who goes on waiting to look keeps what it has seen: no channel is opened again. *)
LEMMA SteadySees ==
    ASSUME LookOK, NEW g \in G, Witnessed, \A c \in Chan : ch[c].closed => ch'[c].closed,
           pc'[g] \in {"empty?", "open?", "still empty?"} => pc'[g] = pc[g] /\ cases'[g] = cases[g]
    PROVE  Sees(g)
<1>1. pc'[g] = "open?" /\ g \in witness => g \in witness'
  BY DEF Witnessed
<1> QED
  BY <1>1, LookFacts DEF Sees

(* The whole invariant after an action that is no look. *)
LEMMA GoodLook ==
    ASSUME Held, LookOK, Witnessed, Good
    PROVE  ChanInv'
<1>1. LookOK'
  BY SteadySees, SeesLook DEF Good, Steady
<1>2. (HchansOK(ch)' /\ Typed') => ChanTypeOK'
  BY TypedEnough, PTL
<1> QED
  BY <1>1, <1>2 DEF Good, Kept, ChanInv

-----------------------------------------------------------------------------
(* The whole invariant after a look. *)
LEMMA PeeksLook ==
    ASSUME Held, LookOK, Witnessed, NEW g \in G, Peeks(g), Sees(g)
    PROVE  ChanInv'
<1>1. Kept' /\ Typed'
  BY PeeksKept
<1>2. ASSUME NEW e \in G
      PROVE  Sees(e)
  <2>1. CASE e = g
    BY <2>1
  <2>2. CASE e # g
    BY <2>2, SteadySees DEF Peeks
  <2> QED
    BY <2>1, <2>2
<1>3. LookOK'
  BY <1>2, SeesLook
<1>4. (HchansOK(ch)' /\ Typed') => ChanTypeOK'
  BY TypedEnough, PTL
<1> QED
  BY <1>1, <1>3, <1>4 DEF Kept, ChanInv

(* The first step of a non-blocking operation. *)
LEMMA NonBlockInv ==
    ASSUME Held, LookOK, Witnessed, NEW g \in G, NEW k \in Case, NonBlock(g, k)
    PROVE  ChanInv'
<1>1. Peeks(g) /\ cases'[g] = {k} /\ pc'[g] = IF k.dir = "send" THEN "closed?" ELSE "empty?"
  BY NonBlockPeeks
<1>2. pc'[g] = "empty?" => \E c \in Chan : k = Recv(c)
  BY <1>1, CaseFacts
<1>3. pc'[g] # "open?" /\ pc'[g] # "still empty?"
  BY <1>1
<1>4. Sees(g)
  BY <1>1, <1>2, <1>3 DEF Sees
<1> QED
  BY <1>1, <1>4, PeeksLook

(* The fast path of chanrecv: a channel that was open after it was empty had nothing then. *)
LEMMA FastRecvInv ==
    ASSUME Held, LookOK, Witnessed, NEW g \in G, FastRecv(g)
    PROVE  ChanInv'
<1>1. pc[g] \in {"empty?", "open?", "still empty?"} /\ pc[g] \in Looks /\ UNCHANGED <<ch, wake, log>>
  BY DEF FastRecv, Looks
<1>2. PICK c \in Chan : cases[g] = {Recv(c)} /\ ChanOf(g) = c
  BY <1>1, LookFacts
<1>3. ch' = ch /\ selectDone' = selectDone
  BY <1>1 DEF wake
<1>4. CASE Leave(g)
  <2>1. Peeks(g) /\ pc'[g] = "idle"
    BY <1>1, <1>4, LeavePeeks
  <2> QED
    BY <2>1, PeeksLook DEF Sees
<1>5. CASE GoOn(g, "lock")
  <2>1. Peeks(g) /\ pc'[g] = "lock"
    <3>1. "lock" \in Looks
      BY DEF Looks
    <3> QED
      BY <3>1, <1>1, <1>5, GoOnPeeks
  <2> QED
    BY <2>1, PeeksLook DEF Sees
<1>6. CASE pc[g] = "empty?" /\ empty(c) /\ GoOn(g, "open?")
  <2>1. Peeks(g) /\ pc'[g] = "open?" /\ cases' = cases
    <3>1. "open?" \in Looks
      BY DEF Looks
    <3> QED
      BY <3>1, <1>1, <1>6, GoOnPeeks
  <2>2. Recv(c) \in cases'[g]
    BY <2>1, <1>2
  <2>3. g \in witness' \/ ch'[c].closed
    <3>1. Nothing(c)' => g \in witness'
      BY <2>1, <2>2 DEF Witnessed
    <3>2. ~ch[c].closed => Nothing(c)
      BY <1>6, EmptyNothing
    <3>3. Nothing(c)' <=> Nothing(c)
      BY <1>3, NothingSame
    <3> QED
      BY <3>1, <3>2, <3>3, <1>3
  <2>4. \A d \in Chan : cases'[g] = {Recv(d)} => d = c
    <3> SUFFICES ASSUME NEW d \in Chan, cases'[g] = {Recv(d)} PROVE d = c
      OBVIOUS
    <3>1. Recv(d) = Recv(c)
      BY <2>1, <1>2
    <3> QED
      BY <3>1, CaseFacts
  <2>5. Sees(g)
    BY <2>1, <2>3, <2>4, <1>2 DEF Sees
  <2> QED
    BY <2>1, <2>5, PeeksLook
<1>7. CASE ch[c].closed /\ GoOn(g, "still empty?")
  <2>1. Peeks(g) /\ pc'[g] = "still empty?" /\ cases' = cases
    <3>1. "still empty?" \in Looks
      BY DEF Looks
    <3> QED
      BY <3>1, <1>1, <1>7, GoOnPeeks
  <2>2. \A d \in Chan : cases'[g] = {Recv(d)} => d = c
    <3> SUFFICES ASSUME NEW d \in Chan, cases'[g] = {Recv(d)} PROVE d = c
      OBVIOUS
    <3>1. Recv(d) = Recv(c)
      BY <2>1, <1>2
    <3> QED
      BY <3>1, CaseFacts
  <2>3. Sees(g)
    BY <2>1, <2>2, <1>2, <1>3, <1>7 DEF Sees
  <2> QED
    BY <2>1, <2>3, PeeksLook
<1>8. \/ GoOn(g, "lock") \/ Leave(g) \/ (ch[c].closed /\ GoOn(g, "still empty?"))
      \/ (pc[g] = "empty?" /\ empty(c) /\ GoOn(g, "open?"))
  BY <1>2 DEF FastRecv
<1> QED
  BY <1>4, <1>5, <1>6, <1>7, <1>8

(* Every step keeps the invariant: one case per action. *)
LEMMA NextInv ==
    ASSUME ChanInv, [ChanNext]_chanVars
    PROVE  ChanInv'
<1>1. Held /\ LookOK
  BY DEF ChanInv, Held
<1>2. CASE UNCHANGED chanVars
  <2>1. UNCHANGED <<ch, selectDone, pc, cases, item, param, readies, items, rcvd, acked, failed, witness>>
    BY <1>2 DEF chanVars
  <2>2. /\ ChanTypeOK' /\ (\A g \in G : GoroutineOK(g)') /\ ApartOK'
    BY <1>1, <2>1 DEF Held, ChanTypeOK, GoroutineOK, ApartOK, Awake, Notified, Sends
  <2>3. Rests({}) /\ Leaves({})
    <3>1. \A g \in G : (Sleeps(g)' <=> Sleeps(g)) /\ (Won(g)' <=> Won(g))
      BY <2>1 DEF Sleeps, Won, Awake, Notified
    <3>2. PICK R : R = {}
      OBVIOUS
    <3>3. Rests(R) /\ Leaves(R)
      BY <1>1, <2>1, <3>1, <3>2, SameChannels DEF Rests
    <3> QED
      BY <3>2, <3>3
  <2>4. HchansOK(ch)'
    BY <1>1, <2>3, RestsHchans
  <2>5. LookOK'
    BY <1>1, <2>1 DEF LookOK, ChanOf
  <2> QED
    BY <2>2, <2>4, <2>5 DEF ChanInv
<1>3. CASE ChanNext
  <2>1. Witnessed
    BY <1>3 DEF ChanNext
  <2>2. SUFFICES ASSUME Good PROVE ChanInv'
    <3>1. ASSUME Good PROVE ChanInv'
      BY <3>1, <2>2
    <3>2. PICK g \in G :
              \/ \E k \in Case : Block(g, k) \/ NonBlock(g, k)
              \/ \E ks \in kSubset(2, Case), block \in BOOLEAN : Select(g, ks, block)
              \/ \E c \in Chan : Close(g, c)
              \/ Pass3(g) \/ goready(g)
              \/ FastSend(g) \/ FastRecv(g) \/ NonBlockLocked(g)
      BY <1>3 DEF ChanNext
    <3>3. CASE \E k \in Case : Block(g, k)
      BY <3>1, <3>3, <1>1, BlockGood
    <3>4. CASE \E k \in Case : NonBlock(g, k)
      BY <3>4, <2>1, <1>1, NonBlockInv
    <3>5. CASE \E ks \in kSubset(2, Case), block \in BOOLEAN : Select(g, ks, block)
      <4>1. PICK ks \in kSubset(2, Case), block \in BOOLEAN : Select(g, ks, block)
        BY <3>5
      <4>2. ks \in SUBSET Case
        BY DEF kSubset
      <4> QED
        BY <4>1, <4>2, <3>1, <1>1, SelectGood
    <3>6. CASE \E c \in Chan : Close(g, c)
      BY <3>1, <3>6, <1>1, CloseGood
    <3>7. CASE Pass3(g)
      BY <3>1, <3>7, <1>1, Pass3Good
    <3>8. CASE goready(g)
      BY <3>1, <3>8, <1>1, ReadyGood
    <3>9. CASE FastSend(g)
      BY <3>1, <3>9, <1>1, FastSendGood
    <3>10. CASE FastRecv(g)
      BY <3>10, <2>1, <1>1, FastRecvInv
    <3>11. CASE NonBlockLocked(g)
      BY <3>1, <3>11, <1>1, NonBlockLockedGood
    <3> QED
      BY <3>2, <3>3, <3>4, <3>5, <3>6, <3>7, <3>8, <3>9, <3>10, <3>11
  <2> QED
    BY <2>1, <2>2, <1>1, GoodLook
<1> QED
  BY <1>2, <1>3

(* It holds at the start: all is empty. *)
LEMMA InitInv ==
    ASSUME ChanInit
    PROVE  ChanInv
<1>1. ASSUME NEW c \in Chan
      PROVE  /\ ch[c] \in Hchan(c) /\ ~ch[c].closed /\ ch[c].qcount = 0
             /\ ch[c].sendx = 0 /\ ch[c].recvx = 0
             /\ ch[c].sendq = <<>> /\ ch[c].recvq = <<>> /\ rcvd[c] = <<>>
  <2>1. ch[c] = [closed |-> FALSE, qcount |-> 0, sendx |-> 0, recvx |-> 0,
                 buf |-> [i \in 0..dataqsiz[c] - 1 |-> 0], sendq |-> <<>>, recvq |-> <<>>]
    BY DEF ChanInit
  <2>2. PICK b : b = [i \in 0..dataqsiz[c] - 1 |-> 0]
    OBVIOUS
  <2>3. b \in [0..dataqsiz[c] - 1 -> 0..MaxItems] /\ 0 \in 0..dataqsiz[c]
    BY <2>2, ChannelConstants
  <2>4. <<>> \in Seq(Sudog)
    OBVIOUS
  <2>5. ch[c] = [closed |-> FALSE, qcount |-> 0, sendx |-> 0, recvx |-> 0,
                 buf |-> b, sendq |-> <<>>, recvq |-> <<>>]
    BY <2>1, <2>2, Zenon
  <2> QED
    BY <2>3, <2>4, <2>5 DEF Hchan, ChanInit
<1>2. Typed
  <2>1. NoCase \in [case : SUBSET Case, ok : BOOLEAN] /\ 0 \in 0..MaxItems /\ <<>> \in Seq(Nat)
    BY ChannelConstants DEF NoCase
  <2> QED
    BY <2>1 DEF ChanInit, Typed
<1>3. /\ \A g \in G : /\ pc[g] = "idle" /\ item[g] = 0 /\ readies[g] = {} /\ cases[g] = {}
      /\ selectDone = {} /\ items = 0 /\ acked = {} /\ failed = {}
  BY DEF ChanInit
<1>4. \A g \in G : ~Awake(g) /\ ~Notified(g) /\ ~Sleeps(g) /\ ~Won(g)
  BY <1>3 DEF Awake, Notified, Sleeps, Won
<1>5. \A g \in G : GoroutineOK(g)
  BY <1>3, <1>4 DEF GoroutineOK
<1>6. ApartOK
  BY <1>3 DEF ApartOK
<1>7. <<>> \in Seq(Sudog) /\ ToSet(<<>>) = {} /\ WaitersIn(<<>>) = {} /\ Len(<<>>) = 0
  <2>1. <<>> \in Seq(Sudog) /\ Len(<<>>) = 0
    OBVIOUS
  <2> QED
    BY <2>1, ToSetFacts, NoWaiters
<1>8. \A k \in Case : LineOK(Line(ch, k), k)
  <2>1. \A k \in Case : Line(ch, k) = <<>>
    BY <1>1, CaseFacts DEF Line
  <2>2. \A k : InOrder(<<>>, k)
    BY <1>7 DEF InOrder
  <2> QED
    BY <2>1, <2>2, <1>4, <1>7 DEF LineOK
<1>9. \A c \in Chan : WaitOK(ch[c], c) /\ RingOK(ch[c], c)
  <2>1. \A c \in Chan : WaitOK(ch[c], c)
    BY <1>1, <1>7 DEF WaitOK
  <2>2. \A c \in Chan : RingOK(ch[c], c)
    <3> SUFFICES ASSUME NEW c \in Chan PROVE RingOK(ch[c], c)
      OBVIOUS
    <3>1. dataqsiz[c] \in Nat
      BY ChannelConstants
    <3> QED
      BY <3>1, <1>1 DEF RingOK, Slot
  <2> QED
    BY <2>1, <2>2
<1>10. \A c \in Chan : Outs(ch)[c] = <<>>
  <2> SUFFICES ASSUME NEW c \in Chan PROVE Outs(ch)[c] = <<>>
    OBVIOUS
  <2>1. Outs(ch)[c] = <<>> \o <<>>
    <3>1. Outs(ch)[c] = <<>> \o Ring(ch[c].buf, ch[c].recvx, 0, dataqsiz[c])
      BY <1>1, OutsAt
    <3> QED
      BY <3>1, EmptyRing, Zenon
  <2> QED
    BY <2>1
<1>11. PICK o : o = Outs(ch)
  OBVIOUS
<1>12. <<>> \in Seq(Nat) /\ StrictlyIncreasing(<<>>)
  <2>1. <<>> \in Seq(Nat) /\ DOMAIN <<>> = {}
    OBVIOUS
  <2> QED
    BY <2>1 DEF StrictlyIncreasing
<1>13. OutsOK(o) /\ AfterOK(ch, o)
  BY <1>1, <1>3, <1>4, <1>7, <1>10, <1>11, <1>12 DEF OutsOK, AfterOK
<1>14. DOMAIN ch = Chan
  BY DEF ChanInit
<1>15. HchansOK(ch)
  BY <1>1, <1>8, <1>9, <1>11, <1>13, <1>14 DEF HchansOK
<1>16. LookOK
  BY <1>3 DEF LookOK
<1> QED
  BY <1>2, <1>5, <1>6, <1>15, <1>16, TypedEnough DEF ChanInv

-----------------------------------------------------------------------------
(* What chan.go and select.go keep between any two sections under the locks: *)
(* a goroutine that is parked has one sudog in the queue of each of its cases *)
(* and nobody on the way to it, or was notified once; the queues are in the   *)
(* order of the items; nobody waits at a channel that is closed or could      *)
(* serve it; the ring buffer is filled from recvx to sendx; what came out or  *)
(* is buffered is in order, acknowledged only then, and older than what waits.*)
THEOREM ChanInvariant == ChanSpec => []ChanInv
<1>1. ChanInit => ChanInv
  BY InitInv
<1>2. ChanInv /\ [ChanNext]_chanVars => ChanInv'
  BY NextInv
<1> QED
  BY <1>1, <1>2, PTL DEF ChanSpec

(* Items come out of a channel in the order in which they got to it, each   *)
(* once and of one channel, and chansend and selectgo report a send that    *)
(* succeeded only for an item that got through, and a panic only for one    *)
(* that did not.                                                            *)
THEOREM ChanDelivered == ChanSpec => []Delivered
<1>1. ASSUME ChanInv
      PROVE  Delivered
  <2>1. OutsOK(Outs(ch)) /\ AfterOK(ch, Outs(ch)) /\ ChanTypeOK
    BY <1>1 DEF ChanInv, HchansOK
  <2>2. \A c \in Chan : Out(c) = Outs(ch)[c] /\ Through(c) = ToSet(Outs(ch)[c])
    BY DEF Out, Buffer, Outs, Ring, Through
  <2>3. PICK o : o = Outs(ch)
    OBVIOUS
  <2>4. ASSUME NEW c \in Chan
        PROVE  StrictlyIncreasing(Out(c)) /\ Pending(c)
    <3>1. StrictlyIncreasing(Out(c))
      BY <2>1, <2>2 DEF OutsOK
    <3>2. PICK q : q = ch[c].sendq
      OBVIOUS
    <3>3. q \in Seq(Sudog) /\ InOrder(q, Send(c)) /\ Send(c).dir = "send"
      BY <1>1, <3>2, HchanFields, CaseFacts, LineOf DEF ChanInv, HchansOK, LineOK
    <3>4. DOMAIN q = 1..Len(q)
      BY <3>3
    <3>5. ASSUME NEW i \in DOMAIN q, Live(q[i])
          PROVE  \A x \in Through(c) : x < q[i].item
      <4>1. q[i] \in WaitersIn(q)
        BY <3>3, <3>4, <3>5, ToSetFacts DEF WaitersIn
      <4> QED
        BY <2>1, <2>2, <3>2, <4>1 DEF AfterOK
    <3>6. \A i, j \in DOMAIN q : i < j => q[i].item < q[j].item
      BY <3>3, <3>4 DEF InOrder
    <3>7. Pending(c)
      BY <3>2, <3>5, <3>6 DEF Pending
    <3> QED
      BY <3>1, <3>7
  <2>5. \A c, d \in Chan : c # d => Through(c) \intersect Through(d) = {}
    BY <2>1, <2>2 DEF OutsOK
  <2>6. /\ acked \subseteq UNION {Through(c) : c \in Chan}
        /\ failed \intersect UNION {Through(c) : c \in Chan} = {}
    <3>1. /\ \A x \in acked : \E c \in Chan : x \in Through(c)
          /\ \A c \in Chan : \A x \in Through(c) : x \notin failed
      BY <2>1, <2>2 DEF OutsOK
    <3> QED
      BY <3>1
  <2> QED
    BY <2>1, <2>4, <2>5, <2>6 DEF Delivered
<1> QED
  BY <1>1, ChanInvariant, PTL

(* No goroutine that gopark has put to sleep in chansend, chanrecv or       *)
(* selectgo could go on: its sudogs are in all its queues and none of its   *)
(* channels is ready for it, or exactly one goroutine will make it ready.   *)
THEOREM ChanParked == ChanSpec => []Parked
<1>1. ASSUME ChanInv
      PROVE  Parked
  <2> SUFFICES ASSUME NEW g \in G, pc[g] = "parked"
               PROVE  LET wakers == {r \in G : g \in readies[r]}
                          InQueue(q) == \E s \in WaitersIn(q) : s.g = g
                          Alone(q) == \A s \in WaitersIn(q) : s.g = g
                      IN  \/ /\ wakers = {} /\ g \notin selectDone
                             /\ \A k \in cases[g] : LET c == ch[k.chan] IN
                                  /\ ~c.closed
                                  /\ k.dir = "send" => InQueue(c.sendq) /\ Alone(c.recvq)
                                                       /\ c.qcount = dataqsiz[k.chan]
                                  /\ k.dir = "recv" => InQueue(c.recvq) /\ Alone(c.sendq)
                                                       /\ c.qcount = 0
                          \/ /\ Cardinality(wakers) = 1
                             /\ param[g].case # {} /\ param[g].case \subseteq cases[g]
    BY DEF Parked
  <2> DEFINE wakers == {r \in G : g \in readies[r]}
             InQueue(q) == \E s \in WaitersIn(q) : s.g = g
             Alone(q) == \A s \in WaitersIn(q) : s.g = g
  <2>1. GoroutineOK(g) /\ ApartOK /\ cases[g] \subseteq Case
    BY <1>1 DEF ChanInv, ChanTypeOK
  <2>2. CASE Awake(g)
    <3>1. PICK r \in G : g \in readies[r]
      BY <2>2 DEF Awake
    <3>2. wakers = {r}
      BY <2>1, <3>1 DEF ApartOK
    <3>3. Cardinality(wakers) = 1
      BY <3>2, FS_Singleton
    <3>4. param[g].case # {} /\ param[g].case \subseteq cases[g]
      BY <2>1, <2>2 DEF GoroutineOK, Notified
    <3> QED
      BY <3>3, <3>4
  <2>3. CASE ~Awake(g)
    <3>1. wakers = {}
      BY <2>3 DEF Awake
    <3>2. g \notin selectDone /\ Sleeps(g)
      BY <2>1, <2>3 DEF GoroutineOK, Notified, Sleeps
    <3>3. ASSUME NEW k \in cases[g]
          PROVE  /\ ~ch[k.chan].closed
                 /\ k.dir = "send" => /\ InQueue(ch[k.chan].sendq) /\ Alone(ch[k.chan].recvq)
                                      /\ ch[k.chan].qcount = dataqsiz[k.chan]
                 /\ k.dir = "recv" => /\ InQueue(ch[k.chan].recvq) /\ Alone(ch[k.chan].sendq)
                                      /\ ch[k.chan].qcount = 0
      <4>1. k \in Case /\ k.chan \in Chan
        BY <2>1, CaseFacts
      <4>2. PICK s \in ToSet(Line(ch, k)) : s.g = g
        BY <1>1, <3>2, <4>1 DEF ChanInv, HchansOK, LineOK
      <4>3. s \in WaitersIn(Line(ch, k))
        BY <3>2, <4>2 DEF WaitersIn, Live
      <4>4. WaitOK(ch[k.chan], k.chan)
        BY <1>1, <4>1 DEF ChanInv, HchansOK
      <4>5. k.dir = "send" => s \in WaitersIn(ch[k.chan].sendq)
        BY <4>3 DEF Line
      <4>6. k.dir # "send" => s \in WaitersIn(ch[k.chan].recvq)
        BY <4>3 DEF Line
      <4>7. ~ch[k.chan].closed
        BY <4>4, <4>5, <4>6, NoWaiters DEF WaitOK
      <4>8. k.dir = "send" => /\ Alone(ch[k.chan].recvq)
                              /\ ch[k.chan].qcount = dataqsiz[k.chan]
        BY <4>2, <4>4, <4>5 DEF WaitOK
      <4>9. k.dir # "send" => Alone(ch[k.chan].sendq) /\ ch[k.chan].qcount = 0
        BY <4>2, <4>4, <4>6 DEF WaitOK
      <4> QED
        BY <4>2, <4>5, <4>6, <4>7, <4>8, <4>9
    <3> QED
      BY <3>1, <3>2, <3>3
  <2> QED
    BY <2>2, <2>3
<1> QED
  BY <1>1, ChanInvariant, PTL

(* Who else than g changes its place. *)
LEMMA DoPlace ==
    ASSUME NEW g, NEW k, NEW h, Do(g, k, h)
    PROVE  \E v : pc' = [pc EXCEPT ![g] = v]
  BY DEF Do, DoSend, DoRecv, Leave, Dequeued

(* Only the fast path ends a look. *)
LEMMA LookersPlace ==
    ASSUME ChanInv, ChanNext, NEW e \in G, pc[e] \in {"open?", "still empty?"}, pc'[e] # pc[e]
    PROVE  FastRecv(e)
<1>1. pc \in [G -> {"idle", "parked", "woken", "goready"} \union Looks]
  BY DEF ChanInv, ChanTypeOK
<1>2. ASSUME NEW g \in G, NEW v, pc' = [pc EXCEPT ![g] = v],
             pc[g] \notin {"open?", "still empty?"}
      PROVE  FALSE
  BY <1>1, <1>2
<1>3. PICK g \in G :
          \/ \E k \in Case : Block(g, k) \/ NonBlock(g, k)
          \/ \E ks \in kSubset(2, Case), block \in BOOLEAN : Select(g, ks, block)
          \/ \E c \in Chan : Close(g, c)
          \/ Pass3(g) \/ goready(g)
          \/ FastSend(g) \/ FastRecv(g) \/ NonBlockLocked(g)
  BY DEF ChanNext
<1>4. CASE \E k \in Case : Block(g, k)
  <2>1. PICK k \in Case : pc[g] = "idle" /\ (Do(g, k, ch) \/ Enqueue(g, {k}, FALSE))
    BY <1>4 DEF Block
  <2>2. \E v : pc' = [pc EXCEPT ![g] = v]
    BY <2>1, DoPlace DEF Enqueue
  <2> QED
    BY <2>1, <2>2, <1>2
<1>5. CASE \E k \in Case : NonBlock(g, k)
  BY <1>2, <1>5 DEF NonBlock
<1>6. CASE \E ks \in kSubset(2, Case), block \in BOOLEAN : Select(g, ks, block)
  <2>1. pc[g] = "idle"
    BY <1>6 DEF Select
  <2>2. PICK ks, block : Select(g, ks, block)
    BY <1>6
  <2>3. (\E k, h : Do(g, k, h)) \/ Enqueue(g, ks, TRUE) \/ pc' = pc
    BY <2>2 DEF Select
  <2>4. (\E v : pc' = [pc EXCEPT ![g] = v]) \/ pc' = pc
    BY <2>3, DoPlace DEF Enqueue
  <2> QED
    BY <2>1, <2>4, <1>2
<1>7. CASE \E c \in Chan : Close(g, c)
  <2>1. pc[g] = "idle" /\ \E v : pc' = [pc EXCEPT ![g] = v]
    BY <1>7 DEF Close
  <2> QED
    BY <2>1, <1>2
<1>8. CASE Pass3(g)
  BY <1>2, <1>8 DEF Pass3, Leave
<1>9. CASE goready(g)
  <2>1. PICK r : Readies(g, r)
    BY <1>9 DEF goready, Readies
  <2>2. /\ pc[r] = "parked" /\ \A d \in G : d # g /\ d # r => pc'[d] = pc[d]
    BY <2>1, ReadiesView DEF ChanInv, Held
  <2>3. pc[g] = "goready"
    BY <2>1 DEF Readies
  <2> QED
    BY <2>2, <2>3
<1>10. CASE FastSend(g)
  <2>1. pc[g] \in {"closed?", "full?"} /\ \E v : pc' = [pc EXCEPT ![g] = v]
    BY <1>10 DEF FastSend, GoOn, Leave
  <2> QED
    BY <2>1, <1>2
<1>11. CASE FastRecv(g)
  <2>1. \E v : pc' = [pc EXCEPT ![g] = v]
    BY <1>11 DEF FastRecv, GoOn, Leave
  <2>2. e = g
    BY <2>1, <1>1
  <2> QED
    BY <2>2, <1>11
<1>12. CASE NonBlockLocked(g)
  <2>1. pc[g] = "lock" /\ ((\E k, h : Do(g, k, h)) \/ Leave(g))
    BY <1>12 DEF NonBlockLocked
  <2>2. \E v : pc' = [pc EXCEPT ![g] = v]
    BY <2>1, DoPlace DEF Leave
  <2> QED
    BY <2>1, <2>2, <1>2
<1> QED
  BY <1>3, <1>4, <1>5, <1>6, <1>7, <1>8, <1>9, <1>10, <1>11, <1>12

(* The fast path of chanrecv, which reads empty, closed and empty again     *)
(* without the lock, tells the truth.                                       *)
THEOREM ChanHonest == ChanSpec => NonBlockingHonest
<1>1. ASSUME ChanInv, [ChanNext]_chanVars
      PROVE  [\A g \in G : pc'[g] = "idle" =>
                 /\ pc[g] = "open?" => g \in witness
                 /\ pc[g] = "still empty?" => ch[ChanOf(g)].closed
                                              /\ Buffer(ChanOf(g)) = <<>>]_chanVars
  <2>1. CASE UNCHANGED chanVars
    BY <2>1
  <2>2. CASE ChanNext
    <3> SUFFICES ASSUME NEW g \in G, pc'[g] = "idle"
                 PROVE  /\ pc[g] = "open?" => g \in witness
                        /\ pc[g] = "still empty?" => ch[ChanOf(g)].closed
                                                     /\ Buffer(ChanOf(g)) = <<>>
      OBVIOUS
    <3>1. Held /\ LookOK /\ pc \in [G -> {"idle", "parked", "woken", "goready"} \union Looks]
      BY <1>1 DEF ChanInv, Held, ChanTypeOK
    <3>2. pc[g] \in {"open?", "still empty?"} => FastRecv(g)
      BY <1>1, <2>2, LookersPlace
    <3>3. ASSUME pc[g] = "open?"
          PROVE  g \in witness
      <4>1. ~ch[ChanOf(g)].closed
        BY <3>1, <3>2, <3>3 DEF FastRecv, GoOn
      <4> QED
        BY <4>1, <3>1, <3>3 DEF LookOK
    <3>4. ASSUME pc[g] = "still empty?"
          PROVE  ch[ChanOf(g)].closed /\ Buffer(ChanOf(g)) = <<>>
      <4>1. empty(ChanOf(g))
        BY <3>1, <3>2, <3>4 DEF FastRecv, GoOn
      <4>2. PICK c \in Chan : ChanOf(g) = c /\ cases[g] = {Recv(c)}
        BY <3>1, <3>4, LookFacts
      <4>3. ch[c].closed
        BY <3>1, <3>4, <4>2, LookFacts
      <4>4. ch[c].qcount = 0
        BY <4>1, <4>2, <3>1, EmptyNothing
      <4>5. Buffer(c) = Ring(ch[c].buf, ch[c].recvx, ch[c].qcount, dataqsiz[c])
        BY DEF Buffer, Ring
      <4>6. Buffer(c) = <<>>
        BY <4>4, <4>5, EmptyRing
      <4> QED
        BY <4>2, <4>3, <4>6
    <3> QED
      BY <3>3, <3>4
  <2> QED
    BY <1>1, <2>1, <2>2
<1>2. ChanSpec => [][ChanNext]_chanVars
  BY PTL DEF ChanSpec
<1> QED
  BY <1>1, <1>2, ChanInvariant, PTL DEF NonBlockingHonest
=============================================================================
