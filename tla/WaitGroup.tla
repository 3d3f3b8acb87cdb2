----------------------------- MODULE WaitGroup -----------------------------
(***************************************************************************)
(* sync.WaitGroup (sync/waitgroup.go) over the runtime semaphores.  The    *)
(* 64-bit state word is the pair of its halves: every atomic operation on  *)
(* it, the plain read that looks for misuse and the plain store that       *)
(* resets it are steps of their own.                                       *)
(*                                                                         *)
(* The clients keep the rules of Add's comment.  A unit of the counter is  *)
(* held by the goroutine that has to give it back.  A positive Add is made *)
(* by a goroutine that holds a unit, so that the counter is greater than   *)
(* zero whatever others do, or when no Wait is in progress; goroutines     *)
(* give back what they hold, and do not wait for themselves.               *)
(***************************************************************************)
EXTENDS Semaphore

CONSTANTS
    sema,       \* the address of the semaphore
    MaxUnits    \* bound: the counter, 2^31 - 1 in the code

ASSUME WaitGroupConstants == sema \in Addr /\ MaxUnits \in Nat

VARIABLES
    v, w,       \* the counter and the waiters, the halves of the state word
    pc,         \* where each goroutine is
    state,      \* the local copy of the state word; its w counts down the releases
    held,       \* the units each goroutine has to give back
    zero        \* history: the counter has been zero during p's Wait

wgVars == <<v, w, pc, state, held, zero>>
vars == <<v, w, pc, state, held, zero, sem, queue, req>>

Word(x, y) == [v |-> x, w |-> y]

Init ==
    /\ v = 0 /\ w = 0
    /\ pc = [p \in Proc |-> "idle"]
    /\ state = [p \in Proc |-> Word(0, 0)]
    /\ held = [p \in Proc |-> 0]
    /\ zero = [p \in Proc |-> FALSE]
    /\ SemInit

At(p, here) == pc[p] = here
Goto(p, there) == pc' = [pc EXCEPT ![p] = there]
SetState(p, s) == state' = [state EXCEPT ![p] = s]

InWait(p) == pc[p] \in {"load", "cas", "acquire"}

(* The counter becomes c: the Waits in progress see whether it is zero. *)
SetCounter(c) ==
    /\ v' = c
    /\ zero' = [p \in Proc |-> InWait(p) /\ (zero[p] \/ c = 0)]

-----------------------------------------------------------------------------
(* Add with a positive delta; the goroutine q takes over the units. *)
Add(p, delta, q) ==
    /\ At(p, "idle") /\ At(q, "idle")
    /\ held[p] > 0 \/ \A t \in Proc : ~InWait(t)
    /\ v + delta <= MaxUnits
    /\ SetCounter(v + delta)
    /\ Goto(p, IF w # 0 /\ v + delta = delta THEN "panic" ELSE "idle")
    /\ held' = [held EXCEPT ![q] = @ + delta]
    /\ UNCHANGED <<w, state, semVars>>

(* Mutant: the waiters are released as soon as there are some. *)
SubtractEager(p, delta) ==
    /\ At(p, "idle")
    /\ delta <= held[p]
    /\ SetCounter(v - delta)
    /\ SetState(p, Word(v - delta, w))
    /\ Goto(p, IF w = 0 THEN "idle" ELSE "check")
    /\ held' = [held EXCEPT ![p] = @ - delta]
    /\ UNCHANGED <<w, semVars>>

(* Add with a negative delta, and Done. *)
Subtract(p, delta) ==
    /\ At(p, "idle")
    /\ delta <= held[p]
    /\ SetCounter(v - delta)
    /\ SetState(p, IF v - delta > 0 \/ w = 0 THEN Word(0, 0) ELSE Word(v - delta, w))
    /\ Goto(p, IF v - delta < 0 THEN "panic" ELSE IF v - delta > 0 \/ w = 0 THEN "idle" ELSE "check")
    /\ held' = [held EXCEPT ![p] = @ - delta]
    /\ UNCHANGED <<w, semVars>>

CheckMisuse(p) ==
    /\ At(p, "check")
    /\ Goto(p, IF Word(v, w) # state[p] THEN "panic" ELSE "reset")
    /\ UNCHANGED <<v, w, state, held, zero, semVars>>

(* Mutant: the waiters are released and stay counted. *)
ResetNothing(p) ==
    /\ At(p, "reset")
    /\ Goto(p, "release")
    /\ UNCHANGED <<v, w, state, held, zero, semVars>>

Reset(p) ==
    /\ At(p, "reset")
    /\ SetCounter(0) /\ w' = 0
    /\ Goto(p, "release")
    /\ UNCHANGED <<state, held, semVars>>

(* Mutant: one release for all the waiters. *)
ReleaseOne(p) ==
    /\ At(p, "release") /\ Returned(p)
    /\ state[p].w # 0
    /\ Semrelease(p, sema, FALSE)
    /\ SetState(p, Word(0, 0))
    /\ UNCHANGED <<v, w, pc, held, zero, sem, queue>>

(* One round of the loop that releases the waiters. *)
Release(p) ==
    /\ At(p, "release") /\ Returned(p)
    /\ state[p].w # 0
    /\ Semrelease(p, sema, FALSE)
    /\ SetState(p, Word(0, state[p].w - 1))
    /\ UNCHANGED <<v, w, pc, held, zero, sem, queue>>

AddReturns(p) ==
    /\ At(p, "release") /\ Returned(p)
    /\ state[p].w = 0
    /\ Goto(p, "idle")
    /\ UNCHANGED <<v, w, state, held, zero, semVars>>

-----------------------------------------------------------------------------
Wait(p) ==
    /\ At(p, "idle")
    /\ held[p] = 0
    /\ Goto(p, "load")
    /\ zero' = [zero EXCEPT ![p] = v = 0]
    /\ UNCHANGED <<v, w, state, held, semVars>>

Load(p) ==
    /\ At(p, "load")
    /\ IF v = 0
       THEN Goto(p, "idle") /\ SetState(p, Word(0, 0))
       ELSE Goto(p, "cas") /\ SetState(p, Word(v, w))
    /\ zero' = [zero EXCEPT ![p] = @ /\ v # 0]
    /\ UNCHANGED <<v, w, held, semVars>>

CountWaiter(p) ==
    /\ At(p, "cas")
    /\ SetState(p, Word(0, 0))
    /\ IF Word(v, w) = state[p]
       THEN w' = w + 1 /\ Semacquire(p, sema, FALSE) /\ Goto(p, "acquire")
       ELSE Goto(p, "load") /\ UNCHANGED <<w, req>>
    /\ UNCHANGED <<v, held, zero, sem, queue>>

Acquired(p) ==
    /\ At(p, "acquire") /\ Returned(p)
    /\ Goto(p, IF Word(v, w) # Word(0, 0) THEN "panic" ELSE "idle")
    /\ zero' = [zero EXCEPT ![p] = FALSE]
    /\ UNCHANGED <<v, w, state, held, semVars>>

-----------------------------------------------------------------------------
Units == 1..MaxUnits

Step(p) ==
    \/ CheckMisuse(p) \/ Reset(p) \/ Release(p) \/ AddReturns(p)
    \/ Load(p) \/ CountWaiter(p) \/ Acquired(p)
    \/ SemStep(p) /\ UNCHANGED wgVars

Next == \E p \in Proc :
    \/ Wait(p) \/ Step(p)
    \/ \E d \in Units : Subtract(p, d) \/ \E q \in Proc : Add(p, d, q)

Spec == Init /\ [][Next]_vars

(* Goroutines that can run are run. *)
FairSpec == Spec /\ \A p \in Proc : WF_vars(Step(p))

-----------------------------------------------------------------------------
TypeOK ==
    /\ v \in 0..MaxUnits /\ w \in Nat
    /\ pc \in [Proc -> {"idle", "check", "reset", "release", "load", "cas", "acquire"}]
    /\ state \in [Proc -> [v : 0..MaxUnits, w : Nat]]
    /\ held \in [Proc -> 0..MaxUnits]
    /\ zero \in [Proc -> BOOLEAN]
    /\ SemTypeOK

(* The sum of f over the goroutines: how many units they have together. *)
Shares(f) == UNION {{p} \X (1..f[p]) : p \in Proc}
Total(f) == Cardinality(Shares(f))

(* The releases that are still to be made, and their permits. *)
ToRelease == [p \in Proc |-> IF At(p, "release") THEN state[p].w ELSE 0]
Owed == Permits(sema) + Total(ToRelease)

Sleeping == {p \in Proc : At(p, "acquire") /\ ~Returned(p)}

(* Every waiter that sleeps or is about to is either counted in the state  *)
(* word or has a permit coming, and no permit is left over that would let  *)
(* a later Wait through; no panic is reached.                              *)
WaitersCounted ==
    /\ TypeOK
    /\ w + Owed = Cardinality(Sleeping)
    /\ v = Total(held)

(* Wait returns only if the counter was zero at some time during the call, *)
(* also when the WaitGroup is used again at once.                          *)
ReturnsAtZero == [][\A p \in Proc : InWait(p) /\ ~InWait(p)' => zero[p]]_vars

(* Once the counter has reached zero, every Wait in progress returns. *)
WaitReturns == \A p \in Proc : InWait(p) /\ v = 0 ~> At(p, "idle")
=============================================================================
