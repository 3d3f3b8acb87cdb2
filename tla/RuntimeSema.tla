---------------------------- MODULE RuntimeSema ----------------------------
(***************************************************************************)
(* runtime/sema.go: semacquire1 and semrelease1 on the semaphore words of  *)
(* one semaRoot.  Addr is the set of words that hash to that root, so they *)
(* share root.lock and root.nwait: a release that finds nwait # 0 may find *)
(* no waiter on its own word.                                              *)
(*                                                                         *)
(* The treap of sudogs is, for each word, the queue of its waiters.  The   *)
(* sudog of the first one is the word's node of the treap, and its ticket  *)
(* the priority of the node, an odd number; after the wakeup the ticket    *)
(* says whether the permit came with it.  What matters of it is whether it *)
(* is zero.  A stretch of code is one step when it reads and    *)
(* writes at most one thing that another goroutine can see at that time:   *)
(* what root.lock protects is invisible outside the lock, but nwait is     *)
(* read without it.  cansemacquire's compare-and-swap loop is one          *)
(* test-and-decrement.                                                     *)
(***************************************************************************)
EXTENDS SequencesExt

CONSTANTS
    Proc,       \* the goroutines
    Addr,       \* the semaphore words under this root
    Nil,        \* no goroutine, no word
    MaxCalls    \* the calls made in all: a bound

ASSUME RuntimeSemaConstants ==
    Nil \notin Proc /\ Nil \notin Addr /\ IsFiniteSet(Proc) /\ MaxCalls \in Nat

VARIABLES
    sem,        \* sem[a]: *a
    queue,      \* queue[a]: the goroutines whose sudogs wait on a
    nwait,      \* root.nwait
    lock,       \* the holder of root.lock, or Nil
    call,       \* call[p]: the call p is in
    ticket,     \* ticket[p]: the ticket of p's sudog is not zero
    calls       \* the number of calls made so far

vars == <<sem, queue, nwait, lock, call, ticket, calls>>

(* at is the next step of the call; flag is lifo or handoff; who is the    *)
(* waiter a release has dequeued.                                          *)
NoCall == [at |-> "idle", addr |-> Nil, flag |-> FALSE, who |-> Nil]

Init ==
    /\ sem = [a \in Addr |-> 0]
    /\ queue = [a \in Addr |-> <<>>]
    /\ nwait = 0
    /\ lock = Nil
    /\ call = [p \in Proc |-> NoCall]
    /\ ticket = [p \in Proc |-> FALSE]
    /\ calls = 0

At(p, here) == call[p].at = here
Goto(p, there) == call' = [call EXCEPT ![p].at = there]
Return(p) == call' = [call EXCEPT ![p] = NoCall]

Cansemacquire(a) == sem[a] > 0 /\ sem' = [sem EXCEPT ![a] = @ - 1]

Enter(p, here, a, flag) ==
    /\ At(p, "idle")
    /\ calls < MaxCalls
    /\ calls' = calls + 1
    /\ call' = [call EXCEPT ![p] = [at |-> here, addr |-> a, flag |-> flag, who |-> Nil]]

-----------------------------------------------------------------------------
(* semacquire1 *)

Semacquire1(p, a, lifo) ==
    /\ Enter(p, "easy", a, lifo)
    /\ UNCHANGED <<sem, queue, nwait, lock, ticket>>

(* The permit is there at once, or when the goroutine has just been woken. *)
Take(p) ==
    /\ At(p, "easy") \/ (At(p, "resumed") /\ ~ticket[p])
    /\ Cansemacquire(call[p].addr)
    /\ Return(p)
    /\ UNCHANGED <<queue, nwait, lock, ticket, calls>>

(* No permit: the harder case, with a sudog whose ticket is zero.          *)
NoPermit(p) ==
    /\ At(p, "easy") \/ (At(p, "resumed") /\ ~ticket[p])
    /\ sem[call[p].addr] = 0
    /\ Goto(p, "lock")
    /\ ticket' = [ticket EXCEPT ![p] = FALSE]
    /\ UNCHANGED <<sem, queue, nwait, lock, calls>>

(* Mutant: the waiter does not announce itself in nwait. *)
LockRootUncounted(p) ==
    /\ At(p, "lock")
    /\ lock = Nil
    /\ lock' = p
    /\ Goto(p, "recheck")
    /\ UNCHANGED <<sem, queue, nwait, ticket, calls>>

(* lockWithRank(&root.lock), and nwait disables the releasers' easy case. *)
LockRoot(p) ==
    /\ At(p, "lock")
    /\ lock = Nil
    /\ lock' = p
    /\ nwait' = nwait + 1
    /\ Goto(p, "recheck")
    /\ UNCHANGED <<sem, queue, ticket, calls>>

(* cansemacquire under the lock, against a missed wakeup. *)
Recheck(p) ==
    /\ At(p, "recheck")
    /\ Cansemacquire(call[p].addr)
    /\ Goto(p, "unwait")
    /\ UNCHANGED <<queue, nwait, lock, ticket, calls>>

UnlockRoot(p) ==
    /\ At(p, "unwait")
    /\ nwait' = nwait - 1
    /\ lock' = Nil
    /\ Return(p)
    /\ UNCHANGED <<sem, queue, ticket, calls>>

(* root.queue: a word's first waiter becomes a node of the treap, and a    *)
(* lifo waiter takes over the node of the one that was first.              *)
QueueSudog(p, a, lifo) ==
    /\ queue' = [queue EXCEPT ![a] = IF lifo THEN <<p>> \o @ ELSE Append(@, p)]
    /\ ticket' = [ticket EXCEPT ![p] =
                    IF queue[a] = <<>> THEN TRUE
                    ELSE IF lifo THEN ticket[Head(queue[a])] ELSE @]

(* Mutant: p sleeps without another look at the permits. *)
ParkUnlockBlind(p) ==
    /\ At(p, "recheck")
    /\ QueueSudog(p, call[p].addr, call[p].flag)
    /\ lock' = Nil
    /\ Goto(p, "parked")
    /\ UNCHANGED <<sem, nwait, calls>>

(* root.queue and goparkunlock. *)
ParkUnlock(p) ==
    /\ At(p, "recheck")
    /\ sem[call[p].addr] = 0
    /\ QueueSudog(p, call[p].addr, call[p].flag)
    /\ lock' = Nil
    /\ Goto(p, "parked")
    /\ UNCHANGED <<sem, nwait, calls>>

(* The goroutine runs again and has a ticket. *)
TakeTicket(p) ==
    /\ At(p, "resumed") /\ ticket[p]
    /\ Return(p)
    /\ UNCHANGED <<sem, queue, nwait, lock, ticket, calls>>

-----------------------------------------------------------------------------
(* semrelease1 *)

Semrelease1(p, a, handoff) ==
    /\ Enter(p, "xadd", a, handoff)
    /\ UNCHANGED <<sem, queue, nwait, lock, ticket>>

Xadd(p) ==
    /\ At(p, "xadd")
    /\ sem' = [sem EXCEPT ![call[p].addr] = @ + 1]
    /\ Goto(p, "load")
    /\ UNCHANGED <<queue, nwait, lock, ticket, calls>>

(* atomic.Load(&root.nwait), without the lock. *)
LoadNwait(p) ==
    /\ At(p, "load")
    /\ IF nwait = 0 THEN Return(p) ELSE Goto(p, "dequeue")
    /\ UNCHANGED <<sem, queue, nwait, lock, ticket, calls>>

(* Under the lock: the waiters are gone, or none of them waits on a. *)
NoWaiter(p) ==
    /\ At(p, "dequeue")
    /\ lock = Nil
    /\ nwait = 0 \/ queue[call[p].addr] = <<>>
    /\ Return(p)
    /\ UNCHANGED <<sem, queue, nwait, lock, ticket, calls>>

(* The tickets after root.dequeue of a's first waiter: the next one, if    *)
(* there is one, takes over the node.                                      *)
TicketsWithout(a) ==
    LET first == Head(queue[a])
        next == IF Tail(queue[a]) = <<>> THEN first ELSE Head(Tail(queue[a]))
    IN  [ticket EXCEPT ![next] = ticket[first], ![first] = FALSE]

(* Mutant: dequeue without the decrement of nwait. *)
DequeueUncounted(p) ==
    LET a == call[p].addr
    IN  /\ At(p, "dequeue")
        /\ lock = Nil
        /\ nwait # 0 /\ queue[a] # <<>>
        /\ queue' = [queue EXCEPT ![a] = Tail(@)]
        /\ ticket' = TicketsWithout(a)
        /\ call' = [call EXCEPT ![p].at = "handoff", ![p].who = Head(queue[a])]
        /\ UNCHANGED <<sem, nwait, lock, calls>>

(* Mutant: the waiter that leaves the treap keeps its priority as ticket. *)
DequeueStale(p) ==
    LET a == call[p].addr
    IN  /\ At(p, "dequeue")
        /\ lock = Nil
        /\ nwait # 0 /\ queue[a] # <<>>
        /\ queue' = [queue EXCEPT ![a] = Tail(@)]
        /\ ticket' = [TicketsWithout(a) EXCEPT ![Head(queue[a])] = ticket[Head(queue[a])]]
        /\ nwait' = nwait - 1
        /\ call' = [call EXCEPT ![p].at = "handoff", ![p].who = Head(queue[a])]
        /\ UNCHANGED <<sem, lock, calls>>

(* root.dequeue under the lock. *)
Dequeue(p) ==
    LET a == call[p].addr
    IN  /\ At(p, "dequeue")
        /\ lock = Nil
        /\ nwait # 0 /\ queue[a] # <<>>
        /\ queue' = [queue EXCEPT ![a] = Tail(@)]
        /\ ticket' = TicketsWithout(a)
        /\ nwait' = nwait - 1
        /\ call' = [call EXCEPT ![p].at = "handoff", ![p].who = Head(queue[a])]
        /\ UNCHANGED <<sem, lock, calls>>

(* Mutant: a handoff does not take the permit it passes on. *)
HandoffFree(p) ==
    /\ At(p, "handoff")
    /\ Goto(p, "goready")
    /\ ticket' = [ticket EXCEPT ![call[p].who] = call[p].flag]
    /\ UNCHANGED <<sem, queue, nwait, lock, calls>>

(* A handoff passes on the permit, if it is still there.  If the ticket is *)
(* not zero already, the program throws: p stops.                          *)
Handoff(p) ==
    /\ At(p, "handoff")
    /\ ~ticket[call[p].who]
    /\ Goto(p, "goready")
    /\ IF call[p].flag /\ sem[call[p].addr] > 0
       THEN /\ Cansemacquire(call[p].addr)
            /\ ticket' = [ticket EXCEPT ![call[p].who] = TRUE]
       ELSE UNCHANGED <<sem, ticket>>
    /\ UNCHANGED <<queue, nwait, lock, calls>>

Goready(p) ==
    /\ At(p, "goready")
    /\ call' = [call EXCEPT ![p] = NoCall, ![call[p].who].at = "resumed"]
    /\ UNCHANGED <<sem, queue, nwait, lock, ticket, calls>>

-----------------------------------------------------------------------------
Step(p) ==
    \/ Take(p) \/ NoPermit(p) \/ LockRoot(p) \/ Recheck(p) \/ UnlockRoot(p) \/ ParkUnlock(p)
    \/ TakeTicket(p)
    \/ Xadd(p) \/ LoadNwait(p) \/ NoWaiter(p) \/ Dequeue(p) \/ Handoff(p) \/ Goready(p)

Next ==
    \E p \in Proc :
        \/ \E a \in Addr, flag \in BOOLEAN : Semacquire1(p, a, flag) \/ Semrelease1(p, a, flag)
        \/ Step(p)

Spec == Init /\ [][Next]_vars

(* A goroutine that can run is run. *)
FairSpec == Spec /\ \A p \in Proc : WF_vars(Step(p))

-----------------------------------------------------------------------------
CallState ==
    [at : {"idle", "easy", "lock", "recheck", "unwait", "parked", "resumed",
           "xadd", "load", "dequeue", "handoff", "goready"},
     addr : Addr \union {Nil}, flag : BOOLEAN, who : Proc \union {Nil}]

TypeOK ==
    /\ sem \in [Addr -> Nat]
    /\ queue \in [Addr -> Seq(Proc)]
    /\ nwait \in Nat
    /\ lock \in Proc \union {Nil}
    /\ call \in [Proc -> CallState]
    /\ \A p \in Proc : At(p, "idle") \/ call[p].addr \in Addr
    /\ ticket \in [Proc -> BOOLEAN]
    /\ calls \in Nat

Queued == UNION {Range(queue[a]) : a \in Addr}

(* nwait, which releases read without the lock, counts the goroutines that *)
(* are queued or about to be: it is zero only when nobody can be missed.   *)
WaitersCounted ==
    nwait = Cardinality(Queued \union {p \in Proc : At(p, "recheck") \/ At(p, "unwait")})

(* Only a goroutine that is in the treap, or that one releaser has taken   *)
(* out of it and not made ready, is asleep, and whoever was taken out has  *)
(* left the priority of its node behind: the throw of semrelease1 on a     *)
(* corrupted ticket, which would count as a permit, is not reached.        *)
Asleep ==
    /\ \A p \in Proc : At(p, "parked") <=>
            p \in Queued \/ \E r \in Proc : call[r].who = p
    /\ \A r \in Proc : At(r, "handoff") => ~ticket[call[r].who]

-----------------------------------------------------------------------------
(* The semaphore that callers see.  A goroutine's acquire is over as soon  *)
(* as it has the permit, and a release as soon as the fate of its permit   *)
(* is settled.                                                             *)
Woken(p) == At(p, "resumed") \/ \E r \in Proc : At(r, "goready") /\ call[r].who = p

AbsOp(p) ==
    CASE At(p, "idle") \/ At(p, "unwait") \/ At(p, "goready") -> "none"
      [] Woken(p) -> IF ticket[p] THEN "none" ELSE "acquire"
      [] At(p, "easy") \/ At(p, "lock") \/ At(p, "recheck") -> "acquire"
      [] At(p, "parked") /\ ~Woken(p) -> "parked"
      [] At(p, "xadd") -> "release"
      [] At(p, "load") \/ At(p, "dequeue") -> "dequeue"
      [] At(p, "handoff") -> "ready"

AbsReq ==
    [p \in Proc |->
        IF AbsOp(p) = "none"
        THEN [op |-> "none", addr |-> Nil, flag |-> FALSE, who |-> Nil]
        ELSE [op |-> AbsOp(p), addr |-> call[p].addr, flag |-> call[p].flag, who |-> call[p].who]]

Sem == INSTANCE Semaphore WITH req <- AbsReq

(* sema.go implements the semaphores that package sync is built on: every  *)
(* step is a step of module Semaphore or invisible to callers.  The easy   *)
(* cases, which look at nwait without the lock, lose nothing.              *)
RefinesSemaphore == Sem!SemSpec

(* No missed wakeup: while a goroutine sleeps on a, some goroutine is on   *)
(* its way to every permit of a.                                           *)
NoMissedWakeup == Sem!NoLostWakeup

(* A permit and a goroutine asleep on its word never stay that way.        *)
PermitReachesSleeper ==
    \A a \in Addr : (sem[a] > 0 /\ queue[a] # <<>>) ~> (sem[a] = 0 \/ queue[a] = <<>>)
=============================================================================
