----------------------------- MODULE Semaphore -----------------------------
(***************************************************************************)
(* The sleep/wakeup semaphores that runtime/sema.go gives package sync, as *)
(* a caller of runtime_Semacquire and runtime_Semrelease sees them.  The   *)
(* root lock, nwait and the treap are gone (module RuntimeSema has them    *)
(* and implements this one); what is left is every point where another     *)
(* goroutine can get in between:                                           *)
(*   - a released permit is up for grabs before its releaser dequeues a    *)
(*     waiter, and a woken waiter may find that someone else took it;      *)
(*   - a release with handoff gives the permit to the waiter it dequeued,  *)
(*     if it is still there.                                               *)
(* A component that uses semaphores EXTENDS this module: its own action    *)
(* starts a call with Semacquire or Semrelease, and the call has returned  *)
(* when Returned(p) holds again.                                           *)
(***************************************************************************)
EXTENDS SequencesExt

CONSTANTS
    Proc,       \* the goroutines
    Addr,       \* the semaphore words
    Nil         \* no goroutine, no address

ASSUME SemaphoreConstants == Nil \notin Proc /\ Nil \notin Addr /\ IsFiniteSet(Proc)

VARIABLES
    sem,        \* sem[a]: the permits in *a
    queue,      \* queue[a]: the goroutines blocked on a, first to wake first
    req         \* req[p]: the call p is in

semVars == <<sem, queue, req>>

(* op names what the call does next: "acquire" tries to take a permit or   *)
(* queues up, "parked" sleeps; "release" adds a permit, "dequeue" looks    *)
(* for a waiter, "ready" wakes the waiter who.  flag is lifo for an        *)
(* acquire and handoff for a release.                                      *)
Request == [op : {"none", "acquire", "parked", "release", "dequeue", "ready"},
            addr : Addr \union {Nil}, flag : BOOLEAN, who : Proc \union {Nil}]

NoRequest == [op |-> "none", addr |-> Nil, flag |-> FALSE, who |-> Nil]

SemInit ==
    /\ sem = [a \in Addr |-> 0]
    /\ queue = [a \in Addr |-> <<>>]
    /\ req = [p \in Proc |-> NoRequest]

Returned(p) == req[p].op = "none"

Semacquire(p, a, lifo) ==
    req' = [req EXCEPT ![p] = [op |-> "acquire", addr |-> a, flag |-> lifo, who |-> Nil]]

Semrelease(p, a, handoff) ==
    req' = [req EXCEPT ![p] = [op |-> "release", addr |-> a, flag |-> handoff, who |-> Nil]]

-----------------------------------------------------------------------------
(* cansemacquire succeeds. *)
TakePermit(p) ==
    LET a == req[p].addr
    IN  /\ req[p].op = "acquire"
        /\ sem[a] > 0
        /\ sem' = [sem EXCEPT ![a] = @ - 1]
        /\ req' = [req EXCEPT ![p] = NoRequest]
        /\ UNCHANGED queue

(* Mutant: p sleeps without another look at the permits. *)
ParkBlind(p) ==
    LET a == req[p].addr
    IN  /\ req[p].op = "acquire"
        /\ queue' = [queue EXCEPT ![a] = IF req[p].flag THEN <<p>> \o @ ELSE Append(@, p)]
        /\ req' = [req EXCEPT ![p].op = "parked"]
        /\ UNCHANGED sem

(* cansemacquire fails under the root lock, and p goes to sleep. *)
Park(p) ==
    LET a == req[p].addr
    IN  /\ req[p].op = "acquire"
        /\ sem[a] = 0
        /\ queue' = [queue EXCEPT ![a] = IF req[p].flag THEN <<p>> \o @ ELSE Append(@, p)]
        /\ req' = [req EXCEPT ![p].op = "parked"]
        /\ UNCHANGED sem

AddPermit(p) ==
    /\ req[p].op = "release"
    /\ sem' = [sem EXCEPT ![req[p].addr] = @ + 1]
    /\ req' = [req EXCEPT ![p].op = "dequeue"]
    /\ UNCHANGED queue

(* Nobody waits: the release is over. *)
NoWaiter(p) ==
    /\ req[p].op = "dequeue"
    /\ queue[req[p].addr] = <<>>
    /\ req' = [req EXCEPT ![p] = NoRequest]
    /\ UNCHANGED <<sem, queue>>

(* Mutant: the waiter to wake stays in the queue. *)
DequeuePeek(p) ==
    LET a == req[p].addr
    IN  /\ req[p].op = "dequeue"
        /\ queue[a] # <<>>
        /\ req' = [req EXCEPT ![p].op = "ready", ![p].who = Head(queue[a])]
        /\ UNCHANGED <<sem, queue>>

Dequeue(p) ==
    LET a == req[p].addr
    IN  /\ req[p].op = "dequeue"
        /\ queue[a] # <<>>
        /\ queue' = [queue EXCEPT ![a] = Tail(@)]
        /\ req' = [req EXCEPT ![p].op = "ready", ![p].who = Head(queue[a])]
        /\ UNCHANGED sem

(* The waiter runs again.  With a ticket its acquire has returned; without *)
(* one it has to find a permit itself, or queue up again.                  *)
Ready(p) ==
    LET a == req[p].addr
        t == req[p].who
        ticket == req[p].flag /\ sem[a] > 0
    IN  /\ req[p].op = "ready"
        /\ sem' = [sem EXCEPT ![a] = IF ticket THEN @ - 1 ELSE @]
        /\ req' = [req EXCEPT ![p] = NoRequest,
                              ![t] = IF ticket THEN NoRequest ELSE [req[t] EXCEPT !.op = "acquire"]]
        /\ UNCHANGED queue

SemStep(p) ==
    TakePermit(p) \/ Park(p) \/ AddPermit(p) \/ NoWaiter(p) \/ Dequeue(p) \/ Ready(p)

(* Callers that use the semaphores in any order. *)
Call(p) ==
    /\ Returned(p)
    /\ \E a \in Addr, flag \in BOOLEAN : Semacquire(p, a, flag) \/ Semrelease(p, a, flag)
    /\ UNCHANGED <<sem, queue>>

SemNext == \E p \in Proc : Call(p) \/ SemStep(p)

SemSpec == SemInit /\ [][SemNext]_semVars

-----------------------------------------------------------------------------
SemTypeOK ==
    /\ sem \in [Addr -> Nat]
    /\ queue \in [Addr -> Seq(Proc)]
    /\ req \in [Proc -> Request]
    /\ \A p \in Proc : req[p].op = "none" \/ req[p].addr \in Addr

(* Whoever a semaphore may wake is asleep on it, and nobody is woken twice. *)
Sleepers ==
    /\ \A a \in Addr : IsInjective(queue[a])
    /\ \A a \in Addr : \A t \in Range(queue[a]) : req[t].op = "parked" /\ req[t].addr = a
    /\ \A p \in Proc : req[p].op = "ready" =>
            /\ req[p].who \in Proc
            /\ req[req[p].who].op = "parked" /\ req[req[p].who].addr = req[p].addr
            /\ \A a \in Addr : req[p].who \notin Range(queue[a])
            /\ \A q \in Proc : req[q].op = "ready" /\ req[q].who = req[p].who => q = p

(* The goroutines that will still look at a permit of a. *)
Movers(a) == {p \in Proc : req[p].op \in {"acquire", "dequeue", "ready"} /\ req[p].addr = a}

(* No wakeup is lost: while goroutines sleep on a, every permit of a has a  *)
(* goroutine on its way that will take it or pass it on.                    *)
NoLostWakeup == \A a \in Addr : queue[a] # <<>> => sem[a] <= Cardinality(Movers(a))

(* The permits of a semaphore, those included that a release will add. *)
Releasing(a) == {p \in Proc : req[p].op = "release" /\ req[p].addr = a}
Permits(a) == sem[a] + Cardinality(Releasing(a))
=============================================================================
