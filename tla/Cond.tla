-------------------------------- MODULE Cond --------------------------------
(***************************************************************************)
(* sync.Cond (sync/cond.go) over the runtime's notifyList                  *)
(* (runtime/sema.go).  What is done under l.lock is one step; taking a     *)
(* ticket, the two loads of the unlocked fast path and every goready are   *)
(* steps of their own.                                                     *)
(*                                                                         *)
(* c.L may be the read side of an RWMutex, as notifyListAdd says, so that  *)
(* it excludes nobody: Wait's calls of c.L only take time.                 *)
(*                                                                         *)
(* line, lag and owed are history variables: the code has neither an       *)
(* unwrapped counter nor a view of who waits.                              *)
(***************************************************************************)
EXTENDS SequencesExt, Integers

CONSTANTS
    Proc,       \* the goroutines
    Wrap,       \* the counters count modulo Wrap, 2^32 in the code
    MaxLag      \* bound: notifications between a waiter's own and its notifyListWait

ASSUME CondConstants ==
    /\ IsFiniteSet(Proc)
    /\ Wrap \in Nat /\ MaxLag \in Nat /\ 2 * Cardinality(Proc) < Wrap

VARIABLES
    wait, notify,   \* the next ticket to give out and the next to notify
    list,           \* l.head ... l.tail: the parked waiters
    pc,             \* where each goroutine is
    t,              \* a waiter's ticket; a notifier's load of wait
    all,            \* the notifier is in Broadcast
    todo,           \* the waiters a notifier has to make ready
    line,           \* history: who holds a ticket that is not yet notified, in order
    lag,            \* history: how far notify is past the ticket of a notified waiter
    owed            \* history: the waiters a notifier has found and nobody has notified

vars == <<wait, notify, list, pc, t, all, todo, line, lag, owed>>

Init ==
    /\ wait \in {0, Wrap - 1} /\ notify = wait
    /\ list = <<>>
    /\ pc = [p \in Proc |-> "idle"]
    /\ t = [p \in Proc |-> 0]
    /\ all = [p \in Proc |-> FALSE]
    /\ todo = [p \in Proc |-> <<>>]
    /\ line = <<>>
    /\ lag = [p \in Proc |-> 0]
    /\ owed = [p \in Proc |-> {}]

At(p, here) == pc[p] = here
Goto(p, there) == pc' = [pc EXCEPT ![p] = there]

(* int32(a-b) < 0 *)
less(a, b) == (a - b) % Wrap >= Wrap \div 2

-----------------------------------------------------------------------------
(* Wait: notifyListAdd *)
Wait(p) ==
    /\ At(p, "idle")
    /\ t' = [t EXCEPT ![p] = wait]
    /\ wait' = (wait + 1) % Wrap
    /\ line' = Append(line, p)
    /\ Goto(p, "ticket")
    /\ UNCHANGED <<notify, list, all, todo, lag, owed>>

(* Mutant: the waiter goes to sleep whatever was notified. *)
notifyListWaitBlind(p) ==
    /\ At(p, "ticket")
    /\ list' = Append(list, p)
    /\ Goto(p, "parked")
    /\ lag' = [lag EXCEPT ![p] = 0]
    /\ UNCHANGED <<wait, notify, t, all, todo, line, owed>>

(* After c.L.Unlock(): sleep, unless the ticket has been notified. *)
notifyListWait(p) ==
    /\ At(p, "ticket")
    /\ IF less(t[p], notify)
       THEN Goto(p, "relock") /\ UNCHANGED list
       ELSE Goto(p, "parked") /\ list' = Append(list, p)
    /\ lag' = [lag EXCEPT ![p] = 0]
    /\ UNCHANGED <<wait, notify, t, all, todo, line, owed>>

(* c.L.Lock(), and Wait returns. *)
Relock(p) ==
    /\ At(p, "relock")
    /\ Goto(p, "idle")
    /\ t' = [t EXCEPT ![p] = 0]
    /\ UNCHANGED <<wait, notify, list, all, todo, line, lag, owed>>

-----------------------------------------------------------------------------
(* Signal and Broadcast load wait. *)
Call(p, broadcast) ==
    /\ At(p, "idle")
    /\ t' = [t EXCEPT ![p] = wait]
    /\ all' = [all EXCEPT ![p] = broadcast]
    /\ owed' = [owed EXCEPT ![p] = Range(line)]
    /\ Goto(p, "fast")
    /\ UNCHANGED <<wait, notify, list, todo, line, lag>>

Signal(p) == Call(p, FALSE)
Broadcast(p) == Call(p, TRUE)

Return(p) ==
    /\ Goto(p, "idle")
    /\ t' = [t EXCEPT ![p] = 0]
    /\ all' = [all EXCEPT ![p] = FALSE]
    /\ owed' = [owed EXCEPT ![p] = {}]

(* The fast path loads notify: no lock if nobody has come since. *)
FastPath(p) ==
    /\ At(p, "fast")
    /\ IF t[p] = notify
       THEN Return(p)
       ELSE Goto(p, "lock") /\ UNCHANGED <<t, all, owed>>
    /\ UNCHANGED <<wait, notify, list, todo, line, lag>>

Place(q) == CHOOSE i \in DOMAIN line : line[i] = q

(* notify advances past the first n goroutines in line. *)
Advance(n) ==
    LET gone == {line[i] : i \in 1..n}
    IN  /\ notify' = (notify + n) % Wrap
        /\ line' = SubSeq(line, n + 1, Len(line))
        /\ lag' = [q \in Proc |-> IF ~At(q, "ticket") \/ q \in Range(line') THEN lag[q]
                                  ELSE IF q \in gone THEN n + 1 - Place(q) ELSE lag[q] + n]
        /\ \A q \in Proc : lag'[q] <= MaxLag
        /\ owed' = [q \in Proc |-> owed[q] \ gone]

(* The first waiter with the ticket notify leaves the list, if it is there, *)
(* for p to make it ready.                                                  *)
Unpark(p) ==
    LET found == {k \in DOMAIN list : t[list[k]] = notify}
    IN  /\ list' = IF found = {} THEN list ELSE RemoveAt(list, Min(found))
        /\ todo' = [todo EXCEPT ![p] = IF found = {} THEN <<>> ELSE <<list[Min(found)]>>]

(* Mutant: a list that is empty means that nobody waits. *)
NotifyOneByList(p) ==
    /\ At(p, "lock") /\ ~all[p]
    /\ IF list = <<>>
       THEN /\ Return(p)
            /\ UNCHANGED <<notify, list, todo, line, lag>>
       ELSE /\ Advance(1)
            /\ Unpark(p)
            /\ Goto(p, "ready")
            /\ UNCHANGED <<t, all>>
    /\ UNCHANGED wait

notifyListNotifyOne(p) ==
    /\ At(p, "lock") /\ ~all[p]
    /\ IF notify = wait
       THEN /\ Return(p)
            /\ UNCHANGED <<notify, list, todo, line, lag>>
       ELSE /\ Advance(1)
            /\ Unpark(p)
            /\ Goto(p, "ready")
            /\ UNCHANGED <<t, all>>
    /\ UNCHANGED wait

(* Mutant: the rest of the list is forgotten. *)
NotifyAllHead(p) ==
    /\ At(p, "lock") /\ all[p]
    /\ Advance((wait - notify) % Wrap)
    /\ list' = <<>>
    /\ todo' = [todo EXCEPT ![p] = IF list = <<>> THEN <<>> ELSE <<Head(list)>>]
    /\ Goto(p, "ready")
    /\ UNCHANGED <<wait, t, all>>

notifyListNotifyAll(p) ==
    /\ At(p, "lock") /\ all[p]
    /\ Advance((wait - notify) % Wrap)
    /\ list' = <<>>
    /\ todo' = [todo EXCEPT ![p] = list]
    /\ Goto(p, "ready")
    /\ UNCHANGED <<wait, t, all>>

(* readyWithTime, outside the lock, for one waiter after the other. *)
Ready(p) ==
    /\ At(p, "ready") /\ todo[p] # <<>>
    /\ pc' = [pc EXCEPT ![Head(todo[p])] = "relock"]
    /\ todo' = [todo EXCEPT ![p] = Tail(@)]
    /\ UNCHANGED <<wait, notify, list, t, all, line, lag, owed>>

NotifyReturns(p) ==
    /\ At(p, "ready") /\ todo[p] = <<>>
    /\ Return(p)
    /\ UNCHANGED <<wait, notify, list, todo, line, lag>>

-----------------------------------------------------------------------------
Step(p) ==
    \/ notifyListWait(p) \/ Relock(p)
    \/ FastPath(p) \/ notifyListNotifyOne(p) \/ notifyListNotifyAll(p)
    \/ Ready(p) \/ NotifyReturns(p)

Next == \E p \in Proc : Wait(p) \/ Signal(p) \/ Broadcast(p) \/ Step(p)

Spec == Init /\ [][Next]_vars

(* Goroutines that can run are run. *)
FairSpec == Spec /\ \A p \in Proc : WF_vars(Step(p))

-----------------------------------------------------------------------------
TypeOK ==
    /\ wait \in 0..Wrap - 1 /\ notify \in 0..Wrap - 1
    /\ list \in Seq(Proc) /\ line \in Seq(Proc)
    /\ pc \in [Proc -> {"idle", "ticket", "parked", "relock", "fast", "lock", "ready"}]
    /\ t \in [Proc -> 0..Wrap - 1]
    /\ all \in [Proc -> BOOLEAN]
    /\ todo \in [Proc -> Seq(Proc)]
    /\ lag \in [Proc -> 0..MaxLag]
    /\ owed \in [Proc -> SUBSET Proc]

(* The tickets between notify and wait are those of the goroutines in line. *)
Tickets ==
    /\ Len(line) = (wait - notify) % Wrap
    /\ \A i \in DOMAIN line : t[line[i]] = (notify + i - 1) % Wrap

(* A goroutine whose ticket has been notified is not put to sleep: it is   *)
(* in the list only while its own ticket is still to come.                 *)
NotifiedStaysAwake == \A p \in Range(list) : p \in Range(line)

(* The places where a goroutine waits to be woken: in the list, or with a  *)
(* notifier.                                                               *)
InListAt(p) == {i \in DOMAIN list : list[i] = p}
InTodoAt(p) == {u \in Proc \X (1..Cardinality(Proc)) :
                    u[2] \in DOMAIN todo[u[1]] /\ todo[u[1]][u[2]] = p}

(* A goroutine sleeps either in the list, with its ticket to come, or with *)
(* one notifier that is about to wake it; a goroutine that has left        *)
(* notifyListWait has been notified.                                       *)
Asleep ==
    /\ TypeOK
    /\ Tickets
    /\ NotifiedStaysAwake
    /\ \A p \in Proc :
           /\ At(p, "parked") => Cardinality(InListAt(p)) + Cardinality(InTodoAt(p)) = 1
           /\ p \in Range(line) => At(p, "ticket") \/ (At(p, "parked") /\ p \in Range(list))

(* A Broadcast has notified everyone who waited when it was called, and a  *)
(* Signal one of them: a call that gives up early has missed nobody.       *)
Delivered ==
    [][\A p \in Proc :
          /\ pc[p] \in {"fast", "lock"} /\ At(p, "idle")' => owed[p] = {}
          /\ At(p, "lock") /\ At(p, "ready")' =>
                IF all[p] THEN owed'[p] = {} ELSE owed[p] = {} \/ owed'[p] # owed[p]]_vars

(* A goroutine that has been notified returns from Wait. *)
NotifiedReturns ==
    \A p \in Proc : pc[p] \in {"ticket", "parked"} /\ p \notin Range(line) ~> At(p, "idle")
=============================================================================
