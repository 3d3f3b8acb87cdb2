------------------------------- MODULE Mutex -------------------------------
(***************************************************************************)
(* sync.Mutex (sync/mutex.go).  Every atomic access to m.state is a step,  *)
(* and between two of them any other goroutine may run.  The state word is *)
(* a set of flag bits and the number of waiters; the goroutine's locals    *)
(* old, awoke, starving and waitStartTime # 0 are kept per goroutine.      *)
(*                                                                         *)
(* Time is not modelled: a goroutine that wakes may or may not have waited *)
(* longer than starvationThresholdNs, and runtime_canSpin may say either.  *)
(***************************************************************************)
EXTENDS Semaphore

CONSTANTS
    sema,       \* the address &m.sema
    MaxCalls    \* the Lock and TryLock calls made in all: a bound

ASSUME MutexConstants == sema \in Addr /\ MaxCalls \in Nat

mutexLocked == "locked"
mutexWoken == "woken"
mutexStarving == "starving"
Bits == {mutexLocked, mutexWoken, mutexStarving}

VARIABLES
    state,      \* m.state
    pc,         \* where each goroutine is
    old,        \* the local old of lockSlow, TryLock and unlockSlow
    awoke,      \* locals of lockSlow
    starving,
    waited,     \* waitStartTime # 0
    calls       \* the number of Lock and TryLock calls made so far

locals == <<old, awoke, starving, waited>>
mutexVars == <<state, pc, old, awoke, starving, waited, calls>>
vars == <<state, pc, old, awoke, starving, waited, calls, sem, queue, req>>

Unlocked == [bits |-> {}, waiters |-> 0]

MutexInit ==
    /\ state = Unlocked
    /\ pc = [p \in Proc |-> "idle"]
    /\ old = [p \in Proc |-> Unlocked]
    /\ awoke = [p \in Proc |-> FALSE]
    /\ starving = [p \in Proc |-> FALSE]
    /\ waited = [p \in Proc |-> FALSE]
    /\ calls = 0

Init == MutexInit /\ SemInit

Goto(p, there) == pc' = [pc EXCEPT ![p] = there]

(* old&mask == 0 *)
Clear(word, mask) == word.bits \intersect mask = {}

CAS(p, new) == state = old[p] /\ state' = new

(* The call ends; the locals are gone, and start afresh in the next call. *)
Return(p, there) ==
    /\ Goto(p, there)
    /\ old' = [old EXCEPT ![p] = Unlocked]
    /\ awoke' = [awoke EXCEPT ![p] = FALSE]
    /\ starving' = [starving EXCEPT ![p] = FALSE]
    /\ waited' = [waited EXCEPT ![p] = FALSE]

-----------------------------------------------------------------------------
(* Lock *)

NewCall(p) ==
    /\ pc[p] = "idle"
    /\ calls < MaxCalls
    /\ calls' = calls + 1

LockFast(p) ==
    /\ NewCall(p)
    /\ state = Unlocked
    /\ state' = [state EXCEPT !.bits = {mutexLocked}]
    /\ Goto(p, "locked")
    /\ UNCHANGED <<locals, semVars>>

(* The CAS of the fast path fails: lockSlow starts. *)
LockSlow(p) ==
    /\ NewCall(p)
    /\ state # Unlocked
    /\ Goto(p, "load")
    /\ UNCHANGED <<state, locals, semVars>>

(* old = m.state *)
LoadState(p) ==
    /\ pc[p] = "load"
    /\ old' = [old EXCEPT ![p] = state]
    /\ Goto(p, "loop")
    /\ UNCHANGED <<state, awoke, starving, waited, calls, semVars>>

(* Mutant: awoke = true is forgotten. *)
SpinForgets(p) ==
    LET o == old[p]
        claim == ~awoke[p] /\ mutexWoken \notin o.bits /\ o.waiters # 0
    IN  /\ pc[p] = "loop"
        /\ o.bits \intersect {mutexLocked, mutexStarving} = {mutexLocked}
        /\ state' = IF claim /\ state = o
                    THEN [state EXCEPT !.bits = @ \union {mutexWoken}] ELSE state
        /\ Goto(p, "load")
        /\ UNCHANGED <<locals, calls, semVars>>

(* One round of active spinning, which may set mutexWoken. *)
Spin(p) ==
    LET o == old[p]
        claim == ~awoke[p] /\ mutexWoken \notin o.bits /\ o.waiters # 0
    IN  /\ pc[p] = "loop"
        /\ o.bits \intersect {mutexLocked, mutexStarving} = {mutexLocked}
        /\ IF claim /\ state = o
           THEN /\ state' = [state EXCEPT !.bits = @ \union {mutexWoken}]
                /\ awoke' = [awoke EXCEPT ![p] = TRUE]
           ELSE UNCHANGED <<state, awoke>>
        /\ Goto(p, "load")
        /\ UNCHANGED <<old, starving, waited, calls, semVars>>

(* The state word lockSlow tries to install. *)
Wanted(p) ==
    LET o == old[p]
    IN  [bits |->
            ((IF mutexStarving \notin o.bits THEN o.bits \union {mutexLocked} ELSE o.bits)
             \union (IF starving[p] /\ mutexLocked \in o.bits THEN {mutexStarving} ELSE {}))
            \ (IF awoke[p] THEN {mutexWoken} ELSE {}),
         waiters |-> IF Clear(o, {mutexLocked, mutexStarving}) THEN o.waiters ELSE o.waiters + 1]

(* p has been woken, so mutexWoken must still be set. *)
Consistent(p) == awoke[p] => mutexWoken \in old[p].bits

(* Mutant: a plain store instead of the CAS. *)
LockStore(p) ==
    /\ pc[p] = "loop"
    /\ Consistent(p)
    /\ Clear(old[p], {mutexLocked, mutexStarving})
    /\ state' = Wanted(p)
    /\ Return(p, "locked")
    /\ UNCHANGED <<calls, semVars>>

(* The CAS takes the lock. *)
LockCAS(p) ==
    /\ pc[p] = "loop"
    /\ Consistent(p)
    /\ Clear(old[p], {mutexLocked, mutexStarving})
    /\ CAS(p, Wanted(p))
    /\ Return(p, "locked")
    /\ UNCHANGED <<calls, semVars>>

(* The CAS makes p a waiter, and p goes to sleep: in front of the queue if *)
(* it has waited before.                                                   *)
WaitCAS(p) ==
    /\ pc[p] = "loop"
    /\ Consistent(p)
    /\ ~Clear(old[p], {mutexLocked, mutexStarving})
    /\ CAS(p, Wanted(p))
    /\ Semacquire(p, sema, waited[p])
    /\ waited' = [waited EXCEPT ![p] = TRUE]
    /\ Goto(p, "wait")
    /\ UNCHANGED <<old, awoke, starving, calls, sem, queue>>

(* The CAS fails, or the round ends in "sync: inconsistent mutex state". *)
FailedCAS(p) ==
    /\ pc[p] = "loop"
    /\ Consistent(p) => state # old[p]
    /\ Goto(p, IF Consistent(p) THEN "load" ELSE "throw")
    /\ UNCHANGED <<state, locals, calls, semVars>>

(* runtime_SemacquireMutex has returned; long says that p has waited longer *)
(* than the starvation threshold.  The mutex is in normal mode.             *)
Wake(p, long) ==
    /\ pc[p] = "wait"
    /\ Returned(p)
    /\ mutexStarving \notin state.bits
    /\ starving' = [starving EXCEPT ![p] = @ \/ long]
    /\ old' = [old EXCEPT ![p] = state]
    /\ awoke' = [awoke EXCEPT ![p] = TRUE]
    /\ Goto(p, "loop")
    /\ UNCHANGED <<state, waited, calls, semVars>>

(* The same in starvation mode: the lock has been handed to p, whose view  *)
(* of the state word must be consistent with that.                         *)
WakeStarving(p, long) ==
    /\ pc[p] = "wait"
    /\ Returned(p)
    /\ mutexStarving \in state.bits
    /\ starving' = [starving EXCEPT ![p] = @ \/ long]
    /\ old' = [old EXCEPT ![p] = state]
    /\ Goto(p, IF Clear(state, {mutexLocked, mutexWoken}) /\ state.waiters # 0
               THEN "handoff" ELSE "throw")
    /\ UNCHANGED <<state, awoke, waited, calls, semVars>>

(* atomic.AddInt32(&m.state, delta), delta computed from old.  The addition *)
(* is carry-free as long as the fields it changes are as p saw them.        *)
AcceptHandoff(p) ==
    LET exit == ~starving[p] \/ old[p].waiters = 1
    IN  /\ pc[p] = "handoff"
        /\ IF mutexLocked \notin state.bits /\ mutexStarving \in state.bits /\ state.waiters > 0
           THEN /\ state' = [bits |-> (state.bits \union {mutexLocked})
                                        \ (IF exit THEN {mutexStarving} ELSE {}),
                             waiters |-> state.waiters - 1]
                /\ Return(p, "locked")
           ELSE Goto(p, "throw") /\ UNCHANGED <<state, locals>>
        /\ UNCHANGED <<calls, semVars>>

-----------------------------------------------------------------------------
(* TryLock *)

(* Mutant: TryLock does not look at mutexStarving. *)
TryLockStarving(p) ==
    /\ NewCall(p)
    /\ IF Clear(state, {mutexLocked})
       THEN old' = [old EXCEPT ![p] = state] /\ Goto(p, "try")
       ELSE UNCHANGED <<old, pc>>
    /\ UNCHANGED <<state, awoke, starving, waited, semVars>>

TryLock(p) ==
    /\ NewCall(p)
    /\ IF Clear(state, {mutexLocked, mutexStarving})
       THEN old' = [old EXCEPT ![p] = state] /\ Goto(p, "try")
       ELSE UNCHANGED <<old, pc>>
    /\ UNCHANGED <<state, awoke, starving, waited, semVars>>

TryLockCAS(p) ==
    /\ pc[p] = "try"
    /\ IF state = old[p]
       THEN /\ state' = [state EXCEPT !.bits = @ \union {mutexLocked}]
            /\ Return(p, "locked")
       ELSE Return(p, "idle") /\ UNCHANGED state
    /\ UNCHANGED <<calls, semVars>>

-----------------------------------------------------------------------------
(* Unlock *)

(* atomic.AddInt32(&m.state, -mutexLocked), and what its result selects: *)
(* "sync: unlock of unlocked mutex", the handoff of starvation mode,     *)
(* nothing at all, or the loop that may wake a waiter.                   *)
Unlock(p) ==
    LET new == [state EXCEPT !.bits = @ \ {mutexLocked}]
    IN  /\ pc[p] = "locked"
        /\ state' = new
        /\ IF mutexLocked \in state.bits /\ mutexStarving \in new.bits
           THEN Semrelease(p, sema, TRUE) /\ Goto(p, "release")
           ELSE /\ Goto(p, IF mutexLocked \notin state.bits THEN "throw"
                           ELSE IF new = Unlocked THEN "idle" ELSE "unlock")
                /\ UNCHANGED req
        /\ old' = IF pc'[p] = "unlock" THEN [old EXCEPT ![p] = new] ELSE old
        /\ UNCHANGED <<awoke, starving, waited, calls, sem, queue>>

(* Nobody needs to be woken. *)
UnlockDone(p) ==
    /\ pc[p] = "unlock"
    /\ old[p].waiters = 0 \/ ~Clear(old[p], Bits)
    /\ Return(p, "idle")
    /\ UNCHANGED <<state, calls, semVars>>

(* Mutant: mutexWoken is not set with the waiter's departure. *)
UnlockWakeUnmarked(p) ==
    /\ pc[p] = "unlock"
    /\ old[p].waiters # 0 /\ Clear(old[p], Bits)
    /\ CAS(p, [bits |-> old[p].bits, waiters |-> old[p].waiters - 1])
    /\ Semrelease(p, sema, FALSE)
    /\ Goto(p, "release")
    /\ UNCHANGED <<locals, calls, sem, queue>>

(* p grabs the right to wake someone. *)
UnlockWake(p) ==
    /\ pc[p] = "unlock"
    /\ old[p].waiters # 0 /\ Clear(old[p], Bits)
    /\ CAS(p, [bits |-> old[p].bits \union {mutexWoken}, waiters |-> old[p].waiters - 1])
    /\ Semrelease(p, sema, FALSE)
    /\ Goto(p, "release")
    /\ UNCHANGED <<locals, calls, sem, queue>>

UnlockRetry(p) ==
    /\ pc[p] = "unlock"
    /\ old[p].waiters # 0 /\ Clear(old[p], Bits)
    /\ state # old[p]
    /\ Goto(p, "reload")
    /\ UNCHANGED <<state, locals, calls, semVars>>

UnlockReload(p) ==
    /\ pc[p] = "reload"
    /\ old' = [old EXCEPT ![p] = state]
    /\ Goto(p, "unlock")
    /\ UNCHANGED <<state, awoke, starving, waited, calls, semVars>>

(* runtime_Semrelease has returned. *)
Released(p) ==
    /\ pc[p] = "release"
    /\ Returned(p)
    /\ Return(p, "idle")
    /\ UNCHANGED <<state, calls, semVars>>

-----------------------------------------------------------------------------
(* What p does once it is inside Lock or Unlock. *)
Step(p) ==
    \/ LoadState(p) \/ Spin(p) \/ LockCAS(p) \/ WaitCAS(p) \/ FailedCAS(p)
    \/ \E long \in BOOLEAN : Wake(p, long) \/ WakeStarving(p, long)
    \/ AcceptHandoff(p) \/ TryLockCAS(p)
    \/ UnlockDone(p) \/ UnlockWake(p) \/ UnlockRetry(p) \/ UnlockReload(p) \/ Released(p)
    \/ SemStep(p) /\ UNCHANGED mutexVars

Next ==
    \E p \in Proc : LockFast(p) \/ LockSlow(p) \/ TryLock(p) \/ Unlock(p) \/ Step(p)

Spec == Init /\ [][Next]_vars

(* The scheduler runs every goroutine that can run, and a goroutine that   *)
(* holds the lock unlocks it.                                              *)
Fairness == \A p \in Proc : WF_vars(Step(p)) /\ WF_vars(Unlock(p))

FairSpec == Spec /\ Fairness

-----------------------------------------------------------------------------
Word == [bits : SUBSET Bits, waiters : Nat]

TypeOK ==
    /\ SemTypeOK
    /\ state \in Word
    /\ pc \in [Proc -> {"idle", "load", "loop", "wait", "handoff", "try", "locked",
                        "unlock", "reload", "release", "throw"}]
    /\ old \in [Proc -> Word]
    /\ awoke \in [Proc -> BOOLEAN]
    /\ starving \in [Proc -> BOOLEAN]
    /\ waited \in [Proc -> BOOLEAN]
    /\ calls \in Nat

(* At most one goroutine is between Lock and Unlock, whatever mix of fast  *)
(* path, wakeup, TryLock and starvation handoff let it in.                 *)
MutualExclusion ==
    \A p, q \in Proc : pc[p] = "locked" /\ pc[q] = "locked" => p = q

(* The "inconsistent mutex state" and "unlock of unlocked mutex" throws are *)
(* unreachable when only holders unlock, and the AddInt32 of a handoff,     *)
(* computed from an earlier load, never carries from one field of the state *)
(* word into another.                                                       *)
NoThrow == \A p \in Proc : pc[p] # "throw"

(* In starvation mode ownership goes from Unlock to the waiter at the front: *)
(* a new arrival never gets the lock by a CAS.                               *)
NoBarging ==
    [][\A p \in Proc :
         mutexStarving \in state.bits /\ pc[p] # "locked" /\ pc'[p] = "locked"
            => pc[p] = "handoff"]_vars

(* p carries a wakeup: it is about to release m.sema, it has acquired it,   *)
(* or it has claimed mutexWoken and not yet given it back.                  *)
HasWakeup(p) ==
    \/ pc[p] = "release" /\ req[p].op = "release"
    \/ pc[p] = "wait" /\ Returned(p)
    \/ pc[p] \in {"load", "loop"} /\ awoke[p]
    \/ pc[p] = "handoff"

(* At most one wakeup is under way, as a permit of m.sema or with a         *)
(* goroutine, and the state word shows it: mutexWoken is set, or the mutex  *)
(* is on its way from one owner to the next in starvation mode.             *)
OneWakeup ==
    /\ sem[sema] <= 1
    /\ \A p \in Proc : HasWakeup(p) =>
            sem[sema] = 0 /\ \A q \in Proc : HasWakeup(q) => q = p
    /\ sem[sema] > 0 \/ (\E p \in Proc : HasWakeup(p)) =>
            \/ mutexWoken \in state.bits
            \/ mutexStarving \in state.bits /\ mutexLocked \notin state.bits

(* Every Lock call returns: no wakeup is lost between the state word and    *)
(* the semaphore, however many goroutines it is handed past.                *)
Waiting(p) == pc[p] \in {"load", "loop", "wait", "handoff"}

LockReturns == \A p \in Proc : Waiting(p) ~> pc[p] = "locked"
=============================================================================
