------------------------------ MODULE RWMutex ------------------------------
(***************************************************************************)
(* sync.RWMutex (sync/rwmutex.go) over the runtime semaphores.  Each       *)
(* atomic addition or compare-and-swap is a step.  The inner Mutex rw.w is *)
(* a lock w: module Mutex is about its inside.  TryRLock's loop of a load  *)
(* and a compare-and-swap is one test-and-increment.                       *)
(*                                                                         *)
(* A lock is released by the goroutine that got it.  The code allows       *)
(* another one to do it; that only renames the goroutines.                 *)
(***************************************************************************)
EXTENDS Semaphore

CONSTANTS
    readerSem, writerSem,   \* the addresses of the two semaphores
    rwmutexMaxReaders

ASSUME RWMutexConstants ==
    /\ readerSem \in Addr /\ writerSem \in Addr /\ readerSem # writerSem
    /\ rwmutexMaxReaders \in Nat /\ rwmutexMaxReaders > Cardinality(Proc)

VARIABLES
    w,              \* the goroutine that holds rw.w, or Nil
    readerCount,
    readerWait,
    pc,             \* where each goroutine is
    r               \* the local r of Lock; in Unlock, the releases left to do

rwVars == <<w, readerCount, readerWait, pc, r>>
vars == <<w, readerCount, readerWait, pc, r, sem, queue, req>>

Init ==
    /\ w = Nil
    /\ readerCount = 0
    /\ readerWait = 0
    /\ pc = [p \in Proc |-> "idle"]
    /\ r = [p \in Proc |-> 0]
    /\ SemInit

At(p, here) == pc[p] = here
Goto(p, there) == pc' = [pc EXCEPT ![p] = there]

-----------------------------------------------------------------------------
(* Readers *)

(* Mutant: a reader that arrives behind a pending writer does not wait. *)
RLockBarging(p) ==
    /\ At(p, "idle")
    /\ readerCount' = readerCount + 1
    /\ Goto(p, "rlocked")
    /\ UNCHANGED <<w, readerWait, r, semVars>>

RLock(p) ==
    /\ At(p, "idle")
    /\ readerCount' = readerCount + 1
    /\ IF readerCount' < 0
       THEN Goto(p, "rwait") /\ Semacquire(p, readerSem, FALSE)
       ELSE Goto(p, "rlocked") /\ UNCHANGED req
    /\ UNCHANGED <<w, readerWait, r, sem, queue>>

RLocked(p) ==
    /\ At(p, "rwait") /\ Returned(p)
    /\ Goto(p, "rlocked")
    /\ UNCHANGED <<w, readerCount, readerWait, r, semVars>>

(* TryRLock succeeds; when it does not it changes nothing. *)
TryRLock(p) ==
    /\ At(p, "idle")
    /\ readerCount >= 0
    /\ readerCount' = readerCount + 1
    /\ Goto(p, "rlocked")
    /\ UNCHANGED <<w, readerWait, r, semVars>>

RUnlock(p) ==
    /\ At(p, "rlocked")
    /\ readerCount' = readerCount - 1
    /\ Goto(p, IF readerCount' >= 0 THEN "idle"
               ELSE IF readerCount \in {0, -rwmutexMaxReaders} THEN "throw" ELSE "rslow")
    /\ UNCHANGED <<w, readerWait, r, semVars>>

(* Mutant: a reader that leaves before the writer has counted the readers  *)
(* signals too.                                                            *)
RUnlockSlowEager(p) ==
    /\ At(p, "rslow")
    /\ readerWait' = readerWait - 1
    /\ IF readerWait' <= 0
       THEN Goto(p, "rsignal") /\ Semrelease(p, writerSem, FALSE)
       ELSE Goto(p, "idle") /\ UNCHANGED req
    /\ UNCHANGED <<w, readerCount, r, sem, queue>>

(* The last of the readers that a writer waits for signals it. *)
RUnlockSlow(p) ==
    /\ At(p, "rslow")
    /\ readerWait' = readerWait - 1
    /\ IF readerWait' = 0
       THEN Goto(p, "rsignal") /\ Semrelease(p, writerSem, FALSE)
       ELSE Goto(p, "idle") /\ UNCHANGED req
    /\ UNCHANGED <<w, readerCount, r, sem, queue>>

RSignalled(p) ==
    /\ At(p, "rsignal") /\ Returned(p)
    /\ Goto(p, "idle")
    /\ UNCHANGED <<w, readerCount, readerWait, r, semVars>>

-----------------------------------------------------------------------------
(* Writers *)

Lock(p) ==
    /\ At(p, "idle")
    /\ Goto(p, "lockw")
    /\ UNCHANGED <<w, readerCount, readerWait, r, semVars>>

(* rw.w.Lock() returns. *)
LockW(p) ==
    /\ At(p, "lockw")
    /\ w = Nil
    /\ w' = p
    /\ Goto(p, "announce")
    /\ UNCHANGED <<readerCount, readerWait, r, semVars>>

Announce(p) ==
    /\ At(p, "announce")
    /\ readerCount' = readerCount - rwmutexMaxReaders
    /\ r' = [r EXCEPT ![p] = readerCount]
    /\ Goto(p, IF readerCount = 0 THEN "locked" ELSE "addwait")
    /\ UNCHANGED <<w, readerWait, semVars>>

(* Mutant: the writer sleeps although the readers it counted have left. *)
AddWaitBlind(p) ==
    /\ At(p, "addwait")
    /\ readerWait' = readerWait + r[p]
    /\ r' = [r EXCEPT ![p] = 0]
    /\ Goto(p, "wwait") /\ Semacquire(p, writerSem, FALSE)
    /\ UNCHANGED <<w, readerCount, sem, queue>>

(* Mutant: the count of departing readers is stored, not added. *)
AddWaitStore(p) ==
    /\ At(p, "addwait")
    /\ readerWait' = r[p]
    /\ r' = [r EXCEPT ![p] = 0]
    /\ Goto(p, "wwait") /\ Semacquire(p, writerSem, FALSE)
    /\ UNCHANGED <<w, readerCount, sem, queue>>

AddWait(p) ==
    /\ At(p, "addwait")
    /\ readerWait' = readerWait + r[p]
    /\ r' = [r EXCEPT ![p] = 0]
    /\ IF readerWait' # 0
       THEN Goto(p, "wwait") /\ Semacquire(p, writerSem, FALSE)
       ELSE Goto(p, "locked") /\ UNCHANGED req
    /\ UNCHANGED <<w, readerCount, sem, queue>>

Locked(p) ==
    /\ At(p, "wwait") /\ Returned(p)
    /\ Goto(p, "locked")
    /\ UNCHANGED <<w, readerCount, readerWait, r, semVars>>

(* TryLock gets rw.w; when it does not it changes nothing. *)
TryLock(p) ==
    /\ At(p, "idle")
    /\ w = Nil
    /\ w' = p
    /\ Goto(p, "trycas")
    /\ UNCHANGED <<readerCount, readerWait, r, semVars>>

TryLockCAS(p) ==
    /\ At(p, "trycas")
    /\ IF readerCount = 0
       THEN readerCount' = -rwmutexMaxReaders /\ Goto(p, "locked")
       ELSE UNCHANGED readerCount /\ Goto(p, "unlockw")
    /\ UNCHANGED <<w, readerWait, r, semVars>>

Unlock(p) ==
    /\ At(p, "locked")
    /\ readerCount' = readerCount + rwmutexMaxReaders
    /\ IF readerCount' >= rwmutexMaxReaders
       THEN Goto(p, "throw") /\ UNCHANGED r
       ELSE Goto(p, "wake") /\ r' = [r EXCEPT ![p] = readerCount']
    /\ UNCHANGED <<w, readerWait, semVars>>

(* Mutant: one permit for all the readers. *)
WakeOne(p) ==
    /\ At(p, "wake") /\ Returned(p)
    /\ r[p] > 0
    /\ Semrelease(p, readerSem, FALSE)
    /\ r' = [r EXCEPT ![p] = 0]
    /\ UNCHANGED <<w, readerCount, readerWait, pc, sem, queue>>

(* One round of the loop that unblocks the readers. *)
Wake(p) ==
    /\ At(p, "wake") /\ Returned(p)
    /\ r[p] > 0
    /\ Semrelease(p, readerSem, FALSE)
    /\ r' = [r EXCEPT ![p] = @ - 1]
    /\ UNCHANGED <<w, readerCount, readerWait, pc, sem, queue>>

(* rw.w.Unlock(), at the end of Unlock and of a TryLock that failed. *)
UnlockW(p) ==
    /\ \/ At(p, "wake") /\ Returned(p) /\ r[p] = 0
       \/ At(p, "unlockw")
    /\ w' = Nil
    /\ Goto(p, "idle")
    /\ UNCHANGED <<readerCount, readerWait, r, semVars>>

-----------------------------------------------------------------------------
Arrive(p) == RLock(p) \/ TryRLock(p) \/ Lock(p) \/ TryLock(p)

Step(p) ==
    \/ RLocked(p) \/ RUnlock(p) \/ RUnlockSlow(p) \/ RSignalled(p)
    \/ Announce(p) \/ AddWait(p) \/ Locked(p) \/ TryLockCAS(p)
    \/ Unlock(p) \/ Wake(p) \/ UnlockW(p)
    \/ SemStep(p) /\ UNCHANGED rwVars

Next == \E p \in Proc : Arrive(p) \/ LockW(p) \/ Step(p)

Spec == Init /\ [][Next]_vars

(* Goroutines that can run are run, holders unlock, and the inner Mutex    *)
(* lets nobody wait for ever (its starvation mode).                        *)
Fairness == \A p \in Proc : WF_vars(Step(p)) /\ SF_vars(LockW(p))

FairSpec == Spec /\ Fairness

-----------------------------------------------------------------------------
Places == {"idle", "rwait", "rlocked", "rslow", "rsignal", "lockw", "announce", "addwait",
           "wwait", "locked", "trycas", "unlockw", "wake"}

TypeOK ==
    /\ w \in Proc \union {Nil}
    /\ readerCount \in Int /\ readerWait \in Int
    /\ pc \in [Proc -> Places]
    /\ r \in [Proc -> Nat]
    /\ SemTypeOK

In(places) == {p \in Proc : pc[p] \in places}

(* The writer that readers see, once it has announced itself. *)
Writing == In({"addwait", "wwait", "locked"})

(* The permits that Unlock has given or will still give to readers. *)
Grants ==
    Permits(readerSem) + (IF w \in In({"wake"}) THEN r[w] ELSE 0)

Waiting == {p \in In({"rwait"}) : ~Returned(p)}

(* The readers that a writer has to wait for: those inside or on their way *)
(* out, and those that the last Unlock lets in.                            *)
Present == Cardinality(In({"rlocked", "rslow"}) \union (In({"rwait"}) \ Waiting)) + Grants

(* readerCount counts the readers, offset by the pending writer; whatever  *)
(* order readers leave and the writer counts them in, readerWait and the   *)
(* writer's r add up to the readers it has to wait for; without a writer   *)
(* every waiting reader has a permit coming.  No throw is reached.         *)
Counts ==
    /\ TypeOK
    /\ readerCount = Cardinality(In({"rwait", "rlocked"})) - rwmutexMaxReaders * Cardinality(Writing)
    /\ IF Writing # {}
       THEN \E p \in Writing : readerWait + (IF At(p, "addwait") THEN r[p] ELSE 0) = Present
       ELSE readerWait = 0 /\ Grants = Cardinality(Waiting)

(* A writer is alone. *)
Exclusion == \A p \in In({"locked"}) : In({"locked", "rlocked"}) = {p}

(* A writer is signalled once, and only when nobody is left to wait for:   *)
(* no permit stays behind to let a later writer in early.                  *)
OneSignal ==
    Permits(writerSem) > 0 =>
        /\ Permits(writerSem) = 1
        /\ Present = 0
        /\ \E p \in In({"wwait"}) : ~Returned(p)

(* A pending Lock returns, although readers and writers keep coming: it    *)
(* excludes new readers.                                                   *)
WriterLocks == \A p \in Proc : At(p, "lockw") ~> At(p, "locked")

(* A reader that waits gets in, once writers stop coming.                  *)
ReadersReturn ==
    <>[](In({"announce", "addwait", "wwait", "locked"}) = {})
        => \A p \in Proc : At(p, "rwait") ~> At(p, "rlocked")
=============================================================================
