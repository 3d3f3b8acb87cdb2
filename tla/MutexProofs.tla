---------------------------- MODULE MutexProofs ----------------------------
(* Proofs about Mutex: mutual exclusion, the unreachable throws and the     *)
(* starvation mode's promise, for any number of goroutines and calls.       *)
EXTENDS Mutex, SemaphoreProofs

(* What holds of one goroutine and the state word. *)
Local(p) ==
    /\ pc[p] # "throw"
    /\ pc[p] = "wait" => req[p].op \in {"none", "acquire", "parked"}
    /\ pc[p] = "release" => req[p].op \in {"none", "release", "dequeue", "ready"}
    /\ pc[p] \notin {"wait", "release"} => Returned(p)
    /\ req[p].op # "none" => req[p].addr = sema
    /\ awoke[p] => pc[p] \in {"load", "loop", "wait", "handoff"}
    /\ starving[p] => awoke[p] \/ pc[p] = "handoff"
    /\ pc[p] = "locked" => mutexLocked \in state.bits
    /\ pc[p] = "try" => Clear(old[p], {mutexLocked, mutexStarving})
    /\ pc[p] \in {"load", "loop"} /\ awoke[p] => mutexWoken \in state.bits
    /\ pc[p] = "loop" /\ awoke[p] => mutexWoken \in old[p].bits
    /\ pc[p] = "handoff" =>
            /\ mutexStarving \in state.bits /\ mutexLocked \notin state.bits
            /\ 1 <= old[p].waiters /\ old[p].waiters <= state.waiters

StarvationMode ==
    mutexStarving \in state.bits => mutexWoken \notin state.bits /\ state.waiters >= 1

MutexInv ==
    /\ TypeOK
    /\ SemInv
    /\ \A p \in Proc : Local(p)
    /\ MutualExclusion
    /\ StarvationMode
    /\ OneWakeup

(* The fast path of Lock. *)
LEMMA LockFastInv ==
    ASSUME MutexInv, NEW p \in Proc, LockFast(p)
    PROVE  MutexInv'
<1> USE DEF mutexLocked, mutexWoken, mutexStarving
<1>1. SemInv'
  BY SemStutter DEF MutexInv, LockFast
<1>2. TypeOK'
  BY <1>1 DEF MutexInv, TypeOK, SemInv, Word, Bits, LockFast, NewCall, Goto, locals
<1>3. ASSUME NEW q \in Proc PROVE Local(q)'
  BY DEF MutexInv, Local, Returned, semVars, LockFast, NewCall, Goto, Unlocked, locals
<1>4. MutualExclusion'
  BY DEF MutexInv, Local, MutualExclusion, LockFast, Goto, Unlocked
<1>5. StarvationMode'
  BY DEF MutexInv, StarvationMode, LockFast
<1>6. OneWakeup'
  BY DEF MutexInv, OneWakeup, HasWakeup, Returned, semVars, LockFast, Goto, Unlocked, locals
<1> QED
  BY <1>1, <1>2, <1>3, <1>4, <1>5, <1>6 DEF MutexInv

(* The fast path fails. *)
LEMMA LockSlowInv ==
    ASSUME MutexInv, NEW p \in Proc, LockSlow(p)
    PROVE  MutexInv'
<1> USE DEF mutexLocked, mutexWoken, mutexStarving
<1>1. SemInv'
  BY SemStutter DEF MutexInv, LockSlow
<1>2. TypeOK'
  BY <1>1 DEF MutexInv, TypeOK, SemInv, LockSlow, NewCall, Goto, locals
<1>3. ASSUME NEW q \in Proc PROVE Local(q)'
  BY DEF MutexInv, Local, Returned, semVars, LockSlow, NewCall, Goto, locals
<1>4. MutualExclusion'
  BY DEF MutexInv, MutualExclusion, LockSlow, Goto
<1>5. StarvationMode'
  BY DEF MutexInv, StarvationMode, LockSlow
<1>6. OneWakeup'
  BY DEF MutexInv, Local, OneWakeup, HasWakeup, Returned, semVars, LockSlow, NewCall,
       Goto, locals
<1> QED
  BY <1>1, <1>2, <1>3, <1>4, <1>5, <1>6 DEF MutexInv

(* old = m.state. *)
LEMMA LoadStateInv ==
    ASSUME MutexInv, NEW p \in Proc, LoadState(p)
    PROVE  MutexInv'
<1> USE DEF mutexLocked, mutexWoken, mutexStarving
<1>1. SemInv'
  BY SemStutter DEF MutexInv, LoadState
<1>2. TypeOK'
  BY <1>1 DEF MutexInv, TypeOK, SemInv, LoadState, Goto
<1>3. ASSUME NEW q \in Proc PROVE Local(q)'
  BY DEF MutexInv, TypeOK, Local, Returned, semVars, LoadState, Goto
<1>4. MutualExclusion'
  BY DEF MutexInv, MutualExclusion, LoadState, Goto
<1>5. StarvationMode'
  BY DEF MutexInv, StarvationMode, LoadState
<1>6. OneWakeup'
  BY DEF MutexInv, OneWakeup, HasWakeup, Returned, semVars, LoadState, Goto
<1> QED
  BY <1>1, <1>2, <1>3, <1>4, <1>5, <1>6 DEF MutexInv

(* A round of spinning, which may claim mutexWoken. *)
LEMMA SpinInv ==
    ASSUME MutexInv, NEW p \in Proc, Spin(p)
    PROVE  MutexInv'
<1> USE DEF mutexLocked, mutexWoken, mutexStarving
<1>1. SemInv'
  BY SemStutter DEF MutexInv, Spin
<1>2. TypeOK'
  <2>1. state' \in Word
    BY DEF MutexInv, TypeOK, Word, Bits, Spin
  <2> QED
    BY <2>1, <1>1 DEF MutexInv, TypeOK, SemInv, Spin, Goto
<1>3. ASSUME NEW q \in Proc PROVE Local(q)'
  BY DEF MutexInv, TypeOK, Word, Local, Returned, semVars, Spin, Goto
<1>4. MutualExclusion'
  BY DEF MutexInv, MutualExclusion, Spin, Goto
<1>5. StarvationMode'
  BY DEF MutexInv, TypeOK, Word, StarvationMode, Spin
<1>6. OneWakeup'
  <2>1. \A q \in Proc : q # p => (HasWakeup(q)' <=> HasWakeup(q))
    BY DEF MutexInv, TypeOK, HasWakeup, Returned, semVars, Spin, Goto
  <2>2. CASE UNCHANGED <<state, awoke>>
    <3>1. HasWakeup(p)' <=> HasWakeup(p)
      BY <2>2 DEF MutexInv, HasWakeup, Spin, Goto
    <3> QED
      BY <2>1, <2>2, <3>1 DEF MutexInv, OneWakeup, Spin, semVars
  <2>3. CASE /\ state = old[p] /\ mutexWoken \notin old[p].bits
             /\ mutexLocked \in old[p].bits
             /\ state' = [state EXCEPT !.bits = @ \union {mutexWoken}]
    <3>1. sem[sema] \in Nat
      BY MutexConstants DEF MutexInv, SemInv, SemTypeOK
    <3>2. sem[sema] = 0 /\ \A q \in Proc : ~HasWakeup(q)
      BY <2>3, <3>1 DEF MutexInv, OneWakeup
    <3>3. mutexWoken \in state'.bits
      BY <2>3 DEF MutexInv
    <3>4. sem'[sema] = 0
      BY <3>2 DEF Spin, semVars
    <3> QED
      BY <2>1, <3>2, <3>3, <3>4 DEF OneWakeup
  <2> QED
    BY <2>2, <2>3 DEF Spin
<1> QED
  BY <1>1, <1>2, <1>3, <1>4, <1>5, <1>6 DEF MutexInv

(* The CAS takes the lock. *)
LEMMA LockCASInv ==
    ASSUME MutexInv, NEW p \in Proc, LockCAS(p)
    PROVE  MutexInv'
<1> USE DEF mutexLocked, mutexWoken, mutexStarving
<1>1. SemInv'
  BY SemStutter DEF MutexInv, LockCAS
<1>2. TypeOK'
  BY <1>1 DEF MutexInv, TypeOK, SemInv, Word, Bits, LockCAS, CAS, Return, Goto, Wanted,
       Unlocked
<1>3. ASSUME NEW q \in Proc PROVE Local(q)'
  BY DEF MutexInv, TypeOK, Local, OneWakeup, HasWakeup, Returned, semVars, LockCAS, CAS,
       Return, Goto, Wanted, Clear
<1>4. MutualExclusion'
  BY DEF MutexInv, Local, MutualExclusion, LockCAS, CAS, Return, Goto, Clear
<1>5. StarvationMode'
  BY DEF MutexInv, StarvationMode, LockCAS, CAS, Wanted, Clear
<1>6. OneWakeup'
  BY DEF MutexInv, TypeOK, OneWakeup, HasWakeup, Returned, semVars, LockCAS, CAS,
       Return, Goto, Wanted
<1> QED
  BY <1>1, <1>2, <1>3, <1>4, <1>5, <1>6 DEF MutexInv

(* The CAS makes p a waiter. *)
LEMMA WaitCASInv ==
    ASSUME MutexInv, NEW p \in Proc, WaitCAS(p)
    PROVE  MutexInv'
<1> USE DEF mutexLocked, mutexWoken, mutexStarving
<1>1. SemInv'
  <2>1. Returned(p) /\ waited[p] \in BOOLEAN
    BY DEF MutexInv, TypeOK, Local, WaitCAS
  <2> QED
    BY <2>1, CallInv, MutexConstants DEF MutexInv, WaitCAS
<1>2. TypeOK'
  BY <1>1, MutexConstants DEF MutexInv, TypeOK, SemInv, Word, Bits, WaitCAS, CAS, Goto,
       Wanted
<1>3. ASSUME NEW q \in Proc PROVE Local(q)'
  BY MutexConstants DEF MutexInv, TypeOK, Word, Local, OneWakeup, HasWakeup, Returned,
       WaitCAS, CAS, Goto, Wanted, Semacquire
<1>4. MutualExclusion'
  BY DEF MutexInv, MutualExclusion, WaitCAS, Goto
<1>5. StarvationMode'
  BY DEF MutexInv, TypeOK, Word, Local, StarvationMode, WaitCAS, CAS, Wanted
<1>6. OneWakeup'
  BY MutexConstants DEF MutexInv, TypeOK, SemTypeOK, OneWakeup, HasWakeup, Returned,
       WaitCAS, CAS, Goto, Wanted, Semacquire
<1> QED
  BY <1>1, <1>2, <1>3, <1>4, <1>5, <1>6 DEF MutexInv

(* The CAS fails, and never for an inconsistent state. *)
LEMMA FailedCASInv ==
    ASSUME MutexInv, NEW p \in Proc, FailedCAS(p)
    PROVE  MutexInv'
<1> USE DEF mutexLocked, mutexWoken, mutexStarving
<1>1. SemInv'
  BY SemStutter DEF MutexInv, FailedCAS
<1>2. TypeOK'
  BY <1>1 DEF MutexInv, TypeOK, SemInv, FailedCAS, Goto, locals
<1>3. ASSUME NEW q \in Proc PROVE Local(q)'
  BY DEF MutexInv, Local, Returned, semVars, FailedCAS, Goto, Consistent, locals
<1>4. MutualExclusion'
  BY DEF MutexInv, MutualExclusion, FailedCAS, Goto
<1>5. StarvationMode'
  BY DEF MutexInv, StarvationMode, FailedCAS
<1>6. OneWakeup'
  BY DEF MutexInv, OneWakeup, HasWakeup, Returned, semVars, FailedCAS, Goto, locals
<1> QED
  BY <1>1, <1>2, <1>3, <1>4, <1>5, <1>6 DEF MutexInv

(* p wakes in normal mode. *)
LEMMA WakeInv ==
    ASSUME MutexInv, NEW p \in Proc, NEW long \in BOOLEAN, Wake(p, long)
    PROVE  MutexInv'
<1> USE DEF mutexLocked, mutexWoken, mutexStarving
<1>1. SemInv'
  BY SemStutter DEF MutexInv, Wake
<1>2. TypeOK'
  BY <1>1 DEF MutexInv, TypeOK, SemInv, Wake, Goto
<1>3. ASSUME NEW q \in Proc PROVE Local(q)'
  BY DEF MutexInv, TypeOK, Local, OneWakeup, HasWakeup, Returned, semVars, Wake, Goto
<1>4. MutualExclusion'
  BY DEF MutexInv, MutualExclusion, Wake, Goto
<1>5. StarvationMode'
  BY DEF MutexInv, StarvationMode, Wake
<1>6. OneWakeup'
  BY DEF MutexInv, OneWakeup, HasWakeup, Returned, semVars, Wake, Goto
<1> QED
  BY <1>1, <1>2, <1>3, <1>4, <1>5, <1>6 DEF MutexInv

(* p wakes in starvation mode and finds the lock handed to it. *)
LEMMA WakeStarvingInv ==
    ASSUME MutexInv, NEW p \in Proc, NEW long \in BOOLEAN, WakeStarving(p, long)
    PROVE  MutexInv'
<1> USE DEF mutexLocked, mutexWoken, mutexStarving
<1>1. SemInv'
  BY SemStutter DEF MutexInv, WakeStarving
<1>2. TypeOK'
  BY <1>1 DEF MutexInv, TypeOK, SemInv, WakeStarving, Goto
<1>3. ASSUME NEW q \in Proc PROVE Local(q)'
  BY DEF MutexInv, TypeOK, Word, Local, OneWakeup, HasWakeup, StarvationMode, Returned,
       semVars, WakeStarving, Goto, Clear
<1>4. MutualExclusion'
  BY DEF MutexInv, MutualExclusion, WakeStarving, Goto
<1>5. StarvationMode'
  BY DEF MutexInv, StarvationMode, WakeStarving
<1>6. OneWakeup'
  BY DEF MutexInv, OneWakeup, HasWakeup, Returned, semVars, WakeStarving, Goto
<1> QED
  BY <1>1, <1>2, <1>3, <1>4, <1>5, <1>6 DEF MutexInv

(* p takes over the lock it was handed. *)
LEMMA AcceptHandoffInv ==
    ASSUME MutexInv, NEW p \in Proc, AcceptHandoff(p)
    PROVE  MutexInv'
<1> USE DEF mutexLocked, mutexWoken, mutexStarving
<1>1. SemInv'
  BY SemStutter DEF MutexInv, AcceptHandoff
<1>2. TypeOK'
  <2>1. state' \in Word
    BY DEF MutexInv, TypeOK, Word, Bits, AcceptHandoff
  <2>2. Unlocked \in Word
    BY DEF Unlocked, Word
  <2> QED
    BY <2>1, <2>2, <1>1 DEF MutexInv, TypeOK, SemInv, AcceptHandoff, Return, Goto, locals
<1>3. ASSUME NEW q \in Proc PROVE Local(q)'
  BY DEF MutexInv, TypeOK, Word, Local, OneWakeup, HasWakeup, Returned, semVars,
       AcceptHandoff, Return, Goto
<1>4. MutualExclusion'
  BY DEF MutexInv, TypeOK, Local, MutualExclusion, AcceptHandoff, Return, Goto
<1>5. StarvationMode'
  BY DEF MutexInv, TypeOK, Word, Local, StarvationMode, AcceptHandoff
<1>6. OneWakeup'
  <2>1. HasWakeup(p) /\ ~HasWakeup(p)'
    BY DEF MutexInv, TypeOK, HasWakeup, AcceptHandoff, Return, Goto
  <2>2. \A q \in Proc : q # p => (HasWakeup(q)' <=> HasWakeup(q))
    BY DEF MutexInv, TypeOK, HasWakeup, Returned, semVars, AcceptHandoff, Return,
         Goto, locals
  <2>3. sem[sema] = 0 /\ \A q \in Proc : HasWakeup(q) => q = p
    BY <2>1 DEF MutexInv, OneWakeup
  <2>4. sem'[sema] = 0 /\ \A q \in Proc : ~HasWakeup(q)'
    BY <2>1, <2>2, <2>3 DEF AcceptHandoff, semVars
  <2> QED
    BY <2>4 DEF OneWakeup
<1> QED
  BY <1>1, <1>2, <1>3, <1>4, <1>5, <1>6 DEF MutexInv

(* TryLock looks at the state word. *)
LEMMA TryLockInv ==
    ASSUME MutexInv, NEW p \in Proc, TryLock(p)
    PROVE  MutexInv'
<1> USE DEF mutexLocked, mutexWoken, mutexStarving
<1>1. SemInv'
  BY SemStutter DEF MutexInv, TryLock
<1>2. TypeOK'
  BY <1>1 DEF MutexInv, TypeOK, SemInv, TryLock, NewCall, Goto
<1>3. ASSUME NEW q \in Proc PROVE Local(q)'
  BY DEF MutexInv, TypeOK, Local, Returned, semVars, TryLock, NewCall, Goto
<1>4. MutualExclusion'
  BY DEF MutexInv, TypeOK, MutualExclusion, TryLock, Goto
<1>5. StarvationMode'
  BY DEF MutexInv, StarvationMode, TryLock
<1>6. OneWakeup'
  BY DEF MutexInv, TypeOK, OneWakeup, HasWakeup, Returned, semVars, TryLock, Goto
<1> QED
  BY <1>1, <1>2, <1>3, <1>4, <1>5, <1>6 DEF MutexInv

(* The CAS of TryLock. *)
LEMMA TryLockCASInv ==
    ASSUME MutexInv, NEW p \in Proc, TryLockCAS(p)
    PROVE  MutexInv'
<1> USE DEF mutexLocked, mutexWoken, mutexStarving
<1>1. SemInv'
  BY SemStutter DEF MutexInv, TryLockCAS
<1>2. TypeOK'
  <2>1. state' \in Word
    BY DEF MutexInv, TypeOK, Word, Bits, TryLockCAS
  <2>2. Unlocked \in Word
    BY DEF Unlocked, Word
  <2> QED
    BY <2>1, <2>2, <1>1 DEF MutexInv, TypeOK, SemInv, TryLockCAS, Return, Goto
<1>3. ASSUME NEW q \in Proc PROVE Local(q)'
  BY DEF MutexInv, TypeOK, Word, Local, Returned, semVars, TryLockCAS, Return, Goto, Clear
<1>4. MutualExclusion'
  BY DEF MutexInv, TypeOK, Local, MutualExclusion, TryLockCAS, Return, Goto, Clear
<1>5. StarvationMode'
  BY DEF MutexInv, TypeOK, Word, StarvationMode, TryLockCAS
<1>6. OneWakeup'
  <2>1. \A q \in Proc : HasWakeup(q)' <=> HasWakeup(q)
    BY DEF MutexInv, TypeOK, HasWakeup, Returned, semVars, TryLockCAS, Return, Goto
  <2>2. CASE state = old[p]
    <3>1. mutexStarving \notin state.bits
      BY <2>2 DEF MutexInv, Local, TryLockCAS, Clear
    <3>2. mutexWoken \in state.bits => mutexWoken \in state'.bits
      BY <2>2 DEF MutexInv, TypeOK, Word, TryLockCAS
    <3> QED
      BY <2>1, <3>1, <3>2 DEF MutexInv, OneWakeup, TryLockCAS, semVars
  <2>3. CASE state # old[p]
    BY <2>1, <2>3 DEF MutexInv, OneWakeup, TryLockCAS, semVars
  <2> QED
    BY <2>2, <2>3
<1> QED
  BY <1>1, <1>2, <1>3, <1>4, <1>5, <1>6 DEF MutexInv

(* Unlock takes mutexLocked away and decides what is left to do. *)
LEMMA UnlockInv ==
    ASSUME MutexInv, NEW p \in Proc, Unlock(p)
    PROVE  MutexInv'
<1> USE DEF mutexLocked, mutexWoken, mutexStarving
<1>1. SemInv'
  <2>1. Returned(p)
    BY DEF MutexInv, Local, Unlock
  <2>2. CASE Semrelease(p, sema, TRUE)
    BY <2>1, <2>2, CallInv, MutexConstants DEF MutexInv, Unlock
  <2>3. CASE UNCHANGED req
    BY <2>3, SemStutter DEF MutexInv, Unlock, semVars
  <2> QED
    BY <2>2, <2>3 DEF Unlock
<1>2. TypeOK'
  BY <1>1, MutexConstants DEF MutexInv, TypeOK, SemInv, Word, Unlock, Goto
<1>3. ASSUME NEW q \in Proc PROVE Local(q)'
  <2>1. /\ mutexLocked \in state.bits /\ state \in Word /\ Returned(p)
        /\ state' = [state EXCEPT !.bits = @ \ {mutexLocked}]
    BY DEF MutexInv, TypeOK, Local, Unlock
  <2>2. CASE q = p
    <3>1. pc'[p] \in {"idle", "unlock", "release"} /\ awoke'[p] = awoke[p] /\ starving'[p] = starving[p]
      BY <2>1 DEF MutexInv, TypeOK, Unlock, Goto
    <3>2. ~awoke[p] /\ ~starving[p]
      BY DEF MutexInv, Local, Unlock
    <3>3. /\ pc'[p] = "release" => req'[p].op = "release" /\ req'[p].addr = sema
          /\ pc'[p] # "release" => req'[p] = req[p]
      BY <2>1 DEF MutexInv, TypeOK, SemTypeOK, Unlock, Goto, Semrelease
    <3> QED
      BY <2>1, <2>2, <3>1, <3>2, <3>3 DEF Local, Returned
  <2>3. CASE q # p
    <3>1. /\ pc'[q] = pc[q] /\ awoke'[q] = awoke[q] /\ starving'[q] = starving[q]
          /\ req'[q] = req[q] /\ old'[q] = old[q]
      BY <2>3 DEF MutexInv, TypeOK, SemTypeOK, Unlock, Goto, Semrelease
    <3>2. pc[q] # "locked"
      BY <2>3 DEF MutexInv, MutualExclusion, Unlock
    <3>3. /\ state'.waiters = state.waiters /\ mutexLocked \notin state'.bits
          /\ mutexWoken \in state'.bits <=> mutexWoken \in state.bits
          /\ mutexStarving \in state'.bits <=> mutexStarving \in state.bits
      BY <2>1 DEF Word
    <3>4. Local(q)
      BY DEF MutexInv
    <3> QED
      BY <3>1, <3>2, <3>3, <3>4 DEF Local, Returned
  <2> QED
    BY <2>2, <2>3
<1>4. MutualExclusion'
  BY DEF MutexInv, TypeOK, MutualExclusion, Unlock, Goto
<1>5. StarvationMode'
  BY DEF MutexInv, StarvationMode, Unlock
<1>6. OneWakeup'
  BY MutexConstants DEF MutexInv, TypeOK, SemTypeOK, Local, OneWakeup, HasWakeup,
       StarvationMode, Returned, Unlock, Goto, Semrelease
<1> QED
  BY <1>1, <1>2, <1>3, <1>4, <1>5, <1>6 DEF MutexInv

(* Nobody needs to be woken. *)
LEMMA UnlockDoneInv ==
    ASSUME MutexInv, NEW p \in Proc, UnlockDone(p)
    PROVE  MutexInv'
<1> USE DEF mutexLocked, mutexWoken, mutexStarving
<1>1. SemInv'
  BY SemStutter DEF MutexInv, UnlockDone
<1>2. TypeOK'
  BY <1>1 DEF MutexInv, TypeOK, SemInv, Word, UnlockDone, Return, Goto, Unlocked
<1>3. ASSUME NEW q \in Proc PROVE Local(q)'
  BY DEF MutexInv, Local, Returned, semVars, UnlockDone, Return, Goto
<1>4. MutualExclusion'
  BY DEF MutexInv, MutualExclusion, UnlockDone, Return, Goto
<1>5. StarvationMode'
  BY DEF MutexInv, StarvationMode, UnlockDone
<1>6. OneWakeup'
  BY DEF MutexInv, OneWakeup, HasWakeup, Returned, semVars, UnlockDone, Return, Goto
<1> QED
  BY <1>1, <1>2, <1>3, <1>4, <1>5, <1>6 DEF MutexInv

(* p grabs the right to wake someone. *)
LEMMA UnlockWakeInv ==
    ASSUME MutexInv, NEW p \in Proc, UnlockWake(p)
    PROVE  MutexInv'
<1> USE DEF mutexLocked, mutexWoken, mutexStarving
<1>1. SemInv'
  <2>1. Returned(p)
    BY DEF MutexInv, Local, UnlockWake
  <2> QED
    BY <2>1, CallInv, MutexConstants DEF MutexInv, UnlockWake
<1>2. TypeOK'
  <2>1. state' \in Word
    <3>1. old[p] \in Word /\ old[p].waiters # 0
      BY DEF MutexInv, TypeOK, UnlockWake
    <3>2. state' = [bits |-> old[p].bits \union {mutexWoken}, waiters |-> old[p].waiters - 1]
      BY DEF UnlockWake, CAS
    <3> QED
      BY <3>1, <3>2 DEF Word, Bits
  <2> QED
    BY <2>1, <1>1 DEF MutexInv, TypeOK, SemInv, UnlockWake, Goto, locals
<1>3. ASSUME NEW q \in Proc PROVE Local(q)'
  BY MutexConstants DEF MutexInv, TypeOK, Word, Local, Returned, UnlockWake, CAS, Goto,
       Clear, Semrelease, locals
<1>4. MutualExclusion'
  BY DEF MutexInv, MutualExclusion, UnlockWake, Goto
<1>5. StarvationMode'
  BY DEF MutexInv, TypeOK, Word, StarvationMode, UnlockWake, CAS, Clear
<1>6. OneWakeup'
  <2>1. \A q \in Proc : q # p => (HasWakeup(q)' <=> HasWakeup(q))
    BY DEF MutexInv, HasWakeup, Returned, UnlockWake, Goto, Semrelease, locals
  <2>2. sem[sema] \in Nat
    BY MutexConstants DEF MutexInv, SemInv, SemTypeOK
  <2>3. sem[sema] = 0 /\ \A q \in Proc : ~HasWakeup(q)
    BY <2>2 DEF MutexInv, OneWakeup, UnlockWake, CAS, Clear, Bits
  <2>4. mutexWoken \in state'.bits
    BY DEF UnlockWake, CAS
  <2>5. sem'[sema] = 0
    BY <2>3 DEF UnlockWake
  <2> QED
    BY <2>1, <2>3, <2>4, <2>5 DEF OneWakeup
<1> QED
  BY <1>1, <1>2, <1>3, <1>4, <1>5, <1>6 DEF MutexInv

(* Another goroutine changed the state word. *)
LEMMA UnlockRetryInv ==
    ASSUME MutexInv, NEW p \in Proc, UnlockRetry(p)
    PROVE  MutexInv'
<1> USE DEF mutexLocked, mutexWoken, mutexStarving
<1>1. SemInv'
  BY SemStutter DEF MutexInv, UnlockRetry
<1>2. TypeOK'
  BY <1>1 DEF MutexInv, TypeOK, SemInv, UnlockRetry, Goto, locals
<1>3. ASSUME NEW q \in Proc PROVE Local(q)'
  BY DEF MutexInv, Local, Returned, semVars, UnlockRetry, Goto, locals
<1>4. MutualExclusion'
  BY DEF MutexInv, MutualExclusion, UnlockRetry, Goto
<1>5. StarvationMode'
  BY DEF MutexInv, StarvationMode, UnlockRetry
<1>6. OneWakeup'
  BY DEF MutexInv, OneWakeup, HasWakeup, Returned, semVars, UnlockRetry, Goto, locals
<1> QED
  BY <1>1, <1>2, <1>3, <1>4, <1>5, <1>6 DEF MutexInv

(* The loop of unlockSlow goes round. *)
LEMMA UnlockReloadInv ==
    ASSUME MutexInv, NEW p \in Proc, UnlockReload(p)
    PROVE  MutexInv'
<1> USE DEF mutexLocked, mutexWoken, mutexStarving
<1>1. SemInv'
  BY SemStutter DEF MutexInv, UnlockReload
<1>2. TypeOK'
  BY <1>1 DEF MutexInv, TypeOK, SemInv, UnlockReload, Goto
<1>3. ASSUME NEW q \in Proc PROVE Local(q)'
  BY DEF MutexInv, Local, Returned, semVars, UnlockReload, Goto
<1>4. MutualExclusion'
  BY DEF MutexInv, MutualExclusion, UnlockReload, Goto
<1>5. StarvationMode'
  BY DEF MutexInv, StarvationMode, UnlockReload
<1>6. OneWakeup'
  BY DEF MutexInv, OneWakeup, HasWakeup, Returned, semVars, UnlockReload, Goto
<1> QED
  BY <1>1, <1>2, <1>3, <1>4, <1>5, <1>6 DEF MutexInv

(* runtime_Semrelease has returned. *)
LEMMA ReleasedInv ==
    ASSUME MutexInv, NEW p \in Proc, Released(p)
    PROVE  MutexInv'
<1> USE DEF mutexLocked, mutexWoken, mutexStarving
<1>1. SemInv'
  BY SemStutter DEF MutexInv, Released
<1>2. TypeOK'
  BY <1>1 DEF MutexInv, TypeOK, SemInv, Word, Released, Return, Goto, Unlocked
<1>3. ASSUME NEW q \in Proc PROVE Local(q)'
  BY DEF MutexInv, Local, Returned, semVars, Released, Return, Goto
<1>4. MutualExclusion'
  BY DEF MutexInv, MutualExclusion, Released, Return, Goto
<1>5. StarvationMode'
  BY DEF MutexInv, StarvationMode, Released
<1>6. OneWakeup'
  BY DEF MutexInv, OneWakeup, HasWakeup, Returned, semVars, Released, Return, Goto
<1> QED
  BY <1>1, <1>2, <1>3, <1>4, <1>5, <1>6 DEF MutexInv

(* A semaphore step keeps everything but the wakeup and the calls as it is. *)
LEMMA SemFrame ==
    ASSUME MutexInv, NEW p \in Proc, SemStep(p), UNCHANGED mutexVars
    PROVE  TypeOK' /\ SemInv' /\ MutualExclusion' /\ StarvationMode'
<1>1. SemInv'
  BY SemStepInv DEF MutexInv
<1>2. TypeOK'
  BY <1>1 DEF MutexInv, TypeOK, SemInv, mutexVars
<1>3. MutualExclusion' /\ StarvationMode'
  BY DEF MutexInv, MutualExclusion, StarvationMode, mutexVars
<1> QED
  BY <1>1, <1>2, <1>3

(* The wakeup goes from the semaphore to the goroutine that takes the permit. *)
LEMMA TakePermitMutex ==
    ASSUME MutexInv, NEW p \in Proc, TakePermit(p), UNCHANGED mutexVars
    PROVE  MutexInv'
<1>1. TypeOK' /\ SemInv' /\ MutualExclusion' /\ StarvationMode'
  BY SemFrame DEF SemStep
<1>2. /\ req \in [Proc -> Request] /\ req[p].op = "acquire" /\ req[p].addr = sema
      /\ sem \in [Addr -> Nat] /\ sema \in Addr /\ pc[p] = "wait"
  BY MutexConstants DEF MutexInv, SemInv, SemTypeOK, Local, Returned, TakePermit
<1>3. /\ req'[p].op = "none" /\ \A q \in Proc : q # p => req'[q] = req[q]
      /\ sem[sema] > 0 /\ sem'[sema] = sem[sema] - 1
  BY <1>2 DEF TakePermit, NoRequest
<1>4. ASSUME NEW q \in Proc PROVE Local(q)'
  BY <1>2, <1>3 DEF MutexInv, Local, Returned, mutexVars
<1>5. OneWakeup'
  <2>1. sem[sema] = 1 /\ sem'[sema] = 0
    BY <1>2, <1>3 DEF MutexInv, OneWakeup
  <2>2. \A q \in Proc : ~HasWakeup(q)
    BY <2>1 DEF MutexInv, OneWakeup
  <2>3. \A q \in Proc : HasWakeup(q)' => q = p
    BY <2>2, <1>3 DEF HasWakeup, Returned, mutexVars
  <2> QED
    BY <2>1, <2>3 DEF MutexInv, OneWakeup, mutexVars
<1> QED
  BY <1>1, <1>4, <1>5 DEF MutexInv

(* The wakeup goes from the unlocking goroutine to the semaphore. *)
LEMMA AddPermitMutex ==
    ASSUME MutexInv, NEW p \in Proc, AddPermit(p), UNCHANGED mutexVars
    PROVE  MutexInv'
<1>1. TypeOK' /\ SemInv' /\ MutualExclusion' /\ StarvationMode'
  BY SemFrame DEF SemStep
<1>2. /\ req \in [Proc -> Request] /\ req[p].op = "release" /\ req[p].addr = sema
      /\ sem \in [Addr -> Nat] /\ sema \in Addr /\ pc[p] = "release"
  BY MutexConstants DEF MutexInv, SemInv, SemTypeOK, Local, Returned, AddPermit
<1>3. /\ req'[p].op = "dequeue" /\ req'[p].addr = sema
      /\ \A q \in Proc : q # p => req'[q] = req[q]
      /\ sem'[sema] = sem[sema] + 1
  BY <1>2 DEF AddPermit, Request
<1>4. ASSUME NEW q \in Proc PROVE Local(q)'
  BY <1>2, <1>3 DEF MutexInv, Local, Returned, mutexVars
<1>5. OneWakeup'
  <2>1. HasWakeup(p)
    BY <1>2 DEF HasWakeup
  <2>2. sem[sema] = 0 /\ \A q \in Proc : HasWakeup(q) => q = p
    BY <2>1 DEF MutexInv, OneWakeup
  <2>3. \A q \in Proc : ~HasWakeup(q)'
    BY <2>2, <1>2, <1>3 DEF HasWakeup, Returned, mutexVars
  <2>4. \/ mutexWoken \in state.bits
        \/ mutexStarving \in state.bits /\ mutexLocked \notin state.bits
    BY <2>1 DEF MutexInv, OneWakeup
  <2> QED
    BY <2>2, <2>3, <2>4, <1>3 DEF OneWakeup, mutexVars
<1> QED
  BY <1>1, <1>4, <1>5 DEF MutexInv

(* Going to sleep, and a release that looks for a sleeper, move no wakeup. *)
LEMMA QueueMutex ==
    ASSUME MutexInv, NEW p \in Proc, Park(p) \/ NoWaiter(p) \/ Dequeue(p), UNCHANGED mutexVars
    PROVE  MutexInv'
<1>1. TypeOK' /\ SemInv' /\ MutualExclusion' /\ StarvationMode'
  BY SemFrame DEF SemStep
<1>2. req \in [Proc -> Request] /\ sem' = sem
  BY DEF MutexInv, SemInv, SemTypeOK, Park, NoWaiter, Dequeue
<1>3. /\ \/ req[p].op = "acquire" /\ req'[p].op = "parked"
         \/ req[p].op = "dequeue" /\ req'[p].op = "none"
         \/ req[p].op = "dequeue" /\ req'[p].op = "ready"
      /\ req'[p].op # "none" => req'[p].addr = req[p].addr
      /\ \A q \in Proc : q # p => req'[q] = req[q]
  BY <1>2 DEF Park, NoWaiter, Dequeue, NoRequest, Request
<1>4. ASSUME NEW q \in Proc PROVE Local(q)'
  BY <1>3 DEF MutexInv, Local, Returned, mutexVars
<1>5. OneWakeup'
  <2>1. \A q \in Proc : HasWakeup(q)' <=> HasWakeup(q)
    BY <1>3 DEF MutexInv, Local, HasWakeup, Returned, mutexVars
  <2> QED
    BY <2>1, <1>2 DEF MutexInv, OneWakeup, mutexVars
<1> QED
  BY <1>1, <1>4, <1>5 DEF MutexInv

(* The sleeper that is made ready gets the wakeup with the permit, or has  *)
(* to look for it.                                                         *)
LEMMA ReadyMutex ==
    ASSUME MutexInv, NEW p \in Proc, Ready(p), UNCHANGED mutexVars
    PROVE  MutexInv'
<1>1. TypeOK' /\ SemInv' /\ MutualExclusion' /\ StarvationMode'
  BY SemFrame DEF SemStep
<1>2. /\ req \in [Proc -> Request] /\ req[p].op = "ready" /\ req[p].addr = sema
      /\ sem \in [Addr -> Nat] /\ sema \in Addr /\ pc[p] = "release"
  BY MutexConstants DEF MutexInv, SemInv, SemTypeOK, Local, Returned, Ready
<1>3. PICK t \in Proc : /\ t = req[p].who /\ t # p
                        /\ req[t].op = "parked" /\ req[t].addr = sema /\ pc[t] = "wait"
  <2>1. req[p].who \in Proc /\ req[req[p].who].op = "parked" /\ req[req[p].who].addr = sema
    BY <1>2 DEF MutexInv, SemInv, Sleepers
  <2> QED
    BY <2>1, <1>2 DEF MutexInv, Local, Returned
<1>4. /\ req'[p].op = "none" /\ \A q \in Proc : q # p /\ q # t => req'[q] = req[q]
      /\ \/ sem[sema] > 0 /\ sem'[sema] = sem[sema] - 1 /\ req'[t].op = "none"
         \/ sem'[sema] = sem[sema] /\ req'[t].op = "acquire" /\ req'[t].addr = sema
  <2>1. CASE req[p].flag /\ sem[sema] > 0
    BY <2>1, <1>2, <1>3 DEF Ready, NoRequest
  <2>2. CASE ~(req[p].flag /\ sem[sema] > 0)
    BY <2>2, <1>2, <1>3 DEF Ready, NoRequest, Request
  <2> QED
    BY <2>1, <2>2
<1>5. ASSUME NEW q \in Proc PROVE Local(q)'
  BY <1>2, <1>3, <1>4 DEF MutexInv, Local, Returned, mutexVars
<1>6. OneWakeup'
  <2>1. \A q \in Proc : q # t => (HasWakeup(q)' <=> HasWakeup(q))
    BY <1>2, <1>4 DEF HasWakeup, Returned, mutexVars
  <2>2. CASE sem[sema] > 0 /\ sem'[sema] = sem[sema] - 1
    <3>1. sem[sema] = 1 /\ sem'[sema] = 0
      BY <2>2, <1>2 DEF MutexInv, OneWakeup
    <3>2. \A q \in Proc : ~HasWakeup(q)
      BY <3>1 DEF MutexInv, OneWakeup
    <3> QED
      BY <2>1, <3>1, <3>2 DEF MutexInv, OneWakeup, mutexVars
  <2>3. CASE sem'[sema] = sem[sema] /\ req'[t].op = "acquire"
    <3>1. ~HasWakeup(t) /\ ~HasWakeup(t)'
      BY <2>3, <1>3 DEF HasWakeup, Returned, mutexVars
    <3> QED
      BY <2>1, <2>3, <3>1 DEF MutexInv, OneWakeup, mutexVars
  <2> QED
    BY <2>2, <2>3, <1>4
<1> QED
  BY <1>1, <1>5, <1>6 DEF MutexInv

(* Initially the mutex is unlocked and nobody has called anything. *)
LEMMA MutexInitInv ==
    ASSUME Init
    PROVE  MutexInv
<1>1. SemInv
  BY SemInitInv DEF Init
<1>2. TypeOK
  BY <1>1 DEF Init, MutexInit, TypeOK, SemInv, Unlocked, Word
<1>3. ASSUME NEW p \in Proc PROVE Local(p)
  BY DEF Init, MutexInit, SemInit, NoRequest, Local, Returned
<1>4. MutualExclusion /\ StarvationMode /\ OneWakeup
  <2>1. MutualExclusion /\ StarvationMode
    BY DEF Init, MutexInit, MutualExclusion, StarvationMode, Unlocked
  <2>2. sem[sema] = 0 /\ \A p \in Proc : ~HasWakeup(p)
    BY MutexConstants DEF Init, MutexInit, SemInit, HasWakeup
  <2> QED
    BY <2>1, <2>2 DEF OneWakeup
<1> QED
  BY <1>1, <1>2, <1>3, <1>4 DEF MutexInv

(* Nothing moves. *)
LEMMA MutexStutter ==
    ASSUME MutexInv, UNCHANGED vars
    PROVE  MutexInv'
<1>1. SemInv'
  BY SemStutter DEF MutexInv, vars, semVars
<1>2. TypeOK'
  BY <1>1 DEF MutexInv, TypeOK, SemInv, vars
<1>3. ASSUME NEW p \in Proc PROVE Local(p)'
  BY DEF MutexInv, Local, Returned, vars
<1>4. MutualExclusion' /\ StarvationMode' /\ OneWakeup'
  BY DEF MutexInv, MutualExclusion, StarvationMode, OneWakeup, HasWakeup, Returned, vars
<1> QED
  BY <1>1, <1>2, <1>3, <1>4 DEF MutexInv

(* Every step of every goroutine keeps the invariant. *)
LEMMA MutexNextInv ==
    ASSUME MutexInv, [Next]_vars
    PROVE  MutexInv'
<1>1. CASE Next
  <2>1. PICK p \in Proc : LockFast(p) \/ LockSlow(p) \/ TryLock(p) \/ Unlock(p) \/ Step(p)
    BY <1>1 DEF Next
  <2>2. CASE LockFast(p) \/ LockSlow(p) \/ TryLock(p) \/ Unlock(p)
    BY <2>2, LockFastInv, LockSlowInv, TryLockInv, UnlockInv
  <2>3. CASE LoadState(p) \/ Spin(p) \/ LockCAS(p) \/ WaitCAS(p) \/ FailedCAS(p)
    BY <2>3, LoadStateInv, SpinInv, LockCASInv, WaitCASInv, FailedCASInv
  <2>4. CASE \E long \in BOOLEAN : Wake(p, long) \/ WakeStarving(p, long)
    BY <2>4, WakeInv, WakeStarvingInv
  <2>5. CASE AcceptHandoff(p) \/ TryLockCAS(p)
    BY <2>5, AcceptHandoffInv, TryLockCASInv
  <2>6. CASE UnlockDone(p) \/ UnlockWake(p) \/ UnlockRetry(p) \/ UnlockReload(p) \/ Released(p)
    BY <2>6, UnlockDoneInv, UnlockWakeInv, UnlockRetryInv, UnlockReloadInv, ReleasedInv
  <2>7. CASE SemStep(p) /\ UNCHANGED mutexVars
    BY <2>7, TakePermitMutex, AddPermitMutex, QueueMutex, ReadyMutex DEF SemStep
  <2> QED
    BY <2>1, <2>2, <2>3, <2>4, <2>5, <2>6, <2>7 DEF Step
<1>2. CASE UNCHANGED vars
  BY <1>2, MutexStutter
<1> QED
  BY <1>1, <1>2

(* The inductive invariant of the mutex. *)
THEOREM MutexInvariant == Spec => []MutexInv
<1>1. Init => MutexInv
  BY MutexInitInv
<1>2. MutexInv /\ [Next]_vars => MutexInv'
  BY MutexNextInv
<1> QED
  BY <1>1, <1>2, PTL DEF Spec

(* Lock, TryLock and Unlock guarantee mutual exclusion for any number of    *)
(* goroutines, through the fast path, the CAS loop and the handoff alike.   *)
THEOREM MutexMutualExclusion == Spec => []MutualExclusion
<1>1. MutexInv => MutualExclusion
  BY DEF MutexInv
<1> QED
  BY <1>1, MutexInvariant, PTL

(* No call reaches one of the throws of mutex.go, and no handoff's AddInt32 *)
(* carries from one field of the state word into another.                   *)
THEOREM MutexNoThrow == Spec => []NoThrow
<1>1. MutexInv => NoThrow
  BY DEF MutexInv, Local, NoThrow
<1> QED
  BY <1>1, MutexInvariant, PTL

(* At most one wakeup is under way, and the state word shows it. *)
THEOREM MutexOneWakeup == Spec => []OneWakeup
<1>1. MutexInv => OneWakeup
  BY DEF MutexInv
<1> QED
  BY <1>1, MutexInvariant, PTL

(* The mutex uses its semaphore so that the guarantees of SemaphoreProofs   *)
(* hold of it: no goroutine is woken twice, no permit waits beside sleepers *)
(* with nobody on its way to it.                                            *)
THEOREM MutexSemaphore == Spec => [](Sleepers /\ NoLostWakeup)
<1>1. MutexInv => Sleepers /\ NoLostWakeup
  BY DEF MutexInv, SemInv
<1> QED
  BY <1>1, MutexInvariant, PTL

(* In starvation mode the lock passes only by handoff: no CAS of Lock or    *)
(* TryLock gets it.                                                         *)
THEOREM MutexNoBarging == Spec => NoBarging
<1> DEFINE Fair == \A p \in Proc :
                mutexStarving \in state.bits /\ pc[p] # "locked" /\ pc'[p] = "locked"
                    => pc[p] = "handoff"
<1>1. ASSUME MutexInv, [Next]_vars PROVE [Fair]_vars
  <2>1. CASE UNCHANGED vars
    BY <2>1
  <2>2. CASE Next
    <3> SUFFICES ASSUME NEW q \in Proc, mutexStarving \in state.bits,
                        pc[q] # "locked", pc'[q] = "locked"
                 PROVE  pc[q] = "handoff"
      OBVIOUS
    <3>1. PICK p \in Proc : LockFast(p) \/ LockSlow(p) \/ TryLock(p) \/ Unlock(p) \/ Step(p)
      BY <2>2 DEF Next
    <3>2. TypeOK /\ Local(p)
      BY <1>1 DEF MutexInv
    <3>3. CASE LockFast(p) \/ LockSlow(p) \/ TryLock(p) \/ Unlock(p)
      <4>1. CASE LockFast(p)
        BY <4>1 DEF LockFast, Unlocked
      <4>2. CASE LockSlow(p) \/ TryLock(p)
        BY <3>2, <4>2 DEF TypeOK, LockSlow, TryLock, Goto
      <4>3. CASE Unlock(p)
        <5>1. PICK there \in {"release", "throw", "idle", "unlock"} :
                 pc' = [pc EXCEPT ![p] = there]
          BY <4>3 DEF Unlock, Goto
        <5> QED
          BY <3>2, <5>1 DEF TypeOK
      <4> QED
        BY <3>3, <4>1, <4>2, <4>3
    <3>4. CASE LoadState(p) \/ Spin(p) \/ WaitCAS(p) \/ FailedCAS(p)
      BY <3>2, <3>4 DEF TypeOK, LoadState, Spin, WaitCAS, FailedCAS, Goto
    <3>5. CASE LockCAS(p)
      BY <3>2, <3>5 DEF TypeOK, LockCAS, CAS, Return, Goto, Clear
    <3>6. CASE \E long \in BOOLEAN : Wake(p, long) \/ WakeStarving(p, long)
      BY <3>2, <3>6 DEF TypeOK, Wake, WakeStarving, Goto
    <3>7. CASE AcceptHandoff(p)
      BY <3>2, <3>7 DEF TypeOK, AcceptHandoff, Return, Goto
    <3>8. CASE TryLockCAS(p)
      BY <3>2, <3>8 DEF TypeOK, TryLockCAS, Return, Goto, Local, Clear
    <3>9. CASE UnlockDone(p) \/ UnlockWake(p) \/ UnlockRetry(p) \/ UnlockReload(p) \/ Released(p)
      BY <3>2, <3>9 DEF TypeOK, UnlockDone, UnlockWake, UnlockRetry, UnlockReload,
           Released, Return, Goto
    <3>10. CASE UNCHANGED mutexVars
      BY <3>10 DEF mutexVars
    <3> QED
      BY <3>1, <3>3, <3>4, <3>5, <3>6, <3>7, <3>8, <3>9, <3>10 DEF Step
  <2> QED
    BY <1>1, <2>1, <2>2
<1>2. Spec => [][Fair]_vars
  BY <1>1, MutexInvariant, PTL DEF Spec
<1> QED
  BY <1>2 DEF NoBarging
=============================================================================
