# TLA+ models of go-verified-stdlib

This directory is a verification development for the repository
`go-verified-stdlib`, a fork of the Go 1.18 tree in which a few standard library
packages carry Gobra contracts. It models those packages and the concurrency
primitives everything else is built on, checks the models with TLC on small
instances, and proves the most important properties with TLAPS for instances of
any size.

Source paths below are relative to the Go tree (`src/` of the repository).
`PROJECT.json` maps every definition to the lines it models.

## 1. Inventory

The tree holds some eleven thousand files; nearly all of it is upstream Go. The
parts with their own state and their own correctness argument:

| Part | State | Operations | What is hard | What makes it correct |
|---|---|---|---|---|
| `container/list` | ring of `Element`s through a sentinel, `length`, each element's `list` | Init, Push\*, Insert\*, Remove, Move\*, Push\*List, traversal | pointer surgery on neighbours that coincide; loops over a list that grows; zero values; elements of other lists | the ring is the documented sequence in both directions; traversals end; copies are exact |
| `runtime/sema.go`, semaphores | the words, `root.lock`, `root.nwait`, sudog queues, `ticket` | semacquire1, semrelease1 | lock-free reads of `nwait`; permits up for grabs; words that share a root | no missed wakeup; a permit is taken once |
| `runtime/sema.go`, notifyList | `wait`, `notify`, list | add, wait, notifyOne, notifyAll | ticket taken before parking; 32-bit wrap | a signal reaches a goroutine that waited before it |
| `sync.Mutex` | `state` (locked, woken, starving, waiters), `sema` | Lock, TryLock, Unlock | interleavings of CAS loops with sleeping; mode switches; handoff | mutual exclusion; no lost wakeup; the throws are unreachable; Lock returns |
| `sync.RWMutex` | `readerCount`, `readerWait`, two semaphores, a Mutex | RLock, RUnlock, Lock, Unlock, Try\* | readers leaving while a writer arrives | readers exclude writers; one signal per writer |
| `sync.WaitGroup` | counter and waiters in one word, semaphore | Add, Done, Wait | reuse; plain store of the word | Wait returns only at zero, and does |
| `sync.Once` | `done`, a Mutex | Do | second caller before the function ends; panics | the function runs once and is over when Do returns |
| `sync.Cond` | notifyList, a Locker | Wait, Signal, Broadcast | signal between unlock and sleep | no lost signal |
| `sync.Map` | `read`, `dirty`, `misses`, entries (value, nil, expunged) | Load, Store, LoadOrStore, LoadAndDelete, Range | stale read map; expunging against storing | linearizable map |
| `sync.Pool` queues | ring with packed head and tail, chain of rings | pushHead, popHead, popTail | slot reuse; index wrap; unlinking | every item comes out at most once |
| `sync/atomic.Value` | two words | Load, Store, Swap, CompareAndSwap | first store in two parts | no torn value |
| `internal/bytealg` | none (Rabin–Karp search) | IndexRabinKarp\*, LastIndex\* | hash modulo 2^32, rolling update | first match found, none missed |
| `sort`, `container/heap`, `container/ring` | the slice, the heap, the rings | Search, Sort, Stable; Push, Pop, Remove, Fix; Link, Unlink | bounds and off-by-one | sorted permutation; stability; heap order; ring partition |
| `context` | tree of cancelCtx: `done`, `children`, `err` | WithCancel, WithDeadline, cancel | registering under a parent that is being cancelled | cancellation reaches every descendant |
| `internal/singleflight` | map from key to call | Do, DoChan, ForgetUnshared | deleting a newer call's entry | one call in flight per key |
| `internal/poll.fdMutex` | one packed word, two semaphores | incref, rwlock, rwunlock, close | close against waiters | all waiters woken, last reference destroys |
| `io.Pipe`, `net/rpc` client, `runtime` channels, `database/sql` pool | channels, pending calls, free lists | read, write, close; send, input; … | shutdown races | everything that was started completes once |

How they interact: `sync.Mutex`, `RWMutex`, `WaitGroup` and `poll.fdMutex` call
the runtime semaphores; `Once`, `Cond`, `Map`, `context`, `singleflight` and
`io.Pipe` are built on `Mutex` and channels. `container/list`, `sort`, `heap` and
`bytealg` are sequential and have no collaborators.

Section 7 says which parts are not modelled and why.

## 2. Modules

| Module | Models | Role |
|---|---|---|
| `ListSpec` | what `container/list` promises: sequences of elements and values | abstract specification |
| `ContainerList` | `container/list/list.go`: the heap of nodes and every method | detailed specification, its invariants, `Traversal`, the refinement of `ListSpec`, the property of the violation run; the run's module itself |
| `ListAndPoolProofs` | — | TLAPS proofs about `ContainerList`, among them that it implements `ListSpec`, and about `PoolQueue` |
| `Semaphore` | what `runtime_Semacquire*` and `runtime_Semrelease` promise their callers | abstract specification; other components EXTEND it |
| `RuntimeSema` | `semacquire1`, `semrelease1`, `cansemacquire` of `runtime/sema.go` | detailed specification, shown to implement `Semaphore` |
| `MCRuntimeSema` | — | instance for TLC |
| `Mutex` | `sync/mutex.go` | EXTENDS `Semaphore`: the mutex composed with its semaphore |
| `MCMutex` | — | instance for TLC |
| `RWMutex` | `sync/rwmutex.go` | EXTENDS `Semaphore`; the run's module itself |
| `WaitGroup` | `sync/waitgroup.go` | EXTENDS `Semaphore`; the run's module itself |
| `Cond` | `sync/cond.go` and notifyList of `runtime/sema.go` | detailed specification; the run's module itself |
| `MapSpec` | what `sync.Map` promises for one key | abstract specification, as a monitor of calls and answers |
| `SyncMap` | `sync/map.go` | EXTENDS `MapSpec`: the code next to the monitor |
| `MCSyncMap` | — | instance for TLC |
| `PoolQueue` | `sync/poolqueue.go` | detailed specification |
| `MCPoolQueue` | — | instance for TLC |
| `Context` | `context/context.go` | detailed specification |
| `MCContext` | — | instance for TLC |
| `Channel` | `runtime/chan.go`, `runtime/select.go` | detailed specification |
| `MCChannel` | — | instance for TLC |
| `SemaphoreProofs` | — | TLAPS proofs about `Semaphore`, after lemmas on what queueing at either end and dequeueing do |
| `RuntimeSemaAndChannelProofs` | — | TLAPS proofs about `RuntimeSema`, among them that it implements `Semaphore`, and about `Channel` |
| `MutexProofs`, `RWMutexProofs`, `WaitGroupProofs` | — | TLAPS proofs about `Mutex`, `RWMutex` and `WaitGroup`, on top of `SemaphoreProofs` |
| `CondAndContextProofs` | — | TLAPS proofs about `Cond` and about `Context` |
| `SyncMapProofs` | — | TLAPS proofs about `SyncMap` |

Operators whose comment begins with *Mutant* are altered copies of the definition
that follows them. No specification uses them; they stand for slips this code
invites, and each makes one property fail.

### container/list

`heap` holds the fields `next`, `prev`, `list`, `Value` and `length` of all nodes
and lists; the sentinel `&l.root` is the node `l`. The private helpers (`Splice`
and `Unlink` are the assignment groups shared by `insert`, `remove` and `move`)
are functions from heap to heap, so an exported method is one action that applies
the code's helpers in the code's order. `es` is the ghost sequence that list.go's
annotations also carry: it follows the doc comments and nothing in the heap
depends on it. `PushBackList` and `PushFrontList` are loops; `copy` holds their
loop variables and one iteration is one step, because each iteration calls `Next`
or `Prev` on a list that it may just have changed. Calls that return early (an
element of another list, `e == mark`, already in front) change nothing and are
stuttering steps.

`ReuseCleared` says whether a client may go on using elements that an `Init()`
call cut off. The Gobra contracts take the permission for such elements away, so
the passing run and the theorems assume it may not.

### Semaphores

`Semaphore` has the steps that a caller can tell apart: a permit is added and may
be taken by anyone before a waiter is dequeued; a woken waiter competes for the
permit unless the release handed it over. `RuntimeSema` has what sema.go adds:
the root lock, the waiter count `nwait` that releases read without the lock and
that all words of the root share, the easy cases, the second look under the lock,
and the ticket of a handoff. Stretches of code that touch at most one thing
visible to other goroutines are one step. A sudog's `ticket` field has two uses, and the
model keeps whether it is zero through both: the sudog of a word's first waiter is a
node of the treap and has the node's priority, an odd number, which goes to a lifo
waiter that replaces it and to the next in line when it is dequeued; a dequeued sudog
has zero, and 1 after a handoff. `Asleep` says that semrelease1 does not find a
priority there that was left over. The refinement mapping (`AbsReq`)
considers an acquire over once it holds the permit, and a release over once the
fate of its permit is settled, although the goroutine still has to return.

### sync.Mutex

`state` is a record of the set of flag bits and the number of waiters; every load,
CAS and add on it is a step, and the locals of `lockSlow` and `unlockSlow` (`old`,
`awoke`, `starving`, whether `waitStartTime` is set) are kept per goroutine. Time
is abstracted: each wakeup may or may not exceed the starvation threshold, and
`runtime_canSpin` may answer either way. The waiter's `AddInt32(&m.state, delta)`
is a field-wise update that counts as a throw when the addition would carry from
one field into another; `NoThrow` shows it never does. Only a holder unlocks.
A goroutine that throws stops; the real program would end.

### sync.RWMutex

`readerCount` and `readerWait` are integers, each atomic addition on them a step.
The inner `rw.w` is a lock that is free or held: that is what `Mutex` shows
`sync.Mutex` to be. The window the code argues about is explicit: `Announce`
subtracts `rwmutexMaxReaders` from `readerCount`, and only the next step, `AddWait`,
adds the readers it saw to `readerWait`, which departing readers have been
decrementing meanwhile, below zero if need be. `rwmutexMaxReaders` is 8, more than
the number of readers, which is the only thing the code relies on.

### sync.WaitGroup

The state word is the pair of its halves `v` and `w`, the misuse check and the reset
are plain accesses and steps of their own, and a panic is a place that no client
that keeps the rules may reach. The rules are those of Add's comment, in this form:
a unit of the counter belongs to a goroutine that will give it back; Add with a
positive delta is called by a goroutine that holds a unit, or while no Wait is in
progress. That is stricter than the sentence "calls with a positive delta that start
when the counter is greater than zero, may happen at any time": a call that *starts*
then may take effect after others have brought the counter to zero with a Wait in
progress, which the code answers with its misuse panic. Somebody has to hold the
counter above zero for as long as the call lasts.

### sync.Cond and notifyList

Taking a ticket, the two loads of the fast path, what happens under `l.lock`, and
every `goready` are separate steps. `c.L` excludes nobody, because it may be the read
side of an RWMutex. Tickets count modulo `Wrap` and `less` is the signed comparison.
`line` is the order in which tickets that are still to be notified were taken; `lag`
counts how far `notify` has gone past the ticket of a goroutine that has not got to
`notifyListWait` yet, and `MaxLag` bounds it. The code's comparison is right as long
as `MaxLag` is at most half of `Wrap`, and section 5 shows what happens beyond.

### sync.Map

Every atomic access to `m.read` or to the pointer of an entry is a step; what is done
under `m.mu` between two of them is folded into the next. Entries are objects that
read map, dirty map and calls in progress refer to, because the hard cases are about
one entry being reached through a map that is no longer current. `MapSpec` is the
abstract map as a monitor. For each key it keeps the set of all orders of effects
that agree with the answers so far: a call adds the orders in which it takes effect,
an answer removes those that give another one. The code is linearizable as long as
the set is not empty (`Linearizable`). This is the subset construction that a
refinement mapping would need prophecy for: whether a `LoadAndDelete` takes effect
when it removes the entry or when it deletes the value depends on what comes after.
A Range is a Load of each key it reports, as its comment says. `LoadOrStore` of a key that
is in the dirty map only reads the entry and may promote the map in the same step: the
value of such an entry changes under `mu` only.

### sync.Pool's queues

One producer, which pushes and pops at the head, and consumers at the tail. The packed
word is the pair `hd`, `tl`, modulo `Wrap`; the CAS loops are the test-and-set they
amount to. A slot's `typ` and `val` are written separately, as popTail does. The chain
is numbered from its oldest dequeue. `free` holds the items that are not in the
queue: an item is pushed once at a time, so that `Conserved` can follow each.

### context

A call is a stack of frames, because `cancel` calls `cancel` on the children with its
own mutex held, and mutexes are held across steps only there and in
`propagateCancel`. `done` tells apart a channel that is closed and `closedchan`, the
channel all contexts share that were cancelled before anybody asked: on the latter
`removeChild` does not find the parent. Parents are contexts of the package or one of
another package (`Foreign`), for which a watching goroutine is started. Time is a
choice: a deadline may have passed already, and a timer that is set may fire.

### Channels and select

A section under the locks is one step; the reads of the fast paths and the `goready`
after unlocking are steps of their own, so that a goroutine found in one queue of its
select can be met in another before it takes its sudogs back. `selectDone` settles
who wins. Items are numbered in the order in which their senders got to a channel,
which makes the order of delivery a matter of comparing numbers. A close wakes all
waiters of both queues, selects included.

## 3. Runs

| Run | Instance | Checks |
|---|---|---|
| `list` | 2 lists, 4 elements, 2 values; 79,828 states | `TypeOK`; `Mem`: rings, lengths and membership follow the documented sequences; `CopyLoop`: the cursor of a copy loop; `Detached`; `Traversal`: the documented for-loops visit the sequence and end; `RefinesListSpec` |
| `list_cleared` | 1 list, 3 elements, `ReuseCleared` | violated: a call with an element from before `Init()` changes `Len()` although the documentation says the list is not modified |
| `sema` | 3 goroutines, 2 words under one root, 4 calls; 128,590 states | `WaitersCounted`: what `nwait` means; `Asleep`: a sleeper is queued or in one release's hands, and the throw on a corrupted ticket is not reached; `NoMissedWakeup`; `RefinesSemaphore`; `PermitReachesSleeper` |
| `mutex` | 3 goroutines, 5 calls of Lock or TryLock in all; 119,940 states | `MutualExclusion`; `NoThrow`; `Sleepers` and `NoLostWakeup` of the semaphore in this use; `OneWakeup`: at most one wakeup is under way, and `mutexWoken` or the handoff state shows it; `NoBarging`; `LockReturns` |
| `rwmutex` | 4 goroutines, any number of calls; 34,309 states | `Counts`: what the two counters mean at every step, and that no throw is reached; `Exclusion`; `OneSignal`: a writer is signalled once, by the last reader; `WriterLocks`; `ReadersReturn` |
| `waitgroup` | 4 goroutines, counter up to 2, any number of rounds; 34,338 states | `WaitersCounted`: every waiter is counted or has a permit coming, none is left over for the next round, no panic; `ReturnsAtZero`; `WaitReturns` |
| `cond` | 3 goroutines, tickets modulo 8 and about to wrap, any number of calls; 213,168 states | `Asleep`: nobody sleeps who was notified, and every sleeper has one waker; `Delivered`: a call that gives up early has missed nobody; `NotifiedReturns` |
| `cond_wrap` | the same with a longer stall | violated: a goroutine that was notified parks (section 5) |
| `syncmap` | 2 goroutines, 2 keys, 2 values, any number of calls; 843,384 states | `Linearizable`; `DirtyComplete`: the dirty map lacks exactly the expunged entries |
| `pool` | a producer, 2 consumers, 3 items, dequeues of 1, 2 and 2 slots, indexes modulo 4; 277,719 states | `SlotOwned`: no slot has two owners; `Conserved`: no item is lost or comes out twice; `Ends`: newest at the head, oldest at the tail, empty only if empty |
| `context` | 2 goroutines, 3 contexts, 1 of them with a timer, every tree; 338,393 states | `Cancelled`: cancellation reaches those that arrive while it is under way; `Released`: nothing is left behind, and nobody is left out; `Unstuck`: no deadlock among the mutexes of parents and children |
| `channel` | 3 goroutines, an unbuffered channel and one of size 2, 4 items, selects of 2 cases; 539,443 states | `Delivered`: items arrive once, in order, if and only if their sender is told so; `Parked`: nobody sleeps who could go on; `NonBlockingHonest` |

The type invariant is a conjunct of the first invariant of each later module. Those of
`Mutex` and `RuntimeSema` are parts of the inductive invariants of their proofs.

Deadlock is checked except in `cond`, `cond_wrap` and `channel`, where all goroutines
may go to sleep with nobody left to wake them and the model, like a program, stops.
`MCMutex` adds a self-loop for the state in which every call has been made and has
returned; `MCRuntimeSema` adds one for states in which goroutines are out of calls or
asleep on words without permits. Any other state without a successor is an error.

**Bounds.** Four elements over two lists reach every coincidence of neighbours
that the helpers distinguish (adjacent, same, first, last, only element) on both
lists at once, and self-append of a two-element list. Two words and three
goroutines let a release meet a waiter of the other word, a thief of its permit
and a waiter that is about to queue. Three goroutines and five mutex calls reach
starvation mode with a waiter still queued behind the one that gets the lock, a
newcomer during a handoff, spinning while a wakeup is under way, and Unlock's
retry loop; TLC reports that every action fires.

The later modules have no bound on calls: their goroutines come back, so that one use
meets the remains of the one before. Four goroutines let two readers leave while a
writer arrives and a second writer queues behind it, and let two Waits, an Add and a
Done of a WaitGroup overlap. For `cond`, a range of 8 tickets for three goroutines
leaves room on both sides of the comparison and wraps at once, since one of the two
initial states is about to; `MaxLag` of 4 is exactly half of the range. For `syncmap`
two goroutines suffice to hold a stale read map, a stale entry and a promotion against
each other; with three the monitor's states are out of reach. `MaxEntries` is the
number of entries that can be referenced at once: no call is ever cut short by it. For
`pool`, three items fill the first two dequeues, and indexes modulo 4 are twice the
largest dequeue, the least that the comment on `dequeueLimit` asks for. A chain of
three is the bound on growth: a push that needs a fourth dequeue waits for room.
For `context`, three contexts make chains and siblings with a timer at any place; there
is one tree because trees share nothing. For `channel`, four items let the ring of two
wrap while senders wait; one goroutine at a time may be between the lock-free reads,
since those change nothing for the others. Goroutines, keys, values and items that the
code treats alike are symmetric where no liveness is checked.

**Fairness.** Liveness assumes weak fairness of each goroutine's steps inside a call:
the Go scheduler eventually runs every runnable goroutine. Nothing is assumed about
calls that have not started. `LockReturns` and the RWMutex properties also assume that
a holder unlocks. Since the number of Mutex calls is bounded, `LockReturns` says that
no wakeup is lost along any path, not that overtaking is bounded. It is not in this
model: a woken waiter finds the mutex taken by a newcomer, queues up again, and so for
ever (without the bound on calls TLC finds that behaviour), because the millisecond
after which a waiter turns to starvation mode is a choice here and need never pass.
`WriterLocks` assumes strong fairness of getting `rw.w`, which starvation mode is there
to provide: a writer is not passed over for ever by others. `ReadersReturn` is stated for the time after writers have stopped
coming. With writers coming for ever the semaphore gives no such promise to one
reader: the permits Unlock releases are up for grabs, and a reader that arrives under
the next writer may take one meant for a reader that has waited longer.
`NotifiedReturns` and `WaitReturns` need weak fairness only. `context`, `channel`,
`syncmap` and `pool` are checked for safety; `Unstuck` says that some step of a call in
progress is always enabled and needs no fairness.

## 4. Proofs

`ListAndPoolProofs` proves, for any sets of lists, elements and values, from
the assumptions `ListConstants` (lists, elements and nil are distinct) and
`~ReuseCleared`:

* `ListTypeCorrect`: `Spec => []TypeOK`
* `ListCorrect`: `Spec => []Mem`
* `ListCopyLoop`: `Spec => []CopyLoop`
* `ListDetached`: `Spec => []Detached`
* `ListTraversal`: `Spec => []Traversal`
* `ListRefines`: `Spec => RefinesListSpec`

The first four follow from `ListInvariant`: the conjunction `IInv` of the four
predicates is inductive. `Mem` alone is not: an iteration of a copy loop inserts a
copy of `copy.e` and moves to its neighbour, and only `CopyLoop` says that `copy.e`
is an element of the list being read at the right index; `CopyLoop` in turn needs
the ring of `Mem` to know what `Next` returns. `Detached` is needed because a
removed element may be passed again. The argument goes up in layers: what
`InsertAt` and `RemoveAt` do at an index; what the link assignments do to a ring
(`SpliceRing`, `UnlinkRing`, proved by numbering the nodes with `Nth`, the sentinel
being node 0 and node `Len + 1`); what `insert`, `remove` and `move` do to one list
(`InsertHolds`, `RemoveHolds`, `MoveHolds`) while every other list stays as it is
(`OneListStep`); and one lemma per action. `ListTraversal` is a consequence of `Mem`:
the documented loop with `Next` (or `Prev`) visits the documented sequence (reversed)
and stops at nil. The loop is the recursive function `Walk`, and the lemma about it
(`WalkFollows`) is an induction on the elements left to visit, written as an argument
about the least number of them for which it fails, because well-foundedness of the
naturals can be cited and the induction rules cannot.

`ListRefines` shows step by step that `ContainerList` implements `ListSpec`. The
abstract lists are what a walk along `next` finds in the heap, so `WalkFollows` and
`Mem` first give them back as the documented sequences (`View`). During a copy loop
the list that grows is cut in two: `Kept`, what it held when the call began, which is
all a client may know of, and `Copies`, which the call adds at once when its last
iteration is done. One lemma per action then names the abstract step: Init is `Clear`,
the four ways to put an element in are `Insert`, Remove is `Delete`, the four moves are
`Relocate`, every iteration of PushBackList or PushFrontList but the last is a
stutter, and the last is `Concat`. For the last one `IInv` does not say
enough, as it says nothing of values: `CopyValues` adds that the copies made so far
carry the values of the elements they were made from, which stays true while the loop
runs along a list that is itself growing (`CutAppend`, `CutPrepend`).

`SemaphoreProofs`, from `SemaphoreConstants` (nil is neither a goroutine nor a word,
and there are finitely many goroutines), for any callers:

* `SemSleepers`: `SemSpec => []Sleepers`
* `SemNoLostWakeup`: `SemSpec => []NoLostWakeup`

The inductive invariant is their conjunction with the type invariant. It has one
lemma per step of a call, each about any module that makes semaphore calls, so
`MutexProofs` uses the same lemmas. The counting argument compares `sem[a]` with the
cardinality of `Movers(a)` before and after: a permit that is added brings its
releaser along, and whoever stops being a mover has taken a permit, has seen that
there are none, has seen an empty queue or has set another mover going.

`RuntimeSemaAndChannelProofs`, about `RuntimeSema` and from `RuntimeSemaConstants` (the same, with the bound on the
number of calls any natural number):

* `SemaWaitersCounted`: `Spec => []WaitersCounted`
* `SemaAsleep`: `Spec => []Asleep`
* `SemaRefines`: `Spec => RefinesSemaphore`
* `SemaNoMissedWakeup`: `Spec => []NoMissedWakeup`

The inductive invariant `SemaInv` adds to these `QueueOK` (the treap holds each
sleeper once, under its own word) and `WhoOK` (a dequeued waiter belongs to one
release); `TicketOK` is the half of `Asleep` that is about tickets. Queueing and
dequeueing change the tickets of queued goroutines only (`ParkTickets`,
`DequeueTickets`), and those do not show through the mapping (`QueuedAsleep`,
`AbsFrame`).
The refinement then goes step by step: `AbsAt` says what the mapping `AbsReq` is at
each step of a call, and one lemma per action says which step of `Semaphore` it is.
`NobodyWaits` is where `WaitersCounted` is needed: a release that reads
`nwait = 0` without the lock may return because then every queue is empty.
`SemaNoMissedWakeup` combines the two levels: the steps of sema.go are steps of the
semaphore under the mapping, the steps of the semaphore keep its inductive invariant
(`SemNextInv` of `SemaphoreProofs`, instantiated with `AbsReq`), and that invariant
says of the implementation that while a goroutine sleeps on a word somebody is on the
way to each of its permits.

`MutexProofs`, from `MutexConstants` and `SemaphoreConstants`, for any number of
goroutines and calls:

* `MutexMutualExclusion`: `Spec => []MutualExclusion`
* `MutexNoThrow`: `Spec => []NoThrow`
* `MutexOneWakeup`: `Spec => []OneWakeup`
* `MutexSemaphore`: `Spec => [](Sleepers /\ NoLostWakeup)`
* `MutexNoBarging`: `Spec => NoBarging`

The inductive invariant `MutexInv` is the conjunction of the type invariant, the
semaphore's invariant, `MutualExclusion`, `StarvationMode`, `OneWakeup` and `Local`.
`Local(p)` ties the locals of a goroutine (its `old`, whether it is `awoke`, which
semaphore call it is in) to the place it has reached. `MutualExclusion` needs
`StarvationMode` (in a handoff the lock bit is clear and nobody but the woken waiter
may take the mutex), which needs `OneWakeup` (there is only one such waiter), which
needs `Local` (who holds a wakeup): none of them is inductive alone.

`RWMutexProofs`, from `RWMutexConstants` (the two semaphores are different words, and
`rwmutexMaxReaders` is larger than the number of goroutines, which is what its value
2^30 is for) and `SemaphoreConstants`:

* `RWExclusion`: `Spec => []Exclusion`
* `RWCounts`: `Spec => []Counts`
* `RWOneSignal`: `Spec => []OneSignal`

The inductive invariant is `TypeOK`, the semaphore's invariant, `Local` (who is in which
semaphore call, and that exactly the holder of `rw.w` is at a writer's place) and
`Balance`. `Balance` is the heart of it. It says what `readerCount`, `readerWait` and the
permits of the two semaphores are in terms of the readers counted, inside and outside,
in two forms: while a writer is announced (`Excluding`) and while none is (`Admitting`).
`Exclusion` is not inductive by itself because a writer enters on the word of
`readerWait`, and `readerWait` means nothing between `Announce` and `AddWait`. Each
lemma on an action counts by one reader that moves between the three sets (`OneMoves`).

`WaitGroupProofs`, from `WaitGroupConstants` and `SemaphoreConstants`, for counters and
numbers of goroutines of any size:

* `WaitGroupCounted`: `Spec => []WaitersCounted`
* `WaitGroupReturnsAtZero`: `Spec => ReturnsAtZero`

The inductive invariant adds to the type and semaphore invariants `Local`, `Balance`
(the waiters in the word and the permits still owed are the sleepers, and `v` is the sum
of the units held), `Resetting` (one goroutine at a time is between dropping the counter
to zero and the plain store that resets the word, and nothing changes the word
meanwhile), `LettingGo` (the word is zero while waiters are being released) and
`SeesZero`. `Resetting` is what makes the unsynchronised check and store of `Add` safe;
it rests on the rules for clients of section 2.

`CondAndContextProofs` proves about `Cond`, from `CondConstants` (the counter's range is
more than twice the number of goroutines) and the hypothesis `MaxLag <= Wrap \div 2`:

* `CondAsleep`: `Spec => []Asleep`
* `CondDelivered`: `Spec => Delivered`

With the code's 32 bits the hypothesis says that a goroutine between taking a ticket and
`notifyListWait` is overtaken by at most 2^31 notifications; `cond_wrap` shows that it
cannot be dropped. The inductive invariant says whose the tickets from `notify` up to
`wait` are (`InLine`), how far `notify` is past the ticket of a goroutine that has been
notified and has not looked yet (`Passed`), where sleepers are (`InList`, `InTodo`,
`Found`), and that the waiters a notifier saw and nobody has notified yet are the first
in line, up to the value of `wait` that it read (`Owing`). The arithmetic is about
`After` and `Gap`, addition and distance modulo `Wrap`.

`SyncMapProofs`, from `SyncMapConstants`, for any numbers of goroutines, keys, values and
entries:

* `SyncMapDirtyComplete`: `Spec => []DirtyComplete`
* `SyncMapLinearizable`: `Spec => []Linearizable`

`Fit` says of the read map, `amended`, the dirty map and the entries' pointers how they
belong together at every step, also while `dirtyLocked` is copying; `DirtyComplete` is
what is left of it when `mu` is free. It needs that two keys never share an entry (or
a fast-path store would change another key's value), that no entry of the dirty map is
expunged and none at all without a dirty map (or a promotion would publish an entry that
refuses stores for ever), that exactly those at two places hold `mu` (`MuOK`) and that
an entry which is about to be stored to under `mu` cannot be expunged (`HitOK`). One
lemma says what each kind of change does to maps that fit (`FitWrite`, `FitUnexpunge`,
`FitAdd`, `FitDelete`, `FitPromote`, `FitBuild`, `FitCopy`).

Linearizability follows from a second invariant, `LInv`, on top of that one. That the
monitor of a key has a possibility left is not inductive; `MonitorOK` says which ones
it has: with `Now(k)`, what the entry of the key holds, every combination of answers
that the calls in progress may have to give (`Allowed`, `Cov`). A call that waits, or
that uses the entry of its key (`EntryOf`), need have taken no effect yet. One that
holds an entry which has left the maps has: a `LoadAndDelete` answers what that entry
holds, and a `Load` that or nothing, as the deletion may come before or after it. This is
where the prophecy of the hand proof goes: instead of guessing, all answers stay
possible until one is given. The other half of `LInv` says who may hold which entry: two
keys have none in common, not even in the hands of calls under way (`Apart`); `Store` and
`LoadOrStore` use an entry that is in the read map or expunged, so that they store to
no entry that has left the maps; and `LoadAndDelete` uses none that is in the dirty map
only, as it takes it out there under `mu` (`Held`). On the monitor's side,
`ClosureFacts` shows that as many rounds as there are goroutines close the
possibilities under the effects of the calls, by counting the calls without an effect
(`ClosureRounds`); the `Key...` lemmas say what a call, an effect, an answer or an entry
that fades away does to the monitor of a key, and one lemma per action (`LoadLin` to
`VisitLin`) which of them apply. TLC found `LInv` true on two goroutines, two keys and
two values and on three goroutines, one key and one value.

`ListAndPoolProofs` proves about `PoolQueue`, from `PoolQueueConstants` and
`PoolQueueSizes` (the size of every dequeue divides the range of the indexes: both are
powers of 2), for any numbers of consumers, items and dequeues, any sizes and any range
of at least twice the greatest size:

* `PoolSlotOwned`: `PoolSpec => []SlotOwned`
* `PoolConserved`: `PoolSpec => []Conserved`
* `PoolEnds`: `PoolSpec => Ends`

That a slot has one owner is not inductive: pushHead decides from two reads, first that
the ring is not full and then that `typ` of the slot is clear, and in between consumers
move the tail. `PoolInv` adds what makes this sound: a slot between tail and head and a
slot in the hands of a consumer always have `typ` set (`RingsOK`, `ConsumerOK`), so a
slot with a clear `typ` is nobody's (`SlotFree`), and between its reads and its write
the producer knows that head has not moved and the ring has not filled
(`ProducerOK`). `ChainOK` is what the three writes that link and unlink dequeues keep: a
link leads to the neighbour, a dequeue outside `tail`..`head` is empty, and `prev` is cut
only from where everything before it is drained. A consumer leaves a dequeue only if
`next` was set when it looked and the ring was empty after that; nothing is pushed to a
dequeue once it has a `next`, so it stays empty. That argument needs the two in this
order, and the mutant of `Ends` and `Conserved` swaps them. The arithmetic comes first:
`RingUp`, `RingDown` and `RingShift` say which slots an interval of indexes modulo
`Wrap` covers when it grows or shrinks at either end, and need that `Size` divides
`Wrap` (`Remainder` to `ModPlus`) or two indexes in the interval could share a slot
after a wrap.

`PoolConserved` adds `Placed` to `PoolInv`: every item is free and nowhere, or in one
slot, or in one goroutine's hands. Each action moves an item from one of these to the
next or leaves all of them (`PlacedMoves`, `PlacedQuiet`). `PoolEnds` follows from
`PoolInv` for each step: the producer is past dequeues that are drained, and those
before the tail are drained too.

`CondAndContextProofs` proves about `Context`, from `ContextConstants` (the contexts, the
goroutines, the errors and `Nil` are different things), for any set of users and of
contexts, and so for trees of any depth:

* `ContextCancelled`: `ContextSpec => []Cancelled`
* `ContextReleased`: `ContextSpec => []Released`

A call is a stack of frames, and calls of several goroutines work on one context at
a time, so `ContextInv` speaks of all frames of all stacks. `CallOK` says what a frame
may rely on wherever it is in its stack: a call at `children` or `attached` has the mutex
it works under, whoever is past `LockCancel` finds the context cancelled, a call of
`With...` has a context that nobody was given yet, and before it is attached no
parent has it. `PairsOK` says that two frames do not get in each other's way: no mutex is
held twice and no context has two makers. `CtxOK` says of each context where a
cancellation will find it. If it is not cancelled, it is being made (`Early`), or a
cancel of it is about to lock it, called by its maker or by the cancel of its parent
(`Joining`), or that cancel has it on its list (`Awaits`), or it is among the
children of a parent that is not cancelled. The first is over when `With...` returns and
the next two need the parent's mutex: that is `Cancelled`. If it is cancelled, the
call that did so is still at work (`Cancelling`, `Removing`, `Locked`), or there is
neither a timer nor a place in the parent left: that is `Released`. The case that
`removeChild` misses the parent, because nobody had asked for its `done`, is harmless
as that parent is cancelled itself and gives up its children when it unlocks.
`StackGoOn`, `StackPush`, `StackLeave` and `StackStart` say what a change of the innermost
call leaves of all others. `GoOnInv`, `EnterInv`, `LeaveInv`, `StartInv` and `DoneInv` show
the invariant for every step of such a shape, and one lemma per action shows that it
has that shape; making a context, the first cancel and the start of a watcher have
lemmas of their own.

`RuntimeSemaAndChannelProofs`, about `Channel` and from `ChannelConstants` (buffer sizes
and bounds are natural numbers; goroutines and channels may be any sets):

* `ChanInvariant`: `ChanSpec => []ChanInv`
* `ChanDelivered`: `ChanSpec => []Delivered`
* `ChanParked`: `ChanSpec => []Parked`
* `ChanHonest`: `ChanSpec => NonBlockingHonest`

None of the three properties is inductive. `ChanInv` adds to the types what they rest
on. `GoroutineOK` and `ApartOK`: only who is parked can be about to be woken, by one
goroutine; `selectDone` holds those whose select was won and who have not yet taken
their sudogs back; no two goroutines offer the same item. `LineOK`: a queue holds at
most one sudog of a goroutine, in the order of the items, each belongs to a call that is
still parked or was woken and has not left, and if it is live its goroutine sleeps; the
other way round, who sleeps has a sudog in the queue of every case. `WaitOK`: nobody
waits at a closed channel, senders wait only if the buffer is full and receivers only if
it is empty, and nobody on one side if somebody else waits on the other. `RingOK`:
`sendx` is `qcount` slots after `recvx`, modulo the size. `OutsOK` and `AfterOK`: what
has come out of a channel followed by what is in its ring is increasing, is of this
channel only, has not failed, and is smaller than every item that waits; whoever was
told so or is being told so has its item among them, and if the sender of one among them
has not returned, it is being told so. `LookOK` is what a receiver without the lock
knows at each of its reads.

All steps under a lock are of two shapes. Either they *wake* some sleepers (`Wake`,
`Roused`, `WakeHchans`): a send or receive that meets a waiter wakes one, a close wakes
all of a channel, and one that meets nobody wakes the empty set (`Calm`). What got
through then either stays (`OutsKeep`) or one item is added at the end of one channel
(`OutsPush`), and the lemmas on rings (`RingPush`, `RingPop`, `RingSwap`) show that of
the buffer, also around its end. Or somebody *parks* (`Parks`), at the end of queues of
channels that are not ready. Apart from these, woken goroutines leave (`Rests`) and
others look without a lock (`Peeks`). The purge that `dequeue` performs on the way past selects that are already
won can be inserted anywhere (`ThinnedOK`), so it is dealt with once. The lemmas about
`Select` are for any set of cases; the specification has selects of two.

Each inductive invariant was checked by TLC on the instance of its run first.

Only model-checked: the liveness properties `PermitReachesSleeper`, `LockReturns`,
`WriterLocks`, `ReadersReturn`, `WaitReturns` and `NotifiedReturns`, which are out of
the prover's reach, and `Unstuck`, which is about ENABLED.

## 5. What the violation runs show

**`list_cleared`.** `list.go` says of `InsertBefore` and its siblings: "If mark is not
an element of l, the list is not modified." Membership is tested by `mark.list != l`,
but `Init` empties a list without touching the `list` field of its elements. An element
from before `Init` still passes the test, so the call goes on. In the counterexample the
list had one element, `e1`; after `Init`, `e1.prev` is still the sentinel, so
`InsertBefore(e1)` links the new element into the list that was just emptied: `Len()` is
1 and a traversal finds it. With `InsertAfter`, or with a mark further back, the new
element hangs on the ring that was cut off and a traversal from the front does not find
it, although `Len()` counts it. The contracts rule such calls out through ownership, the
documentation does not.

**`cond_wrap`.** `notifyListNotifyOne` says of a waiter that has a ticket and is not in
the list: "it won't park itself once it sees the new notify number", and notifyList
says that for `wait` and `notify` to be 2^31 apart "we'd need to have 2^31+ goroutines
blocked on the same condvar". The distance that counts, however, is the one between
`notify` and the ticket of a goroutine that has not got to `notifyListWait`, and it
grows with every notification, however few goroutines there are. Past half of the range
`less(t, l.notify)` turns over and the goroutine parks although it was notified. With
the code's 32 bits the goroutine has to stall for 2^31 notifications.

## 6. Observations

* `chansend` argues that its two lock-free reads (`c.closed == 0`, then `full(c)`) "imply
  a moment between the two when the channel was both not yet closed and not ready for
  sending", because a closed channel does not become less ready. An unbuffered channel
  with a waiting receiver does: `closechan` sets `closed` and takes the receivers out of
  the queue in one critical section. A non-blocking send that reads `closed` before and
  calls `full` after it reports a full channel, although the channel had a receiver until it
  was closed. `NonBlockingHonest` is therefore stated for receives only, whose reads are
  in the other order.
* The sentence on positive deltas in `WaitGroup.Add` promises more than the code keeps;
  see the rules of clients in section 2.

## 7. Not modelled

* The treap of `sema.go` (tree links, values of priorities, rotations): a queue per word
  stands for it, with whether each ticket is zero.
* `sync.Pool` above its queues: pinning, stealing and the victim cache rest on the
  scheduler and on stopping the world.
* Nil channels, selects of more than two cases or with the same case twice, the order of
  locks in a select, and what `chan.go` does for stack moving, the race detector and
  reflection.
* `context.WithValue`, which changes no state, and the panics of `context.go` on a nil
  parent and on a cancel without an error.
* In `chan.go` and `select.go`, the throws on a bad or spurious wakeup; a panic ends the
  call like a return.
* The copy checker of `sync.Cond`, and that `poolDequeue` stores a nil item as `dequeueNil`.
* `sync.Once`, `sync/atomic.Value`, `io.Pipe`, `internal/singleflight`,
  `internal/poll.fdMutex`, the `net/rpc` client, the `database/sql` pool.
* Sequential algorithms without state of their own: `sort`, `container/heap`,
  `container/ring`, Rabin–Karp.
* The compiler and the go command, the scheduler and the garbage collector, the network,
  crypto, encoding and text packages, tests and vendored code: upstream Go, most of the
  tree by size, and without a state machine of the kind that is checked here.

The models assume sequentially consistent atomics, which is what Go's `sync/atomic`
provides, and treat a plain access as a step of its own where the code makes one
without a lock (`WaitGroup`'s check and reset, the reads of `chansend`'s fast path).

## 8. Plan

1. `poll.fdMutex` over `Semaphore`, and `singleflight` with what `ForgetUnshared` does to
   the entry of a later call.
2. The links and rotations of the treap of `sema.go` against a queue per word.
