----------------------------- MODULE PoolQueue -----------------------------
(***************************************************************************)
(* The queues of sync.Pool (sync/poolqueue.go): poolDequeue, a ring buffer *)
(* that one producer uses at its head and any number of consumers at its   *)
(* tail, and poolChain, a chain of dequeues that grow.  Every atomic       *)
(* operation is a step, and so is every plain write to a slot that another *)
(* goroutine may look at; the loops that retry a compare-and-swap of       *)
(* headTail are the test-and-set they amount to.                           *)
(*                                                                         *)
(* Dequeues are numbered as the producer makes them; 0 is nil.  Items are  *)
(* pushed by whoever has them: a free item is outside the queue.           *)
(***************************************************************************)
EXTENDS SequencesExt, Integers

CONSTANTS
    Producer, Consumer,     \* the goroutine at the head, the goroutines at the tail
    Item, NoItem,
    initSize, dequeueLimit, \* the first and the greatest size of a dequeue
    Wrap,                   \* head and tail count modulo Wrap, 2^32 in the code
    MaxElts                 \* bound: the dequeues that are ever made

ASSUME PoolQueueConstants ==
    /\ IsFiniteSet(Consumer) /\ Producer \notin Consumer /\ NoItem \notin Item
    /\ initSize \in Nat \ {0} /\ dequeueLimit \in Nat /\ MaxElts \in Nat \ {0}
    /\ Wrap \in Nat /\ initSize <= dequeueLimit /\ 2 * dequeueLimit <= Wrap

Proc == Consumer \union {Producer}
Elt == 1..MaxElts

(* len(d.vals): each dequeue is twice the size of the one before. *)
Size[i \in Elt] ==
    IF i = 1 THEN initSize
    ELSE IF 2 * Size[i - 1] >= dequeueLimit THEN dequeueLimit ELSE 2 * Size[i - 1]

(* The sizes are powers of 2, and so is Wrap. *)
ASSUME PoolQueueSizes == \A i \in Elt : Wrap % Size[i] = 0

VARIABLES
    hd, tl,         \* the halves of headTail, of each dequeue
    typ, val,       \* the two words of each slot: is typ set, the item
    next, prev,
    head, tail,     \* the ends of the chain
    pc,             \* where each goroutine is
    deq, deq2,      \* the dequeue it looks at, and the one after it
    slot,           \* the slot it has
    arg,            \* the item it pushes or has popped
    free            \* history: the items outside the queue

poolVars == <<hd, tl, typ, val, next, prev, head, tail, pc, deq, deq2, slot, arg, free>>
rings == <<hd, tl, typ, val>>
chain == <<next, prev, head, tail>>
local == <<deq, deq2, slot, arg>>

PoolInit ==
    /\ hd = [i \in Elt |-> 0] /\ tl = [i \in Elt |-> 0]
    /\ typ = [i \in Elt |-> [s \in 0..Size[i] - 1 |-> FALSE]]
    /\ val = [i \in Elt |-> [s \in 0..Size[i] - 1 |-> NoItem]]
    /\ next = [i \in Elt |-> 0] /\ prev = [i \in Elt |-> 0]
    /\ head = 0 /\ tail = 0
    /\ pc = [p \in Proc |-> "idle"]
    /\ deq = [p \in Proc |-> 0] /\ deq2 = [p \in Proc |-> 0]
    /\ slot = [p \in Proc |-> 0]
    /\ arg = [p \in Proc |-> NoItem]
    /\ free = Item

At(p, here) == pc[p] = here
Goto(p, there) == pc' = [pc EXCEPT ![p] = there]
Slot(i, index) == index % Size[i]
Entries(i) == (hd[i] - tl[i]) % Wrap

(* The call of p is over; a pop gives its item away. *)
Return(p, item) ==
    /\ Goto(p, "idle")
    /\ deq' = [deq EXCEPT ![p] = 0] /\ deq2' = [deq2 EXCEPT ![p] = 0]
    /\ slot' = [slot EXCEPT ![p] = 0]
    /\ arg' = [arg EXCEPT ![p] = NoItem]
    /\ free' = free \union ({item} \ {NoItem})

-----------------------------------------------------------------------------
(* pushHead *)

(* A dequeue is made, and the producer goes on with it. *)
Make(p, there) ==
    /\ head < MaxElts
    /\ head' = head + 1
    /\ prev' = [prev EXCEPT ![head + 1] = head]
    /\ deq' = [deq EXCEPT ![p] = head + 1]
    /\ Goto(p, there)

PushHead(item) ==
    LET p == Producer
    IN  /\ At(p, "idle") /\ item \in free
        /\ free' = free \ {item}
        /\ arg' = [arg EXCEPT ![p] = item]
        /\ IF head = 0
           THEN Make(p, "first")
           ELSE deq' = [deq EXCEPT ![p] = head] /\ Goto(p, "full") /\ UNCHANGED <<prev, head>>
        /\ UNCHANGED <<rings, next, tail, deq2, slot>>

(* The first dequeue, or the next one, becomes visible to consumers. *)
Publish(p) ==
    /\ \/ At(p, "first") /\ tail' = head /\ UNCHANGED next
       \/ At(p, "link") /\ next' = [next EXCEPT ![head - 1] = head] /\ UNCHANGED tail
    /\ Goto(p, "full")
    /\ UNCHANGED <<rings, prev, head, local, free>>

(* There is no room: on to a new dequeue. *)
Grow(p) ==
    /\ Make(p, "link")
    /\ UNCHANGED <<next, tail, deq2, slot, arg>>

LoadHeadTail(p) ==
    LET i == deq[p]
    IN  /\ At(p, "full")
        /\ IF (tl[i] + Size[i]) % Wrap = hd[i]
           THEN Grow(p)
           ELSE /\ slot' = [slot EXCEPT ![p] = Slot(i, hd[i])] /\ Goto(p, "typ")
                /\ UNCHANGED <<chain, deq, deq2, arg>>
        /\ UNCHANGED <<rings, free>>

(* Mutant: the tail has moved on, so the slot is free. *)
LoadTypBlind(p) ==
    /\ At(p, "typ")
    /\ Goto(p, "write") /\ UNCHANGED <<chain, local>>
    /\ UNCHANGED <<rings, free>>

(* Has popTail released the slot? *)
LoadTyp(p) ==
    /\ At(p, "typ")
    /\ IF typ[deq[p]][slot[p]]
       THEN Grow(p)
       ELSE Goto(p, "write") /\ UNCHANGED <<chain, local>>
    /\ UNCHANGED <<rings, free>>

WriteSlot(p) ==
    /\ At(p, "write")
    /\ typ' = [typ EXCEPT ![deq[p]][slot[p]] = TRUE]
    /\ val' = [val EXCEPT ![deq[p]][slot[p]] = arg[p]]
    /\ Goto(p, "add")
    /\ UNCHANGED <<hd, tl, chain, local, free>>

AddHead(p) ==
    /\ At(p, "add")
    /\ hd' = [hd EXCEPT ![deq[p]] = (@ + 1) % Wrap]
    /\ Return(p, NoItem)
    /\ UNCHANGED <<tl, typ, val, chain>>

-----------------------------------------------------------------------------
(* popHead *)

PopHead ==
    LET p == Producer
    IN  /\ At(p, "idle")
        /\ deq' = [deq EXCEPT ![p] = head]
        /\ Goto(p, "pophead")
        /\ UNCHANGED <<rings, chain, deq2, slot, arg, free>>

(* The newest item of the dequeue, or on to the dequeue before it. *)
TakeHead(p) ==
    LET i == deq[p]
    IN  /\ At(p, "pophead")
        /\ \/ /\ i = 0
              /\ Return(p, NoItem) /\ UNCHANGED hd
           \/ /\ i # 0 /\ hd[i] # tl[i]
              /\ hd' = [hd EXCEPT ![i] = (@ - 1) % Wrap]
              /\ slot' = [slot EXCEPT ![p] = Slot(i, (hd[i] - 1) % Wrap)]
              /\ Goto(p, "headslot")
              /\ UNCHANGED <<deq, deq2, arg, free>>
           \/ /\ i # 0 /\ hd[i] = tl[i]
              /\ Goto(p, "back")
              /\ UNCHANGED <<hd, local, free>>
        /\ UNCHANGED <<tl, typ, val, chain>>

LoadPrev(p) ==
    /\ At(p, "back")
    /\ deq' = [deq EXCEPT ![p] = prev[deq[p]]]
    /\ Goto(p, "pophead")
    /\ UNCHANGED <<rings, chain, deq2, slot, arg, free>>

(* The producer reads and clears the slot: nobody else looks at it. *)
EmptyHeadSlot(p) ==
    LET i == deq[p]
        s == slot[p]
    IN  /\ At(p, "headslot")
        /\ typ' = [typ EXCEPT ![i][s] = FALSE]
        /\ val' = [val EXCEPT ![i][s] = NoItem]
        /\ Return(p, val[i][s])
        /\ UNCHANGED <<hd, tl, chain>>

-----------------------------------------------------------------------------
(* popTail *)

PopTail(p) ==
    /\ p # Producer /\ At(p, "idle")
    /\ tail # 0
    /\ deq' = [deq EXCEPT ![p] = tail]
    /\ Goto(p, "next")
    /\ UNCHANGED <<rings, chain, deq2, slot, arg, free>>

(* next is loaded before the pop. *)
LoadNext(p) ==
    /\ At(p, "next")
    /\ deq2' = [deq2 EXCEPT ![p] = next[deq[p]]]
    /\ Goto(p, "poptail")
    /\ UNCHANGED <<rings, chain, deq, slot, arg, free>>

(* Mutant: what comes after the dequeue is looked up after the pop. *)
TakeTailLate(p) ==
    LET i == deq[p]
    IN  /\ \/ /\ At(p, "poptail") /\ hd[i] # tl[i]
              /\ tl' = [tl EXCEPT ![i] = (@ + 1) % Wrap]
              /\ slot' = [slot EXCEPT ![p] = Slot(i, tl[i])]
              /\ Goto(p, "tailslot")
              /\ UNCHANGED <<deq, deq2, arg, free>>
           \/ /\ At(p, "poptail") /\ hd[i] = tl[i]
              /\ Goto(p, "late") /\ UNCHANGED <<tl, local, free>>
           \/ /\ At(p, "late") /\ next[i] = 0
              /\ Return(p, NoItem) /\ UNCHANGED tl
           \/ /\ At(p, "late") /\ next[i] # 0
              /\ Goto(p, "drop")
              /\ deq2' = [deq2 EXCEPT ![p] = next[i]]
              /\ UNCHANGED <<tl, deq, slot, arg, free>>
        /\ UNCHANGED <<hd, typ, val, chain>>

(* The oldest item of the dequeue, or nothing. *)
TakeTail(p) ==
    LET i == deq[p]
    IN  /\ At(p, "poptail")
        /\ \/ /\ hd[i] # tl[i]
              /\ tl' = [tl EXCEPT ![i] = (@ + 1) % Wrap]
              /\ slot' = [slot EXCEPT ![p] = Slot(i, tl[i])]
              /\ Goto(p, "tailslot")
              /\ UNCHANGED <<deq, deq2, arg, free>>
           \/ /\ hd[i] = tl[i] /\ deq2[p] = 0
              /\ Return(p, NoItem) /\ UNCHANGED tl
           \/ /\ hd[i] = tl[i] /\ deq2[p] # 0
              /\ Goto(p, "drop")
              /\ UNCHANGED <<tl, local, free>>
        /\ UNCHANGED <<hd, typ, val, chain>>

ReadTailSlot(p) ==
    /\ At(p, "tailslot")
    /\ arg' = [arg EXCEPT ![p] = val[deq[p]][slot[p]]]
    /\ Goto(p, "clearval")
    /\ UNCHANGED <<rings, chain, deq, deq2, slot, free>>

ClearVal(p) ==
    /\ At(p, "clearval")
    /\ val' = [val EXCEPT ![deq[p]][slot[p]] = NoItem]
    /\ Goto(p, "cleartyp")
    /\ UNCHANGED <<hd, tl, typ, chain, local, free>>

ClearTyp(p) ==
    /\ At(p, "cleartyp")
    /\ typ' = [typ EXCEPT ![deq[p]][slot[p]] = FALSE]
    /\ Return(p, arg[p])
    /\ UNCHANGED <<hd, tl, val, chain>>

(* The first to drop the drained dequeue cuts the link back to it. *)
DropTail(p) ==
    /\ At(p, "drop")
    /\ IF tail = deq[p]
       THEN tail' = deq2[p] /\ Goto(p, "cut") /\ UNCHANGED <<deq, deq2>>
       ELSE /\ deq' = [deq EXCEPT ![p] = deq2[p]] /\ deq2' = [deq2 EXCEPT ![p] = 0]
            /\ Goto(p, "next") /\ UNCHANGED tail
    /\ UNCHANGED <<rings, next, prev, head, slot, arg, free>>

CutPrev(p) ==
    /\ At(p, "cut")
    /\ prev' = [prev EXCEPT ![deq2[p]] = 0]
    /\ deq' = [deq EXCEPT ![p] = deq2[p]] /\ deq2' = [deq2 EXCEPT ![p] = 0]
    /\ Goto(p, "next")
    /\ UNCHANGED <<rings, next, head, tail, slot, arg, free>>

-----------------------------------------------------------------------------
Step(p) ==
    \/ Publish(p) \/ LoadHeadTail(p) \/ LoadTyp(p) \/ WriteSlot(p) \/ AddHead(p)
    \/ TakeHead(p) \/ LoadPrev(p) \/ EmptyHeadSlot(p)
    \/ LoadNext(p) \/ TakeTail(p) \/ ReadTailSlot(p) \/ ClearVal(p) \/ ClearTyp(p)
    \/ DropTail(p) \/ CutPrev(p)

PoolNext ==
    \/ \E item \in Item : PushHead(item)
    \/ PopHead
    \/ \E p \in Proc : PopTail(p) \/ Step(p)

PoolSpec == PoolInit /\ [][PoolNext]_poolVars

-----------------------------------------------------------------------------
Places ==
    {"idle", "first", "link", "full", "typ", "write", "add", "pophead", "back", "headslot",
     "next", "poptail", "tailslot", "clearval", "cleartyp", "drop", "cut"}

PoolTypeOK ==
    /\ hd \in [Elt -> 0..Wrap - 1] /\ tl \in [Elt -> 0..Wrap - 1]
    /\ \A i \in Elt : /\ typ[i] \in [0..Size[i] - 1 -> BOOLEAN]
                      /\ val[i] \in [0..Size[i] - 1 -> Item \union {NoItem}]
    /\ next \in [Elt -> 0..MaxElts] /\ prev \in [Elt -> 0..MaxElts]
    /\ head \in 0..MaxElts /\ tail \in 0..head
    /\ DOMAIN typ = Elt /\ DOMAIN val = Elt
    /\ pc \in [Proc -> Places]
    /\ deq \in [Proc -> 0..MaxElts] /\ deq2 \in [Proc -> 0..MaxElts]
    /\ slot \in [Proc -> 0..dequeueLimit - 1]
    /\ arg \in [Proc -> Item \union {NoItem}]
    /\ free \in SUBSET Item

(* The slots between tail and head of a dequeue. *)
Window(i) == {Slot(i, (tl[i] + k) % Wrap) : k \in 0..Entries(i) - 1}

(* The slot a goroutine uses outside the window. *)
Mine(p) == pc[p] \in {"write", "add", "headslot", "tailslot", "clearval", "cleartyp"}

(* A slot belongs to the window or to one goroutine, whether the indexes   *)
(* wrap around or not: what a consumer has not let go of is not reused.    *)
SlotOwned ==
    /\ PoolTypeOK
    /\ \A i \in Elt : Entries(i) <= Size[i]
    /\ \A p \in Proc : Mine(p) =>
           /\ slot[p] \notin Window(deq[p])
           /\ \A q \in Proc \ {p} : ~(Mine(q) /\ deq[q] = deq[p] /\ slot[q] = slot[p])

(* Where an item is that is not free: in a window that a consumer can get  *)
(* to, or with one goroutine.                                              *)
InQueue(item) ==
    {pl \in Elt \X (0..dequeueLimit - 1) :
        /\ tail # 0 /\ pl[1] \in tail..head
        /\ pl[2] \in Window(pl[1]) /\ val[pl[1]][pl[2]] = item}

InHands(item) ==
    {p \in Proc :
        \/ arg[p] = item
        \/ pc[p] \in {"headslot", "tailslot"} /\ val[deq[p]][slot[p]] = item}

(* An item that was pushed is popped once and not lost, whichever dequeues *)
(* are dropped on the way; and nothing else is popped.                     *)
Conserved ==
    \A item \in Item :
        Cardinality(InQueue(item)) + Cardinality(InHands(item)) = IF item \in free THEN 0 ELSE 1

(* The producer takes back the newest item, a consumer takes the oldest,   *)
(* also from a chain; the producer finds the chain empty only if it is.    *)
Ends ==
    [][/\ \A i \in Elt :
             /\ hd'[i] = (hd[i] - 1) % Wrap => \A j \in i + 1..MaxElts : Entries(j) = 0
             /\ tl'[i] # tl[i] => \A j \in 1..i - 1 : Entries(j) = 0
       /\ At(Producer, "pophead") /\ At(Producer, "idle")' => \A i \in Elt : Entries(i) = 0]_poolVars
=============================================================================
