------------------------------ MODULE Channel ------------------------------
(***************************************************************************)
(* Channels and select (runtime/chan.go, runtime/select.go).  A section    *)
(* under a channel's lock, or under the locks of all channels of a select, *)
(* is one step; the reads that a non-blocking operation makes before it    *)
(* takes the lock, and the goready that follows the unlocking, are steps   *)
(* of their own.                                                           *)
(*                                                                         *)
(* What is sent is a number: the calls that send are numbered as they get  *)
(* to the channel.  A select offers the same item to all its send cases.   *)
(***************************************************************************)
EXTENDS SequencesExt, Integers

CONSTANTS
    Chan, G,        \* the channels, the goroutines
    dataqsiz,       \* the size of each channel's buffer
    MaxItems,       \* bound: the items that are ever sent
    MaxLooking      \* bound: those that look at a channel without its lock at a time

ASSUME ChannelConstants ==
    dataqsiz \in [Chan -> Nat] /\ MaxItems \in Nat /\ MaxLooking \in Nat

VARIABLES
    ch,             \* the hchan of each channel
    selectDone,     \* the goroutines whose select somebody has won
    pc,             \* where each goroutine is
    cases,          \* the cases of its call, as chan and dir
    item,           \* the item of its call
    param,          \* the case it was woken for, and whether that succeeded
    readies,        \* those it has still to make ready
    items,          \* history: the items so far
    rcvd,           \* history: the items received from each channel
    acked, failed,  \* history: the items whose send returned, and did not send
    witness         \* history: the receivers that may say that nothing is there

chanVars == <<ch, selectDone, pc, cases, item, param, readies,
              items, rcvd, acked, failed, witness>>
wake == <<selectDone, param, readies>>
log == <<items, rcvd, acked, failed>>

Sudog == [g : G, item : 0..MaxItems, isSelect : BOOLEAN]
Case == [chan : Chan, dir : {"send", "recv"}]
Send(c) == [chan |-> c, dir |-> "send"]
Recv(c) == [chan |-> c, dir |-> "recv"]
NoCase == [case |-> {}, ok |-> FALSE]

ChanInit ==
    /\ ch = [c \in Chan |-> [closed |-> FALSE, qcount |-> 0, sendx |-> 0, recvx |-> 0,
                             buf |-> [i \in 0..dataqsiz[c] - 1 |-> 0],
                             sendq |-> <<>>, recvq |-> <<>>]]
    /\ selectDone = {}
    /\ pc = [g \in G |-> "idle"]
    /\ cases = [g \in G |-> {}] /\ item = [g \in G |-> 0]
    /\ param = [g \in G |-> NoCase] /\ readies = [g \in G |-> {}]
    /\ items = 0 /\ rcvd = [c \in Chan |-> <<>>] /\ acked = {} /\ failed = {}
    /\ witness = {}

-----------------------------------------------------------------------------
(* Wait queues: sudogs, with the goroutine, its item and isSelect. *)

Live(s) == ~(s.isSelect /\ s.g \in selectDone)

(* Mutant: whoever is in the queue may be had. *)
PurgeNothing(q) == q

(* dequeue passes over the selects that somebody else has won. *)
Purge(q) ==
    LET i == SelectInSeq(q, Live)
    IN  IF i = 0 THEN <<>> ELSE SubSeq(q, i, Len(q))

(* The channels once select has looked at the cases ks in vain. *)
Purged(ks) ==
    [c \in Chan |->
       [ch[c] EXCEPT !.sendq = IF Recv(c) \in ks THEN Purge(ch[c].sendq) ELSE ch[c].sendq,
                     !.recvq = IF Send(c) \in ks THEN Purge(ch[c].recvq) ELSE ch[c].recvq]]

Ready(k) ==
    LET c == ch[k.chan]
    IN  \/ c.closed
        \/ k.dir = "send" /\ (Purge(c.recvq) # <<>> \/ c.qcount < dataqsiz[k.chan])
        \/ k.dir = "recv" /\ (Purge(c.sendq) # <<>> \/ c.qcount > 0)

-----------------------------------------------------------------------------
Leave(g) ==
    /\ pc' = [pc EXCEPT ![g] = "idle"]
    /\ cases' = [cases EXCEPT ![g] = {}]
    /\ item' = [item EXCEPT ![g] = 0]

GoOn(g, there) == pc' = [pc EXCEPT ![g] = there] /\ UNCHANGED <<cases, item>>

(* What g does with the sudog it has dequeued: when it has unlocked the    *)
(* channels, the goroutine will be made ready.                             *)
Dequeued(g, s, k) ==
    /\ selectDone' = IF s.isSelect THEN selectDone \union {s.g} ELSE selectDone
    /\ param' = [param EXCEPT ![s.g] = [case |-> {k}, ok |-> TRUE]]
    /\ readies' = [readies EXCEPT ![g] = {s.g}]
    /\ pc' = [pc EXCEPT ![g] = "goready"]
    /\ cases' = [cases EXCEPT ![g] = {}] /\ item' = [item EXCEPT ![g] = 0]

Wrapped(x, c) == IF x + 1 = dataqsiz[c] THEN 0 ELSE x + 1

(* A send on channel c by g, under the lock; h is what the channels are.   *)
(* A channel that is closed makes it panic.                                *)
DoSend(g, c, h) ==
    LET q == Purge(h[c].recvq)
        x == h[c].sendx
    IN  \/ /\ h[c].closed
           /\ ch' = h /\ Leave(g) /\ UNCHANGED <<wake, log>>
        \/ /\ ~h[c].closed /\ items < MaxItems
           /\ items' = items + 1 /\ acked' = acked \union {items + 1} /\ UNCHANGED failed
           /\ \/ /\ q # <<>>
                 /\ ch' = [h EXCEPT ![c] = [h[c] EXCEPT !.recvq = Tail(q)]]
                 /\ rcvd' = [rcvd EXCEPT ![c] = Append(@, items + 1)]
                 /\ Dequeued(g, Head(q), Recv(c))
              \/ /\ q = <<>> /\ h[c].qcount < dataqsiz[c]
                 /\ ch' = [h EXCEPT ![c] = [h[c] EXCEPT !.recvq = <<>>,
                                               !.buf = [h[c].buf EXCEPT ![x] = items + 1],
                                               !.sendx = Wrapped(x, c),
                                               !.qcount = h[c].qcount + 1]]
                 /\ Leave(g) /\ UNCHANGED <<wake, rcvd>>

(* A receive: from a sender that waits, whose item takes the place of the  *)
(* oldest in a full buffer; from the buffer; or the end of a closed        *)
(* channel, which has no senders waiting.                                  *)
DoRecv(g, c, h) ==
    LET q == Purge(h[c].sendq)
        x == h[c].recvx
    IN  \/ /\ q # <<>>
           /\ LET s == Head(q)
                  got == IF dataqsiz[c] = 0 THEN s.item ELSE h[c].buf[x]
              IN  /\ ch' = [h EXCEPT ![c] =
                         IF dataqsiz[c] = 0 THEN [h[c] EXCEPT !.sendq = Tail(q)]
                         ELSE [h[c] EXCEPT !.sendq = Tail(q),
                                           !.buf = [h[c].buf EXCEPT ![x] = s.item],
                                           !.recvx = Wrapped(x, c), !.sendx = Wrapped(x, c)]]
                  /\ rcvd' = [rcvd EXCEPT ![c] = Append(@, got)]
                  /\ Dequeued(g, s, Send(c))
                  /\ UNCHANGED <<items, acked, failed>>
        \/ /\ q = <<>> /\ h[c].qcount > 0
           /\ ch' = [h EXCEPT ![c] = [h[c] EXCEPT !.sendq = <<>>,
                                         !.buf = [h[c].buf EXCEPT ![x] = 0],
                                         !.recvx = Wrapped(x, c),
                                         !.qcount = h[c].qcount - 1]]
           /\ rcvd' = [rcvd EXCEPT ![c] = Append(@, h[c].buf[x])]
           /\ Leave(g) /\ UNCHANGED <<wake, items, acked, failed>>
        \/ /\ q = <<>> /\ h[c].qcount = 0 /\ h[c].closed
           /\ ch' = [h EXCEPT ![c] = [h[c] EXCEPT !.sendq = <<>>]]
           /\ Leave(g) /\ UNCHANGED <<wake, log>>

Do(g, k, h) == IF k.dir = "send" THEN DoSend(g, k.chan, h) ELSE DoRecv(g, k.chan, h)

(* No case is ready: g queues on all of its channels and parks. *)
Enqueue(g, ks, isSelect) ==
    LET sends == \E k \in ks : k.dir = "send"
        i == IF sends THEN items + 1 ELSE 0
        s == [g |-> g, item |-> i, isSelect |-> isSelect]
        h == Purged(ks)
    IN  /\ sends => items < MaxItems
        /\ items' = IF sends THEN items + 1 ELSE items
        /\ ch' = [c \in Chan |-> [h[c] EXCEPT
               !.sendq = IF Send(c) \in ks THEN Append(h[c].sendq, s) ELSE h[c].sendq,
               !.recvq = IF Recv(c) \in ks THEN Append(h[c].recvq, s) ELSE h[c].recvq]]
        /\ cases' = [cases EXCEPT ![g] = ks] /\ item' = [item EXCEPT ![g] = i]
        /\ pc' = [pc EXCEPT ![g] = "parked"]
        /\ UNCHANGED <<wake, rcvd, acked, failed>>

(* chansend and chanrecv that may block, on one channel. *)
Block(g, k) ==
    /\ pc[g] = "idle"
    /\ IF Ready(k) THEN Do(g, k, ch) ELSE Enqueue(g, {k}, FALSE)

(* selectgo: the cases are looked at in any order. *)
Select(g, ks, block) ==
    /\ pc[g] = "idle"
    /\ \/ \E k \in {j \in ks : Ready(j)} : \E es \in SUBSET {j \in ks : ~Ready(j)} :
              Do(g, k, Purged(es))
       \/ block /\ (\A k \in ks : ~Ready(k)) /\ Enqueue(g, ks, TRUE)
       \/ /\ ~block /\ \A k \in ks : ~Ready(k)
          /\ ch' = Purged(ks)
          /\ UNCHANGED <<pc, cases, item, wake, log>>

(* dequeueSudoG: g has at most one sudog in a queue. *)
Without(q, g) == RemoveFirstMatch(q, LAMBDA s : s.g = g)

(* g was woken, and takes back its other sudogs. *)
Pass3(g) ==
    LET won == param[g].ok /\ \E k \in param[g].case : k.dir = "send"
    IN  /\ pc[g] = "woken"
        /\ ch' = [c \in Chan |-> [ch[c] EXCEPT !.sendq = Without(ch[c].sendq, g),
                                               !.recvq = Without(ch[c].recvq, g)]]
        /\ selectDone' = selectDone \ {g}
        /\ acked' = IF won THEN acked \union {item[g]} ELSE acked
        /\ failed' = IF won \/ item[g] = 0 THEN failed ELSE failed \union {item[g]}
        /\ param' = [param EXCEPT ![g] = NoCase]
        /\ Leave(g)
        /\ UNCHANGED <<readies, items, rcvd>>

(* The locks are released: on with those that were dequeued.  One that was *)
(* not in a select returns; one that was has to take the locks again.      *)
goready(g) ==
    /\ pc[g] = "goready"
    /\ \E r \in readies[g] :
         LET last == readies[g] = {r}
             isSelect == r \in selectDone
         IN  /\ readies' = [readies EXCEPT ![g] = @ \ {r}]
             /\ pc' = [pc EXCEPT ![g] = IF last THEN "idle" ELSE "goready",
                                 ![r] = IF isSelect THEN "woken" ELSE "idle"]
             /\ IF isSelect
                THEN UNCHANGED <<cases, item, param, acked, failed>>
                ELSE /\ cases' = [cases EXCEPT ![r] = {}]
                     /\ item' = [item EXCEPT ![r] = 0]
                     /\ param' = [param EXCEPT ![r] = NoCase]
                     /\ acked' = IF param[r].ok THEN acked \union ({item[r]} \ {0}) ELSE acked
                     /\ failed' = IF param[r].ok THEN failed ELSE failed \union ({item[r]} \ {0})
    /\ UNCHANGED <<ch, selectDone, items, rcvd>>

WaitersIn(q) == {s \in ToSet(q) : Live(s)}

(* Mutant: the senders stay in their queue. *)
CloseReceivers(g, c) ==
    LET recvs == WaitersIn(ch[c].recvq)
        all == recvs
        gs == {s.g : s \in all}
    IN  /\ pc[g] = "idle" /\ ~ch[c].closed
        /\ ch' = [ch EXCEPT ![c] = [ch[c] EXCEPT !.closed = TRUE, !.recvq = <<>>]]
        /\ selectDone' = selectDone \union {s.g : s \in {x \in all : x.isSelect}}
        /\ param' = [r \in G |->
               IF r \notin gs THEN param[r]
               ELSE [case |-> {IF \E s \in recvs : s.g = r THEN Recv(c) ELSE Send(c)},
                     ok |-> FALSE]]
        /\ readies' = [readies EXCEPT ![g] = gs]
        /\ pc' = [pc EXCEPT ![g] = IF gs = {} THEN "idle" ELSE "goready"]
        /\ UNCHANGED <<cases, item, log>>

(* closechan: everybody is dequeued, the receivers first.  A second close  *)
(* panics.                                                                 *)
Close(g, c) ==
    LET recvs == WaitersIn(ch[c].recvq)
        all == recvs \union WaitersIn(ch[c].sendq)
        gs == {s.g : s \in all}
    IN  /\ pc[g] = "idle" /\ ~ch[c].closed
        /\ ch' = [ch EXCEPT ![c] = [ch[c] EXCEPT !.closed = TRUE,
                                               !.recvq = <<>>, !.sendq = <<>>]]
        /\ selectDone' = selectDone \union {s.g : s \in {x \in all : x.isSelect}}
        /\ param' = [r \in G |->
               IF r \notin gs THEN param[r]
               ELSE [case |-> {IF \E s \in recvs : s.g = r THEN Recv(c) ELSE Send(c)},
                     ok |-> FALSE]]
        /\ readies' = [readies EXCEPT ![g] = gs]
        /\ pc' = [pc EXCEPT ![g] = IF gs = {} THEN "idle" ELSE "goready"]
        /\ UNCHANGED <<cases, item, log>>

-----------------------------------------------------------------------------
(* Non-blocking operations look before they lock.  That changes nothing    *)
(* for the others.                                                         *)

Looks == {"closed?", "full?", "empty?", "open?", "still empty?", "lock"}
Looking(g) == pc[g] \in Looks

empty(c) == IF dataqsiz[c] = 0 THEN ch[c].sendq = <<>> ELSE ch[c].qcount = 0
full(c) == IF dataqsiz[c] = 0 THEN ch[c].recvq = <<>> ELSE ch[c].qcount = dataqsiz[c]
ChanOf(g) == (CHOOSE k \in cases[g] : TRUE).chan

NonBlock(g, k) ==
    /\ pc[g] = "idle" /\ Cardinality({r \in G : Looking(r)}) < MaxLooking
    /\ cases' = [cases EXCEPT ![g] = {k}]
    /\ pc' = [pc EXCEPT ![g] = IF k.dir = "send" THEN "closed?" ELSE "empty?"]
    /\ UNCHANGED <<ch, item, wake, log>>

FastSend(g) ==
    /\ \/ pc[g] = "closed?" /\ GoOn(g, IF ch[ChanOf(g)].closed THEN "lock" ELSE "full?")
       \/ pc[g] = "full?" /\ full(ChanOf(g)) /\ Leave(g)
       \/ pc[g] = "full?" /\ ~full(ChanOf(g)) /\ GoOn(g, "lock")
    /\ UNCHANGED <<ch, wake, log>>

(* Mutant: the channel is open; then it is empty. *)
FastRecvSwapped(g) ==
    /\ \/ pc[g] = "empty?" /\ GoOn(g, IF ch[ChanOf(g)].closed THEN "still empty?" ELSE "open?")
       \/ pc[g] = "open?" /\ empty(ChanOf(g)) /\ Leave(g)
       \/ pc[g] = "open?" /\ ~empty(ChanOf(g)) /\ GoOn(g, "lock")
       \/ pc[g] = "still empty?" /\ empty(ChanOf(g)) /\ Leave(g)
       \/ pc[g] = "still empty?" /\ ~empty(ChanOf(g)) /\ GoOn(g, "lock")
    /\ UNCHANGED <<ch, wake, log>>

(* Empty, then open: nothing to receive.  Empty, then closed, then still   *)
(* empty: the end of the channel.                                          *)
FastRecv(g) ==
    /\ \/ pc[g] = "empty?" /\ GoOn(g, IF empty(ChanOf(g)) THEN "open?" ELSE "lock")
       \/ pc[g] = "open?" /\ ~ch[ChanOf(g)].closed /\ Leave(g)
       \/ pc[g] = "open?" /\ ch[ChanOf(g)].closed /\ GoOn(g, "still empty?")
       \/ pc[g] = "still empty?" /\ empty(ChanOf(g)) /\ Leave(g)
       \/ pc[g] = "still empty?" /\ ~empty(ChanOf(g)) /\ GoOn(g, "lock")
    /\ UNCHANGED <<ch, wake, log>>

NonBlockLocked(g) ==
    /\ pc[g] = "lock"
    /\ \E k \in cases[g] :
         \/ Ready(k) /\ Do(g, k, ch)
         \/ ~Ready(k) /\ ch' = Purged({k}) /\ Leave(g) /\ UNCHANGED <<wake, log>>

-----------------------------------------------------------------------------
(* Nothing can be received from c, and more may come. *)
Nothing(c) == ~ch[c].closed /\ ~Ready(Recv(c))

Witnessed ==
    witness' = {g \in G : /\ pc'[g] \in {"empty?", "open?"}
                          /\ \/ g \in witness
                             \/ \E c \in Chan : Recv(c) \in cases'[g] /\ Nothing(c)'}

ChanNext ==
    /\ \E g \in G :
         \/ \E k \in Case : Block(g, k) \/ NonBlock(g, k)
         \/ \E ks \in kSubset(2, Case), block \in BOOLEAN : Select(g, ks, block)
         \/ \E c \in Chan : Close(g, c)
         \/ Pass3(g) \/ goready(g)
         \/ FastSend(g) \/ FastRecv(g) \/ NonBlockLocked(g)
    /\ Witnessed

ChanSpec == ChanInit /\ [][ChanNext]_chanVars

-----------------------------------------------------------------------------
Hchan(c) == [closed : BOOLEAN, qcount : 0..dataqsiz[c],
             sendx : 0..dataqsiz[c], recvx : 0..dataqsiz[c],
             buf : [0..dataqsiz[c] - 1 -> 0..MaxItems], sendq : Seq(Sudog), recvq : Seq(Sudog)]

ChanTypeOK ==
    /\ DOMAIN ch = Chan /\ \A c \in Chan : ch[c] \in Hchan(c)
    /\ selectDone \subseteq G
    /\ pc \in [G -> {"idle", "parked", "woken", "goready"} \union Looks]
    /\ cases \in [G -> SUBSET Case] /\ item \in [G -> 0..MaxItems]
    /\ param \in [G -> [case : SUBSET Case, ok : BOOLEAN]]
    /\ readies \in [G -> SUBSET G] /\ items \in 0..MaxItems
    /\ rcvd \in [Chan -> Seq(1..MaxItems)]
    /\ acked \subseteq 1..MaxItems /\ failed \subseteq 1..MaxItems

Buffer(c) == [i \in 1..ch[c].qcount |-> ch[c].buf[(ch[c].recvx + i - 1) % dataqsiz[c]]]
Out(c) == rcvd[c] \o Buffer(c)
Through(c) == ToSet(Out(c))
StrictlyIncreasing(s) == \A i, j \in DOMAIN s : i < j => s[i] < s[j]

(* Those that wait to send are in order, after all that got through. *)
Pending(c) ==
    LET q == ch[c].sendq
    IN  \A i \in DOMAIN q : Live(q[i]) =>
            /\ \A x \in Through(c) : x < q[i].item
            /\ \A j \in DOMAIN q : i < j /\ Live(q[j]) => q[i].item < q[j].item

(* The items come out of a channel in the order in which they got to it,   *)
(* buffered, handed over or offered in a select; each comes out once, of   *)
(* one channel, if and only if its sender is told so.                      *)
Delivered ==
    /\ ChanTypeOK
    /\ \A c \in Chan : StrictlyIncreasing(Out(c)) /\ Pending(c)
    /\ \A c, d \in Chan : c # d => Through(c) \intersect Through(d) = {}
    /\ acked \subseteq UNION {Through(c) : c \in Chan}
    /\ failed \intersect UNION {Through(c) : c \in Chan} = {}

(* Nobody sleeps who could go on: a goroutine is in the queues of its      *)
(* channels and none of its cases is ready, not counting what it offers    *)
(* itself, or it is about to be woken, by one goroutine.                   *)
Parked ==
    \A g \in G : pc[g] = "parked" =>
        LET wakers == {r \in G : g \in readies[r]}
            InQueue(q) == \E s \in WaitersIn(q) : s.g = g
            Alone(q) == \A s \in WaitersIn(q) : s.g = g
        IN  \/ /\ wakers = {} /\ g \notin selectDone
               /\ \A k \in cases[g] : LET c == ch[k.chan] IN
                    /\ ~c.closed
                    /\ k.dir = "send" => InQueue(c.sendq) /\ Alone(c.recvq)
                                         /\ c.qcount = dataqsiz[k.chan]
                    /\ k.dir = "recv" => InQueue(c.recvq) /\ Alone(c.sendq) /\ c.qcount = 0
            \/ /\ Cardinality(wakers) = 1
               /\ param[g].case # {} /\ param[g].case \subseteq cases[g]

(* A receive that does not wait says that nothing is there only if there   *)
(* was a moment during the call when the channel was open and had nothing, *)
(* and says that the channel is at its end only if it is.                  *)
NonBlockingHonest ==
    [][\A g \in G : pc'[g] = "idle" =>
          /\ pc[g] = "open?" => g \in witness
          /\ pc[g] = "still empty?" => ch[ChanOf(g)].closed /\ Buffer(ChanOf(g)) = <<>>]_chanVars
=============================================================================
