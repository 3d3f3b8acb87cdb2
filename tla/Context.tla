------------------------------ MODULE Context ------------------------------
(***************************************************************************)
(* The tree of contexts of context/context.go that can be cancelled:       *)
(* WithCancel, WithDeadline, their CancelFuncs, the timers and the         *)
(* goroutines they start.  A call is a stack of frames, because cancel     *)
(* calls cancel on the children while it holds its own mutex.  A section   *)
(* under a mutex that calls nothing is one step; so is the start of a      *)
(* cancel, whose only effect seen without the mutex is the closing of done.*)
(*                                                                         *)
(* WithValue adds a context that passes everything on to its parent: it is *)
(* left out.  Time is a choice: a deadline may have passed, a timer may    *)
(* fire.  Foreign is a context of another package, with a Done channel of  *)
(* its own that is closed whenever that package likes.                     *)
(***************************************************************************)
EXTENDS SequencesExt, Integers

CONSTANTS
    User,                   \* the goroutines that call the package
    Ctx,                    \* bound: the contexts that are ever made
    timed,                  \* those that WithDeadline makes: timerCtxs
    Background, Foreign,    \* the contexts to start from
    Nil

Canceled == "context canceled"
DeadlineExceeded == "context deadline exceeded"

(* Goroutines: users, the functions of timers, the watchers of propagateCancel. *)
Timer(c) == <<"timer", c>>
Watcher(c) == <<"watcher", c>>
Goroutine == User \union {Timer(c) : c \in Ctx} \union {Watcher(c) : c \in Ctx}

ASSUME ContextConstants ==
    /\ Background # Foreign /\ timed \subseteq Ctx
    /\ Ctx \intersect {Background, Foreign, Nil} = {}
    /\ Nil \notin {Background, Foreign} \union Goroutine
    /\ Nil \notin {Canceled, DeadlineExceeded}
    /\ \A c \in Ctx : Timer(c) \notin User /\ Watcher(c) \notin User

VARIABLES
    parent,         \* of each context, Nil until it is made
    known,          \* the contexts that With... has returned
    mu,             \* the goroutine that holds each mutex
    done,           \* nil, open, closed; or closedchan, the channel all share
    children, err,
    timer,          \* the timer of each timerCtx: none, set, or fired
    removes,        \* the contexts whose CancelFunc removes them from the parent
    stack           \* of each goroutine, innermost call first

contextVars == <<parent, known, mu, done, children, err, timer, removes, stack>>
tree == <<parent, known, removes>>

ContextInit ==
    /\ parent = [c \in Ctx |-> Nil] /\ known = {} /\ removes = {}
    /\ mu = [c \in Ctx |-> Nil]
    /\ done = [c \in Ctx \union {Foreign} |-> IF c = Foreign THEN "open" ELSE "nil"]
    /\ children = [c \in Ctx |-> {}]
    /\ err = [c \in Ctx |-> Nil]
    /\ timer = [c \in Ctx |-> "none"]
    /\ stack = [g \in Goroutine |-> <<>>]

Free(c) == mu[c] = Nil
Closed(c) == done[c] \in {"closed", "closedchan"}

Top(g) == Head(stack[g])
Doing(g, here) == stack[g] # <<>> /\ Top(g).at = here
Frame(here, c) == [at |-> here, c |-> c, remove |-> FALSE, err |-> Nil, todo |-> {}]
Cancel(c, remove, e) == [Frame("cancel", c) EXCEPT !.remove = remove, !.err = e]

(* The innermost call goes on at there; it calls f, and then goes on there. *)
GoOn(g, there) == stack' = [stack EXCEPT ![g] = <<[@[1] EXCEPT !.at = there]>> \o Tail(@)]
Enter(g, f, there) ==
    stack' = [stack EXCEPT ![g] = <<f, [@[1] EXCEPT !.at = there]>> \o Tail(@)]
Leave(g) == stack' = [stack EXCEPT ![g] = Tail(@)]

-----------------------------------------------------------------------------
(* WithCancel, and WithDeadline, which is WithCancel if the parent's       *)
(* deadline comes first.  Trees have nothing to do with each other: the    *)
(* model has one.                                                          *)
With(u, c, p) ==
    /\ stack[u] = <<>>
    /\ parent[c] = Nil
    /\ IF \A b \in Ctx : parent[b] = Nil THEN p \in {Background, Foreign} ELSE p \in known
    /\ parent' = [parent EXCEPT ![c] = p]
    /\ removes' = removes \union {c}
    /\ stack' = [stack EXCEPT ![u] = <<Frame("propagate", c)>>]
    /\ UNCHANGED <<known, mu, done, children, err, timer>>

(* Done, which makes the channel when somebody first asks for it. *)
MakeDone(c) ==
    \/ done[c] # "nil" /\ UNCHANGED done
    \/ done[c] = "nil" /\ Free(c) /\ done' = [done EXCEPT ![c] = "open"]

(* The beginning of propagateCancel: parent.Done(). *)
ParentDone(g) ==
    LET p == parent[Top(g).c]
    IN  /\ Doing(g, "propagate")
        /\ \/ p = Background /\ GoOn(g, "timer") /\ UNCHANGED done
           \/ p # Background /\ MakeDone(p) /\ GoOn(g, "select")
        /\ UNCHANGED <<tree, mu, children, err, timer>>

Select(g) ==
    LET c == Top(g).c
        p == parent[c]
    IN  /\ Doing(g, "select")
        /\ \/ Closed(p) /\ GoOn(g, "err")
           \/ ~Closed(p) /\ p \in Ctx /\ GoOn(g, "attach")
           \/ /\ ~Closed(p) /\ p = Foreign
              /\ stack' = [stack EXCEPT ![g] = <<Frame("timer", c)>>,
                                        ![Watcher(c)] = <<Frame("watch", c)>>]
        /\ UNCHANGED <<tree, mu, done, children, err, timer>>

(* The parent is already cancelled: child.cancel(false, parent.Err()). *)
ParentErr(g) ==
    LET c == Top(g).c
        p == parent[c]
    IN  /\ Doing(g, "err")
        /\ \/ p = Foreign /\ Enter(g, Cancel(c, FALSE, Canceled), "timer")
           \/ p \in Ctx /\ Free(p) /\ Enter(g, Cancel(c, FALSE, err[p]), "timer")
        /\ UNCHANGED <<tree, mu, done, children, err, timer>>

(* Mutant: the parent was not cancelled when its done was looked at. *)
AttachBlind(g) ==
    LET c == Top(g).c
        p == parent[c]
    IN  /\ Doing(g, "attach") /\ Free(p)
        /\ children' = [children EXCEPT ![p] = @ \union {c}]
        /\ GoOn(g, "timer") /\ UNCHANGED mu
        /\ UNCHANGED <<tree, done, err, timer>>

(* Under the parent's mutex the child joins it, or is cancelled. *)
Attach(g) ==
    LET c == Top(g).c
        p == parent[c]
    IN  /\ Doing(g, "attach") /\ Free(p)
        /\ IF err[p] = Nil
           THEN /\ children' = [children EXCEPT ![p] = @ \union {c}]
                /\ GoOn(g, "timer") /\ UNCHANGED mu
           ELSE /\ mu' = [mu EXCEPT ![p] = g]
                /\ Enter(g, Cancel(c, FALSE, err[p]), "attached") /\ UNCHANGED children
        /\ UNCHANGED <<tree, done, err, timer>>

Attached(g) ==
    /\ Doing(g, "attached")
    /\ mu' = [mu EXCEPT ![parent[Top(g).c]] = Nil]
    /\ GoOn(g, "timer")
    /\ UNCHANGED <<tree, done, children, err, timer>>

(* Mutant: the timer is set whether the context is cancelled or not. *)
SetTimerBlind(g) ==
    LET c == Top(g).c
    IN  /\ Doing(g, "timer") /\ Free(c)
        /\ timer' = IF c \in timed THEN [timer EXCEPT ![c] = "set"] ELSE timer
        /\ known' = known \union {c}
        /\ Leave(g)
        /\ UNCHANGED <<parent, removes, mu, done, children, err>>

(* The end of WithCancel and, if the deadline has not passed, of WithDeadline. *)
SetTimer(g) ==
    LET c == Top(g).c
    IN  /\ Doing(g, "timer")
        /\ c \in timed => Free(c)
        /\ timer' = IF c \in timed /\ err[c] = Nil THEN [timer EXCEPT ![c] = "set"] ELSE timer
        /\ known' = known \union {c}
        /\ Leave(g)
        /\ UNCHANGED <<parent, removes, mu, done, children, err>>

(* The deadline has passed already: no timer is needed.  The CancelFunc    *)
(* will not remove the context once more.                                  *)
TooLate(g) ==
    LET c == Top(g).c
    IN  /\ Doing(g, "timer") /\ c \in timed
        /\ removes' = removes \ {c}
        /\ Enter(g, Cancel(c, TRUE, DeadlineExceeded), "late")
        /\ UNCHANGED <<parent, known, mu, done, children, err, timer>>

WithReturns(g) ==
    /\ Doing(g, "late")
    /\ known' = known \union {Top(g).c}
    /\ Leave(g)
    /\ UNCHANGED <<parent, removes, mu, done, children, err, timer>>

-----------------------------------------------------------------------------
(* cancel *)

CancelFunc(u, c) ==
    /\ stack[u] = <<>> /\ c \in known
    /\ stack' = [stack EXCEPT ![u] = <<Cancel(c, c \in removes, Canceled)>>]
    /\ UNCHANGED <<tree, mu, done, children, err, timer>>

(* What is left of a cancel after the context itself: a cancelCtx leaves   *)
(* its parent only if this call cancelled it, a timerCtx in any case, and  *)
(* then stops its timer.                                                   *)
Rest(g, cancelled) ==
    LET f == Top(g)
    IN  \/ f.remove /\ (cancelled \/ f.c \in timed) /\ GoOn(g, "remove")
        \/ ~f.remove /\ f.c \in timed /\ GoOn(g, "stop")
        \/ f.c \notin timed /\ ~(f.remove /\ cancelled) /\ Leave(g)

LockCancel(g) ==
    LET f == Top(g)
    IN  /\ Doing(g, "cancel") /\ Free(f.c)
        /\ \/ err[f.c] # Nil /\ Rest(g, FALSE) /\ UNCHANGED <<mu, done, err>>
           \/ /\ err[f.c] = Nil
              /\ mu' = [mu EXCEPT ![f.c] = g]
              /\ err' = [err EXCEPT ![f.c] = f.err]
              /\ done' = [done EXCEPT ![f.c] = IF @ = "nil" THEN "closedchan" ELSE "closed"]
              /\ stack' = [stack EXCEPT ![g] = <<[@[1] EXCEPT !.at = "children",
                                                           !.todo = children[f.c]]>> \o Tail(@)]
        /\ UNCHANGED <<tree, children, timer>>

(* The children are cancelled under the parent's mutex, in any order. *)
CancelChild(g) ==
    /\ Doing(g, "children")
    /\ \E child \in Top(g).todo :
           stack' = [stack EXCEPT ![g] = <<Cancel(child, FALSE, Top(g).err),
                                           [@[1] EXCEPT !.todo = Top(g).todo \ {child}]>> \o Tail(@)]
    /\ UNCHANGED <<tree, mu, done, children, err, timer>>

(* Mutant: the context is taken out of its parent before it is unlocked. *)
UnlockCancelLate(g) ==
    LET f == Top(g)
        p == parent[f.c]
    IN  /\ Doing(g, "children") /\ f.todo = {}
        /\ f.remove /\ p \in Ctx => Free(p)
        /\ children' = [c \in Ctx |-> IF c = f.c THEN {}
                                      ELSE IF f.remove /\ c = p THEN children[c] \ {f.c}
                                      ELSE children[c]]
        /\ mu' = [mu EXCEPT ![f.c] = Nil]
        /\ Rest(g, TRUE)
        /\ UNCHANGED <<tree, done, err, timer>>

UnlockCancel(g) ==
    LET f == Top(g)
    IN  /\ Doing(g, "children") /\ f.todo = {}
        /\ children' = [children EXCEPT ![f.c] = {}]
        /\ mu' = [mu EXCEPT ![f.c] = Nil]
        /\ Rest(g, TRUE)
        /\ UNCHANGED <<tree, done, err, timer>>

(* parentCancelCtx finds the parent unless that is not of this package, or *)
(* was cancelled before anybody asked for its done.                        *)
HasCancelCtx(p) == p \in Ctx /\ done[p] # "closedchan"

RemoveChild(g) ==
    LET c == Top(g).c
        p == parent[c]
    IN  /\ Doing(g, "remove")
        /\ IF HasCancelCtx(p)
           THEN Free(p) /\ children' = [children EXCEPT ![p] = @ \ {c}]
           ELSE UNCHANGED children
        /\ IF c \in timed THEN GoOn(g, "stop") ELSE Leave(g)
        /\ UNCHANGED <<tree, mu, done, err, timer>>

StopTimer(g) ==
    LET c == Top(g).c
    IN  /\ Doing(g, "stop") /\ Free(c)
        /\ timer' = [timer EXCEPT ![c] = "none"]
        /\ Leave(g)
        /\ UNCHANGED <<tree, mu, done, children, err>>

-----------------------------------------------------------------------------
(* The goroutines that are started, and the world outside. *)

Fire(c) ==
    /\ timer[c] = "set"
    /\ timer' = [timer EXCEPT ![c] = "fired"]
    /\ stack' = [stack EXCEPT ![Timer(c)] = <<Cancel(c, TRUE, DeadlineExceeded)>>]
    /\ UNCHANGED <<tree, mu, done, children, err>>

(* The watcher of a child of Foreign: child.Done(), then the select. *)
Watch(g) ==
    LET c == Top(g).c
    IN  /\ \/ Doing(g, "watch") /\ MakeDone(c) /\ GoOn(g, "watching")
           \/ /\ Doing(g, "watching") /\ UNCHANGED done
              /\ \/ /\ Closed(parent[c])
                    /\ stack' = [stack EXCEPT ![g] = <<Cancel(c, FALSE, Canceled)>>]
                 \/ Closed(c) /\ Leave(g)
        /\ UNCHANGED <<tree, mu, children, err, timer>>

CloseForeign ==
    /\ ~Closed(Foreign)
    /\ done' = [done EXCEPT ![Foreign] = "closed"]
    /\ UNCHANGED <<tree, mu, children, err, timer, stack>>

Done(c) ==
    /\ c \in known
    /\ done[c] = "nil" /\ MakeDone(c)
    /\ UNCHANGED <<tree, mu, children, err, timer, stack>>

-----------------------------------------------------------------------------
ContextStep(g) ==
    \/ ParentDone(g) \/ Select(g) \/ ParentErr(g) \/ Attach(g) \/ Attached(g)
    \/ SetTimer(g) \/ TooLate(g) \/ WithReturns(g)
    \/ LockCancel(g) \/ CancelChild(g) \/ UnlockCancel(g)
    \/ RemoveChild(g) \/ StopTimer(g) \/ Watch(g)

ContextNext ==
    \/ \E u \in User, c \in Ctx :
          \/ CancelFunc(u, c)
          \/ \E p \in Ctx \union {Background, Foreign} : With(u, c, p)
    \/ \E c \in Ctx : Fire(c) \/ Done(c)
    \/ CloseForeign
    \/ \E g \in Goroutine : ContextStep(g)

ContextSpec == ContextInit /\ [][ContextNext]_contextVars

-----------------------------------------------------------------------------
ContextTypeOK ==
    /\ parent \in [Ctx -> Ctx \union {Background, Foreign, Nil}]
    /\ known \subseteq {c \in Ctx : parent[c] # Nil}
    /\ mu \in [Ctx -> Goroutine \union {Nil}]
    /\ done \in [Ctx \union {Foreign} -> {"nil", "open", "closed", "closedchan"}]
    /\ children \in [Ctx -> SUBSET Ctx]
    /\ err \in [Ctx -> {Nil, Canceled, DeadlineExceeded}]
    /\ timer \in [Ctx -> {"none", "set", "fired"}]

(* When the mutex of a cancelled context is free, every context that was   *)
(* derived from it is cancelled, however late it came.                     *)
Cancelled ==
    /\ ContextTypeOK
    /\ \A c \in known :
          parent[c] \in Ctx /\ err[parent[c]] # Nil /\ Free(parent[c]) => err[c] # Nil

Busy(c) == \E g \in Goroutine : \E i \in 1..Len(stack[g]) : stack[g][i].c = c

(* A cancelled context that nobody is working on is not kept: not by a     *)
(* timer and not by its parent.  One that is not cancelled is in the hands *)
(* of somebody who would cancel it.                                        *)
Released ==
    \A c \in known : LET p == parent[c] IN
        /\ err[c] # Nil /\ ~Busy(c) => timer[c] # "set" /\ (p \in Ctx /\ Free(p) => c \notin children[p])
        /\ err[c] = Nil =>
               /\ p \in Ctx /\ err[p] = Nil => c \in children[p]
               /\ p = Foreign => stack[Watcher(c)] # <<>>
               /\ c \in timed => timer[c] = "set" \/ Busy(c)

(* The watcher waits for one of the two channels. *)
Waiting(g) == Doing(g, "watching") /\ ~Closed(Top(g).c) /\ ~Closed(parent[Top(g).c])

(* Goroutines never wait for each other's mutexes, from parent to child    *)
(* and from child to parent: while a call is under way, some call goes on. *)
Unstuck ==
    (\E g \in Goroutine : stack[g] # <<>> /\ ~Waiting(g)) =>
        \E g \in Goroutine : ENABLED ContextStep(g)
=============================================================================
