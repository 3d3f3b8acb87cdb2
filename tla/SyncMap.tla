------------------------------ MODULE SyncMap ------------------------------
(***************************************************************************)
(* sync.Map (sync/map.go): a read-only map that is used without a lock, a  *)
(* dirty map under mu, and entries shared by the two.                      *)
(*                                                                         *)
(* One step is an atomic operation on m.read or on an entry (StoreDirty    *)
(* says where it is both).  The loops that retry a compare-and-swap are    *)
(* the test-and-set they amount to.  What only the holder of mu can see is *)
(* done in one step with the atomic operation next to it, and so are the   *)
(* lock and the unlock.  A map that has been stored in m.read never        *)
(* changes, so it is copied by value.                                      *)
(*                                                                         *)
(* Entries are numbered; 0 is a missing one.  A new entry takes the first  *)
(* number that is referenced from nowhere.                                 *)
(***************************************************************************)
EXTENDS MapSpec

CONSTANTS
    Key,
    expunged, nil,      \* the two special values of an entry's pointer
    MaxEntries          \* bound: enough entries for the maps and the calls

Entry == 1..MaxEntries
Map == [Key -> 0..MaxEntries]
Empty == [k \in Key |-> 0]

(* The calls of one key; a Range is a Load of every key. *)
Calls == [name : {"Load", "Store", "LoadOrStore", "LoadAndDelete"}, k : Key,
          v : Value \union {None}]

ASSUME SyncMapConstants ==
    /\ IsFiniteSet(Key) /\ {expunged, nil} \intersect Value = {} /\ expunged # nil
    /\ nil \notin Proc /\ nil \notin Map /\ None \notin Calls
    /\ MaxEntries \in Nat

VARIABLES
    read,       \* m.read: the map m and the flag amended
    dirty,      \* m.dirty; nil for no map
    misses,
    mu,         \* who holds mu, or nil
    p_,         \* p_[e]: the pointer of entry e
    pc,         \* where each goroutine is
    call,       \* its call
    e_,         \* its local e
    rest,       \* the keys that dirtyLocked or Range still has to visit
    m_,         \* Range: the map it walks through
    hist        \* history: the monitor of every key

vars == <<read, dirty, misses, mu, p_, pc, call, e_, rest, m_, hist>>
maps == <<read, dirty, misses>>

Init ==
    /\ read = [m |-> Empty, amended |-> FALSE]
    /\ dirty = nil
    /\ misses = 0
    /\ mu = nil
    /\ p_ = [e \in Entry |-> nil]
    /\ pc = [p \in Proc |-> "idle"]
    /\ call = [p \in Proc |-> None]
    /\ e_ = [p \in Proc |-> 0]
    /\ rest = [p \in Proc |-> {}]
    /\ m_ = [p \in Proc |-> Empty]
    /\ hist = [k \in Key |-> NoCalls]

At(p, here) == pc[p] = here
Goto(p, there) == pc' = [pc EXCEPT ![p] = there]

(* The answers of the operations. *)
Found(v) == [v |-> v, ok |-> TRUE]
NotFound == [v |-> None, ok |-> FALSE]
Stored(v) == [v |-> v, ok |-> FALSE]

Return(p, a) ==
    /\ Goto(p, "idle")
    /\ call' = [call EXCEPT ![p] = None]
    /\ e_' = [e_ EXCEPT ![p] = 0]
    /\ hist' = [hist EXCEPT ![call[p].k] = Answered(@, p, a)]
    /\ UNCHANGED <<rest, m_>>

(* The call goes on at another place, with entry e. *)
Continue(p, there, e) ==
    /\ Goto(p, there)
    /\ e_' = [e_ EXCEPT ![p] = e]
    /\ UNCHANGED <<call, rest, m_, hist>>

-----------------------------------------------------------------------------
(* The calls start with a lookup in the read map. *)
Lookup(p, c) ==
    LET e == read.m[c.k]
        gone == e = 0 /\ ~read.amended /\ c.name \in {"Load", "LoadAndDelete"}
        h == Called(hist[c.k], p, c)
    IN  /\ At(p, "idle")
        /\ Goto(p, IF gone THEN "idle" ELSE IF e # 0 THEN "entry" ELSE "lock")
        /\ call' = [call EXCEPT ![p] = IF gone THEN None ELSE c]
        /\ e_' = [e_ EXCEPT ![p] = e]
        /\ hist' = [hist EXCEPT ![c.k] = IF gone THEN Answered(h, p, NotFound) ELSE h]
        /\ UNCHANGED <<maps, mu, p_, rest, m_>>

Load(p, k) == Lookup(p, Call("Load", k, None))
Store(p, k, v) == Lookup(p, Call("Store", k, v))
LoadOrStore(p, k, v) == Lookup(p, Call("LoadOrStore", k, v))
LoadAndDelete(p, k) == Lookup(p, Call("LoadAndDelete", k, None))

-----------------------------------------------------------------------------
(* The operations of an entry *)

Cur(p) == p_[e_[p]]
Value_(x) == IF x \in {nil, expunged} THEN NotFound ELSE Found(x)
In(p, name) == call[p] # None /\ call[p].name = name
Swap(p, x) == p_' = [p_ EXCEPT ![e_[p]] = x]

load(p) ==
    /\ At(p, "entry") /\ In(p, "Load")
    /\ Return(p, Value_(Cur(p)))
    /\ UNCHANGED <<maps, mu, p_>>

delete(p) ==
    /\ At(p, "entry") /\ In(p, "LoadAndDelete")
    /\ Swap(p, IF Value_(Cur(p)).ok THEN nil ELSE Cur(p))
    /\ Return(p, Value_(Cur(p)))
    /\ UNCHANGED <<maps, mu>>

(* Mutant: a value is stored in an entry that has been expunged. *)
tryStoreBlind(p) ==
    /\ At(p, "entry") /\ In(p, "Store")
    /\ Swap(p, call[p].v) /\ Return(p, Found(call[p].v))
    /\ UNCHANGED <<maps, mu>>

tryStore(p) ==
    /\ At(p, "entry") /\ In(p, "Store")
    /\ IF Cur(p) = expunged
       THEN Continue(p, "lock", 0) /\ UNCHANGED p_
       ELSE Swap(p, call[p].v) /\ Return(p, Found(call[p].v))
    /\ UNCHANGED <<maps, mu>>

(* The value LoadOrStore finds or leaves in an entry that is not expunged. *)
LoadedOrStored(p, cur) == IF cur = nil THEN Stored(call[p].v) ELSE Found(cur)

(* On the fast path, or under mu for an entry of the read map. *)
tryLoadOrStore(p) ==
    /\ pc[p] \in {"entry", "hit"} /\ In(p, "LoadOrStore")
    /\ IF Cur(p) = expunged
       THEN Continue(p, "lock", 0) /\ UNCHANGED p_
       ELSE LET a == LoadedOrStored(p, Cur(p)) IN Swap(p, a.v) /\ Return(p, a)
    /\ mu' = IF mu = p THEN nil ELSE mu
    /\ UNCHANGED maps

-----------------------------------------------------------------------------
(* The slow paths, under mu *)

Size(m) == Cardinality({k \in Key : m[k] # 0})

Promote(m) ==
    /\ read' = [m |-> m, amended |-> FALSE]
    /\ dirty' = nil
    /\ misses' = 0

missLocked(m) ==
    IF misses + 1 < Size(m)
    THEN misses' = misses + 1 /\ dirty' = m /\ UNCHANGED read
    ELSE Promote(m)

(* Load and LoadAndDelete look again.  The entry is used after the unlock. *)
LookupLocked(p) ==
    LET k == call[p].k
        miss == read.m[k] = 0 /\ read.amended
        e == IF miss THEN dirty[k] ELSE read.m[k]
    IN  /\ At(p, "lock") /\ mu = nil
        /\ In(p, "Load") \/ In(p, "LoadAndDelete")
        /\ IF miss
           THEN missLocked(IF In(p, "Load") THEN dirty ELSE [dirty EXCEPT ![k] = 0])
           ELSE UNCHANGED maps
        /\ IF e = 0 THEN Return(p, NotFound) ELSE Continue(p, "entry", e)
        /\ UNCHANGED <<mu, p_>>

Storing(p) ==
    /\ At(p, "lock") /\ mu = nil
    /\ In(p, "Store") \/ In(p, "LoadOrStore")

(* Mutant: an entry that is no longer expunged does not get into dirty. *)
unexpungeForget(p) ==
    LET e == read.m[call[p].k]
    IN  /\ Storing(p) /\ e # 0
        /\ p_' = [p_ EXCEPT ![e] = IF @ = expunged THEN nil ELSE @]
        /\ mu' = p
        /\ Continue(p, "hit", e)
        /\ UNCHANGED maps

(* The key is in the read map. *)
unexpungeLocked(p) ==
    LET k == call[p].k
        e == read.m[k]
    IN  /\ Storing(p) /\ e # 0
        /\ p_' = [p_ EXCEPT ![e] = IF @ = expunged THEN nil ELSE @]
        /\ dirty' = IF p_[e] = expunged THEN [dirty EXCEPT ![k] = e] ELSE dirty
        /\ mu' = p
        /\ Continue(p, "hit", e)
        /\ UNCHANGED <<read, misses>>

storeLocked(p) ==
    /\ At(p, "hit") /\ In(p, "Store")
    /\ Swap(p, call[p].v)
    /\ mu' = nil
    /\ Return(p, Found(call[p].v))
    /\ UNCHANGED maps

Has(m, k) == m # nil /\ m[k] # 0

(* The key is in the dirty map only.  For LoadOrStore the operation on the *)
(* entry and the promotion by missLocked are one step: such an entry has a *)
(* value, which changes only under mu, so that LoadOrStore just reads it.  *)
StoreDirty(p) ==
    LET k == call[p].k
        a == IF In(p, "Store") THEN Found(call[p].v) ELSE LoadedOrStored(p, p_[dirty[k]])
    IN  /\ Storing(p) /\ read.m[k] = 0 /\ Has(dirty, k)
        /\ p_' = [p_ EXCEPT ![dirty[k]] = a.v]
        /\ IF In(p, "Store") THEN UNCHANGED maps ELSE missLocked(dirty)
        /\ Return(p, a)
        /\ UNCHANGED mu

Live ==
    Range(read.m) \union Range(e_) \union (UNION {Range(m_[q]) : q \in Proc})
    \union (IF dirty = nil THEN {} ELSE Range(dirty))

(* m.dirty[key] = newEntry(value), and the unlock *)
AddEntry(p, m) ==
    LET new == Min(Entry \ Live)
    IN  /\ Entry \ Live # {}
        /\ p_' = [p_ EXCEPT ![new] = call[p].v]
        /\ dirty' = [m EXCEPT ![call[p].k] = new]
        /\ read' = [read EXCEPT !.amended = TRUE]
        /\ mu' = nil
        /\ Return(p, IF In(p, "Store") THEN Found(call[p].v) ELSE Stored(call[p].v))
        /\ UNCHANGED misses

(* The key is in neither map, and there is a dirty one. *)
StoreNew(p) ==
    /\ Storing(p) /\ read.m[call[p].k] = 0
    /\ dirty # nil /\ dirty[call[p].k] = 0
    /\ AddEntry(p, dirty)

(* dirtyLocked makes a new dirty map: an entry that holds nothing is       *)
(* expunged, every other one goes into it.                                 *)
dirtyLocked(p) ==
    /\ Storing(p) /\ read.m[call[p].k] = 0
    /\ dirty = nil
    /\ dirty' = Empty
    /\ rest' = [rest EXCEPT ![p] = {k \in Key : read.m[k] # 0}]
    /\ mu' = p
    /\ Goto(p, "dirty")
    /\ UNCHANGED <<read, misses, p_, call, e_, m_, hist>>

tryExpungeLocked(p, k) ==
    LET e == read.m[k]
        gone == p_[e] \in {nil, expunged}
    IN  /\ At(p, "dirty") /\ k \in rest[p]
        /\ p_' = [p_ EXCEPT ![e] = IF gone THEN expunged ELSE @]
        /\ dirty' = [dirty EXCEPT ![k] = IF gone THEN @ ELSE e]
        /\ rest' = [rest EXCEPT ![p] = @ \ {k}]
        /\ UNCHANGED <<read, misses, mu, pc, call, e_, m_, hist>>

StoreNewDirty(p) ==
    /\ At(p, "dirty") /\ rest[p] = {}
    /\ AddEntry(p, dirty)

-----------------------------------------------------------------------------
(* Range walks through a map that is complete when it starts. *)
Walk(p, m, h) ==
    LET keys == {k \in Key : m[k] # 0}
    IN  /\ m_' = [m_ EXCEPT ![p] = m]
        /\ rest' = [rest EXCEPT ![p] = keys]
        /\ Goto(p, IF keys = {} THEN "idle" ELSE "range")
        /\ hist' = [k \in Key |-> IF k \in keys THEN h[k] ELSE Answered(h[k], p, NotFound)]

Range_(p) ==
    LET h == [k \in Key |-> Called(hist[k], p, Call("Load", k, None))]
    IN  /\ At(p, "idle")
        /\ IF read.amended
           THEN Goto(p, "rangelock") /\ hist' = h /\ UNCHANGED <<rest, m_>>
           ELSE Walk(p, read.m, h)
        /\ UNCHANGED <<maps, mu, p_, call, e_>>

RangeLocked(p) ==
    /\ At(p, "rangelock") /\ mu = nil
    /\ IF read.amended
       THEN Promote(dirty) /\ Walk(p, dirty, hist)
       ELSE Walk(p, read.m, hist) /\ UNCHANGED maps
    /\ UNCHANGED <<mu, p_, call, e_>>

(* One round of the loop; f stops it or lets it go on. *)
Visit(p, k, go) ==
    LET left == IF go THEN rest[p] \ {k} ELSE {}
        h == [hist EXCEPT ![k] = Answered(@, p, Value_(p_[m_[p][k]]))]
    IN  /\ At(p, "range") /\ k \in rest[p]
        /\ ~go => Value_(p_[m_[p][k]]).ok
        /\ rest' = [rest EXCEPT ![p] = left]
        /\ m_' = [m_ EXCEPT ![p] = IF left = {} THEN Empty ELSE @]
        /\ Goto(p, IF left = {} THEN "idle" ELSE "range")
        /\ hist' = [i \in Key |-> IF i \in rest[p] \ (left \union {k}) THEN Withdrawn(h[i], p) ELSE h[i]]
        /\ UNCHANGED <<maps, mu, p_, call, e_>>

-----------------------------------------------------------------------------
Begin(p) ==
    \/ \E k \in Key : Load(p, k) \/ LoadAndDelete(p, k)
    \/ \E k \in Key, v \in Value : Store(p, k, v) \/ LoadOrStore(p, k, v)
    \/ Range_(p)

Step(p) ==
    \/ load(p) \/ delete(p) \/ tryStore(p) \/ tryLoadOrStore(p)
    \/ LookupLocked(p) \/ unexpungeLocked(p) \/ storeLocked(p)
    \/ StoreDirty(p) \/ StoreNew(p) \/ dirtyLocked(p) \/ StoreNewDirty(p)
    \/ \E k \in Key : tryExpungeLocked(p, k) \/ \E go \in BOOLEAN : Visit(p, k, go)
    \/ RangeLocked(p)

Next == \E p \in Proc : Begin(p) \/ Step(p)

Spec == Init /\ [][Next]_vars

-----------------------------------------------------------------------------
TypeOK ==
    /\ read \in [m : Map, amended : BOOLEAN]
    /\ dirty \in Map \union {nil}
    /\ misses \in 0..Cardinality(Key)
    /\ mu \in Proc \union {nil}
    /\ p_ \in [Entry -> Value \union {nil, expunged}]
    /\ pc \in [Proc -> {"idle", "entry", "lock", "hit", "dirty", "rangelock", "range"}]
    /\ e_ \in [Proc -> 0..MaxEntries]
    /\ rest \in [Proc -> SUBSET Key]
    /\ m_ \in [Proc -> Map]

(* Every answer that the map gives, on the fast paths as on the slow ones, *)
(* is the answer of a map whose operations take effect one at a time; of a *)
(* Range, for each key it reports.                                         *)
Linearizable == \A k \in Key : Explained(hist[k])

(* While nobody holds mu: an entry of the read map is in the dirty map     *)
(* too, if there is one, unless it is expunged, and only then; the dirty   *)
(* map is there when amended says so.                                      *)
DirtyComplete ==
    /\ TypeOK
    /\ mu = nil =>
           /\ read.amended <=> dirty # nil
           /\ \A k \in Key : read.m[k] # 0 =>
                  IF p_[read.m[k]] = expunged
                  THEN dirty # nil /\ dirty[k] = 0
                  ELSE dirty # nil => dirty[k] = read.m[k]
=============================================================================
