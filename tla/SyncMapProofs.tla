--------------------------- MODULE SyncMapProofs ---------------------------
(* Proofs about SyncMap, for any number of goroutines, keys and values.      *)
EXTENDS SyncMap, FiniteSetTheorems, WellFoundedInduction, TLAPS

(* A goroutine inside a call of one key has the call at hand; only those     *)
(* that store get to where the maps change.                                  *)
CallOf(p) ==
    pc[p] \in {"entry", "lock", "hit", "dirty"} =>
        /\ call[p] \in Calls
        /\ call[p].name \in {"Store", "LoadOrStore"} => call[p].v \in Value
        /\ pc[p] \in {"hit", "dirty"} => call[p].name \in {"Store", "LoadOrStore"}

CallOK == call = [p \in Proc |-> call[p]] /\ \A p \in Proc : CallOf(p)

(* mu is held from one step to the next at two places only. *)
Locked == {"hit", "dirty"}
MuOK == \A p \in Proc : mu = p <=> pc[p] \in Locked

(* The entry that is about to be stored to under mu is in the read map and   *)
(* not expunged; the key that makes a dirty map necessary is in no map.      *)
HitOf(p) ==
    /\ pc[p] = "hit" => /\ e_[p] # 0 /\ e_[p] = read.m[call[p].k]
                        /\ p_[e_[p]] # expunged
    /\ pc[p] = "dirty" => read.m[call[p].k] = 0

HitOK == \A p \in Proc : HitOf(p)

(* Who is in dirtyLocked, and the keys that are still to be copied there. *)
Builders == {p \in Proc : pc[p] = "dirty"}
Todo == {k \in Key : \E p \in Proc : pc[p] = "dirty" /\ k \in rest[p]}

(* The read map m, the flag amended, the dirty map D and the pointers P fit  *)
(* together; B is who builds D, and C the keys of m still to be copied:      *)
(*   - two keys have no entry in common, in whichever map;                   *)
(*   - an entry of m is in D unless it is expunged or to be copied;          *)
(*   - without a dirty map no entry is expunged, and no entry of D ever is.  *)
Fit(m, am, D, P, B, C) ==
    /\ IF B # {} THEN D # nil /\ ~am ELSE C = {} /\ (am <=> D # nil)
    /\ \A k \in C : m[k] # 0
    /\ \A k, l \in Key : k # l /\ m[k] # 0 => m[k] # m[l]
    /\ \A k \in Key : m[k] # 0 /\ D = nil => P[m[k]] # expunged
    /\ D # nil =>
         /\ \A k, l \in Key : k # l /\ D[k] # 0 => D[k] # D[l] /\ D[k] # m[l]
         /\ \A k \in Key : D[k] # 0 => P[D[k]] # expunged
         /\ \A k \in C : D[k] = 0 /\ P[m[k]] # expunged
         /\ \A k \in Key \ C : m[k] # 0 => IF P[m[k]] = expunged THEN D[k] = 0 ELSE D[k] = m[k]
         /\ B # {} => \A k \in Key : m[k] = 0 => D[k] = 0

MapsOK == Fit(read.m, read.amended, dirty, p_, Builders, Todo)

IInv == TypeOK /\ CallOK /\ MuOK /\ HitOK /\ MapsOK

-----------------------------------------------------------------------------
(* What the steps do to maps that fit together *)

(* A store to an entry that is not expunged, from anywhere. *)
LEMMA FitWrite ==
    ASSUME NEW m \in Map, NEW am \in BOOLEAN, NEW D \in Map \union {nil}, NEW P, NEW B,
           NEW C \in SUBSET Key, Fit(m, am, D, P, B, C),
           NEW e, NEW Q, Q[e] # expunged, P[e] # expunged, \A i \in Entry : i # e => Q[i] = P[i]
    PROVE  Fit(m, am, D, Q, B, C)
<1>1. \A i \in Entry : Q[i] = expunged <=> P[i] = expunged
  OBVIOUS
<1>2. \A k \in Key : m[k] # 0 => (Q[m[k]] = expunged <=> P[m[k]] = expunged)
  BY <1>1, SyncMapConstants DEF Map, Entry
<1>3. D # nil => \A k \in Key : D[k] # 0 => (Q[D[k]] = expunged <=> P[D[k]] = expunged)
  BY <1>1, SyncMapConstants DEF Map, Entry
<1> QED
  BY <1>2, <1>3 DEF Fit

(* unexpungeLocked puts an entry that was expunged into the dirty map. *)
LEMMA FitUnexpunge ==
    ASSUME NEW m \in Map, NEW am \in BOOLEAN, NEW D \in Map \union {nil}, NEW P,
           Fit(m, am, D, P, {}, {}), NEW k \in Key, m[k] # 0, P[m[k]] = expunged,
           NEW Q, Q[m[k]] = nil, \A i \in Entry : i # m[k] => Q[i] = P[i],
           NEW N \in Map, N[k] = m[k], \A l \in Key : l # k => N[l] = D[l]
    PROVE  Fit(m, am, N, Q, {}, {})
<1>1. D # nil /\ D \in Map
  BY DEF Fit
<1>2. N # nil
  BY SyncMapConstants
<1>3. \A l \in Key : (m[l] # 0 => m[l] \in Entry) /\ (D[l] # 0 => D[l] \in Entry)
  BY <1>1, SyncMapConstants DEF Map, Entry
<1>4. /\ \A l \in Key : l # k /\ m[l] # 0 => m[l] # m[k] /\ Q[m[l]] = P[m[l]]
      /\ \A l \in Key : l # k /\ D[l] # 0 => D[l] # m[k] /\ Q[D[l]] = P[D[l]]
  BY <1>1, <1>3 DEF Fit
<1> QED
  BY <1>1, <1>2, <1>3, <1>4, SyncMapConstants DEF Fit

(* The functions f and g on S differ at x at most, where g has y. *)
SameBut(f, g, S, x, y) == g[x] = y /\ \A i \in S : i # x => g[i] = f[i]

(* Neither map has the entry e. *)
Unused(m, D, e) == \A l \in Key : m[l] # e /\ D[l] # e

(* A new entry gets into the dirty map, under a key that is in neither map. *)
LEMMA FitAdd ==
    ASSUME NEW m \in Map, NEW am \in BOOLEAN, NEW D \in Map, NEW P, NEW B,
           Fit(m, am, D, P, B, {}), NEW k \in Key, m[k] = 0, D[k] = 0,
           NEW e \in Entry, Unused(m, D, e),
           NEW Q, NEW v, v # expunged, SameBut(P, Q, Entry, e, v),
           NEW N \in Map, SameBut(D, N, Key, k, e)
    PROVE  Fit(m, TRUE, N, Q, {}, {})
<1> USE DEF SameBut, Unused
<1>1. D # nil /\ e # 0
  BY SyncMapConstants DEF Entry
<1>2. N # nil
  BY SyncMapConstants
<1>3. /\ \A l \in Key : m[l] # 0 => Q[m[l]] = P[m[l]]
      /\ \A l \in Key : D[l] # 0 => Q[D[l]] = P[D[l]]
  BY SyncMapConstants DEF Map, Entry
<1> QED
  BY <1>1, <1>2, <1>3 DEF Fit

(* A key that is not in the read map is deleted from the dirty map. *)
LEMMA FitDelete ==
    ASSUME NEW m \in Map, NEW am \in BOOLEAN, NEW D \in Map, NEW P,
           Fit(m, am, D, P, {}, {}), NEW k \in Key, m[k] = 0
    PROVE  Fit(m, am, [D EXCEPT ![k] = 0], P, {}, {})
<1> DEFINE N == [D EXCEPT ![k] = 0]
<1>1. N \in Map /\ N # nil /\ N[k] = 0 /\ \A l \in Key : l # k => N[l] = D[l]
  BY SyncMapConstants DEF Map
<1> HIDE DEF N
<1>2. D # nil
  BY SyncMapConstants
<1>3. Fit(m, am, N, P, {}, {})
  BY <1>1, <1>2 DEF Fit
<1> QED
  BY <1>3 DEF N

(* The dirty map becomes the read map. *)
LEMMA FitPromote ==
    ASSUME NEW m, NEW am, NEW D \in Map, NEW P, Fit(m, am, D, P, {}, {})
    PROVE  Fit(D, FALSE, nil, P, {}, {})
  BY SyncMapConstants DEF Fit

(* dirtyLocked starts. *)
LEMMA FitBuild ==
    ASSUME NEW m \in Map, NEW am \in BOOLEAN, NEW P, Fit(m, am, nil, P, {}, {}),
           NEW B, B # {}
    PROVE  Fit(m, am, Empty, P, B, {k \in Key : m[k] # 0})
<1>1. Empty \in Map /\ Empty # nil /\ \A k \in Key : Empty[k] = 0
  BY SyncMapConstants DEF Map, Empty
<1> QED
  BY <1>1 DEF Fit

(* dirtyLocked copies an entry, or expunges it. *)
LEMMA FitCopy ==
    ASSUME NEW m \in Map, NEW am \in BOOLEAN, NEW D \in Map, NEW P, NEW C \in SUBSET Key,
           NEW B, B # {}, Fit(m, am, D, P, B, C), NEW k \in C, NEW Q, NEW N \in Map,
           \/ Q[m[k]] = expunged /\ N[k] = D[k]
           \/ Q[m[k]] # expunged /\ N[k] = m[k],
           \A i \in Entry : i # m[k] => Q[i] = P[i],
           \A l \in Key : l # k => N[l] = D[l]
    PROVE  Fit(m, am, N, Q, B, C \ {k})
<1>1. \A l \in Key : (m[l] # 0 => m[l] \in Entry) /\ (D[l] # 0 => D[l] \in Entry)
  BY SyncMapConstants DEF Map, Entry
<1>2. D # nil /\ N # nil /\ k \in Key /\ m[k] # 0 /\ D[k] = 0
  BY SyncMapConstants DEF Fit
<1>3. /\ \A l \in Key : l # k /\ m[l] # 0 => m[l] # m[k] /\ Q[m[l]] = P[m[l]]
      /\ \A l \in Key : l # k /\ D[l] # 0 => D[l] # m[k] /\ Q[D[l]] = P[D[l]]
  BY <1>1, <1>2 DEF Fit
<1> QED
  BY <1>2, <1>3 DEF Fit
-----------------------------------------------------------------------------
(* The goroutines' own state *)

LocalTypes ==
    /\ pc \in [Proc -> {"idle", "entry", "lock", "hit", "dirty", "rangelock", "range"}]
    /\ e_ \in [Proc -> 0..MaxEntries]
    /\ rest \in [Proc -> SUBSET Key]
    /\ m_ \in [Proc -> Map]
    /\ call = [p \in Proc |-> call[p]]

MapTypes ==
    /\ read \in [m : Map, amended : BOOLEAN]
    /\ dirty \in Map \union {nil}
    /\ misses \in 0..Cardinality(Key)
    /\ mu \in Proc \union {nil}
    /\ p_ \in [Entry -> Value \union {nil, expunged}]

LEMMA Types == IInv => LocalTypes /\ MapTypes
  BY DEF IInv, TypeOK, CallOK, LocalTypes, MapTypes

(* A step of p leaves the other goroutines where they are. *)
Others(p) ==
    \A q \in Proc : q # p =>
        pc'[q] = pc[q] /\ call'[q] = call[q] /\ e_'[q] = e_[q] /\ rest'[q] = rest[q]

LEMMA ReturnFacts ==
    ASSUME IInv, NEW p \in Proc, NEW a, Return(p, a)
    PROVE  LocalTypes' /\ Others(p) /\ pc'[p] = "idle" /\ rest' = rest /\ CallOf(p)' /\ HitOf(p)'
<1>1. LocalTypes
  BY Types
<1>2. /\ pc' = [pc EXCEPT ![p] = "idle"] /\ call' = [call EXCEPT ![p] = None]
      /\ e_' = [e_ EXCEPT ![p] = 0] /\ rest' = rest /\ m_' = m_
  BY DEF Return, Goto
<1>3. LocalTypes' /\ Others(p) /\ pc'[p] = "idle"
  BY <1>1, <1>2, SyncMapConstants DEF LocalTypes, Others
<1> QED
  BY <1>2, <1>3 DEF CallOf, HitOf

LEMMA ContinueFacts ==
    ASSUME IInv, NEW p \in Proc, NEW there \in {"entry", "lock", "hit"},
           NEW e \in 0..MaxEntries, Continue(p, there, e)
    PROVE  /\ LocalTypes' /\ Others(p) /\ pc'[p] = there /\ rest' = rest /\ call' = call
           /\ e_'[p] = e
<1>1. LocalTypes
  BY Types
<1>2. pc' = [pc EXCEPT ![p] = there] /\ e_' = [e_ EXCEPT ![p] = e] /\ UNCHANGED <<call, rest, m_>>
  BY DEF Continue, Goto
<1> QED
  BY <1>1, <1>2 DEF LocalTypes, Others

(* What a step of p must do for the others to be where they may be. *)
LEMMA LocalInv ==
    ASSUME IInv, NEW p \in Proc, LocalTypes', Others(p), CallOf(p)', HitOf(p)',
           \/ mu' = mu /\ (pc'[p] \in Locked <=> pc[p] \in Locked)
           \/ mu = nil /\ mu' = p /\ pc'[p] \in Locked
           \/ mu = p /\ mu' = nil /\ pc'[p] \notin Locked,
           mu \notin {nil, p} =>
               read' = read /\ \A e \in Entry : p_[e] # expunged => p_'[e] # expunged
    PROVE  CallOK' /\ MuOK' /\ HitOK'
<1>1. CallOK'
  <2>1. ASSUME NEW q \in Proc, q # p PROVE CallOf(q)'
    BY <2>1 DEF IInv, CallOK, CallOf, Others
  <2> QED
    BY <2>1 DEF CallOK, LocalTypes
<1>2. MuOK'
  <2>1. \A q \in Proc : q # p => (mu = q <=> pc'[q] \in Locked)
    BY DEF IInv, MuOK, Others
  <2>2. mu = p <=> pc[p] \in Locked
    BY DEF IInv, MuOK
  <2>3. \A q \in Proc : q # p => (mu' = q <=> pc'[q] \in Locked)
    BY <2>1, SyncMapConstants
  <2>4. mu' = p <=> pc'[p] \in Locked
    BY <2>2, SyncMapConstants
  <2> QED
    BY <2>3, <2>4 DEF MuOK
<1>3. HitOK'
  <2>1. ASSUME NEW q \in Proc, q # p, pc'[q] = "dirty" PROVE read'.m[call'[q].k] = 0
    <3>1. pc[q] = "dirty" /\ call'[q] = call[q]
      BY <2>1 DEF Others
    <3>2. mu = q /\ mu \notin {nil, p}
      BY <2>1, <3>1, SyncMapConstants DEF IInv, MuOK, Locked
    <3> QED
      BY <3>1, <3>2 DEF IInv, HitOK, HitOf
  <2>2. ASSUME NEW q \in Proc, q # p, pc'[q] = "hit"
        PROVE  e_'[q] # 0 /\ e_'[q] = read'.m[call'[q].k] /\ p_'[e_'[q]] # expunged
    <3>1. pc[q] = "hit" /\ e_'[q] = e_[q] /\ call'[q] = call[q]
      BY <2>2 DEF Others
    <3>2. mu = q /\ mu \notin {nil, p}
      BY <2>2, <3>1, SyncMapConstants DEF IInv, MuOK, Locked
    <3>3. e_[q] # 0 /\ e_[q] = read.m[call[q].k] /\ p_[e_[q]] # expunged
      BY <3>1 DEF IInv, HitOK, HitOf
    <3>4. e_[q] \in Entry
      BY <3>3, Types, SyncMapConstants DEF LocalTypes, Entry
    <3> QED
      BY <3>1, <3>2, <3>3, <3>4
  <2> QED
    BY <2>1, <2>2 DEF HitOK, HitOf
<1> QED
  BY <1>1, <1>2, <1>3

(* Nobody is building a dirty map while mu is free or held for a store. *)
LEMMA NotBuilding ==
    ASSUME IInv, mu = nil \/ \E p \in Proc : mu = p /\ pc[p] = "hit"
    PROVE  /\ \A q \in Proc : pc[q] # "dirty"
           /\ Builders = {} /\ Todo = {}
           /\ Fit(read.m, read.amended, dirty, p_, {}, {})
<1>1. \A q \in Proc : pc[q] # "dirty"
  BY SyncMapConstants DEF IInv, MuOK, Locked
<1>2. Builders = {} /\ Todo = {}
  BY <1>1 DEF Builders, Todo
<1> QED
  BY <1>1, <1>2 DEF IInv, MapsOK

(* The maps fit together again after a step of p that is not building. *)
LEMMA MapsAfter ==
    ASSUME NEW p \in Proc, Others(p), \A q \in Proc : pc[q] # "dirty", pc'[p] # "dirty",
           Fit(read'.m, read'.amended, dirty', p_', {}, {})
    PROVE  MapsOK'
<1>1. \A q \in Proc : pc'[q] # "dirty"
  BY DEF Others
<1>2. Builders' = {} /\ Todo' = {}
  BY <1>1 DEF Builders, Todo
<1> QED
  BY <1>2 DEF MapsOK

(* A step of p that stores to an entry that is not expunged, or to none, and *)
(* leaves the maps alone.                                                    *)
LEMMA WriteInv ==
    ASSUME IInv, NEW p \in Proc, LocalTypes', Others(p), CallOf(p)', HitOf(p)',
           UNCHANGED maps,
           \/ mu' = mu /\ pc'[p] \notin Locked /\ pc[p] \notin Locked
           \/ mu = p /\ mu' = nil /\ pc'[p] \notin Locked /\ pc[p] = "hit",
           \/ p_' = p_
           \/ \E e \in Entry, x \in Value \union {nil} :
                  p_[e] # expunged /\ p_' = [p_ EXCEPT ![e] = x]
    PROVE  IInv'
<1>1. LocalTypes /\ MapTypes
  BY Types
<1>2. p_' \in [Entry -> Value \union {nil, expunged}] /\ read' = read /\ dirty' = dirty
  BY <1>1 DEF MapTypes, maps
<1>3. TypeOK'
  BY <1>1, <1>2 DEF LocalTypes, MapTypes, TypeOK, maps
<1>4. Fit(read.m, read.amended, dirty, p_', Builders, Todo)
  <2>1. CASE p_' = p_
    BY <2>1 DEF IInv, MapsOK
  <2>2. ASSUME NEW e \in Entry, NEW x \in Value \union {nil},
               p_[e] # expunged, p_' = [p_ EXCEPT ![e] = x]
        PROVE  Fit(read.m, read.amended, dirty, p_', Builders, Todo)
    <3>1. p_'[e] # expunged /\ \A i \in Entry : i # e => p_'[i] = p_[i]
      BY <1>1, <2>2, SyncMapConstants DEF MapTypes
    <3>2. /\ read.m \in Map /\ read.amended \in BOOLEAN /\ dirty \in Map \union {nil}
          /\ Todo \in SUBSET Key
      BY <1>1 DEF MapTypes, Builders, Todo
    <3>3. Fit(read.m, read.amended, dirty, p_, Builders, Todo)
      BY DEF IInv, MapsOK
    <3> QED
      BY ONLY <3>1, <3>2, <3>3, <2>2, FitWrite
  <2> QED
    BY <2>1, <2>2
<1>5. \A e \in Entry : p_[e] # expunged => p_'[e] # expunged
  BY <1>1, SyncMapConstants DEF MapTypes
<1>6. CallOK' /\ MuOK' /\ HitOK'
  BY <1>2, <1>5, LocalInv
<1>7. Builders' = Builders /\ Todo' = Todo
  <2>1. pc[p] # "dirty" /\ pc'[p] # "dirty"
    BY DEF Locked
  <2>2. \A q \in Proc : pc'[q] = "dirty" <=> pc[q] = "dirty"
    BY <2>1 DEF Others
  <2>3. \A q \in Proc : pc[q] = "dirty" => rest'[q] = rest[q]
    BY <2>1 DEF Others
  <2>4. Builders' = Builders
    BY <2>2 DEF Builders
  <2>5. Todo' = Todo
    BY <2>2, <2>3 DEF Todo
  <2> QED
    BY <2>4, <2>5
<1>8. MapsOK'
  BY <1>2, <1>4, <1>7 DEF MapsOK
<1> QED
  BY <1>3, <1>6, <1>8 DEF IInv
-----------------------------------------------------------------------------
(* The fast paths *)

LEMMA LookupInv ==
    ASSUME IInv, NEW p \in Proc, NEW c \in Calls, Lookup(p, c),
           c.name \in {"Store", "LoadOrStore"} => c.v \in Value
    PROVE  IInv'
<1>1. LocalTypes /\ MapTypes
  BY Types
<1>2. PICK there \in {"idle", "entry", "lock"}, d \in {None, c} :
          /\ pc[p] = "idle" /\ pc' = [pc EXCEPT ![p] = there]
          /\ call' = [call EXCEPT ![p] = d] /\ (there # "idle" => d = c)
          /\ e_' = [e_ EXCEPT ![p] = read.m[c.k]]
          /\ UNCHANGED <<maps, mu, p_, rest, m_>>
  <2> DEFINE gone == read.m[c.k] = 0 /\ ~read.amended /\ c.name \in {"Load", "LoadAndDelete"}
             there == IF gone THEN "idle" ELSE IF read.m[c.k] # 0 THEN "entry" ELSE "lock"
             d == IF gone THEN None ELSE c
  <2>1. there \in {"idle", "entry", "lock"} /\ d \in {None, c} /\ (there # "idle" => d = c)
    OBVIOUS
  <2>2. /\ pc[p] = "idle" /\ pc' = [pc EXCEPT ![p] = there] /\ call' = [call EXCEPT ![p] = d]
        /\ e_' = [e_ EXCEPT ![p] = read.m[c.k]] /\ UNCHANGED <<maps, mu, p_, rest, m_>>
    BY DEF Lookup, At, Goto
  <2> QED
    BY <2>1, <2>2
<1>3. read.m[c.k] \in 0..MaxEntries
  BY <1>1 DEF MapTypes, Map, Calls
<1>4. LocalTypes' /\ Others(p) /\ pc'[p] = there /\ call'[p] = d
  BY <1>1, <1>2, <1>3 DEF LocalTypes, Others
<1>5. CallOf(p)' /\ HitOf(p)'
  BY <1>2, <1>4 DEF CallOf, HitOf
<1>6. pc[p] \notin Locked /\ pc'[p] \notin Locked
  BY <1>2, <1>4 DEF Locked
<1> QED
  BY <1>2, <1>4, <1>5, <1>6, WriteInv

LEMMA BeginInv ==
    ASSUME IInv, NEW p \in Proc,
           \/ \E k \in Key : Load(p, k) \/ LoadAndDelete(p, k)
           \/ \E k \in Key, v \in Value : Store(p, k, v) \/ LoadOrStore(p, k, v)
    PROVE  IInv'
<1>1. ASSUME NEW k \in Key, Load(p, k) \/ LoadAndDelete(p, k) PROVE IInv'
  <2> DEFINE c(name) == [name |-> name, k |-> k, v |-> None]
  <2>1. c("Load") \in Calls /\ c("LoadAndDelete") \in Calls
    BY DEF Calls
  <2>2. c("Load").name = "Load" /\ c("LoadAndDelete").name = "LoadAndDelete"
    OBVIOUS
  <2>3. Lookup(p, c("Load")) \/ Lookup(p, c("LoadAndDelete"))
    BY <1>1 DEF Load, LoadAndDelete, Call
  <2> HIDE DEF c
  <2> QED
    BY <2>1, <2>2, <2>3, LookupInv
<1>2. ASSUME NEW k \in Key, NEW v \in Value, Store(p, k, v) \/ LoadOrStore(p, k, v) PROVE IInv'
  <2> DEFINE c(name) == [name |-> name, k |-> k, v |-> v]
  <2>1. c("Store") \in Calls /\ c("LoadOrStore") \in Calls
    BY DEF Calls
  <2>2. c("Store").v = v /\ c("LoadOrStore").v = v
    OBVIOUS
  <2>3. Lookup(p, c("Store")) \/ Lookup(p, c("LoadOrStore"))
    BY <1>2 DEF Store, LoadOrStore, Call
  <2> HIDE DEF c
  <2> QED
    BY <2>1, <2>2, <2>3, LookupInv
<1> QED
  BY <1>1, <1>2

(* A store to the entry of p, if that is not expunged. *)
LEMMA SwapFacts ==
    ASSUME IInv, NEW p \in Proc, NEW x \in Value \union {nil}, Cur(p) # expunged, Swap(p, x)
    PROVE  \/ p_' = p_
           \/ \E e \in Entry, y \in Value \union {nil} :
                  p_[e] # expunged /\ p_' = [p_ EXCEPT ![e] = y]
<1>1. /\ e_[p] \in 0..MaxEntries /\ p_ \in [Entry -> Value \union {nil, expunged}]
      /\ p_' = [p_ EXCEPT ![e_[p]] = x] /\ p_[e_[p]] # expunged
  BY Types DEF LocalTypes, MapTypes, Swap, Cur
<1>2. CASE e_[p] \in Entry
  BY <1>1, <1>2
<1>3. CASE e_[p] \notin Entry
  BY <1>1, <1>3
<1> QED
  BY <1>2, <1>3

LEMMA EntryInv ==
    ASSUME IInv, NEW p \in Proc, load(p) \/ delete(p) \/ tryStore(p)
    PROVE  IInv'
<1>1. LocalTypes /\ MapTypes
  BY Types
<1>2. pc[p] = "entry" /\ pc[p] \notin Locked /\ UNCHANGED maps /\ mu' = mu
  BY DEF load, delete, tryStore, At, Locked
<1>3. call[p] \in Calls /\ (call[p].name \in {"Store", "LoadOrStore"} => call[p].v \in Value)
  BY <1>2 DEF IInv, CallOK, CallOf
<1>4. CASE load(p)
  <2>1. p_' = p_ /\ Return(p, Value_(Cur(p)))
    BY <1>4 DEF load
  <2>2. LocalTypes' /\ Others(p) /\ pc'[p] = "idle" /\ CallOf(p)' /\ HitOf(p)'
    BY <2>1, ReturnFacts
  <2> QED
    BY <2>1, <2>2, <1>2, WriteInv DEF Locked
<1>5. CASE delete(p)
  <2>1. Swap(p, IF Value_(Cur(p)).ok THEN nil ELSE Cur(p)) /\ Return(p, Value_(Cur(p)))
    BY <1>5 DEF delete
  <2>2. LocalTypes' /\ Others(p) /\ pc'[p] = "idle" /\ CallOf(p)' /\ HitOf(p)'
    BY <2>1, ReturnFacts
  <2>3. CASE Value_(Cur(p)).ok
    <3>1. Cur(p) # expunged
      BY <2>3 DEF Value_, NotFound
    <3>2. Swap(p, nil)
      BY <2>1, <2>3
    <3> QED
      BY <3>1, <3>2, <2>2, <1>2, SwapFacts, WriteInv DEF Locked
  <2>4. CASE ~Value_(Cur(p)).ok
    <3>1. p_' = p_
      BY <2>1, <2>4, <1>1 DEF Swap, Cur, MapTypes
    <3> QED
      BY <3>1, <2>2, <1>2, WriteInv DEF Locked
  <2> QED
    BY <2>3, <2>4
<1>6. CASE tryStore(p)
  <2>1. CASE Cur(p) = expunged
    <3>1. Continue(p, "lock", 0) /\ p_' = p_
      BY <1>6, <2>1 DEF tryStore
    <3>2. LocalTypes' /\ Others(p) /\ pc'[p] = "lock" /\ call' = call
      BY <3>1, ContinueFacts, SyncMapConstants
    <3>3. CallOf(p)' /\ HitOf(p)'
      BY <3>2, <1>3 DEF CallOf, HitOf
    <3> QED
      BY <3>1, <3>2, <3>3, <1>2, WriteInv DEF Locked
  <2>2. CASE Cur(p) # expunged
    <3>1. Swap(p, call[p].v) /\ Return(p, Found(call[p].v)) /\ call[p].name = "Store"
      BY <1>6, <2>2 DEF tryStore, In
    <3>2. LocalTypes' /\ Others(p) /\ pc'[p] = "idle" /\ CallOf(p)' /\ HitOf(p)'
      BY <3>1, ReturnFacts
    <3> QED
      BY <3>1, <3>2, <2>2, <1>2, <1>3, SwapFacts, WriteInv DEF Locked
  <2> QED
    BY <2>1, <2>2
<1> QED
  BY <1>4, <1>5, <1>6

LEMMA TryLoadOrStoreInv ==
    ASSUME IInv, NEW p \in Proc, tryLoadOrStore(p)
    PROVE  IInv'
<1>1. LocalTypes /\ MapTypes
  BY Types
<1>2. /\ pc[p] \in {"entry", "hit"} /\ UNCHANGED maps /\ mu' = (IF mu = p THEN nil ELSE mu)
      /\ call[p].name = "LoadOrStore" /\ (mu = p <=> pc[p] \in Locked)
  BY DEF tryLoadOrStore, In, IInv, MuOK
<1>3. call[p] \in Calls /\ call[p].v \in Value
  BY <1>2 DEF IInv, CallOK, CallOf
<1>4. \/ pc[p] = "entry" /\ pc[p] \notin Locked /\ mu' = mu
      \/ pc[p] = "hit" /\ mu = p /\ mu' = nil /\ Cur(p) # expunged
  BY <1>2 DEF Locked, IInv, HitOK, HitOf, Cur
<1>5. CASE Cur(p) = expunged
  <2>1. Continue(p, "lock", 0) /\ p_' = p_
    BY <1>5 DEF tryLoadOrStore
  <2>2. LocalTypes' /\ Others(p) /\ pc'[p] = "lock" /\ call' = call
    BY <2>1, ContinueFacts, SyncMapConstants
  <2>3. CallOf(p)' /\ HitOf(p)'
    BY <2>2, <1>3 DEF CallOf, HitOf
  <2> QED
    BY <2>1, <2>2, <2>3, <1>2, <1>4, <1>5, WriteInv DEF Locked
<1>6. CASE Cur(p) # expunged
  <2> DEFINE x == LoadedOrStored(p, Cur(p)).v
  <2>1. Swap(p, x) /\ Return(p, LoadedOrStored(p, Cur(p)))
    BY <1>6 DEF tryLoadOrStore
  <2>2. LocalTypes' /\ Others(p) /\ pc'[p] = "idle" /\ CallOf(p)' /\ HitOf(p)'
    BY <2>1, ReturnFacts
  <2>3. CASE x \in Value \union {nil}
    <3> HIDE DEF x
    <3> QED
      BY <2>1, <2>2, <2>3, <1>2, <1>4, <1>6, SwapFacts, WriteInv DEF Locked
  <2>4. CASE x \notin Value \union {nil}
    <3>1. x = Cur(p)
      BY <2>4, <1>3 DEF LoadedOrStored, Stored, Found
    <3>2. p_' = p_
      BY <3>1, <2>1, <1>1 DEF Swap, Cur, MapTypes
    <3> QED
      BY <3>2, <2>2, <1>2, <1>4, WriteInv DEF Locked
  <2> QED
    BY <2>3, <2>4
<1> QED
  BY <1>5, <1>6

LEMMA StoreLockedInv ==
    ASSUME IInv, NEW p \in Proc, storeLocked(p)
    PROVE  IInv'
<1>1. /\ pc[p] = "hit" /\ UNCHANGED maps /\ mu' = nil /\ Swap(p, call[p].v)
      /\ Return(p, Found(call[p].v)) /\ call[p].name = "Store"
  BY DEF storeLocked, At, In
<1>2. mu = p /\ call[p].v \in Value /\ Cur(p) # expunged
  BY <1>1 DEF IInv, MuOK, CallOK, CallOf, Locked, HitOK, HitOf, Cur
<1>3. LocalTypes' /\ Others(p) /\ pc'[p] = "idle" /\ CallOf(p)' /\ HitOf(p)'
  BY <1>1, ReturnFacts
<1> QED
  BY <1>1, <1>2, <1>3, SwapFacts, WriteInv DEF Locked
-----------------------------------------------------------------------------
(* The slow paths *)

LEMMA SizeFacts ==
    ASSUME NEW m
    PROVE  Size(m) \in Nat /\ Size(m) <= Cardinality(Key) /\ Cardinality(Key) \in Nat
<1> DEFINE S == {k \in Key : m[k] # 0}
<1>1. S \in SUBSET Key /\ IsFiniteSet(Key)
  BY SyncMapConstants
<1>2. IsFiniteSet(S) /\ Cardinality(S) <= Cardinality(Key)
  BY <1>1, FS_Subset
<1> QED
  BY <1>1, <1>2, FS_CardinalityType DEF Size

(* A miss: m stays the dirty map or becomes the read map. *)
LEMMA MissFacts ==
    ASSUME IInv, NEW m \in Map, NEW P, Fit(read.m, read.amended, m, P, {}, {}), missLocked(m)
    PROVE  /\ read' \in [m : Map, amended : BOOLEAN]
           /\ dirty' \in Map \union {nil}
           /\ misses' \in 0..Cardinality(Key)
           /\ Fit(read'.m, read'.amended, dirty', P, {}, {})
<1>1. MapTypes
  BY Types
<1>2. CASE misses + 1 < Size(m)
  <2>1. misses' = misses + 1 /\ dirty' = m /\ read' = read
    BY <1>2 DEF missLocked
  <2> QED
    BY <1>1, <1>2, <2>1, SizeFacts DEF MapTypes
<1>3. CASE ~(misses + 1 < Size(m))
  <2>1. read' = [m |-> m, amended |-> FALSE] /\ dirty' = nil /\ misses' = 0
    BY <1>3 DEF missLocked, Promote
  <2>2. Fit(m, FALSE, nil, P, {}, {})
    BY FitPromote
  <2>3. read'.m = m /\ read'.amended = FALSE /\ read' \in [m : Map, amended : BOOLEAN]
    BY <2>1
  <2>4. misses' \in 0..Cardinality(Key)
    BY <2>1, SizeFacts
  <2> QED
    BY <2>1, <2>2, <2>3, <2>4
<1> QED
  BY <1>2, <1>3

(* A step of p, taken while mu is free, that leaves mu free. *)
LEMMA FreeInv ==
    ASSUME IInv, NEW p \in Proc, mu = nil, mu' = nil,
           LocalTypes', Others(p), CallOf(p)', HitOf(p)', pc'[p] \notin Locked,
           read' \in [m : Map, amended : BOOLEAN], dirty' \in Map \union {nil},
           misses' \in 0..Cardinality(Key), p_' \in [Entry -> Value \union {nil, expunged}],
           Fit(read'.m, read'.amended, dirty', p_', {}, {})
    PROVE  IInv'
<1>1. TypeOK'
  BY DEF TypeOK, LocalTypes
<1>2. pc[p] \notin Locked
  BY SyncMapConstants DEF IInv, MuOK
<1>3. CallOK' /\ MuOK' /\ HitOK'
  BY <1>2, LocalInv
<1>4. MapsOK'
  BY NotBuilding, MapsAfter DEF Locked
<1> QED
  BY <1>1, <1>3, <1>4 DEF IInv

LEMMA LookupLockedInv ==
    ASSUME IInv, NEW p \in Proc, LookupLocked(p)
    PROVE  IInv'
<1> DEFINE k == call[p].k
           miss == read.m[k] = 0 /\ read.amended
           e == IF miss THEN dirty[k] ELSE read.m[k]
<1>1. LocalTypes /\ MapTypes
  BY Types
<1>2. /\ pc[p] = "lock" /\ mu = nil /\ mu' = nil /\ p_' = p_
      /\ In(p, "Load") \/ In(p, "LoadAndDelete")
      /\ IF e = 0 THEN Return(p, NotFound) ELSE Continue(p, "entry", e)
  BY DEF LookupLocked, At
<1>3. call[p] \in Calls /\ k \in Key
  BY <1>2 DEF IInv, CallOK, CallOf, Calls
<1>4. Fit(read.m, read.amended, dirty, p_, {}, {})
  BY <1>2, NotBuilding
<1>5. /\ read' \in [m : Map, amended : BOOLEAN] /\ dirty' \in Map \union {nil}
      /\ misses' \in 0..Cardinality(Key)
      /\ Fit(read'.m, read'.amended, dirty', p_, {}, {})
      /\ e \in 0..MaxEntries
  <2>1. CASE miss
    <3>1. dirty \in Map
      BY <1>1, <1>4, <2>1 DEF Fit, MapTypes
    <3>2. PICK m \in Map : missLocked(m) /\ Fit(read.m, read.amended, m, p_, {}, {})
      <4>1. missLocked(dirty) \/ missLocked([dirty EXCEPT ![k] = 0])
        BY <2>1 DEF LookupLocked
      <4>2. [dirty EXCEPT ![k] = 0] \in Map
        <5>1. 0 \in 0..MaxEntries
          BY SyncMapConstants
        <5> QED
          BY <5>1, <3>1 DEF Map
      <4>3. Fit(read.m, read.amended, [dirty EXCEPT ![k] = 0], p_, {}, {})
        BY <3>1, <1>1, <1>3, <1>4, <2>1, FitDelete DEF MapTypes
      <4> QED
        BY <4>1, <4>2, <4>3, <3>1, <1>4
    <3> QED
      BY <3>1, <3>2, <1>3, <2>1, MissFacts DEF Map
  <2>2. CASE ~miss
    <3>1. read' = read /\ dirty' = dirty /\ misses' = misses
      BY <2>2 DEF LookupLocked, maps
    <3> QED
      BY <3>1, <1>1, <1>3, <1>4, <2>2 DEF MapTypes, Map
  <2> QED
    BY <2>1, <2>2
<1> HIDE DEF e, k, miss
<1>6. LocalTypes' /\ Others(p) /\ CallOf(p)' /\ HitOf(p)' /\ pc'[p] \notin Locked
  <2>1. CASE e = 0
    BY <1>2, <2>1, ReturnFacts DEF Locked
  <2>2. CASE e # 0
    <3>1. LocalTypes' /\ Others(p) /\ pc'[p] = "entry" /\ call' = call
      BY <1>2, <1>5, <2>2, ContinueFacts
    <3>2. CallOf(p)
      BY DEF IInv, CallOK
    <3> QED
      BY <3>1, <3>2, <1>2 DEF CallOf, HitOf, Locked
  <2> QED
    BY <2>1, <2>2
<1>7. p_' \in [Entry -> Value \union {nil, expunged}]
  BY <1>1, <1>2 DEF MapTypes
<1> QED
  BY <1>2, <1>5, <1>6, <1>7, FreeInv

LEMMA StoringFacts ==
    ASSUME IInv, NEW p \in Proc, Storing(p)
    PROVE  /\ pc[p] = "lock" /\ mu = nil /\ call[p] \in Calls
           /\ call[p].k \in Key /\ call[p].v \in Value
           /\ call[p].name \in {"Store", "LoadOrStore"}
           /\ Fit(read.m, read.amended, dirty, p_, {}, {})
<1>1. pc[p] = "lock" /\ mu = nil /\ call[p].name \in {"Store", "LoadOrStore"}
  BY DEF Storing, At, In
<1>2. call[p] \in Calls /\ call[p].v \in Value
  BY <1>1 DEF IInv, CallOK, CallOf
<1>3. call[p].k \in Key
  BY <1>2 DEF Calls
<1> QED
  BY <1>1, <1>2, <1>3, NotBuilding

LEMMA UnexpungeInv ==
    ASSUME IInv, NEW p \in Proc, unexpungeLocked(p)
    PROVE  IInv'
<1> DEFINE k == call[p].k
           e == read.m[k]
<1>1. LocalTypes /\ MapTypes
  BY Types
<1>2. /\ Storing(p) /\ e # 0
      /\ p_' = [p_ EXCEPT ![e] = IF p_[e] = expunged THEN nil ELSE p_[e]]
      /\ dirty' = IF p_[e] = expunged THEN [dirty EXCEPT ![k] = e] ELSE dirty
      /\ mu' = p /\ Continue(p, "hit", e) /\ read' = read /\ misses' = misses
  BY DEF unexpungeLocked
<1>3. /\ pc[p] = "lock" /\ mu = nil /\ k \in Key
      /\ call[p] \in Calls /\ call[p].v \in Value /\ call[p].name \in {"Store", "LoadOrStore"}
      /\ Fit(read.m, read.amended, dirty, p_, {}, {})
  BY <1>2, StoringFacts
<1>4. e \in Entry /\ e \in 0..MaxEntries /\ read.m \in Map /\ read.amended \in BOOLEAN
  BY <1>1, <1>2, <1>3, SyncMapConstants DEF MapTypes, Map, Entry
<1>5. /\ p_' \in [Entry -> Value \union {nil, expunged}] /\ p_'[e] # expunged
      /\ (\A i \in Entry : i # e => p_'[i] = p_[i])
      /\ p_[e] = expunged => p_'[e] = nil
      /\ p_[e] # expunged => p_' = p_
  BY <1>1, <1>2, <1>4, SyncMapConstants DEF MapTypes
<1>6. LocalTypes' /\ Others(p) /\ pc'[p] = "hit" /\ call' = call /\ e_'[p] = e
  BY <1>2, <1>4, ContinueFacts
<1>7. CallOf(p)' /\ HitOf(p)'
  BY <1>2, <1>3, <1>5, <1>6 DEF CallOf, HitOf
<1>8. dirty' \in Map \union {nil} /\ Fit(read'.m, read'.amended, dirty', p_', {}, {})
  <2>1. CASE p_[e] = expunged
    <3>1. dirty' = [dirty EXCEPT ![k] = e] /\ dirty \in Map \union {nil}
      BY <2>1, <1>1, <1>2 DEF MapTypes
    <3>2. dirty \in Map
      BY <3>1, <2>1, <1>2, <1>3 DEF Fit
    <3>3. dirty' \in Map /\ dirty'[k] = e /\ \A l \in Key : l # k => dirty'[l] = dirty[l]
      BY <3>1, <3>2, <1>3, <1>4 DEF Map
    <3>4. /\ read.m[k] # 0 /\ p_[read.m[k]] = expunged /\ p_'[read.m[k]] = nil
          /\ \A i \in Entry : i # read.m[k] => p_'[i] = p_[i]
      BY <2>1, <1>2, <1>5
    <3> HIDE DEF k
    <3>5. Fit(read.m, read.amended, dirty', p_', {}, {})
      BY ONLY <3>2, <3>3, <3>4, <1>3, <1>4, FitUnexpunge
    <3> QED
      BY <3>3, <3>5, <1>2
  <2>2. CASE p_[e] # expunged
    BY <2>2, <1>1, <1>2, <1>3, <1>5 DEF MapTypes
  <2> QED
    BY <2>1, <2>2
<1>9. TypeOK'
  BY <1>1, <1>2, <1>5, <1>6, <1>8 DEF TypeOK, LocalTypes, MapTypes
<1>10. CallOK' /\ MuOK' /\ HitOK'
  BY <1>2, <1>3, <1>6, <1>7, LocalInv DEF Locked
<1>11. MapsOK'
  BY <1>3, <1>6, <1>8, NotBuilding, MapsAfter
<1> QED
  BY <1>9, <1>10, <1>11 DEF IInv
LEMMA StoreDirtyInv ==
    ASSUME IInv, NEW p \in Proc, StoreDirty(p)
    PROVE  IInv'
<1> DEFINE k == call[p].k
           a == IF In(p, "Store") THEN Found(call[p].v) ELSE LoadedOrStored(p, p_[dirty[k]])
<1>1. LocalTypes /\ MapTypes
  BY Types
<1>2. /\ Storing(p) /\ dirty # nil /\ dirty[k] # 0 /\ mu' = mu
      /\ p_' = [p_ EXCEPT ![dirty[k]] = a.v] /\ Return(p, a)
      /\ UNCHANGED maps \/ missLocked(dirty)
  BY DEF StoreDirty, Has
<1>3. /\ mu = nil /\ k \in Key /\ call[p].v \in Value
      /\ Fit(read.m, read.amended, dirty, p_, {}, {})
  BY <1>2, StoringFacts
<1>4. /\ dirty \in Map /\ dirty[k] \in Entry /\ p_[dirty[k]] # expunged
      /\ p_[dirty[k]] \in Value \union {nil}
      /\ read.m \in Map /\ read.amended \in BOOLEAN
  <2>1. dirty \in Map /\ dirty[k] \in Entry
    BY <1>1, <1>2, <1>3, SyncMapConstants DEF MapTypes, Map, Entry
  <2>2. p_[dirty[k]] # expunged
    BY <1>2, <1>3 DEF Fit
  <2> QED
    BY <2>1, <2>2, <1>1 DEF MapTypes
<1>5. a.v \in Value
  BY <1>3, <1>4 DEF Found, LoadedOrStored, Stored
<1> HIDE DEF a
<1>6. /\ p_' \in [Entry -> Value \union {nil, expunged}] /\ p_'[dirty[k]] # expunged
      /\ \A i \in Entry : i # dirty[k] => p_'[i] = p_[i]
  BY <1>1, <1>2, <1>4, <1>5, SyncMapConstants DEF MapTypes
<1> HIDE DEF k
<1>7. Fit(read.m, read.amended, dirty, p_', {}, {})
  BY ONLY <1>3, <1>4, <1>6, FitWrite
<1>8. /\ read' \in [m : Map, amended : BOOLEAN] /\ dirty' \in Map \union {nil}
      /\ misses' \in 0..Cardinality(Key)
      /\ Fit(read'.m, read'.amended, dirty', p_', {}, {})
  <2>1. CASE UNCHANGED maps
    BY <2>1, <1>1, <1>7 DEF maps, MapTypes
  <2>2. CASE missLocked(dirty)
    BY <2>2, <1>4, <1>7, MissFacts
  <2> QED
    BY <2>1, <2>2, <1>2
<1>9. LocalTypes' /\ Others(p) /\ pc'[p] = "idle" /\ CallOf(p)' /\ HitOf(p)'
  BY <1>2, ReturnFacts
<1> QED
  BY <1>2, <1>3, <1>6, <1>8, <1>9, FreeInv DEF Locked

(* A set of numbers has a least one. *)
LEMMA LeastNumber ==
    ASSUME NEW T \in SUBSET Nat, T # {}
    PROVE  \E x \in T : \A y \in T : x <= y
<1> DEFINE R == OpToRel(<, Nat)
<1>1. IsWellFoundedOn(R, Nat)
  BY NatLessThanWellFounded
<1>2. \A x \in Nat, y \in Nat : y < x => <<y, x>> \in R
  BY DEF OpToRel
<1> HIDE DEF R
<1>3. PICK x \in T : \A y \in T : ~(<<y, x>> \in R)
  BY <1>1, WFMin
<1>4. ASSUME NEW y \in T PROVE x <= y
  <2>1. x \in Nat /\ y \in Nat /\ ~(y < x)
    BY <1>2, <1>3
  <2> QED
    BY <2>1
<1> QED
  BY <1>4

(* A new entry is one that nothing refers to. *)
LEMMA NewEntry ==
    ASSUME Entry \ Live # {}
    PROVE  Min(Entry \ Live) \in Entry \ Live
<1> DEFINE S == Entry \ Live
<1>1. S \in SUBSET Nat
  BY SyncMapConstants DEF Entry
<1> HIDE DEF S
<1>2. \E x \in S : \A y \in S : x <= y
  BY <1>1, LeastNumber DEF S
<1> QED
  BY <1>2 DEF Min, S

LEMMA AddEntryInv ==
    ASSUME IInv, NEW p \in Proc, AddEntry(p, dirty), dirty \in Map, mu = nil \/ mu = p,
           \A q \in Proc : q # p => pc[q] # "dirty",
           call[p].k \in Key, call[p].v \in Value, read.m[call[p].k] = 0, dirty[call[p].k] = 0,
           NEW B, Fit(read.m, read.amended, dirty, p_, B, {})
    PROVE  IInv'
<1> DEFINE k == call[p].k
           new == Min(Entry \ Live)
<1>1. LocalTypes /\ MapTypes
  BY Types
<1>2. /\ Entry \ Live # {}
      /\ p_' = [p_ EXCEPT ![new] = call[p].v] /\ dirty' = [dirty EXCEPT ![k] = new]
      /\ read' = [read EXCEPT !.amended = TRUE] /\ mu' = nil /\ misses' = misses
      /\ \E a : Return(p, a)
  BY DEF AddEntry
<1>3. new \in Entry /\ new \notin Live
  BY <1>2, NewEntry
<1> HIDE DEF new
<1>4. Unused(read.m, dirty, new)
  <2>1. Range(read.m) \subseteq Live
    BY DEF Live
  <2>2. Range(dirty) \subseteq Live
    <3>1. dirty # nil
      BY SyncMapConstants
    <3>2. (IF dirty = nil THEN {} ELSE Range(dirty)) \subseteq Live
      BY DEF Live
    <3> QED
      BY <3>1, <3>2
  <2>3. DOMAIN read.m = Key /\ DOMAIN dirty = Key
    BY <1>1 DEF MapTypes, Map
  <2> QED
    BY <2>1, <2>2, <2>3, <1>3 DEF Range, Unused
<1>5. p_' \in [Entry -> Value \union {nil, expunged}] /\ SameBut(p_, p_', Entry, new, call[p].v)
  BY <1>1, <1>2, <1>3 DEF MapTypes, SameBut
<1>6. /\ read' \in [m : Map, amended : BOOLEAN] /\ read'.m = read.m /\ read'.amended = TRUE
      /\ read.m \in Map /\ read.amended \in BOOLEAN
  BY <1>1, <1>2 DEF MapTypes
<1>7. dirty' \in Map /\ SameBut(dirty, dirty', Key, k, new)
  BY <1>2, <1>3, SyncMapConstants DEF Map, Entry, SameBut
<1>8. Fit(read'.m, read'.amended, dirty', p_', {}, {})
  <2>1. k \in Key /\ read.m[k] = 0 /\ dirty[k] = 0 /\ call[p].v # expunged
    BY SyncMapConstants
  <2>2. /\ Fit(read.m, read.amended, dirty, p_, B, {}) /\ dirty \in Map
        /\ read.m \in Map /\ read.amended \in BOOLEAN
    BY <1>6
  <2> HIDE DEF k
  <2>3. Fit(read.m, TRUE, dirty', p_', {}, {})
    BY ONLY <2>1, <2>2, <1>3, <1>4, <1>5, <1>7, FitAdd
  <2> QED
    BY <2>3, <1>6
<1>9. LocalTypes' /\ Others(p) /\ pc'[p] = "idle" /\ CallOf(p)' /\ HitOf(p)'
  BY <1>2, ReturnFacts
<1>10. TypeOK'
  BY <1>1, <1>2, <1>5, <1>6, <1>7, <1>9 DEF TypeOK, LocalTypes, MapTypes
<1>11. CallOK' /\ MuOK' /\ HitOK'
  <2>1. mu = p <=> pc[p] \in Locked
    BY DEF IInv, MuOK
  <2> QED
    BY <2>1, <1>2, <1>9, LocalInv, SyncMapConstants DEF Locked
<1>12. MapsOK'
  <2>1. \A q \in Proc : pc'[q] # "dirty"
    BY <1>9 DEF Others
  <2>2. Builders' = {} /\ Todo' = {}
    BY <2>1 DEF Builders, Todo
  <2> QED
    BY <2>2, <1>8 DEF MapsOK
<1> QED
  BY <1>10, <1>11, <1>12 DEF IInv

LEMMA StoreNewInv ==
    ASSUME IInv, NEW p \in Proc, StoreNew(p)
    PROVE  IInv'
<1>1. /\ Storing(p) /\ read.m[call[p].k] = 0 /\ dirty # nil /\ dirty[call[p].k] = 0
      /\ AddEntry(p, dirty)
  BY DEF StoreNew
<1>2. /\ mu = nil /\ call[p].k \in Key /\ call[p].v \in Value
      /\ Fit(read.m, read.amended, dirty, p_, {}, {})
  BY <1>1, StoringFacts
<1>3. dirty \in Map /\ \A q \in Proc : pc[q] # "dirty"
  BY <1>1, <1>2, Types, NotBuilding DEF MapTypes
<1> QED
  BY <1>1, <1>2, <1>3, AddEntryInv

-----------------------------------------------------------------------------
(* dirtyLocked *)

LEMMA DirtyLockedInv ==
    ASSUME IInv, NEW p \in Proc, dirtyLocked(p)
    PROVE  IInv'
<1> DEFINE keys == {k \in Key : read.m[k] # 0}
<1>1. LocalTypes /\ MapTypes
  BY Types
<1>2. /\ Storing(p) /\ dirty = nil /\ dirty' = Empty /\ rest' = [rest EXCEPT ![p] = keys]
      /\ mu' = p /\ pc' = [pc EXCEPT ![p] = "dirty"]
      /\ UNCHANGED <<read, misses, p_, call, e_, m_>>
  BY DEF dirtyLocked, Goto
<1>3. /\ mu = nil /\ call[p] \in Calls /\ call[p].v \in Value
      /\ call[p].name \in {"Store", "LoadOrStore"} /\ read.m[call[p].k] = 0
      /\ Fit(read.m, read.amended, dirty, p_, {}, {})
      /\ \A q \in Proc : pc[q] # "dirty"
  BY <1>2, StoringFacts, NotBuilding DEF dirtyLocked
<1>4. LocalTypes' /\ Others(p) /\ pc'[p] = "dirty" /\ rest'[p] = keys /\ call'[p] = call[p]
  BY <1>1, <1>2 DEF LocalTypes, Others
<1>5. CallOf(p)' /\ HitOf(p)'
  BY <1>2, <1>3, <1>4 DEF CallOf, HitOf
<1>6. dirty' \in Map
  BY <1>2, SyncMapConstants DEF Empty, Map
<1>7. TypeOK'
  BY <1>1, <1>2, <1>4, <1>6 DEF TypeOK, LocalTypes, MapTypes
<1>8. CallOK' /\ MuOK' /\ HitOK'
  BY <1>2, <1>3, <1>4, <1>5, LocalInv DEF Locked
<1>9. MapsOK'
  <2>1. \A q \in Proc : pc'[q] = "dirty" <=> q = p
    BY <1>3, <1>4 DEF Others
  <2>2. Builders' # {} /\ Todo' = keys
    BY <2>1, <1>4 DEF Builders, Todo
  <2>3. read.m \in Map /\ read.amended \in BOOLEAN
    BY <1>1 DEF MapTypes
  <2>4. Fit(read.m, read.amended, Empty, p_, Builders', {k \in Key : read.m[k] # 0})
    BY <2>2, <2>3, <1>2, <1>3, FitBuild
  <2> QED
    BY <2>2, <2>4, <1>2 DEF MapsOK
<1> QED
  BY <1>7, <1>8, <1>9 DEF IInv

(* What is known while p is in dirtyLocked. *)
LEMMA DirtyFacts ==
    ASSUME IInv, NEW p \in Proc, pc[p] = "dirty"
    PROVE  /\ mu = p /\ (\A q \in Proc : q # p => pc[q] \notin Locked)
           /\ call[p] \in Calls /\ call[p].k \in Key /\ call[p].v \in Value
           /\ Builders = {p} /\ Todo = rest[p] /\ dirty \in Map
           /\ Fit(read.m, read.amended, dirty, p_, Builders, rest[p])
<1>1. mu = p /\ \A q \in Proc : q # p => pc[q] \notin Locked
  BY DEF IInv, MuOK, Locked
<1>2. call[p] \in Calls /\ call[p].k \in Key /\ call[p].v \in Value
  BY DEF IInv, CallOK, CallOf, Calls
<1>3. \A q \in Proc : pc[q] = "dirty" <=> q = p
  BY <1>1 DEF Locked
<1>4. Builders = {p}
  BY <1>3 DEF Builders
<1>5. Todo = rest[p]
  <2>1. rest[p] \in SUBSET Key
    BY Types DEF LocalTypes
  <2> QED
    BY <2>1, <1>3 DEF Todo
<1>6. Fit(read.m, read.amended, dirty, p_, Builders, rest[p])
  BY <1>5 DEF IInv, MapsOK
<1>7. dirty \in Map
  BY <1>4, <1>6, Types DEF Fit, MapTypes
<1> QED
  BY <1>1, <1>2, <1>4, <1>5, <1>6, <1>7

LEMMA TryExpungeInv ==
    ASSUME IInv, NEW p \in Proc, NEW k \in Key, tryExpungeLocked(p, k)
    PROVE  IInv'
<1> DEFINE e == read.m[k]
           gone == p_[e] \in {nil, expunged}
<1>1. LocalTypes /\ MapTypes
  BY Types
<1>2. /\ pc[p] = "dirty" /\ k \in rest[p]
      /\ p_' = [p_ EXCEPT ![e] = IF gone THEN expunged ELSE p_[e]]
      /\ dirty' = [dirty EXCEPT ![k] = IF gone THEN dirty[k] ELSE e]
      /\ rest' = [rest EXCEPT ![p] = rest[p] \ {k}]
      /\ UNCHANGED <<read, misses, mu, pc, call, e_, m_>>
  BY DEF tryExpungeLocked, At
<1>3. /\ mu = p /\ call[p] \in Calls
      /\ Builders = {p} /\ Todo = rest[p] /\ dirty \in Map
      /\ Fit(read.m, read.amended, dirty, p_, Builders, rest[p])
  BY <1>2, DirtyFacts
<1>4. e \in Entry /\ read.m \in Map /\ read.amended \in BOOLEAN /\ rest[p] \in SUBSET Key
  <2>1. e # 0
    BY <1>2, <1>3 DEF Fit
  <2> QED
    BY <2>1, <1>1, SyncMapConstants DEF MapTypes, LocalTypes, Map, Entry
<1>5. LocalTypes' /\ Others(p) /\ rest'[p] = rest[p] \ {k} /\ pc'[p] = "dirty"
  BY <1>1, <1>2 DEF LocalTypes, Others
<1>6. CallOf(p)' /\ HitOf(p)'
  <2>1. CallOf(p) /\ HitOf(p)
    BY DEF IInv, CallOK, HitOK
  <2> QED
    BY <2>1, <1>2, <1>5 DEF CallOf, HitOf
<1> DEFINE x == IF gone THEN expunged ELSE p_[e]
           d == IF gone THEN dirty[k] ELSE e
<1>7. /\ x \in Value \union {nil, expunged} /\ d \in 0..MaxEntries
      /\ (gone => x = expunged) /\ (~gone => x # expunged)
  BY <1>1, <1>3, <1>4 DEF MapTypes, Map, Entry
<1>8. p_' = [p_ EXCEPT ![e] = x] /\ dirty' = [dirty EXCEPT ![k] = d]
  BY <1>2
<1>9. d = IF gone THEN dirty[k] ELSE e
  OBVIOUS
<1> HIDE DEF x, d
<1>10. /\ p_' \in [Entry -> Value \union {nil, expunged}] /\ p_'[e] = x
       /\ \A i \in Entry : i # e => p_'[i] = p_[i]
  BY <1>1, <1>4, <1>7, <1>8 DEF MapTypes
<1>11. dirty' \in Map /\ dirty'[k] = d /\ \A l \in Key : l # k => dirty'[l] = dirty[l]
  BY <1>3, <1>7, <1>8 DEF Map
<1>12. Fit(read.m, read.amended, dirty', p_', Builders, rest[p] \ {k})
  <2>1. \/ p_'[e] = expunged /\ dirty'[k] = dirty[k]
        \/ p_'[e] # expunged /\ dirty'[k] = e
    BY <1>7, <1>9, <1>10, <1>11
  <2>2. /\ Builders # {} /\ k \in rest[p] /\ dirty \in Map
        /\ Fit(read.m, read.amended, dirty, p_, Builders, rest[p])
    BY <1>2, <1>3
  <2>3. \A i \in Entry : i # e => p_'[i] = p_[i]
    BY <1>10
  <2> QED
    BY ONLY <2>1, <2>2, <2>3, <1>4, <1>11, FitCopy
<1>13. TypeOK'
  BY <1>1, <1>2, <1>5, <1>10, <1>11 DEF TypeOK, LocalTypes, MapTypes
<1>14. CallOK' /\ MuOK' /\ HitOK'
  BY <1>2, <1>3, <1>5, <1>6, LocalInv
<1>15. MapsOK'
  <2>1. \A q \in Proc : pc'[q] = "dirty" <=> q = p
    BY <1>2, DirtyFacts DEF Locked
  <2>2. Builders' = Builders /\ Todo' = rest[p] \ {k}
    <3>1. Builders' = Builders
      BY <1>2 DEF Builders
    <3>2. Todo' = rest'[p] /\ rest'[p] \in SUBSET Key
      BY <2>1, <1>4, <1>5 DEF Todo
    <3> QED
      BY <3>1, <3>2, <1>5
  <2> QED
    BY <2>2, <1>2, <1>12 DEF MapsOK
<1> QED
  BY <1>13, <1>14, <1>15 DEF IInv

LEMMA StoreNewDirtyInv ==
    ASSUME IInv, NEW p \in Proc, StoreNewDirty(p)
    PROVE  IInv'
<1>1. pc[p] = "dirty" /\ rest[p] = {} /\ AddEntry(p, dirty)
  BY DEF StoreNewDirty, At
<1>2. /\ mu = p /\ (\A q \in Proc : q # p => pc[q] # "dirty")
      /\ call[p].k \in Key /\ call[p].v \in Value /\ dirty \in Map /\ Builders # {}
      /\ Fit(read.m, read.amended, dirty, p_, Builders, {})
  BY <1>1, DirtyFacts DEF Locked
<1>3. read.m[call[p].k] = 0
  BY <1>1 DEF IInv, HitOK, HitOf
<1>4. dirty[call[p].k] = 0
  BY <1>2, <1>3, SyncMapConstants DEF Fit
<1> QED
  BY <1>1, <1>2, <1>3, <1>4, AddEntryInv
-----------------------------------------------------------------------------
(* Range *)

LEMMA WalkFacts ==
    ASSUME IInv, NEW p \in Proc, NEW m \in Map, NEW h, Walk(p, m, h), UNCHANGED <<call, e_>>
    PROVE  /\ LocalTypes' /\ Others(p) /\ CallOf(p)' /\ HitOf(p)' /\ pc'[p] \notin Locked
<1> DEFINE keys == {k \in Key : m[k] # 0}
           there == IF keys = {} THEN "idle" ELSE "range"
<1>1. LocalTypes
  BY Types
<1>2. /\ m_' = [m_ EXCEPT ![p] = m] /\ rest' = [rest EXCEPT ![p] = keys]
      /\ pc' = [pc EXCEPT ![p] = there] /\ there \in {"idle", "range"}
  BY DEF Walk, Goto
<1> HIDE DEF there
<1>3. LocalTypes' /\ Others(p) /\ pc'[p] = there
  BY <1>1, <1>2 DEF LocalTypes, Others
<1> QED
  BY <1>2, <1>3 DEF CallOf, HitOf, Locked

LEMMA RangeInv ==
    ASSUME IInv, NEW p \in Proc, Range_(p)
    PROVE  IInv'
<1>1. LocalTypes /\ MapTypes
  BY Types
<1>2. pc[p] = "idle" /\ UNCHANGED <<maps, mu, p_, call, e_>>
  BY DEF Range_, At
<1>3. LocalTypes' /\ Others(p) /\ CallOf(p)' /\ HitOf(p)' /\ pc'[p] \notin Locked
  <2>1. CASE read.amended
    <3>1. pc' = [pc EXCEPT ![p] = "rangelock"] /\ UNCHANGED <<rest, m_>>
      BY <2>1 DEF Range_, Goto
    <3>2. LocalTypes' /\ Others(p) /\ pc'[p] = "rangelock"
      BY <3>1, <1>1, <1>2 DEF LocalTypes, Others
    <3> QED
      BY <3>2 DEF CallOf, HitOf, Locked
  <2>2. CASE ~read.amended
    <3>1. \E h : Walk(p, read.m, h)
      BY <2>2 DEF Range_
    <3> QED
      BY <3>1, <1>1, <1>2, WalkFacts DEF MapTypes
  <2> QED
    BY <2>1, <2>2
<1> QED
  BY <1>2, <1>3, WriteInv DEF Locked

LEMMA RangeLockedInv ==
    ASSUME IInv, NEW p \in Proc, RangeLocked(p)
    PROVE  IInv'
<1>1. LocalTypes /\ MapTypes
  BY Types
<1>2. pc[p] = "rangelock" /\ mu = nil /\ UNCHANGED <<mu, p_, call, e_>>
  BY DEF RangeLocked, At
<1>3. Fit(read.m, read.amended, dirty, p_, {}, {})
  BY <1>2, NotBuilding
<1>4. p_' \in [Entry -> Value \union {nil, expunged}] /\ mu' = nil
  BY <1>1, <1>2 DEF MapTypes
<1>5. CASE read.amended
  <2>1. Promote(dirty) /\ Walk(p, dirty, hist)
    BY <1>5 DEF RangeLocked
  <2>2. dirty \in Map
    BY <1>1, <1>3, <1>5 DEF Fit, MapTypes
  <2>3. LocalTypes' /\ Others(p) /\ CallOf(p)' /\ HitOf(p)' /\ pc'[p] \notin Locked
    BY <2>1, <2>2, <1>2, WalkFacts
  <2>4. Fit(dirty, FALSE, nil, p_, {}, {})
    BY <2>2, <1>3, FitPromote
  <2>5. read' = [m |-> dirty, amended |-> FALSE] /\ dirty' = nil /\ misses' = 0
    BY <2>1 DEF Promote
  <2>6. /\ read' \in [m : Map, amended : BOOLEAN] /\ dirty' \in Map \union {nil}
        /\ read'.m = dirty /\ read'.amended = FALSE
    BY <2>2, <2>5
  <2>7. misses' \in 0..Cardinality(Key)
    BY <2>5, SizeFacts
  <2>8. Fit(read'.m, read'.amended, dirty', p_', {}, {})
    BY <2>4, <2>5, <2>6, <1>2
  <2> QED
    BY <2>3, <2>6, <2>7, <2>8, <1>2, <1>4, FreeInv
<1>6. CASE ~read.amended
  <2>1. Walk(p, read.m, hist) /\ UNCHANGED maps
    BY <1>6 DEF RangeLocked
  <2>2. LocalTypes' /\ Others(p) /\ CallOf(p)' /\ HitOf(p)' /\ pc'[p] \notin Locked
    BY <2>1, <1>1, <1>2, WalkFacts DEF MapTypes
  <2> QED
    BY <2>1, <2>2, <1>2, WriteInv DEF Locked
<1> QED
  BY <1>5, <1>6

LEMMA VisitInv ==
    ASSUME IInv, NEW p \in Proc, NEW k \in Key, NEW go \in BOOLEAN, Visit(p, k, go)
    PROVE  IInv'
<1> DEFINE left == IF go THEN rest[p] \ {k} ELSE {}
           there == IF left = {} THEN "idle" ELSE "range"
           m == IF left = {} THEN Empty ELSE m_[p]
<1>1. LocalTypes /\ MapTypes
  BY Types
<1>2. /\ pc[p] = "range" /\ UNCHANGED <<maps, mu, p_, call, e_>>
      /\ rest' = [rest EXCEPT ![p] = left] /\ m_' = [m_ EXCEPT ![p] = m]
      /\ pc' = [pc EXCEPT ![p] = there]
  BY DEF Visit, At, Goto
<1>3. there \in {"idle", "range"} /\ left \in SUBSET Key
  BY <1>1 DEF LocalTypes
<1>4. m \in Map
  <2>1. Empty \in Map /\ m_[p] \in Map
    BY <1>1, SyncMapConstants DEF Empty, Map, LocalTypes
  <2> QED
    BY <2>1
<1> HIDE DEF there, left, m
<1>5. LocalTypes' /\ Others(p) /\ pc'[p] = there
  BY <1>1, <1>2, <1>3, <1>4 DEF LocalTypes, Others
<1>6. CallOf(p)' /\ HitOf(p)' /\ pc'[p] \notin Locked
  BY <1>3, <1>5 DEF CallOf, HitOf, Locked
<1> QED
  BY <1>2, <1>5, <1>6, WriteInv DEF Locked

-----------------------------------------------------------------------------
(* The invariant *)

LEMMA InitInv ==
    ASSUME Init
    PROVE  IInv
<1>1. Empty \in Map /\ \A k \in Key : Empty[k] = 0
  BY SyncMapConstants DEF Empty, Map
<1>2. TypeOK
  <2>1. read \in [m : Map, amended : BOOLEAN] /\ m_ \in [Proc -> Map]
    BY <1>1 DEF Init
  <2>2. misses \in 0..Cardinality(Key) /\ e_ \in [Proc -> 0..MaxEntries]
    BY SizeFacts, SyncMapConstants DEF Init
  <2> QED
    BY <2>1, <2>2 DEF Init, TypeOK
<1>3. CallOK /\ MuOK /\ HitOK
  BY SyncMapConstants DEF Init, CallOK, CallOf, MuOK, HitOK, HitOf, Locked
<1>4. MapsOK
  <2>1. Builders = {} /\ Todo = {}
    BY DEF Init, Builders, Todo
  <2>2. read.m = Empty /\ read.amended = FALSE /\ dirty = nil
    BY DEF Init
  <2>3. Fit(Empty, FALSE, nil, p_, {}, {})
    BY <1>1 DEF Fit
  <2> QED
    BY <2>1, <2>2, <2>3 DEF MapsOK
<1> QED
  BY <1>2, <1>3, <1>4 DEF IInv

LEMMA StutterInv ==
    ASSUME IInv, UNCHANGED vars
    PROVE  IInv'
<1>1. UNCHANGED <<read, dirty, misses, mu, p_, pc, call, e_, rest, m_>>
  BY DEF vars
<1>2. TypeOK'
  BY <1>1 DEF IInv, TypeOK
<1>3. CallOK' /\ MuOK' /\ HitOK'
  BY <1>1 DEF IInv, CallOK, CallOf, MuOK, HitOK, HitOf
<1>4. MapsOK'
  BY <1>1 DEF IInv, MapsOK, Builders, Todo
<1> QED
  BY <1>2, <1>3, <1>4 DEF IInv

LEMMA StepInv ==
    ASSUME IInv, NEW p \in Proc, Begin(p) \/ Step(p)
    PROVE  IInv'
<1>1. CASE Begin(p)
  BY <1>1, BeginInv, RangeInv DEF Begin
<1>2. CASE load(p) \/ delete(p) \/ tryStore(p) \/ tryLoadOrStore(p)
  BY <1>2, EntryInv, TryLoadOrStoreInv
<1>3. CASE LookupLocked(p) \/ unexpungeLocked(p) \/ storeLocked(p)
  BY <1>3, LookupLockedInv, UnexpungeInv, StoreLockedInv
<1>4. CASE StoreDirty(p) \/ StoreNew(p) \/ dirtyLocked(p) \/ StoreNewDirty(p)
  BY <1>4, StoreDirtyInv, StoreNewInv, DirtyLockedInv, StoreNewDirtyInv
<1>5. CASE \E k \in Key : tryExpungeLocked(p, k) \/ \E go \in BOOLEAN : Visit(p, k, go)
  BY <1>5, TryExpungeInv, VisitInv
<1>6. CASE RangeLocked(p)
  BY <1>6, RangeLockedInv
<1> QED
  BY <1>1, <1>2, <1>3, <1>4, <1>5, <1>6 DEF Step

(* The maps, the entries and the lock of sync.Map fit together at every step *)
(* of every goroutine.                                                       *)
THEOREM SyncMapInvariant == Spec => []IInv
<1>1. Init => IInv
  BY InitInv
<1>2. IInv /\ [Next]_vars => IInv'
  BY StepInv, StutterInv DEF Next
<1> QED
  BY <1>1, <1>2, PTL DEF Spec

(* Whenever mu is free, promoting the dirty map loses nothing: it has every  *)
(* entry of the read map that is not expunged, and the flag amended is right *)
(* about it.  For any number of goroutines, keys, values and entries.        *)
THEOREM SyncMapDirtyComplete == Spec => []DirtyComplete
<1>1. IInv => DirtyComplete
  <2> SUFFICES ASSUME IInv PROVE DirtyComplete
    OBVIOUS
  <2>1. TypeOK
    BY DEF IInv
  <2>2. ASSUME mu = nil PROVE Fit(read.m, read.amended, dirty, p_, {}, {})
    BY <2>2, NotBuilding
  <2> QED
    BY <2>1, <2>2 DEF DirtyComplete, Fit
<1> QED
  BY <1>1, SyncMapInvariant, PTL

-----------------------------------------------------------------------------
(* The monitor of a key: what follows when it is closed under the effects of *)
(* the calls in progress, and can give every combination of some answers     *)

(* A call that is in progress has an effect and an answer. *)
LEMMA CallFacts ==
    ASSUME NEW c \in Calls, NEW x \in Value \union {None}
    PROVE  After(c, x) \in Value \union {None} /\ Answer(c, x) \in Answers /\ Answer(c, x) # None
<1>1. /\ c.name \in {"Load", "Store", "LoadOrStore", "LoadAndDelete"}
      /\ c.v \in Value \union {None}
  BY DEF Calls
<1>2. After(c, x) \in Value \union {None}
  BY <1>1 DEF After
<1>3. Answer(c, x) \in Answers
  BY <1>1 DEF Answer, Answers
<1> QED
  BY <1>2, <1>3, MapSpecConstants

(* The answers of the calls that have taken effect, and what a monitor may   *)
(* hold for possible.                                                        *)
Given == [Proc -> Answers \union {None}]
Conf == [cur : Value \union {None}, ans : Given]
Monitor == [calls : [Proc -> Calls \union {None}], poss : SUBSET Conf]

(* The possibility of x with the answers f. *)
May(C, x, f) == [cur |-> x, ans |-> f] \in C

(* p's call may take effect whenever it has not yet. *)
ClosedUnder(calls, C) ==
    \A x \in Value \union {None}, f \in Given, p \in Proc :
        calls[p] # None /\ f[p] = None /\ May(C, x, f) =>
            May(C, After(calls[p], x), [f EXCEPT ![p] = Answer(calls[p], x)])

Closed(h) == ClosedUnder(h.calls, h.poss)

(* One round of Closure, and all of them up to n. *)
More(calls, C) ==
    C \union UNION {{Effect(calls, c, p) : p \in {q \in Proc : calls[q] # None /\ c.ans[q] = None}}
                    : c \in C}

Rounds(calls, C, n, u) ==
    u = [i \in 0..n |-> IF i = 0 THEN C ELSE More(calls, u[i - 1])]

(* The rounds, one after the other. *)
LEMMA RoundsAt ==
    ASSUME NEW calls, NEW C, NEW n \in Nat, NEW u, Rounds(calls, C, n, u)
    PROVE  u[0] = C /\ \A i \in 1..n : u[i] = More(calls, u[i - 1])
<1> DEFINE w == [i \in 0..n |-> IF i = 0 THEN C ELSE More(calls, u[i - 1])]
<1>1. u = w
  BY DEF Rounds
<1>2. w[0] = C /\ \A i \in 1..n : w[i] = More(calls, u[i - 1])
  OBVIOUS
<1> HIDE DEF w
<1> QED
  BY <1>1, <1>2

(* There are such rounds. *)
LEMMA RoundsExist ==
    ASSUME NEW calls, NEW C, NEW n \in Nat
    PROVE  \E u : Rounds(calls, C, n, u)
<1> DEFINE T == {i \in Nat : ~\E u : Rounds(calls, C, i, u)}
<1>1. SUFFICES ASSUME T # {} PROVE FALSE
  OBVIOUS
<1>2. PICK m \in T : \A y \in T : m <= y
  BY <1>1, LeastNumber
<1>3. m # 0
  <2> DEFINE u == [i \in 0..0 |-> C]
  <2>1. u = [i \in 0..0 |-> IF i = 0 THEN C ELSE More(calls, u[i - 1])]
    OBVIOUS
  <2> HIDE DEF u
  <2>2. Rounds(calls, C, 0, u)
    BY <2>1 DEF Rounds
  <2> QED
    BY <2>2
<1>4. m \in Nat /\ m - 1 \in Nat /\ ~(m <= m - 1)
  BY <1>3
<1>5. PICK u : Rounds(calls, C, m - 1, u)
  BY <1>2, <1>4
<1>6. u[0] = C /\ \A i \in 1..m - 1 : u[i] = More(calls, u[i - 1])
  BY <1>4, <1>5, RoundsAt
<1> DEFINE w == [i \in 0..m |-> IF i = m THEN More(calls, u[m - 1]) ELSE u[i]]
           z == [i \in 0..m |-> IF i = 0 THEN C ELSE More(calls, w[i - 1])]
<1>7. ASSUME NEW i \in 0..m PROVE w[i] = z[i]
  <2>1. CASE i = 0
    BY <2>1, <1>3, <1>4, <1>6
  <2>2. CASE i = m
    <3>1. w[i] = More(calls, u[m - 1]) /\ z[i] = More(calls, w[m - 1])
      BY <2>2, <1>3
    <3>2. w[m - 1] = u[m - 1]
      BY <1>4
    <3> QED
      BY <3>1, <3>2
  <2>3. CASE i \in 1..m - 1
    <3>1. w[i] = u[i] /\ z[i] = More(calls, w[i - 1]) /\ w[i - 1] = u[i - 1]
      BY <2>3, <1>4
    <3> QED
      BY <3>1, <2>3, <1>6
  <2> QED
    BY <2>1, <2>2, <2>3, <1>4
<1>8. w = z
  BY <1>7
<1> HIDE DEF w
<1>9. Rounds(calls, C, m, w)
  BY <1>8 DEF Rounds
<1> QED
  BY <1>9, <1>2

(* Closure is what the last of them gives. *)
LEMMA ClosureRounds ==
    ASSUME NEW calls, NEW C
    PROVE  /\ Cardinality(Proc) \in Nat
           /\ \E u : Rounds(calls, C, Cardinality(Proc), u) /\ Closure(calls, C) = u[Cardinality(Proc)]
<1> DEFINE N == Cardinality(Proc)
           Def(f) == [n \in 0..N |-> IF n = 0 THEN C ELSE More(calls, f[n - 1])]
           u == CHOOSE f : f = Def(f)
<1>1. N \in Nat
  BY MapSpecConstants, FS_CardinalityType
<1>2. \E f : f = Def(f)
  <2>1. PICK f : Rounds(calls, C, N, f)
    BY <1>1, RoundsExist
  <2>2. f = Def(f)
    BY <2>1 DEF Rounds
  <2> QED
    BY <2>2
<1>3. u = Def(u)
  BY <1>2
<1>4. Closure(calls, C) = u[N]
  BY DEF Closure, More
<1> HIDE DEF u
<1>5. Rounds(calls, C, N, u)
  BY <1>3 DEF Rounds
<1> QED
  BY <1>1, <1>4, <1>5
(* One round adds the effects of the calls in progress. *)
LEMMA MoreIs ==
    ASSUME NEW calls, NEW C
    PROVE  \A c : c \in More(calls, C) <=>
               \/ c \in C
               \/ \E d \in C, p \in Proc : calls[p] # None /\ d.ans[p] = None /\ c = Effect(calls, d, p)
  BY DEF More

(* Who has taken effect in c, and how many they are. *)
Done(c) == {q \in Proc : c.ans[q] # None}

(* While somebody's call has no effect yet, fewer than all have. *)
LEMMA DoneFacts ==
    ASSUME NEW c
    PROVE  /\ Cardinality(Done(c)) \in Nat
           /\ \A q \in Proc : c.ans[q] = None => Cardinality(Done(c)) < Cardinality(Proc)
<1>1. IsFiniteSet(Proc) /\ Done(c) \in SUBSET Proc
  BY MapSpecConstants DEF Done
<1>2. IsFiniteSet(Done(c)) /\ Cardinality(Done(c)) \in Nat /\ Cardinality(Proc) \in Nat
  BY <1>1, FS_Subset, FS_CardinalityType
<1>3. ASSUME NEW q \in Proc, c.ans[q] = None PROVE Cardinality(Done(c)) < Cardinality(Proc)
  <2>1. IsFiniteSet(Proc \ {q}) /\ Cardinality(Proc \ {q}) = Cardinality(Proc) - 1
    BY <1>1, FS_RemoveElement
  <2>2. Done(c) \in SUBSET (Proc \ {q})
    BY <1>3 DEF Done
  <2>3. Cardinality(Done(c)) <= Cardinality(Proc \ {q})
    BY <2>1, <2>2, FS_Subset
  <2> QED
    BY <2>1, <2>3, <1>2
<1> QED
  BY <1>2, <1>3

(* The effect of a call gives one more answer. *)
LEMMA EffectFacts ==
    ASSUME NEW calls \in [Proc -> Calls \union {None}], NEW d \in Conf, NEW p \in Proc,
           calls[p] # None, d.ans[p] = None
    PROVE  /\ Effect(calls, d, p) \in Conf
           /\ Cardinality(Done(Effect(calls, d, p))) = Cardinality(Done(d)) + 1
<1> DEFINE a == Answer(calls[p], d.cur)
           y == After(calls[p], d.cur)
           c == Effect(calls, d, p)
<1>1. calls[p] \in Calls /\ d.cur \in Value \union {None} /\ d.ans \in Given
  BY DEF Conf
<1>2. y \in Value \union {None} /\ a \in Answers /\ a # None
  BY <1>1, CallFacts
<1>3. c = [cur |-> y, ans |-> [d.ans EXCEPT ![p] = a]]
  BY DEF Effect
<1> HIDE DEF a, y, c
<1>4. c \in Conf /\ c.ans[p] = a /\ \A q \in Proc : q # p => c.ans[q] = d.ans[q]
  BY <1>1, <1>2, <1>3 DEF Conf, Given
<1>5. Done(c) = Done(d) \union {p} /\ p \notin Done(d)
  BY <1>2, <1>4 DEF Done
<1>6. IsFiniteSet(Done(d))
  <2>1. Done(d) \in SUBSET Proc /\ IsFiniteSet(Proc)
    BY MapSpecConstants DEF Done
  <2> QED
    BY <2>1, FS_Subset
<1>7. Cardinality(Done(c)) = Cardinality(Done(d)) + 1
  BY <1>5, <1>6, FS_AddElement
<1> QED
  BY <1>4, <1>7 DEF c

(* A round adds the effect of one call; there are no more calls than rounds, *)
(* so that the last one adds nothing new.                                    *)
LEMMA ClosureFacts ==
    ASSUME NEW calls \in [Proc -> Calls \union {None}], NEW C \in SUBSET Conf
    PROVE  /\ C \subseteq Closure(calls, C) /\ Closure(calls, C) \subseteq Conf
           /\ ClosedUnder(calls, Closure(calls, C))
<1> DEFINE N == Cardinality(Proc)
<1>1. N \in Nat
  BY ClosureRounds
<1>2. PICK u : Rounds(calls, C, N, u) /\ Closure(calls, C) = u[N]
  BY ClosureRounds
<1>3. u[0] = C /\ \A i \in 1..N : u[i] = More(calls, u[i - 1])
  BY <1>1, <1>2, RoundsAt
<1>4. \A i \in 0..N : u[i] \in SUBSET Conf /\ C \subseteq u[i]
  <2> DEFINE T == {i \in 0..N : ~(u[i] \in SUBSET Conf /\ C \subseteq u[i])}
  <2>1. SUFFICES ASSUME T # {} PROVE FALSE
    OBVIOUS
  <2>2. PICK m \in T : \A y \in T : m <= y
    <3>1. T \in SUBSET Nat
      BY <1>1
    <3> HIDE DEF T
    <3> QED
      BY <2>1, <3>1, LeastNumber
  <2>3. m \in 1..N /\ m - 1 \in 0..N /\ ~(m <= m - 1)
    BY <1>1, <1>3, <2>2
  <2>4. u[m - 1] \in SUBSET Conf /\ C \subseteq u[m - 1]
    BY <2>2, <2>3
  <2>5. u[m] = More(calls, u[m - 1])
    BY <1>3, <2>3
  <2>6. C \subseteq u[m]
    BY <2>4, <2>5, MoreIs
  <2>7. u[m] \in SUBSET Conf
    BY <2>4, <2>5, MoreIs, EffectFacts
  <2> QED
    BY <2>2, <2>6, <2>7
<1>5. \A i \in 1..N : \A c \in u[i] : Cardinality(Done(c)) < i => c \in u[i - 1]
  <2> DEFINE T == {i \in 1..N : ~\A c \in u[i] : Cardinality(Done(c)) < i => c \in u[i - 1]}
  <2>1. SUFFICES ASSUME T # {} PROVE FALSE
    OBVIOUS
  <2>2. PICK m \in T : \A y \in T : m <= y
    <3>1. T \in SUBSET Nat
      BY <1>1
    <3> HIDE DEF T
    <3> QED
      BY <2>1, <3>1, LeastNumber
  <2>3. m \in 1..N /\ m - 1 \in 0..N /\ ~(m <= m - 1)
    BY <1>1, <2>2
  <2>4. PICK c \in u[m] : Cardinality(Done(c)) < m /\ c \notin u[m - 1]
    BY <2>2
  <2>5. PICK d \in u[m - 1], p \in Proc :
            calls[p] # None /\ d.ans[p] = None /\ c = Effect(calls, d, p)
    BY <2>3, <2>4, <1>3, MoreIs
  <2>6. d \in Conf
    BY <1>4, <2>3, <2>5
  <2>7. Cardinality(Done(c)) = Cardinality(Done(d)) + 1 /\ Cardinality(Done(d)) \in Nat
    BY <2>5, <2>6, EffectFacts, DoneFacts
  <2>8. m - 1 \in 1..N /\ Cardinality(Done(d)) < m - 1
    BY <2>3, <2>4, <2>7, <1>1
  <2>9. d \in u[(m - 1) - 1]
    BY <2>2, <2>3, <2>5, <2>8
  <2>10. c \in u[m - 1]
    BY <2>5, <2>8, <2>9, <1>3, MoreIs
  <2> QED
    BY <2>4, <2>10
<1>6. ASSUME NEW c \in u[N], NEW p \in Proc, calls[p] # None, c.ans[p] = None
      PROVE  Effect(calls, c, p) \in u[N]
  <2>1. Cardinality(Done(c)) < N /\ Cardinality(Done(c)) \in Nat
    BY <1>6, DoneFacts
  <2>2. N \in 1..N
    BY <2>1, <1>1
  <2>3. c \in u[N - 1] /\ u[N] = More(calls, u[N - 1])
    BY <2>1, <2>2, <1>3, <1>5
  <2> QED
    BY <2>3, <1>6, MoreIs
<1>7. ClosedUnder(calls, u[N])
  <2> SUFFICES ASSUME NEW x \in Value \union {None}, NEW f \in Given, NEW p \in Proc,
                      calls[p] # None, f[p] = None, May(u[N], x, f)
               PROVE  May(u[N], After(calls[p], x), [f EXCEPT ![p] = Answer(calls[p], x)])
    BY DEF ClosedUnder
  <2> DEFINE c == [cur |-> x, ans |-> f]
  <2>1. c \in u[N] /\ c.ans[p] = None
    BY DEF May
  <2>2. Effect(calls, c, p) \in u[N]
    BY <2>1, <1>6
  <2>3. Effect(calls, c, p) = [cur |-> After(calls[p], x), ans |-> [f EXCEPT ![p] = Answer(calls[p], x)]]
    BY DEF Effect
  <2> QED
    BY <2>2, <2>3 DEF May
<1>8. C \subseteq u[N] /\ u[N] \in SUBSET Conf
  BY <1>1, <1>4
<1> QED
  BY <1>2, <1>7, <1>8
-----------------------------------------------------------------------------
(* Every combination of answers from A, with x under the key, is possible. *)
Cov(h, x, A) ==
    \A f \in Given : (\A q \in Proc : f[q] \in A[q]) => May(h.poss, x, f)

(* Fewer answers to be able to give. *)
LEMMA CovShrink ==
    ASSUME NEW h, NEW x, NEW A, NEW B, Cov(h, x, A), \A q \in Proc : B[q] \subseteq A[q]
    PROVE  Cov(h, x, B)
  BY DEF Cov

(* A call starts. *)
LEMMA CovCalled ==
    ASSUME NEW h \in Monitor, NEW x, NEW A, Cov(h, x, A), NEW p \in Proc, NEW c \in Calls
    PROVE  /\ Called(h, p, c) \in Monitor /\ Closed(Called(h, p, c))
           /\ Called(h, p, c).calls = [h.calls EXCEPT ![p] = c]
           /\ Cov(Called(h, p, c), x, A)
<1> DEFINE calls == [h.calls EXCEPT ![p] = c]
           C == Closure(calls, h.poss)
<1>1. calls \in [Proc -> Calls \union {None}] /\ h.poss \in SUBSET Conf
  BY DEF Monitor
<1>2. Called(h, p, c) = [calls |-> calls, poss |-> C]
  BY DEF Called
<1> HIDE DEF calls, C
<1>3. h.poss \subseteq C /\ C \subseteq Conf /\ ClosedUnder(calls, C)
  BY <1>1, ClosureFacts DEF C
<1>4. Called(h, p, c) \in Monitor /\ Closed(Called(h, p, c))
  BY <1>1, <1>2, <1>3 DEF Monitor, Closed
<1>5. Cov(Called(h, p, c), x, A)
  BY <1>2, <1>3 DEF Cov, May
<1> QED
  BY <1>2, <1>4, <1>5 DEF calls

(* The functions A and B of the goroutines differ at p at most. *)
Put(A, p, a, B) == B[p] = a /\ \A q \in Proc : q # p => B[q] = A[q]

(* A call takes effect. *)
LEMMA CovEffect ==
    ASSUME NEW h \in Monitor, Closed(h), NEW x \in Value \union {None}, NEW A, Cov(h, x, A),
           NEW p \in Proc, h.calls[p] # None, None \in A[p],
           NEW B, Put(A, p, {Answer(h.calls[p], x)}, B)
    PROVE  Cov(h, After(h.calls[p], x), B)
<1> SUFFICES ASSUME NEW f \in Given, \A q \in Proc : f[q] \in B[q]
             PROVE  May(h.poss, After(h.calls[p], x), f)
  BY DEF Cov
<1> DEFINE g == [f EXCEPT ![p] = None]
           a == Answer(h.calls[p], x)
<1>1. g \in Given /\ g[p] = None /\ \A q \in Proc : q # p => g[q] = f[q]
  BY DEF Given
<1>2. f = [g EXCEPT ![p] = a]
  BY DEF Given, Put
<1> HIDE DEF g
<1>3. \A q \in Proc : g[q] \in A[q]
  BY <1>1 DEF Put
<1>4. May(h.poss, x, g)
  BY <1>1, <1>3 DEF Cov
<1>5. May(h.poss, After(h.calls[p], x), [g EXCEPT ![p] = a])
  BY <1>1, <1>4 DEF Closed, ClosedUnder
<1> QED
  BY <1>2, <1>5

(* A call returns: the monitor keeps the possibilities that have its answer. *)
LEMMA CovAnswered ==
    ASSUME NEW h \in Monitor, NEW x \in Value \union {None}, NEW A, Cov(h, x, A),
           NEW p \in Proc, NEW a \in Answers, a \in A[p], NEW B, Put(A, p, {None}, B)
    PROVE  Cov(Answered(h, p, a), x, B)
<1> SUFFICES ASSUME NEW f \in Given, \A q \in Proc : f[q] \in B[q]
             PROVE  May(Answered(h, p, a).poss, x, f)
  BY DEF Cov
<1> DEFINE g == [f EXCEPT ![p] = a]
           c == [cur |-> x, ans |-> g]
<1>1. g \in Given /\ g[p] = a /\ \A q \in Proc : q # p => g[q] = f[q]
  BY DEF Given
<1>2. f = [g EXCEPT ![p] = None]
  BY DEF Given, Put
<1> HIDE DEF g
<1>3. \A q \in Proc : g[q] \in A[q]
  BY <1>1 DEF Put
<1>4. c \in h.poss /\ c.ans[p] = a
  BY <1>1, <1>3 DEF Cov, May
<1>5. [c EXCEPT !.ans[p] = None] = [cur |-> x, ans |-> f]
  BY <1>2
<1>6. [c EXCEPT !.ans[p] = None] \in Answered(h, p, a).poss
  BY <1>4 DEF Answered
<1> QED
  BY <1>5, <1>6 DEF May

(* The monitor forgets what p has to answer. *)
LEMMA CovWithdrawn ==
    ASSUME NEW h \in Monitor, NEW x \in Value \union {None}, NEW A, Cov(h, x, A),
           NEW p \in Proc, NEW a \in Answers \union {None}, a \in A[p],
           NEW B, Put(A, p, {None}, B)
    PROVE  Cov(Withdrawn(h, p), x, B)
<1> SUFFICES ASSUME NEW f \in Given, \A q \in Proc : f[q] \in B[q]
             PROVE  May(Withdrawn(h, p).poss, x, f)
  BY DEF Cov
<1> DEFINE g == [f EXCEPT ![p] = a]
           c == [cur |-> x, ans |-> g]
<1>1. g \in Given /\ g[p] = a /\ \A q \in Proc : q # p => g[q] = f[q]
  BY DEF Given
<1>2. f = [g EXCEPT ![p] = None]
  BY DEF Given, Put
<1> HIDE DEF g
<1>3. \A q \in Proc : g[q] \in A[q]
  BY <1>1 DEF Put
<1>4. c \in h.poss
  BY <1>1, <1>3 DEF Cov, May
<1>5. [c EXCEPT !.ans[p] = None] = [cur |-> x, ans |-> f]
  BY <1>2
<1>6. [c EXCEPT !.ans[p] = None] \in Withdrawn(h, p).poss
  BY <1>4 DEF Withdrawn
<1> QED
  BY <1>5, <1>6 DEF May
(* Several calls take effect that leave x as it is. *)
LEMMA CovEffects ==
    ASSUME NEW h \in Monitor, Closed(h), NEW x \in Value \union {None}, NEW A, Cov(h, x, A),
           NEW S \in SUBSET Proc, NEW B,
           \A q \in S : /\ h.calls[q] # None /\ After(h.calls[q], x) = x /\ None \in A[q]
                       /\ B[q] \subseteq A[q] \union {Answer(h.calls[q], x)},
           \A q \in Proc \ S : B[q] \subseteq A[q]
    PROVE  Cov(h, x, B)
<1> SUFFICES ASSUME NEW f \in Given, \A q \in Proc : f[q] \in B[q]
             PROVE  May(h.poss, x, f)
  BY DEF Cov
<1> DEFINE T == {q \in S : f[q] \notin A[q]}
           G(W) == [q \in Proc |-> IF q \in T \ W THEN None ELSE f[q]]
<1>1. T \in SUBSET Proc /\ IsFiniteSet(T) /\ Cardinality(T) \in Nat
  <2>1. T \in SUBSET Proc /\ IsFiniteSet(Proc)
    BY MapSpecConstants
  <2> HIDE DEF T
  <2> QED
    BY <2>1, FS_Subset, FS_CardinalityType
<1>2. \A q \in T : f[q] = Answer(h.calls[q], x) /\ h.calls[q] # None /\ After(h.calls[q], x) = x
                 /\ None \in A[q]
  OBVIOUS
<1>3. \A q \in Proc \ T : f[q] \in A[q]
  OBVIOUS
<1> HIDE DEF T
<1>4. \A W \in SUBSET T : G(W) \in Given
  BY DEF Given
<1>5. \A W \in SUBSET T : May(h.poss, x, G(W))
  <2> DEFINE Bad(n) == \E W \in SUBSET T : Cardinality(W) = n /\ ~May(h.poss, x, G(W))
             R == {n \in Nat : Bad(n)}
  <2>1. SUFFICES ASSUME NEW W \in SUBSET T, ~May(h.poss, x, G(W)) PROVE FALSE
    OBVIOUS
  <2>2. IsFiniteSet(W) /\ Cardinality(W) \in Nat
    BY <1>1, FS_Subset, FS_CardinalityType
  <2>3. R \in SUBSET Nat /\ R # {}
    BY <2>1, <2>2
  <2>4. PICK n \in R : \A m \in R : n <= m
    <3> HIDE DEF R
    <3> QED
      BY <2>3, LeastNumber
  <2>5. PICK V \in SUBSET T : Cardinality(V) = n /\ ~May(h.poss, x, G(V))
    BY <2>4
  <2>6. IsFiniteSet(V) /\ n \in Nat
    BY <1>1, <2>4, FS_Subset
  <2>7. V # {}
    <3>1. ASSUME NEW q \in Proc PROVE G({})[q] \in A[q]
      BY <1>2, <1>3
    <3>2. G({}) \in Given
      BY <1>4
    <3> HIDE DEF G
    <3>3. May(h.poss, x, G({}))
      BY <3>1, <3>2 DEF Cov
    <3> QED
      BY <3>3, <2>5
  <2>8. PICK p \in V : TRUE
    BY <2>7
  <2> DEFINE U == V \ {p}
             g == G(U)
  <2>9. U \in SUBSET T /\ Cardinality(U) = n - 1 /\ n - 1 \in Nat
    <3>1. Cardinality(U) = n - 1 /\ IsFiniteSet(U)
      BY <2>5, <2>6, <2>8, FS_RemoveElement
    <3>2. Cardinality(U) \in Nat
      BY <3>1, FS_CardinalityType
    <3> QED
      BY <3>1, <3>2
  <2>10. May(h.poss, x, g)
    <3> HIDE DEF G, U
    <3>1. ~(n <= n - 1)
      BY <2>6
    <3> QED
      BY <3>1, <2>4, <2>9
  <2>11. p \in Proc /\ p \in T /\ g \in Given /\ g[p] = None
    BY <1>1, <1>4, <2>8, <2>9
  <2>12. G(V) = [g EXCEPT ![p] = Answer(h.calls[p], x)]
    <3>1. f[p] = Answer(h.calls[p], x)
      BY <1>2, <2>11
    <3> QED
      BY <3>1, <2>8, <2>11
  <2> HIDE DEF g, G
  <2>13. May(h.poss, After(h.calls[p], x), [g EXCEPT ![p] = Answer(h.calls[p], x)])
    BY <1>2, <2>10, <2>11 DEF Closed, ClosedUnder
  <2> QED
    BY <1>2, <2>5, <2>11, <2>12, <2>13
<1>6. G(T) = f
  BY DEF Given
<1> HIDE DEF G
<1> QED
  BY <1>5, <1>6

(* The possibilities C0 without what p has answered. *)
Forget(D, p) == {[c EXCEPT !.ans[p] = None] : c \in D}

(* What is left still lets the other calls take effect. *)
LEMMA ForgetClosed ==
    ASSUME NEW calls \in [Proc -> Calls \union {None}], NEW D \in SUBSET Conf, NEW p \in Proc,
           \A x \in Value \union {None}, f \in Given, q \in Proc \ {p} :
               calls[q] # None /\ f[q] = None /\ May(D, x, f) =>
                   May(D, After(calls[q], x), [f EXCEPT ![q] = Answer(calls[q], x)]),
           NEW rem \in [Proc -> Calls \union {None}], Put(calls, p, None, rem)
    PROVE  Forget(D, p) \in SUBSET Conf /\ ClosedUnder(rem, Forget(D, p))
<1>1. ASSUME NEW c \in D
      PROVE  /\ c.ans \in Given /\ c.cur \in Value \union {None} /\ May(D, c.cur, c.ans)
             /\ [c EXCEPT !.ans[p] = None] = [cur |-> c.cur, ans |-> [c.ans EXCEPT ![p] = None]]
  <2>1. c \in Conf
    BY <1>1
  <2>2. c.ans \in Given /\ c.cur \in Value \union {None} /\ c = [cur |-> c.cur, ans |-> c.ans]
    BY <2>1 DEF Conf
  <2> QED
    BY <2>2, <1>1 DEF May
<1>2. Forget(D, p) \in SUBSET Conf
  <2> SUFFICES ASSUME NEW c \in D PROVE [c EXCEPT !.ans[p] = None] \in Conf
    BY DEF Forget
  <2>1. [c.ans EXCEPT ![p] = None] \in Given
    BY <1>1 DEF Given
  <2> QED
    BY <1>1, <2>1 DEF Conf
<1>3. ASSUME NEW x \in Value \union {None}, NEW f \in Given, NEW q \in Proc,
             rem[q] # None, f[q] = None, May(Forget(D, p), x, f)
      PROVE  May(Forget(D, p), After(rem[q], x), [f EXCEPT ![q] = Answer(rem[q], x)])
  <2>1. q # p /\ rem[q] = calls[q]
    BY <1>3 DEF Put
  <2>2. PICK c \in D : [cur |-> x, ans |-> f] = [c EXCEPT !.ans[p] = None]
    BY <1>3 DEF May, Forget
  <2> DEFINE g == c.ans
             a == Answer(calls[q], x)
             y == After(calls[q], x)
             d == [cur |-> y, ans |-> [g EXCEPT ![q] = a]]
  <2>3. g \in Given /\ c.cur = x /\ f = [g EXCEPT ![p] = None] /\ May(D, x, g)
    <3>1. /\ c.ans \in Given /\ May(D, c.cur, c.ans)
          /\ [cur |-> x, ans |-> f] = [cur |-> c.cur, ans |-> [c.ans EXCEPT ![p] = None]]
      BY <2>2, <1>1
    <3>2. x = c.cur /\ f = [c.ans EXCEPT ![p] = None]
      BY <3>1
    <3> QED
      BY <3>1, <3>2
  <2>4. g[q] = None
    BY <2>1, <2>3, <1>3 DEF Given
  <2> HIDE DEF g, a, y
  <2>5. d \in D
    <3>1. May(D, y, [g EXCEPT ![q] = a])
      BY <2>1, <2>3, <2>4, <1>3 DEF a, y
    <3> QED
      BY <3>1 DEF May
  <2>6. [d EXCEPT !.ans[p] = None] = [cur |-> y, ans |-> [f EXCEPT ![q] = a]]
    <3>1. [[g EXCEPT ![q] = a] EXCEPT ![p] = None] = [f EXCEPT ![q] = a]
      BY <2>1, <2>3 DEF Given
    <3> QED
      BY <3>1
  <2> HIDE DEF d
  <2>7. [cur |-> y, ans |-> [f EXCEPT ![q] = a]] \in Forget(D, p)
    BY <2>5, <2>6 DEF Forget
  <2> QED
    BY <2>7, <2>1 DEF May, a, y
<1> QED
  BY <1>2, <1>3 DEF ClosedUnder

(* A monitor after an answer. *)
LEMMA AnsweredFacts ==
    ASSUME NEW h \in Monitor, Closed(h), NEW p \in Proc, NEW a
    PROVE  /\ Answered(h, p, a) \in Monitor /\ Closed(Answered(h, p, a))
           /\ Answered(h, p, a).calls = [h.calls EXCEPT ![p] = None]
<1> DEFINE D == {c \in h.poss : c.ans[p] = a}
           rem == [h.calls EXCEPT ![p] = None]
<1>1. /\ h.calls \in [Proc -> Calls \union {None}] /\ rem \in [Proc -> Calls \union {None}]
      /\ Put(h.calls, p, None, rem) /\ D \in SUBSET Conf
  BY DEF Monitor, Put
<1>2. Answered(h, p, a) = [calls |-> rem, poss |-> Forget(D, p)]
  BY DEF Answered, Forget
<1>3. ASSUME NEW x \in Value \union {None}, NEW f \in Given, NEW q \in Proc \ {p},
             h.calls[q] # None, f[q] = None, May(D, x, f)
      PROVE  May(D, After(h.calls[q], x), [f EXCEPT ![q] = Answer(h.calls[q], x)])
  <2>1. May(h.poss, x, f) /\ f[p] = a
    BY <1>3 DEF May
  <2> DEFINE g == [f EXCEPT ![q] = Answer(h.calls[q], x)]
  <2>2. May(h.poss, After(h.calls[q], x), g)
    BY <2>1, <1>3 DEF Closed, ClosedUnder
  <2>3. g[p] = a
    BY <2>1, <1>3 DEF Given
  <2> HIDE DEF g
  <2>4. May(D, After(h.calls[q], x), g)
    BY <2>2, <2>3 DEF May
  <2> QED
    BY <2>4 DEF g
<1> HIDE DEF D, rem
<1>4. Forget(D, p) \in SUBSET Conf /\ ClosedUnder(rem, Forget(D, p))
  BY <1>1, <1>3, ForgetClosed
<1> QED
  BY <1>1, <1>2, <1>4 DEF Monitor, Closed, rem

(* A monitor after a call that was withdrawn. *)
LEMMA WithdrawnFacts ==
    ASSUME NEW h \in Monitor, Closed(h), NEW p \in Proc
    PROVE  /\ Withdrawn(h, p) \in Monitor /\ Closed(Withdrawn(h, p))
           /\ Withdrawn(h, p).calls = [h.calls EXCEPT ![p] = None]
<1> DEFINE rem == [h.calls EXCEPT ![p] = None]
<1>1. /\ h.calls \in [Proc -> Calls \union {None}] /\ rem \in [Proc -> Calls \union {None}]
      /\ Put(h.calls, p, None, rem) /\ h.poss \in SUBSET Conf
  BY DEF Monitor, Put
<1>2. Withdrawn(h, p) = [calls |-> rem, poss |-> Forget(h.poss, p)]
  BY DEF Withdrawn, Forget
<1> HIDE DEF rem
<1>3. Forget(h.poss, p) \in SUBSET Conf /\ ClosedUnder(rem, Forget(h.poss, p))
  BY <1>1, ForgetClosed DEF Closed, ClosedUnder
<1> QED
  BY <1>1, <1>2, <1>3 DEF Monitor, Closed, rem

-----------------------------------------------------------------------------
(* The invariant of linearizability *)

(* The call on k that q has in progress; a Range is a Load of every key it   *)
(* has still to visit.                                                       *)
Pending(q, k) ==
    IF pc[q] \in {"entry", "lock", "hit", "dirty"} /\ call[q].k = k THEN call[q]
    ELSE IF pc[q] = "rangelock" \/ (pc[q] = "range" /\ k \in rest[q]) THEN Call("Load", k, None)
    ELSE None

(* The entry for k that q has looked up and will use without mu; 0 for none. *)
Place(q, k) ==
    IF pc[q] = "entry" /\ call[q].k = k THEN e_[q]
    ELSE IF pc[q] = "range" /\ k \in rest[q] THEN m_[q][k]
    ELSE 0

(* The entry of k, what it holds, and so what the map holds under k. *)
EntryOf(k) == IF read.m[k] # 0 \/ dirty = nil THEN read.m[k] ELSE dirty[k]
Content(x) == IF x \in {nil, expunged} THEN None ELSE x
Now(k) == IF EntryOf(k) = 0 THEN None ELSE Content(p_[EntryOf(k)])

(* The answers that q's call on k must already be able to give: none as long *)
(* as its entry is that of the key.  When the entry has been taken out of    *)
(* the maps a LoadAndDelete has what it holds, and a Load has that or        *)
(* nothing, as it may be before or after the deletion.                       *)
Allowed(q, k) ==
    LET e == Place(q, k) IN
    IF e \in {0, EntryOf(k)} THEN {None}
    ELSE IF Pending(q, k).name = "Load" THEN {Value_(p_[e]), NotFound}
    ELSE IF Pending(q, k).name = "LoadAndDelete" THEN {Value_(p_[e])}
    ELSE {None}

MonitorOK(k) ==
    /\ hist[k] \in Monitor /\ Closed(hist[k])
    /\ \A q \in Proc : hist[k].calls[q] = Pending(q, k)
    /\ Cov(hist[k], Now(k), [q \in Proc |-> Allowed(q, k)])

HistOK == hist = [k \in Key |-> hist[k]] /\ \A k \in Key : MonitorOK(k)

(* Whoever uses an entry has one. *)
PlaceOf(q) ==
    /\ pc[q] = "entry" => e_[q] # 0
    /\ pc[q] = "range" => \A k \in rest[q] : m_[q][k] # 0

PlaceOK == \A q \in Proc : PlaceOf(q)

(* e is the entry of k in a map, or with somebody who has looked it up, and  *)
(* no entry is that of two keys.                                             *)
InMaps(e, k) == e = read.m[k] \/ (dirty # nil /\ e = dirty[k])
Of(e, k) == InMaps(e, k) \/ \E q \in Proc : Place(q, k) = e
Apart == \A k, l \in Key, e \in Entry : k # l => ~(Of(e, k) /\ Of(e, l))

(* An entry that was looked up in the read map stays there unless it is      *)
(* expunged; Store and LoadOrStore use no other.  A LoadAndDelete uses no    *)
(* entry that is in the dirty map only, as it takes it out there, and so two *)
(* of them share no other entry either.                                      *)
Sure(e, k) == e = read.m[k] \/ p_[e] = expunged
Only(e, k) == dirty # nil /\ e = dirty[k] /\ e # read.m[k]

HeldBy(q, k) ==
    /\ Pending(q, k).name \in {"Store", "LoadOrStore"} => Sure(Place(q, k), k)
    /\ Pending(q, k).name = "LoadAndDelete" => ~Only(Place(q, k), k)

Deletes(q, e, k) == Place(q, k) = e /\ Pending(q, k).name = "LoadAndDelete"

Held ==
    /\ \A q \in Proc, k \in Key : Place(q, k) # 0 => HeldBy(q, k)
    /\ \A q, r \in Proc, k \in Key, e \in Entry :
           q # r /\ Deletes(q, e, k) /\ Deletes(r, e, k) => Sure(e, k)

LInv == IInv /\ PlaceOK /\ Apart /\ Held /\ HistOK

-----------------------------------------------------------------------------
(* The entry that a goroutine uses, and its call. *)
LEMMA PlaceFacts ==
    ASSUME IInv, NEW q \in Proc, NEW k \in Key
    PROVE  /\ Place(q, k) \in 0..MaxEntries /\ (Place(q, k) # 0 => Place(q, k) \in Entry)
           /\ Pending(q, k) \in Calls \union {None}
           /\ Place(q, k) # 0 => Pending(q, k) \in Calls /\ Pending(q, k) # None
<1>1. LocalTypes
  BY Types
<1>2. Place(q, k) \in 0..MaxEntries
  BY <1>1, SyncMapConstants DEF Place, LocalTypes, Map
<1>3. pc[q] \in {"entry", "lock", "hit", "dirty"} => call[q] \in Calls
  BY DEF IInv, CallOK, CallOf
<1>4. Call("Load", k, None) \in Calls
  BY DEF Call, Calls
<1>5. Pending(q, k) \in Calls \union {None} /\ (Place(q, k) # 0 => Pending(q, k) \in Calls)
  BY <1>3, <1>4 DEF Pending, Place
<1> QED
  BY <1>2, <1>5, SyncMapConstants DEF Entry

(* The entry of a key. *)
LEMMA EntryFacts ==
    ASSUME IInv, NEW k \in Key
    PROVE  /\ EntryOf(k) \in 0..MaxEntries /\ (EntryOf(k) # 0 => EntryOf(k) \in Entry)
           /\ Now(k) \in Value \union {None}
           /\ \A e \in Entry : p_[e] \in Value \union {nil, expunged}
           /\ InMaps(EntryOf(k), k)
<1>1. MapTypes
  BY Types
<1>2. EntryOf(k) \in 0..MaxEntries /\ InMaps(EntryOf(k), k)
  BY <1>1 DEF EntryOf, MapTypes, Map, InMaps
<1>3. \A e \in Entry : p_[e] \in Value \union {nil, expunged}
  BY <1>1 DEF MapTypes
<1>4. EntryOf(k) # 0 => EntryOf(k) \in Entry
  BY <1>2, SyncMapConstants DEF Entry
<1> QED
  BY <1>2, <1>3, <1>4 DEF Now, Content

(* What an entry holds, as a value and as an answer. *)
LEMMA ContentFacts ==
    ASSUME NEW x \in Value \union {nil, expunged}
    PROVE  /\ Value_(x) = [v |-> Content(x), ok |-> Content(x) # None]
           /\ Value_(x) \in Answers /\ NotFound \in Answers
           /\ Value_(x) # None /\ NotFound # None
           /\ NotFound = [v |-> None, ok |-> FALSE]
           /\ Value_(nil) = NotFound /\ Value_(expunged) = NotFound
           /\ Content(nil) = None /\ Content(expunged) = None
<1>1. Value_(x) = [v |-> Content(x), ok |-> Content(x) # None]
  BY MapSpecConstants, SyncMapConstants DEF Value_, Content, NotFound, Found
<1>2. Value_(x) \in Answers /\ NotFound \in Answers
  BY DEF Value_, Answers, NotFound, Found
<1> QED
  BY <1>1, <1>2, MapSpecConstants DEF Value_, NotFound, Content

(* A step of p leaves the other goroutines where they are. *)
LEMMA OtherPlaces ==
    ASSUME NEW p \in Proc, Others(p), \A q \in Proc : q # p => m_'[q] = m_[q]
    PROVE  \A q \in Proc, k \in Key : q # p =>
               Place(q, k)' = Place(q, k) /\ Pending(q, k)' = Pending(q, k)
  BY DEF Others, Place, Pending

(* What the step does to an entry that is not new: it comes into no map, one *)
(* of the read map stays or is expunged, and it is left in the dirty map     *)
(* only if it was there only.                                                *)
Moves(new, k0) ==
    \A k \in Key, e \in Entry :
        /\ InMaps(e, k)' => InMaps(e, k) \/ (e = new /\ k = k0)
        /\ Of(e, k) /\ Sure(e, k) => Sure(e, k)'
        /\ Of(e, k) /\ Only(e, k)' => Only(e, k)

(* q keeps the entry for k, or lets it go ... *)
Keeps(q, k) ==
    Place(q, k)' # 0 => Place(q, k)' = Place(q, k) /\ Pending(q, k)' = Pending(q, k)

(* ... or q looks it up. *)
Finds(q, k) ==
    /\ Of(Place(q, k)', k)
    /\ HeldBy(q, k)'
    /\ Pending(q, k)'.name = "LoadAndDelete" =>
           \/ Sure(Place(q, k), k)'
           \/ \A r \in Proc : ~Deletes(r, Place(q, k)', k)

(* A step of p after which entries are still those of one key, and used      *)
(* only as they may.                                                         *)
LEMMA HeldStep ==
    ASSUME IInv, IInv', Apart, Held, NEW p \in Proc,
           \A q \in Proc, k \in Key : q # p => Place(q, k)' = Place(q, k) /\ Pending(q, k)' = Pending(q, k),
           \A k \in Key : Keeps(p, k) \/ Finds(p, k),
           NEW new, NEW k0, Moves(new, k0), new \in Entry => \A k \in Key : ~Of(new, k)
    PROVE  Apart' /\ Held'
<1>1. \A q \in Proc, k \in Key : q # p => Keeps(q, k)
  BY DEF Keeps
<1>2. ASSUME NEW e \in Entry, NEW k \in Key, Of(e, k)' PROVE Of(e, k) \/ (e = new /\ k = k0)
  <2>1. CASE InMaps(e, k)'
    BY <2>1 DEF Moves, Of
  <2>2. ASSUME NEW q \in Proc, Place(q, k)' = e PROVE Of(e, k)
    <3>1. Place(q, k)' # 0
      BY <2>2, SyncMapConstants DEF Entry
    <3>2. CASE Keeps(q, k)
      BY <3>1, <3>2, <2>2 DEF Keeps, Of
    <3>3. CASE Finds(q, k)
      BY <3>3, <2>2 DEF Finds
    <3> QED
      BY <3>2, <3>3, <1>1
  <2> QED
    BY <1>2, <2>1, <2>2 DEF Of
<1>3. Apart'
  <2> SUFFICES ASSUME NEW k \in Key, NEW l \in Key, NEW e \in Entry, k # l,
                      Of(e, k)', Of(e, l)'
               PROVE  FALSE
    BY DEF Apart
  <2>1. Of(e, k) \/ (e = new /\ k = k0)
    BY <1>2
  <2>2. Of(e, l) \/ (e = new /\ l = k0)
    BY <1>2
  <2> QED
    BY <2>1, <2>2 DEF Apart
<1>4. ASSUME NEW q \in Proc, NEW k \in Key, Place(q, k)' # 0 PROVE HeldBy(q, k)'
  <2>1. CASE Finds(q, k)
    BY <2>1 DEF Finds
  <2>2. CASE Keeps(q, k)
    <3>0. PICK e : e = Place(q, k)
      OBVIOUS
    <3>1. Place(q, k)' = e /\ Pending(q, k)' = Pending(q, k) /\ e # 0
      BY <1>4, <2>2, <3>0 DEF Keeps
    <3>2. e \in Entry /\ Of(e, k) /\ HeldBy(q, k)
      BY <3>0, <3>1, PlaceFacts DEF Of, Held
    <3>3. (Sure(e, k) => Sure(e, k)') /\ (Only(e, k)' => Only(e, k))
      BY <3>2 DEF Moves
    <3>4. (Sure(Place(q, k), k) => Sure(Place(q, k), k)') /\ (Only(Place(q, k), k)' => Only(Place(q, k), k))
      BY <3>0, <3>1, <3>3 DEF Sure, Only
    <3> QED
      BY <3>1, <3>2, <3>4 DEF HeldBy
  <2> QED
    BY <2>1, <2>2, <1>1
<1>5. ASSUME NEW q \in Proc, NEW r \in Proc, NEW k \in Key, NEW e \in Entry,
             q # r, Deletes(q, e, k)', Deletes(r, e, k)'
      PROVE  Sure(e, k)'
  <2>0. e # 0
    BY SyncMapConstants DEF Entry
  <2>1. ASSUME NEW s \in Proc, Keeps(s, k), Deletes(s, e, k)' PROVE Deletes(s, e, k)
    BY <2>1, <2>0 DEF Keeps, Deletes
  <2>2. CASE Deletes(q, e, k) /\ Deletes(r, e, k)
    <3>1. Sure(e, k) /\ Of(e, k)
      BY <2>2, <1>5 DEF Held, Of, Deletes
    <3> QED
      BY <3>1 DEF Moves
  <2>3. ASSUME NEW s \in Proc, NEW t \in Proc, s # t, Finds(s, k), Deletes(s, e, k)',
               Keeps(t, k), Deletes(t, e, k)'
        PROVE  Sure(e, k)'
    <3>1. Deletes(t, e, k)
      BY <2>1, <2>3
    <3>2. Place(s, k)' = e /\ Pending(s, k)'.name = "LoadAndDelete"
      BY <2>3 DEF Deletes
    <3>3. Sure(Place(s, k), k)'
      BY <3>1, <3>2, <2>3 DEF Finds
    <3> QED
      BY <3>2, <3>3 DEF Sure
  <2>4. (Keeps(q, k) \/ Finds(q, k)) /\ (Keeps(r, k) \/ Finds(r, k)) /\ (Keeps(q, k) \/ Keeps(r, k))
    BY <1>1, <1>5
  <2> QED
    BY <2>1, <2>2, <2>3, <2>4, <1>5
<1>6. Held'
  BY <1>4, <1>5 DEF Held
<1> QED
  BY <1>3, <1>6
-----------------------------------------------------------------------------
(* What a step may do to the monitor of a key *)

(* The calls of the others on k are where they were, and they need be able   *)
(* to give no answer that they could not give before.                        *)
Calm(p, k) ==
    \A q \in Proc : q # p => /\ Pending(q, k)' = Pending(q, k)
                            /\ Allowed(q, k)' \subseteq Allowed(q, k)

(* Nothing happens to k that its monitor sees. *)
LEMMA KeyCalm ==
    ASSUME NEW p \in Proc, NEW k \in Key, MonitorOK(k), hist'[k] = hist[k], Now(k)' = Now(k),
           Calm(p, k), Pending(p, k)' = Pending(p, k), Allowed(p, k)' \subseteq Allowed(p, k)
    PROVE  MonitorOK(k)'
<1> DEFINE A == [q \in Proc |-> Allowed(q, k)]
           B == [q \in Proc |-> Allowed(q, k)']
<1>1. \A q \in Proc : B[q] \subseteq A[q]
  BY DEF Calm
<1>2. Cov(hist[k], Now(k), A)
  BY DEF MonitorOK
<1>4. B = [q \in Proc |-> Allowed(q, k)]'
  OBVIOUS
<1> HIDE DEF A, B
<1>3. Cov(hist[k], Now(k), B)
  BY <1>1, <1>2, CovShrink
<1>5. \A q \in Proc : hist'[k].calls[q] = Pending(q, k)'
  BY DEF MonitorOK, Calm
<1> QED
  BY <1>3, <1>4, <1>5 DEF MonitorOK

(* The call of p takes effect and returns. *)
LEMMA KeyReturn ==
    ASSUME IInv, NEW p \in Proc, NEW k \in Key, MonitorOK(k), NEW c \in Calls, Pending(p, k) = c,
           None \in Allowed(p, k), hist'[k] = Answered(hist[k], p, Answer(c, Now(k))),
           Now(k)' = After(c, Now(k)), Calm(p, k), Pending(p, k)' = None, Allowed(p, k)' = {None}
    PROVE  MonitorOK(k)'
<1>0. PICK h, x, y, a : h = hist[k] /\ x = Now(k) /\ y = After(c, x) /\ a = Answer(c, x)
  OBVIOUS
<1> DEFINE A == [q \in Proc |-> Allowed(q, k)]
           D == [A EXCEPT ![p] = {a}]
           F == [A EXCEPT ![p] = {None}]
           B == [q \in Proc |-> Allowed(q, k)']
<1>1. /\ \A q \in Proc : B[q] \subseteq F[q]
      /\ Put(A, p, {a}, D) /\ Put(D, p, {None}, F) /\ None \in A[p] /\ D[p] = {a}
  BY DEF Calm, Put
<1>2. /\ h \in Monitor /\ Closed(h) /\ Cov(h, x, A) /\ x \in Value \union {None}
      /\ h.calls[p] = c /\ \A q \in Proc : h.calls[q] = Pending(q, k)
  BY <1>0, EntryFacts DEF MonitorOK
<1>3. B = [q \in Proc |-> Allowed(q, k)]'
  OBVIOUS
<1> HIDE DEF A, B, D, F
<1>4. y \in Value \union {None} /\ a \in Answers /\ c # None
  BY <1>0, <1>2, CallFacts, SyncMapConstants
<1>5. Cov(h, y, D)
  BY <1>0, <1>1, <1>2, <1>4, CovEffect
<1>6. Cov(Answered(h, p, a), y, F)
  BY <1>1, <1>2, <1>4, <1>5, CovAnswered
<1>7. Cov(Answered(h, p, a), y, B)
  BY <1>1, <1>6, CovShrink
<1>8. /\ Answered(h, p, a) \in Monitor /\ Closed(Answered(h, p, a))
      /\ Answered(h, p, a).calls = [h.calls EXCEPT ![p] = None]
  BY <1>2, AnsweredFacts
<1>9. hist'[k] = Answered(h, p, a) /\ Now(k)' = y
  BY <1>0
<1>10. \A q \in Proc : hist'[k].calls[q] = Pending(q, k)'
  BY <1>2, <1>8, <1>9 DEF Calm, Monitor
<1> QED
  BY <1>3, <1>7, <1>8, <1>9, <1>10 DEF MonitorOK

(* The call of p returns what it had to be able to answer. *)
LEMMA KeyAnswer ==
    ASSUME IInv, NEW p \in Proc, NEW k \in Key, MonitorOK(k), NEW a \in Answers,
           a \in Allowed(p, k), hist'[k] = Answered(hist[k], p, a),
           Now(k)' = Now(k), Calm(p, k), Pending(p, k)' = None, Allowed(p, k)' = {None}
    PROVE  MonitorOK(k)'
<1>0. PICK h, x : h = hist[k] /\ x = Now(k)
  OBVIOUS
<1> DEFINE A == [q \in Proc |-> Allowed(q, k)]
           F == [A EXCEPT ![p] = {None}]
           B == [q \in Proc |-> Allowed(q, k)']
<1>1. /\ \A q \in Proc : B[q] \subseteq F[q]
      /\ Put(A, p, {None}, F) /\ a \in A[p]
  BY DEF Calm, Put
<1>2. /\ h \in Monitor /\ Closed(h) /\ Cov(h, x, A) /\ x \in Value \union {None}
      /\ \A q \in Proc : h.calls[q] = Pending(q, k)
  BY <1>0, EntryFacts DEF MonitorOK
<1>3. B = [q \in Proc |-> Allowed(q, k)]'
  OBVIOUS
<1> HIDE DEF A, B, F
<1>6. Cov(Answered(h, p, a), x, F)
  BY <1>1, <1>2, CovAnswered
<1>7. Cov(Answered(h, p, a), x, B)
  BY <1>1, <1>6, CovShrink
<1>8. /\ Answered(h, p, a) \in Monitor /\ Closed(Answered(h, p, a))
      /\ Answered(h, p, a).calls = [h.calls EXCEPT ![p] = None]
  BY <1>2, AnsweredFacts
<1>9. hist'[k] = Answered(h, p, a) /\ Now(k)' = x
  BY <1>0
<1>10. \A q \in Proc : hist'[k].calls[q] = Pending(q, k)'
  BY <1>2, <1>8, <1>9 DEF Calm, Monitor
<1> QED
  BY <1>3, <1>7, <1>8, <1>9, <1>10 DEF MonitorOK

(* The entry of k stays, or it is expunged and leaves the maps; and the      *)
(* entries of k keep what they hold.                                         *)
Fades(k) ==
    \/ EntryOf(k)' = EntryOf(k)
    \/ EntryOf(k) # 0 /\ EntryOf(k)' = 0 /\ p_[EntryOf(k)] = expunged

Untouched(k) == \A e \in Entry : Of(e, k) => p_'[e] = p_[e]

(* The key holds what it held. *)
LEMMA FadesNow ==
    ASSUME IInv, NEW k \in Key, Fades(k), Untouched(k)
    PROVE  Now(k)' = Now(k)
<1>0. PICK e : e = EntryOf(k)
  OBVIOUS
<1>1. e # 0 => p_'[e] = p_[e]
  BY <1>0, EntryFacts DEF Untouched, Of
<1>2. CASE EntryOf(k)' = e
  BY <1>0, <1>1, <1>2 DEF Now, Content
<1>3. CASE e # 0 /\ EntryOf(k)' = 0 /\ p_[e] = expunged
  BY <1>0, <1>3 DEF Now, Content
<1> QED
  BY <1>0, <1>2, <1>3 DEF Fades

(* Whoever has an entry that leaves the maps finds nothing in it. *)
Loses(q, k) ==
    /\ Now(k) = None /\ Allowed(q, k) = {None} /\ Allowed(q, k)' = {NotFound}
    /\ Pending(q, k) \in Calls /\ Pending(q, k).name \in {"Load", "LoadAndDelete"}

(* The others need be able to give the answers they could, or to find        *)
(* nothing.                                                                  *)
LEMMA FadesAllowed ==
    ASSUME IInv, NEW k \in Key, Fades(k), Untouched(k), NEW q \in Proc,
           Place(q, k)' = Place(q, k), Pending(q, k)' = Pending(q, k)
    PROVE  Allowed(q, k)' = Allowed(q, k) \/ Loses(q, k)
<1>0. PICK e, d, c : e = Place(q, k) /\ d = EntryOf(k) /\ c = Pending(q, k)
  OBVIOUS
<1>1. Place(q, k)' = e /\ Pending(q, k)' = c
  BY <1>0
<1>2. e # 0 => e \in Entry /\ p_'[e] = p_[e] /\ c \in Calls
  BY <1>0, PlaceFacts DEF Untouched, Of
<1>3. CASE EntryOf(k)' = d
  <2>1. e # 0 => Value_(p_'[e]) = Value_(p_[e])
    BY <1>2
  <2> QED
    BY <1>0, <1>1, <1>3, <2>1 DEF Allowed
<1>4. CASE d # 0 /\ EntryOf(k)' = 0 /\ p_[d] = expunged
  <2>1. CASE e = 0
    BY <1>0, <1>1, <2>1 DEF Allowed
  <2>2. CASE e # 0 /\ e # d
    <3>1. Value_(p_'[e]) = Value_(p_[e])
      BY <1>2, <2>2
    <3> QED
      BY <1>0, <1>1, <1>4, <2>2, <3>1 DEF Allowed
  <2>3. CASE e # 0 /\ e = d
    <3>1. Value_(p_'[e]) = NotFound /\ Now(k) = None
      BY <1>0, <1>2, <1>4, <2>3 DEF Value_, Now, Content
    <3>2. Allowed(q, k) = {None} /\ c \in Calls
      BY <1>0, <1>2, <2>3 DEF Allowed
    <3>3. CASE c.name \in {"Load", "LoadAndDelete"}
      <4>1. Allowed(q, k)' = {NotFound}
        BY <1>1, <1>4, <2>3, <3>1, <3>3 DEF Allowed
      <4> QED
        BY <4>1, <3>1, <3>2, <3>3, <1>0 DEF Loses
    <3>4. CASE c.name \notin {"Load", "LoadAndDelete"}
      <4>1. Allowed(q, k)' = {None}
        BY <1>1, <1>4, <2>3, <3>4 DEF Allowed
      <4> QED
        BY <4>1, <3>2
    <3> QED
      BY <3>3, <3>4
  <2> QED
    BY <2>1, <2>2, <2>3
<1> QED
  BY <1>0, <1>3, <1>4 DEF Fades

(* A call that finds nothing, and leaves nothing. *)
LEMMA FindsNothing ==
    ASSUME NEW c, c.name \in {"Load", "LoadAndDelete"}
    PROVE  After(c, None) = None /\ Answer(c, None) = NotFound
  BY DEF After, Answer, NotFound

(* The monitor of a key whose entry fades away has the answers already. *)
LEMMA FadesCov ==
    ASSUME IInv, NEW p \in Proc, NEW k \in Key, MonitorOK(k), Fades(k), Untouched(k),
           \A q \in Proc : q # p => Place(q, k)' = Place(q, k) /\ Pending(q, k)' = Pending(q, k),
           NEW B, B[p] \subseteq Allowed(p, k), \A q \in Proc : q # p => B[q] = Allowed(q, k)'
    PROVE  Cov(hist[k], Now(k), B)
<1>0. PICK h, x : h = hist[k] /\ x = Now(k)
  OBVIOUS
<1> DEFINE A == [q \in Proc |-> Allowed(q, k)]
           S == {q \in Proc : q # p /\ Loses(q, k)}
<1>1. /\ h \in Monitor /\ Closed(h) /\ Cov(h, x, A) /\ x \in Value \union {None}
      /\ \A q \in Proc : h.calls[q] = Pending(q, k)
  BY <1>0, EntryFacts DEF MonitorOK
<1>2. \A q \in Proc \ S : B[q] \subseteq A[q]
  BY FadesAllowed
<1>3. ASSUME NEW q \in S
      PROVE  /\ h.calls[q] # None /\ After(h.calls[q], x) = x /\ None \in A[q]
             /\ B[q] \subseteq A[q] \union {Answer(h.calls[q], x)}
  <2>1. /\ h.calls[q] \in Calls /\ h.calls[q].name \in {"Load", "LoadAndDelete"}
        /\ x = None /\ A[q] = {None} /\ B[q] = {NotFound}
    BY <1>0, <1>1 DEF Loses
  <2>2. After(h.calls[q], None) = None /\ Answer(h.calls[q], None) = NotFound
    BY <2>1, FindsNothing
  <2> QED
    BY <2>1, <2>2, SyncMapConstants
<1>4. S \in SUBSET Proc
  OBVIOUS
<1> HIDE DEF A, S
<1>5. Cov(h, x, B)
  BY <1>1, <1>2, <1>3, <1>4, CovEffects
<1> QED
  BY <1>0, <1>5

(* A step of p that has nothing to do with k. *)
LEMMA KeyFades ==
    ASSUME IInv, NEW p \in Proc, NEW k \in Key, MonitorOK(k), Fades(k), Untouched(k),
           \A q \in Proc : q # p => Place(q, k)' = Place(q, k) /\ Pending(q, k)' = Pending(q, k),
           hist'[k] = hist[k], Pending(p, k)' = Pending(p, k), Allowed(p, k)' \subseteq Allowed(p, k)
    PROVE  MonitorOK(k)'
<1> DEFINE B == [q \in Proc |-> Allowed(q, k)']
<1>1. Cov(hist[k], Now(k), B)
  <2>1. B[p] \subseteq Allowed(p, k) /\ \A q \in Proc : q # p => B[q] = Allowed(q, k)'
    OBVIOUS
  <2> HIDE DEF B
  <2> QED
    BY <2>1, FadesCov
<1>2. B = [q \in Proc |-> Allowed(q, k)]'
  OBVIOUS
<1> HIDE DEF B
<1>3. Now(k)' = Now(k)
  BY FadesNow
<1>4. \A q \in Proc : hist'[k].calls[q] = Pending(q, k)'
  BY DEF MonitorOK
<1> QED
  BY <1>1, <1>2, <1>3, <1>4 DEF MonitorOK

(* p does not find the key. *)
LEMMA KeyMisses ==
    ASSUME IInv, NEW p \in Proc, NEW k \in Key, MonitorOK(k), Fades(k), Untouched(k),
           \A q \in Proc : q # p => Place(q, k)' = Place(q, k) /\ Pending(q, k)' = Pending(q, k),
           NEW c \in Calls, c.name \in {"Load", "LoadAndDelete"}, Pending(p, k) = c,
           None \in Allowed(p, k), Now(k)' = None,
           hist'[k] = Answered(hist[k], p, NotFound), Pending(p, k)' = None, Allowed(p, k)' = {None}
    PROVE  MonitorOK(k)'
<1>0. PICK h, x : h = hist[k] /\ x = Now(k)
  OBVIOUS
<1> DEFINE B == [q \in Proc |-> Allowed(q, k)']
           D == [B EXCEPT ![p] = {NotFound}]
<1>1. Cov(h, x, B)
  <2>1. B[p] \subseteq Allowed(p, k) /\ \A q \in Proc : q # p => B[q] = Allowed(q, k)'
    OBVIOUS
  <2> HIDE DEF B
  <2> QED
    BY <1>0, <2>1, FadesCov
<1>2. B = [q \in Proc |-> Allowed(q, k)]' /\ B[p] = {None}
  OBVIOUS
<1>3. Put(B, p, {NotFound}, D) /\ Put(D, p, {None}, B) /\ D[p] = {NotFound}
  BY DEF Put
<1> HIDE DEF B, D
<1>4. x = None /\ After(c, x) = None /\ Answer(c, x) = NotFound /\ NotFound \in Answers
  BY <1>0, FadesNow, FindsNothing DEF NotFound, Answers
<1>5. h \in Monitor /\ Closed(h) /\ h.calls[p] = c /\ c # None /\ \A q \in Proc : h.calls[q] = Pending(q, k)
  BY <1>0, SyncMapConstants DEF MonitorOK
<1>6. Cov(h, None, D)
  BY <1>1, <1>2, <1>3, <1>4, <1>5, CovEffect
<1>7. Cov(Answered(h, p, NotFound), None, B)
  BY <1>3, <1>4, <1>5, <1>6, CovAnswered
<1>8. /\ Answered(h, p, NotFound) \in Monitor /\ Closed(Answered(h, p, NotFound))
      /\ Answered(h, p, NotFound).calls = [h.calls EXCEPT ![p] = None]
  BY <1>5, AnsweredFacts
<1>9. hist'[k] = Answered(h, p, NotFound)
  BY <1>0
<1>10. \A q \in Proc : hist'[k].calls[q] = Pending(q, k)'
  BY <1>5, <1>8, <1>9 DEF Monitor
<1> QED
  BY <1>2, <1>7, <1>8, <1>9, <1>10 DEF MonitorOK

(* A call on k starts. *)
LEMMA KeyCalled ==
    ASSUME IInv, NEW p \in Proc, NEW k \in Key, MonitorOK(k), NEW c \in Calls,
           hist'[k] = Called(hist[k], p, c), Now(k)' = Now(k), Calm(p, k),
           Pending(p, k)' = c, Allowed(p, k)' \subseteq Allowed(p, k)
    PROVE  MonitorOK(k)'
<1>0. PICK h, x : h = hist[k] /\ x = Now(k)
  OBVIOUS
<1> DEFINE A == [q \in Proc |-> Allowed(q, k)]
           B == [q \in Proc |-> Allowed(q, k)']
<1>1. \A q \in Proc : B[q] \subseteq A[q]
  BY DEF Calm
<1>2. h \in Monitor /\ Cov(h, x, A) /\ \A q \in Proc : h.calls[q] = Pending(q, k)
  BY <1>0 DEF MonitorOK
<1>3. B = [q \in Proc |-> Allowed(q, k)]'
  OBVIOUS
<1> HIDE DEF A, B
<1>4. Cov(h, x, B)
  BY <1>1, <1>2, CovShrink
<1>5. /\ Called(h, p, c) \in Monitor /\ Closed(Called(h, p, c))
      /\ Called(h, p, c).calls = [h.calls EXCEPT ![p] = c]
      /\ Cov(Called(h, p, c), x, B)
  BY <1>2, <1>4, CovCalled
<1>6. hist'[k] = Called(h, p, c) /\ Now(k)' = x
  BY <1>0
<1>7. \A q \in Proc : hist'[k].calls[q] = Pending(q, k)'
  BY <1>2, <1>5, <1>6 DEF Calm, Monitor
<1> QED
  BY <1>3, <1>5, <1>6, <1>7 DEF MonitorOK

(* A call on k starts and finds nothing. *)
LEMMA KeyGone ==
    ASSUME IInv, NEW p \in Proc, NEW k \in Key, MonitorOK(k),
           NEW c \in Calls, c.name \in {"Load", "LoadAndDelete"}, None \in Allowed(p, k),
           hist'[k] = Answered(Called(hist[k], p, c), p, NotFound), Now(k) = None, Now(k)' = None,
           Calm(p, k), Pending(p, k)' = None, Allowed(p, k)' = {None}
    PROVE  MonitorOK(k)'
<1>0. PICK h, g : h = hist[k] /\ g = Called(h, p, c)
  OBVIOUS
<1> DEFINE A == [q \in Proc |-> Allowed(q, k)]
           B == [q \in Proc |-> Allowed(q, k)']
           D == [B EXCEPT ![p] = {NotFound}]
<1>1. \A q \in Proc : B[q] \subseteq A[q]
  BY DEF Calm
<1>2. h \in Monitor /\ Cov(h, None, A) /\ \A q \in Proc : h.calls[q] = Pending(q, k)
  BY <1>0 DEF MonitorOK
<1>3. B = [q \in Proc |-> Allowed(q, k)]' /\ B[p] = {None}
  OBVIOUS
<1>4. Put(B, p, {NotFound}, D) /\ Put(D, p, {None}, B) /\ D[p] = {NotFound}
  BY DEF Put
<1> HIDE DEF A, B, D
<1>5. Cov(h, None, B)
  BY <1>1, <1>2, CovShrink
<1>6. g \in Monitor /\ Closed(g) /\ g.calls = [h.calls EXCEPT ![p] = c] /\ Cov(g, None, B)
  BY <1>0, <1>2, <1>5, CovCalled
<1>7. After(c, None) = None /\ Answer(c, None) = NotFound /\ NotFound \in Answers
  BY FindsNothing DEF NotFound, Answers
<1>8. g.calls[p] = c /\ c # None
  BY <1>2, <1>6, SyncMapConstants DEF Monitor
<1>9. Cov(g, None, D)
  <2>1. /\ Put(B, p, {Answer(g.calls[p], None)}, D) /\ None \in B[p]
        /\ After(g.calls[p], None) = None /\ g.calls[p] # None
    BY <1>3, <1>4, <1>7, <1>8
  <2>2. Cov(g, After(g.calls[p], None), D)
    BY <2>1, <1>6, CovEffect
  <2> QED
    BY <2>1, <2>2
<1>10. Cov(Answered(g, p, NotFound), None, B)
  BY <1>4, <1>6, <1>7, <1>9, CovAnswered
<1>11. /\ Answered(g, p, NotFound) \in Monitor /\ Closed(Answered(g, p, NotFound))
       /\ Answered(g, p, NotFound).calls = [g.calls EXCEPT ![p] = None]
  BY <1>6, AnsweredFacts
<1>12. hist'[k] = Answered(g, p, NotFound)
  BY <1>0
<1>13. \A q \in Proc : hist'[k].calls[q] = Pending(q, k)'
  BY <1>2, <1>6, <1>11, <1>12 DEF Calm, Monitor
<1> QED
  BY <1>3, <1>10, <1>11, <1>12, <1>13 DEF MonitorOK
(* A Range that stops early looks at no more keys. *)
LEMMA KeyWithdrawn ==
    ASSUME IInv, NEW p \in Proc, NEW k \in Key, MonitorOK(k),
           NEW a \in Answers \union {None}, a \in Allowed(p, k), hist'[k] = Withdrawn(hist[k], p),
           Now(k)' = Now(k), Calm(p, k), Pending(p, k)' = None, Allowed(p, k)' = {None}
    PROVE  MonitorOK(k)'
<1>0. PICK h, x : h = hist[k] /\ x = Now(k)
  OBVIOUS
<1> DEFINE A == [q \in Proc |-> Allowed(q, k)]
           F == [A EXCEPT ![p] = {None}]
           B == [q \in Proc |-> Allowed(q, k)']
<1>1. /\ \A q \in Proc : B[q] \subseteq F[q]
      /\ Put(A, p, {None}, F) /\ a \in A[p]
  BY DEF Calm, Put
<1>2. /\ h \in Monitor /\ Closed(h) /\ Cov(h, x, A) /\ x \in Value \union {None}
      /\ \A q \in Proc : h.calls[q] = Pending(q, k)
  BY <1>0, EntryFacts DEF MonitorOK
<1>3. B = [q \in Proc |-> Allowed(q, k)]'
  OBVIOUS
<1> HIDE DEF A, B, F
<1>6. Cov(Withdrawn(h, p), x, F)
  BY <1>1, <1>2, CovWithdrawn
<1>7. Cov(Withdrawn(h, p), x, B)
  BY <1>1, <1>6, CovShrink
<1>8. /\ Withdrawn(h, p) \in Monitor /\ Closed(Withdrawn(h, p))
      /\ Withdrawn(h, p).calls = [h.calls EXCEPT ![p] = None]
  BY <1>2, WithdrawnFacts
<1>9. hist'[k] = Withdrawn(h, p) /\ Now(k)' = x
  BY <1>0
<1>10. \A q \in Proc : hist'[k].calls[q] = Pending(q, k)'
  BY <1>2, <1>8, <1>9 DEF Calm, Monitor
<1> QED
  BY <1>3, <1>7, <1>8, <1>9, <1>10 DEF MonitorOK

(* A LoadAndDelete takes the entry of k out of the dirty map.  This is when  *)
(* it takes effect; whoever has looked the entry up may be before it or      *)
(* after it.                                                                 *)
LEMMA KeyDelete ==
    ASSUME IInv, NEW p \in Proc, NEW k \in Key, MonitorOK(k), hist'[k] = hist[k],
           NEW e \in Entry, EntryOf(k) = e, EntryOf(k)' = 0, p_' = p_,
           NEW c \in Calls, Pending(p, k) = c, c.name = "LoadAndDelete", Pending(p, k)' = c,
           Place(p, k) = 0, Place(p, k)' = e,
           \A q \in Proc : q # p => Place(q, k)' = Place(q, k) /\ Pending(q, k)' = Pending(q, k),
           \A q \in Proc : q # p /\ Place(q, k) = e => Pending(q, k).name = "Load"
    PROVE  MonitorOK(k)'
<1>0. PICK h, x, a : h = hist[k] /\ x = Content(p_[e]) /\ a = Value_(p_[e])
  OBVIOUS
<1> DEFINE S == {q \in Proc : q # p /\ Place(q, k) = e}
           A == [q \in Proc |-> Allowed(q, k)]
           D == [q \in Proc |-> IF q \in S THEN {None, a} ELSE A[q]]
           F == [D EXCEPT ![p] = {a}]
           G == [q \in Proc |-> IF q \in S THEN {None, a, NotFound} ELSE F[q]]
           B == [q \in Proc |-> Allowed(q, k)']
<1>1. e # 0 /\ p_[e] \in Value \union {nil, expunged}
  BY EntryFacts, SyncMapConstants DEF Entry
<1>2. /\ a = [v |-> x, ok |-> x # None] /\ a \in Answers /\ NotFound \in Answers
      /\ x \in Value \union {None} /\ Now(k) = x /\ Now(k)' = None
  <2>1. a = [v |-> x, ok |-> x # None] /\ a \in Answers /\ NotFound \in Answers
    BY <1>0, <1>1, ContentFacts
  <2>2. x \in Value \union {None} /\ Now(k) = x /\ Now(k)' = None
    BY <1>0, <1>1 DEF Now, Content
  <2> QED
    BY <2>1, <2>2
<1>3. /\ h \in Monitor /\ Closed(h) /\ Cov(h, x, A)
      /\ \A q \in Proc : h.calls[q] = Pending(q, k)
  BY <1>0, <1>2 DEF MonitorOK
<1>4. \A q \in S : A[q] = {None}
  BY DEF Allowed
<1>5. A[p] = {None} /\ p \notin S /\ D[p] = {None}
  BY DEF Allowed
<1>6. \A q \in S : h.calls[q] \in Calls /\ h.calls[q].name = "Load" /\ h.calls[q] # None
  BY <1>1, <1>3, PlaceFacts
<1>7. ASSUME NEW q \in S, NEW y \in Value \union {None}
      PROVE  After(h.calls[q], y) = y /\ Answer(h.calls[q], y) = [v |-> y, ok |-> y # None]
  BY <1>6 DEF After, Answer
<1>8. ASSUME NEW q \in Proc PROVE B[q] \subseteq G[q]
  <2>1. CASE q = p
    <3>1. Allowed(p, k)' = {Value_(p_[e])}
      BY <1>1 DEF Allowed
    <3>2. G[p] = {a}
      BY <1>5
    <3> QED
      BY <3>1, <3>2, <2>1, <1>0
  <2>2. CASE q \in S
    <3>1. Place(q, k)' = e /\ Pending(q, k)'.name = "Load"
      BY <2>2
    <3>2. Allowed(q, k)' = {Value_(p_[e]), NotFound}
      BY <3>1, <1>1 DEF Allowed
    <3> QED
      BY <3>2, <2>2, <1>0
  <2>3. CASE q # p /\ q \notin S
    <3>1. Place(q, k)' = Place(q, k) /\ Pending(q, k)' = Pending(q, k) /\ Place(q, k) # e
      BY <2>3
    <3>2. Allowed(q, k)' = Allowed(q, k)
      BY <3>1 DEF Allowed
    <3> QED
      BY <3>2, <2>3
  <2> QED
    BY <2>1, <2>2, <2>3
<1>9. /\ \A q \in Proc \ S : D[q] \subseteq A[q]
      /\ \A q \in Proc \ S : G[q] \subseteq F[q]
      /\ \A q \in S : None \in A[q] /\ D[q] \subseteq A[q] \union {a}
      /\ \A q \in S : None \in F[q] /\ G[q] \subseteq F[q] \union {NotFound}
      /\ Put(D, p, {a}, F) /\ None \in D[p] /\ S \in SUBSET Proc
  BY <1>4, <1>5 DEF Put
<1>10. B = [q \in Proc |-> Allowed(q, k)]'
  OBVIOUS
<1> HIDE DEF A, B, D, F, G, S
<1>11. Cov(h, x, D)
  <2>1. \A q \in S : /\ h.calls[q] # None /\ After(h.calls[q], x) = x /\ None \in A[q]
                     /\ D[q] \subseteq A[q] \union {Answer(h.calls[q], x)}
    BY <1>2, <1>6, <1>7, <1>9
  <2> QED
    BY <2>1, <1>2, <1>3, <1>9, CovEffects
<1>12. h.calls[p] = c /\ c # None /\ After(c, x) = None /\ Answer(c, x) = a
  BY <1>2, <1>3, SyncMapConstants DEF After, Answer
<1>13. Cov(h, None, F)
  BY <1>2, <1>3, <1>9, <1>11, <1>12, CovEffect
<1>14. Cov(h, None, G)
  <2>1. \A q \in S : Answer(h.calls[q], None) = NotFound
    BY <1>7 DEF NotFound
  <2>2. \A q \in S : /\ h.calls[q] # None /\ After(h.calls[q], None) = None /\ None \in F[q]
                     /\ G[q] \subseteq F[q] \union {Answer(h.calls[q], None)}
    BY <2>1, <1>6, <1>7, <1>9
  <2> QED
    BY <2>2, <1>3, <1>9, <1>13, CovEffects
<1>15. Cov(h, None, B)
  BY <1>8, <1>14, CovShrink
<1>16. \A q \in Proc : hist'[k].calls[q] = Pending(q, k)'
  BY <1>0, <1>3
<1> QED
  BY <1>0, <1>2, <1>3, <1>10, <1>15, <1>16 DEF MonitorOK

(* p is in no call on k. *)
LEMMA Elsewhere ==
    ASSUME NEW p \in Proc, NEW k \in Key,
           \/ pc[p] = "idle"
           \/ pc[p] \in {"entry", "lock", "hit", "dirty"} /\ call[p].k # k
    PROVE  Place(p, k) = 0 /\ Pending(p, k) = None /\ Allowed(p, k) = {None}
<1>1. Place(p, k) = 0 /\ Pending(p, k) = None
  BY DEF Place, Pending
<1> QED
  BY <1>1 DEF Allowed

(* The same after a step. *)
LEMMA ElsewhereAfter ==
    ASSUME NEW p \in Proc, NEW k \in Key,
           \/ pc'[p] = "idle"
           \/ pc'[p] \in {"entry", "lock", "hit", "dirty"} /\ call'[p].k # k
    PROVE  Place(p, k)' = 0 /\ Pending(p, k)' = None /\ Allowed(p, k)' = {None}
<1>1. Place(p, k)' = 0 /\ Pending(p, k)' = None
  BY DEF Place, Pending
<1> QED
  BY <1>1 DEF Allowed

(* The call of p on k, at a place without an entry. *)
LEMMA Waiting ==
    ASSUME NEW p \in Proc, NEW k \in Key, pc[p] \in {"lock", "hit", "dirty"}, call[p].k = k
    PROVE  Place(p, k) = 0 /\ Pending(p, k) = call[p] /\ Allowed(p, k) = {None}
<1>1. Place(p, k) = 0 /\ Pending(p, k) = call[p]
  BY DEF Place, Pending
<1> QED
  BY <1>1 DEF Allowed

(* The same after a step. *)
LEMMA WaitingAfter ==
    ASSUME NEW p \in Proc, NEW k \in Key, pc'[p] \in {"lock", "hit", "dirty"}, call'[p].k = k
    PROVE  Place(p, k)' = 0 /\ Pending(p, k)' = call'[p] /\ Allowed(p, k)' = {None}
<1>1. Place(p, k)' = 0 /\ Pending(p, k)' = call'[p]
  BY DEF Place, Pending
<1> QED
  BY <1>1 DEF Allowed

(* The steps of a call on k. *)
LEMMA CallStep ==
    ASSUME LInv, IInv', NEW p \in Proc, NEW k \in Key,
           pc[p] \in {"idle", "entry", "lock", "hit", "dirty"}, pc[p] # "idle" => call[p].k = k,
           pc'[p] \in {"idle", "entry", "lock", "hit", "dirty"}, pc'[p] # "idle" => call'[p].k = k,
           pc'[p] = "entry" => e_'[p] # 0,
           Others(p), m_' = m_, Keeps(p, k) \/ Finds(p, k),
           NEW new, NEW k0, Moves(new, k0), new \in Entry => \A l \in Key : ~Of(new, l),
           \A l \in Key : l # k => Fades(l) /\ Untouched(l) /\ hist'[l] = hist[l],
           hist' = [l \in Key |-> hist'[l]], MonitorOK(k)'
    PROVE  LInv'
<1>1. \A q \in Proc, l \in Key : q # p => Place(q, l)' = Place(q, l) /\ Pending(q, l)' = Pending(q, l)
  BY OtherPlaces
<1>2. ASSUME NEW l \in Key, l # k
      PROVE  /\ Place(p, l)' = 0 /\ Pending(p, l)' = Pending(p, l)
             /\ Allowed(p, l)' = Allowed(p, l)
  BY <1>2, Elsewhere, ElsewhereAfter
<1>3. PlaceOK'
  <2>1. ASSUME NEW q \in Proc, q # p PROVE PlaceOf(q)'
    BY <2>1 DEF LInv, PlaceOK, PlaceOf, Others
  <2>2. PlaceOf(p)'
    BY DEF PlaceOf
  <2> QED
    BY <2>1, <2>2 DEF PlaceOK
<1>4. \A l \in Key : Keeps(p, l) \/ Finds(p, l)
  BY <1>2 DEF Keeps
<1>5. Apart' /\ Held'
  BY <1>1, <1>4, HeldStep DEF LInv
<1>6. ASSUME NEW l \in Key, l # k PROVE MonitorOK(l)'
  <2>1. /\ IInv /\ MonitorOK(l) /\ Fades(l) /\ Untouched(l) /\ hist'[l] = hist[l]
        /\ Pending(p, l)' = Pending(p, l) /\ Allowed(p, l)' \subseteq Allowed(p, l)
    BY <1>2, <1>6 DEF LInv, HistOK
  <2> QED
    BY <2>1, <1>1, KeyFades
<1>7. HistOK'
  BY <1>6 DEF HistOK
<1> QED
  BY <1>3, <1>5, <1>7 DEF LInv

(* A call on k returns. *)
LEMMA ReturnStep ==
    ASSUME LInv, IInv', NEW p \in Proc, NEW k \in Key, NEW a,
           pc[p] \in {"entry", "lock", "hit", "dirty"}, call[p].k = k, Return(p, a),
           NEW new, NEW k0, Moves(new, k0), new \in Entry => \A l \in Key : ~Of(new, l),
           \A l \in Key : l # k => Fades(l) /\ Untouched(l),
           hist'[k] = Answered(hist[k], p, a) => MonitorOK(k)'
    PROVE  LInv'
<1>1. IInv /\ HistOK
  BY DEF LInv
<1>2. Others(p) /\ pc'[p] = "idle" /\ m_' = m_
  BY <1>1, ReturnFacts DEF Return
<1>3. /\ hist' = [l \in Key |-> hist'[l]] /\ hist'[k] = Answered(hist[k], p, a)
      /\ \A l \in Key : l # k => hist'[l] = hist[l]
  <2>1. hist' = [hist EXCEPT ![k] = Answered(hist[k], p, a)] /\ hist = [l \in Key |-> hist[l]]
    BY <1>1 DEF Return, HistOK
  <2> QED
    BY <2>1
<1>4. Keeps(p, k)
  BY <1>2, ElsewhereAfter DEF Keeps
<1> QED
  BY <1>2, <1>3, <1>4, CallStep

(* The maps stay, and so does what is expunged. *)
LEMMA MovesNot ==
    ASSUME read' = read, dirty' = dirty,
           \A e \in Entry : p_[e] = expunged <=> p_'[e] = expunged
    PROVE  Moves(0, 0)
  BY DEF Moves, InMaps, Sure, Only

(* The maps stay, and so do the entries of the keys. *)
LEMMA SameEntry ==
    ASSUME read' = read, dirty' = dirty
    PROVE  \A k \in Key : EntryOf(k)' = EntryOf(k) /\ Fades(k)
  BY DEF Fades, EntryOf

(* A store to an entry of k does not touch other keys. *)
LEMMA ApartUntouched ==
    ASSUME Apart, NEW k \in Key, NEW e \in Entry, Of(e, k), \A i \in Entry : i # e => p_'[i] = p_[i],
           NEW l \in Key, l # k
    PROVE  Untouched(l)
  BY DEF Apart, Untouched

(* The others are used to what p does to k. *)
LEMMA CalmStep ==
    ASSUME NEW p \in Proc, NEW k \in Key,
           \A q \in Proc : q # p => Place(q, k)' = Place(q, k) /\ Pending(q, k)' = Pending(q, k),
           \A q \in Proc : q # p /\ Place(q, k) # 0 =>
               /\ Place(q, k) = EntryOf(k)' <=> Place(q, k) = EntryOf(k)
               /\ Place(q, k) # EntryOf(k) => p_'[Place(q, k)] = p_[Place(q, k)]
    PROVE  Calm(p, k)
<1> SUFFICES ASSUME NEW q \in Proc, q # p PROVE Allowed(q, k)' = Allowed(q, k)
  BY DEF Calm
<1>0. PICK e, d, c : e = Place(q, k) /\ d = EntryOf(k) /\ c = Pending(q, k)
  OBVIOUS
<1>1. Place(q, k)' = e /\ Pending(q, k)' = c
  BY <1>0
<1>2. CASE e \in {0, d}
  <2>1. e \in {0, EntryOf(k)'}
    BY <1>0, <1>2
  <2> QED
    BY <1>0, <1>1, <1>2, <2>1 DEF Allowed
<1>3. CASE e \notin {0, d}
  <2>1. e \notin {0, EntryOf(k)'} /\ p_'[e] = p_[e]
    BY <1>0, <1>3
  <2>2. Value_(p_'[e]) = Value_(p_[e])
    BY <2>1
  <2> QED
    BY <1>0, <1>1, <1>3, <2>1, <2>2 DEF Allowed
<1> QED
  BY <1>2, <1>3

-----------------------------------------------------------------------------
(* The steps: on an entry *)

(* The call of p takes effect on the entry of its key, and returns. *)
LEMMA WriteStep ==
    ASSUME LInv, IInv', NEW p \in Proc, NEW k \in Key, NEW c \in Calls, call[p] = c, c.k = k,
           pc[p] \in {"entry", "lock", "hit"}, NEW e \in Entry, pc[p] = "entry" => e_[p] = e,
           EntryOf(k) = e, EntryOf(k)' = e, Moves(0, 0), \A l \in Key : l # k => Fades(l),
           NEW x, p_' = [p_ EXCEPT ![e] = x], Content(x) = After(c, Content(p_[e])),
           Return(p, Answer(c, Content(p_[e])))
    PROVE  LInv'
<1>1. IInv /\ Apart /\ MonitorOK(k) /\ e # 0
  BY SyncMapConstants DEF LInv, HistOK, Entry
<1>2. p_'[e] = x /\ \A i \in Entry : i # e => p_'[i] = p_[i]
  BY <1>1, Types DEF MapTypes
<1>3. Now(k) = Content(p_[e]) /\ Now(k)' = Content(x)
  <2>1. Now(k)' = Content(p_'[e])
    BY <1>1 DEF Now, Content
  <2> QED
    BY <2>1, <1>1, <1>2 DEF Now
<1>4. Of(e, k)
  BY <1>1, EntryFacts DEF Of
<1>5. \A l \in Key : l # k => Fades(l) /\ Untouched(l)
  BY <1>1, <1>2, <1>4, ApartUntouched
<1>6. Others(p) /\ pc'[p] = "idle" /\ m_' = m_
  BY <1>1, ReturnFacts DEF Return
<1>7. \A q \in Proc, l \in Key : q # p => Place(q, l)' = Place(q, l) /\ Pending(q, l)' = Pending(q, l)
  BY <1>6, OtherPlaces
<1>8. Calm(p, k)
  <2>1. ASSUME NEW q \in Proc, q # p, Place(q, k) # 0, Place(q, k) # EntryOf(k)
        PROVE  p_'[Place(q, k)] = p_[Place(q, k)]
    BY <2>1, <1>1, <1>2, PlaceFacts
  <2> QED
    BY <2>1, <1>7, CalmStep
<1>9. Pending(p, k) = c /\ Place(p, k) \in {0, e}
  BY DEF Pending, Place
<1>10. Allowed(p, k) = {None}
  BY <1>9 DEF Allowed
<1>11. Pending(p, k)' = None /\ Allowed(p, k)' = {None}
  BY <1>6, ElsewhereAfter
<1>12. ASSUME hist'[k] = Answered(hist[k], p, Answer(c, Content(p_[e]))) PROVE MonitorOK(k)'
  BY <1>1, <1>3, <1>8, <1>9, <1>10, <1>11, <1>12, KeyReturn
<1>13. 0 \notin Entry
  BY SyncMapConstants DEF Entry
<1> QED
  BY <1>5, <1>12, <1>13, ReturnStep

(* The call of p returns what is in an entry that has left the maps; e holds *)
(* nothing afterwards if it is deleted.                                      *)
LEMMA OrphanStep ==
    ASSUME LInv, IInv', NEW p \in Proc, NEW k \in Key, NEW c \in Calls, call[p] = c, c.k = k,
           pc[p] = "entry", NEW e \in Entry, e_[p] = e, e # EntryOf(k), UNCHANGED maps,
           c.name \in {"Load", "LoadAndDelete"},
           \/ p_' = p_
           \/ p_[e] # expunged /\ p_' = [p_ EXCEPT ![e] = nil] /\ c.name = "LoadAndDelete",
           Return(p, Value_(p_[e]))
    PROVE  LInv'
<1>1. IInv /\ Apart /\ Held /\ MonitorOK(k) /\ e # 0 /\ 0 \notin Entry
  BY SyncMapConstants DEF LInv, HistOK, Entry
<1>2. /\ \A i \in Entry : i # e => p_'[i] = p_[i]
      /\ p_'[e] # p_[e] => p_'[e] = nil /\ p_[e] # expunged /\ c.name = "LoadAndDelete"
  BY <1>1, Types DEF MapTypes
<1>3. read' = read /\ dirty' = dirty
  BY DEF maps
<1>4. Place(p, k) = e /\ Pending(p, k) = c
  BY DEF Place, Pending
<1>5. Of(e, k)
  BY <1>4 DEF Of
<1>6. \A l \in Key : EntryOf(l)' = EntryOf(l) /\ Fades(l)
  BY <1>3, SameEntry
<1>7. \A l \in Key : l # k => Fades(l) /\ Untouched(l)
  BY <1>1, <1>2, <1>5, <1>6, ApartUntouched
<1>8. Others(p) /\ pc'[p] = "idle" /\ m_' = m_
  BY <1>1, ReturnFacts DEF Return
<1>9. \A q \in Proc, l \in Key : q # p => Place(q, l)' = Place(q, l) /\ Pending(q, l)' = Pending(q, l)
  BY <1>8, OtherPlaces
<1>10. Now(k)' = Now(k)
  <2>1. EntryOf(k) # 0 => p_'[EntryOf(k)] = p_[EntryOf(k)]
    BY <1>1, <1>2, EntryFacts
  <2> QED
    BY <2>1, <1>6 DEF Now, Content
<1>11. p_[e] \in Value \union {nil, expunged}
  BY <1>1, EntryFacts
<1>12. Calm(p, k)
  <2> SUFFICES ASSUME NEW q \in Proc, q # p PROVE Allowed(q, k)' \subseteq Allowed(q, k)
    BY <1>9 DEF Calm
  <2>0. PICK i, d, b : i = Place(q, k) /\ d = EntryOf(k) /\ b = Pending(q, k)
    OBVIOUS
  <2>1. Place(q, k)' = i /\ Pending(q, k)' = b /\ EntryOf(k)' = d /\ (i # 0 => i \in Entry)
    BY <2>0, <1>1, <1>6, <1>9, PlaceFacts
  <2>2. CASE i = 0 \/ i # e \/ p_'[e] = p_[e]
    <3>1. i # 0 => p_'[i] = p_[i]
      BY <2>1, <2>2, <1>2
    <3>2. i # 0 => Value_(p_'[i]) = Value_(p_[i])
      BY <3>1
    <3> QED
      BY <2>0, <2>1, <3>2 DEF Allowed
  <2>3. CASE i = e /\ p_'[e] # p_[e]
    <3>1. p_'[e] = nil /\ p_[e] # expunged /\ c.name = "LoadAndDelete"
      BY <2>3, <1>2
    <3>2. Value_(p_'[e]) = NotFound
      BY <3>1 DEF Value_
    <3>3. b.name # "LoadAndDelete"
      <4>1. SUFFICES ASSUME b.name = "LoadAndDelete" PROVE FALSE
        OBVIOUS
      <4>2. Deletes(q, e, k) /\ Deletes(p, e, k)
        BY <4>1, <3>1, <2>0, <2>3, <1>4 DEF Deletes
      <4>3. Sure(e, k)
        BY <4>2, <1>1 DEF Held
      <4> QED
        BY <4>3, <3>1, <1>1 DEF Sure, EntryOf
    <3>4. e \notin {0, d}
      BY <1>1, <2>0
    <3>5. Allowed(q, k)' = IF b.name = "Load" THEN {NotFound} ELSE {None}
      BY <2>1, <2>3, <3>2, <3>3, <3>4 DEF Allowed
    <3>6. Allowed(q, k) = IF b.name = "Load" THEN {Value_(p_[e]), NotFound} ELSE {None}
      BY <2>0, <2>3, <3>3, <3>4 DEF Allowed
    <3> QED
      BY <3>5, <3>6
  <2> QED
    BY <2>2, <2>3
<1>13. Value_(p_[e]) \in Allowed(p, k) /\ Value_(p_[e]) \in Answers
  BY <1>1, <1>4, <1>11, ContentFacts DEF Allowed
<1>14. Pending(p, k)' = None /\ Allowed(p, k)' = {None}
  BY <1>8, ElsewhereAfter
<1>15. ASSUME hist'[k] = Answered(hist[k], p, Value_(p_[e])) PROVE MonitorOK(k)'
  BY <1>1, <1>10, <1>12, <1>13, <1>14, <1>15, KeyAnswer
<1>16. Moves(0, 0)
  BY <1>2, <1>3, MovesNot, SyncMapConstants
<1> QED
  BY <1>1, <1>7, <1>15, <1>16, ReturnStep

(* What is known of p at an entry. *)
LEMMA AtEntry ==
    ASSUME LInv, NEW p \in Proc, pc[p] = "entry"
    PROVE  /\ call[p] \in Calls /\ call[p].k \in Key /\ e_[p] \in Entry
           /\ Place(p, call[p].k) = e_[p] /\ Pending(p, call[p].k) = call[p]
           /\ call[p].name \in {"Store", "LoadOrStore"} =>
                  call[p].v \in Value /\ (p_[e_[p]] = expunged \/ e_[p] = EntryOf(call[p].k))
           /\ p_[e_[p]] \in Value \union {nil, expunged}
<1>1. IInv /\ PlaceOK /\ Held
  BY DEF LInv
<1>2. call[p] \in Calls /\ call[p].k \in Key
  BY <1>1 DEF IInv, CallOK, CallOf, Calls
<1>3. Place(p, call[p].k) = e_[p] /\ Pending(p, call[p].k) = call[p] /\ e_[p] # 0
  BY <1>1 DEF Place, Pending, PlaceOK, PlaceOf
<1>4. e_[p] \in Entry
  BY <1>1, <1>2, <1>3, PlaceFacts
<1>5. p_[e_[p]] \in Value \union {nil, expunged}
  BY <1>1, <1>2, <1>4, EntryFacts
<1>6. ASSUME call[p].name \in {"Store", "LoadOrStore"}
      PROVE  call[p].v \in Value /\ (p_[e_[p]] = expunged \/ e_[p] = EntryOf(call[p].k))
  <2>1. call[p].v \in Value
    BY <1>1, <1>6 DEF IInv, CallOK, CallOf
  <2>2. Sure(e_[p], call[p].k)
    BY <1>1, <1>2, <1>3, <1>6 DEF Held, HeldBy
  <2> QED
    BY <2>1, <2>2, <1>3 DEF Sure, EntryOf
<1> QED
  BY <1>2, <1>3, <1>4, <1>5, <1>6

(* load answers what the entry holds. *)
LEMMA LoadLin ==
    ASSUME LInv, NEW p \in Proc, load(p)
    PROVE  LInv'
<1>0. PICK c, k, e : c = call[p] /\ k = c.k /\ e = e_[p]
  OBVIOUS
<1>1. /\ pc[p] = "entry" /\ c.name = "Load" /\ Return(p, Value_(p_[e]))
      /\ UNCHANGED maps /\ p_' = p_
  BY <1>0 DEF load, At, In, Cur
<1>2. c \in Calls /\ k \in Key /\ e \in Entry /\ p_[e] \in Value \union {nil, expunged}
  BY <1>0, <1>1, AtEntry
<1>3. IInv'
  BY EntryInv DEF LInv
<1>4. CASE e # EntryOf(k)
  BY <1>0, <1>1, <1>2, <1>3, <1>4, OrphanStep
<1>5. CASE e = EntryOf(k)
  <2>1. read' = read /\ dirty' = dirty
    BY <1>1 DEF maps
  <2>2. \A l \in Key : EntryOf(l)' = EntryOf(l) /\ Fades(l)
    BY <2>1, SameEntry
  <2>6. EntryOf(k)' = e
    BY <1>2, <1>5, <2>2
  <2>7. Moves(0, 0)
    BY <2>1, <1>1, MovesNot
  <2>3. PICK x : x = p_[e]
    OBVIOUS
  <2>4. p_' = [p_ EXCEPT ![e] = x]
    BY <1>1, <1>2, <2>3, Types DEF LInv, MapTypes
  <2>5. Content(x) = After(c, Content(p_[e])) /\ Value_(p_[e]) = Answer(c, Content(p_[e]))
    <3>1. Value_(x) = [v |-> Content(x), ok |-> Content(x) # None]
      BY <1>2, <2>3, ContentFacts
    <3>2. After(c, Content(x)) = Content(x)
      BY <1>1 DEF After
    <3>3. Answer(c, Content(x)) = [v |-> Content(x), ok |-> Content(x) # None]
      BY <1>1 DEF Answer
    <3> QED
      BY <2>3, <3>1, <3>2, <3>3
  <2>8. Return(p, Answer(c, Content(p_[e])))
    BY <1>1, <2>5 DEF Return
  <2>9. Content(x) = After(c, Content(p_[e]))
    BY <2>5
  <2>10. /\ c \in Calls /\ call[p] = c /\ c.k = k /\ k \in Key /\ pc[p] \in {"entry", "lock", "hit"}
         /\ e \in Entry /\ e_[p] = e /\ EntryOf(k) = e /\ \A l \in Key : l # k => Fades(l)
    BY <1>0, <1>1, <1>2, <1>5, <2>2
  <2> QED
    BY <1>3, <2>4, <2>6, <2>7, <2>8, <2>9, <2>10, WriteStep
<1> QED
  BY <1>4, <1>5

(* What the calls leave in an entry that is not expunged, and answer. *)
LEMMA StoreEffect ==
    ASSUME NEW c, c.name = "Store", c.v \in Value, NEW x
    PROVE  Content(c.v) = After(c, Content(x)) /\ Found(c.v) = Answer(c, Content(x))
<1>1. Content(c.v) = c.v
  BY SyncMapConstants DEF Content
<1>2. After(c, Content(x)) = c.v
  BY DEF After
<1>3. Answer(c, Content(x)) = [v |-> c.v, ok |-> TRUE]
  BY DEF Answer
<1> QED
  BY <1>1, <1>2, <1>3 DEF Found

(* LoadOrStore leaves what it finds, or its value. *)
LEMMA LoadOrStoreEffect ==
    ASSUME NEW p \in Proc, call[p].name = "LoadOrStore", call[p].v \in Value,
           NEW x \in Value \union {nil}, NEW a, a = LoadedOrStored(p, x)
    PROVE  /\ a.v \in Value /\ Content(a.v) = After(call[p], Content(x))
           /\ a = Answer(call[p], Content(x))
<1>0. PICK c : c = call[p]
  OBVIOUS
<1>1. After(c, Content(x)) = IF Content(x) = None THEN c.v ELSE Content(x)
  BY <1>0 DEF After
<1>2. Answer(c, Content(x)) = [v |-> IF Content(x) = None THEN c.v ELSE Content(x), ok |-> Content(x) # None]
  BY <1>0 DEF Answer
<1>3. CASE x = nil
  <2>1. Content(x) = None /\ a = [v |-> c.v, ok |-> FALSE]
    BY <1>0, <1>3 DEF Content, LoadedOrStored, Stored
  <2>2. a.v = c.v /\ Content(c.v) = c.v /\ c.v \in Value
    BY <2>1, <1>0, SyncMapConstants DEF Content
  <2>3. After(c, Content(x)) = c.v /\ Answer(c, Content(x)) = [v |-> c.v, ok |-> FALSE]
    BY <1>1, <1>2, <2>1
  <2>4. Content(a.v) = c.v
    BY <2>2
  <2> QED
    BY <1>0, <2>1, <2>2, <2>3, <2>4
<1>4. CASE x # nil
  <2>1. x \in Value /\ x # None /\ Content(x) = x
    BY <1>4, SyncMapConstants, MapSpecConstants DEF Content
  <2>2. a = [v |-> x, ok |-> TRUE]
    BY <1>4 DEF LoadedOrStored, Found
  <2>3. After(c, Content(x)) = x /\ Answer(c, Content(x)) = [v |-> x, ok |-> TRUE]
    BY <1>1, <1>2, <2>1
  <2>4. a.v = x
    BY <2>2
  <2> QED
    BY <1>0, <2>1, <2>2, <2>3, <2>4
<1> QED
  BY <1>3, <1>4

(* LoadAndDelete leaves nothing. *)
LEMMA DeleteEffect ==
    ASSUME NEW c, c.name = "LoadAndDelete", NEW x \in Value \union {nil, expunged}, NEW y,
           y = IF Value_(x).ok THEN nil ELSE x
    PROVE  /\ Content(y) = After(c, Content(x)) /\ Value_(x) = Answer(c, Content(x))
           /\ (x = expunged <=> y = expunged) /\ (y # x => y = nil)
<1>1. Value_(x) = [v |-> Content(x), ok |-> Content(x) # None]
  BY ContentFacts
<1>2. After(c, Content(x)) = None
  BY DEF After
<1>3. Answer(c, Content(x)) = [v |-> Content(x), ok |-> Content(x) # None]
  BY DEF Answer
<1>4. Value_(x).ok <=> x \in Value
  BY SyncMapConstants DEF Value_, NotFound, Found
<1>5. Content(y) = None
  BY <1>4, SyncMapConstants DEF Content
<1> QED
  BY <1>1, <1>2, <1>3, <1>4, <1>5, SyncMapConstants

(* p's call for k stays in progress, at a place without an entry. *)
LEMMA BackStep ==
    ASSUME LInv, IInv', NEW p \in Proc, pc[p] \in {"entry", "hit"},
           call[p].name \in {"Store", "LoadOrStore"}, Continue(p, "lock", 0), UNCHANGED maps, p_' = p_
    PROVE  LInv'
<1>0. PICK k : k = call[p].k
  OBVIOUS
<1>1. IInv /\ read' = read /\ dirty' = dirty /\ 0 \in 0..MaxEntries
  BY SyncMapConstants DEF LInv, maps
<1>2. k \in Key
  BY <1>0, <1>1 DEF IInv, CallOK, CallOf, Calls
<1>3. Others(p) /\ pc'[p] = "lock" /\ call' = call /\ m_' = m_ /\ hist' = hist
  BY <1>1, ContinueFacts DEF Continue
<1>4. \A l \in Key : EntryOf(l)' = EntryOf(l) /\ Fades(l)
  BY <1>1, SameEntry
<1>5. \A l \in Key : Untouched(l)
  BY DEF Untouched
<1>6. Moves(0, 0)
  BY <1>1, MovesNot
<1>7. Pending(p, k) = call[p] /\ Allowed(p, k) = {None}
  <2>1. Pending(p, k) = call[p]
    BY <1>0 DEF Pending
  <2> QED
    BY <2>1 DEF Allowed
<1>8. Place(p, k)' = 0 /\ Pending(p, k)' = call[p] /\ Allowed(p, k)' = {None}
  BY <1>0, <1>2, <1>3, WaitingAfter
<1>9. \A q \in Proc, l \in Key : q # p => Place(q, l)' = Place(q, l) /\ Pending(q, l)' = Pending(q, l)
  BY <1>3, OtherPlaces
<1>10. MonitorOK(k)'
  <2>1. MonitorOK(k) /\ Fades(k) /\ Untouched(k)
    BY <1>2, <1>4, <1>5 DEF LInv, HistOK
  <2> QED
    BY <2>1, <1>1, <1>2, <1>3, <1>7, <1>8, <1>9, KeyFades
<1>11. Keeps(p, k)
  BY <1>8 DEF Keeps
<1>12. hist' = [l \in Key |-> hist'[l]]
  BY <1>3 DEF LInv, HistOK
<1>13. 0 \notin Entry /\ call'[p].k = k
  BY <1>0, <1>3, SyncMapConstants DEF Entry
<1> QED
  BY <1>0, <1>2, <1>3, <1>4, <1>5, <1>6, <1>10, <1>11, <1>12, <1>13, CallStep

(* delete answers what the entry held, on the maps or out of them. *)
LEMMA DeleteLin ==
    ASSUME LInv, NEW p \in Proc, delete(p)
    PROVE  LInv'
<1>0. PICK c, k, e : c = call[p] /\ k = c.k /\ e = e_[p]
  OBVIOUS
<1>1. PICK x, y : x = p_[e] /\ y = IF Value_(x).ok THEN nil ELSE x
  OBVIOUS
<1>2. /\ pc[p] = "entry" /\ c.name = "LoadAndDelete" /\ Return(p, Value_(p_[e]))
      /\ UNCHANGED maps /\ p_' = [p_ EXCEPT ![e] = y]
  BY <1>0, <1>1 DEF delete, At, In, Cur, Swap
<1>3. c \in Calls /\ k \in Key /\ e \in Entry /\ x \in Value \union {nil, expunged}
  BY <1>0, <1>1, <1>2, AtEntry
<1>4. IInv' /\ p_ \in [Entry -> Value \union {nil, expunged}]
  BY EntryInv, Types DEF LInv, MapTypes
<1>5. /\ Content(y) = After(c, Content(x)) /\ Value_(x) = Answer(c, Content(x))
      /\ (x = expunged <=> y = expunged) /\ (y # x => y = nil)
  BY <1>1, <1>2, <1>3, DeleteEffect
<1>6. CASE e # EntryOf(k)
  <2>1. \/ p_' = p_
        \/ p_[e] # expunged /\ p_' = [p_ EXCEPT ![e] = nil]
    BY <1>1, <1>2, <1>3, <1>4, <1>5, SyncMapConstants
  <2> QED
    BY <1>0, <1>2, <1>3, <1>4, <1>6, <2>1, OrphanStep
<1>7. CASE e = EntryOf(k)
  <2>1. read' = read /\ dirty' = dirty
    BY <1>2 DEF maps
  <2>2. \A l \in Key : EntryOf(l)' = EntryOf(l) /\ Fades(l)
    BY <2>1, SameEntry
  <2>3. EntryOf(k)' = e
    BY <1>3, <1>7, <2>2
  <2>4. Moves(0, 0)
    <3>1. \A i \in Entry : p_[i] = expunged <=> p_'[i] = expunged
      BY <1>1, <1>2, <1>4, <1>5
    <3> QED
      BY <2>1, <3>1, MovesNot
  <2>5. Return(p, Answer(c, Content(p_[e])))
    BY <1>1, <1>2, <1>5 DEF Return
  <2>6. Content(y) = After(c, Content(p_[e]))
    BY <1>1, <1>5
  <2>7. /\ c \in Calls /\ call[p] = c /\ c.k = k /\ k \in Key /\ pc[p] \in {"entry", "lock", "hit"}
        /\ e \in Entry /\ e_[p] = e /\ EntryOf(k) = e /\ \A l \in Key : l # k => Fades(l)
    BY <1>0, <1>2, <1>3, <1>7, <2>2
  <2> QED
    BY <1>2, <1>4, <2>3, <2>4, <2>5, <2>6, <2>7, WriteStep
<1> QED
  BY <1>6, <1>7

(* A store to the entry of the key, which is not expunged. *)
LEMMA EntryStep ==
    ASSUME LInv, IInv', NEW p \in Proc, pc[p] \in {"entry", "hit"},
           call[p] \in Calls, call[p].k \in Key, e_[p] \in Entry, e_[p] = EntryOf(call[p].k),
           p_[e_[p]] # expunged, NEW x \in Value, Swap(p, x), UNCHANGED maps,
           Content(x) = After(call[p], Content(p_[e_[p]])),
           NEW a, a = Answer(call[p], Content(p_[e_[p]])), Return(p, a)
    PROVE  LInv'
<1>0. PICK c, k, e : c = call[p] /\ k = c.k /\ e = e_[p]
  OBVIOUS
<1>1. read' = read /\ dirty' = dirty /\ p_ \in [Entry -> Value \union {nil, expunged}]
  BY Types DEF maps, LInv, MapTypes
<1>2. \A l \in Key : EntryOf(l)' = EntryOf(l) /\ Fades(l)
  BY <1>1, SameEntry
<1>3. p_' = [p_ EXCEPT ![e] = x]
  BY <1>0 DEF Swap
<1>4. Moves(0, 0)
  <2>1. \A i \in Entry : p_[i] = expunged <=> p_'[i] = expunged
    BY <1>0, <1>1, <1>3, SyncMapConstants
  <2> QED
    BY <1>1, <2>1, MovesNot
<1>5. Return(p, Answer(c, Content(p_[e])))
  BY <1>0 DEF Return
<1>6. /\ c \in Calls /\ call[p] = c /\ c.k = k /\ k \in Key /\ pc[p] \in {"entry", "lock", "hit"}
      /\ e \in Entry /\ e_[p] = e /\ EntryOf(k) = e /\ \A l \in Key : l # k => Fades(l)
  BY <1>0, <1>2
<1>7. EntryOf(k)' = e
  BY <1>2, <1>6
<1>8. Content(x) = After(c, Content(p_[e]))
  BY <1>0
<1> QED
  BY <1>3, <1>4, <1>5, <1>6, <1>7, <1>8, WriteStep

(* Under mu the entry is the one that was looked up. *)
LEMMA AtHit ==
    ASSUME LInv, NEW p \in Proc, pc[p] = "hit"
    PROVE  /\ call[p] \in Calls /\ call[p].k \in Key /\ call[p].v \in Value
           /\ e_[p] \in Entry /\ e_[p] = EntryOf(call[p].k) /\ p_[e_[p]] # expunged
<1>1. IInv
  BY DEF LInv
<1>2. call[p] \in Calls /\ call[p].k \in Key /\ call[p].v \in Value
  BY <1>1 DEF IInv, CallOK, CallOf, Calls
<1>3. e_[p] # 0 /\ e_[p] = read.m[call[p].k] /\ p_[e_[p]] # expunged
  BY <1>1 DEF IInv, HitOK, HitOf
<1>4. e_[p] = EntryOf(call[p].k)
  BY <1>3 DEF EntryOf
<1> QED
  BY <1>1, <1>2, <1>3, <1>4, EntryFacts

(* tryStore stores, or goes for mu when the entry is expunged. *)
LEMMA TryStoreLin ==
    ASSUME LInv, NEW p \in Proc, tryStore(p)
    PROVE  LInv'
<1>1. pc[p] = "entry" /\ call[p].name = "Store" /\ UNCHANGED maps
  BY DEF tryStore, At, In
<1>2. IInv'
  BY EntryInv DEF LInv
<1>3. CASE Cur(p) = expunged
  <2>1. Continue(p, "lock", 0) /\ p_' = p_
    BY <1>3 DEF tryStore
  <2> QED
    BY <2>1, <1>1, <1>2, BackStep
<1>4. CASE Cur(p) # expunged
  <2>1. Swap(p, call[p].v) /\ Return(p, Found(call[p].v)) /\ p_[e_[p]] # expunged
    BY <1>4 DEF tryStore, Cur
  <2>2. /\ call[p] \in Calls /\ call[p].k \in Key /\ call[p].v \in Value
        /\ e_[p] \in Entry /\ e_[p] = EntryOf(call[p].k)
    BY <1>1, <2>1, AtEntry
  <2>3. /\ Content(call[p].v) = After(call[p], Content(p_[e_[p]]))
        /\ Found(call[p].v) = Answer(call[p], Content(p_[e_[p]]))
    BY <1>1, <2>2, StoreEffect
  <2> QED
    BY <1>1, <1>2, <2>1, <2>2, <2>3, EntryStep
<1> QED
  BY <1>3, <1>4

(* storeLocked stores to an entry that is not expunged. *)
LEMMA StoreLockedLin ==
    ASSUME LInv, NEW p \in Proc, storeLocked(p)
    PROVE  LInv'
<1>1. /\ pc[p] = "hit" /\ call[p].name = "Store" /\ UNCHANGED maps
      /\ Swap(p, call[p].v) /\ Return(p, Found(call[p].v))
  BY DEF storeLocked, At, In
<1>2. IInv'
  BY StoreLockedInv DEF LInv
<1>3. /\ call[p] \in Calls /\ call[p].k \in Key /\ call[p].v \in Value
      /\ e_[p] \in Entry /\ e_[p] = EntryOf(call[p].k) /\ p_[e_[p]] # expunged
  BY <1>1, AtHit
<1>4. /\ Content(call[p].v) = After(call[p], Content(p_[e_[p]]))
      /\ Found(call[p].v) = Answer(call[p], Content(p_[e_[p]]))
  BY <1>1, <1>3, StoreEffect
<1> QED
  BY <1>1, <1>2, <1>3, <1>4, EntryStep

(* tryLoadOrStore finds or stores, on the fast path and under mu. *)
LEMMA TryLoadOrStoreLin ==
    ASSUME LInv, NEW p \in Proc, tryLoadOrStore(p)
    PROVE  LInv'
<1>1. pc[p] \in {"entry", "hit"} /\ call[p].name = "LoadOrStore" /\ UNCHANGED maps
  BY DEF tryLoadOrStore, At, In
<1>2. IInv'
  BY TryLoadOrStoreInv DEF LInv
<1>3. CASE Cur(p) = expunged
  <2>1. Continue(p, "lock", 0) /\ p_' = p_
    BY <1>3 DEF tryLoadOrStore
  <2> QED
    BY <2>1, <1>1, <1>2, BackStep
<1>4. CASE Cur(p) # expunged
  <2>0. PICK a : a = LoadedOrStored(p, Cur(p))
    OBVIOUS
  <2>1. Swap(p, a.v) /\ Return(p, a) /\ p_[e_[p]] # expunged
    BY <1>4, <2>0 DEF tryLoadOrStore, Cur, Swap, Return
  <2>2. /\ call[p] \in Calls /\ call[p].k \in Key /\ call[p].v \in Value
        /\ e_[p] \in Entry /\ e_[p] = EntryOf(call[p].k)
    BY <1>1, <2>1, AtEntry, AtHit
  <2>3. p_[e_[p]] \in Value \union {nil}
    BY <2>1, <2>2, Types DEF LInv, MapTypes
  <2>4. /\ a.v \in Value /\ Content(a.v) = After(call[p], Content(p_[e_[p]]))
        /\ a = Answer(call[p], Content(p_[e_[p]]))
    BY <1>1, <2>0, <2>2, <2>3, LoadOrStoreEffect DEF Cur
  <2> QED
    BY <1>1, <1>2, <2>1, <2>2, <2>4, EntryStep
<1> QED
  BY <1>3, <1>4

-----------------------------------------------------------------------------
(* The steps: lookups under mu *)

(* A miss, of k: m is the dirty map, but perhaps for k.  It is promoted or   *)
(* it stays; the other keys keep their entries unless these are expunged.    *)
LEMMA MissMoves ==
    ASSUME IInv, Fit(read.m, read.amended, dirty, p_, {}, {}), dirty # nil, NEW k \in Key,
           read.m[k] = 0, NEW m \in Map, m[k] \in {0, dirty[k]},
           \A l \in Key : l # k => m[l] = dirty[l], missLocked(m),
           \A e \in Entry : p_[e] = expunged <=> p_'[e] = expunged
    PROVE  EntryOf(k)' = m[k] /\ Moves(0, 0) /\ \A l \in Key : l # k => Fades(l)
<1>0. dirty \in Map /\ m # nil /\ 0 \notin Entry
  BY Types, SyncMapConstants DEF MapTypes, Entry
<1>1. /\ \A l \in Key : l # k /\ read.m[l] # 0 =>
             IF p_[read.m[l]] = expunged THEN m[l] = 0 ELSE m[l] = read.m[l]
      /\ \A l \in Key : EntryOf(l) = IF read.m[l] # 0 THEN read.m[l] ELSE dirty[l]
  BY DEF Fit, EntryOf
<1>2. CASE misses + 1 < Size(m)
  <2>1. read' = read /\ dirty' = m
    BY <1>2 DEF missLocked
  <2>2. \A l \in Key : EntryOf(l)' = IF read.m[l] # 0 THEN read.m[l] ELSE m[l]
    BY <2>1, <1>0 DEF EntryOf
  <2>3. \A l \in Key : l # k => Fades(l)
    BY <2>2, <1>1 DEF Fades
  <2>4. Moves(0, 0)
    BY <2>1, <1>0 DEF Moves, InMaps, Sure, Only
  <2> QED
    BY <2>2, <2>3, <2>4
<1>3. CASE ~(misses + 1 < Size(m))
  <2>1. read'.m = m /\ dirty' = nil
    BY <1>3 DEF missLocked, Promote
  <2>2. \A l \in Key : EntryOf(l)' = m[l]
    BY <2>1 DEF EntryOf
  <2>3. \A l \in Key : l # k => Fades(l)
    BY <2>2, <1>1 DEF Fades
  <2>4. Moves(0, 0)
    <3>1. ASSUME NEW l \in Key, NEW e \in Entry, InMaps(e, l)' PROVE InMaps(e, l)
      <4>1. e = m[l]
        BY <3>1, <2>1 DEF InMaps
      <4> QED
        BY <4>1, <1>0 DEF InMaps
    <3>2. ASSUME NEW l \in Key, NEW e \in Entry, Sure(e, l) PROVE Sure(e, l)'
      BY <3>2, <2>1, <1>0, <1>1 DEF Sure
    <3>3. \A l \in Key, e \in Entry : ~Only(e, l)'
      BY <2>1 DEF Only
    <3> QED
      BY <3>1, <3>2, <3>3 DEF Moves
  <2> QED
    BY <2>2, <2>3, <2>4
<1> QED
  BY <1>2, <1>3

(* p goes on with entry i. *)
LEMMA ContinueAt ==
    ASSUME IInv, NEW p \in Proc, NEW i \in Entry, Continue(p, "entry", i)
    PROVE  /\ Others(p) /\ pc'[p] = "entry" /\ call' = call /\ e_'[p] = i
           /\ hist' = hist /\ m_' = m_
           /\ \A q \in Proc, l \in Key : q # p =>
                  Place(q, l)' = Place(q, l) /\ Pending(q, l)' = Pending(q, l)
<1>1. i \in 0..MaxEntries
  BY SyncMapConstants DEF Entry
<1>2. Others(p) /\ pc'[p] = "entry" /\ call' = call /\ e_'[p] = i
  BY <1>1, ContinueFacts
<1>3. hist' = hist /\ m_' = m_
  BY DEF Continue
<1> QED
  BY <1>2, <1>3, OtherPlaces

(* Under mu p finds an entry for its call. *)
LEMMA FindStep ==
    ASSUME LInv, IInv', NEW p \in Proc, pc[p] = "lock", NEW k \in Key, call[p].k = k,
           NEW e \in Entry, Continue(p, "entry", e), p_' = p_, Moves(0, 0), Finds(p, k),
           \A l \in Key : l # k => Fades(l), MonitorOK(k)'
    PROVE  LInv'
<1>1. IInv /\ e \in 0..MaxEntries /\ e # 0 /\ 0 \notin Entry
  BY SyncMapConstants DEF LInv, Entry
<1>2. Others(p) /\ pc'[p] = "entry" /\ call' = call /\ m_' = m_ /\ hist' = hist /\ e_'[p] = e
  BY <1>1, ContinueFacts DEF Continue
<1>3. \A l \in Key : Untouched(l)
  BY DEF Untouched
<1>4. hist' = [l \in Key |-> hist'[l]]
  BY <1>2 DEF LInv, HistOK
<1>5. call'[p].k = k
  BY <1>2
<1> QED
  BY <1>1, <1>2, <1>3, <1>4, <1>5, CallStep

(* Under mu p misses, and returns. *)
LEMMA MissStep ==
    ASSUME LInv, IInv', NEW p \in Proc, pc[p] = "lock", NEW k \in Key, call[p].k = k,
           call[p] \in Calls, call[p].name \in {"Load", "LoadAndDelete"},
           Return(p, NotFound), p_' = p_, Moves(0, 0),
           EntryOf(k) = 0, EntryOf(k)' = 0, \A l \in Key : l # k => Fades(l)
    PROVE  LInv'
<1>1. IInv /\ MonitorOK(k) /\ 0 \notin Entry
  BY SyncMapConstants DEF LInv, HistOK, Entry
<1>2. Others(p) /\ pc'[p] = "idle" /\ m_' = m_
  BY <1>1, ReturnFacts DEF Return
<1>3. \A q \in Proc, l \in Key : q # p => Place(q, l)' = Place(q, l) /\ Pending(q, l)' = Pending(q, l)
  BY <1>2, OtherPlaces
<1>4. Pending(p, k) = call[p] /\ Allowed(p, k) = {None}
  BY Waiting
<1>5. Pending(p, k)' = None /\ Allowed(p, k)' = {None}
  BY <1>2, ElsewhereAfter
<1>6. Now(k)' = None /\ Fades(k)
  BY DEF Now, Fades
<1>7. \A l \in Key : Untouched(l)
  BY DEF Untouched
<1>8. ASSUME hist'[k] = Answered(hist[k], p, NotFound) PROVE MonitorOK(k)'
  BY <1>1, <1>3, <1>4, <1>5, <1>6, <1>7, <1>8, KeyMisses
<1> QED
  BY <1>1, <1>7, <1>8, ReturnStep

(* Load and LoadAndDelete look again under mu, with or without a promotion. *)
LEMMA LookupLockedLin ==
    ASSUME LInv, NEW p \in Proc, LookupLocked(p)
    PROVE  LInv'
<1>0. PICK c, k : c = call[p] /\ k = c.k
  OBVIOUS
<1> DEFINE miss == read.m[k] = 0 /\ read.amended
           e == IF miss THEN dirty[k] ELSE read.m[k]
<1>1. /\ pc[p] = "lock" /\ mu = nil /\ p_' = p_ /\ c.name \in {"Load", "LoadAndDelete"}
      /\ IF miss
         THEN missLocked(IF c.name = "Load" THEN dirty ELSE [dirty EXCEPT ![k] = 0])
         ELSE UNCHANGED maps
      /\ e = 0 => Return(p, NotFound)
      /\ e # 0 => Continue(p, "entry", e)
  <2>1. /\ pc[p] = "lock" /\ mu = nil /\ p_' = p_ /\ c.name \in {"Load", "LoadAndDelete"}
        /\ c # None
    BY <1>0 DEF LookupLocked, At, In
  <2>2. IF miss
        THEN missLocked(IF c.name = "Load" THEN dirty ELSE [dirty EXCEPT ![k] = 0])
        ELSE UNCHANGED maps
    BY <1>0, <2>1 DEF LookupLocked, At, In, missLocked, Promote, Size
  <2>3. IF e = 0 THEN Return(p, NotFound) ELSE Continue(p, "entry", e)
    BY <1>0 DEF LookupLocked, Continue, Goto
  <2> QED
    BY <2>1, <2>2, <2>3
<1>2. IInv /\ IInv' /\ Held /\ 0 \notin Entry
  BY LookupLockedInv, SyncMapConstants DEF LInv, Entry
<1>3. c \in Calls /\ k \in Key /\ call[p].k = k /\ call[p].name = c.name
  BY <1>0, <1>1, <1>2 DEF IInv, CallOK, CallOf, Calls
<1>4. Fit(read.m, read.amended, dirty, p_, {}, {})
  BY <1>1, <1>2, NotBuilding
<1>5. MapTypes
  BY <1>2, Types
<1>6. Place(p, k) = 0 /\ Pending(p, k) = c /\ Allowed(p, k) = {None}
  BY <1>0, <1>1, <1>3, Waiting
<1>7. \A l \in Key : Untouched(l)
  BY <1>1 DEF Untouched
<1>8. MonitorOK(k)
  BY <1>3 DEF LInv, HistOK
<1>9. e = EntryOf(k) /\ (e # 0 => e \in Entry)
  <2>1. e = EntryOf(k)
    BY <1>3, <1>4, <1>5 DEF Fit, EntryOf, MapTypes
  <2> QED
    BY <2>1, <1>2, <1>3, EntryFacts
<1>10. \A i \in Entry : p_[i] = expunged <=> p_'[i] = expunged
  BY <1>1
<1>11. CASE ~miss
  <2>1. read' = read /\ dirty' = dirty
    BY <1>1, <1>11 DEF maps
  <2>2. Moves(0, 0)
    BY <2>1, <1>10, MovesNot
  <2>3. \A l \in Key : EntryOf(l)' = EntryOf(l) /\ Fades(l)
    BY <2>1, SameEntry
  <2>4. CASE e = 0
    BY <1>0, <1>1, <1>2, <1>3, <1>9, <2>2, <2>3, <2>4, MissStep
  <2>5. CASE e # 0
    <3>0. PICK i : i = e
      OBVIOUS
    <3>1. i \in Entry /\ i # 0 /\ i = read.m[k] /\ i = EntryOf(k) /\ Continue(p, "entry", i)
      BY <3>0, <2>5, <1>1, <1>9, <1>11 DEF Continue
    <3>2. Others(p) /\ pc'[p] = "entry" /\ call' = call /\ e_'[p] = i /\ hist' = hist /\ m_' = m_
      BY <3>1, <1>2, ContinueAt
    <3>3. Place(p, k)' = i /\ Pending(p, k)' = c
      BY <3>2, <1>0 DEF Place, Pending
    <3>4. Allowed(p, k)' = {None}
      BY <3>1, <3>3, <2>3, <1>3 DEF Allowed
    <3>5. Finds(p, k)
      <4>1. Of(i, k)
        BY <3>1 DEF Of, InMaps
      <4>2. Sure(Place(p, k), k)' /\ ~Only(Place(p, k), k)'
        BY <3>1, <3>3, <2>1 DEF Sure, Only
      <4> QED
        BY <4>1, <4>2, <3>3 DEF Finds, HeldBy
    <3>6. \A q \in Proc : q # p => Place(q, k)' = Place(q, k) /\ Pending(q, k)' = Pending(q, k)
      BY <3>1, <1>2, <1>3, ContinueAt
    <3>7. MonitorOK(k)'
      BY <1>2, <1>3, <1>6, <1>7, <1>8, <2>3, <3>2, <3>3, <3>4, <3>6, KeyFades
    <3> QED
      BY <1>1, <1>2, <1>3, <2>2, <2>3, <3>1, <3>5, <3>7, FindStep
  <2> QED
    BY <2>4, <2>5
<1>12. CASE miss
  <2>0. PICK m : m = IF c.name = "Load" THEN dirty ELSE [dirty EXCEPT ![k] = 0]
    OBVIOUS
  <2>1. dirty # nil /\ dirty \in Map /\ read.m[k] = 0
    BY <1>4, <1>5, <1>12 DEF Fit, MapTypes
  <2>2. /\ m \in Map /\ m[k] \in {0, dirty[k]} /\ (c.name = "Load" => m[k] = dirty[k])
        /\ (c.name = "LoadAndDelete" => m[k] = 0)
        /\ \A l \in Key : l # k => m[l] = dirty[l]
    BY <2>0, <2>1, <1>3, SyncMapConstants DEF Map
  <2>3. missLocked(m)
    BY <2>0, <1>1, <1>12 DEF missLocked, Promote
  <2>4. EntryOf(k)' = m[k] /\ Moves(0, 0) /\ \A l \in Key : l # k => Fades(l)
    BY <2>1, <2>2, <2>3, <1>2, <1>3, <1>4, <1>10, MissMoves
  <2>5. CASE e = 0
    <3>1. EntryOf(k) = 0 /\ EntryOf(k)' = 0
      BY <2>2, <2>4, <2>5, <1>9, <1>12
    <3> QED
      BY <1>0, <1>1, <1>2, <1>3, <2>4, <2>5, <3>1, MissStep
  <2>6. CASE e # 0
    <3>0. PICK i : i = e
      OBVIOUS
    <3>1. i \in Entry /\ i # 0 /\ i = dirty[k] /\ i = EntryOf(k) /\ Continue(p, "entry", i)
      BY <3>0, <2>6, <1>1, <1>9, <1>12 DEF Continue
    <3>2. Others(p) /\ pc'[p] = "entry" /\ call' = call /\ e_'[p] = i /\ hist' = hist /\ m_' = m_
      BY <3>1, <1>2, ContinueAt
    <3>3. Place(p, k)' = i /\ Pending(p, k)' = c
      BY <3>2, <1>0 DEF Place, Pending
    <3>4. \A q \in Proc : q # p => Place(q, k)' = Place(q, k) /\ Pending(q, k)' = Pending(q, k)
      BY <3>1, <1>2, <1>3, ContinueAt
    <3>5. Of(i, k)
      BY <3>1, <2>1 DEF Of, InMaps
    <3>6. CASE c.name = "Load"
      <4>1. EntryOf(k)' = i
        BY <2>2, <2>4, <3>1, <3>6
      <4>2. Allowed(p, k)' = {None} /\ Fades(k)
        BY <4>1, <3>1, <3>3 DEF Allowed, Fades
      <4>3. Finds(p, k)
        BY <3>3, <3>5, <3>6 DEF Finds, HeldBy
      <4>4. MonitorOK(k)'
        BY <1>2, <1>3, <1>6, <1>7, <1>8, <3>2, <3>3, <3>4, <4>2, KeyFades
      <4> QED
        BY <1>1, <1>2, <1>3, <2>4, <3>1, <4>3, <4>4, FindStep
    <3>7. CASE c.name = "LoadAndDelete"
      <4>1. EntryOf(k)' = 0
        BY <2>2, <2>4, <3>7
      <4>2. ASSUME NEW q \in Proc, Place(q, k) = i PROVE Pending(q, k).name = "Load"
        <5>1. HeldBy(q, k) /\ Pending(q, k) \in Calls
          BY <4>2, <3>1, <1>2, <1>3, PlaceFacts DEF Held
        <5>2. p_[i] # expunged
          BY <3>1, <2>1, <1>3, <1>4 DEF Fit
        <5>3. ~Sure(Place(q, k), k) /\ Only(Place(q, k), k)
          BY <4>2, <5>2, <3>1, <2>1 DEF Sure, Only
        <5> QED
          BY <5>1, <5>3 DEF HeldBy, Calls
      <4>3. Finds(p, k)
        <5>1. ~Only(Place(p, k), k)'
          <6>1. dirty' = m \/ dirty' = nil
            BY <2>3 DEF missLocked, Promote
          <6> QED
            BY <6>1, <2>2, <3>1, <3>3, <3>7 DEF Only
        <5>2. \A r \in Proc : ~Deletes(r, i, k)
          BY <4>2 DEF Deletes
        <5> QED
          BY <5>1, <5>2, <3>3, <3>5, <3>7 DEF Finds, HeldBy
      <4>4. MonitorOK(k)'
        <5>1. hist'[k] = hist[k] /\ EntryOf(k) = i
          BY <3>1, <3>2
        <5> QED
          BY <5>1, <1>1, <1>2, <1>3, <1>6, <1>8, <3>1, <3>3, <3>4, <3>7, <4>1, <4>2, KeyDelete
      <4> QED
        BY <1>1, <1>2, <1>3, <2>4, <3>1, <4>3, <4>4, FindStep
    <3> QED
      BY <3>6, <3>7, <1>1
  <2> QED
    BY <2>5, <2>6
<1> QED
  BY <1>11, <1>12

-----------------------------------------------------------------------------
(* The steps: stores under mu *)

(* p looks again under mu and finds the key in the read map. *)
LEMMA UnexpungeLin ==
    ASSUME LInv, NEW p \in Proc, unexpungeLocked(p)
    PROVE  LInv'
<1>0. PICK c, k, e : c = call[p] /\ k = c.k /\ e = read.m[k]
  OBVIOUS
<1>1. /\ Storing(p) /\ e # 0 /\ read' = read /\ Continue(p, "hit", e)
      /\ p_' = [p_ EXCEPT ![e] = IF p_[e] = expunged THEN nil ELSE p_[e]]
      /\ dirty' = IF p_[e] = expunged THEN [dirty EXCEPT ![k] = e] ELSE dirty
  BY <1>0 DEF unexpungeLocked, Continue, Goto
<1>2. IInv /\ IInv' /\ Apart /\ 0 \notin Entry
  BY UnexpungeInv, SyncMapConstants DEF LInv, Entry
<1>3. /\ pc[p] = "lock" /\ c \in Calls /\ k \in Key /\ Fit(read.m, read.amended, dirty, p_, {}, {})
  BY <1>0, <1>1, <1>2, StoringFacts
<1>4. e \in Entry /\ e \in 0..MaxEntries /\ EntryOf(k) = e /\ Of(e, k) /\ MapTypes
  <2>1. EntryOf(k) = e /\ Of(e, k)
    BY <1>0, <1>1 DEF EntryOf, Of, InMaps
  <2> QED
    BY <2>1, <1>1, <1>2, <1>3, EntryFacts, Types
<1>5. /\ \A i \in Entry : i # e => p_'[i] = p_[i]
      /\ p_'[e] = IF p_[e] = expunged THEN nil ELSE p_[e]
  BY <1>1, <1>4 DEF MapTypes
<1>6. /\ dirty = nil <=> dirty' = nil
      /\ \A l \in Key : l # k /\ dirty # nil => dirty'[l] = dirty[l]
      /\ dirty # nil => dirty'[k] \in {dirty[k], e}
  <2>1. CASE p_[e] # expunged
    BY <2>1, <1>1
  <2>2. CASE p_[e] = expunged
    <3>1. dirty # nil /\ dirty \in Map
      BY <2>2, <1>0, <1>1, <1>3, <1>4 DEF Fit, MapTypes
    <3>2. dirty' \in Map /\ dirty'[k] = e /\ \A l \in Key : l # k => dirty'[l] = dirty[l]
      BY <2>2, <3>1, <1>1, <1>3, <1>4 DEF Map
    <3> QED
      BY <3>1, <3>2, SyncMapConstants
  <2> QED
    BY <2>1, <2>2
<1>7. \A l \in Key : EntryOf(l)' = EntryOf(l) /\ Fades(l)
  BY <1>0, <1>1, <1>6 DEF EntryOf, Fades
<1>8. \A l \in Key : l # k => Fades(l) /\ Untouched(l)
  BY <1>2, <1>3, <1>4, <1>5, <1>7, ApartUntouched
<1>9. Moves(0, 0)
  <2>1. ASSUME NEW l \in Key, NEW i \in Entry, InMaps(i, l)' PROVE InMaps(i, l)
    BY <2>1, <1>0, <1>1, <1>6 DEF InMaps
  <2>2. ASSUME NEW l \in Key, NEW i \in Entry, Of(i, l), Sure(i, l) PROVE Sure(i, l)'
    <3>1. i = e => l = k
      BY <2>2, <1>2, <1>3, <1>4 DEF Apart
    <3> QED
      BY <2>2, <3>1, <1>0, <1>1, <1>5 DEF Sure
  <2>3. ASSUME NEW l \in Key, NEW i \in Entry, Only(i, l)' PROVE Only(i, l)
    BY <2>3, <1>0, <1>1, <1>6 DEF Only
  <2> QED
    BY <2>1, <2>2, <2>3 DEF Moves
<1>10. /\ Others(p) /\ pc'[p] = "hit" /\ call' = call /\ m_' = m_ /\ hist' = hist
  BY <1>1, <1>2, <1>4, ContinueFacts DEF Continue
<1>11. \A q \in Proc, l \in Key : q # p => Place(q, l)' = Place(q, l) /\ Pending(q, l)' = Pending(q, l)
  BY <1>10, OtherPlaces
<1>12. Now(k)' = Now(k)
  <2>1. Now(k) = Content(p_[e])
    BY <1>2, <1>4 DEF Now
  <2>2. Now(k)' = Content(p_'[e])
    BY <1>2, <1>3, <1>4, <1>7 DEF Now, Content
  <2>3. CASE p_[e] = expunged
    <3>1. Content(p_[e]) = None /\ Content(p_'[e]) = None
      BY <2>3, <1>5 DEF Content
    <3> QED
      BY <2>1, <2>2, <3>1
  <2>4. CASE p_[e] # expunged
    <3>1. p_'[e] = p_[e]
      BY <2>4, <1>5
    <3> QED
      BY <2>1, <2>2, <3>1
  <2> QED
    BY <2>3, <2>4
<1>13. Calm(p, k)
  <2>1. ASSUME NEW q \in Proc, q # p, Place(q, k) # 0, Place(q, k) # EntryOf(k)
        PROVE  p_'[Place(q, k)] = p_[Place(q, k)]
    BY <2>1, <1>2, <1>3, <1>4, <1>5, PlaceFacts
  <2> QED
    BY <2>1, <1>3, <1>7, <1>11, CalmStep
<1>14. Pending(p, k) = c /\ Allowed(p, k) = {None}
  BY <1>0, <1>3, Waiting
<1>15. Place(p, k)' = 0 /\ Pending(p, k)' = c /\ Allowed(p, k)' = {None}
  BY <1>0, <1>3, <1>10, WaitingAfter
<1>16. MonitorOK(k)'
  <2>1. MonitorOK(k) /\ hist'[k] = hist[k]
    BY <1>3, <1>10 DEF LInv, HistOK
  <2> QED
    BY <2>1, <1>3, <1>12, <1>13, <1>14, <1>15, KeyCalm
<1>17. Keeps(p, k)
  BY <1>15 DEF Keeps
<1>18. hist' = [l \in Key |-> hist'[l]] /\ \A l \in Key : hist'[l] = hist[l]
  BY <1>10 DEF LInv, HistOK
<1>19. call[p].k = k /\ call'[p].k = k
  BY <1>0, <1>10
<1> QED
  BY <1>2, <1>3, <1>8, <1>9, <1>10, <1>16, <1>17, <1>18, <1>19, CallStep

(* p finds the key in the dirty map only; a LoadOrStore may promote it. *)
LEMMA StoreDirtyLin ==
    ASSUME LInv, NEW p \in Proc, StoreDirty(p)
    PROVE  LInv'
<1>0. PICK c, k, e, a : /\ c = call[p] /\ k = c.k /\ e = dirty[k]
                        /\ a = IF In(p, "Store") THEN Found(c.v) ELSE LoadedOrStored(p, p_[e])
  OBVIOUS
<1>1. /\ Storing(p) /\ read.m[k] = 0 /\ dirty # nil /\ e # 0
      /\ p_' = [p_ EXCEPT ![e] = a.v] /\ Return(p, a)
      /\ UNCHANGED maps \/ missLocked(dirty)
  BY <1>0 DEF StoreDirty, Has, Return, Goto
<1>2. IInv /\ IInv' /\ 0 \notin Entry
  BY StoreDirtyInv, SyncMapConstants DEF LInv, Entry
<1>3. /\ pc[p] = "lock" /\ c \in Calls /\ k \in Key /\ c.v \in Value
      /\ c.name \in {"Store", "LoadOrStore"}
      /\ Fit(read.m, read.amended, dirty, p_, {}, {})
  BY <1>0, <1>1, <1>2, StoringFacts
<1>4. e \in Entry /\ EntryOf(k) = e /\ MapTypes /\ dirty \in Map
  <2>1. EntryOf(k) = e
    BY <1>0, <1>1 DEF EntryOf
  <2>2. MapTypes
    BY <1>2, Types
  <2> QED
    BY <2>1, <2>2, <1>1, <1>2, <1>3, EntryFacts DEF MapTypes
<1>5. p_[e] # expunged /\ p_[e] \in Value \union {nil}
  BY <1>0, <1>1, <1>3, <1>4 DEF Fit, MapTypes
<1>6. /\ a.v \in Value /\ Content(a.v) = After(c, Content(p_[e]))
      /\ a = Answer(c, Content(p_[e]))
  <2>1. CASE c.name = "Store"
    <3>1. a = Found(c.v)
      BY <2>1, <1>0, <1>1 DEF Storing, In
    <3>2. a.v = c.v
      BY <3>1 DEF Found
    <3>3. Content(c.v) = After(c, Content(p_[e])) /\ Found(c.v) = Answer(c, Content(p_[e]))
      BY <2>1, <1>3, StoreEffect
    <3> QED
      BY <3>1, <3>2, <3>3, <1>3
  <2>2. CASE c.name = "LoadOrStore"
    <3>1. a = LoadedOrStored(p, p_[e])
      BY <2>2, <1>0 DEF In
    <3> QED
      BY <2>2, <3>1, <1>0, <1>3, <1>5, LoadOrStoreEffect
  <2> QED
    BY <2>1, <2>2, <1>3
<1>7. \A i \in Entry : p_[i] = expunged <=> p_'[i] = expunged
  BY <1>1, <1>4, <1>5, <1>6, SyncMapConstants DEF MapTypes
<1>8. EntryOf(k)' = e /\ Moves(0, 0) /\ \A l \in Key : l # k => Fades(l)
  <2>1. CASE UNCHANGED maps
    <3>1. read' = read /\ dirty' = dirty
      BY <2>1 DEF maps
    <3>2. \A l \in Key : EntryOf(l)' = EntryOf(l) /\ Fades(l)
      BY <3>1, SameEntry
    <3>3. Moves(0, 0)
      BY <3>1, <1>7, MovesNot
    <3> QED
      BY <3>2, <3>3, <1>3, <1>4
  <2>2. CASE missLocked(dirty)
    <3>1. dirty[k] \in {0, dirty[k]} /\ \A l \in Key : l # k => dirty[l] = dirty[l]
      OBVIOUS
    <3> QED
      BY <2>2, <3>1, <1>0, <1>1, <1>2, <1>3, <1>4, <1>7, MissMoves
  <2> QED
    BY <2>1, <2>2, <1>1
<1>9. Return(p, Answer(c, Content(p_[e])))
  BY <1>1, <1>6 DEF Return
<1>10. call[p] = c /\ c.k = k /\ pc[p] \in {"entry", "lock", "hit"} /\ pc[p] # "entry"
  BY <1>0, <1>3
<1>11. PICK x : x = a.v
  OBVIOUS
<1>12. p_' = [p_ EXCEPT ![e] = x] /\ Content(x) = After(c, Content(p_[e]))
  BY <1>1, <1>6, <1>11
<1> QED
  BY <1>2, <1>3, <1>4, <1>8, <1>9, <1>10, <1>12, WriteStep
-----------------------------------------------------------------------------
(* Steps that touch more than one key *)

(* What such a step has to do for every key. *)
LEMMA WideStep ==
    ASSUME LInv, IInv', NEW p \in Proc, Others(p), \A q \in Proc : q # p => m_'[q] = m_[q],
           PlaceOf(p)', \A l \in Key : Keeps(p, l) \/ Finds(p, l),
           NEW new, NEW k0, Moves(new, k0), new \in Entry => \A l \in Key : ~Of(new, l),
           hist' = [l \in Key |-> hist'[l]], \A l \in Key : MonitorOK(l)'
    PROVE  LInv'
<1>1. \A q \in Proc, l \in Key : q # p => Place(q, l)' = Place(q, l) /\ Pending(q, l)' = Pending(q, l)
  BY OtherPlaces
<1>2. PlaceOK'
  <2>1. ASSUME NEW q \in Proc, q # p PROVE PlaceOf(q)'
    BY <2>1 DEF LInv, PlaceOK, PlaceOf, Others
  <2> QED
    BY <2>1 DEF PlaceOK
<1>3. Apart' /\ Held'
  BY <1>1, HeldStep DEF LInv
<1>4. HistOK'
  BY DEF HistOK
<1> QED
  BY <1>2, <1>3, <1>4 DEF LInv

(* p stays in dirtyLocked or gets there. *)
LEMMA BuilderPlaces ==
    ASSUME NEW p \in Proc, pc[p] \in {"lock", "dirty"}, pc'[p] = "dirty", call'[p] = call[p]
    PROVE  \A l \in Key : /\ Place(p, l)' = 0 /\ Pending(p, l)' = Pending(p, l)
                          /\ Allowed(p, l) = {None} /\ Allowed(p, l)' = {None}
<1>1. \A l \in Key : Place(p, l) = 0 /\ Place(p, l)' = 0 /\ Pending(p, l)' = Pending(p, l)
  BY DEF Place, Pending
<1> QED
  BY <1>1 DEF Allowed

(* An empty dirty map takes no key away. *)
LEMMA DirtyLockedLin ==
    ASSUME LInv, NEW p \in Proc, dirtyLocked(p)
    PROVE  LInv'
<1>1. /\ Storing(p) /\ dirty = nil /\ dirty' = Empty /\ pc' = [pc EXCEPT ![p] = "dirty"]
      /\ read' = read /\ p_' = p_ /\ call' = call /\ e_' = e_ /\ m_' = m_ /\ hist' = hist
      /\ \E r : rest' = [rest EXCEPT ![p] = r]
  BY DEF dirtyLocked, Goto
<1>2. IInv /\ IInv' /\ LocalTypes /\ 0 \notin Entry
  BY DirtyLockedInv, Types, SyncMapConstants DEF LInv, Entry
<1>3. pc[p] = "lock" /\ pc'[p] = "dirty" /\ Others(p) /\ PlaceOf(p)'
  BY <1>1, <1>2 DEF Storing, At, LocalTypes, Others, PlaceOf
<1>4. Empty # nil /\ \A l \in Key : Empty[l] = 0
  BY SyncMapConstants DEF Empty, Map
<1>5. \A l \in Key : EntryOf(l)' = EntryOf(l) /\ Fades(l) /\ Untouched(l)
  BY <1>1, <1>4 DEF EntryOf, Fades, Untouched
<1>6. Moves(0, 0)
  BY <1>1, <1>2, <1>4 DEF Moves, InMaps, Sure, Only
<1>7. \A l \in Key : /\ Place(p, l)' = 0 /\ Pending(p, l)' = Pending(p, l)
                     /\ Allowed(p, l) = {None} /\ Allowed(p, l)' = {None}
  BY <1>1, <1>3, BuilderPlaces
<1>8. \A l \in Key : Keeps(p, l)
  BY <1>7 DEF Keeps
<1>9. \A q \in Proc, l \in Key : q # p => Place(q, l)' = Place(q, l) /\ Pending(q, l)' = Pending(q, l)
  BY <1>1, <1>3, OtherPlaces
<1>10. ASSUME NEW l \in Key PROVE MonitorOK(l)'
  <2>1. MonitorOK(l) /\ hist'[l] = hist[l] /\ Fades(l) /\ Untouched(l)
    BY <1>1, <1>5 DEF LInv, HistOK
  <2> QED
    BY <2>1, <1>2, <1>7, <1>9, KeyFades
<1>11. hist' = [l \in Key |-> hist'[l]]
  BY <1>1 DEF LInv, HistOK
<1> QED
  BY <1>1, <1>2, <1>3, <1>6, <1>8, <1>10, <1>11, WideStep

(* An entry that is expunged held nothing before. *)
LEMMA TryExpungeLin ==
    ASSUME LInv, NEW p \in Proc, NEW k \in Key, tryExpungeLocked(p, k)
    PROVE  LInv'
<1>0. PICK e, x : e = read.m[k] /\ x = IF p_[e] \in {nil, expunged} THEN expunged ELSE p_[e]
  OBVIOUS
<1>1. /\ pc[p] = "dirty" /\ k \in rest[p] /\ p_' = [p_ EXCEPT ![e] = x]
      /\ dirty' = [dirty EXCEPT ![k] = IF p_[e] \in {nil, expunged} THEN dirty[k] ELSE e]
      /\ rest' = [rest EXCEPT ![p] = rest[p] \ {k}]
      /\ read' = read /\ pc' = pc /\ call' = call /\ e_' = e_ /\ m_' = m_ /\ hist' = hist
  BY <1>0 DEF tryExpungeLocked, At
<1>2. IInv /\ IInv' /\ Apart /\ LocalTypes /\ MapTypes /\ 0 \notin Entry
  BY TryExpungeInv, Types, SyncMapConstants DEF LInv, Entry
<1>3. dirty \in Map /\ e # 0
  BY <1>0, <1>1, <1>2, DirtyFacts DEF Fit
<1>4. e \in Entry /\ EntryOf(k) = e /\ Of(e, k)
  <2>1. EntryOf(k) = e /\ Of(e, k)
    BY <1>0, <1>3 DEF EntryOf, Of, InMaps
  <2> QED
    BY <2>1, <1>2, <1>3, EntryFacts
<1>5. p_'[e] = x /\ \A i \in Entry : i # e => p_'[i] = p_[i]
  BY <1>1, <1>2, <1>4 DEF MapTypes
<1>6. /\ dirty # nil /\ dirty' # nil /\ dirty'[k] \in {dirty[k], e}
      /\ \A l \in Key : l # k => dirty'[l] = dirty[l]
  <2>1. dirty' \in Map
    BY <1>1, <1>3, <1>4, SyncMapConstants DEF Map, Entry
  <2>2. dirty'[k] \in {dirty[k], e} /\ \A l \in Key : l # k => dirty'[l] = dirty[l]
    BY <1>1, <1>3 DEF Map
  <2> QED
    BY <2>1, <2>2, <1>3, SyncMapConstants
<1>7. \A l \in Key : EntryOf(l)' = EntryOf(l) /\ Fades(l)
  BY <1>0, <1>1, <1>3, <1>6 DEF EntryOf, Fades
<1>8. \A l \in Key : l # k => Untouched(l)
  BY <1>2, <1>4, <1>5, ApartUntouched
<1>9. Moves(0, 0)
  <2>1. ASSUME NEW l \in Key, NEW i \in Entry, InMaps(i, l)' PROVE InMaps(i, l)
    BY <2>1, <1>0, <1>1, <1>6 DEF InMaps
  <2>2. ASSUME NEW l \in Key, NEW i \in Entry, Sure(i, l) PROVE Sure(i, l)'
    BY <2>2, <1>0, <1>1, <1>5 DEF Sure
  <2>3. ASSUME NEW l \in Key, NEW i \in Entry, Only(i, l)' PROVE Only(i, l)
    BY <2>3, <1>0, <1>1, <1>6 DEF Only
  <2> QED
    BY <2>1, <2>2, <2>3 DEF Moves
<1>10. Others(p) /\ PlaceOf(p)'
  BY <1>1, <1>2 DEF LocalTypes, Others, PlaceOf
<1>11. \A l \in Key : /\ Place(p, l)' = 0 /\ Pending(p, l)' = Pending(p, l)
                      /\ Allowed(p, l) = {None} /\ Allowed(p, l)' = {None}
  BY <1>1, BuilderPlaces
<1>12. \A l \in Key : Keeps(p, l)
  BY <1>11 DEF Keeps
<1>13. \A q \in Proc, l \in Key : q # p => Place(q, l)' = Place(q, l) /\ Pending(q, l)' = Pending(q, l)
  BY <1>1, <1>10, OtherPlaces
<1>14. ASSUME NEW l \in Key PROVE MonitorOK(l)'
  <2>1. MonitorOK(l) /\ hist'[l] = hist[l] /\ Fades(l)
    BY <1>1, <1>7 DEF LInv, HistOK
  <2>2. CASE l # k
    BY <2>1, <2>2, <1>2, <1>8, <1>11, <1>13, KeyFades
  <2>3. CASE l = k
    <3>1. Now(k) = Content(p_[e])
      BY <1>3, <1>4 DEF Now
    <3>2. Now(k)' = Content(p_'[e])
      BY <1>3, <1>4, <1>7 DEF Now, Content
    <3>3. Now(l)' = Now(l)
      BY <2>3, <3>1, <3>2, <1>0, <1>5 DEF Content
    <3>4. ASSUME NEW q \in Proc, q # p, Place(q, k) # 0, Place(q, k) # EntryOf(k)
          PROVE  p_'[Place(q, k)] = p_[Place(q, k)]
      BY <3>4, <1>2, <1>4, <1>5, PlaceFacts
    <3>5. Calm(p, l)
      BY <2>3, <3>4, <1>7, <1>13, CalmStep
    <3> QED
      BY <2>1, <3>3, <3>5, <1>11, KeyCalm
  <2> QED
    BY <2>2, <2>3
<1>15. hist' = [l \in Key |-> hist'[l]]
  BY <1>1 DEF LInv, HistOK
<1> QED
  BY <1>1, <1>2, <1>9, <1>10, <1>12, <1>14, <1>15, WideStep
-----------------------------------------------------------------------------
(* A new entry is nobody's. *)
LEMMA NewIsFree ==
    ASSUME IInv, dirty # nil, NEW new \in Entry, new \notin Live
    PROVE  \A l \in Key : ~Of(new, l)
<1> SUFFICES ASSUME NEW l \in Key PROVE ~Of(new, l)
  OBVIOUS
<1>1. LocalTypes /\ MapTypes
  BY Types
<1>2. /\ Range(read.m) \subseteq Live /\ Range(e_) \subseteq Live
      /\ \A q \in Proc : Range(m_[q]) \subseteq Live
      /\ Range(dirty) \subseteq Live
  BY DEF Live
<1>3. new # read.m[l] /\ new # dirty[l]
  BY <1>1, <1>2 DEF MapTypes, Map, Range
<1>4. ASSUME NEW q \in Proc PROVE new # e_[q] /\ new # m_[q][l]
  BY <1>1, <1>2 DEF LocalTypes, Map, Range
<1>5. new # 0
  BY SyncMapConstants DEF Entry
<1> QED
  BY <1>3, <1>4, <1>5 DEF Of, InMaps, Place

(* A new key takes effect when its entry is put into the dirty map. *)
LEMMA AddEntryLin ==
    ASSUME LInv, IInv', NEW p \in Proc, pc[p] \in {"lock", "dirty"}, AddEntry(p, dirty), dirty \in Map,
           call[p] \in Calls, call[p].k \in Key, call[p].v \in Value,
           call[p].name \in {"Store", "LoadOrStore"},
           read.m[call[p].k] = 0, dirty[call[p].k] = 0
    PROVE  LInv'
<1>0. PICK c, k, new, a : /\ c = call[p] /\ k = c.k /\ new = Min(Entry \ Live)
                          /\ a = IF In(p, "Store") THEN Found(c.v) ELSE Stored(c.v)
  OBVIOUS
<1>1. /\ Entry \ Live # {} /\ p_' = [p_ EXCEPT ![new] = c.v] /\ dirty' = [dirty EXCEPT ![k] = new]
      /\ read' = [read EXCEPT !.amended = TRUE] /\ Return(p, a)
  BY <1>0 DEF AddEntry, Return, Goto
<1>2. IInv /\ MapTypes /\ MonitorOK(k) /\ k \in Key /\ dirty # nil /\ 0 \notin Entry
  BY <1>0, Types, SyncMapConstants DEF LInv, HistOK, Entry
<1>3. new \in Entry /\ new # 0 /\ \A l \in Key : ~Of(new, l)
  <2>1. new \in Entry /\ new \notin Live
    BY <1>0, <1>1, NewEntry
  <2> QED
    BY <2>1, <1>2, NewIsFree
<1>4. p_'[new] = c.v /\ \A i \in Entry : i # new => p_'[i] = p_[i]
  BY <1>1, <1>2, <1>3 DEF MapTypes
<1>5. /\ dirty' # nil /\ dirty'[k] = new /\ \A l \in Key : l # k => dirty'[l] = dirty[l]
      /\ read'.m = read.m
  <2>0. new \in 0..MaxEntries
    BY <1>3, SyncMapConstants DEF Entry
  <2>1. dirty' \in Map
    BY <2>0, <1>1 DEF Map
  <2>2. dirty'[k] = new /\ \A l \in Key : l # k => dirty'[l] = dirty[l]
    BY <1>1, <1>2 DEF Map
  <2>3. read'.m = read.m
    BY <1>1, <1>2 DEF MapTypes
  <2> QED
    BY <2>1, <2>2, <2>3, SyncMapConstants
<1>6. EntryOf(k) = 0 /\ EntryOf(k)' = new /\ \A l \in Key : l # k => Fades(l)
  BY <1>0, <1>2, <1>5 DEF EntryOf, Fades
<1>7. \A l \in Key : Untouched(l)
  BY <1>3, <1>4 DEF Untouched
<1>8. Moves(new, k)
  <2>1. ASSUME NEW l \in Key, NEW i \in Entry, InMaps(i, l)'
        PROVE  InMaps(i, l) \/ (i = new /\ l = k)
    BY <2>1, <1>2, <1>5 DEF InMaps
  <2>2. ASSUME NEW l \in Key, NEW i \in Entry, Of(i, l)
        PROVE  (Sure(i, l) => Sure(i, l)') /\ (Only(i, l)' => Only(i, l))
    <3>1. i # new
      BY <2>2, <1>3
    <3> QED
      BY <3>1, <1>2, <1>4, <1>5 DEF Sure, Only
  <2> QED
    BY <2>1, <2>2 DEF Moves
<1>9. Others(p) /\ pc'[p] = "idle" /\ m_' = m_
  BY <1>1, <1>2, ReturnFacts DEF Return
<1>10. \A q \in Proc, l \in Key : q # p => Place(q, l)' = Place(q, l) /\ Pending(q, l)' = Pending(q, l)
  BY <1>9, OtherPlaces
<1>11. Calm(p, k)
  <2>1. ASSUME NEW q \in Proc, Place(q, k) # 0
        PROVE  /\ Place(q, k) # EntryOf(k) /\ Place(q, k) # EntryOf(k)'
               /\ p_'[Place(q, k)] = p_[Place(q, k)]
    <3>1. Place(q, k) \in Entry /\ Place(q, k) # new
      BY <2>1, <1>2, <1>3, PlaceFacts DEF Of
    <3> QED
      BY <2>1, <3>1, <1>4, <1>6
  <2> QED
    BY <2>1, <1>2, <1>10, CalmStep
<1>12. Pending(p, k) = c /\ Allowed(p, k) = {None}
  BY <1>0, <1>2, Waiting
<1>13. Pending(p, k)' = None /\ Allowed(p, k)' = {None}
  BY <1>2, <1>9, ElsewhereAfter
<1>14. Now(k) = None /\ Now(k)' = Content(c.v)
  <2>1. Now(k)' = Content(p_'[new])
    BY <1>3, <1>6 DEF Now, Content
  <2> QED
    BY <2>1, <1>0, <1>4, <1>6 DEF Now
<1>15. Content(c.v) = After(c, None) /\ a = Answer(c, None)
  <2>1. Content(nil) = None
    BY DEF Content
  <2>2. CASE c.name = "Store"
    <3>1. a = Found(c.v)
      BY <2>2, <1>0, MapSpecConstants, SyncMapConstants DEF In, Calls
    <3> QED
      BY <2>1, <2>2, <3>1, <1>0, StoreEffect
  <2>3. CASE c.name = "LoadOrStore"
    <3>1. a = LoadedOrStored(p, nil)
      BY <2>3, <1>0 DEF In, LoadedOrStored
    <3>2. a.v = c.v
      BY <3>1, <1>0 DEF LoadedOrStored, Stored
    <3> QED
      BY <2>1, <2>3, <3>1, <3>2, <1>0, LoadOrStoreEffect
  <2> QED
    BY <2>2, <2>3, <1>0
<1>16. ASSUME hist'[k] = Answered(hist[k], p, a) PROVE MonitorOK(k)'
  <2>1. /\ hist'[k] = Answered(hist[k], p, Answer(c, Now(k))) /\ Now(k)' = After(c, Now(k))
        /\ c \in Calls /\ None \in Allowed(p, k)
    BY <1>0, <1>12, <1>14, <1>15, <1>16
  <2> QED
    BY <2>1, <1>2, <1>11, <1>12, <1>13, KeyReturn
<1>17. call[p].k = k /\ \A l \in Key : l # k => Fades(l) /\ Untouched(l)
  BY <1>0, <1>6, <1>7
<1> QED
  BY <1>1, <1>2, <1>3, <1>8, <1>16, <1>17, ReturnStep

-----------------------------------------------------------------------------
(* The steps: new keys, and the start of a call *)

(* The key is in neither map. *)
LEMMA StoreNewLin ==
    ASSUME LInv, NEW p \in Proc, StoreNew(p)
    PROVE  LInv'
<1>1. /\ Storing(p) /\ read.m[call[p].k] = 0 /\ dirty # nil /\ dirty[call[p].k] = 0
      /\ AddEntry(p, dirty)
  BY DEF StoreNew
<1>2. IInv /\ IInv'
  BY StoreNewInv DEF LInv
<1>3. /\ pc[p] = "lock" /\ call[p] \in Calls /\ call[p].k \in Key /\ call[p].v \in Value
      /\ call[p].name \in {"Store", "LoadOrStore"}
  BY <1>1, <1>2, StoringFacts
<1>4. dirty \in Map
  BY <1>1, <1>2, Types DEF MapTypes
<1> QED
  BY <1>1, <1>2, <1>3, <1>4, AddEntryLin

(* The same after dirtyLocked. *)
LEMMA StoreNewDirtyLin ==
    ASSUME LInv, NEW p \in Proc, StoreNewDirty(p)
    PROVE  LInv'
<1>1. pc[p] = "dirty" /\ AddEntry(p, dirty)
  BY DEF StoreNewDirty, At
<1>2. IInv /\ IInv'
  BY StoreNewDirtyInv DEF LInv
<1>3. /\ call[p] \in Calls /\ call[p].k \in Key /\ call[p].v \in Value /\ dirty \in Map
      /\ Builders = {p} /\ Fit(read.m, read.amended, dirty, p_, Builders, rest[p])
  BY <1>1, <1>2, DirtyFacts
<1>4. call[p].name \in {"Store", "LoadOrStore"} /\ read.m[call[p].k] = 0
  BY <1>1, <1>2 DEF IInv, CallOK, CallOf, HitOK, HitOf
<1>5. dirty[call[p].k] = 0
  BY <1>3, <1>4, SyncMapConstants DEF Fit
<1> QED
  BY <1>1, <1>2, <1>3, <1>4, <1>5, AddEntryLin

(* While the map is not amended the read map has every key. *)
LEMMA NotAmended ==
    ASSUME IInv, ~read.amended
    PROVE  \A l \in Key : EntryOf(l) = read.m[l]
<1>1. Fit(read.m, read.amended, dirty, p_, Builders, Todo)
  BY DEF IInv, MapsOK
<1>2. CASE Builders = {}
  <2>1. dirty = nil
    BY <1>1, <1>2 DEF Fit
  <2> QED
    BY <2>1 DEF EntryOf
<1>3. CASE Builders # {}
  <2>1. \A l \in Key : read.m[l] = 0 => dirty[l] = 0
    BY <1>1, <1>3 DEF Fit
  <2> QED
    BY <2>1 DEF EntryOf
<1> QED
  BY <1>2, <1>3

(* Nothing changes but where p is and what the monitors have seen. *)
LEMMA QuietStep ==
    ASSUME UNCHANGED maps, p_' = p_, NEW p \in Proc, Others(p),
           \A q \in Proc : q # p => m_'[q] = m_[q]
    PROVE  /\ Moves(0, 0)
           /\ \A l \in Key : /\ EntryOf(l)' = EntryOf(l) /\ Now(l)' = Now(l)
                             /\ Fades(l) /\ Untouched(l) /\ Calm(p, l)
           /\ \A q \in Proc, l \in Key : q # p =>
                  Place(q, l)' = Place(q, l) /\ Pending(q, l)' = Pending(q, l)
<1>1. read' = read /\ dirty' = dirty
  BY DEF maps
<1>2. \A l \in Key : EntryOf(l)' = EntryOf(l) /\ Fades(l)
  BY <1>1, SameEntry
<1>3. Moves(0, 0)
  BY <1>1, MovesNot
<1>4. \A q \in Proc, l \in Key : q # p => Place(q, l)' = Place(q, l) /\ Pending(q, l)' = Pending(q, l)
  BY OtherPlaces
<1>5. \A l \in Key : Now(l)' = Now(l) /\ Untouched(l)
  BY <1>2 DEF Now, Content, Untouched
<1>6. \A l \in Key : Calm(p, l)
  <2> SUFFICES ASSUME NEW l \in Key PROVE Calm(p, l)
    OBVIOUS
  <2>1. \A q \in Proc : p_'[Place(q, l)] = p_[Place(q, l)]
    OBVIOUS
  <2> QED
    BY <2>1, <1>2, <1>4, CalmStep
<1> QED
  BY <1>2, <1>3, <1>4, <1>5, <1>6

(* A call starts; Load and LoadAndDelete may answer at once that the key is  *)
(* not there.                                                                *)
LEMMA LookupLin ==
    ASSUME LInv, IInv', NEW p \in Proc, NEW c \in Calls, Lookup(p, c)
    PROVE  LInv'
<1>0. PICK k, e : k = c.k /\ e = read.m[k]
  OBVIOUS
<1>1. IInv /\ LocalTypes /\ MapTypes /\ k \in Key /\ 0 \notin Entry
  BY <1>0, Types, SyncMapConstants DEF LInv, Calls, Entry
<1> DEFINE gone == e = 0 /\ ~read.amended /\ c.name \in {"Load", "LoadAndDelete"}
           there == IF gone THEN "idle" ELSE IF e # 0 THEN "entry" ELSE "lock"
           h == Called(hist[k], p, c)
<1>2. /\ pc[p] = "idle" /\ pc' = [pc EXCEPT ![p] = there]
      /\ call' = [call EXCEPT ![p] = IF gone THEN None ELSE c] /\ e_' = [e_ EXCEPT ![p] = e]
      /\ hist' = [hist EXCEPT ![k] = IF gone THEN Answered(h, p, NotFound) ELSE h]
      /\ UNCHANGED maps /\ p_' = p_ /\ rest' = rest /\ m_' = m_
  BY <1>0 DEF Lookup, At, Goto
<1>3. e \in 0..MaxEntries
  BY <1>0, <1>1 DEF MapTypes, Map
<1>4. Others(p) /\ pc'[p] = there /\ e_'[p] = e /\ (~gone => call'[p] = c)
  BY <1>1, <1>2 DEF LocalTypes, Others
<1>5. /\ hist' = [l \in Key |-> hist'[l]] /\ \A l \in Key : l # k => hist'[l] = hist[l]
      /\ (gone => hist'[k] = Answered(h, p, NotFound)) /\ (~gone => hist'[k] = h)
  <2>1. hist = [l \in Key |-> hist[l]]
    BY DEF LInv, HistOK
  <2> HIDE DEF h, gone
  <2> QED
    BY <2>1, <1>1, <1>2
<1>6. Place(p, k) = 0 /\ Pending(p, k) = None /\ Allowed(p, k) = {None} /\ MonitorOK(k)
  BY <1>1, <1>2, Elsewhere DEF LInv, HistOK
<1>7. /\ Moves(0, 0)
      /\ \A l \in Key : /\ EntryOf(l)' = EntryOf(l) /\ Now(l)' = Now(l)
                        /\ Fades(l) /\ Untouched(l) /\ Calm(p, l)
  BY <1>2, <1>4, QuietStep
<1>8. CASE gone
  <2>1. pc'[p] = "idle"
    BY <1>4, <1>8
  <2>2. Place(p, k)' = 0 /\ Pending(p, k)' = None /\ Allowed(p, k)' = {None}
    BY <2>1, <1>1, ElsewhereAfter
  <2>3. Now(k) = None /\ Now(k)' = None
    <3>1. EntryOf(k) = 0
      BY <1>0, <1>1, <1>8, NotAmended
    <3> QED
      BY <3>1, <1>1, <1>7 DEF Now
  <2>4. MonitorOK(k)'
    BY <2>2, <2>3, <1>1, <1>5, <1>6, <1>7, <1>8, KeyGone
  <2>5. Keeps(p, k)
    BY <2>2 DEF Keeps
  <2> QED
    BY <2>1, <2>4, <2>5, <1>1, <1>2, <1>4, <1>5, <1>7, CallStep
<1>9. CASE ~gone /\ e = 0
  <2>1. pc'[p] = "lock" /\ call'[p].k = k /\ call'[p] = c
    BY <1>0, <1>4, <1>9
  <2>2. Place(p, k)' = 0 /\ Pending(p, k)' = c /\ Allowed(p, k)' = {None}
    BY <2>1, <1>1, WaitingAfter
  <2>3. MonitorOK(k)'
    BY <2>2, <1>1, <1>5, <1>6, <1>7, <1>9, KeyCalled
  <2>4. Keeps(p, k)
    BY <2>2 DEF Keeps
  <2> QED
    BY <2>1, <2>3, <2>4, <1>1, <1>2, <1>4, <1>5, <1>7, CallStep
<1>10. CASE ~gone /\ e # 0
  <2>1. pc'[p] = "entry" /\ call'[p].k = k /\ call'[p] = c /\ e_'[p] = e
    BY <1>0, <1>4, <1>10
  <2>2. Place(p, k)' = e /\ Pending(p, k)' = c
    BY <2>1 DEF Place, Pending
  <2>3. EntryOf(k) = e /\ Of(e, k) /\ read'.m[k] = e
    BY <1>0, <1>2, <1>10 DEF EntryOf, Of, InMaps, maps
  <2>4. Allowed(p, k)' = {None}
    BY <2>2, <2>3, <1>1, <1>7 DEF Allowed
  <2>5. MonitorOK(k)'
    BY <2>2, <2>4, <1>1, <1>5, <1>6, <1>7, <1>10, KeyCalled
  <2>6. Finds(p, k)
    <3>1. Sure(Place(p, k), k)' /\ ~Only(Place(p, k), k)'
      BY <2>2, <2>3 DEF Sure, Only
    <3> QED
      BY <3>1, <2>2, <2>3 DEF Finds, HeldBy
  <2> QED
    BY <2>1, <2>5, <2>6, <1>1, <1>2, <1>4, <1>5, <1>7, <1>10, CallStep
<1> QED
  BY <1>8, <1>9, <1>10

(* Every call of one key starts so. *)
LEMMA BeginLin ==
    ASSUME LInv, NEW p \in Proc,
           \/ \E k \in Key : Load(p, k) \/ LoadAndDelete(p, k)
           \/ \E k \in Key, v \in Value : Store(p, k, v) \/ LoadOrStore(p, k, v)
    PROVE  LInv'
<1>1. IInv'
  BY BeginInv DEF LInv
<1>2. ASSUME NEW k \in Key, Load(p, k) \/ LoadAndDelete(p, k) PROVE LInv'
  <2> DEFINE c(name) == [name |-> name, k |-> k, v |-> None]
  <2>1. c("Load") \in Calls /\ c("LoadAndDelete") \in Calls
    BY DEF Calls
  <2>2. Lookup(p, c("Load")) \/ Lookup(p, c("LoadAndDelete"))
    BY <1>2 DEF Load, LoadAndDelete, Call
  <2> HIDE DEF c
  <2> QED
    BY <2>1, <2>2, <1>1, LookupLin
<1>3. ASSUME NEW k \in Key, NEW v \in Value, Store(p, k, v) \/ LoadOrStore(p, k, v) PROVE LInv'
  <2> DEFINE c(name) == [name |-> name, k |-> k, v |-> v]
  <2>1. c("Store") \in Calls /\ c("LoadOrStore") \in Calls
    BY DEF Calls
  <2>2. Lookup(p, c("Store")) \/ Lookup(p, c("LoadOrStore"))
    BY <1>3 DEF Store, LoadOrStore, Call
  <2> HIDE DEF c
  <2> QED
    BY <2>1, <2>2, <1>1, LookupLin
<1> QED
  BY <1>2, <1>3

-----------------------------------------------------------------------------
(* The steps: Range *)

(* Range starts to walk through m: where it is with each key. *)
LEMMA WalkPlaces ==
    ASSUME IInv, NEW p \in Proc, NEW m \in Map, NEW h, Walk(p, m, h), UNCHANGED <<call, e_>>,
           pc[p] \in {"idle", "rangelock"}
    PROVE  /\ Others(p) /\ PlaceOf(p)' /\ \A q \in Proc : q # p => m_'[q] = m_[q]
           /\ hist' = [l \in Key |-> hist'[l]]
           /\ \A l \in Key : m[l] # 0 =>
                  Place(p, l)' = m[l] /\ Pending(p, l)' = Call("Load", l, None) /\ hist'[l] = h[l]
           /\ \A l \in Key : m[l] = 0 =>
                  /\ Place(p, l)' = 0 /\ Pending(p, l)' = None /\ Allowed(p, l)' = {None}
                  /\ hist'[l] = Answered(h[l], p, NotFound)
<1> DEFINE keys == {l \in Key : m[l] # 0}
           there == IF keys = {} THEN "idle" ELSE "range"
<1>1. LocalTypes
  BY Types
<1>2. /\ m_' = [m_ EXCEPT ![p] = m] /\ rest' = [rest EXCEPT ![p] = keys]
      /\ pc' = [pc EXCEPT ![p] = there]
      /\ hist' = [l \in Key |-> IF l \in keys THEN h[l] ELSE Answered(h[l], p, NotFound)]
  BY DEF Walk, Goto
<1>3. \A l \in Key : hist'[l] = IF l \in keys THEN h[l] ELSE Answered(h[l], p, NotFound)
  BY <1>2
<1>4. hist' = [l \in Key |-> hist'[l]]
  BY <1>2
<1> HIDE DEF there
<1>5. Others(p) /\ pc'[p] = there /\ rest'[p] = keys /\ \A q \in Proc : q # p => m_'[q] = m_[q]
  BY <1>1, <1>2 DEF LocalTypes, Others
<1>6. m_'[p] = m
  BY <1>1, <1>2 DEF LocalTypes
<1>7. PlaceOf(p)'
  BY <1>5, <1>6 DEF there, PlaceOf
<1>8. ASSUME NEW l \in Key, m[l] # 0
      PROVE  Place(p, l)' = m[l] /\ Pending(p, l)' = Call("Load", l, None) /\ hist'[l] = h[l]
  <2>1. pc'[p] = "range" /\ l \in rest'[p] /\ m_'[p][l] = m[l]
    BY <1>5, <1>6, <1>8 DEF there
  <2>2. hist'[l] = h[l]
    BY <1>3, <1>8
  <2> QED
    BY <2>1, <2>2 DEF Place, Pending
<1>9. ASSUME NEW l \in Key, m[l] = 0
      PROVE  /\ Place(p, l)' = 0 /\ Pending(p, l)' = None /\ Allowed(p, l)' = {None}
             /\ hist'[l] = Answered(h[l], p, NotFound)
  <2>1. pc'[p] \in {"idle", "range"} /\ l \notin rest'[p]
    BY <1>5, <1>9 DEF there
  <2>2. Place(p, l)' = 0 /\ Pending(p, l)' = None
    BY <2>1 DEF Place, Pending
  <2>3. Allowed(p, l)' = {None}
    BY <2>2 DEF Allowed
  <2>4. hist'[l] = Answered(h[l], p, NotFound)
    BY <1>3, <1>9
  <2> QED
    BY <2>2, <2>3, <2>4
<1> QED
  BY <1>4, <1>5, <1>7, <1>8, <1>9

(* Range starts, as a Load of every key. *)
LEMMA RangeLin ==
    ASSUME LInv, NEW p \in Proc, Range_(p)
    PROVE  LInv'
<1> DEFINE c(l) == Call("Load", l, None)
           h == [l \in Key |-> Called(hist[l], p, c(l))]
<1>1. IInv /\ IInv' /\ LocalTypes /\ MapTypes /\ 0 \notin Entry
  BY RangeInv, Types, SyncMapConstants DEF LInv, Entry
<1>2. /\ pc[p] = "idle" /\ UNCHANGED maps /\ p_' = p_ /\ call' = call /\ e_' = e_
      /\ read.amended => Goto(p, "rangelock") /\ hist' = h /\ UNCHANGED <<rest, m_>>
      /\ ~read.amended => Walk(p, read.m, h)
  BY DEF Range_, At
<1>3. ASSUME NEW l \in Key
      PROVE  /\ c(l) \in Calls /\ c(l).name = "Load" /\ h[l] = Called(hist[l], p, c(l))
             /\ Place(p, l) = 0 /\ Allowed(p, l) = {None} /\ MonitorOK(l)
  BY <1>2, Elsewhere DEF Call, Calls, LInv, HistOK
<1> HIDE DEF h, c
<1>4. CASE read.amended
  <2>1. /\ pc' = [pc EXCEPT ![p] = "rangelock"] /\ hist' = h /\ rest' = rest /\ m_' = m_
    BY <1>2, <1>4 DEF Goto
  <2>2. pc'[p] = "rangelock" /\ Others(p) /\ PlaceOf(p)'
    BY <2>1, <1>1, <1>2 DEF LocalTypes, Others, PlaceOf
  <2>3. /\ Moves(0, 0)
        /\ \A l \in Key : Now(l)' = Now(l) /\ Calm(p, l)
    BY <2>1, <2>2, <1>2, QuietStep
  <2>4. ASSUME NEW l \in Key
        PROVE  Place(p, l)' = 0 /\ Pending(p, l)' = c(l) /\ Allowed(p, l)' = {None}
    <3>1. Place(p, l)' = 0 /\ Pending(p, l)' = c(l)
      BY <2>2 DEF Place, Pending, c
    <3> QED
      BY <3>1 DEF Allowed
  <2>5. ASSUME NEW l \in Key PROVE MonitorOK(l)' /\ Keeps(p, l)
    <3>1. hist'[l] = Called(hist[l], p, c(l))
      BY <2>1, <1>3
    <3>2. MonitorOK(l)'
      BY <3>1, <1>1, <1>3, <2>3, <2>4, KeyCalled
    <3> QED
      BY <3>2, <2>4 DEF Keeps
  <2>6. hist' = [l \in Key |-> hist'[l]]
    BY <2>1 DEF h
  <2> QED
    BY <1>1, <2>1, <2>2, <2>3, <2>5, <2>6, WideStep
<1>5. CASE ~read.amended
  <2>1. Walk(p, read.m, h) /\ read.m \in Map
    BY <1>1, <1>2, <1>5 DEF MapTypes
  <2>2. /\ Others(p) /\ PlaceOf(p)' /\ \A q \in Proc : q # p => m_'[q] = m_[q]
        /\ hist' = [l \in Key |-> hist'[l]]
        /\ \A l \in Key : read.m[l] # 0 =>
               Place(p, l)' = read.m[l] /\ Pending(p, l)' = c(l) /\ hist'[l] = h[l]
        /\ \A l \in Key : read.m[l] = 0 =>
               /\ Place(p, l)' = 0 /\ Pending(p, l)' = None /\ Allowed(p, l)' = {None}
               /\ hist'[l] = Answered(h[l], p, NotFound)
    BY <2>1, <1>1, <1>2, WalkPlaces DEF c
  <2>3. /\ Moves(0, 0)
        /\ \A l \in Key : EntryOf(l)' = EntryOf(l) /\ Now(l)' = Now(l) /\ Calm(p, l)
    BY <2>2, <1>2, QuietStep
  <2>4. ASSUME NEW l \in Key PROVE MonitorOK(l)' /\ (Keeps(p, l) \/ Finds(p, l))
    <3>1. EntryOf(l) = read.m[l]
      BY <1>1, <1>5, NotAmended
    <3>2. CASE read.m[l] # 0
      <4>1. Place(p, l)' = EntryOf(l)' /\ Pending(p, l)' = c(l)
        BY <3>1, <3>2, <2>2, <2>3
      <4>2. Allowed(p, l)' = {None}
        BY <4>1 DEF Allowed
      <4>3. hist'[l] = Called(hist[l], p, c(l))
        BY <3>2, <2>2, <1>3
      <4>4. MonitorOK(l)'
        BY <4>1, <4>2, <4>3, <1>1, <1>3, <2>3, KeyCalled
      <4>5. Finds(p, l)
        <5>1. Of(Place(p, l)', l)
          BY <3>2, <2>2 DEF Of, InMaps
        <5> QED
          BY <5>1, <4>1, <1>3 DEF Finds, HeldBy
      <4> QED
        BY <4>4, <4>5
    <3>3. CASE read.m[l] = 0
      <4>1. Now(l) = None /\ Now(l)' = None
        BY <3>1, <3>3, <2>3 DEF Now
      <4>2. hist'[l] = Answered(Called(hist[l], p, c(l)), p, NotFound)
        BY <3>3, <2>2, <1>3
      <4>3. MonitorOK(l)'
        BY <4>1, <4>2, <3>3, <1>1, <1>3, <2>2, <2>3, KeyGone
      <4> QED
        BY <4>3, <3>3, <2>2 DEF Keeps
    <3> QED
      BY <3>2, <3>3
  <2> QED
    BY <1>1, <2>2, <2>3, <2>4, WideStep
<1> QED
  BY <1>4, <1>5

(* The dirty map becomes the read map. *)
LEMMA PromoteMoves ==
    ASSUME IInv, Fit(read.m, read.amended, dirty, p_, {}, {}), dirty # nil, Promote(dirty), p_' = p_
    PROVE  Moves(0, 0) /\ \A l \in Key : EntryOf(l)' = dirty[l] /\ Fades(l)
<1>0. 0 \notin Entry
  BY SyncMapConstants DEF Entry
<1>1. /\ \A l \in Key : read.m[l] # 0 =>
             IF p_[read.m[l]] = expunged THEN dirty[l] = 0 ELSE dirty[l] = read.m[l]
      /\ \A l \in Key : EntryOf(l) = IF read.m[l] # 0 THEN read.m[l] ELSE dirty[l]
  BY DEF Fit, EntryOf
<1>2. read'.m = dirty /\ dirty' = nil
  BY DEF Promote
<1>3. \A l \in Key : EntryOf(l)' = dirty[l]
  BY <1>2 DEF EntryOf
<1>4. \A l \in Key : Fades(l)
  BY <1>1, <1>3 DEF Fades
<1>5. ASSUME NEW l \in Key, NEW e \in Entry, InMaps(e, l)' PROVE InMaps(e, l)
  BY <1>5, <1>2 DEF InMaps
<1>6. ASSUME NEW l \in Key, NEW e \in Entry, Sure(e, l) PROVE Sure(e, l)'
  BY <1>6, <1>0, <1>1, <1>2 DEF Sure
<1>7. \A l \in Key, e \in Entry : ~Only(e, l)'
  BY <1>2 DEF Only
<1> QED
  BY <1>3, <1>4, <1>5, <1>6, <1>7 DEF Moves

(* Range looks again under mu, and promotes the dirty map. *)
LEMMA RangeLockedLin ==
    ASSUME LInv, NEW p \in Proc, RangeLocked(p)
    PROVE  LInv'
<1> DEFINE c(l) == Call("Load", l, None)
<1>1. IInv /\ IInv' /\ LocalTypes /\ MapTypes /\ 0 \notin Entry
  BY RangeLockedInv, Types, SyncMapConstants DEF LInv, Entry
<1>2. /\ pc[p] = "rangelock" /\ mu = nil /\ p_' = p_ /\ call' = call /\ e_' = e_
  BY DEF RangeLocked, At
<1>3. Fit(read.m, read.amended, dirty, p_, {}, {})
  BY <1>1, <1>2, NotBuilding
<1>4. PICK m \in Map :
          /\ Walk(p, m, hist) /\ Moves(0, 0)
          /\ \A l \in Key : /\ EntryOf(l)' = m[l] /\ Fades(l) /\ InMaps(m[l], l)
  <2>1. CASE read.amended
    <3>1. Promote(dirty) /\ Walk(p, dirty, hist)
      BY <2>1 DEF RangeLocked
    <3>2. dirty # nil /\ dirty \in Map
      BY <2>1, <1>1, <1>3 DEF Fit, MapTypes
    <3>3. Moves(0, 0) /\ \A l \in Key : EntryOf(l)' = dirty[l] /\ Fades(l)
      BY <3>1, <3>2, <1>1, <1>2, <1>3, PromoteMoves
    <3> QED
      BY <3>1, <3>2, <3>3 DEF InMaps
  <2>2. CASE ~read.amended
    <3>1. Walk(p, read.m, hist) /\ read' = read /\ dirty' = dirty /\ read.m \in Map
      BY <2>2, <1>1 DEF RangeLocked, maps, MapTypes
    <3>2. \A l \in Key : EntryOf(l)' = EntryOf(l) /\ Fades(l)
      BY <3>1, SameEntry
    <3>3. Moves(0, 0)
      BY <3>1, <1>2, MovesNot
    <3>4. \A l \in Key : EntryOf(l) = read.m[l]
      BY <2>2, <1>1, NotAmended
    <3> QED
      BY <3>1, <3>2, <3>3, <3>4 DEF InMaps
  <2> QED
    BY <2>1, <2>2
<1>5. /\ Others(p) /\ PlaceOf(p)' /\ (\A q \in Proc : q # p => m_'[q] = m_[q])
      /\ hist' = [l \in Key |-> hist'[l]]
      /\ \A l \in Key : m[l] # 0 =>
             Place(p, l)' = m[l] /\ Pending(p, l)' = c(l) /\ hist'[l] = hist[l]
      /\ \A l \in Key : m[l] = 0 =>
             /\ Place(p, l)' = 0 /\ Pending(p, l)' = None /\ Allowed(p, l)' = {None}
             /\ hist'[l] = Answered(hist[l], p, NotFound)
  BY <1>1, <1>2, <1>4, WalkPlaces
<1>6. ASSUME NEW l \in Key
      PROVE  /\ c(l) \in Calls /\ c(l).name = "Load" /\ MonitorOK(l) /\ Untouched(l)
             /\ Place(p, l) = 0 /\ Pending(p, l) = c(l) /\ Allowed(p, l) = {None}
  <2>1. c(l) \in Calls /\ c(l).name = "Load" /\ MonitorOK(l) /\ Untouched(l)
    BY <1>2 DEF Call, Calls, LInv, HistOK, Untouched
  <2>2. Place(p, l) = 0 /\ Pending(p, l) = c(l)
    BY <1>2 DEF Place, Pending
  <2>3. Allowed(p, l) = {None}
    BY <2>2 DEF Allowed
  <2> QED
    BY <2>1, <2>2, <2>3
<1> HIDE DEF c
<1>7. \A q \in Proc, l \in Key : q # p => Place(q, l)' = Place(q, l) /\ Pending(q, l)' = Pending(q, l)
  BY <1>5, OtherPlaces
<1>8. ASSUME NEW l \in Key PROVE MonitorOK(l)' /\ (Keeps(p, l) \/ Finds(p, l))
  <2>1. CASE m[l] # 0
    <3>1. Place(p, l)' = EntryOf(l)' /\ Pending(p, l)' = c(l) /\ hist'[l] = hist[l]
      BY <2>1, <1>4, <1>5
    <3>2. Allowed(p, l)' = {None}
      BY <3>1 DEF Allowed
    <3>3. MonitorOK(l)'
      BY <3>1, <3>2, <1>1, <1>4, <1>6, <1>7, KeyFades
    <3>4. Finds(p, l)
      <4>1. Of(Place(p, l)', l)
        BY <2>1, <1>4, <1>5 DEF Of
      <4> QED
        BY <4>1, <3>1, <1>6 DEF Finds, HeldBy
    <3> QED
      BY <3>3, <3>4
  <2>2. CASE m[l] = 0
    <3>1. Now(l)' = None
      BY <2>2, <1>4 DEF Now
    <3>2. MonitorOK(l)'
      BY <2>2, <3>1, <1>1, <1>4, <1>5, <1>6, <1>7, KeyMisses
    <3> QED
      BY <3>2, <2>2, <1>5 DEF Keeps
  <2> QED
    BY <2>1, <2>2
<1> QED
  BY <1>1, <1>4, <1>5, <1>8, WideStep

(* Range reports a key, and may stop before the others. *)
LEMMA VisitLin ==
    ASSUME LInv, NEW p \in Proc, NEW k \in Key, NEW go \in BOOLEAN, Visit(p, k, go)
    PROVE  LInv'
<1> DEFINE c(l) == Call("Load", l, None)
           h == [hist EXCEPT ![k] = Answered(hist[k], p, Value_(p_[m_[p][k]]))]
<1>0. PICK left, i : left = (IF go THEN rest[p] \ {k} ELSE {}) /\ i = m_[p][k]
  OBVIOUS
<1>1. IInv /\ IInv' /\ LocalTypes /\ MapTypes /\ 0 \notin Entry
  BY VisitInv, Types, SyncMapConstants DEF LInv, Entry
<1>2. /\ pc[p] = "range" /\ k \in rest[p] /\ UNCHANGED maps /\ p_' = p_ /\ call' = call /\ e_' = e_
      /\ rest' = [rest EXCEPT ![p] = left]
      /\ m_' = [m_ EXCEPT ![p] = IF left = {} THEN Empty ELSE m_[p]]
      /\ pc' = [pc EXCEPT ![p] = IF left = {} THEN "idle" ELSE "range"]
      /\ hist' = [l \in Key |-> IF l \in rest[p] \ (left \union {k}) THEN Withdrawn(h[l], p) ELSE h[l]]
  BY <1>0 DEF Visit, At, Goto
<1>3. /\ hist' = [l \in Key |-> hist'[l]]
      /\ hist'[k] = Answered(hist[k], p, Value_(p_[i]))
      /\ \A l \in Key : l # k => hist'[l] = IF l \in rest[p] \ left THEN Withdrawn(hist[l], p) ELSE hist[l]
  <2>1. hist = [l \in Key |-> hist[l]]
    BY DEF LInv, HistOK
  <2>2. h[k] = Answered(hist[k], p, Value_(p_[i])) /\ \A l \in Key : l # k => h[l] = hist[l]
    BY <2>1, <1>0
  <2>3. \A l \in Key : hist'[l] = IF l \in rest[p] \ (left \union {k}) THEN Withdrawn(h[l], p) ELSE h[l]
    BY <1>2
  <2>4. hist' = [l \in Key |-> hist'[l]]
    BY <1>2
  <2> HIDE DEF h
  <2> QED
    BY <2>2, <2>3, <2>4
<1>4. left \subseteq rest[p] \ {k}
  BY <1>0
<1>5. /\ Others(p) /\ pc'[p] = (IF left = {} THEN "idle" ELSE "range") /\ rest'[p] = left
      /\ (left # {} => m_'[p] = m_[p]) /\ \A q \in Proc : q # p => m_'[q] = m_[q]
  BY <1>1, <1>2 DEF LocalTypes, Others
<1>6. \A l \in rest[p] : l \in Key /\ m_[p][l] # 0
  BY <1>1, <1>2 DEF LInv, PlaceOK, PlaceOf, LocalTypes
<1>7. PlaceOf(p)'
  BY <1>4, <1>5, <1>6 DEF PlaceOf
<1>8. /\ Moves(0, 0)
      /\ \A l \in Key : /\ EntryOf(l)' = EntryOf(l) /\ Now(l)' = Now(l) /\ Calm(p, l)
                        /\ Fades(l) /\ Untouched(l)
      /\ \A q \in Proc, l \in Key : q # p =>
             Place(q, l)' = Place(q, l) /\ Pending(q, l)' = Pending(q, l)
  BY <1>2, <1>5, QuietStep
<1>9. ASSUME NEW l \in Key, l \in rest[p]
      PROVE  Place(p, l) = m_[p][l] /\ Pending(p, l) = c(l) /\ c(l) \in Calls /\ c(l).name = "Load"
  BY <1>2, <1>9 DEF Place, Pending, Call, Calls
<1> HIDE DEF c
<1>10. ASSUME NEW l \in Key, l \notin left
       PROVE  Place(p, l)' = 0 /\ Pending(p, l)' = None /\ Allowed(p, l)' = {None}
  <2>1. Place(p, l)' = 0 /\ Pending(p, l)' = None
    BY <1>5, <1>10 DEF Place, Pending
  <2> QED
    BY <2>1 DEF Allowed
<1>11. ASSUME NEW l \in Key PROVE Keeps(p, l)
  <2>1. CASE l \in left
    <3>1. Place(p, l)' = m_[p][l] /\ Pending(p, l)' = c(l)
      BY <2>1, <1>5 DEF Place, Pending, c
    <3> QED
      BY <3>1, <2>1, <1>4, <1>9 DEF Keeps
  <2>2. CASE l \notin left
    BY <2>2, <1>10 DEF Keeps
  <2> QED
    BY <2>1, <2>2
<1>12. ASSUME NEW l \in Key PROVE MonitorOK(l)
  BY DEF LInv, HistOK
<1>13. MonitorOK(k)'
  <2>0. PICK a : a = Value_(p_[i])
    OBVIOUS
  <2>1. /\ Place(p, k) = i /\ Pending(p, k) = c(k) /\ c(k) \in Calls /\ c(k).name = "Load"
        /\ i # 0 /\ i \in Entry
    BY <1>0, <1>1, <1>2, <1>6, <1>9, PlaceFacts
  <2>2. p_[i] \in Value \union {nil, expunged}
    BY <2>1, <1>1, EntryFacts
  <2>3. a = [v |-> Content(p_[i]), ok |-> Content(p_[i]) # None] /\ a \in Answers
    BY <2>0, <2>2, ContentFacts
  <2>4. k \notin left /\ hist'[k] = Answered(hist[k], p, a)
    BY <2>0, <1>3, <1>4
  <2>5. CASE i = EntryOf(k)
    <3>1. Now(k) = Content(p_[i])
      BY <2>1, <2>5 DEF Now
    <3>2. After(c(k), Now(k)) = Now(k) /\ Answer(c(k), Now(k)) = a
      BY <3>1, <2>1, <2>3 DEF After, Answer
    <3>3. None \in Allowed(p, k)
      BY <2>1, <2>5 DEF Allowed
    <3>4. hist'[k] = Answered(hist[k], p, Answer(c(k), Now(k))) /\ Now(k)' = After(c(k), Now(k))
      BY <3>2, <2>4, <1>8
    <3> QED
      BY <3>3, <3>4, <2>1, <2>4, <1>1, <1>8, <1>10, <1>12, KeyReturn
  <2>6. CASE i # EntryOf(k)
    <3>1. a \in Allowed(p, k)
      BY <2>0, <2>1, <2>6 DEF Allowed
    <3> QED
      BY <3>1, <2>3, <2>4, <1>1, <1>8, <1>10, <1>12, KeyAnswer
  <2> QED
    BY <2>5, <2>6
<1>14. ASSUME NEW l \in Key, l # k PROVE MonitorOK(l)'
  <2>1. CASE l \in left
    <3>1. Place(p, l)' = m_[p][l] /\ Pending(p, l)' = c(l) /\ l \in rest[p]
      BY <2>1, <1>4, <1>5 DEF Place, Pending, c
    <3>2. Place(p, l)' = Place(p, l) /\ Pending(p, l)' = Pending(p, l)
      BY <3>1, <1>9
    <3>3. Allowed(p, l)' = Allowed(p, l)
      <4>1. PICK j, d, b : j = Place(p, l) /\ d = EntryOf(l) /\ b = Pending(p, l)
        OBVIOUS
      <4>2. Place(p, l)' = j /\ EntryOf(l)' = d /\ Pending(p, l)' = b
        BY <4>1, <3>2, <1>8
      <4> QED
        BY <4>1, <4>2, <1>2 DEF Allowed
    <3>4. hist'[l] = hist[l]
      BY <2>1, <1>3, <1>14
    <3> QED
      BY <3>2, <3>3, <3>4, <1>1, <1>8, <1>12, KeyFades
  <2>2. CASE l \in rest[p] \ left
    <3>1. hist'[l] = Withdrawn(hist[l], p)
      BY <2>2, <1>3, <1>14
    <3>2. \E a \in Answers \union {None} : a \in Allowed(p, l)
      <4>1. CASE Place(p, l) \in {0, EntryOf(l)}
        BY <4>1 DEF Allowed
      <4>2. CASE Place(p, l) \notin {0, EntryOf(l)}
        <5>1. NotFound \in Allowed(p, l)
          BY <4>2, <2>2, <1>9 DEF Allowed
        <5> QED
          BY <5>1 DEF NotFound, Answers
      <4> QED
        BY <4>1, <4>2
    <3> QED
      BY <3>1, <3>2, <2>2, <1>1, <1>8, <1>10, <1>12, KeyWithdrawn
  <2>3. CASE l \notin rest[p]
    <3>1. hist'[l] = hist[l] /\ l \notin left
      BY <2>3, <1>3, <1>4, <1>14
    <3>2. Place(p, l) = 0 /\ Pending(p, l) = None
      BY <2>3, <1>2 DEF Place, Pending
    <3>3. Allowed(p, l) = {None}
      BY <3>2 DEF Allowed
    <3> QED
      BY <3>1, <3>2, <3>3, <1>1, <1>8, <1>10, <1>12, KeyFades
  <2> QED
    BY <2>1, <2>2, <2>3
<1> QED
  BY <1>1, <1>3, <1>5, <1>7, <1>8, <1>11, <1>13, <1>14, WideStep
-----------------------------------------------------------------------------
(* Every step. *)
LEMMA StepLin ==
    ASSUME LInv, NEW p \in Proc, Begin(p) \/ Step(p)
    PROVE  LInv'
<1>1. CASE Begin(p)
  BY <1>1, BeginLin, RangeLin DEF Begin
<1>2. CASE load(p) \/ delete(p) \/ tryStore(p) \/ tryLoadOrStore(p)
  BY <1>2, LoadLin, DeleteLin, TryStoreLin, TryLoadOrStoreLin
<1>3. CASE LookupLocked(p) \/ unexpungeLocked(p) \/ storeLocked(p)
  BY <1>3, LookupLockedLin, UnexpungeLin, StoreLockedLin
<1>4. CASE StoreDirty(p) \/ StoreNew(p) \/ dirtyLocked(p) \/ StoreNewDirty(p)
  BY <1>4, StoreDirtyLin, StoreNewLin, DirtyLockedLin, StoreNewDirtyLin
<1>5. CASE \E k \in Key : tryExpungeLocked(p, k) \/ \E go \in BOOLEAN : Visit(p, k, go)
  BY <1>5, TryExpungeLin, VisitLin
<1>6. CASE RangeLocked(p)
  BY <1>6, RangeLockedLin
<1> QED
  BY <1>1, <1>2, <1>3, <1>4, <1>5, <1>6 DEF Step

(* Before the first call. *)
LEMMA NoCallsOK ==
    /\ NoCalls \in Monitor /\ Closed(NoCalls) /\ \A q \in Proc : NoCalls.calls[q] = None
    /\ \A A : (\A q \in Proc : A[q] = {None}) => Cov(NoCalls, None, A)
<1> DEFINE z == [q \in Proc |-> None]
<1>1. z \in Given /\ z \in [Proc -> Calls \union {None}] /\ \A q \in Proc : z[q] = None
  BY DEF Given
<1>2. NoCalls.calls = z /\ NoCalls.poss = {[cur |-> None, ans |-> z]}
  BY DEF NoCalls
<1>3. NoCalls = [calls |-> z, poss |-> {[cur |-> None, ans |-> z]}]
  BY DEF NoCalls
<1> HIDE DEF z
<1>4. NoCalls \in Monitor
  BY <1>1, <1>3 DEF Monitor, Conf
<1>5. Closed(NoCalls)
  BY <1>1, <1>2 DEF Closed, ClosedUnder
<1>6. ASSUME NEW A, \A q \in Proc : A[q] = {None} PROVE Cov(NoCalls, None, A)
  <2> SUFFICES ASSUME NEW f \in Given, \A q \in Proc : f[q] \in A[q] PROVE f = z
    BY <1>2 DEF Cov, May
  <2>1. \A q \in Proc : f[q] = z[q]
    BY <1>1, <1>6
  <2> QED
    BY <2>1, <1>1 DEF Given
<1> QED
  BY <1>1, <1>2, <1>4, <1>5, <1>6

(* The initial state. *)
LEMMA InitLin ==
    ASSUME Init
    PROVE  LInv
<1>1. /\ IInv /\ 0 \notin Entry /\ dirty = nil /\ read.m = Empty
      /\ (\A q \in Proc : pc[q] = "idle") /\ hist = [k \in Key |-> NoCalls]
  BY InitInv, SyncMapConstants DEF Init, Entry
<1>2. \A k \in Key : read.m[k] = 0
  BY <1>1 DEF Empty
<1>3. ASSUME NEW q \in Proc, NEW k \in Key
      PROVE  Place(q, k) = 0 /\ Pending(q, k) = None /\ Allowed(q, k) = {None}
  BY <1>1, <1>3, Elsewhere
<1>4. PlaceOK
  BY <1>1 DEF PlaceOK, PlaceOf
<1>5. Apart /\ Held
  BY <1>1, <1>2, <1>3 DEF Apart, Of, InMaps, Held, Deletes
<1>6. ASSUME NEW k \in Key PROVE hist[k] = NoCalls /\ MonitorOK(k)
  <2> DEFINE A == [q \in Proc |-> Allowed(q, k)]
  <2>1. hist[k] = NoCalls /\ Now(k) = None
    BY <1>1, <1>2 DEF Now, EntryOf
  <2>2. \A q \in Proc : A[q] = {None}
    BY <1>3
  <2> HIDE DEF A
  <2>3. Cov(hist[k], Now(k), A)
    BY <2>1, <2>2, NoCallsOK
  <2> QED
    BY <2>1, <2>3, <1>3, NoCallsOK DEF MonitorOK, A
<1>7. hist = [k \in Key |-> hist[k]]
  BY <1>1, <1>6
<1>8. HistOK
  BY <1>6, <1>7 DEF HistOK
<1> QED
  BY <1>1, <1>4, <1>5, <1>8 DEF LInv

(* A step that changes nothing. *)
LEMMA StutterLin ==
    ASSUME LInv, UNCHANGED vars
    PROVE  LInv'
<1>1. /\ read' = read /\ dirty' = dirty /\ p_' = p_ /\ pc' = pc /\ call' = call /\ e_' = e_
      /\ rest' = rest /\ m_' = m_ /\ hist' = hist
  BY DEF vars
<1>2. IInv'
  BY StutterInv DEF LInv
<1>3. \A q \in Proc, k \in Key : Place(q, k)' = Place(q, k) /\ Pending(q, k)' = Pending(q, k)
  BY <1>1 DEF Place, Pending
<1>4. PlaceOK'
  BY <1>1 DEF LInv, PlaceOK, PlaceOf
<1>5. \A k \in Key : EntryOf(k)' = EntryOf(k)
  BY <1>1 DEF EntryOf
<1>6. \A k \in Key : Now(k)' = Now(k)
  BY <1>1, <1>5 DEF Now, Content
<1>7. ASSUME NEW q \in Proc, NEW k \in Key PROVE Allowed(q, k)' = Allowed(q, k)
  <2>1. PICK j, d, b : j = Place(q, k) /\ d = EntryOf(k) /\ b = Pending(q, k)
    OBVIOUS
  <2>2. Place(q, k)' = j /\ EntryOf(k)' = d /\ Pending(q, k)' = b
    BY <2>1, <1>3, <1>5
  <2> QED
    BY <2>1, <2>2, <1>1 DEF Allowed
<1>8. ASSUME NEW k \in Key PROVE MonitorOK(k)'
  <2> DEFINE A == [q \in Proc |-> Allowed(q, k)]
             B == [q \in Proc |-> Allowed(q, k)']
  <2>1. \A q \in Proc : B[q] \subseteq A[q]
    BY <1>7
  <2>2. MonitorOK(k) /\ Cov(hist[k], Now(k), A)
    BY DEF LInv, HistOK, MonitorOK
  <2>3. B = [q \in Proc |-> Allowed(q, k)]'
    OBVIOUS
  <2> HIDE DEF A, B
  <2>4. Cov(hist[k], Now(k), B)
    BY <2>1, <2>2, CovShrink
  <2> QED
    BY <2>2, <2>3, <2>4, <1>1, <1>3, <1>6 DEF MonitorOK
<1>9. HistOK'
  BY <1>1, <1>8 DEF LInv, HistOK
<1>10. Apart' /\ Held'
  <2>1. \A k \in Key, e \in Entry : /\ InMaps(e, k)' <=> InMaps(e, k)
                                    /\ Sure(e, k)' <=> Sure(e, k)
    BY <1>1 DEF InMaps, Sure
  <2>2. \A k \in Key, e \in Entry :
            /\ Of(e, k)' <=> Of(e, k)
            /\ \A q \in Proc : Deletes(q, e, k)' <=> Deletes(q, e, k)
    BY <2>1, <1>3 DEF Of, Deletes
  <2>3. ASSUME NEW q \in Proc, NEW k \in Key PROVE HeldBy(q, k)' <=> HeldBy(q, k)
    <3>1. /\ Sure(Place(q, k), k)' <=> Sure(Place(q, k), k)
          /\ Only(Place(q, k), k)' <=> Only(Place(q, k), k)
      <4>1. PICK j : j = Place(q, k)
        OBVIOUS
      <4>2. Place(q, k)' = j
        BY <4>1, <1>3
      <4> QED
        BY <4>1, <4>2, <1>1 DEF Sure, Only
    <3> QED
      BY <3>1, <1>3 DEF HeldBy
  <2>4. Apart'
    BY <2>2 DEF LInv, Apart
  <2>5. \A q \in Proc, k \in Key : Place(q, k)' # 0 => HeldBy(q, k)'
    BY <2>3, <1>3 DEF LInv, Held
  <2>6. \A q, r \in Proc, k \in Key, e \in Entry :
            q # r /\ Deletes(q, e, k)' /\ Deletes(r, e, k)' => Sure(e, k)'
    BY <2>1, <2>2 DEF LInv, Held
  <2> QED
    BY <2>4, <2>5, <2>6 DEF Held
<1> QED
  BY <1>2, <1>4, <1>9, <1>10 DEF LInv

(* Every goroutine in a call on k has an answer that it may give. *)
LEMMA SomeAnswers ==
    ASSUME LInv
    PROVE  Linearizable
<1> SUFFICES ASSUME NEW k \in Key PROVE hist[k].poss # {}
  BY DEF Linearizable, Explained
<1>1. IInv /\ Cov(hist[k], Now(k), [q \in Proc |-> Allowed(q, k)])
  BY DEF LInv, HistOK, MonitorOK
<1>2. \A q \in Proc : \E a \in Answers \union {None} : a \in Allowed(q, k)
  <2> SUFFICES ASSUME NEW q \in Proc PROVE \E a \in Answers \union {None} : a \in Allowed(q, k)
    OBVIOUS
  <2>1. CASE Place(q, k) \in {0, EntryOf(k)}
    BY <2>1 DEF Allowed
  <2>2. CASE Place(q, k) \notin {0, EntryOf(k)}
    <3>1. p_[Place(q, k)] \in Value \union {nil, expunged}
      BY <2>2, <1>1, PlaceFacts, EntryFacts
    <3>2. Value_(p_[Place(q, k)]) \in Answers
      BY <3>1, ContentFacts
    <3> QED
      BY <3>2, <2>2 DEF Allowed
  <2> QED
    BY <2>1, <2>2
<1> DEFINE f == [q \in Proc |-> CHOOSE a \in Answers \union {None} : a \in Allowed(q, k)]
<1>3. f \in Given /\ \A q \in Proc : f[q] \in Allowed(q, k)
  BY <1>2 DEF Given
<1> HIDE DEF f
<1>4. May(hist[k].poss, Now(k), f)
  BY <1>1, <1>3 DEF Cov
<1> QED
  BY <1>4 DEF May

(* Every answer that sync.Map gives is that of a map whose operations take   *)
(* effect one at a time between call and return, for any number of           *)
(* goroutines, keys, values and entries.                                     *)
THEOREM SyncMapLinearizable == Spec => []Linearizable
<1>1. Init => LInv
  BY InitLin
<1>2. LInv /\ [Next]_vars => LInv'
  BY StepLin, StutterLin DEF Next
<1>3. LInv => Linearizable
  BY SomeAnswers
<1> QED
  BY <1>1, <1>2, <1>3, PTL DEF Spec
=============================================================================
