---- MODULE HashMapProofs ----
(***************************************************************************)
(* For every set of keys, values, initial capacities and operations, and   *)
(* every bound: the hash table keeps its keys unique and reachable, its    *)
(* size counter covers its live entries, and hashmap_resize never nests.   *)
(***************************************************************************)
EXTENDS HashMap, FiniteSetTheorems, TLAPS

(* hash() stays inside the table. *)
LEMMA HashRange ==
  ASSUME NEW k \in Nat, NEW c \in Nat, c > 0
  PROVE  hash(k, c) \in 0 .. c - 1
BY DEF hash

(* index = (index + 1) % capacity wraps around at the end of the table. *)
LEMMA NextIndex ==
  ASSUME NEW c \in Nat, NEW j \in 0 .. c - 1
  PROVE  (j + 1) % c = IF j + 1 = c THEN 0 ELSE j + 1
BY SMT

(* One step further, a probing loop has passed one bucket more (or has     *)
(* come full circle).                                                      *)
LEMMA PathStep ==
  ASSUME NEW c \in Nat, NEW h \in 0 .. c - 1, NEW j \in 0 .. c - 1
  PROVE  Path(h, (j + 1) % c, c) \subseteq Path(h, j, c) \union {j}
<1>1. CASE j + 1 = c
  <2>1. (j + 1) % c = 0
    BY <1>1, NextIndex
  <2> QED BY <2>1, <1>1 DEF Path
<1>2. CASE j + 1 # c
  <2>1. (j + 1) % c = j + 1
    BY <1>2, NextIndex
  <2> QED BY <2>1, <1>2 DEF Path
<1> QED BY <1>1, <1>2

(* Of two buckets, a probing loop meets one before the other. *)
LEMMA PathTotal ==
  ASSUME NEW c \in Nat, NEW h \in 0 .. c - 1,
         NEW a \in 0 .. c - 1, NEW b \in 0 .. c - 1, a # b
  PROVE  a \in Path(h, b, c) \/ b \in Path(h, a, c)
BY DEF Path

(* Probing never leaves the table. *)
LEMMA PathInside ==
  ASSUME NEW c \in Nat, NEW h \in 0 .. c - 1, NEW j \in 0 .. c - 1
  PROVE  Path(h, j, c) \subseteq 0 .. c - 1 /\ j \notin Path(h, j, c) /\ Path(h, h, c) = {}
BY DEF Path
------------------------------------------------------------------------------

(* The live buckets are finitely many: they are buckets of the table. *)
LEMMA LiveFinite == TypeOK => IsFiniteSet(LiveSet) /\ LiveSet \subseteq 0 .. capacity - 1
<1> SUFFICES ASSUME TypeOK PROVE IsFiniteSet(LiveSet) /\ LiveSet \subseteq 0 .. capacity - 1
  OBVIOUS
<1>1. LiveSet \subseteq 0 .. capacity - 1
  BY DEF LiveSet, TypeOK
<1>2. IsFiniteSet(0 .. capacity - 1)
  BY FS_Interval DEF TypeOK
<1> QED BY <1>1, <1>2, FS_Subset

(* A table fresh from calloc has no live bucket; all that the invariant    *)
(* says of the table holds of it.                                          *)
LEMMA FreshTable ==
  ASSUME NEW n \in Nat, capacity' = n, buckets' = calloc(n), size' = 0
  PROVE  /\ buckets' \in [0 .. capacity' - 1 -> Bucket]
         /\ LiveTyped(buckets)' /\ LiveKeysUnique' /\ LiveReachable' /\ SizeCoversLive'
<1>1. LiveSet' = {}
  BY DEF LiveSet, calloc, Blank
<1>2. Cardinality(LiveSet') = 0
  BY <1>1, FS_EmptySet
<1>3. buckets' \in [0 .. capacity' - 1 -> Bucket]
  BY DEF calloc, Blank, Bucket
<1>4. LiveTyped(buckets)'
  BY DEF LiveTyped, calloc, Blank
<1> QED BY <1>1, <1>2, <1>3, <1>4 DEF LiveKeysUnique, LiveReachable, SizeCoversLive

(* hashmap_init establishes the invariant. *)
LEMMA InitInv == Init => IInv
<1> SUFFICES ASSUME Init PROVE IInv
  OBVIOUS
<1>0. PICK c \in Capacities : capacity = c /\ buckets = calloc(c)
  BY DEF Init
<1>1. c \in Nat
  BY CapacitiesAssumption
<1>2. LiveSet = {}
  BY <1>0 DEF LiveSet, calloc, Blank
<1>3. Cardinality(LiveSet) = 0
  BY <1>2, FS_EmptySet
<1>4. TypeOK
  BY <1>0, <1>1 DEF Init, TypeOK, calloc, Blank, Bucket, Fail
<1>5. CallInv
  BY DEF Init, CallInv
<1>6. LiveTyped(buckets) /\ LiveTyped(old)
  BY <1>0 DEF Init, LiveTyped, calloc, Blank
<1>7. LiveKeysUnique /\ LiveReachable /\ SizeCoversLive /\ ProbedInVain
  BY <1>2, <1>3 DEF Init, LiveKeysUnique, LiveReachable, SizeCoversLive, ProbedInVain
<1> QED BY <1>4, <1>5, <1>6, <1>7 DEF IInv

------------------------------------------------------------------------------
(* One lemma per action. *)

(* hashmap_reset and hashmap_destroy leave a fresh table, or none. *)
LEMMA ResetKeeps ==
  ASSUME IInv, NEW c \in Nat, pc = "idle",
         capacity' = c, buckets' = calloc(c), size' = 0,
         UNCHANGED <<pc, call, index, old, i, result>>
  PROVE  IInv'
<1> USE DEF IInv
<1>1. TypeOK'
  BY FreshTable DEF TypeOK, calloc
<1>2. CallInv' /\ LiveTyped(old)' /\ ProbedInVain'
  BY DEF CallInv, LiveTyped, ProbedInVain
<1> QED BY <1>1, <1>2, FreshTable

(* A call starts with nothing probed. *)
LEMMA StartProbeKeeps ==
  ASSUME IInv, NEW k \in Keys, NEW op \in {"put", "get", "has", "remove"},
         NEW v \in Vals \union {NoVal}, op = "put" => v \in Vals,
         pc = "idle", capacity > 0,
         call' = [op |-> op, key |-> k, val |-> v],
         StartProbe(k), UNCHANGED result
  PROVE  IInv'
<1> USE DEF IInv, StartProbe
<1>0. hash(k, capacity) \in 0 .. capacity - 1
  BY HashRange, KeysAssumption DEF TypeOK
<1>1. TypeOK'
  BY <1>0 DEF TypeOK
<1>2. CallInv'
  BY DEF CallInv, TypeOK
<1>3. LiveTyped(buckets)' /\ LiveTyped(old)'
  BY DEF LiveTyped
<1>4. LiveSet' = LiveSet
  BY DEF LiveSet
<1>5. LiveKeysUnique' /\ LiveReachable' /\ SizeCoversLive'
  BY <1>4 DEF LiveKeysUnique, LiveReachable, SizeCoversLive
<1>6. ProbedInVain'
  <2>1. Wanted'.key = k
    BY DEF Wanted
  <2>2. Path(index', index', capacity) = {}
    BY <1>0, PathInside DEF TypeOK
  <2> QED BY <2>1, <2>2 DEF ProbedInVain
<1> QED BY <1>1, <1>2, <1>3, <1>5, <1>6

(* hashmap_resize starts with an empty table and the old one aside. *)
LEMMA ResizeKeeps ==
  ASSUME IInv, NEW k \in Keys, NEW v \in Vals, pc = "idle", capacity > 0,
         call' = [op |-> "put", key |-> k, val |-> v],
         hashmap_resize, UNCHANGED result
  PROVE  IInv'
<1> USE DEF IInv, hashmap_resize
<1>0. 2 * capacity \in Nat /\ (2 * capacity) \div 2 = capacity
  BY DEF TypeOK
<1>1. TypeOK'
  BY <1>0, FreshTable DEF TypeOK, old_capacity
<1>2. CallInv'
  BY <1>0 DEF CallInv, TypeOK, old_capacity
<1>3. LiveTyped(old)' /\ ProbedInVain'
  BY DEF LiveTyped, ProbedInVain
<1> QED BY <1>0, <1>1, <1>2, <1>3, FreshTable


(* What a probing loop looks for, and what a put puts, comes from the      *)
(* client, whether directly or by way of the table being replaced.         *)
LEMMA WantedTyped ==
  ASSUME IInv, pc \in {"probe", "reput"}
  PROVE  /\ Wanted.key \in Keys /\ (Putting => Wanted.val \in Vals)
         /\ index \in 0 .. capacity - 1 /\ capacity \in Nat /\ capacity > 0
<1> USE DEF IInv
<1>0. index \in 0 .. capacity - 1 /\ capacity \in Nat /\ capacity > 0
  BY DEF TypeOK
<1>1. CASE pc = "reput"
  <2>1. i \in DOMAIN old /\ old[i].st = "live"
    BY <1>1 DEF TypeOK, CallInv, old_capacity
  <2>2. Wanted = old[i]
    BY <1>1 DEF Wanted
  <2> QED BY <1>0, <2>1, <2>2 DEF LiveTyped
<1>2. CASE pc = "probe"
  <2>1. Wanted = call
    BY <1>2 DEF Wanted
  <2> QED BY <1>0, <1>2, <2>1 DEF CallInv, Putting
<1> QED BY <1>1, <1>2

(* One more bucket passed: it was occupied, and not by the wanted key. *)
LEMMA AdvanceKeeps == ASSUME IInv, Advance PROVE IInv'
<1> USE DEF IInv, Advance
<1>0. capacity \in Nat /\ index \in 0 .. capacity - 1 /\ Wanted.key \in Nat /\ capacity > 0
  BY WantedTyped, KeysAssumption
<1>1. index' \in 0 .. capacity - 1
  BY <1>0
<1>2. TypeOK' /\ CallInv'
  BY <1>1 DEF TypeOK, CallInv, old_capacity
<1>3. LiveSet' = LiveSet /\ Wanted' = Wanted
  BY DEF LiveSet, Wanted
<1>4. LiveTyped(buckets)' /\ LiveTyped(old)' /\ LiveKeysUnique' /\ LiveReachable' /\ SizeCoversLive'
  BY <1>3 DEF LiveTyped, LiveKeysUnique, LiveReachable, SizeCoversLive
<1>5. ProbedInVain'
  <2>1. hash(Wanted.key, capacity) \in 0 .. capacity - 1
    BY <1>0, HashRange
  <2>2. Path(hash(Wanted.key, capacity), index', capacity)
          \subseteq Path(hash(Wanted.key, capacity), index, capacity) \union {index}
    BY <1>0, <2>1, PathStep
  <2> QED BY <1>3, <2>2 DEF ProbedInVain, Hit
<1> QED BY <1>2, <1>4, <1>5

(* What a put leaves behind for the code that called it. *)
LEMMA PutDoneKeeps ==
  ASSUME IInv, Putting, PutDone, size' = size + 1,
         buckets' \in [0 .. capacity - 1 -> Bucket]
  PROVE  TypeOK' /\ CallInv' /\ LiveTyped(old)' /\ ProbedInVain'
<1> USE DEF IInv, Putting, PutDone
<1>1. CASE pc = "reput"
  <2>1. TypeOK'
    BY <1>1 DEF TypeOK, old_capacity
  <2>2. CallInv'
    BY <1>1 DEF CallInv, TypeOK, old_capacity
  <2> QED BY <1>1, <2>1, <2>2 DEF LiveTyped, ProbedInVain
<1>2. CASE pc # "reput"
  <2>1. TypeOK'
    <3>1. result' \in [ok : BOOLEAN, val : Vals \union {NoVal}]
      <4>1. result' = Ok(NoVal)
        BY <1>2
      <4>2. Ok(NoVal) \in [ok : BOOLEAN, val : Vals \union {NoVal}]
        BY DEF Ok
      <4> QED BY <4>1, <4>2
    <3> QED BY <1>2, <3>1 DEF TypeOK
  <2>2. CallInv'
    BY <1>2 DEF CallInv, TypeOK
  <2> QED BY <1>2, <2>1, <2>2 DEF LiveTyped, ProbedInVain
<1> QED BY <1>1, <1>2

(* Replacing a value moves no entry. *)
LEMMA PutOverwriteKeeps == ASSUME IInv, PutOverwrite PROVE IInv'
<1> USE DEF IInv, PutOverwrite
<1>0. Wanted.key \in Keys /\ Wanted.val \in Vals /\ index \in 0 .. capacity - 1 /\ capacity' = capacity
  BY WantedTyped DEF PutDone, Putting
<1>1. buckets' \in [0 .. capacity - 1 -> Bucket]
  BY <1>0 DEF TypeOK, Bucket
<1>2. \A j \in 0 .. capacity - 1 : buckets'[j].st = buckets[j].st /\ buckets'[j].key = buckets[j].key
  BY <1>0 DEF TypeOK, Bucket
<1>3. LiveSet' = LiveSet
  BY <1>1, <1>2 DEF LiveSet, TypeOK
<1>4. LiveTyped(buckets)'
  BY <1>0, <1>1, <1>2 DEF LiveTyped, TypeOK, Bucket
<1>5. LiveKeysUnique'
  BY <1>1, <1>2, <1>3, LiveFinite DEF LiveKeysUnique
<1>6. LiveReachable'
  <2> SUFFICES ASSUME NEW j \in LiveSet,
                      NEW p \in Path(hash(buckets'[j].key, capacity), j, capacity)
               PROVE  is_occupied(buckets'[p])
    BY <1>0, <1>3 DEF LiveReachable
  <2>1. j \in 0 .. capacity - 1 /\ buckets'[j].key = buckets[j].key /\ buckets[j].key \in Nat
    BY <1>2, LiveFinite DEF TypeOK, Bucket
  <2>2. hash(buckets[j].key, capacity) \in 0 .. capacity - 1
    <3>1. capacity \in Nat /\ capacity > 0
      BY <2>1 DEF TypeOK
    <3> QED BY <2>1, <3>1, HashRange
  <2>3. p \in 0 .. capacity - 1
    BY <2>1, <2>2, PathInside DEF TypeOK
  <2> QED BY <1>2, <2>1, <2>3 DEF LiveReachable, is_occupied
<1>7. SizeCoversLive'
  BY <1>3, LiveFinite, FS_CardinalityType DEF SizeCoversLive, TypeOK
<1> QED BY <1>1, <1>4, <1>5, <1>6, <1>7, PutDoneKeeps

(* A bucket is taken only after every bucket its key could be in was seen. *)
LEMMA PutInsertKeeps == ASSUME IInv, PutInsert PROVE IInv'
<1> USE DEF IInv, PutInsert
<1> DEFINE h == hash(Wanted.key, capacity)
<1>0. /\ Wanted.key \in Keys /\ Wanted.key \in Nat /\ Wanted.val \in Vals
      /\ index \in 0 .. capacity - 1 /\ capacity' = capacity /\ capacity \in Nat
  BY WantedTyped, KeysAssumption DEF PutDone, Putting
<1>h. h \in 0 .. capacity - 1
  BY <1>0, HashRange
<1>1. buckets' \in [0 .. capacity - 1 -> Bucket]
  BY <1>0 DEF TypeOK, Bucket, Live
<1>2. \A j \in 0 .. capacity - 1 : j # index => buckets'[j] = buckets[j]
  BY <1>0 DEF TypeOK
<1>3. buckets'[index].st = "live" /\ buckets'[index].key = Wanted.key /\ buckets'[index].val = Wanted.val
  BY <1>0 DEF TypeOK, Live
<1>4. LiveSet' = LiveSet \union {index} /\ index \notin LiveSet
  BY <1>0, <1>1, <1>2, <1>3 DEF LiveSet, TypeOK, is_occupied
<1>5. LiveTyped(buckets)'
  BY <1>0, <1>1, <1>2, <1>3 DEF LiveTyped, TypeOK
<1>p. \A p \in Path(h, index, capacity) :
        is_occupied(buckets[p]) /\ ~(buckets[p].st = "live" /\ buckets[p].key = Wanted.key)
  BY DEF ProbedInVain, Putting
<1>6. \A j \in LiveSet : buckets[j].key # Wanted.key
  <2> SUFFICES ASSUME NEW j \in LiveSet, buckets[j].key = Wanted.key PROVE FALSE
    OBVIOUS
  <2>1. j \in 0 .. capacity - 1 /\ j # index
    BY <1>4, LiveFinite
  <2>2. j \in Path(h, index, capacity) \/ index \in Path(h, j, capacity)
    BY <1>0, <1>h, <2>1, PathTotal
  <2>3. \A p \in Path(h, j, capacity) : is_occupied(buckets[p])
    BY DEF LiveReachable
  <2> QED BY <1>p, <2>2, <2>3 DEF LiveSet
<1>7. LiveKeysUnique'
  BY <1>2, <1>3, <1>4, <1>6, LiveFinite DEF LiveKeysUnique
<1>8. LiveReachable'
  <2> SUFFICES ASSUME NEW j \in LiveSet \union {index},
                      NEW p \in Path(hash(buckets'[j].key, capacity), j, capacity)
               PROVE  is_occupied(buckets'[p])
    BY <1>0, <1>4 DEF LiveReachable
  <2>1. CASE j = index
    <3>1. p \in Path(h, index, capacity)
      BY <1>3, <2>1
    <3>2. p \in 0 .. capacity - 1 /\ p # index
      BY <1>0, <1>h, <3>1, PathInside
    <3> QED BY <1>2, <1>p, <3>1, <3>2
  <2>2. CASE j # index
    <3>1. j \in LiveSet /\ j \in 0 .. capacity - 1
      BY <2>2, LiveFinite
    <3>2. buckets'[j] = buckets[j] /\ buckets[j].key \in Nat
      BY <1>2, <2>2, <3>1 DEF TypeOK, Bucket
    <3>3. hash(buckets[j].key, capacity) \in 0 .. capacity - 1
      BY <1>0, <3>2, HashRange
    <3>4. p \in 0 .. capacity - 1 /\ is_occupied(buckets[p])
      BY <1>0, <3>1, <3>2, <3>3, PathInside DEF LiveReachable
    <3> QED BY <1>2, <1>3, <3>4 DEF is_occupied
  <2> QED BY <2>1, <2>2
<1>9. SizeCoversLive'
  <2>1. Cardinality(LiveSet \union {index}) = Cardinality(LiveSet) + 1
    BY <1>4, LiveFinite, FS_AddElement
  <2> QED BY <1>4, <2>1, LiveFinite, FS_CardinalityType DEF SizeCoversLive, TypeOK
<1> QED BY <1>0, <1>1, <1>5, <1>7, <1>8, <1>9, PutDoneKeeps

(* hashmap_get, hashmap_has, and hashmap_remove of a missing key only look. *)
LEMMA ReturnKeeps ==
  ASSUME IInv, pc = "probe", NEW r \in [ok : BOOLEAN, val : Vals \union {NoVal}],
         Return(r), UNCHANGED <<buckets, size>>
  PROVE  IInv'
<1> USE DEF IInv, Return
<1>1. TypeOK' /\ CallInv' /\ ProbedInVain'
  BY DEF TypeOK, CallInv, ProbedInVain
<1>2. LiveSet' = LiveSet
  BY DEF LiveSet
<1> QED BY <1>1, <1>2 DEF LiveTyped, LiveKeysUnique, LiveReachable, SizeCoversLive

(* A removed entry leaves an occupied bucket behind: the probe sequences   *)
(* that pass through it stay whole.                                        *)
LEMMA RemoveHitKeeps == ASSUME IInv, RemoveHit PROVE IInv'
<1> USE DEF IInv, RemoveHit, Return
<1>0. index \in 0 .. capacity - 1 /\ capacity \in Nat /\ size \in Nat
  BY DEF TypeOK
<1>1. buckets' \in [0 .. capacity - 1 -> Bucket]
  BY <1>0 DEF TypeOK, Bucket, Deleted
<1>2. \A j \in 0 .. capacity - 1 : j # index => buckets'[j] = buckets[j]
  BY <1>0 DEF TypeOK
<1>3. buckets'[index].st = "deleted"
  BY <1>0 DEF TypeOK, Deleted
<1>4. LiveSet' = LiveSet \ {index} /\ index \in LiveSet
  BY <1>0, <1>1, <1>2, <1>3 DEF LiveSet, TypeOK, Hit
<1>5. Cardinality(LiveSet \ {index}) = Cardinality(LiveSet) - 1 /\ Cardinality(LiveSet) \in Nat
  BY <1>4, LiveFinite, FS_RemoveElement, FS_CardinalityType
<1>6. Cardinality(LiveSet \ {index}) \in Nat
  BY LiveFinite, FS_RemoveElement, FS_CardinalityType
<1>7. size - 1 \in Nat /\ Cardinality(LiveSet') <= size - 1
  BY <1>0, <1>4, <1>5, <1>6 DEF SizeCoversLive
<1>8. TypeOK' /\ CallInv' /\ ProbedInVain'
  BY <1>1, <1>7 DEF TypeOK, CallInv, ProbedInVain, Ok
<1>9. LiveTyped(buckets)' /\ LiveTyped(old)'
  BY <1>1, <1>2, <1>3 DEF LiveTyped, TypeOK
<1>10. LiveKeysUnique'
  BY <1>2, <1>4, LiveFinite DEF LiveKeysUnique
<1>11. LiveReachable'
  <2> SUFFICES ASSUME NEW j \in LiveSet \ {index},
                      NEW p \in Path(hash(buckets'[j].key, capacity), j, capacity)
               PROVE  is_occupied(buckets'[p])
    BY <1>4 DEF LiveReachable
  <2>1. j \in 0 .. capacity - 1 /\ buckets'[j] = buckets[j] /\ buckets[j].key \in Nat
    BY <1>2, LiveFinite DEF TypeOK, Bucket
  <2>2. hash(buckets[j].key, capacity) \in 0 .. capacity - 1
    BY <1>0, <2>1, HashRange
  <2>3. p \in 0 .. capacity - 1 /\ is_occupied(buckets[p])
    BY <1>0, <2>1, <2>2, PathInside DEF LiveReachable
  <2> QED BY <1>2, <1>3, <2>3 DEF is_occupied
<1> QED BY <1>7, <1>8, <1>9, <1>10, <1>11 DEF SizeCoversLive

(* The copying loop of hashmap_resize, between its puts. *)
LEMMA RehashKeeps == ASSUME IInv, RehashSkip \/ RehashPut \/ RehashDone PROVE IInv'
<1> USE DEF IInv
<1>0. LiveSet' = LiveSet /\ UNCHANGED <<buckets, capacity, size, call>>
  BY DEF LiveSet, RehashSkip, RehashPut, RehashDone
<1>1. LiveTyped(buckets)' /\ LiveKeysUnique' /\ LiveReachable' /\ SizeCoversLive'
  BY <1>0 DEF LiveTyped, LiveKeysUnique, LiveReachable, SizeCoversLive
<1>2. CASE RehashSkip
  <2>1. TypeOK' /\ CallInv'
    BY <1>2 DEF RehashSkip, TypeOK, CallInv, old_capacity
  <2> QED BY <1>1, <1>2, <2>1 DEF RehashSkip, LiveTyped, ProbedInVain
<1>3. CASE RehashPut
  <2>0. old[i].key \in Nat /\ capacity \in Nat /\ capacity > 0
    BY <1>3 DEF RehashPut, TypeOK, CallInv, Bucket, old_capacity
  <2>1. hash(old[i].key, capacity) \in 0 .. capacity - 1
    BY <2>0, HashRange
  <2>2. TypeOK' /\ CallInv'
    BY <1>3, <2>1 DEF RehashPut, TypeOK, CallInv, old_capacity
  <2>3. Path(index', index', capacity) = {} /\ Wanted' = old[i]
    BY <1>3, <2>0, <2>1, PathInside DEF RehashPut, Wanted
  <2> QED BY <1>1, <1>3, <2>2, <2>3 DEF RehashPut, LiveTyped, ProbedInVain
<1>4. CASE RehashDone
  <2>0. call.key \in Nat /\ capacity \in Nat /\ capacity > 0
    BY <1>4, KeysAssumption DEF RehashDone, TypeOK, CallInv
  <2>1. hash(call.key, capacity) \in 0 .. capacity - 1
    BY <2>0, HashRange
  <2>2. TypeOK' /\ CallInv'
    BY <1>4, <2>1 DEF RehashDone, TypeOK, CallInv, calloc
  <2>3. Path(index', index', capacity) = {} /\ Wanted' = call
    BY <1>4, <2>0, <2>1, PathInside DEF RehashDone, Wanted
  <2> QED BY <1>1, <1>4, <2>2, <2>3 DEF RehashDone, LiveTyped, ProbedInVain, calloc
<1> QED BY <1>2, <1>3, <1>4


------------------------------------------------------------------------------

(* Every step of every operation preserves the invariant. *)
LEMMA NextInv == IInv /\ [Next]_vars => IInv'
<1> SUFFICES ASSUME IInv, [Next]_vars PROVE IInv'
  OBVIOUS
<1>1. ASSUME NEW k \in Keys, NEW v \in Vals, hashmap_put(k, v) PROVE IInv'
  <2>1. CASE Overloaded
    BY <1>1, <2>1, ResizeKeeps DEF hashmap_put
  <2>2. CASE ~Overloaded
    BY <1>1, <2>2, StartProbeKeeps DEF hashmap_put
  <2> QED BY <2>1, <2>2
<1>2. ASSUME NEW op \in {"get", "has", "remove"}, NEW k \in Keys, hashmap_find(op, k) PROVE IInv'
  BY <1>2, StartProbeKeeps DEF hashmap_find
<1>3. ASSUME NEW c \in Capacities, hashmap_reset(c) PROVE IInv'
  BY <1>3, ResetKeeps, CapacitiesAssumption DEF hashmap_reset
<1>4. CASE hashmap_destroy
  BY <1>4, ResetKeeps DEF hashmap_destroy
<1>5. CASE FindHit
  <2>1. index \in DOMAIN buckets /\ buckets[index].val \in Vals
    BY <1>5 DEF FindHit, Hit, IInv, TypeOK, LiveTyped
  <2>2. Ok(IF call.op = "get" THEN buckets[index].val ELSE NoVal)
          \in [ok : BOOLEAN, val : Vals \union {NoVal}]
    BY <2>1 DEF Ok
  <2> QED BY <1>5, <2>2, ReturnKeeps DEF FindHit
<1>6. CASE Miss
  <2>1. Fail \in [ok : BOOLEAN, val : Vals \union {NoVal}]
    BY DEF Fail
  <2> QED BY <1>6, <2>1, ReturnKeeps DEF Miss
<1>7. CASE Advance \/ PutOverwrite \/ PutInsert \/ RemoveHit
  BY <1>7, AdvanceKeeps, PutOverwriteKeeps, PutInsertKeeps, RemoveHitKeeps
<1>8. CASE RehashSkip \/ RehashPut \/ RehashDone
  BY <1>8, RehashKeeps
<1>9. CASE UNCHANGED vars
  <2>1. UNCHANGED <<LiveSet, Wanted, old_capacity>>
    BY <1>9 DEF vars, LiveSet, Wanted, old_capacity
  <2> QED BY <1>9, <2>1 DEF vars, IInv, TypeOK, CallInv, LiveTyped, LiveKeysUnique,
            LiveReachable, SizeCoversLive, ProbedInVain
<1> QED BY <1>1, <1>2, <1>3, <1>4, <1>5, <1>6, <1>7, <1>8, <1>9 DEF Next, Client, Step

(* The inductive invariant holds in every reachable state. *)
THEOREM Invariance == Spec => []IInv
<1>1. Init => IInv
  BY InitInv
<1>2. IInv /\ [Next]_vars => IInv'
  BY NextInv
<1> QED BY <1>1, <1>2, PTL DEF Spec

(* Type correctness of the table and of its loops' indices.                *)
THEOREM TypeCorrect == Spec => []TypeOK
<1>1. IInv => TypeOK
  BY DEF IInv
<1> QED BY <1>1, Invariance, PTL

(* hashmap_put never makes a second live bucket for a key, and no sequence  *)
(* of puts, removals and resizes cuts a live entry off from the probe      *)
(* sequence on which hashmap_get and hashmap_remove look for it.           *)
THEOREM EntriesUnique == Spec => []LiveKeysUnique
<1>1. IInv => LiveKeysUnique
  BY DEF IInv
<1> QED BY <1>1, Invariance, PTL

(* Every live entry can be found from the hash of its key: hashmap_get and *)
(* hashmap_remove do not miss it.                                          *)
THEOREM EntriesReachable == Spec => []LiveReachable
<1>1. IInv => LiveReachable
  BY DEF IInv
<1> QED BY <1>1, Invariance, PTL

(* map->size is at least the number of live entries.                       *)
THEOREM SizeBound == Spec => []SizeCoversLive
<1>1. IInv => SizeCoversLive
  BY DEF IInv
<1> QED BY <1>1, Invariance, PTL

(* The recursion of hashmap_resize and hashmap_put is one level deep.      *)
THEOREM ResizeDoesNotNest == Spec => []NoNestedResize
<1>1. IInv => NoNestedResize
  BY DEF IInv, TypeOK, CallInv, NoNestedResize, Overloaded, old_capacity
<1> QED BY <1>1, Invariance, PTL

------------------------------------------------------------------------------
(* util/hashmap.c implements util/hashmap.h: the table, whose calls probe  *)
(* bucket by bucket and move every entry when hashmap_resize doubles it,   *)
(* is the map of module Map, for every set of keys, values and capacities. *)

(* A table's entries, whatever buckets they are in. *)
Holds(tab, k, v) ==
  \E j \in DOMAIN tab : tab[j].st = "live" /\ tab[j].key = k /\ tab[j].val = v

UniqueIn(tab) ==
  \A a, b \in DOMAIN tab :
    tab[a].st = "live" /\ tab[b].st = "live" /\ tab[a].key = tab[b].key => a = b

Resizing == pc \in {"rehash", "reput"}

(* Of the table being replaced, exactly the entries before bucket i are in *)
(* the new one, each with its value.                                       *)
CopiedSoFar ==
  \A k \in Keys, v \in Vals :
    Holds(buckets, k, v)
      <=> \E j \in DOMAIN old : j < i /\ old[j].st = "live" /\ old[j].key = k /\ old[j].val = v

(* What hashmap_resize keeps while it runs, added to the invariant. *)
CopyInv == Resizing => UniqueIn(old) /\ CopiedSoFar

RInv == IInv /\ CopyInv

------------------------------------------------------------------------------
(* What a table contains. *)

(* The contents are a function on the keys. *)
LEMMA ContentsFcn == ASSUME NEW tab PROVE ContentsOf(tab) = [k \in Keys |-> ContentsOf(tab)[k]]
BY DEF ContentsOf

(* The value found for a key is that of its only live bucket. *)
LEMMA ContentsHit ==
  ASSUME NEW tab, UniqueIn(tab), NEW k \in Keys, NEW v, Holds(tab, k, v)
  PROVE  ContentsOf(tab)[k] = v
<1> DEFINE P(j) == tab[j].st = "live" /\ tab[j].key = k
<1>1. PICK j \in DOMAIN tab : P(j) /\ tab[j].val = v
  BY DEF Holds
<1>2. (CHOOSE q \in DOMAIN tab : P(q)) \in DOMAIN tab /\ P(CHOOSE q \in DOMAIN tab : P(q))
  BY <1>1
<1>3. (CHOOSE q \in DOMAIN tab : P(q)) = j
  BY <1>1, <1>2 DEF UniqueIn
<1> QED BY <1>1, <1>3 DEF ContentsOf

(* A key no live bucket has maps to "no value". *)
LEMMA ContentsMiss ==
  ASSUME NEW tab, NEW k \in Keys,
         \A j \in DOMAIN tab : ~(tab[j].st = "live" /\ tab[j].key = k)
  PROVE  ContentsOf(tab)[k] = NoVal
BY DEF ContentsOf

(* Two tables with the same entries are the same map, however many buckets *)
(* they have and wherever the entries are.                                 *)
LEMMA SameContents ==
  ASSUME NEW s, NEW t, UniqueIn(s), UniqueIn(t), LiveTyped(s), LiveTyped(t),
         \A k \in Keys, v \in Vals : Holds(s, k, v) <=> Holds(t, k, v)
  PROVE  ContentsOf(s) = ContentsOf(t)
<1>1. ASSUME NEW k \in Keys PROVE ContentsOf(s)[k] = ContentsOf(t)[k]
  <2>1. CASE \E v \in Vals : Holds(s, k, v)
    <3>1. PICK v \in Vals : Holds(s, k, v)
      BY <2>1
    <3>2. Holds(t, k, v)
      BY <3>1
    <3> QED BY <3>1, <3>2, ContentsHit
  <2>2. CASE ~\E v \in Vals : Holds(s, k, v)
    <3>1. \A j \in DOMAIN s : ~(s[j].st = "live" /\ s[j].key = k)
      BY <2>2 DEF LiveTyped, Holds
    <3>2. \A j \in DOMAIN t : ~(t[j].st = "live" /\ t[j].key = k)
      BY <2>2 DEF LiveTyped, Holds
    <3> QED BY <3>1, <3>2, ContentsMiss
  <2> QED BY <2>1, <2>2
<1>2. ContentsOf(s) = [k \in Keys |-> ContentsOf(s)[k]]
  BY ContentsFcn
<1>3. ContentsOf(t) = [k \in Keys |-> ContentsOf(t)[k]]
  BY ContentsFcn
<1> QED BY <1>1, <1>2, <1>3

(* LiveKeysUnique, said of the table's buckets. *)
LEMMA UniqueBuckets == LiveKeysUnique => UniqueIn(buckets)
BY DEF LiveKeysUnique, LiveSet, UniqueIn

(* A put, whether it replaces a value or takes a bucket, leaves the table  *)
(* with the wanted key and value and every other entry as it was.          *)
LEMMA PutEffect ==
  ASSUME IInv, PutOverwrite \/ PutInsert, NEW k \in Keys, NEW v \in Vals
  PROVE  Holds(buckets, k, v)'
           <=> IF k = Wanted.key THEN v = Wanted.val ELSE Holds(buckets, k, v)
<1>0. /\ index \in 0 .. capacity - 1
      /\ buckets \in [0 .. capacity - 1 -> Bucket]
      /\ capacity' = capacity
  BY WantedTyped DEF PutOverwrite, PutInsert, Putting, PutDone, IInv, TypeOK
<1>1. buckets'[index].st = "live" /\ buckets'[index].key = Wanted.key /\ buckets'[index].val = Wanted.val
  <2>1. CASE PutOverwrite
    BY <1>0, <2>1 DEF PutOverwrite, Bucket, Hit
  <2>2. CASE PutInsert
    BY <1>0, <2>2 DEF PutInsert, Live
  <2> QED BY <2>1, <2>2
<1>2. DOMAIN buckets' = DOMAIN buckets /\ \A j \in DOMAIN buckets : j # index => buckets'[j] = buckets[j]
  BY <1>0 DEF PutOverwrite, PutInsert
<1>3. buckets[index].st # "live" \/ buckets[index].key = Wanted.key
  BY DEF PutOverwrite, PutInsert, Hit, is_occupied
<1>4. UniqueIn(buckets')
  BY PutOverwriteKeeps, PutInsertKeeps DEF IInv, LiveKeysUnique, LiveSet, UniqueIn
<1>5. CASE k = Wanted.key
  BY <1>0, <1>1, <1>2, <1>4, <1>5 DEF Holds, UniqueIn
<1>6. CASE k # Wanted.key
  BY <1>0, <1>1, <1>2, <1>3, <1>6 DEF Holds
<1> QED BY <1>5, <1>6

------------------------------------------------------------------------------
(* The copying loop. *)

(* hashmap_resize has copied nothing when it starts. *)
LEMMA ResizeStarts ==
  ASSUME RInv, hashmap_resize
  PROVE  CopyInv'
<1>1. UniqueIn(old')
  BY UniqueBuckets DEF hashmap_resize, RInv, IInv, UniqueIn
<1>2. \A k, v : ~Holds(buckets', k, v)
  BY DEF hashmap_resize, calloc, Blank, Holds
<1>3. i' = 0 /\ DOMAIN old' \subseteq Nat
  BY DEF hashmap_resize, RInv, IInv, TypeOK
<1>4. CopiedSoFar'
  BY <1>2, <1>3 DEF CopiedSoFar, Holds
<1> QED BY <1>1, <1>4 DEF CopyInv

(* One put of the loop copies the entry of bucket i.  Its key was not in   *)
(* the new table before, since it is in no other old bucket.               *)
LEMMA CopyOne ==
  ASSUME RInv, pc = "reput", PutOverwrite \/ PutInsert
  PROVE  CopyInv'
<1> USE DEF RInv
<1>1. Wanted = old[i] /\ i \in Nat /\ i \in DOMAIN old /\ old[i].st = "live" /\ DOMAIN old \subseteq Nat
  BY DEF Wanted, IInv, TypeOK, CallInv, old_capacity
<1>2. old' = old /\ i' = i + 1
  BY DEF PutOverwrite, PutInsert, PutDone
<1>3. UniqueIn(old) /\ CopiedSoFar
  BY DEF CopyInv, Resizing
<1>4. UniqueIn(old')
  BY <1>2, <1>3
<1>5. CopiedSoFar'
  <2> SUFFICES ASSUME NEW k \in Keys, NEW v \in Vals
               PROVE  Holds(buckets, k, v)'
                        <=> \E j \in DOMAIN old :
                              j < i + 1 /\ old[j].st = "live" /\ old[j].key = k /\ old[j].val = v
    BY <1>2 DEF CopiedSoFar, Holds
  <2>1. Holds(buckets, k, v)' <=> IF k = old[i].key THEN v = old[i].val ELSE Holds(buckets, k, v)
    BY <1>1, PutEffect
  <2>2. \A j \in DOMAIN old : j < i + 1 <=> j < i \/ j = i
    BY <1>1
  <2>3. CASE k = old[i].key
    BY <1>1, <1>3, <2>1, <2>2, <2>3 DEF UniqueIn
  <2>4. CASE k # old[i].key
    BY <1>1, <1>3, <2>1, <2>2, <2>4 DEF CopiedSoFar
  <2> QED BY <2>3, <2>4
<1> QED BY <1>4, <1>5 DEF CopyInv

(* A bucket without a live entry has nothing to copy. *)
LEMMA CopySkip == ASSUME RInv, RehashSkip PROVE CopyInv'
<1> USE DEF RInv, RehashSkip
<1>1. i \in Nat /\ DOMAIN old \subseteq Nat
  BY DEF IInv, TypeOK
<1>2. UniqueIn(old) /\ CopiedSoFar
  BY DEF CopyInv, Resizing
<1>3. UniqueIn(old')
  BY <1>2
<1>4. \A j \in DOMAIN old : old[j].st = "live" => (j < i + 1 <=> j < i)
  BY <1>1
<1>5. CopiedSoFar'
  BY <1>2, <1>4 DEF CopiedSoFar, Holds
<1> QED BY <1>3, <1>5 DEF CopyInv

(* Every step keeps the copied part and the old table in agreement.        *)
LEMMA CopyNext == RInv /\ [Next]_vars => CopyInv'
<1> SUFFICES ASSUME RInv, [Next]_vars PROVE CopyInv'
  OBVIOUS
<1> USE DEF CopyInv, Resizing
<1>1. ASSUME NEW k \in Keys, NEW v \in Vals, hashmap_put(k, v) PROVE CopyInv'
  BY <1>1, ResizeStarts DEF hashmap_put, StartProbe
<1>2. CASE Client /\ ~\E k \in Keys, v \in Vals : hashmap_put(k, v)
  BY <1>2 DEF Client, hashmap_find, hashmap_reset, hashmap_destroy, StartProbe
<1>3. CASE PutOverwrite \/ PutInsert
  <2>1. CASE pc = "reput"
    BY <1>3, <2>1, CopyOne
  <2>2. CASE pc # "reput"
    BY <1>3, <2>2 DEF PutOverwrite, PutInsert, PutDone
  <2> QED BY <2>1, <2>2
<1>4. CASE FindHit \/ RemoveHit \/ Miss \/ RehashDone
  BY <1>4 DEF FindHit, RemoveHit, Miss, Return, RehashDone
<1>5. CASE RehashSkip
  BY <1>5, CopySkip
<1>6. CASE Advance \/ RehashPut \/ UNCHANGED vars
  <2>1. UNCHANGED <<buckets, old, i>> /\ (Resizing <=> Resizing')
    BY <1>6 DEF Advance, RehashPut, vars
  <2> QED BY <2>1 DEF RInv, UniqueIn, CopiedSoFar, Holds
<1> QED BY <1>1, <1>2, <1>3, <1>4, <1>5, <1>6 DEF Next, Client, Step

(* The invariant of the table and of the copying loop together. *)
LEMMA RInvariance == Spec => []RInv
<1>1. Init => RInv
  BY InitInv DEF RInv, CopyInv, Resizing, Init
<1>2. RInv /\ [Next]_vars => RInv'
  BY NextInv, CopyNext DEF RInv
<1> QED BY <1>1, <1>2, PTL DEF Spec

------------------------------------------------------------------------------
(* The refinement, one lemma per kind of step.  M's variable map is the    *)
(* contents of the table being replaced while hashmap_resize runs, of the  *)
(* table itself otherwise.                                                 *)

Contents == ContentsOf(IF pc \in {"rehash", "reput"} THEN old ELSE buckets)

(* Which table that is, before and after a step. *)
LEMMA ContentsNow ==
  /\ Contents = IF Resizing THEN ContentsOf(old) ELSE ContentsOf(buckets)
  /\ Contents' = IF Resizing' THEN ContentsOf(old') ELSE ContentsOf(buckets')
<1>1. CASE Resizing
  BY <1>1 DEF Contents, Resizing
<1>2. CASE ~Resizing
  BY <1>2 DEF Contents, Resizing
<1>3. CASE Resizing'
  <2>1. (IF pc \in {"rehash", "reput"} THEN old ELSE buckets)' = old'
    BY <1>3 DEF Resizing
  <2>2. Contents' = ContentsOf((IF pc \in {"rehash", "reput"} THEN old ELSE buckets)')
    BY DEF Contents, ContentsOf
  <2> QED BY <1>3, <2>1, <2>2, <1>1, <1>2
<1>4. CASE ~Resizing'
  <2>1. (IF pc \in {"rehash", "reput"} THEN old ELSE buckets)' = buckets'
    BY <1>4 DEF Resizing
  <2>2. Contents' = ContentsOf((IF pc \in {"rehash", "reput"} THEN old ELSE buckets)')
    BY DEF Contents, ContentsOf
  <2> QED BY <1>4, <2>1, <2>2, <1>1, <1>2
<1> QED BY <1>1, <1>2, <1>3, <1>4

(* hashmap_init makes the empty map. *)
LEMMA InitRefines == Init => M!Init
<1> SUFFICES ASSUME Init PROVE M!Init
  OBVIOUS
<1>1. Contents = M!Empty
  BY DEF Init, Contents, ContentsOf, calloc, Blank, M!Empty
<1> QED BY <1>1 DEF Init, M!Init, Contents, NoCall, M!NoCall, Fail, M!Fail

(* A call in progress is not the absence of one. *)
LEMMA Calling == IInv /\ pc # "idle" => call # M!NoCall /\ call.key \in Keys
BY DEF IInv, CallInv, M!NoCall

(* The client's put changes the map at one key, whether the key was there  *)
(* or not.                                                                 *)
LEMMA PutRefines ==
  ASSUME RInv, pc = "probe", PutOverwrite \/ PutInsert
  PROVE  M!Return
<1>1. Wanted = call /\ call.op = "put" /\ call.key \in Keys /\ call.val \in Vals
  BY DEF RInv, IInv, CallInv, Wanted, PutOverwrite, PutInsert, Putting
<1>2. IInv'
  BY PutOverwriteKeeps, PutInsertKeeps DEF RInv
<1>3. UniqueIn(buckets) /\ UniqueIn(buckets') /\ LiveTyped(buckets) /\ LiveTyped(buckets')
  BY <1>2, UniqueBuckets DEF RInv, IInv, LiveTyped, LiveKeysUnique, LiveSet, UniqueIn
<1>4. Contents = ContentsOf(buckets) /\ Contents' = ContentsOf(buckets')
  BY ContentsNow DEF PutOverwrite, PutInsert, PutDone, Resizing
<1>5. ASSUME NEW k \in Keys
      PROVE  ContentsOf(buckets')[k] = IF k = call.key THEN call.val ELSE ContentsOf(buckets)[k]
  <2>0. ASSUME NEW v \in Vals
        PROVE  Holds(buckets', k, v) <=> IF k = call.key THEN v = call.val ELSE Holds(buckets, k, v)
    BY <1>1, PutEffect DEF RInv, Holds
  <2>1. CASE k = call.key
    BY <1>1, <1>3, <2>0, <2>1, ContentsHit
  <2>2. CASE k # call.key /\ \E v \in Vals : Holds(buckets, k, v)
    BY <1>3, <2>0, <2>2, ContentsHit
  <2>3. CASE k # call.key /\ ~\E v \in Vals : Holds(buckets, k, v)
    <3>1. \A j \in DOMAIN buckets : ~(buckets[j].st = "live" /\ buckets[j].key = k)
      BY <1>3, <2>3 DEF LiveTyped, Holds
    <3>2. ~\E v \in Vals : Holds(buckets', k, v)
      BY <2>0, <2>3
    <3>3. \A j \in DOMAIN buckets' : ~(buckets'[j].st = "live" /\ buckets'[j].key = k)
      BY <1>3, <3>2 DEF LiveTyped, Holds
    <3> QED BY <2>3, <3>1, <3>3, ContentsMiss
  <2> QED BY <2>1, <2>2, <2>3
<1>6. Contents' = [Contents EXCEPT ![call.key] = call.val]
  BY <1>1, <1>4, <1>5 DEF ContentsOf
<1>7. call' = NoCall /\ result' = Ok(NoVal)
  BY DEF PutOverwrite, PutInsert, PutDone
<1> QED BY <1>1, <1>6, <1>7, Calling
        DEF RInv, M!Return, M!Put, M!NoCall, NoCall, M!Ok, Ok, Contents

(* Where a search ends: at a bucket with the key, whose value the map has, *)
(* or at a free bucket, and then the map does not have the key.            *)
LEMMA SearchEnds ==
  ASSUME RInv, pc = "probe"
  PROVE  /\ Hit => buckets[index].val \in Vals /\ Contents[call.key] = buckets[index].val
         /\ ~is_occupied(buckets[index]) => Contents[call.key] = NoVal
<1> USE DEF RInv, IInv
<1>0. /\ Wanted = call /\ call.key \in Keys /\ call.key \in Nat
      /\ index \in 0 .. capacity - 1 /\ DOMAIN buckets = 0 .. capacity - 1
      /\ capacity \in Nat /\ capacity > 0 /\ Contents = ContentsOf(buckets)
  BY WantedTyped, KeysAssumption DEF Wanted, TypeOK, Contents
<1>1. CASE Hit
  <2>1. Holds(buckets, call.key, buckets[index].val) /\ buckets[index].val \in Vals
    BY <1>0, <1>1 DEF Hit, Holds, LiveTyped
  <2>2. is_occupied(buckets[index])
    BY <1>1 DEF Hit, is_occupied
  <2> QED BY <1>0, <2>1, <2>2, ContentsHit, UniqueBuckets
<1>2. CASE ~is_occupied(buckets[index])
  <2> DEFINE h == hash(call.key, capacity)
  <2>1. h \in 0 .. capacity - 1
    BY <1>0, HashRange
  <2>2. ASSUME NEW j \in DOMAIN buckets, buckets[j].st = "live", buckets[j].key = call.key
        PROVE  FALSE
    <3>1. j # index /\ j \in LiveSet
      BY <1>2, <2>2 DEF is_occupied, LiveSet
    <3>2. j \in Path(h, index, capacity) \/ index \in Path(h, j, capacity)
      BY <1>0, <2>1, <3>1, PathTotal
    <3>3. j \notin Path(h, index, capacity)
      BY <1>0, <2>2 DEF ProbedInVain
    <3>4. index \notin Path(h, j, capacity)
      BY <1>2, <2>2, <3>1 DEF LiveReachable
    <3> QED BY <3>2, <3>3, <3>4
  <2> QED BY <1>0, <1>2, <2>2, ContentsMiss DEF Hit, is_occupied
<1> QED BY <1>1, <1>2

(* hashmap_get and hashmap_has answer what the map has; so does a          *)
(* hashmap_remove that finds nothing.                                      *)
LEMMA FindRefines ==
  ASSUME RInv, FindHit \/ Miss
  PROVE  M!Return
<1>0. pc = "probe" /\ call.key \in Keys /\ call # M!NoCall
  BY Calling DEF RInv, FindHit, Miss
<1>1. call' = M!NoCall
  BY DEF FindHit, Miss, Return, NoCall, M!NoCall
<1>2. Contents' = Contents /\ Contents = ContentsOf(buckets)
  BY <1>0, ContentsNow DEF FindHit, Miss, Return, Resizing
<1>3. CASE FindHit
  <2>1. Contents[call.key] = buckets[index].val /\ buckets[index].val # NoVal
    BY <1>0, <1>3, SearchEnds, ValsAssumption DEF FindHit
  <2>2. M!Get \/ M!Has
    BY <1>2, <1>3, <2>1 DEF FindHit, Return, Contents, M!Get, M!Has, M!Found, M!Ok, Ok
  <2> QED BY <1>0, <1>1, <2>2 DEF M!Return
<1>4. CASE Miss
  <2>1. Contents[call.key] = NoVal
    BY <1>0, <1>4, SearchEnds DEF Miss
  <2>2. result' = M!Fail /\ call.op \in {"get", "has", "remove"}
    BY <1>4 DEF Miss, Return, Fail, M!Fail, RInv, IInv, CallInv
  <2>3. [Contents EXCEPT ![call.key] = NoVal] = Contents
    BY <1>2, <2>1 DEF ContentsOf
  <2>4. M!Get \/ M!Has \/ M!Remove
    BY <1>2, <2>1, <2>2, <2>3 DEF Contents, M!Get, M!Has, M!Remove, M!Found
  <2> QED BY <1>0, <1>1, <2>4 DEF M!Return
<1> QED BY <1>3, <1>4

(* hashmap_remove takes its key out of the map and nothing else: of every  *)
(* other key the live bucket stays.                                        *)
LEMMA RemoveRefines ==
  ASSUME RInv, RemoveHit
  PROVE  M!Return
<1> USE DEF RemoveHit
<1>0. /\ call.key \in Keys /\ call # M!NoCall /\ Wanted = call
      /\ index \in DOMAIN buckets /\ buckets[index].key = call.key
  BY Calling DEF RInv, IInv, TypeOK, Wanted, Hit
<1>1. Contents[call.key] # NoVal
  BY SearchEnds, ValsAssumption
<1>2. UniqueIn(buckets) /\ UniqueIn(buckets') /\ LiveTyped(buckets)
  BY RemoveHitKeeps, UniqueBuckets DEF RInv, IInv, LiveKeysUnique, LiveSet, UniqueIn
<1>3. /\ DOMAIN buckets' = DOMAIN buckets /\ buckets'[index].st = "deleted"
      /\ \A j \in DOMAIN buckets : j # index => buckets'[j] = buckets[j]
  BY <1>0 DEF Deleted
<1>4. Contents = ContentsOf(buckets) /\ Contents' = ContentsOf(buckets')
  BY ContentsNow DEF Return, Resizing
<1>5. ContentsOf(buckets')[call.key] = NoVal
  <2>1. \A j \in DOMAIN buckets' : ~(buckets'[j].st = "live" /\ buckets'[j].key = call.key)
    BY <1>0, <1>2, <1>3 DEF UniqueIn, Hit
  <2> QED BY <1>0, <2>1, ContentsMiss
<1>6. ASSUME NEW k \in Keys, k # call.key
      PROVE  ContentsOf(buckets')[k] = ContentsOf(buckets)[k]
  <2>1. \A v : Holds(buckets', k, v) <=> Holds(buckets, k, v)
    BY <1>0, <1>3, <1>6 DEF Holds
  <2>2. CASE \E v \in Vals : Holds(buckets, k, v)
    BY <1>2, <2>1, <2>2, ContentsHit
  <2>3. CASE ~\E v \in Vals : Holds(buckets, k, v)
    <3>1. \A j \in DOMAIN buckets : ~(buckets[j].st = "live" /\ buckets[j].key = k)
      BY <1>2, <2>3 DEF LiveTyped, Holds
    <3>2. \A j \in DOMAIN buckets' : ~(buckets'[j].st = "live" /\ buckets'[j].key = k)
      BY <1>3, <3>1
    <3> QED BY <3>1, <3>2, ContentsMiss
  <2> QED BY <2>2, <2>3
<1>7. Contents' = [Contents EXCEPT ![call.key] = NoVal]
  <2>1. /\ ContentsOf(buckets) = [k \in Keys |-> ContentsOf(buckets)[k]]
        /\ ContentsOf(buckets') = [k \in Keys |-> ContentsOf(buckets')[k]]
    BY ContentsFcn
  <2> HIDE DEF RemoveHit
  <2> QED BY <1>0, <1>4, <1>5, <1>6, <2>1
<1>8. result' = M!Ok(NoVal) /\ call' = M!NoCall
  BY DEF Return, Ok, M!Ok, NoCall, M!NoCall
<1>9. M!Remove
  BY <1>1, <1>7, <1>8 DEF M!Remove, M!Found, Contents
<1> QED BY <1>0, <1>8, <1>9 DEF M!Return

(* When the loop ends, the new table has the entries of the old one: the   *)
(* switch from one to the other is invisible.                              *)
LEMMA ResizeInvisible ==
  ASSUME RInv, RehashDone
  PROVE  Contents' = Contents
<1> USE DEF RInv, IInv, RehashDone
<1>1. Contents' = ContentsOf(buckets) /\ Contents = ContentsOf(old)
  BY ContentsNow DEF Resizing
<1>2. UniqueIn(old) /\ CopiedSoFar
  BY DEF CopyInv, Resizing
<1>3. \A j \in DOMAIN old : j < i
  BY DEF TypeOK
<1>4. \A k \in Keys, v \in Vals : Holds(buckets, k, v) <=> Holds(old, k, v)
  BY <1>2, <1>3 DEF CopiedSoFar, Holds
<1> QED BY <1>1, <1>2, <1>4, SameContents, UniqueBuckets

(* Each step of the table is a step of the map, or no step of it. *)
LEMMA StepRefines == RInv /\ [Next]_vars => [M!Next]_(M!vars)
<1> SUFFICES ASSUME RInv, [Next]_vars PROVE M!Next \/ UNCHANGED M!vars
  OBVIOUS
<1>0. pc = "idle" => call = M!NoCall
  BY DEF RInv, IInv, CallInv, NoCall, M!NoCall
<1>1. ASSUME NEW k \in Keys, NEW v \in Vals, hashmap_put(k, v) PROVE M!Next
  <2>1. Contents' = Contents
    BY <1>1, ContentsNow DEF hashmap_put, hashmap_resize, StartProbe, Resizing
  <2> QED BY <1>0, <1>1, <2>1 DEF hashmap_put, M!Next, M!Call, Contents
<1>2. ASSUME NEW op \in {"get", "has", "remove"}, NEW k \in Keys, hashmap_find(op, k) PROVE M!Next
  <2>1. Contents' = Contents
    BY <1>2, ContentsNow DEF hashmap_find, StartProbe, Resizing
  <2> QED BY <1>0, <1>2, <2>1 DEF hashmap_find, M!Next, M!Call, Contents
<1>3. CASE (\E c \in Capacities : hashmap_reset(c)) \/ hashmap_destroy
  <2>1. pc = "idle" /\ UNCHANGED <<pc, call, result>> /\ \E c : buckets' = calloc(c)
    BY <1>3 DEF hashmap_reset, hashmap_destroy
  <2>2. Contents' = M!Empty
    BY <2>1 DEF Contents, ContentsOf, calloc, Blank, M!Empty
  <2> QED BY <1>0, <2>1, <2>2 DEF M!Next, M!Clear, Contents
<1>4. CASE PutOverwrite \/ PutInsert
  <2>1. CASE pc = "probe"
    BY <1>4, <2>1, PutRefines DEF M!Next
  <2>2. CASE pc # "probe"
    <3>1. Resizing /\ Resizing' /\ UNCHANGED <<old, call, result>>
      BY <1>4, <2>2 DEF PutOverwrite, PutInsert, Putting, PutDone, Resizing
    <3>2. Contents' = Contents
      BY <3>1, ContentsNow
    <3> QED BY <3>1, <3>2 DEF Contents, M!vars
  <2> QED BY <2>1, <2>2
<1>5. CASE FindHit \/ Miss \/ RemoveHit
  BY <1>5, FindRefines, RemoveRefines DEF M!Next
<1>6. CASE RehashDone
  <2>1. UNCHANGED <<call, result>>
    BY <1>6 DEF RehashDone
  <2> QED BY <1>6, <2>1, ResizeInvisible DEF Contents, M!vars
<1>7. CASE Advance \/ RehashSkip \/ RehashPut \/ UNCHANGED vars
  <2>1. UNCHANGED <<buckets, old, call, result>> /\ (Resizing <=> Resizing')
    BY <1>7 DEF Advance, RehashSkip, RehashPut, vars, Resizing
  <2>2. Contents' = Contents
    BY <2>1, ContentsNow
  <2> QED BY <2>1, <2>2 DEF Contents, M!vars
<1> QED BY <1>1, <1>2, <1>3, <1>4, <1>5, <1>6, <1>7 DEF Next, Client, Step

(* The hash table is a map: whatever collisions, tombstones and resizes    *)
(* happen, every call of hashmap_put, _get, _has, _remove, _reset and      *)
(* _destroy that returns has the effect and the result a map gives it.     *)
THEOREM Refinement == Spec => ImplementsMap
<1>1. Init => M!Init
  BY InitRefines
<1>2. RInv /\ [Next]_vars => [M!Next]_(M!vars)
  BY StepRefines
<1> QED BY <1>1, <1>2, RInvariance, PTL DEF Spec, ImplementsMap, M!Spec
====
