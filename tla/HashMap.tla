---- MODULE HashMap ----
(***************************************************************************)
(* util/hashmap.c: the open-addressing hash table on which every storage   *)
(* of the compiler is built.  A call (hashmap_put, _get, _has, _remove)    *)
(* runs as a sequence of steps, one per iteration of its probing loop and  *)
(* of the copying loop of hashmap_resize, so that whether a call returns   *)
(* at all is a question the model can answer.                              *)
(*                                                                         *)
(* A bucket's is_occupied/is_deleted pair is its st: the pair (false,true) *)
(* never occurs.  Key and value of a deleted bucket are never read again;  *)
(* the model blanks them.                                                  *)
(***************************************************************************)
EXTENDS Integers, FiniteSets

CONSTANTS Keys,        \* the keys clients use
          Vals,        \* the values they store
          NoVal,       \* hashmap_get's (uint64_t) -1, and "no value"
          Capacities,  \* the sizes passed to hashmap_init and hashmap_reset
          Ops,         \* the operations this client calls
          MaxCapacity  \* bound: no put that would double past it is called

ASSUME KeysAssumption == Keys \subseteq Nat
ASSUME ValsAssumption == NoVal \notin Vals
ASSUME CapacitiesAssumption == Capacities \subseteq Nat \ {0}
ASSUME OpsAssumption ==
  Ops \subseteq {"put", "get", "has", "remove", "reset", "destroy"}
ASSUME MaxCapacityAssumption == MaxCapacity \in Nat

VARIABLES buckets,   \* map->buckets: a function on 0..capacity-1
          capacity,  \* map->capacity; 0 after hashmap_destroy
          size,      \* map->size
          pc,        \* "idle", "probe", or in hashmap_resize "rehash", "reput"
          call,      \* the call in progress
          index,     \* the bucket its probing loop looks at
          old,       \* hashmap_resize: old_buckets
          i,         \* hashmap_resize: loop counter over old_buckets
          result     \* what the last call returned

vars == <<buckets, capacity, size, pc, call, index, old, i, result>>

Blank   == [st |-> "empty", key |-> 0, val |-> NoVal]
Deleted == [st |-> "deleted", key |-> 0, val |-> NoVal]
Live(k, v) == [st |-> "live", key |-> k, val |-> v]
calloc(n)  == [j \in 0 .. n - 1 |-> Blank]

NoCall == [op |-> "none", key |-> NoVal, val |-> NoVal]
Ok(v)  == [ok |-> TRUE, val |-> v]
Fail   == [ok |-> FALSE, val |-> NoVal]

hash(key, cap) == key % cap

(* Mutant: the table is only grown once it is full. *)
Overloaded_Full == size > capacity

(* size >= capacity * LOAD_FACTOR, LOAD_FACTOR = 0.75. *)
Overloaded == 4 * size >= 3 * capacity

is_occupied(b) == b.st # "empty"

(* The key the running probing loop looks for: a put that hashmap_resize   *)
(* makes, or the client's own call.                                        *)
Wanted == IF pc = "reput" THEN old[i] ELSE call

Hit == buckets[index].st = "live" /\ buckets[index].key = Wanted.key

------------------------------------------------------------------------------

Init == \E c \in Capacities :
          /\ capacity = c /\ buckets = calloc(c) /\ size = 0
          /\ pc = "idle" /\ call = NoCall /\ index = 0
          /\ old = calloc(0) /\ i = 0 /\ result = Fail

(* Entry of hashmap_resize. *)
hashmap_resize ==
  /\ old' = buckets /\ i' = 0
  /\ capacity' = 2 * capacity
  /\ buckets' = calloc(2 * capacity)
  /\ size' = 0
  /\ pc' = "rehash"
  /\ UNCHANGED index

StartProbe(k) ==
  /\ pc' = "probe" /\ index' = hash(k, capacity)
  /\ UNCHANGED <<buckets, capacity, size, old, i>>

hashmap_put(k, v) ==
  /\ "put" \in Ops /\ pc = "idle" /\ capacity > 0
  /\ Overloaded => 2 * capacity <= MaxCapacity
  /\ call' = [op |-> "put", key |-> k, val |-> v]
  /\ IF Overloaded THEN hashmap_resize ELSE StartProbe(k)
  /\ UNCHANGED result

(* hashmap_get, hashmap_has and hashmap_remove start the same way. *)
hashmap_find(op, k) ==
  /\ op \in Ops /\ pc = "idle" /\ capacity > 0
  /\ call' = [op |-> op, key |-> k, val |-> NoVal]
  /\ StartProbe(k)
  /\ UNCHANGED result

hashmap_reset(c) ==
  /\ "reset" \in Ops /\ pc = "idle"
  /\ capacity' = c /\ buckets' = calloc(c) /\ size' = 0
  /\ UNCHANGED <<pc, call, index, old, i, result>>

hashmap_destroy ==
  /\ "destroy" \in Ops /\ pc = "idle" /\ capacity > 0
  /\ capacity' = 0 /\ buckets' = calloc(0) /\ size' = 0
  /\ UNCHANGED <<pc, call, index, old, i, result>>

------------------------------------------------------------------------------
(* The probing loop, shared by all operations. *)

(* Mutant: probing steps over every other bucket. *)
Advance_ByTwo ==
  /\ pc \in {"probe", "reput"}
  /\ is_occupied(buckets[index]) /\ ~Hit
  /\ index' = (index + 2) % capacity
  /\ UNCHANGED <<buckets, capacity, size, pc, call, old, i, result>>

Advance ==
  /\ pc \in {"probe", "reput"}
  /\ is_occupied(buckets[index]) /\ ~Hit
  /\ index' = (index + 1) % capacity
  /\ UNCHANGED <<buckets, capacity, size, pc, call, old, i, result>>

(* A put ends: the client's call returns, or the copying loop goes on.     *)
PutDone ==
  /\ IF pc = "reput"
     THEN pc' = "rehash" /\ i' = i + 1 /\ UNCHANGED <<call, result>>
     ELSE pc' = "idle" /\ call' = NoCall /\ result' = Ok(NoVal) /\ UNCHANGED i
  /\ index' = 0
  /\ UNCHANGED <<capacity, old>>

Putting == pc = "reput" \/ (pc = "probe" /\ call.op = "put")

(* The key is there: its value is replaced, and size grows all the same.   *)
PutOverwrite ==
  /\ Putting /\ Hit
  /\ buckets' = [buckets EXCEPT ![index].val = Wanted.val]
  /\ size' = size + 1
  /\ PutDone

(* Mutants: a deleted bucket is taken; a moved entry is not counted. *)
PutInsert_Reuse ==
  /\ Putting /\ buckets[index].st # "live"
  /\ buckets' = [buckets EXCEPT ![index] = Live(Wanted.key, Wanted.val)]
  /\ size' = size + 1
  /\ PutDone

PutInsert_Uncounted ==
  /\ Putting /\ ~is_occupied(buckets[index])
  /\ buckets' = [buckets EXCEPT ![index] = Live(Wanted.key, Wanted.val)]
  /\ size' = IF pc = "reput" THEN size ELSE size + 1
  /\ PutDone

(* Only a bucket that was never used is taken; deleted ones are passed.    *)
PutInsert ==
  /\ Putting /\ ~is_occupied(buckets[index])
  /\ buckets' = [buckets EXCEPT ![index] = Live(Wanted.key, Wanted.val)]
  /\ size' = size + 1
  /\ PutDone

Return(r) ==
  /\ pc' = "idle" /\ call' = NoCall /\ index' = 0 /\ result' = r
  /\ UNCHANGED <<capacity, old, i>>

FindHit ==
  /\ pc = "probe" /\ call.op \in {"get", "has"} /\ Hit
  /\ Return(Ok(IF call.op = "get" THEN buckets[index].val ELSE NoVal))
  /\ UNCHANGED <<buckets, size>>

(* Mutant: no tombstone is left. *)
RemoveHit_Free ==
  /\ pc = "probe" /\ call.op = "remove" /\ Hit
  /\ buckets' = [buckets EXCEPT ![index] = Blank]
  /\ size' = size - 1
  /\ Return(Ok(NoVal))

RemoveHit ==
  /\ pc = "probe" /\ call.op = "remove" /\ Hit
  /\ buckets' = [buckets EXCEPT ![index] = Deleted]
  /\ size' = size - 1
  /\ Return(Ok(NoVal))

Miss ==
  /\ pc = "probe" /\ call.op # "put" /\ ~is_occupied(buckets[index])
  /\ Return(Fail)
  /\ UNCHANGED <<buckets, size>>

------------------------------------------------------------------------------
(* The copying loop of hashmap_resize. *)

old_capacity == capacity \div 2

RehashSkip ==
  /\ pc = "rehash" /\ i < old_capacity /\ old[i].st # "live"
  /\ i' = i + 1
  /\ UNCHANGED <<buckets, capacity, size, pc, call, index, old, result>>

(* The recursive hashmap_put.  Its own load test never succeeds             *)
(* (NoNestedResize), so it goes straight to probing.                       *)
RehashPut ==
  /\ pc = "rehash" /\ i < old_capacity /\ old[i].st = "live"
  /\ ~Overloaded
  /\ pc' = "reput" /\ index' = hash(old[i].key, capacity)
  /\ UNCHANGED <<buckets, capacity, size, call, old, i, result>>

(* Mutant: the last old bucket is not copied. *)
RehashDone_Early ==
  /\ pc = "rehash" /\ i = old_capacity - 1
  /\ pc' = "probe" /\ index' = hash(call.key, capacity)
  /\ old' = calloc(0) /\ i' = 0
  /\ UNCHANGED <<buckets, capacity, size, call, result>>

(* old_buckets is freed and the interrupted put starts probing.            *)
RehashDone ==
  /\ pc = "rehash" /\ i = old_capacity
  /\ pc' = "probe" /\ index' = hash(call.key, capacity)
  /\ old' = calloc(0) /\ i' = 0
  /\ UNCHANGED <<buckets, capacity, size, call, result>>

------------------------------------------------------------------------------

Client ==
  \/ \E k \in Keys, v \in Vals : hashmap_put(k, v)
  \/ \E op \in {"get", "has", "remove"}, k \in Keys : hashmap_find(op, k)
  \/ \E c \in Capacities : hashmap_reset(c)
  \/ hashmap_destroy

Step == \/ Advance \/ PutOverwrite \/ PutInsert \/ FindHit \/ RemoveHit \/ Miss
        \/ RehashSkip \/ RehashPut \/ RehashDone

Next == Client \/ Step

(* The C function runs until it returns. *)
Spec == Init /\ [][Next]_vars /\ WF_vars(Step)

------------------------------------------------------------------------------

LiveSet == {j \in DOMAIN buckets : buckets[j].st = "live"}

Bucket == [st : {"empty", "deleted", "live"}, key : Nat, val : Vals \union {NoVal}]

(* Type invariant.  While hashmap_resize runs, old_buckets has half as many *)
(* buckets as the table; a probing loop never leaves the table.            *)
TypeOK ==
  /\ capacity \in Nat /\ size \in Nat /\ i \in Nat /\ index \in Nat
  /\ pc \in {"idle", "probe", "rehash", "reput"}
  /\ buckets \in [0 .. capacity - 1 -> Bucket]
  /\ IF pc \in {"rehash", "reput"}
     THEN capacity = 2 * old_capacity /\ old \in [0 .. old_capacity - 1 -> Bucket]
     ELSE old = calloc(0)
  /\ pc \in {"probe", "reput"} => index < capacity
  /\ result \in [ok : BOOLEAN, val : Vals \union {NoVal}]

(* No key is live in two buckets: hashmap_put looks at the whole probe      *)
(* sequence of a key before it takes a bucket.                             *)
LiveKeysUnique ==
  \A a, b \in LiveSet : buckets[a].key = buckets[b].key => a = b

(* The buckets a probing loop visits from h before it reaches j.           *)
Path(h, j, cap) == IF h <= j THEN h .. j - 1 ELSE (h .. cap - 1) \union (0 .. j - 1)

(* Every live bucket is reachable: no bucket on the way from its key's      *)
(* hash to it is free, so hashmap_get and hashmap_remove find it however   *)
(* many removals and resizes happened since it was put.                    *)
LiveReachable ==
  \A j \in LiveSet : \A p \in Path(hash(buckets[j].key, capacity), j, capacity) :
    is_occupied(buckets[p])

(* size never undercounts the live entries (it overcounts: replacing a     *)
(* value increments it too), so size-- in hashmap_remove cannot wrap and   *)
(* the load test of hashmap_put comes no later than it should for them.    *)
SizeCoversLive == Cardinality(LiveSet) <= size

(* The puts hashmap_resize makes into the doubled table never reach the     *)
(* load factor again: the resize does not nest.                            *)
NoNestedResize ==
  (pc = "rehash" /\ i < old_capacity /\ old[i].st = "live") => ~Overloaded

(* What the probing loop has established: the buckets it passed are         *)
(* occupied and none of them holds the key it looks for.                   *)
ProbedInVain ==
  pc \in {"probe", "reput"} =>
    \A p \in Path(hash(Wanted.key, capacity), index, capacity) :
      /\ is_occupied(buckets[p])
      /\ ~(buckets[p].st = "live" /\ buckets[p].key = Wanted.key)

(* The call in progress, and how far hashmap_resize has come.              *)
CallInv ==
  /\ pc = "idle" => call = NoCall
  /\ pc # "idle" =>
       /\ capacity > 0
       /\ call \in [op : {"put", "get", "has", "remove"}, key : Keys,
                    val : Vals \union {NoVal}]
       /\ call.op = "put" => call.val \in Vals
  /\ pc \in {"rehash", "reput"} =>
       call.op = "put" /\ i <= old_capacity /\ size <= i
  /\ pc = "reput" => i < old_capacity /\ old[i].st = "live"

LiveTyped(tab) ==
  \A j \in DOMAIN tab : tab[j].st = "live" => tab[j].key \in Keys /\ tab[j].val \in Vals

(* The inductive invariant. *)
IInv == /\ TypeOK /\ CallInv
        /\ LiveTyped(buckets) /\ LiveTyped(old)
        /\ LiveKeysUnique /\ LiveReachable /\ SizeCoversLive /\ ProbedInVain

(* hashmap.c:124, a call for a key that is not there returns "not found":  *)
(* every call of a table operation returns.                                *)
EveryCallReturns == pc # "idle" ~> pc = "idle"

(* It does if no entry is ever removed: the load test keeps a bucket free. *)
ReturnsWithoutRemovals == [](call.op # "remove") => EveryCallReturns

(* It does if the table has a free bucket: probing visits every bucket,    *)
(* tombstones included, and a doubled table always has room.               *)
ReturnsIfRoom ==
  (pc # "idle" /\ \E j \in DOMAIN buckets : ~is_occupied(buckets[j])) ~> pc = "idle"

ContentsOf(tab) ==
  [k \in Keys |-> IF \E j \in DOMAIN tab : tab[j].st = "live" /\ tab[j].key = k
                  THEN tab[CHOOSE j \in DOMAIN tab : tab[j].st = "live" /\ tab[j].key = k].val
                  ELSE NoVal]

M == INSTANCE Map WITH
       map <- ContentsOf(IF pc \in {"rehash", "reput"} THEN old ELSE buckets)

(* The table is a map: every call has exactly the effect and the result     *)
(* Map gives it, and hashmap_resize, which moves every entry, changes      *)
(* nothing a client can see.                                               *)
ImplementsMap == M!Spec
====
