---- MODULE Map ----
(***************************************************************************)
(* What util/hashmap.h promises its callers: a finite map from keys to     *)
(* values.  A call is registered by one step and answered, with its whole  *)
(* effect, by another; the time in between is the time the C function runs. *)
(***************************************************************************)
CONSTANTS Keys, Vals, NoVal

VARIABLES map, call, result

vars == <<map, call, result>>

NoCall == [op |-> "none", key |-> NoVal, val |-> NoVal]
Empty  == [k \in Keys |-> NoVal]
Ok(v)  == [ok |-> TRUE, val |-> v]
Fail   == [ok |-> FALSE, val |-> NoVal]

Init == map = Empty /\ call = NoCall /\ result = Fail

Call == /\ call = NoCall
        /\ \E k \in Keys : 
             \/ \E v \in Vals : call' = [op |-> "put", key |-> k, val |-> v]
             \/ \E op \in {"get", "has", "remove"} : 
                  call' = [op |-> op, key |-> k, val |-> NoVal]
        /\ UNCHANGED <<map, result>>

Found == map[call.key] # NoVal

Put    == /\ call.op = "put"
          /\ map' = [map EXCEPT ![call.key] = call.val]
          /\ result' = Ok(NoVal)
Get    == /\ call.op = "get"
          /\ result' = IF Found THEN Ok(map[call.key]) ELSE Fail
          /\ map' = map
Has    == /\ call.op = "has"
          /\ result' = IF Found THEN Ok(NoVal) ELSE Fail
          /\ map' = map
Remove == /\ call.op = "remove"
          /\ result' = IF Found THEN Ok(NoVal) ELSE Fail
          /\ map' = [map EXCEPT ![call.key] = NoVal]

Return == /\ call # NoCall
          /\ call' = NoCall
          /\ Put \/ Get \/ Has \/ Remove

(* hashmap_reset, and hashmap_destroy followed by hashmap_init. *)
Clear == call = NoCall /\ map' = Empty /\ UNCHANGED <<call, result>>

Next == Call \/ Return \/ Clear

Spec == Init /\ [][Next]_vars
====
