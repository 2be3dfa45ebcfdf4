------------------------------ MODULE TableMap ------------------------------
(***************************************************************************)
(* What a table promises a Lua program: a map from keys to values, in      *)
(* which a write changes one key and nothing else, table.clear empties it, *)
(* and the collector takes from a weak table what refers to dead objects.  *)
(***************************************************************************)
CONSTANTS Keys, Slots, Nil, HeapKeys, HeapValues, WeakModes

VARIABLES map, weak_mode

Init ==
    /\ map = [key \in Keys |-> Nil]
    /\ weak_mode \in WeakModes

Put(key, value) == map' = [map EXCEPT ![key] = value]

Clear == map' = [key \in Keys |-> Nil]

WeakKeys == IF "k" \in weak_mode THEN HeapKeys ELSE {}
WeakValues == IF "v" \in weak_mode THEN HeapValues ELSE {}

Forget(deadKeys, deadValues) ==
    map' = [key \in Keys |->
              IF key \in deadKeys \/ map[key] \in deadValues THEN Nil ELSE map[key]]

Next ==
    /\ \/ \E key \in Keys, value \in Slots : Put(key, value)
       \/ Clear
       \/ \E deadKeys \in SUBSET WeakKeys, deadValues \in SUBSET WeakValues :
             Forget(deadKeys, deadValues)
    /\ UNCHANGED weak_mode

Spec == Init /\ [][Next]_<<map, weak_mode>>
=============================================================================
