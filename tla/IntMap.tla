-------------------------------- MODULE IntMap --------------------------------
(***************************************************************************)
(* What hashtable.h promises its clients: "a simple hashtable              *)
(* implementation for plain int->int mappings".  The state is the finite   *)
(* map and what the last lookup or deletion returned; nothing is said of   *)
(* buckets, slots or counters.  HashTable.tla is shown to implement this.  *)
(***************************************************************************)

CONSTANTS Key, Value, NoValue

VARIABLES
    map,    \* a function from the keys in the table to their values
    ret     \* what the last call returned

Returned == [found : BOOLEAN, value : Value \cup {NoValue}]

Found(v) == [found |-> TRUE, value |-> v]
Present  == [found |-> TRUE, value |-> NoValue]
Missing  == [found |-> FALSE, value |-> NoValue]

TypeOK ==
    /\ DOMAIN map \subseteq Key
    /\ \A k \in DOMAIN map : map[k] \in Value
    /\ ret \in Returned

Without(k) == [j \in DOMAIN map \ {k} |-> map[j]]
With(k, v) == [j \in DOMAIN map \cup {k} |-> IF j = k THEN v ELSE map[j]]

Init ==
    /\ map = [k \in {} |-> NoValue]
    /\ ret = Missing

Put(k, v) ==
    /\ map' = With(k, v)
    /\ ret' = Missing

Get(k) ==
    /\ ret' = IF k \in DOMAIN map THEN Found(map[k]) ELSE Missing
    /\ UNCHANGED map

HasKey(k) ==
    /\ ret' = IF k \in DOMAIN map THEN Present ELSE Missing
    /\ UNCHANGED map

Delete(k) ==
    /\ ret' = IF k \in DOMAIN map THEN Present ELSE Missing
    /\ map' = Without(k)

\* A traversal lets its callback delete the entry it is shown, or give it
\* another value; it returns nothing.
DropVisited(k) ==
    /\ map' = Without(k)
    /\ UNCHANGED ret

SetVisited(k, v) ==
    /\ k \in DOMAIN map
    /\ map' = With(k, v)
    /\ UNCHANGED ret

\* ht_deinit followed by ht_init.
Reset ==
    /\ map' = [k \in {} |-> NoValue]
    /\ ret' = Missing

Next ==
    \/ Reset
    \/ \E k \in Key :
          \/ Get(k)
          \/ HasKey(k)
          \/ Delete(k)
          \/ DropVisited(k)
          \/ \E v \in Value : Put(k, v) \/ SetVisited(k, v)

Spec == Init /\ [][Next]_<<map, ret>>

===============================================================================
