--------------------------- MODULE MCBTreeAction ---------------------------
(***************************************************************************)
(* TLC instances of BTreeAction: a tree is filled with items of value 1,   *)
(* upwards by btree_load or downwards by btree_set, and then walked once,  *)
(* with an update of the keys in Changing only.                            *)
(***************************************************************************)
EXTENDS BTreeAction

CONSTANT Changing

VARIABLE walked     \* the tree has been walked, or is being walked

Fill ==
    /\ ~walked
    /\ \E item \in [key : Key, val : {1}] :
          \/ load_appends(item)
          \/ load_sets(item, MaxMallocs)
          \/ btree_set(item, MaxMallocs) /\ \A other \in Items : item.key < other.key
    /\ UNCHANGED <<walk, walked>>

Walk ==
    /\ walked = (dir # "none")
    /\ Iterate
    /\ \A item \in Items' : item.val = 1 \/ item.key \in Changing
    /\ walked' = TRUE

MCInit == ActionInit /\ walked = FALSE

MCSpec == MCInit /\ [][Fill \/ Walk]_<<avars, walked>>
===============================================================================
