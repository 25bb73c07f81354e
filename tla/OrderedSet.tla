------------------------------ MODULE OrderedSet ------------------------------
(***************************************************************************)
(* What the comments of src/src/utils/btree.c promise of a B-tree: a set   *)
(* of items, at most one per key, from which an item is replaced, deleted  *)
(* or popped at either end, and which a failed allocation leaves as it is. *)
(***************************************************************************)
EXTENDS Integers

CONSTANTS Item,     \* records with a field key
          NoItem    \* NULL

VARIABLES
    items,  \* the items in the tree
    ret,    \* what the last call returned
    oom     \* btree_oom(): the last insertion could not allocate

WithKey(k)  == {i \in items : i.key = k}
Least(S)    == {i \in S : \A j \in S : i.key <= j.key}
Greatest(S) == {i \in S : \A j \in S : i.key >= j.key}

\* The member of S if it has one (it never has two), else NULL.
OneOf(S) == IF S = {} THEN NoItem ELSE CHOOSE i \in S : TRUE

TypeOK ==
    /\ items \subseteq Item
    /\ \A i, j \in items : i.key = j.key => i = j
    /\ ret \in Item \cup {NoItem}
    /\ oom \in BOOLEAN

Init ==
    /\ items = {}
    /\ ret = NoItem
    /\ oom = FALSE

\* btree_set and btree_load return the item they replace.
Set(item) ==
    /\ items' = (items \ WithKey(item.key)) \cup {item}
    /\ ret' = OneOf(WithKey(item.key))
    /\ oom' = FALSE

OutOfMemory ==
    /\ oom' = TRUE
    /\ ret' = NoItem
    /\ UNCHANGED items

Take(S) ==
    /\ ret' = OneOf(S)
    /\ items' = items \ S
    /\ UNCHANGED oom

Delete(k) == Take(WithKey(k))
PopMin    == Take(Least(items))
PopMax    == Take(Greatest(items))

\* btree_free
Clear ==
    /\ items' = {}
    /\ UNCHANGED <<ret, oom>>

Next ==
    \/ \E i \in Item : Set(i) \/ Delete(i.key)
    \/ OutOfMemory
    \/ PopMin
    \/ PopMax
    \/ Clear

Spec == Init /\ [][Next]_<<items, ret, oom>>

===============================================================================
