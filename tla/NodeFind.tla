------------------------------- MODULE NodeFind -------------------------------
(***************************************************************************)
(* node_find of src/src/utils/btree.c, step by step: the optional look at  *)
(* the place a hint names, the binary search between low and high, and the *)
(* hint left for the next search.  Indices are the code's, from 0.  BTree  *)
(* uses what the search returns; this module is why it may.                *)
(***************************************************************************)
EXTENDS Integers

CONSTANTS
    MaxLen,     \* most items of a node
    Keys,       \* keys of items, and keys that are searched for
    HintValues, \* values a byte of the hint can have: 256 of them
    NoHint      \* the hint pointer is NULL, or the depth is 8 or more

\* A node that is searched holds an item: BTree!SaneProps.
ASSUME LenAssumption == MaxLen \in Nat \ {0}
ASSUME KeysAssumption == Keys \subseteq Int
ASSUME HintAssumption == HintValues \in Nat \ {0} /\ NoHint \notin Nat

VARIABLES
    num_items, items, key,  \* the arguments
    hint,                   \* the byte of the hint for this depth
    low, high,
    index, found,           \* the results
    pc                      \* "hint", "loop", "done"

search == <<num_items, items, key, hint, low, high, index, found, pc>>
args == <<num_items, items, key>>

Places == 0 .. num_items - 1

\* The keys of the node ascend.
KeysAscend == \A i, j \in Places : i < j => items[i] < items[j]

SearchInit ==
    /\ num_items \in 1 .. MaxLen
    /\ items \in [Places -> Keys] /\ KeysAscend
    /\ key \in Keys
    /\ hint \in 0 .. HintValues - 1 \cup {NoHint}
    /\ low = 0 /\ high = num_items - 1
    /\ index = 0 /\ found = FALSE
    /\ pc = "hint"

\* Mutant: a hint beyond the node is off by one.
HintedPast == IF hint > num_items - 1 THEN num_items ELSE hint

\* The place looked at first: the hint, or the last one if that is smaller.
Hinted == IF hint > num_items - 1 THEN num_items - 1 ELSE hint

NoUsableHint ==
    /\ pc = "hint"
    /\ hint = NoHint \/ hint = 0
    /\ pc' = "loop"
    /\ UNCHANGED <<args, hint, low, high, index, found>>

\* The key is where the hint says: the hint is not written again.
HintHits ==
    /\ pc = "hint" /\ hint # NoHint /\ hint # 0
    /\ key = items[Hinted]
    /\ index' = Hinted
    /\ found' = TRUE
    /\ pc' = "done"
    /\ UNCHANGED <<args, hint, low, high>>

HintNarrows ==
    /\ pc = "hint" /\ hint # NoHint /\ hint # 0
    /\ key # items[Hinted]
    /\ low' = IF key > items[Hinted] THEN Hinted + 1 ELSE low
    /\ high' = IF key > items[Hinted] THEN high ELSE Hinted - 1
    /\ pc' = "loop"
    /\ UNCHANGED <<args, hint, index, found>>

mid == (low + high) \div 2

\* Mutant: the byte of the hint is not one.
LeaveWhole(i) == hint' = IF hint = NoHint THEN NoHint ELSE i

\* The index is stored in a byte; that of a large node loses its upper bits.
Leave(i) == hint' = IF hint = NoHint THEN NoHint ELSE i % HintValues

MidHits ==
    /\ pc = "loop" /\ low <= high
    /\ key = items[mid]
    /\ index' = mid
    /\ found' = TRUE
    /\ Leave(mid)
    /\ pc' = "done"
    /\ UNCHANGED <<args, low, high>>

\* Mutant: the left half loses an item.
GoLeftTwo ==
    /\ pc = "loop" /\ low <= high
    /\ key < items[mid]
    /\ high' = IF mid > low THEN mid - 2 ELSE mid - 1
    /\ UNCHANGED <<args, hint, low, index, found, pc>>

GoLeft ==
    /\ pc = "loop" /\ low <= high
    /\ key < items[mid]
    /\ high' = mid - 1
    /\ UNCHANGED <<args, hint, low, index, found, pc>>

\* Mutant: the right half keeps its middle.
GoRightKeepingMid ==
    /\ pc = "loop" /\ low <= high
    /\ key > items[mid]
    /\ low' = mid
    /\ UNCHANGED <<args, hint, high, index, found, pc>>

GoRight ==
    /\ pc = "loop" /\ low <= high
    /\ key > items[mid]
    /\ low' = mid + 1
    /\ UNCHANGED <<args, hint, high, index, found, pc>>

NotThere ==
    /\ pc = "loop" /\ low > high
    /\ index' = low
    /\ found' = FALSE
    /\ Leave(low)
    /\ pc' = "done"
    /\ UNCHANGED <<args, low, high>>

SearchNext == NoUsableHint \/ HintHits \/ HintNarrows \/ MidHits \/ GoLeft \/ GoRight \/ NotThere

SearchSpec == SearchInit /\ [][SearchNext]_search

\* A loop goes on while it can.
FairSearch == SearchSpec /\ WF_search(SearchNext)

-----------------------------------------------------------------------------
\* Type invariant; the bounds of the search stay within one of the node's.
SearchTypeOK ==
    /\ num_items \in 1 .. MaxLen
    /\ items \in [Places -> Keys] /\ KeysAscend
    /\ key \in Keys
    /\ hint \in 0 .. HintValues - 1 \cup {NoHint}
    /\ low \in 0 .. num_items
    /\ high \in -1 .. num_items - 1
    /\ index \in 0 .. num_items
    /\ found \in BOOLEAN
    /\ pc \in {"hint", "loop", "done"}

\* The search returns the place of the key if the node has it, and else the
\* place it would go, whatever the hint was: one of this node, one of another
\* node, of a node that has changed since, or one that lost its upper bits.
Correct ==
    pc = "done" =>
        IF found THEN index \in Places /\ items[index] = key
        ELSE /\ \A i \in Places : items[i] # key
             /\ \A i \in Places : items[i] < key <=> i < index

\* No look at the items leaves the node.
InNode ==
    /\ pc = "hint" /\ hint # NoHint /\ hint # 0 => Hinted \in Places
    /\ pc = "loop" /\ low <= high => mid \in Places

\* The search ends.
Terminates == <>(pc = "done")

===============================================================================
