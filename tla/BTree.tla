-------------------------------- MODULE BTree --------------------------------
(***************************************************************************)
(* src/src/utils/btree.c: a B-tree with splits after insertion, merging    *)
(* and borrowing on deletion, a pool of spare nodes filled before a tree   *)
(* is changed, and the bulk loading of btree_load.  A node is the sequence *)
(* of its items and of its children, which a leaf does not have; indices   *)
(* are those of the code plus one.  Every call takes the number of its     *)
(* allocations that succeed as a parameter, so any of them may fail.       *)
(*                                                                         *)
(* Client lists what the code that uses the tree allows itself:            *)
(*   "load_unsorted"  btree_load of an item that is not the greatest       *)
(*   "load_first_oom" btree_load into an empty tree when memory is short   *)
(***************************************************************************)
EXTENDS Integers, FiniteSets, SequencesExt

CONSTANTS
    Key, Val,       \* an item is a key the comparator sees and a value it does not
    MaxItems,       \* max_items of btree_new, normalised: even and at least 4
    MAXLEN,         \* most nodes takeaway keeps in a group (32 in the code)
    MaxMallocs,     \* bounds the allocations that succeed in one call
    Client,
    NoItem

Item == [key : Key, val : Val]

ASSUME TreeAssumption ==
    /\ Key \subseteq Int /\ NoItem \notin Item
    /\ MaxItems \in Nat /\ MaxItems >= 4 /\ MaxItems % 2 = 0
    /\ MAXLEN \in Nat /\ MaxMallocs \in Nat
    /\ Client \subseteq {"load_unsorted", "load_first_oom"}

VARIABLES
    status,     \* "ok", "freed", "panic" (out of nodes) or "crash" (NULL root)
    root, count, height, oom,
    pool,       \* the spare nodes: leaves and branches, each with len and cap
    litem,      \* position of the last loaded item in the last leaf, 0 for NULL
    ret,        \* the item the last call returned
    live        \* ghost: nodes allocated and not freed, of either kind

vars == <<status, root, count, height, oom, pool, litem, ret, live>>

MinItems == (MaxItems * 40) \div 100

NoTree        == [items |-> <<>>, children |-> <<>>]    \* root = NULL
Leaf(items)   == [items |-> items, children |-> <<>>]
IsLeaf(node)  == node.children = <<>>
Full(node)    == Len(node.items) = MaxItems - 1
Kind(node)    == IF IsLeaf(node) THEN "leaves" ELSE "branches"

\* The trees of height h.  A function of trees takes their height first and
\* calls itself with the height of the children.
Tree[h \in Nat] ==
    IF h = 0 THEN {NoTree}
    ELSE IF h = 1 THEN [items : Seq(Item), children : {<<>>}]
    ELSE {node \in [items : Seq(Item), children : Seq(Tree[h - 1])] :
             Len(node.children) = Len(node.items) + 1}

\* node_find: the position of the key, or where it would go.
node_find(node, key) ==
    1 + Cardinality({i \in DOMAIN node.items : node.items[i].key < key})
HasAt(node, i, key) == i <= Len(node.items) /\ node.items[i].key = key

-----------------------------------------------------------------------------
(* The pool.                                                                 *)

EmptyGroup == [len |-> 0, cap |-> 0]
EmptyPool  == [leaves |-> EmptyGroup, branches |-> EmptyGroup]

grow_group(group) == [group EXCEPT !.cap = IF @ = 0 THEN 1 ELSE 2 * @]

\* A panic shows as a group that has given away more than it had.
gimme_node(p, kind) == [p EXCEPT ![kind].len = @ - 1]

\* Mutant: one branch too few.
WantsFewerBranches(p, h) == p.branches.len < h - 1

\* One leaf, and as many branches as the tree is high.
WantsLeaf(p)      == p.leaves.len = 0
WantsBranch(p, h) == p.branches.len < h

\* The next thing fill_pool allocates: room in a group, or a node.
FillStep(p, kind) ==
    IF p[kind].len = p[kind].cap THEN [p EXCEPT ![kind] = grow_group(@)]
    ELSE [p EXCEPT ![kind].len = @ + 1]

FilledFor(p, h) == ~WantsLeaf(p) /\ ~WantsBranch(p, h)

\* The pool after as many allocations.
fill_pool(p, h, mallocs) ==
    LET after[m \in Nat] ==
            IF m = 0 THEN p
            ELSE IF FilledFor(after[m - 1], h) THEN after[m - 1]
            ELSE FillStep(after[m - 1], IF WantsLeaf(after[m - 1]) THEN "leaves" ELSE "branches")
    IN  [pool |-> after[mallocs], ok |-> FilledFor(after[mallocs], h)]

\* Mutant: a node is forgotten when its group cannot grow.
takeaway_forgets(d, kind) ==
    LET group == d.pool[kind]
    IN  IF group.len = MAXLEN THEN [d EXCEPT !.freed[kind] = @ + 1]
        ELSE IF group.len < group.cap THEN [d EXCEPT !.pool[kind].len = @ + 1]
        ELSE IF d.mallocs = 0 THEN d
        ELSE [d EXCEPT !.pool[kind] = [grow_group(group) EXCEPT !.len = @ + 1],
                       !.mallocs = @ - 1]

\* A deletion d under way keeps a node that left the tree, or frees it when its
\* group is full and does not grow.
takeaway(d, kind) ==
    LET group == d.pool[kind]
        freed == [d EXCEPT !.freed[kind] = @ + 1]
    IN  IF group.len = MAXLEN THEN freed
        ELSE IF group.len < group.cap THEN [d EXCEPT !.pool[kind].len = @ + 1]
        ELSE IF d.mallocs = 0 THEN freed
        ELSE [d EXCEPT !.pool[kind] = [grow_group(group) EXCEPT !.len = @ + 1],
                       !.mallocs = @ - 1]

-----------------------------------------------------------------------------
(* Insertion.                                                                *)

SplitAt(node, lean_left) ==
    LET mid  == MaxItems - 1 - MinItems
        mdif == (Len(node.items) - (mid + 1)) - MinItems
    IN  IF ~lean_left THEN (MaxItems - 1) \div 2
        ELSE IF mdif < 0 THEN mid + mdif ELSE mid

node_split(node, lean_left) ==
    LET mid == SplitAt(node, lean_left)
        n   == Len(node.items)
        Half(a, b) == [items |-> SubSeq(node.items, a, b),
                       children |-> IF IsLeaf(node) THEN <<>>
                                    ELSE SubSeq(node.children, a, b + 1)]
    IN  [left |-> Half(1, mid), median |-> node.items[mid + 1], right |-> Half(mid + 2, n)]

\* The full child i of a node is split and its median moves up.
SplitChild(node, i, lean_left) ==
    LET s == node_split(node.children[i], lean_left)
    IN  [items |-> InsertAt(node.items, i, s.median),
         children |-> InsertAt(ReplaceAt(node.children, i, s.left), i + 1, s.right)]

SetHere(node, i, item, p) ==
    IF HasAt(node, i, item.key)
    THEN [node |-> [node EXCEPT !.items[i] = item], prev |-> node.items[i], pool |-> p]
    ELSE [node |-> Leaf(InsertAt(node.items, i, item)), prev |-> NoItem, pool |-> p]

\* After the item was set in child i, which came to c.
SetBelow(node, i, c, lean_left) ==
    LET below == [node EXCEPT !.children[i] = c.node]
    IN  IF c.prev = NoItem /\ Full(c.node)
        THEN [node |-> SplitChild(below, i, lean_left), prev |-> NoItem,
              pool |-> gimme_node(c.pool, Kind(c.node))]
        ELSE [c EXCEPT !.node = below]

node_set(high, tree, item, lean_left, p) ==
    LET set[h \in Nat] == [node \in Tree[h] |->
            LET i == node_find(node, item.key)
            IN  IF HasAt(node, i, item.key) \/ IsLeaf(node) THEN SetHere(node, i, item, p)
                ELSE SetBelow(node, i, set[h - 1][node.children[i]], lean_left)]
    IN  set[high][tree]

\* A full root is split under a new root.
GrowRoot(s, lean_left) ==
    LET halves == node_split(s.node, lean_left)
    IN  [node |-> [items |-> <<halves.median>>, children |-> <<halves.left, halves.right>>],
         prev |-> NoItem,
         pool |-> gimme_node(gimme_node(s.pool, Kind(s.node)), "branches"),
         grown |-> 1]

\* The tree and the pool after btree_set_x has set an item, given a filled pool.
SetInto(item, lean_left, p) ==
    LET s == node_set(height, root, item, lean_left, p)
    IN  IF root = NoTree
        THEN [node |-> Leaf(<<item>>), prev |-> NoItem, pool |-> gimme_node(p, "leaves"), grown |-> 1]
        ELSE IF s.prev = NoItem /\ Full(s.node)
        THEN GrowRoot(s, lean_left)
        ELSE [node |-> s.node, prev |-> s.prev, pool |-> s.pool, grown |-> 0]

Panics(p) == p.leaves.len < 0 \/ p.branches.len < 0

\* Nodes fill_pool has allocated.
Filled(p) == [kind \in DOMAIN live |-> live[kind] + p[kind].len - pool[kind].len]

btree_set_x(item, lean_left, mallocs) ==
    LET filled == fill_pool(pool, height, mallocs)
        s      == SetInto(item, lean_left, filled.pool)
    IN  /\ live' = Filled(filled.pool)
        /\ IF filled.ok
           THEN /\ status' = IF Panics(s.pool) THEN "panic" ELSE "ok"
                /\ root' = s.node
                /\ pool' = s.pool
                /\ height' = height + s.grown
                /\ count' = IF s.prev = NoItem THEN count + 1 ELSE count
                /\ ret' = s.prev
                /\ oom' = FALSE
           ELSE /\ pool' = filled.pool
                /\ ret' = NoItem
                /\ oom' = TRUE
                /\ UNCHANGED <<status, root, height, count>>

-----------------------------------------------------------------------------
(* Deletion.  POPMAX takes the same path through the code as POPBACK.        *)

\* Mutant: POPBACK leaves out the last child.
PositionBeforeLast(node, act, key) ==
    CASE act = "DELKEY"   -> node_find(node, key)
      [] act = "POPFRONT" -> 1
      [] act = "POPBACK"  -> Len(node.items)

\* Where a deletion goes on: an item of a leaf, or a child of a branch.
Position(node, act, key) ==
    CASE act = "DELKEY"   -> node_find(node, key)
      [] act = "POPFRONT" -> 1
      [] act = "POPBACK"  -> IF IsLeaf(node) THEN Len(node.items) ELSE Len(node.children)

\* Mutant: two nodes merge that leave no place for an insertion.
MergesToFull(left, right) == Len(left.items) + Len(right.items) + 1 <= MaxItems - 1

Merges(left, right) == Len(left.items) + Len(right.items) + 1 < MaxItems - 1

Merge(node, j) ==
    LET left  == node.children[j]
        right == node.children[j + 1]
        both  == [items |-> left.items \o <<node.items[j]>> \o right.items,
                  children |-> left.children \o right.children]
    IN  [items |-> RemoveAt(node.items, j),
         children |-> RemoveAt(ReplaceAt(node.children, j, both), j + 1)]

MoveRight(node, j) ==
    LET left  == node.children[j]
        right == node.children[j + 1]
    IN  [items |-> ReplaceAt(node.items, j, Last(left.items)),
         children |-> ReplaceAt(ReplaceAt(node.children,
            j, [items |-> Front(left.items),
                children |-> IF IsLeaf(left) THEN <<>> ELSE Front(left.children)]),
            j + 1, [items |-> <<node.items[j]>> \o right.items,
                    children |-> IF IsLeaf(left) THEN <<>>
                                 ELSE <<Last(left.children)>> \o right.children])]

MoveLeft(node, j) ==
    LET left  == node.children[j]
        right == node.children[j + 1]
    IN  [items |-> ReplaceAt(node.items, j, Head(right.items)),
         children |-> ReplaceAt(ReplaceAt(node.children,
            j, [items |-> Append(left.items, node.items[j]),
                children |-> IF IsLeaf(left) THEN <<>>
                             ELSE Append(left.children, Head(right.children))]),
            j + 1, [items |-> Tail(right.items),
                    children |-> IF IsLeaf(left) THEN <<>> ELSE Tail(right.children)])]

\* After a deletion in child i: a child that is too small is merged with the
\* next one (the last with the one before it), or takes an item from it.
Rebalance(d, i) ==
    LET node  == d.node
        j     == IF i > Len(node.items) THEN i - 1 ELSE i
        left  == node.children[j]
        right == node.children[j + 1]
    IN  IF Len(node.children[i].items) >= MinItems THEN d
        ELSE IF Merges(left, right)
        THEN takeaway([d EXCEPT !.node = Merge(node, j)], Kind(right))
        ELSE IF Len(left.items) > Len(right.items)
        THEN [d EXCEPT !.node = MoveRight(node, j)]
        ELSE [d EXCEPT !.node = MoveLeft(node, j)]

DelAct == {"DELKEY", "POPFRONT", "POPBACK"}

NothingDeleted(node, p, mallocs) ==
    [node |-> node, prev |-> NoItem, pool |-> p, mallocs |-> mallocs,
     freed |-> [leaves |-> 0, branches |-> 0]]

\* After an item was deleted in child i, which came to d; in place of an item
\* of the branch it was the one before it.
DeletedBelow(node, i, found, d) ==
    LET below == [node EXCEPT !.children[i] = d.node,
                              !.items = IF found THEN ReplaceAt(@, i, d.prev) ELSE @]
    IN  Rebalance([d EXCEPT !.prev = IF found THEN node.items[i] ELSE @, !.node = below], i)

node_delete(high, tree, act, key, p, mallocs) ==
    LET delete[h \in Nat] == [a \in DelAct |-> [node \in Tree[h] |->
            LET none  == NothingDeleted(node, p, mallocs)
                i     == Position(node, a, key)
                found == a = "DELKEY" /\ HasAt(node, i, key)
                below == delete[h - 1][IF found THEN "POPBACK" ELSE a][node.children[i]]
            IN  IF IsLeaf(node)
                THEN IF a = "DELKEY" /\ ~found THEN none
                     ELSE [none EXCEPT !.node = Leaf(RemoveAt(node.items, i)), !.prev = node.items[i]]
                ELSE IF below.prev = NoItem THEN none
                ELSE DeletedBelow(node, i, found, below)]]
    IN  delete[high][act][tree]

\* An empty root gives way to its only child, or to no tree at all.
Shrinks(d)    == d.node.items = <<>>
ShrinkRoot(d) ==
    IF ~Shrinks(d) THEN d
    ELSE takeaway([d EXCEPT !.node = IF IsLeaf(@) THEN NoTree ELSE @.children[1]], Kind(d.node))

delete_x(act, key, mallocs) ==
    LET d == node_delete(height, root, act, key, pool, mallocs)
    IN  /\ status = "ok"
        /\ litem' = 0
        /\ IF root = NoTree \/ d.prev = NoItem
           THEN ret' = NoItem /\ UNCHANGED <<root, height, count, pool, live>>
           ELSE /\ root' = ShrinkRoot(d).node
                /\ pool' = ShrinkRoot(d).pool
                /\ ret' = d.prev
                /\ count' = count - 1
                /\ height' = IF Shrinks(d) THEN height - 1 ELSE height
                /\ live' = [kind \in DOMAIN live |-> live[kind] - ShrinkRoot(d).freed[kind]]
        /\ UNCHANGED <<status, oom>>

-----------------------------------------------------------------------------
(* Loading.                                                                  *)

LastLeaf[h \in Nat] == [node \in Tree[h] |->
    IF IsLeaf(node) THEN node ELSE LastLeaf[h - 1][Last(node.children)]]

AppendToLastLeaf(high, tree, item) ==
    LET append[h \in Nat] == [node \in Tree[h] |->
            IF IsLeaf(node) THEN Leaf(Append(node.items, item))
            ELSE [node EXCEPT !.children[Len(node.children)] = append[h - 1][@]]]
    IN  append[high][tree]

\* litem points into the last leaf and lnode is that leaf until another call
\* resets both; appending does not move litem.
LoadAppends(item) ==
    /\ litem # 0
    /\ Len(LastLeaf[height][root].items) < MaxItems - 2
    /\ item.key > LastLeaf[height][root].items[litem].key

-----------------------------------------------------------------------------
(* The calls.                                                                *)

\* btree_new
Init ==
    /\ status = "ok"
    /\ root = NoTree /\ count = 0 /\ height = 0 /\ oom = FALSE
    /\ pool = EmptyPool
    /\ litem = 0
    /\ ret = NoItem
    /\ live = [leaves |-> 0, branches |-> 0]

Mallocs == 0 .. MaxMallocs

btree_set(item, mallocs) ==
    /\ status = "ok"
    /\ btree_set_x(item, FALSE, mallocs)
    /\ litem' = 0

ItemsOf[h \in Nat] == [node \in Tree[h] |->
    ToSet(node.items) \cup UNION {ItemsOf[h - 1][child] : child \in ToSet(node.children)}]

Items == ItemsOf[height][root]

MayLoad(item, mallocs) ==
    /\ status = "ok"
    /\ "load_unsorted" \in Client \/ \A i \in Items : i.key < item.key
    /\ "load_first_oom" \in Client \/ root # NoTree \/ fill_pool(pool, height, mallocs).ok

load_appends(item) ==
    /\ MayLoad(item, 0)
    /\ LoadAppends(item)
    /\ root' = AppendToLastLeaf(height, root, item)
    /\ count' = count + 1
    /\ oom' = FALSE
    /\ ret' = NoItem
    /\ UNCHANGED <<status, height, pool, litem, live>>

\* Otherwise the item is set, and the end of the tree is remembered unless an
\* item was replaced; with no tree at all the search for it follows NULL.
load_sets(item, mallocs) ==
    /\ MayLoad(item, mallocs)
    /\ ~LoadAppends(item)
    /\ root # NoTree \/ fill_pool(pool, height, mallocs).ok
    /\ btree_set_x(item, TRUE, mallocs)
    /\ litem' = IF ret' # NoItem THEN 0 ELSE Len(LastLeaf[height'][root'].items)

load_crashes(item, mallocs) ==
    /\ MayLoad(item, mallocs)
    /\ root = NoTree /\ ~fill_pool(pool, height, mallocs).ok
    /\ status' = "crash"
    /\ UNCHANGED <<root, count, height, oom, pool, litem, ret, live>>

btree_delete(key, mallocs) == delete_x("DELKEY", key, mallocs)
btree_pop_min(mallocs)     == delete_x("POPFRONT", 0, mallocs)
btree_pop_max(mallocs)     == delete_x("POPBACK", 0, mallocs)

Total(s) ==
    LET total[n \in Nat] == IF n = 0 THEN 0 ELSE total[n - 1] + s[n]
    IN  total[Len(s)]

NodesOf[h \in Nat] == [node \in Tree[h] |-> [kind \in {"leaves", "branches"} |->
    IF h = 0 THEN 0
    ELSE (IF Kind(node) = kind THEN 1 ELSE 0)
         + Total([i \in DOMAIN node.children |-> NodesOf[h - 1][node.children[i]][kind]])]]

\* Frees every node of the tree (node_free) and of the pool (release_pool).
btree_free ==
    /\ status = "ok"
    /\ status' = "freed"
    /\ live' = [kind \in DOMAIN live |->
                   live[kind] - NodesOf[height][root][kind] - pool[kind].len]
    /\ root' = NoTree
    /\ pool' = EmptyPool
    /\ count' = 0 /\ height' = 0 /\ litem' = 0
    /\ UNCHANGED <<oom, ret>>

Next ==
    \/ \E item \in Item, mallocs \in Mallocs :
          \/ btree_set(item, mallocs)
          \/ load_sets(item, mallocs)
          \/ load_crashes(item, mallocs)
    \/ \E item \in Item : load_appends(item)
    \/ \E key \in Key, mallocs \in Mallocs : btree_delete(key, mallocs)
    \/ \E mallocs \in Mallocs : btree_pop_min(mallocs) \/ btree_pop_max(mallocs)
    \/ btree_free

Spec == Init /\ [][Next]_vars

-----------------------------------------------------------------------------
(* The iterators, as the sequence of items they show.                        *)

\* The items between what comes before, between and after them.
Woven(items, parts) ==
    LET woven[n \in Nat] ==
            IF n = 0 THEN parts[1] ELSE woven[n - 1] \o <<items[n]>> \o parts[n + 1]
    IN  woven[Len(items)]

node_scan[h \in Nat] == [node \in Tree[h] |->
    IF IsLeaf(node) THEN node.items
    ELSE Woven(node.items, [i \in DOMAIN node.children |-> node_scan[h - 1][node.children[i]]])]

\* From position i on: the items, each with the subtree after it.
ScanFrom(h, node, i) ==
    LET items == SubSeq(node.items, i, Len(node.items))
    IN  IF IsLeaf(node) THEN items
        ELSE Woven(items, <<<<>>>> \o [j \in DOMAIN items |-> node_scan[h - 1][node.children[i + j]]])

node_ascend[h \in Nat] == [node \in Tree[h] |-> [pivot \in Key |->
    LET i == node_find(node, pivot)
    IN  (IF IsLeaf(node) \/ HasAt(node, i, pivot) THEN <<>>
         ELSE node_ascend[h - 1][node.children[i]][pivot])
        \o ScanFrom(h, node, i)]]

\* Mutant: the subtrees are walked forwards.
ReverseForwards(h, node, i) ==
    LET items == Reverse(SubSeq(node.items, 1, i))
    IN  IF IsLeaf(node) THEN items
        ELSE Woven(items, <<<<>>>> \o [j \in DOMAIN items |-> node_scan[h - 1][node.children[i + 1 - j]]])

\* Down from position i: the items, each with the subtree before it.
ReverseFrom(h, node, i) ==
    LET items == Reverse(SubSeq(node.items, 1, i))
    IN  IF IsLeaf(node) THEN items
        ELSE Woven(items, <<<<>>>> \o
                 [j \in DOMAIN items |-> Reverse(node_scan[h - 1][node.children[i + 1 - j]])])

node_descend[h \in Nat] == [node \in Tree[h] |-> [pivot \in Key |->
    LET i == node_find(node, pivot)
    IN  IF HasAt(node, i, pivot) THEN ReverseFrom(h, node, i)
        ELSE (IF IsLeaf(node) THEN <<>> ELSE node_descend[h - 1][node.children[i]][pivot])
             \o ReverseFrom(h, node, i - 1)]]

btree_get[h \in Nat] == [node \in Tree[h] |-> [key \in Key |->
    LET i == node_find(node, key)
    IN  IF HasAt(node, i, key) THEN node.items[i]
        ELSE IF IsLeaf(node) THEN NoItem
        ELSE btree_get[h - 1][node.children[i]][key]]]

FirstLeaf[h \in Nat] == [node \in Tree[h] |->
    IF IsLeaf(node) THEN node ELSE FirstLeaf[h - 1][Head(node.children)]]

btree_min == Head(FirstLeaf[height][root].items)
btree_max == Last(LastLeaf[height][root].items)

-----------------------------------------------------------------------------
(* Properties.                                                               *)

Nodes[h \in Nat] == [node \in Tree[h] |->
    {node} \cup UNION {Nodes[h - 1][child] : child \in ToSet(node.children)}]

\* Type invariant; the position of the last load is that of an item.
TypeOK ==
    /\ status \in {"ok", "freed", "panic", "crash"}
    /\ height \in Nat /\ root \in Tree[height]
    /\ count \in Nat /\ oom \in BOOLEAN
    /\ \A kind \in {"leaves", "branches"} :
          live[kind] \in Nat /\ pool[kind].len \in 0 .. pool[kind].cap
    /\ litem \in 0 .. Len(LastLeaf[height][root].items)
    /\ ret \in Item \cup {NoItem}

\* btree_sane's heights: all leaves are as deep as the tree is high.
SaneHeight == root \in Tree[height]

\* btree_sane's properties, with the room its arrays leave: between calls no
\* node but the root has fewer than min_items items, and none has so many that
\* the next insertion would overrun its max_items - 1 places.
SaneProps ==
    /\ root # NoTree => Len(root.items) >= 1
    /\ \A node \in Nodes[height][root] : Len(node.items) <= MaxItems - 2
    /\ \A node \in Nodes[height][root] \ {root} : Len(node.items) >= MinItems

\* Items in ascending order of their keys, each key once.
Ascends(s) == \A i \in 1 .. Len(s) - 1 : s[i].key < s[i + 1].key

\* btree_sane's order and count: a walk meets the items in ascending order, and
\* as many of them as count says.
SaneOrder ==
    LET walk == node_scan[height][root]
    IN  Ascends(walk) /\ Len(walk) = count

\* The tree is what its own self-check wants, after any sequence of calls.
btree_sane == SaneHeight /\ SaneProps /\ SaneOrder

\* One leaf and as many branches as the tree is high are enough for every split
\* an insertion can cause (btree.c:174-177): gimme_node never panics, not even
\* when earlier calls ran out of memory half way through filling the pool.
NeverOutOfNodes == status # "panic"

\* Every node that is allocated is in the tree or in the pool, and btree_free
\* leaves none, whichever allocations failed on the way; and the pool never
\* holds more nodes than its groups have room for.
NoNodeLeaks ==
    \A kind \in DOMAIN live :
        /\ live[kind] = NodesOf[height][root][kind] + pool[kind].len
        /\ pool[kind].len <= pool[kind].cap

\* The search, the ends and the iterators agree with the items of the tree: the
\* iterators show those from the pivot on, or down from it, in order and each
\* once, for pivots that are in the tree and for pivots that are not.
QueriesAgree ==
    \A key \in Key :
        LET walk == node_scan[height][root]
            up   == node_ascend[height][root][key]
            down == node_descend[height][root][key]
        IN  /\ {btree_get[height][root][key]} =
                  IF \E item \in Items : item.key = key
                  THEN {item \in Items : item.key = key} ELSE {NoItem}
            /\ ToSet(up) = {item \in Items : item.key >= key} /\ Ascends(up)
            /\ ToSet(down) = {item \in Items : item.key <= key} /\ Ascends(Reverse(down))
            /\ root # NoTree => btree_min = Head(walk) /\ btree_max = Last(walk)

O == INSTANCE OrderedSet WITH items <- Items

Deletes(key) == \E mallocs \in Mallocs : btree_delete(key, mallocs)
PopsMin      == \E mallocs \in Mallocs : btree_pop_min(mallocs)
PopsMax      == \E mallocs \in Mallocs : btree_pop_max(mallocs)

\* What a call removes is the item with the key it was given, or the one at the
\* end of its name.
TakesRight ==
    count' < count \/ root' = root =>
        /\ ret' = O!OneOf(O!Least(Items))    \/ ~PopsMin
        /\ ret' = O!OneOf(O!Greatest(Items)) \/ ~PopsMax
        /\ \A key \in Key : ret' = O!OneOf(O!WithKey(key)) \/ ~Deletes(key)

\* The tree is the ordered set its comments describe: insertions replace and
\* return, deletions and pops return what they remove, a failed allocation
\* changes nothing; and each call removes the item it should.
IsOrderedSet == O!Spec /\ [][TakesRight]_vars

===============================================================================
