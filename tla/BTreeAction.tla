----------------------------- MODULE BTreeAction -----------------------------
(***************************************************************************)
(* The action iterators of src/src/utils/btree.c: walks up or down a       *)
(* B-tree from a pivot whose callback may delete or update the item it is  *)
(* shown.  A walk is split where it calls back; in between, the stack of   *)
(* the recursion is the path to the item shown.  The callback makes no     *)
(* call on the tree itself.                                                *)
(***************************************************************************)
EXTENDS BTree

CONSTANT Pivot      \* keys a walk may start from, and NoItem for NULL

ASSUME Pivot \subseteq Key \cup {NoItem}

VARIABLES
    dir,        \* "none", or the direction of the walk: "ascend" or "descend"
    path,       \* the child taken in each branch, then the item shown
    pivot,
    owed,       \* ghost: keys the walk has yet to get an answer for
    rekeyed     \* ghost: the callback of this walk has changed a key

walk    == <<dir, path, pivot, owed, rekeyed>>
avars   == <<vars, walk>>

NodeAt(tree, p) == FoldLeft(LAMBDA node, c : node.children[c], tree, p)

ShownNode == NodeAt(root, Front(path))
Shown     == ShownNode.items[Last(path)]

Greatest(S) == CHOOSE n \in S : \A m \in S : m <= n

-----------------------------------------------------------------------------
(* Going on.  A path may end before the first or past the last item of its   *)
(* node: then the walk returns to the branch above, and from there further   *)
(* up, to the next item; the empty path is the end of the walk.              *)

\* Mutant: a node is taken to have one item more.
ReturnUpLate(tree, p) ==
    LET within == {n \in DOMAIN p : p[n] <= Len(NodeAt(tree, SubSeq(p, 1, n - 1)).items) + 1}
    IN  SubSeq(p, 1, Greatest(within \cup {0}))

ReturnUp(tree, p) ==
    LET within == {n \in DOMAIN p : p[n] <= Len(NodeAt(tree, SubSeq(p, 1, n - 1)).items)}
    IN  SubSeq(p, 1, Greatest(within \cup {0}))

ReturnDown(p) ==
    LET Before(n) == IF n = Len(p) THEN p[n] ELSE p[n] - 1
        last      == Greatest({n \in DOMAIN p : Before(n) >= 1} \cup {0})
    IN  IF last = 0 THEN <<>> ELSE Append(SubSeq(p, 1, last - 1), Before(last))

\* From the call for a node, reached by p, to its first item.
RECURSIVE EnterUp(_, _, _)
EnterUp(node, p, piv) ==
    LET i == IF piv = NoItem THEN 1 ELSE node_find(node, piv)
    IN  IF IsLeaf(node) THEN Append(p, i)
        ELSE EnterUp(node.children[i], Append(p, i), piv)

RECURSIVE EnterDown(_, _, _)
EnterDown(node, p, piv) ==
    LET i     == IF piv = NoItem THEN Len(node.items) + 1 ELSE node_find(node, piv)
        found == piv # NoItem /\ HasAt(node, i, piv)
    IN  IF found THEN Append(p, i)
        ELSE IF IsLeaf(node) THEN Append(p, i - 1)
        ELSE EnterDown(node.children[i], Append(p, i), piv)

Enter(tree, d, piv) ==
    IF d = "ascend" THEN ReturnUp(tree, EnterUp(tree, <<>>, piv))
    ELSE ReturnDown(EnterDown(tree, <<>>, piv))

\* The rest of the loop of the node at p: up from its item i, after the subtree
\* before it, or down to item i - 1, after the subtree between the two.
Resume(tree, p, i) ==
    LET node == NodeAt(tree, p)
        Go(enter(_, _, _), end) ==
            IF IsLeaf(node) THEN end ELSE enter(node.children[i], Append(p, i), pivot)
    IN  IF dir = "ascend" THEN ReturnUp(tree, Go(EnterUp, Append(p, i)))
        ELSE ReturnDown(Go(EnterDown, Append(p, i - 1)))

\* After an item that stays, and to an item that is tried again.
PastItem(tree) ==
    Resume(tree, Front(path), IF dir = "ascend" THEN Last(path) + 1 ELSE Last(path))

RetryItem(tree) ==
    Resume(tree, Front(path), IF dir = "ascend" THEN Last(path) ELSE Last(path) + 1)

\* Mutant: the walk leaves out the item after a deleted one.
PastGap(tree) == PastItem(tree)

\* After an item of a leaf was shifted away.
FromGap(tree) == Resume(tree, Front(path), Last(path))

ShowAt(p, d, piv) ==
    /\ path' = p
    /\ dir' = IF p = <<>> THEN "none" ELSE d
    /\ pivot' = IF p = <<>> THEN NoItem ELSE piv

-----------------------------------------------------------------------------
(* The calls and the answers.                                                *)

ActionInit ==
    /\ Init
    /\ dir = "none" /\ path = <<>> /\ pivot = NoItem
    /\ owed = {} /\ rekeyed = FALSE

InRange(key, d, piv) ==
    piv = NoItem \/ IF d = "ascend" THEN key >= piv ELSE key <= piv

\* btree_action_ascend, btree_action_descend
btree_action(d, piv) ==
    /\ status = "ok" /\ dir = "none"
    /\ litem' = 0
    /\ IF root = NoTree THEN UNCHANGED <<dir, path, pivot>>
       ELSE ShowAt(Enter(root, d, piv), d, piv)
    /\ owed' = {item.key : item \in {i \in Items : InRange(i.key, d, piv)}}
    /\ rekeyed' = FALSE
    /\ ret' = NoItem
    /\ UNCHANGED <<status, root, count, height, oom, pool, live>>

Answer ==
    /\ dir # "none"
    /\ owed' = owed \ {Shown.key}
    /\ UNCHANGED rekeyed

BTREE_NONE ==
    /\ Answer
    /\ ShowAt(PastItem(root), dir, pivot)
    /\ UNCHANGED vars

BTREE_STOP ==
    /\ dir # "none"
    /\ ShowAt(<<>>, dir, pivot)
    /\ owed' = {}
    /\ UNCHANGED <<vars, rekeyed>>

\* The tree with another node at p.
RECURSIVE WithNode(_, _, _)
WithNode(tree, p, node) ==
    IF p = <<>> THEN node
    ELSE [tree EXCEPT !.children[Head(p)] = WithNode(@, Tail(p), node)]

\* Mutant: a leaf may become too small.
SparesAll(node) == IsLeaf(node) /\ Len(node.items) >= MinItems

SparesItem(node) == IsLeaf(node) /\ Len(node.items) > MinItems

\* Mutant: the count is left as it was.
Uncounted == count

Discounted == count - 1

delete_in_place ==
    /\ Answer
    /\ SparesItem(ShownNode)
    /\ LET node == [ShownNode EXCEPT !.items = RemoveAt(@, Last(path))] IN
       root' = WithNode(root, Front(path), node)
    /\ count' = Discounted
    /\ ShowAt(FromGap(root'), dir, pivot)
    /\ UNCHANGED <<status, height, oom, pool, litem, ret, live>>

delete_slowly(mallocs) ==
    /\ Answer
    /\ ~SparesItem(ShownNode)
    /\ btree_delete(Shown.key, mallocs)
    /\ IF root' = NoTree THEN ShowAt(<<>>, dir, pivot)
       ELSE ShowAt(Enter(root', dir, Shown.key), dir, Shown.key)

BTREE_DELETE == delete_in_place \/ \E mallocs \in Mallocs : delete_slowly(mallocs)

\* The callback changes what the comparator does not see ...
BTREE_UPDATE(val) ==
    /\ Answer
    /\ LET node == [ShownNode EXCEPT !.items[Last(path)].val = val] IN
       root' = WithNode(root, Front(path), node)
    /\ ShowAt(PastItem(root'), dir, pivot)
    /\ UNCHANGED <<status, count, height, oom, pool, litem, ret, live>>

\* ... or the key, which is ignored.
BTREE_UPDATE_key ==
    /\ dir # "none"
    /\ ShowAt(RetryItem(root), dir, pivot)
    /\ rekeyed' = TRUE
    /\ UNCHANGED <<vars, owed>>

Iterate ==
    \/ \E d \in {"ascend", "descend"}, piv \in Pivot : btree_action(d, piv)
    \/ BTREE_NONE \/ BTREE_STOP \/ BTREE_DELETE
    \/ \E val \in Val : BTREE_UPDATE(val)
    \/ BTREE_UPDATE_key

ActionNext == Iterate \/ (dir = "none" /\ Next /\ UNCHANGED walk)

ActionSpec == ActionInit /\ [][ActionNext]_avars

-----------------------------------------------------------------------------
\* Type invariant; a walk that is under way shows an item of the tree.
ActionTypeOK ==
    /\ TypeOK
    /\ dir \in {"none", "ascend", "descend"}
    /\ dir = "none" <=> path = <<>>
    /\ dir # "none" =>
          /\ \A n \in 1 .. Len(path) - 1 :
                path[n] \in DOMAIN NodeAt(root, SubSeq(path, 1, n - 1)).children
          /\ Last(path) \in DOMAIN ShownNode.items
    /\ pivot \in Key \cup {NoItem}
    /\ owed \subseteq Key /\ rekeyed \in BOOLEAN

\* Whatever is deleted and rebalanced under it, the walk asks for each item in
\* its range, in order, and ends when it has been answered for all of them.  It
\* shows no item twice unless the callback changes a key: btree.c:1085-1087 says
\* that the item is tried again, but in a branch the walk goes through the
\* subtree beside the item once more before it is back.
ShowsEveryItem ==
    IF dir = "none" THEN owed = {}
    ELSE /\ Shown.key \in owed \/ rekeyed
         /\ \A key \in owed : IF dir = "ascend" THEN Shown.key <= key ELSE Shown.key >= key

\* An answer does to the tree what it says, and nothing else, by either way of
\* deleting an item; the count follows.
Others == {item \in Items : item # Shown}

AnswersApply ==
    [][ dir # "none" =>
            /\ count' = Cardinality(Items')
            /\ Items' = Others \/ ~BTREE_DELETE
            /\ \A val \in Val :
                  \/ Items' = Others \cup {[Shown EXCEPT !.val = val]}
                  \/ ~BTREE_UPDATE(val)
            /\ root' = root \/ ~(BTREE_NONE \/ BTREE_STOP \/ BTREE_UPDATE_key) ]_avars

===============================================================================
