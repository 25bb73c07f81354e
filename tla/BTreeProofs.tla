----------------------------- MODULE BTreeProofs -----------------------------
(***************************************************************************)
(* BTree: no call panics for want of a node, none leaks one, and between   *)
(* calls every node has as many items as btree_sane wants and the arrays   *)
(* have room for, whatever MaxItems, the keys, the number of calls and the *)
(* allocations that fail.                                                  *)
(*                                                                         *)
(* TreeInv, near the end, is inductive.  Good(h, lo, hi) are the trees of  *)
(* height h whose root has lo .. hi items and whose other nodes have       *)
(* MinItems .. MaxItems - 2 (Sub); every call takes Good(h, 1, MaxItems-2) *)
(* to such a tree, and the nodes of the tree, of the pool and those given  *)
(* back add up.  The functions over trees are recursive: Recursion shows   *)
(* that each solves its equation, and the lemmas go by induction on the    *)
(* height.  An insertion or deletion changes a branch around one child or  *)
(* two: a branch is a Site, the items and the children that stay around a  *)
(* middle, and each operation is a change of the middle.  The last part is *)
(* on walks (node_scan), for BTreeOrderProofs.                             *)
(***************************************************************************)
EXTENDS BTree, FiniteSetTheorems, SequenceTheorems, WellFoundedInduction, TLAPS

(* The recursive definitions, as equations.                                  *)

TreeStep(h, below) ==
    IF h = 0 THEN {NoTree}
    ELSE IF h = 1 THEN [items : Seq(Item), children : {<<>>}]
    ELSE {node \in [items : Seq(Item), children : Seq(below)] :
             Len(node.children) = Len(node.items) + 1}

Trees == INSTANCE Recursion WITH Step <- TreeStep

(* What a tree of some height is. *)
LEMMA TreeIs == \A h \in Nat : Tree[h] = TreeStep(h, Tree[h - 1])
<1> DEFINE Def(f) == f = [h \in Nat |-> TreeStep(h, f[h - 1])]
<1>1. \A x, y : TreeStep(0, x) = TreeStep(0, y)
  BY DEF TreeStep
<1>2. \E f : Def(f)
  BY <1>1, Trees!Solvable
<1>3. Tree = CHOOSE f : Def(f)
  BY DEF Tree, TreeStep
<1>4. Def(Tree)
  BY <1>2, <1>3
<1> QED
  BY <1>4

(* The only tree of height 0 is none, which looks like a leaf. *)
LEMMA NoBranchAtZero == \A node \in Tree[0] : node = NoTree /\ IsLeaf(node)
<1>1. Tree[0] = {NoTree}
  <2>1. Tree[0] = TreeStep(0, Tree[0 - 1])
    BY TreeIs
  <2> QED
    BY <2>1 DEF TreeStep
<1>2. IsLeaf(NoTree)
  BY DEF IsLeaf, NoTree
<1> QED
  BY <1>1, <1>2

LastLeafStep(h, below) ==
    [node \in Tree[h] |-> IF IsLeaf(node) THEN node ELSE below[Last(node.children)]]

LastLeaves == INSTANCE Recursion WITH Step <- LastLeafStep

(* The last leaf. *)
LEMMA LastLeafIs ==
    ASSUME NEW h \in Nat, NEW node \in Tree[h]
    PROVE  LastLeaf[h][node] = IF IsLeaf(node) THEN node ELSE LastLeaf[h - 1][Last(node.children)]
<1> DEFINE Def(f) == f = [k \in Nat |-> LastLeafStep(k, f[k - 1])]
<1>1. \A x, y : LastLeafStep(0, x) = LastLeafStep(0, y)
  BY NoBranchAtZero DEF LastLeafStep
<1>2. \E f : Def(f)
  BY <1>1, LastLeaves!Solvable
<1>3. LastLeaf = CHOOSE f : Def(f)
  BY DEF LastLeaf, LastLeafStep
<1>4. Def(LastLeaf)
  BY <1>2, <1>3
<1> QED
  BY <1>4 DEF LastLeafStep

(* An insertion: the parameters of a call, and what it does at one node. *)
Group == [len : Int, cap : Nat]

Pool  == [leaves : Group, branches : Group]

SetCall == [item : Item, lean_left : BOOLEAN, p : Pool]

SetStep(h, below) ==
    [q \in SetCall |-> [node \in Tree[h] |->
        LET i == node_find(node, q.item.key)
        IN  IF HasAt(node, i, q.item.key) \/ IsLeaf(node) THEN SetHere(node, i, q.item, q.p)
            ELSE SetBelow(node, i, below[q][node.children[i]], q.lean_left)]]

Sets == INSTANCE Recursion WITH Step <- SetStep

(* node_set solves its recursive definition, whatever it is called with. *)
LEMMA SetFunction ==
    ASSUME NEW item \in Item, NEW lean_left \in BOOLEAN, NEW p \in Pool
    PROVE  \E set : /\ set = [h \in Nat |-> [node \in Tree[h] |->
                          LET i == node_find(node, item.key)
                          IN  IF HasAt(node, i, item.key) \/ IsLeaf(node) THEN SetHere(node, i, item, p)
                              ELSE SetBelow(node, i, set[h - 1][node.children[i]], lean_left)]]
                    /\ \A h, tree : node_set(h, tree, item, lean_left, p) = set[h][tree]
<1> DEFINE Def(set) == set = [h \in Nat |-> [node \in Tree[h] |->
                          LET i == node_find(node, item.key)
                          IN  IF HasAt(node, i, item.key) \/ IsLeaf(node) THEN SetHere(node, i, item, p)
                              ELSE SetBelow(node, i, set[h - 1][node.children[i]], lean_left)]]
           q == [item |-> item, lean_left |-> lean_left, p |-> p]
           set == CHOOSE f : Def(f)
<1>1. \A x, y : SetStep(0, x) = SetStep(0, y)
  BY NoBranchAtZero DEF SetStep
<1>2. PICK all : all = [h \in Nat |-> SetStep(h, all[h - 1])]
  BY <1>1, Sets!Solvable
<1>3. Def([h \in Nat |-> all[h][q]])
  <2> DEFINE f == [h \in Nat |-> all[h][q]]
             Body(h, node, g) == 
                          LET i == node_find(node, item.key)
                          IN  IF HasAt(node, i, item.key) \/ IsLeaf(node) THEN SetHere(node, i, item, p)
                              ELSE SetBelow(node, i, g[h - 1][node.children[i]], lean_left)
  <2>1. q \in SetCall /\ q.item = item /\ q.lean_left = lean_left /\ q.p = p
    BY DEF SetCall
  <2>2. ASSUME NEW h \in Nat PROVE f[h] = [node \in Tree[h] |-> Body(h, node, f)]
    <3>1. all[h][q] = SetStep(h, all[h - 1])[q]
      BY <1>2
    <3>2. SetStep(h, all[h - 1])[q] = [node \in Tree[h] |->
             LET i == node_find(node, item.key)
             IN  IF HasAt(node, i, item.key) \/ IsLeaf(node) THEN SetHere(node, i, item, p)
                 ELSE SetBelow(node, i, all[h - 1][q][node.children[i]], lean_left)]
      BY <2>1 DEF SetStep
    <3>3. CASE h = 0
      BY <3>1, <3>2, <3>3, NoBranchAtZero
    <3>4. CASE h # 0
      <4>1. f[h - 1] = all[h - 1][q]
        BY <3>4
      <4> QED
        BY <3>1, <3>2, <4>1
    <3> QED
      BY <3>3, <3>4
  <2>3. f = [h \in Nat |-> f[h]]
    OBVIOUS
  <2> HIDE DEF f, Body
  <2>4. f = [h \in Nat |-> [node \in Tree[h] |-> Body(h, node, f)]]
    BY <2>2, <2>3
  <2> QED
    BY <2>4 DEF f, Body
<1>4. Def(set)
  <2>1. \E f : Def(f)
    BY <1>3
  <2> HIDE DEF Def
  <2> QED
    BY <2>1
<1>5. \A h, tree : node_set(h, tree, item, lean_left, p) = set[h][tree]
  BY DEF node_set
<1> QED
  BY <1>4, <1>5

(* node_set, one node of it. *)
LEMMA NodeSetIs ==
    ASSUME NEW item \in Item, NEW lean_left \in BOOLEAN, NEW p \in Pool,
           NEW h \in Nat, NEW node \in Tree[h], NEW i, i = node_find(node, item.key)
    PROVE  node_set(h, node, item, lean_left, p) =
              IF HasAt(node, i, item.key) \/ IsLeaf(node) THEN SetHere(node, i, item, p)
              ELSE SetBelow(node, i, node_set(h - 1, node.children[i], item, lean_left, p), lean_left)
<1>1. PICK set : /\ set = [k \in Nat |-> [n \in Tree[k] |->
                          LET j == node_find(n, item.key)
                          IN  IF HasAt(n, j, item.key) \/ IsLeaf(n) THEN SetHere(n, j, item, p)
                              ELSE SetBelow(n, j, set[k - 1][n.children[j]], lean_left)]]
                 /\ \A k, tree : node_set(k, tree, item, lean_left, p) = set[k][tree]
  BY SetFunction
<1>2. set[h][node] = IF HasAt(node, i, item.key) \/ IsLeaf(node) THEN SetHere(node, i, item, p)
                     ELSE SetBelow(node, i, set[h - 1][node.children[i]], lean_left)
  BY <1>1
<1>3. node_set(h - 1, node.children[i], item, lean_left, p) = set[h - 1][node.children[i]]
  BY <1>1
<1>4. node_set(h, node, item, lean_left, p) = set[h][node]
  BY <1>1
<1> HIDE <1>1
<1> QED
  BY <1>2, <1>3, <1>4

NodesOfAt(h, node, below) ==
    [kind \in {"leaves", "branches"} |->
        IF h = 0 THEN 0
        ELSE (IF Kind(node) = kind THEN 1 ELSE 0)
             + Total([i \in DOMAIN node.children |-> below[node.children[i]][kind]])]

NodesOfStep(h, below) == [node \in Tree[h] |-> NodesOfAt(h, node, below)]

NodesOfRec == INSTANCE Recursion WITH Step <- NodesOfStep

(* The nodes of a tree, of either kind. *)
LEMMA NodesOfIs ==
    ASSUME NEW h \in Nat, NEW node \in Tree[h]
    PROVE  NodesOf[h][node] = NodesOfAt(h, node, NodesOf[h - 1])
<1> DEFINE Def(f) == f = [k \in Nat |-> NodesOfStep(k, f[k - 1])]
<1>1. ASSUME NEW x, NEW y PROVE NodesOfStep(0, x) = NodesOfStep(0, y)
  <2>1. ASSUME NEW n \in Tree[0] PROVE NodesOfAt(0, n, x) = NodesOfAt(0, n, y)
    BY DEF NodesOfAt
  <2> QED
    BY <2>1 DEF NodesOfStep
<1>2. \E f : Def(f)
  BY <1>1, NodesOfRec!Solvable
<1>3. NodesOf = CHOOSE f : Def(f)
  BY DEF NodesOf, NodesOfStep, NodesOfAt
<1>4. Def(NodesOf)
  BY <1>2, <1>3
<1> QED
  BY <1>4 DEF NodesOfStep

NodesAt(h, node, below) ==
    {node} \cup UNION {below[child] : child \in ToSet(node.children)}

NodesStep(h, below) == [node \in Tree[h] |-> NodesAt(h, node, below)]

NodesRec == INSTANCE Recursion WITH Step <- NodesStep

(* The nodes of a tree. *)
LEMMA NodesIs ==
    ASSUME NEW h \in Nat, NEW node \in Tree[h]
    PROVE  Nodes[h][node] = NodesAt(h, node, Nodes[h - 1])
<1> DEFINE Def(f) == f = [k \in Nat |-> NodesStep(k, f[k - 1])]
<1>1. ASSUME NEW x, NEW y PROVE NodesStep(0, x) = NodesStep(0, y)
  <2>1. ASSUME NEW n \in Tree[0] PROVE NodesAt(0, n, x) = NodesAt(0, n, y)
    <3>1. n.children = <<>>
      BY NoBranchAtZero DEF NoTree
    <3>2. {x[child] : child \in ToSet(n.children)} = {} /\ {y[child] : child \in ToSet(n.children)} = {}
      BY <3>1 DEF ToSet
    <3> QED
      BY <3>2 DEF NodesAt
  <2> QED
    BY <2>1 DEF NodesStep
<1>2. \E f : Def(f)
  BY <1>1, NodesRec!Solvable
<1>3. Nodes = CHOOSE f : Def(f)
  BY DEF Nodes, NodesStep, NodesAt
<1>4. Def(Nodes)
  BY <1>2, <1>3
<1> QED
  BY <1>4 DEF NodesStep

ItemsOfAt(h, node, below) ==
    ToSet(node.items) \cup UNION {below[child] : child \in ToSet(node.children)}

ItemsOfStep(h, below) == [node \in Tree[h] |-> ItemsOfAt(h, node, below)]

ItemsOfRec == INSTANCE Recursion WITH Step <- ItemsOfStep

(* The items of a tree. *)
LEMMA ItemsOfIs ==
    ASSUME NEW h \in Nat, NEW node \in Tree[h]
    PROVE  ItemsOf[h][node] = ItemsOfAt(h, node, ItemsOf[h - 1])
<1> DEFINE Def(f) == f = [k \in Nat |-> ItemsOfStep(k, f[k - 1])]
<1>1. ASSUME NEW x, NEW y PROVE ItemsOfStep(0, x) = ItemsOfStep(0, y)
  <2>1. ASSUME NEW n \in Tree[0] PROVE ItemsOfAt(0, n, x) = ItemsOfAt(0, n, y)
    <3>1. n.children = <<>>
      BY NoBranchAtZero DEF NoTree
    <3>2. {x[child] : child \in ToSet(n.children)} = {} /\ {y[child] : child \in ToSet(n.children)} = {}
      BY <3>1 DEF ToSet
    <3> QED
      BY <3>2 DEF ItemsOfAt
  <2> QED
    BY <2>1 DEF ItemsOfStep
<1>2. \E f : Def(f)
  BY <1>1, ItemsOfRec!Solvable
<1>3. ItemsOf = CHOOSE f : Def(f)
  BY DEF ItemsOf, ItemsOfStep, ItemsOfAt
<1>4. Def(ItemsOf)
  BY <1>2, <1>3
<1> QED
  BY <1>4 DEF ItemsOfStep

ScanAt(h, node, below) ==
    IF IsLeaf(node) THEN node.items
    ELSE Woven(node.items, [i \in DOMAIN node.children |-> below[node.children[i]]])

ScanStep(h, below) == [node \in Tree[h] |-> ScanAt(h, node, below)]

ScanRec == INSTANCE Recursion WITH Step <- ScanStep

(* A walk over a tree. *)
LEMMA ScanIs ==
    ASSUME NEW h \in Nat, NEW node \in Tree[h]
    PROVE  node_scan[h][node] = ScanAt(h, node, node_scan[h - 1])
<1> DEFINE Def(f) == f = [k \in Nat |-> ScanStep(k, f[k - 1])]
<1>1. ASSUME NEW x, NEW y PROVE ScanStep(0, x) = ScanStep(0, y)
  <2>1. ASSUME NEW n \in Tree[0] PROVE ScanAt(0, n, x) = ScanAt(0, n, y)
    BY NoBranchAtZero DEF ScanAt
  <2> QED
    BY <2>1 DEF ScanStep
<1>2. \E f : Def(f)
  BY <1>1, ScanRec!Solvable
<1>3. node_scan = CHOOSE f : Def(f)
  BY DEF node_scan, ScanStep, ScanAt
<1>4. Def(node_scan)
  BY <1>2, <1>3
<1> QED
  BY <1>4 DEF ScanStep

(* Sets of numbers closed under successor. *)
LEMMA SetInduction ==
    ASSUME NEW S, 0 \in S, \A n \in Nat : n \in S => n + 1 \in S
    PROVE  \A n \in Nat : n \in S
<1> DEFINE Bad == Nat \ S
<1>1. SUFFICES ASSUME Bad # {} PROVE FALSE
  OBVIOUS
<1>2. PICK n \in Bad : \A m \in Bad : n <= m
  BY <1>1, Trees!LeastNumber
<1>3. n - 1 \in Nat /\ n - 1 \notin Bad
  BY <1>2
<1> QED
  BY <1>2, <1>3

-----------------------------------------------------------------------------
(* Sums.                                                                     *)

TotalStep(n, before) == [s \in Seq(Nat) |-> IF n = 0 THEN 0 ELSE before[s] + s[n]]

TotalRec == INSTANCE Recursion WITH Step <- TotalStep

(* Total solves its recursive definition. *)
LEMMA TotalFunction ==
    \E sum : \A s \in Seq(Nat) :
        /\ Total(s) = sum[Len(s)][s]
        /\ \A n \in Nat : sum[n][s] = IF n = 0 THEN 0 ELSE sum[n - 1][s] + s[n]
<1>1. \A x, y : TotalStep(0, x) = TotalStep(0, y)
  BY DEF TotalStep
<1>2. PICK sum : sum = [n \in Nat |-> TotalStep(n, sum[n - 1])]
  BY <1>1, TotalRec!Solvable
<1>3. SUFFICES ASSUME NEW s \in Seq(Nat)
               PROVE  /\ Total(s) = sum[Len(s)][s]
                      /\ \A n \in Nat : sum[n][s] = IF n = 0 THEN 0 ELSE sum[n - 1][s] + s[n]
  BY <1>3
<1>4. \A n \in Nat : sum[n][s] = IF n = 0 THEN 0 ELSE sum[n - 1][s] + s[n]
  BY <1>2 DEF TotalStep
<1> DEFINE Def(f) == f = [n \in Nat |-> IF n = 0 THEN 0 ELSE f[n - 1] + s[n]]
           g == [n \in Nat |-> sum[n][s]]
           t == CHOOSE f : Def(f)
<1>5. Def(g)
  BY <1>4
<1>6. Total(s) = t[Len(s)]
  BY DEF Total
<1>7. Def(t)
  <2> HIDE DEF Def
  <2>1. \E f : Def(f)
    BY <1>5
  <2> QED
    BY <2>1
<1>8. \A n \in Nat : t[n] = sum[n][s]
  <2> HIDE DEF t
  <2> DEFINE S == {n \in Nat : t[n] = sum[n][s]}
  <2>1. 0 \in S
    BY <1>7, <1>4
  <2>2. ASSUME NEW n \in Nat, n \in S PROVE n + 1 \in S
    <3>1. t[n + 1] = t[n] + s[n + 1]
      BY <1>7
    <3>2. sum[n + 1][s] = sum[n][s] + s[n + 1]
      BY <1>4
    <3> QED
      BY <3>1, <3>2, <2>2
  <2>3. \A n \in Nat : n \in S
    <3> HIDE DEF S
    <3> QED
      BY <2>1, <2>2, SetInduction
  <2> QED
    BY <2>3
<1>9. Len(s) \in Nat
  OBVIOUS
<1> HIDE DEF t
<1> QED
  BY <1>4, <1>6, <1>8, <1>9

(* The sum of nothing. *)
LEMMA TotalOfNone == Total(<<>>) = 0
<1>1. <<>> \in Seq(Nat) /\ Len(<<>>) = 0
  OBVIOUS
<1>2. PICK sum : \A r \in Seq(Nat) :
        /\ Total(r) = sum[Len(r)][r]
        /\ \A n \in Nat : sum[n][r] = IF n = 0 THEN 0 ELSE sum[n - 1][r] + r[n]
  BY TotalFunction
<1>3. Total(<<>>) = sum[0][<<>>]
  BY <1>1, <1>2
<1>4. sum[0][<<>>] = 0
  BY <1>1, <1>2
<1> QED
  BY <1>3, <1>4

(* A sum is a number, and one more number adds to it. *)
LEMMA TotalOfAppend ==
    ASSUME NEW s \in Seq(Nat), NEW x \in Nat
    PROVE  Total(s) \in Nat /\ Total(Append(s, x)) = Total(s) + x
<1>1. PICK sum : \A r \in Seq(Nat) :
        /\ Total(r) = sum[Len(r)][r]
        /\ \A n \in Nat : sum[n][r] = IF n = 0 THEN 0 ELSE sum[n - 1][r] + r[n]
  BY TotalFunction
<1> DEFINE r == Append(s, x)
           S == {n \in Nat : n <= Len(s) => sum[n][s] \in Nat /\ sum[n][r] = sum[n][s]}
<1>2. r \in Seq(Nat) /\ Len(r) = Len(s) + 1 /\ r[Len(s) + 1] = x /\ Len(s) \in Nat
      /\ \A n \in 1 .. Len(s) : r[n] = s[n] /\ s[n] \in Nat
  OBVIOUS
<1> HIDE DEF r
<1>3. 0 \in S
  BY <1>1, <1>2
<1>4. ASSUME NEW n \in Nat, n \in S PROVE n + 1 \in S
  <2>1. SUFFICES ASSUME n + 1 <= Len(s) PROVE sum[n + 1][s] \in Nat /\ sum[n + 1][r] = sum[n + 1][s]
    <3>1. n + 1 \in Nat
      OBVIOUS
    <3> QED
      BY <2>1, <3>1
  <2>2. sum[n + 1][s] = sum[n][s] + s[n + 1] /\ sum[n + 1][r] = sum[n][r] + r[n + 1]
    <3>1. n + 1 \in Nat /\ n + 1 # 0 /\ (n + 1) - 1 = n
      OBVIOUS
    <3>2. sum[n + 1][s] = sum[(n + 1) - 1][s] + s[n + 1]
      BY <1>1, <3>1
    <3>3. sum[n + 1][r] = sum[(n + 1) - 1][r] + r[n + 1]
      BY <1>1, <1>2, <3>1
    <3> QED
      BY <3>1, <3>2, <3>3
  <2>3. n + 1 \in 1 .. Len(s) /\ n <= Len(s)
    BY <2>1, <1>2
  <2>4. sum[n][s] \in Nat /\ sum[n][r] = sum[n][s]
    BY <1>4, <2>3
  <2>5. r[n + 1] = s[n + 1] /\ s[n + 1] \in Nat
    BY <2>3, <1>2
  <2>6. sum[n + 1][s] = sum[n][s] + s[n + 1] /\ sum[n + 1][r] = sum[n][s] + s[n + 1]
    BY <2>2, <2>4, <2>5
  <2> QED
    BY <2>4, <2>5, <2>6
<1>5. Len(s) \in S
  <2> HIDE DEF S
  <2> QED
    BY <1>3, <1>4, <1>2, SetInduction
<1>6. sum[Len(s)][s] \in Nat /\ sum[Len(s)][r] = sum[Len(s)][s]
  BY <1>5, <1>2
<1>7. sum[Len(s) + 1][r] = sum[Len(s)][r] + r[Len(s) + 1]
  BY <1>1, <1>2
<1>8. Total(s) = sum[Len(s)][s] /\ Total(r) = sum[Len(s) + 1][r]
  BY <1>1, <1>2
<1> QED
  BY <1>2, <1>6, <1>7, <1>8 DEF r

(* A sequence without its last element, and that element. *)
LEMMA FrontAndLast ==
    ASSUME NEW T, NEW s \in Seq(T), s # <<>>
    PROVE  /\ Front(s) \in Seq(T) /\ Last(s) \in T
           /\ s = Append(Front(s), Last(s)) /\ Len(s) = Len(Front(s)) + 1
           /\ Front(s) = SubSeq(s, 1, Len(s) - 1) /\ Last(s) = s[Len(s)]
<1>1. Len(s) \in Nat /\ Len(s) # 0
  BY EmptySeq
<1>2. Front(s) = SubSeq(s, 1, Len(s) - 1) /\ Last(s) = s[Len(s)]
  BY DEF Front, Last
<1>3. Front(s) \in Seq(T) /\ Len(Front(s)) = Len(s) - 1
      /\ \A i \in 1 .. Len(s) - 1 : Front(s)[i] = s[i]
  <2>1. Len(s) - 1 \in 1 - 1 .. Len(s) /\ 1 \in 1 .. Len(s) + 1
    BY <1>1
  <2>2. SubSeq(s, 1, Len(s) - 1) \in Seq(T) /\ Len(SubSeq(s, 1, Len(s) - 1)) = Len(s) - 1
    BY <1>1, <2>1
  <2>3. \A i \in 1 .. Len(s) - 1 : SubSeq(s, 1, Len(s) - 1)[i] = s[i]
    BY <1>1, <2>1
  <2> QED
    BY <1>2, <2>2, <2>3
<1>4. Last(s) \in T
  BY <1>1, <1>2
<1>5. s = Append(Front(s), Last(s))
  <2> DEFINE r == Append(Front(s), Last(s))
  <2>1. r \in Seq(T) /\ Len(r) = Len(s)
    BY <1>1, <1>3, <1>4
  <2>2. \A i \in 1 .. Len(s) : r[i] = s[i]
    BY <1>1, <1>2, <1>3, <1>4
  <2> HIDE DEF r
  <2>3. s = r
    BY <2>1, <2>2, SeqEqual
  <2> QED
    BY <2>3 DEF r
<1> QED
  BY <1>1, <1>2, <1>3, <1>4, <1>5

(* The sum of two sequences. *)
LEMMA TotalOfConcat ==
    ASSUME NEW s \in Seq(Nat), NEW t \in Seq(Nat)
    PROVE  Total(s \o t) = Total(s) + Total(t)
<1> DEFINE S == {n \in Nat : \A r \in Seq(Nat) : Len(r) = n => Total(s \o r) = Total(s) + Total(r)}
<1>1. 0 \in S
  <2>1. ASSUME NEW r \in Seq(Nat), Len(r) = 0 PROVE Total(s \o r) = Total(s) + Total(r)
    <3>1. r = <<>> /\ s \o r = s
      BY <2>1, EmptySeq, ConcatEmptySeq
    <3> QED
      BY <3>1, TotalOfNone, TotalOfAppend
  <2> QED
    BY <2>1
<1>2. ASSUME NEW n \in Nat, n \in S PROVE n + 1 \in S
  <2>1. ASSUME NEW r \in Seq(Nat), Len(r) = n + 1 PROVE Total(s \o r) = Total(s) + Total(r)
    <3>1. r # <<>>
      BY <2>1
    <3> DEFINE f == Front(r)
               x == Last(r)
    <3>2. f \in Seq(Nat) /\ x \in Nat /\ r = Append(f, x) /\ Len(f) = n
      <4>1. f \in Seq(Nat) /\ x \in Nat /\ r = Append(f, x) /\ Len(r) = Len(f) + 1
        BY <3>1, FrontAndLast
      <4>2. Len(f) \in Nat
        BY <4>1
      <4> QED
        BY <2>1, <4>1, <4>2
    <3> HIDE DEF f, x
    <3>3. Total(s \o f) = Total(s) + Total(f)
      BY <1>2, <3>2
    <3>4. s \o r = Append(s \o f, x) /\ s \o f \in Seq(Nat)
      BY <3>2
    <3>5. Total(s \o r) = Total(s \o f) + x /\ Total(r) = Total(f) + x
      BY <3>2, <3>4, TotalOfAppend
    <3>6. Total(s) \in Nat /\ Total(f) \in Nat
      BY TotalOfAppend, <3>2
    <3> QED
      BY <3>2, <3>3, <3>5, <3>6
  <2> QED
    BY <2>1
<1>3. Len(t) \in S
  <2>1. Len(t) \in Nat
    OBVIOUS
  <2> HIDE DEF S
  <2> QED
    BY <1>1, <1>2, <2>1, SetInduction
<1> QED
  BY <1>3

(* The sum of one. *)
LEMMA TotalOfOne ==
    ASSUME NEW x \in Nat PROVE Total(<<x>>) = x
<1>1. <<>> \in Seq(Nat) /\ <<x>> = Append(<<>>, x)
  OBVIOUS
<1>2. Total(Append(<<>>, x)) = Total(<<>>) + x
  BY <1>1, TotalOfAppend
<1> QED
  BY <1>1, <1>2, TotalOfNone

-----------------------------------------------------------------------------
(* A full pool.                                                              *)

FillAt(m, p, high, before) ==
    IF m = 0 THEN p
    ELSE IF FilledFor(before, high) THEN before
    ELSE FillStep(before, IF WantsLeaf(before) THEN "leaves" ELSE "branches")

FillsStep(m, before) == [p \in Pool |-> [h \in Nat |-> FillAt(m, p, h, before[p][h])]]

Fills == INSTANCE Recursion WITH Step <- FillsStep

(* A pool under way to being filled. *)
LEMMA FillPoolIs ==
    ASSUME NEW p \in Pool, NEW h \in Nat
    PROVE  \E after :
              /\ after = [m \in Nat |-> FillAt(m, p, h, after[m - 1])]
              /\ \A m \in Nat : fill_pool(p, h, m) = [pool |-> after[m], ok |-> FilledFor(after[m], h)]
<1>1. ASSUME NEW x, NEW y PROVE FillsStep(0, x) = FillsStep(0, y)
  BY DEF FillsStep, FillAt
<1>2. PICK all : all = [m \in Nat |-> FillsStep(m, all[m - 1])]
  BY <1>1, Fills!Solvable
<1> DEFINE Def(f) == f = [m \in Nat |-> FillAt(m, p, h, f[m - 1])]
           g == [m \in Nat |-> all[m][p][h]]
           after == CHOOSE f : Def(f)
<1>3. ASSUME NEW m \in Nat PROVE g[m] = FillAt(m, p, h, g[m - 1])
  <2>1. g[m] = FillAt(m, p, h, all[m - 1][p][h])
    <3>1. all[m] = FillsStep(m, all[m - 1])
      BY <1>2
    <3>2. FillsStep(m, all[m - 1])[p] = [k \in Nat |-> FillAt(m, p, k, all[m - 1][p][k])]
      BY DEF FillsStep
    <3> HIDE DEF FillsStep
    <3> QED
      BY <3>1, <3>2
  <2>2. CASE m = 0
    BY <2>1, <2>2 DEF FillAt
  <2>3. CASE m # 0
    BY <2>1, <2>3
  <2> QED
    BY <2>2, <2>3
<1>4. Def(g)
  <2>1. g = [m \in Nat |-> g[m]]
    OBVIOUS
  <2> HIDE DEF g
  <2> QED
    BY <1>3, <2>1
<1>5. Def(after)
  <2> HIDE DEF Def
  <2>1. \E f : Def(f)
    BY <1>4
  <2> QED
    BY <2>1
<1>6. ASSUME NEW m \in Nat PROVE fill_pool(p, h, m) = [pool |-> after[m], ok |-> FilledFor(after[m], h)]
  BY DEF fill_pool, FillAt
<1> HIDE DEF after
<1> QED
  BY <1>5, <1>6

(* A deletion: the parameters of a call, and what it does at one node.      *)
Deleted(node, a, key, p, mallocs, below) ==
    LET none  == NothingDeleted(node, p, mallocs)
        i     == Position(node, a, key)
        found == a = "DELKEY" /\ HasAt(node, i, key)
        d     == below[IF found THEN "POPBACK" ELSE a][node.children[i]]
    IN  IF IsLeaf(node)
        THEN IF a = "DELKEY" /\ ~found THEN none
             ELSE [none EXCEPT !.node = Leaf(RemoveAt(node.items, i)), !.prev = node.items[i]]
        ELSE IF d.prev = NoItem THEN none
        ELSE DeletedBelow(node, i, found, d)

\* Whether a deletion finds its item in a node, how it goes on in a child, and
\* what it comes to with what came of that.
Finds(node, a, key) == a = "DELKEY" /\ HasAt(node, Position(node, a, key), key)

Goes(node, a, key)  == IF Finds(node, a, key) THEN "POPBACK" ELSE a

Below(node, a, key) == node.children[Position(node, a, key)]

AtNode(node, a, key, none, d) ==
    IF IsLeaf(node)
    THEN IF a = "DELKEY" /\ ~Finds(node, a, key) THEN none
         ELSE [none EXCEPT !.node = Leaf(RemoveAt(node.items, Position(node, a, key))),
                           !.prev = node.items[Position(node, a, key)]]
    ELSE IF d.prev = NoItem THEN none
    ELSE DeletedBelow(node, Position(node, a, key), Finds(node, a, key), d)

DeleteCall == [key : Key \cup {0}, p : Pool, mallocs : Nat]

DeleteStep(h, below) ==
    [q \in DeleteCall |-> [a \in DelAct |-> [node \in Tree[h] |->
        Deleted(node, a, q.key, q.p, q.mallocs, below[q])]]]

Deletions == INSTANCE Recursion WITH Step <- DeleteStep

(* node_delete, one node of it. *)
LEMMA NodeDeleteIs ==
    ASSUME NEW key \in Key \cup {0}, NEW p \in Pool, NEW mallocs \in Nat,
           NEW a \in DelAct, NEW high \in Nat, NEW tree \in Tree[high]
    PROVE  node_delete(high, tree, a, key, p, mallocs)
           = AtNode(tree, a, key, NothingDeleted(tree, p, mallocs),
                    node_delete(high - 1, Below(tree, a, key), Goes(tree, a, key), key, p, mallocs))
<1> DEFINE Body(h, b, node, f) == Deleted(node, b, key, p, mallocs, f[h - 1])
           Def(f) == f = [h \in Nat |-> [b \in DelAct |-> [node \in Tree[h] |-> Body(h, b, node, f)]]]
           q == [key |-> key, p |-> p, mallocs |-> mallocs]
           delete == CHOOSE f : Def(f)
<1>1. ASSUME NEW x, NEW y PROVE DeleteStep(0, x) = DeleteStep(0, y)
  <2>1. ASSUME NEW call \in DeleteCall, NEW b \in DelAct, NEW node \in Tree[0]
        PROVE  Deleted(node, b, call.key, call.p, call.mallocs, x[call]) = Deleted(node, b, call.key, call.p, call.mallocs, y[call])
    BY NoBranchAtZero DEF Deleted
  <2> QED
    BY <2>1 DEF DeleteStep
<1>2. PICK all : all = [h \in Nat |-> DeleteStep(h, all[h - 1])]
  BY <1>1, Deletions!Solvable
<1>3. Def([h \in Nat |-> all[h][q]])
  <2> DEFINE f == [h \in Nat |-> all[h][q]]
  <2>1. q \in DeleteCall /\ q.key = key /\ q.p = p /\ q.mallocs = mallocs
    BY DEF DeleteCall
  <2>2. ASSUME NEW h \in Nat PROVE f[h] = [b \in DelAct |-> [node \in Tree[h] |-> Body(h, b, node, f)]]
    <3> DEFINE Step(b, node) == Deleted(node, b, key, p, mallocs, all[h - 1][q])
    <3>1. all[h][q] = DeleteStep(h, all[h - 1])[q]
      BY <1>2
    <3>2. DeleteStep(h, all[h - 1])[q] = [b \in DelAct |-> [node \in Tree[h] |-> Step(b, node)]]
      BY <2>1 DEF DeleteStep
    <3>3. ASSUME NEW b \in DelAct, NEW node \in Tree[h] PROVE Step(b, node) = Body(h, b, node, f)
      <4>1. CASE h = 0
        BY <4>1, NoBranchAtZero DEF Deleted
      <4>2. CASE h # 0
        <5>1. f[h - 1] = all[h - 1][q]
          BY <4>2
        <5> QED
          BY <5>1
      <4> QED
        BY <4>1, <4>2
    <3> HIDE DEF Step, Body, f
    <3>4. [b \in DelAct |-> [node \in Tree[h] |-> Step(b, node)]]
          = [b \in DelAct |-> [node \in Tree[h] |-> Body(h, b, node, f)]]
      BY <3>3
    <3> QED
      BY <3>1, <3>2, <3>4 DEF f
  <2>3. f = [h \in Nat |-> f[h]]
    OBVIOUS
  <2> HIDE DEF f, Body
  <2>4. f = [h \in Nat |-> [b \in DelAct |-> [node \in Tree[h] |-> Body(h, b, node, f)]]]
    BY <2>2, <2>3
  <2> QED
    BY <2>4 DEF f
<1>4. Def(delete)
  <2>1. \E f : Def(f)
    BY <1>3
  <2> HIDE DEF Def
  <2> QED
    BY <2>1
<1>5. \A h, t, b : node_delete(h, t, b, key, p, mallocs) = delete[h][b][t]
  BY DEF node_delete, Deleted
<1> HIDE DEF delete
<1>6. node_delete(high, tree, a, key, p, mallocs) = delete[high][a][tree]
  BY <1>5
<1>7. delete[high][a][tree] = Deleted(tree, a, key, p, mallocs, delete[high - 1])
  <2> HIDE DEF Body
  <2>1. delete[high] = [b \in DelAct |-> [node \in Tree[high] |-> Body(high, b, node, delete)]]
    BY <1>4
  <2>2. delete[high][a][tree] = Body(high, a, tree, delete)
    BY <2>1
  <2> QED
    BY <2>2 DEF Body
<1> DEFINE d == node_delete(high - 1, Below(tree, a, key), Goes(tree, a, key), key, p, mallocs)
<1>8. d = delete[high - 1][Goes(tree, a, key)][Below(tree, a, key)]
  BY <1>5
<1> HIDE DEF Body, Def, d
<1>9. Deleted(tree, a, key, p, mallocs, delete[high - 1]) = AtNode(tree, a, key, NothingDeleted(tree, p, mallocs), d)
  BY <1>8 DEF Deleted, AtNode, Finds, Goes, Below
<1> QED
  BY <1>6, <1>7, <1>9 DEF d

Appended(node, item, below) ==
    IF IsLeaf(node) THEN Leaf(Append(node.items, item))
    ELSE [node EXCEPT !.children = ReplaceAt(@, Len(@), below[Last(@)])]

AppendStep(h, below) ==
    [item \in Item |-> [node \in Tree[h] |-> Appended(node, item, below[item])]]

Appends == INSTANCE Recursion WITH Step <- AppendStep

(* AppendToLastLeaf, one node of it. *)
LEMMA AppendToLastLeafIs ==
    ASSUME NEW item \in Item, NEW high \in Nat, NEW tree \in Tree[high],
           NEW last, last = AppendToLastLeaf(high - 1, Last(tree.children), item)
    PROVE  AppendToLastLeaf(high, tree, item) =
              IF IsLeaf(tree) THEN Leaf(Append(tree.items, item))
              ELSE [tree EXCEPT !.children = ReplaceAt(@, Len(@), last)]
<1> DEFINE Def(f) == f = [h \in Nat |-> [node \in Tree[h] |-> Appended(node, item, f[h - 1])]]
           append == CHOOSE f : Def(f)
<1>1. ASSUME NEW x, NEW y PROVE AppendStep(0, x) = AppendStep(0, y)
  <2>1. ASSUME NEW i \in Item, NEW node \in Tree[0]
        PROVE  Appended(node, i, x[i]) = Appended(node, i, y[i])
    BY NoBranchAtZero DEF Appended
  <2> QED
    BY <2>1 DEF AppendStep
<1>2. PICK all : all = [h \in Nat |-> AppendStep(h, all[h - 1])]
  BY <1>1, Appends!Solvable
<1>3. Def([h \in Nat |-> all[h][item]])
  <2> DEFINE f == [h \in Nat |-> all[h][item]]
  <2>1. ASSUME NEW h \in Nat PROVE f[h] = [node \in Tree[h] |-> Appended(node, item, f[h - 1])]
    <3>1. all[h][item] = AppendStep(h, all[h - 1])[item]
      BY <1>2
    <3>2. AppendStep(h, all[h - 1])[item] = [node \in Tree[h] |-> Appended(node, item, all[h - 1][item])]
      BY DEF AppendStep
    <3>3. ASSUME NEW node \in Tree[h] PROVE Appended(node, item, all[h - 1][item]) = Appended(node, item, f[h - 1])
      <4>1. CASE h = 0
        BY <4>1, NoBranchAtZero DEF Appended
      <4>2. CASE h # 0
        <5>1. f[h - 1] = all[h - 1][item]
          BY <4>2
        <5> QED
          BY <5>1
      <4> QED
        BY <4>1, <4>2
    <3> HIDE DEF f
    <3> QED
      BY <3>1, <3>2, <3>3 DEF f
  <2>2. f = [h \in Nat |-> f[h]]
    OBVIOUS
  <2> HIDE DEF f
  <2>3. f = [h \in Nat |-> [node \in Tree[h] |-> Appended(node, item, f[h - 1])]]
    BY <2>1, <2>2
  <2> QED
    BY <2>3 DEF f
<1>4. Def(append)
  <2>1. \E f : Def(f)
    BY <1>3
  <2> HIDE DEF Def
  <2> QED
    BY <2>1
<1>5. \A h, t : AppendToLastLeaf(h, t, item) = append[h][t]
  BY DEF AppendToLastLeaf, Appended, ReplaceAt, Last
<1> HIDE DEF append
<1>6. append[high][tree] = Appended(tree, item, append[high - 1])
  BY <1>4
<1>7. last = append[high - 1][Last(tree.children)]
  BY <1>5
<1> QED
  BY <1>5, <1>6, <1>7 DEF Appended

-----------------------------------------------------------------------------
(* Walks.                                                                    *)

WovenStep(n, before) ==
    [items \in Seq(Item) |-> [parts \in Seq(Seq(Item)) |->
        IF n = 0 THEN parts[1] ELSE before[items][parts] \o <<items[n]>> \o parts[n + 1]]]

Weaves == INSTANCE Recursion WITH Step <- WovenStep

(* The items woven with the parts solve their recursive definition. *)
LEMMA WovenFunction ==
    \E woven : \A items \in Seq(Item), parts \in Seq(Seq(Item)) :
        /\ Woven(items, parts) = woven[Len(items)][items][parts]
        /\ \A n \in Nat : woven[n][items][parts] =
              IF n = 0 THEN parts[1] ELSE woven[n - 1][items][parts] \o <<items[n]>> \o parts[n + 1]
<1>1. \A x, y : WovenStep(0, x) = WovenStep(0, y)
  BY DEF WovenStep
<1>2. PICK woven : woven = [n \in Nat |-> WovenStep(n, woven[n - 1])]
  BY <1>1, Weaves!Solvable
<1>3. SUFFICES ASSUME NEW items \in Seq(Item), NEW parts \in Seq(Seq(Item))
               PROVE  /\ Woven(items, parts) = woven[Len(items)][items][parts]
                      /\ \A n \in Nat : woven[n][items][parts] =
                            IF n = 0 THEN parts[1]
                            ELSE woven[n - 1][items][parts] \o <<items[n]>> \o parts[n + 1]
  BY <1>3
<1>4. ASSUME NEW n \in Nat
      PROVE  woven[n][items][parts] =
                IF n = 0 THEN parts[1] ELSE woven[n - 1][items][parts] \o <<items[n]>> \o parts[n + 1]
  <2>1. woven[n] = WovenStep(n, woven[n - 1])
    BY <1>2
  <2>2. WovenStep(n, woven[n - 1])[items][parts] =
           IF n = 0 THEN parts[1] ELSE woven[n - 1][items][parts] \o <<items[n]>> \o parts[n + 1]
    BY DEF WovenStep
  <2> QED
    BY <2>1, <2>2
<1> DEFINE Def(f) == f = [n \in Nat |-> IF n = 0 THEN parts[1] ELSE f[n - 1] \o <<items[n]>> \o parts[n + 1]]
           g == [n \in Nat |-> woven[n][items][parts]]
           t == CHOOSE f : Def(f)
<1>5. Def(g)
  BY <1>4
<1>6. Woven(items, parts) = t[Len(items)]
  BY DEF Woven
<1>7. Def(t)
  <2> HIDE DEF Def
  <2>1. \E f : Def(f)
    BY <1>5
  <2> QED
    BY <2>1
<1>8. \A n \in Nat : t[n] = woven[n][items][parts]
  <2> HIDE DEF t
  <2> DEFINE S == {n \in Nat : t[n] = woven[n][items][parts]}
  <2>1. 0 \in S
    BY <1>7, <1>4
  <2>2. ASSUME NEW n \in Nat, n \in S PROVE n + 1 \in S
    <3>1. t[n + 1] = t[n] \o <<items[n + 1]>> \o parts[(n + 1) + 1]
      <4>1. \A m \in Nat : t[m] = IF m = 0 THEN parts[1] ELSE t[m - 1] \o <<items[m]>> \o parts[m + 1]
        BY <1>7
      <4>2. n + 1 \in Nat /\ n + 1 # 0 /\ (n + 1) - 1 = n
        OBVIOUS
      <4>3. t[n + 1] = t[(n + 1) - 1] \o <<items[n + 1]>> \o parts[(n + 1) + 1]
        BY <4>1, <4>2
      <4> QED
        BY <4>2, <4>3
    <3>2. n + 1 \in Nat /\ n + 1 # 0 /\ (n + 1) - 1 = n
      OBVIOUS
    <3>3. woven[n + 1][items][parts] = woven[(n + 1) - 1][items][parts] \o <<items[n + 1]>> \o parts[(n + 1) + 1]
      BY <1>4, <3>2
    <3>4. woven[n + 1][items][parts] = woven[n][items][parts] \o <<items[n + 1]>> \o parts[(n + 1) + 1]
      BY <3>2, <3>3
    <3> QED
      BY <3>1, <3>2, <3>4, <2>2
  <2>3. \A n \in Nat : n \in S
    <3> HIDE DEF S
    <3> QED
      BY <2>1, <2>2, SetInduction
  <2> QED
    BY <2>3
<1>9. Len(items) \in Nat
  OBVIOUS
<1> HIDE DEF t
<1> QED
  BY <1>4, <1>6, <1>8, <1>9

(* Woven from no items. *)
LEMMA WovenFromNone ==
    ASSUME NEW w \in Seq(Item)
    PROVE  Woven(<<>>, <<w>>) = w
<1>1. PICK woven : \A items \in Seq(Item), parts \in Seq(Seq(Item)) :
        /\ Woven(items, parts) = woven[Len(items)][items][parts]
        /\ \A n \in Nat : woven[n][items][parts] =
              IF n = 0 THEN parts[1] ELSE woven[n - 1][items][parts] \o <<items[n]>> \o parts[n + 1]
  BY WovenFunction
<1>2. <<>> \in Seq(Item) /\ Len(<<>>) = 0 /\ <<w>> \in Seq(Seq(Item)) /\ <<w>>[1] = w
  OBVIOUS
<1> DEFINE none == <<>>
           one  == <<w>>
<1>3. none \in Seq(Item) /\ Len(none) = 0 /\ one \in Seq(Seq(Item)) /\ one[1] = w
  BY <1>2
<1> HIDE DEF none, one
<1>4. Woven(none, one) = woven[0][none][one]
  BY <1>1, <1>3
<1>5. woven[0][none][one] = one[1]
  <2>1. \A n \in Nat : woven[n][none][one] =
           IF n = 0 THEN one[1] ELSE woven[n - 1][none][one] \o <<none[n]>> \o one[n + 1]
    BY <1>1, <1>3
  <2> QED
    BY <2>1
<1> QED
  BY <1>3, <1>4, <1>5 DEF none, one

(* Woven from one item more. *)
LEMMA WovenWithAppended ==
    ASSUME NEW items \in Seq(Item), NEW parts \in Seq(Seq(Item)), Len(parts) = Len(items) + 1,
           NEW item \in Item, NEW part \in Seq(Item)
    PROVE  /\ Woven(items, parts) \in Seq(Item)
           /\ Woven(Append(items, item), Append(parts, part)) = Woven(items, parts) \o <<item>> \o part
<1>1. PICK woven : \A x \in Seq(Item), y \in Seq(Seq(Item)) :
        /\ Woven(x, y) = woven[Len(x)][x][y]
        /\ \A n \in Nat : woven[n][x][y] =
              IF n = 0 THEN y[1] ELSE woven[n - 1][x][y] \o <<x[n]>> \o y[n + 1]
  BY WovenFunction
<1> DEFINE more == Append(items, item)
           all  == Append(parts, part)
           last == Len(items) + 1
           S == {n \in Nat : n <= Len(items) =>
                    woven[n][items][parts] \in Seq(Item) /\ woven[n][more][all] = woven[n][items][parts]}
<1>2. /\ more \in Seq(Item) /\ Len(more) = last /\ more[last] = item
      /\ all \in Seq(Seq(Item)) /\ all[last + 1] = part
      /\ Len(items) \in Nat
      /\ \A n \in 1 .. Len(items) : more[n] = items[n] /\ items[n] \in Item
      /\ \A n \in 1 .. last : all[n] = parts[n] /\ parts[n] \in Seq(Item)
  OBVIOUS
<1> HIDE DEF more, all
<1>3. 0 \in S
  <2>1. woven[0][items][parts] = parts[1] /\ woven[0][more][all] = all[1]
    BY <1>1, <1>2
  <2>2. 1 \in 1 .. last
    BY <1>2
  <2>3. all[1] = parts[1] /\ parts[1] \in Seq(Item)
    BY <1>2, <2>2
  <2> QED
    BY <2>1, <2>3
<1>4. ASSUME NEW n \in Nat, n \in S PROVE n + 1 \in S
  <2>1. ASSUME n + 1 <= Len(items)
        PROVE  woven[n + 1][items][parts] \in Seq(Item) /\ woven[n + 1][more][all] = woven[n + 1][items][parts]
    <3> DEFINE len == Len(items)
    <3>0. len \in Nat /\ n + 1 <= len
      BY <2>1
    <3> HIDE DEF len, S, last
    <3>l. n + 1 \in Nat /\ n + 1 # 0 /\ (n + 1) - 1 = n /\ n <= len
      BY <3>0
    <3>1. n + 1 \in Nat /\ n + 1 # 0 /\ (n + 1) - 1 = n /\ n <= Len(items)
      BY <3>l DEF len
    <3> USE DEF S, last
    <3>2. woven[n + 1][items][parts] = woven[(n + 1) - 1][items][parts] \o <<items[n + 1]>> \o parts[(n + 1) + 1]
      BY <1>1, <3>1
    <3>3. woven[n + 1][more][all] = woven[(n + 1) - 1][more][all] \o <<more[n + 1]>> \o all[(n + 1) + 1]
      BY <1>1, <1>2, <3>1
    <3>4. n + 1 \in 1 .. Len(items) /\ (n + 1) + 1 \in 1 .. last
      BY <2>1, <1>2
    <3>5. more[n + 1] = items[n + 1] /\ items[n + 1] \in Item
          /\ all[(n + 1) + 1] = parts[(n + 1) + 1] /\ parts[(n + 1) + 1] \in Seq(Item)
      BY <1>2, <3>4
    <3>6. woven[n][items][parts] \in Seq(Item) /\ woven[n][more][all] = woven[n][items][parts]
      BY <1>4, <3>1
    <3>7. woven[n][items][parts] \o <<items[n + 1]>> \o parts[(n + 1) + 1] \in Seq(Item)
      BY <3>5, <3>6
    <3> QED
      BY <3>1, <3>2, <3>3, <3>5, <3>6, <3>7
  <2>2. n + 1 \in Nat
    OBVIOUS
  <2> QED
    BY <2>1, <2>2
<1>5. Len(items) \in S
  <2> HIDE DEF S
  <2> QED
    BY <1>3, <1>4, <1>2, SetInduction
<1>6. woven[Len(items)][items][parts] \in Seq(Item)
      /\ woven[Len(items)][more][all] = woven[Len(items)][items][parts]
  BY <1>5, <1>2
<1>7. woven[last][more][all] = woven[last - 1][more][all] \o <<more[last]>> \o all[last + 1]
  <2>1. last \in Nat /\ last # 0
    BY <1>2
  <2> HIDE DEF last
  <2> QED
    BY <1>1, <1>2, <2>1
<1>8. Woven(items, parts) = woven[Len(items)][items][parts] /\ Woven(more, all) = woven[last][more][all]
  BY <1>1, <1>2
<1>9. last - 1 = Len(items)
  BY <1>2
<1> HIDE DEF last
<1> QED
  BY <1>2, <1>6, <1>7, <1>8, <1>9 DEF more, all

(* Sequences taken apart and put together.                                   *)

(* Concatenation is associative. *)
LEMMA ConcatAssoc ==
    ASSUME NEW T, NEW r \in Seq(T), NEW s \in Seq(T), NEW t \in Seq(T)
    PROVE  (r \o s) \o t = r \o (s \o t)

OBVIOUS

(* And has the empty sequence on either side. *)
LEMMA ConcatWithNone ==
    ASSUME NEW T, NEW s \in Seq(T)
    PROVE  s \o <<>> = s /\ <<>> \o s = s

BY ConcatEmptySeq

(* The sequence around its element i. *)
LEMMA Around ==
    ASSUME NEW T, NEW s \in Seq(T), NEW i \in 1 .. Len(s)
    PROVE  /\ SubSeq(s, 1, i - 1) \in Seq(T) /\ SubSeq(s, i + 1, Len(s)) \in Seq(T)
           /\ s = (SubSeq(s, 1, i - 1) \o <<s[i]>>) \o SubSeq(s, i + 1, Len(s))
           /\ Len(SubSeq(s, 1, i - 1)) = i - 1 /\ Len(SubSeq(s, i + 1, Len(s))) = Len(s) - i
<1> DEFINE before == SubSeq(s, 1, i - 1)
           after  == SubSeq(s, i + 1, Len(s))
<1>1. before \in Seq(T) /\ Len(before) = i - 1 /\ \A j \in 1 .. i - 1 : before[j] = s[j]
  OBVIOUS
<1>2. after \in Seq(T) /\ Len(after) = Len(s) - i /\ \A j \in 1 .. Len(s) - i : after[j] = s[j + i]
  OBVIOUS
<1>3. s = (before \o <<s[i]>>) \o after
  <2> HIDE DEF before, after
  <2> DEFINE upto == before \o <<s[i]>>
             r == upto \o after
  <2>1. s[i] \in T
    OBVIOUS
  <2>a. upto \in Seq(T) /\ Len(upto) = i /\ upto[i] = s[i] /\ \A j \in 1 .. i - 1 : upto[j] = s[j]
    BY <1>1, <2>1
  <2> HIDE DEF upto
  <2>2. r \in Seq(T) /\ Len(r) = Len(s)
    <3>1. r \in Seq(T) /\ Len(r) = Len(upto) + Len(after)
      BY <1>2, <2>a, ConcatProperties
    <3> HIDE DEF r
    <3> QED
      BY <1>2, <2>a, <3>1
  <2>b. \A j \in 1 .. Len(s) : r[j] = IF j <= i THEN upto[j] ELSE after[j - i]
    <3>1. \A j \in 1 .. Len(upto) + Len(after) : r[j] = IF j <= Len(upto) THEN upto[j] ELSE after[j - Len(upto)]
      BY <1>2, <2>a, ConcatProperties
    <3> HIDE DEF r
    <3> QED
      BY <1>2, <2>a, <3>1
  <2> HIDE DEF r
  <2>3. ASSUME NEW j \in 1 .. Len(s) PROVE r[j] = s[j]
    <3>1. CASE j < i
      <4>1. r[j] = upto[j] /\ j \in 1 .. i - 1
        BY <3>1, <2>b
      <4> QED
        BY <4>1, <2>a
    <3>2. CASE j = i
      <4>1. r[j] = upto[j]
        BY <3>2, <2>b
      <4> QED
        BY <4>1, <3>2, <2>a
    <3>3. CASE j > i
      <4>1. j - i \in 1 .. Len(s) - i /\ (j - i) + i = j
        BY <3>3
      <4>2. r[j] = after[j - i]
        BY <3>3, <2>b
      <4>3. after[j - i] = s[(j - i) + i]
        BY <4>1, <1>2
      <4> QED
        BY <4>1, <4>2, <4>3
    <3> QED
      BY <3>1, <3>2, <3>3
  <2>4. s = r
    BY <2>2, <2>3, SeqEqual
  <2> QED
    BY <2>4 DEF r, upto
<1> QED
  BY <1>1, <1>2, <1>3

(* The sequence before and from its place i. *)
LEMMA CutAt ==
    ASSUME NEW T, NEW s \in Seq(T), NEW i \in 1 .. Len(s) + 1
    PROVE  /\ s = SubSeq(s, 1, i - 1) \o SubSeq(s, i, Len(s))
           /\ SubSeq(s, 1, i - 1) \in Seq(T) /\ SubSeq(s, i, Len(s)) \in Seq(T)
           /\ Len(SubSeq(s, 1, i - 1)) = i - 1 /\ Len(SubSeq(s, i, Len(s))) = Len(s) + 1 - i
<1> DEFINE before == SubSeq(s, 1, i - 1)
           after  == SubSeq(s, i, Len(s))
<1>1. before \in Seq(T) /\ Len(before) = i - 1 /\ \A j \in 1 .. i - 1 : before[j] = s[j]
  OBVIOUS
<1>2. after \in Seq(T) /\ Len(after) = Len(s) + 1 - i /\ \A j \in 1 .. Len(s) + 1 - i : after[j] = s[j + i - 1]
  OBVIOUS
<1>3. s = before \o after
  <2> HIDE DEF before, after
  <2> DEFINE r == before \o after
  <2>1. r \in Seq(T) /\ Len(r) = Len(s)
    BY <1>1, <1>2
  <2>b. \A j \in 1 .. Len(s) : r[j] = IF j <= i - 1 THEN before[j] ELSE after[j - (i - 1)]
    <3>1. \A j \in 1 .. Len(before) + Len(after) :
             r[j] = IF j <= Len(before) THEN before[j] ELSE after[j - Len(before)]
      BY <1>1, <1>2, ConcatProperties
    <3> HIDE DEF r
    <3> QED
      BY <1>1, <1>2, <3>1
  <2> HIDE DEF r
  <2>2. ASSUME NEW j \in 1 .. Len(s) PROVE r[j] = s[j]
    <3>1. CASE j < i
      <4>1. j \in 1 .. i - 1 /\ r[j] = before[j]
        BY <3>1, <2>b
      <4> QED
        BY <4>1, <1>1
    <3>2. CASE j >= i
      <4>1. j - i + 1 \in 1 .. Len(s) + 1 - i /\ (j - i + 1) + i - 1 = j /\ j - (i - 1) = j - i + 1
        BY <3>2
      <4>2. r[j] = after[j - i + 1]
        BY <3>2, <4>1, <2>b
      <4>3. after[j - i + 1] = s[(j - i + 1) + i - 1]
        BY <4>1, <1>2
      <4> QED
        BY <4>1, <4>2, <4>3
    <3> QED
      BY <3>1, <3>2
  <2>3. s = r
    BY <2>1, <2>2, SeqEqual
  <2> QED
    BY <2>3 DEF r
<1> QED
  BY <1>1, <1>2, <1>3

(* The elements of one sequence behind another. *)
LEMMA ConcatElements ==
    ASSUME NEW T, NEW a \in Seq(T), NEW b \in Seq(T)
    PROVE  /\ a \o b \in Seq(T) /\ Len(a \o b) = Len(a) + Len(b)
           /\ \A j \in 1 .. Len(a) + Len(b) : (a \o b)[j] = IF j <= Len(a) THEN a[j] ELSE b[j - Len(a)]
  BY ConcatProperties, Zenon

(* Two sequences of a length, cut in the same places. *)
LEMMA SameCut ==
    ASSUME NEW T, NEW a \in Seq(T), NEW b \in Seq(T), NEW c \in Seq(T), NEW d \in Seq(T),
           a \o b = c \o d, Len(a) = Len(c)
    PROVE  a = c /\ b = d
<1>1. Len(b) = Len(d)
  <2>1. Len(a \o b) = Len(a) + Len(b) /\ Len(c \o d) = Len(c) + Len(d)
    BY ConcatElements, Zenon
  <2> QED
    BY <2>1
<1>6. /\ \A j \in 1 .. Len(a) + Len(b) : (a \o b)[j] = IF j <= Len(a) THEN a[j] ELSE b[j - Len(a)]
      /\ \A j \in 1 .. Len(c) + Len(d) : (c \o d)[j] = IF j <= Len(c) THEN c[j] ELSE d[j - Len(c)]
  BY ConcatElements, Zenon
<1>2. ASSUME NEW i \in 1 .. Len(a) PROVE a[i] = c[i]
  <2>1. (a \o b)[i] = a[i] /\ (c \o d)[i] = c[i]
    BY <1>1, <1>6
  <2> QED
    BY <2>1
<1>3. ASSUME NEW i \in 1 .. Len(b) PROVE b[i] = d[i]
  <2>1. i + Len(a) \in 1 .. Len(a) + Len(b) /\ (i + Len(a)) - Len(a) = i /\ ~(i + Len(a) <= Len(a))
    OBVIOUS
  <2>2. (a \o b)[i + Len(a)] = b[i] /\ (c \o d)[i + Len(a)] = d[i]
    BY <1>1, <1>6, <2>1
  <2> QED
    BY <2>2
<1>4. a = c
  BY <1>2, SeqEqual
<1>5. b = d
  BY <1>1, <1>3, SeqEqual
<1> QED
  BY <1>4, <1>5

(* One element put in, replaced and taken out. *)
LEMMA InsertAtCut ==
    ASSUME NEW T, NEW a \in Seq(T), NEW b \in Seq(T), NEW x \in T, NEW i, i = Len(a) + 1
    PROVE  InsertAt(a \o b, i, x) = (a \o <<x>>) \o b
<1> DEFINE s == a \o b
<1>1. s \in Seq(T) /\ Len(s) = Len(a) + Len(b) /\ i \in 1 .. Len(s) + 1
  OBVIOUS
<1>2. SubSeq(s, 1, i - 1) = a /\ SubSeq(s, i, Len(s)) = b
  <2>1. /\ s = SubSeq(s, 1, i - 1) \o SubSeq(s, i, Len(s))
        /\ SubSeq(s, 1, i - 1) \in Seq(T) /\ SubSeq(s, i, Len(s)) \in Seq(T)
        /\ Len(SubSeq(s, 1, i - 1)) = i - 1
    <3> HIDE DEF s
    <3> QED
      BY <1>1, CutAt
  <2> QED
    BY <1>1, <2>1, SameCut
<1> QED
  BY <1>2 DEF InsertAt

(* A sequence cut at a place is that sequence. *)
LEMMA CutConcat ==
    ASSUME NEW T, NEW a \in Seq(T), NEW b \in Seq(T)
    PROVE  SubSeq(a \o b, 1, Len(a)) = a /\ SubSeq(a \o b, Len(a) + 1, Len(a \o b)) = b
<1> DEFINE s == a \o b
           i == Len(a) + 1
<1>1. s \in Seq(T) /\ Len(s) = Len(a) + Len(b) /\ i \in 1 .. Len(s) + 1 /\ i - 1 = Len(a)
  OBVIOUS
<1>2. SubSeq(s, 1, i - 1) = a /\ SubSeq(s, i, Len(s)) = b
  <2>1. /\ s = SubSeq(s, 1, i - 1) \o SubSeq(s, i, Len(s))
        /\ SubSeq(s, 1, i - 1) \in Seq(T) /\ SubSeq(s, i, Len(s)) \in Seq(T)
        /\ Len(SubSeq(s, 1, i - 1)) = i - 1
    <3> HIDE DEF s, i
    <3> QED
      BY <1>1, CutAt
  <2>2. Len(SubSeq(s, 1, i - 1)) = Len(a)
    BY <1>1, <2>1
  <2> HIDE DEF i
  <2> QED
    BY <2>1, <2>2, SameCut
<1> QED
  BY <1>1, <1>2

-----------------------------------------------------------------------------
(* Trees by their sizes.                                                     *)

(* How few items a node may have, against how many. *)
LEMMA MinItemsBound ==
    /\ MinItems \in Nat /\ MinItems >= 1 /\ 2 * MinItems <= MaxItems - 2
    /\ MaxItems \in Nat /\ MaxItems >= 4
    /\ (MaxItems - 1) \div 2 \in Nat /\ 2 * ((MaxItems - 1) \div 2) = MaxItems - 2
<1>1. MaxItems \in Nat /\ MaxItems >= 4 /\ MaxItems % 2 = 0
  BY TreeAssumption
<1>2. MinItems = (MaxItems * 40) \div 100
  BY DEF MinItems
<1>3. MinItems \in Nat /\ MinItems >= 1 /\ 100 * MinItems <= 40 * MaxItems
  BY <1>1, <1>2
<1>4. 2 * MinItems <= MaxItems - 2
  BY <1>1, <1>3
<1>5. (MaxItems - 1) \div 2 \in Nat /\ 2 * ((MaxItems - 1) \div 2) = MaxItems - 2
  BY <1>1
<1> QED
  BY <1>1, <1>3, <1>4, <1>5

\* A node from its parts.
Branch(items, children) == [items |-> items, children |-> children]

(* The parts of a tree that is not empty. *)
LEMMA TreeParts ==
    ASSUME NEW h \in Nat, h >= 1, NEW node \in Tree[h]
    PROVE  /\ node.items \in Seq(Item) /\ node.children \in Seq(Tree[h - 1])
           /\ node = Branch(node.items, node.children)
           /\ IsLeaf(node) <=> h = 1
           /\ IF h = 1 THEN node.children = <<>> ELSE Len(node.children) = Len(node.items) + 1
           /\ h - 1 \in Nat
<1>1. node \in TreeStep(h, Tree[h - 1]) /\ h # 0
  BY TreeIs
<1>2. CASE h = 1
  <2>1. node \in [items : Seq(Item), children : {<<>>}]
    BY <1>1, <1>2 DEF TreeStep
  <2>2. <<>> \in Seq(Tree[h - 1])
    OBVIOUS
  <2>3. node.items \in Seq(Item) /\ node.children = <<>>
    BY <2>1
  <2>4. node = Branch(node.items, node.children)
    BY <2>1 DEF Branch
  <2> QED
    BY <1>2, <2>2, <2>3, <2>4 DEF IsLeaf
<1>3. CASE h # 1
  <2>1. node \in [items : Seq(Item), children : Seq(Tree[h - 1])] /\ Len(node.children) = Len(node.items) + 1
    BY <1>1, <1>3 DEF TreeStep
  <2>2. Len(node.items) \in Nat
    BY <2>1
  <2>3. node.children # <<>>
    BY <2>1, <2>2
  <2> QED
    BY <1>3, <2>1, <2>3 DEF IsLeaf, Branch
<1> QED
  BY <1>2, <1>3

(* A tree from its parts. *)
LEMMA TreeMade ==
    ASSUME NEW h \in Nat, h >= 1, NEW items \in Seq(Item), NEW children \in Seq(Tree[h - 1]),
           IF h = 1 THEN children = <<>> ELSE Len(children) = Len(items) + 1
    PROVE  Branch(items, children) \in Tree[h]
<1>1. Tree[h] = TreeStep(h, Tree[h - 1])
  BY TreeIs
<1>2. CASE h = 1
  <2>1. TreeStep(h, Tree[h - 1]) = [items : Seq(Item), children : {<<>>}]
    BY <1>2 DEF TreeStep
  <2>2. Branch(items, children) \in [items : Seq(Item), children : {<<>>}]
    BY <1>2 DEF Branch
  <2> QED
    BY <1>1, <2>1, <2>2
<1>3. CASE h # 1
  <2>1. Branch(items, children) \in [items : Seq(Item), children : Seq(Tree[h - 1])]
        /\ Len(Branch(items, children).children) = Len(Branch(items, children).items) + 1
    BY <1>3 DEF Branch
  <2> QED
    BY <1>1, <1>3, <2>1 DEF TreeStep
<1> QED
  BY <1>2, <1>3

(* The trees of height h below a root, as they are between calls. *)
SubStep(h, below) ==
    {node \in Tree[h] : /\ h > 0
                        /\ Len(node.items) \in MinItems .. MaxItems - 2
                        /\ node.children \in Seq(below)}

Subs == INSTANCE Recursion WITH Step <- SubStep

Sub == CHOOSE f : f = [h \in Nat |-> SubStep(h, f[h - 1])]

(* What a subtree is. *)
LEMMA SubIs == \A h \in Nat : Sub[h] = SubStep(h, Sub[h - 1])
<1> DEFINE Def(f) == f = [h \in Nat |-> SubStep(h, f[h - 1])]
<1>1. \A x, y : SubStep(0, x) = SubStep(0, y)
  BY DEF SubStep
<1>2. \E f : Def(f)
  BY <1>1, Subs!Solvable
<1>3. Sub = CHOOSE f : Def(f)
  BY DEF Sub
<1>4. Def(Sub)
  BY <1>2, <1>3
<1> QED
  BY <1>4

(* A tree whose root has so many items, over children as they should be. *)
Good(h, lo, hi) ==
    {node \in Tree[h] : Len(node.items) \in lo .. hi /\ node.children \in Seq(Sub[h - 1])}

(* A subtree is a sound tree whose root, too, has min_items items at least. *)
LEMMA SubIsGood ==
    ASSUME NEW h \in Nat
    PROVE  /\ Sub[h] \subseteq Tree[h]
           /\ h >= 1 => Sub[h] = Good(h, MinItems, MaxItems - 2)
           /\ h = 0 => Sub[h] = {}

BY SubIs DEF SubStep, Good

(* Subtrees are trees. *)
LEMMA SeqOfSub ==
    ASSUME NEW h \in Nat, NEW s \in Seq(Sub[h])
    PROVE  s \in Seq(Tree[h])

BY SubIsGood

(* The parts of such a tree. *)
LEMMA GoodParts ==
    ASSUME NEW h \in Nat, h >= 1, NEW lo \in Int, NEW hi \in Int, NEW node \in Good(h, lo, hi)
    PROVE  /\ node \in Tree[h] /\ Len(node.items) \in lo .. hi /\ Len(node.items) \in Nat
           /\ node.items \in Seq(Item) /\ node.children \in Seq(Sub[h - 1])
           /\ node.children \in Seq(Tree[h - 1])
           /\ node = Branch(node.items, node.children)
           /\ IsLeaf(node) <=> h = 1
           /\ IF h = 1 THEN node.children = <<>> ELSE Len(node.children) = Len(node.items) + 1
           /\ h - 1 \in Nat
<1>1. node \in Tree[h] /\ Len(node.items) \in lo .. hi /\ node.children \in Seq(Sub[h - 1])
  BY DEF Good
<1> QED
  BY <1>1, TreeParts

(* And such a tree from its parts. *)
LEMMA GoodMade ==
    ASSUME NEW h \in Nat, h >= 1, NEW lo \in Int, NEW hi \in Int,
           NEW items \in Seq(Item), NEW children \in Seq(Sub[h - 1]), Len(items) \in lo .. hi,
           IF h = 1 THEN children = <<>> ELSE Len(children) = Len(items) + 1
    PROVE  /\ Branch(items, children) \in Good(h, lo, hi)
           /\ Branch(items, children).items = items /\ Branch(items, children).children = children
<1>1. h - 1 \in Nat
  OBVIOUS
<1>2. children \in Seq(Tree[h - 1])
  BY <1>1, SeqOfSub
<1>3. Branch(items, children) \in Tree[h]
  BY <1>2, TreeMade
<1> QED
  BY <1>3 DEF Good, Branch

(* The bounds may be wider. *)
LEMMA GoodWithin ==
    ASSUME NEW h, NEW lo \in Int, NEW hi \in Int, NEW a \in Int, NEW b \in Int,
           lo <= a, b <= hi
    PROVE  Good(h, a, b) \subseteq Good(h, lo, hi)

BY DEF Good

-----------------------------------------------------------------------------
(* Nodes counted.                                                            *)

\* The two kinds of node, and the one a tree of some height has at its root.
Kinds == {"leaves", "branches"}

KindAt(h) == IF h = 1 THEN "leaves" ELSE "branches"

Own(h, kind) == IF KindAt(h) = kind THEN 1 ELSE 0

NodesIn(h, node, kind) == NodesOf[h][node][kind]

\* The nodes of some trees of height h.
NodesInAll(h, trees, kind) == Total([i \in DOMAIN trees |-> NodesIn(h, trees[i], kind)])

(* The nodes of a tree are its root and those of its children. *)
LEMMA NodesInTree ==
    ASSUME NEW h \in Nat, h >= 1, NEW node \in Tree[h], NEW kind \in Kinds
    PROVE  NodesIn(h, node, kind) = Own(h, kind) + NodesInAll(h - 1, node.children, kind)
<1>1. NodesOf[h][node] = NodesOfAt(h, node, NodesOf[h - 1])
  BY NodesOfIs
<1>2. NodesIn(h, node, kind) =
         (IF Kind(node) = kind THEN 1 ELSE 0)
         + Total([i \in DOMAIN node.children |-> NodesOf[h - 1][node.children[i]][kind]])
  BY <1>1 DEF NodesIn, NodesOfAt, Kinds
<1>3. Kind(node) = KindAt(h)
  BY TreeParts DEF Kind, KindAt
<1> QED
  BY <1>2, <1>3 DEF Own, NodesInAll, NodesIn

(* A tree has a number of nodes, and so have some. *)
LEMMA NodesInNat ==
    ASSUME NEW h \in Nat, NEW kind \in Kinds
    PROVE  /\ \A node \in Tree[h] : NodesIn(h, node, kind) \in Nat
           /\ \A trees \in Seq(Tree[h]) :
                 /\ [i \in DOMAIN trees |-> NodesIn(h, trees[i], kind)] \in Seq(Nat)
                 /\ NodesInAll(h, trees, kind) \in Nat
<1> DEFINE S == {k \in Nat : \A node \in Tree[k] : NodesIn(k, node, kind) \in Nat}
<1>1. ASSUME NEW k \in Nat, k \in S, NEW trees \in Seq(Tree[k])
      PROVE  /\ [i \in DOMAIN trees |-> NodesIn(k, trees[i], kind)] \in Seq(Nat)
             /\ NodesInAll(k, trees, kind) \in Nat
  <2> DEFINE counts == [i \in DOMAIN trees |-> NodesIn(k, trees[i], kind)]
  <2>1. counts \in Seq(Nat)
    <3>1. DOMAIN trees = 1 .. Len(trees) /\ Len(trees) \in Nat
      OBVIOUS
    <3>2. ASSUME NEW i \in DOMAIN trees PROVE NodesIn(k, trees[i], kind) \in Nat
      BY <1>1
    <3> QED
      BY <3>1, <3>2
  <2>2. Total(counts) \in Nat
    <3> HIDE DEF counts
    <3> QED
      BY <2>1, TotalOfAppend
  <2> QED
    BY <2>1, <2>2 DEF NodesInAll
<1>2. 0 \in S
  <2>1. ASSUME NEW node \in Tree[0] PROVE NodesIn(0, node, kind) \in Nat
    <3>1. NodesOf[0][node] = NodesOfAt(0, node, NodesOf[0 - 1])
      BY NodesOfIs
    <3>2. NodesOfAt(0, node, NodesOf[0 - 1])[kind] = 0
      BY DEF NodesOfAt, Kinds
    <3> QED
      BY <3>1, <3>2 DEF NodesIn
  <2> QED
    BY <2>1
<1>3. ASSUME NEW k \in Nat, k \in S PROVE k + 1 \in S
  <2>1. ASSUME NEW node \in Tree[k + 1] PROVE NodesIn(k + 1, node, kind) \in Nat
    <3>1. k + 1 \in Nat /\ k + 1 >= 1 /\ (k + 1) - 1 = k
      OBVIOUS
    <3>2. node.children \in Seq(Tree[k])
      BY <3>1, TreeParts
    <3>3. NodesInAll(k, node.children, kind) \in Nat
      BY <1>1, <1>3, <3>2
    <3>4. NodesIn(k + 1, node, kind) = Own(k + 1, kind) + NodesInAll(k, node.children, kind)
      BY <3>1, NodesInTree
    <3> QED
      BY <3>3, <3>4 DEF Own
  <2> QED
    BY <2>1
<1>4. h \in S
  <2> HIDE DEF S
  <2> QED
    BY <1>2, <1>3, SetInduction
<1>5. \A node \in Tree[h] : NodesIn(h, node, kind) \in Nat
  BY <1>4
<1> QED
  BY <1>1, <1>4, <1>5

(* No trees have no nodes. *)
LEMMA NodesInNone ==
    ASSUME NEW h, NEW kind PROVE NodesInAll(h, <<>>, kind) = 0
<1>1. [i \in DOMAIN <<>> |-> NodesIn(h, <<>>[i], kind)] = <<>>
  OBVIOUS
<1> QED
  BY <1>1, TotalOfNone DEF NodesInAll

(* One tree has its own. *)
LEMMA NodesInOne ==
    ASSUME NEW h \in Nat, NEW node \in Tree[h], NEW kind \in Kinds
    PROVE  NodesInAll(h, <<node>>, kind) = NodesIn(h, node, kind)
<1>1. [i \in DOMAIN <<node>> |-> NodesIn(h, <<node>>[i], kind)] = <<NodesIn(h, node, kind)>>
  OBVIOUS
<1>2. NodesIn(h, node, kind) \in Nat
  BY NodesInNat
<1> QED
  BY <1>1, <1>2, TotalOfOne DEF NodesInAll

(* Two lists of trees have as many as both. *)
LEMMA NodesInConcat ==
    ASSUME NEW h \in Nat, NEW s \in Seq(Tree[h]), NEW t \in Seq(Tree[h]), NEW kind \in Kinds
    PROVE  NodesInAll(h, s \o t, kind) = NodesInAll(h, s, kind) + NodesInAll(h, t, kind)
<1> DEFINE N(r) == [i \in DOMAIN r |-> NodesIn(h, r[i], kind)]
<1>1. N(s) \in Seq(Nat) /\ N(t) \in Seq(Nat) /\ N(s \o t) \in Seq(Nat)
  <2>1. s \o t \in Seq(Tree[h])
    OBVIOUS
  <2> QED
    BY <2>1, NodesInNat
<1>2. N(s \o t) = N(s) \o N(t)
  <2>1. Len(N(s)) = Len(s) /\ Len(N(t)) = Len(t) /\ Len(N(s \o t)) = Len(s) + Len(t)
        /\ DOMAIN s = 1 .. Len(s) /\ DOMAIN t = 1 .. Len(t) /\ DOMAIN (s \o t) = 1 .. Len(s) + Len(t)
    OBVIOUS
  <2>2. Len(N(s) \o N(t)) = Len(s) + Len(t) /\ N(s) \o N(t) \in Seq(Nat)
    BY <1>1, <2>1
  <2>3. ASSUME NEW i \in 1 .. Len(s) + Len(t) PROVE N(s \o t)[i] = (N(s) \o N(t))[i]
    <3>1. N(s \o t)[i] = NodesIn(h, (s \o t)[i], kind)
      BY <2>1
    <3>2. CASE i <= Len(s)
      <4>1. (s \o t)[i] = s[i] /\ N(s)[i] = NodesIn(h, s[i], kind)
        BY <3>2, <2>1
      <4>2. (N(s) \o N(t))[i] = N(s)[i]
        <5> HIDE DEF N
        <5> QED
          BY <3>2, <2>1, <1>1
      <4> QED
        BY <3>1, <4>1, <4>2
    <3>3. CASE i > Len(s)
      <4>1. i - Len(s) \in 1 .. Len(t)
        BY <3>3
      <4>2. (s \o t)[i] = t[i - Len(s)] /\ N(t)[i - Len(s)] = NodesIn(h, t[i - Len(s)], kind)
        BY <3>3, <4>1, <2>1
      <4>3. (N(s) \o N(t))[i] = N(t)[i - Len(s)]
        <5> HIDE DEF N
        <5>1. (N(s) \o N(t))[i] = IF i <= Len(N(s)) THEN N(s)[i] ELSE N(t)[i - Len(N(s))]
          BY <2>1, <1>1, ConcatProperties
        <5> QED
          BY <3>3, <2>1, <5>1
      <4> QED
        BY <3>1, <4>2, <4>3
    <3> QED
      BY <3>2, <3>3
  <2> HIDE DEF N
  <2> QED
    BY <1>1, <2>1, <2>2, <2>3, SeqEqual
<1>3. Total(N(s) \o N(t)) = Total(N(s)) + Total(N(t))
  <2> HIDE DEF N
  <2> QED
    BY <1>1, TotalOfConcat
<1> QED
  BY <1>2, <1>3 DEF NodesInAll

-----------------------------------------------------------------------------
(* Nodes split and joined.                                                   *)

\* Two nodes with an item between them, as one.
Joined(left, item, right) ==
    Branch((left.items \o <<item>>) \o right.items, left.children \o right.children)

(* The nodes of a tree around a child. *)
LEMMA NodesAround ==
    ASSUME NEW h \in Nat, NEW A \in Seq(Tree[h]), NEW B \in Seq(Tree[h]), NEW C \in Seq(Tree[h]),
           NEW kind \in Kinds
    PROVE  /\ (A \o C) \o B \in Seq(Tree[h])
           /\ NodesInAll(h, (A \o C) \o B, kind) =
                 NodesInAll(h, A, kind) + NodesInAll(h, C, kind) + NodesInAll(h, B, kind)
           /\ NodesInAll(h, A, kind) \in Nat /\ NodesInAll(h, B, kind) \in Nat /\ NodesInAll(h, C, kind) \in Nat
<1>1. A \o C \in Seq(Tree[h]) /\ (A \o C) \o B \in Seq(Tree[h])
  OBVIOUS
<1>2. NodesInAll(h, (A \o C) \o B, kind) = NodesInAll(h, A \o C, kind) + NodesInAll(h, B, kind)
  BY <1>1, NodesInConcat
<1>3. NodesInAll(h, A \o C, kind) = NodesInAll(h, A, kind) + NodesInAll(h, C, kind)
  BY NodesInConcat
<1> QED
  BY <1>1, <1>2, <1>3, NodesInNat

(* Two trees joined. *)
LEMMA JoinedTree ==
    ASSUME NEW h \in Nat, h >= 1, NEW l \in Tree[h], NEW r \in Tree[h], NEW item \in Item
    PROVE  /\ Joined(l, item, r) \in Tree[h]
           /\ Len(Joined(l, item, r).items) = Len(l.items) + 1 + Len(r.items)
           /\ Joined(l, item, r).items \in Seq(Item)
           /\ Joined(l, item, r).children = l.children \o r.children
           /\ \A kind \in Kinds :
                 NodesIn(h, l, kind) + NodesIn(h, r, kind) = NodesIn(h, Joined(l, item, r), kind) + Own(h, kind)
<1> DEFINE items == (l.items \o <<item>>) \o r.items
           children == l.children \o r.children
<1>1. /\ l.items \in Seq(Item) /\ r.items \in Seq(Item)
      /\ l.children \in Seq(Tree[h - 1]) /\ r.children \in Seq(Tree[h - 1]) /\ h - 1 \in Nat
  BY TreeParts
<1>2. items \in Seq(Item) /\ Len(items) = Len(l.items) + 1 + Len(r.items)
  <2>1. l.items \o <<item>> \in Seq(Item) /\ Len(l.items \o <<item>>) = Len(l.items) + 1
    BY <1>1
  <2> QED
    BY <1>1, <2>1, ConcatProperties
<1>3. children \in Seq(Tree[h - 1]) /\ Len(children) = Len(l.children) + Len(r.children)
  BY <1>1, ConcatProperties
<1>4. IF h = 1 THEN children = <<>> ELSE Len(children) = Len(items) + 1
  <2>1. CASE h = 1
    BY <2>1, TreeParts
  <2>2. CASE h # 1
    <3>1. Len(l.children) = Len(l.items) + 1 /\ Len(r.children) = Len(r.items) + 1
      BY <2>2, TreeParts
    <3>2. Len(l.items) \in Nat /\ Len(r.items) \in Nat
      BY <1>1
    <3>3. Len(items) = Len(l.items) + 1 + Len(r.items) /\ Len(children) = Len(l.children) + Len(r.children)
      BY <1>2, <1>3
    <3>4. Len(children) = Len(items) + 1
      <4> HIDE DEF items, children
      <4>1. Len(children) = (Len(l.items) + 1) + (Len(r.items) + 1)
        BY <3>1, <3>3
      <4>2. Len(items) = Len(l.items) + 1 + Len(r.items)
        BY <3>3
      <4>3. \A a, b \in Nat : (a + 1) + (b + 1) = (a + 1 + b) + 1
        OBVIOUS
      <4>4. (Len(l.items) + 1) + (Len(r.items) + 1) = (Len(l.items) + 1 + Len(r.items)) + 1
        BY <3>2, <4>3
      <4> QED
        BY <4>1, <4>2, <4>4
    <3> HIDE DEF items, children
    <3> QED
      BY <2>2, <3>4
  <2> QED
    BY <2>1, <2>2
<1>5. Joined(l, item, r) = Branch(items, children)
  BY DEF Joined
<1> HIDE DEF items
<1>6. Branch(items, children) \in Tree[h]
  <2> HIDE DEF children
  <2> QED
    BY <1>2, <1>3, <1>4, TreeMade
<1>7. Branch(items, children).items = items /\ Branch(items, children).children = children
  BY DEF Branch
<1>8. ASSUME NEW kind \in Kinds
      PROVE  NodesIn(h, l, kind) + NodesIn(h, r, kind) = NodesIn(h, Joined(l, item, r), kind) + Own(h, kind)
  <2>1. NodesIn(h, l, kind) = Own(h, kind) + NodesInAll(h - 1, l.children, kind)
    BY NodesInTree
  <2>2. NodesIn(h, r, kind) = Own(h, kind) + NodesInAll(h - 1, r.children, kind)
    BY NodesInTree
  <2>3. NodesIn(h, Branch(items, children), kind) = Own(h, kind) + NodesInAll(h - 1, children, kind)
    BY <1>6, <1>7, NodesInTree
  <2>4. NodesInAll(h - 1, children, kind) = NodesInAll(h - 1, l.children, kind) + NodesInAll(h - 1, r.children, kind)
    BY <1>1, NodesInConcat
  <2>5. NodesInAll(h - 1, l.children, kind) \in Nat /\ NodesInAll(h - 1, r.children, kind) \in Nat /\ Own(h, kind) \in Nat
    BY <1>1, NodesInNat DEF Own
  <2> HIDE DEF children
  <2> QED
    BY <2>1, <2>2, <2>3, <2>4, <2>5, <1>5
<1> QED
  BY <1>2, <1>5, <1>6, <1>7, <1>8

(* Where a full node is split. *)
LEMMA SplitPlace ==
    ASSUME NEW node, Len(node.items) = MaxItems - 1, NEW lean_left \in BOOLEAN
    PROVE  /\ SplitAt(node, lean_left) \in MinItems .. MaxItems - 2
           /\ MaxItems - 2 - SplitAt(node, lean_left) \in MinItems .. MaxItems - 2
<1>1. CASE ~lean_left
  <2>1. SplitAt(node, lean_left) = (MaxItems - 1) \div 2
    BY <1>1 DEF SplitAt
  <2> QED
    BY <2>1, MinItemsBound
<1>2. CASE lean_left
  <2> DEFINE mid  == MaxItems - 1 - MinItems
             mdif == (Len(node.items) - (mid + 1)) - MinItems
  <2>1. mdif = -1 /\ mid + mdif = MaxItems - 2 - MinItems
    BY MinItemsBound
  <2>2. SplitAt(node, lean_left) = IF mdif < 0 THEN mid + mdif ELSE mid
    BY <1>2 DEF SplitAt
  <2>3. SplitAt(node, lean_left) = MaxItems - 2 - MinItems
    BY <2>1, <2>2
  <2> QED
    BY <2>3, MinItemsBound
<1> QED
  BY <1>1, <1>2

(* A full node is split into two that are not. *)
LEMMA NodeSplit ==
    ASSUME NEW h \in Nat, h >= 1, NEW node \in Good(h, MaxItems - 1, MaxItems - 1),
           NEW lean_left \in BOOLEAN, NEW s, s = node_split(node, lean_left)
    PROVE  /\ s.left \in Sub[h] /\ s.right \in Sub[h] /\ s.median \in Item
           /\ node = Joined(s.left, s.median, s.right)
<1> DEFINE mid == SplitAt(node, lean_left)
           items == node.items
           children == node.children
           n == Len(items)
<1>1. MaxItems - 1 \in Int
  BY MinItemsBound
<1>2. /\ items \in Seq(Item) /\ children \in Seq(Sub[h - 1]) /\ n = MaxItems - 1
      /\ node = Branch(items, children)
      /\ IsLeaf(node) <=> h = 1
      /\ IF h = 1 THEN children = <<>> ELSE Len(children) = n + 1
  BY <1>1, GoodParts
<1>3. mid \in MinItems .. MaxItems - 2 /\ MaxItems - 2 - mid \in MinItems .. MaxItems - 2
  BY <1>2, SplitPlace
<1> DEFINE li == SubSeq(items, 1, mid)
           ri == SubSeq(items, mid + 2, n)
           lc == IF h = 1 THEN <<>> ELSE SubSeq(children, 1, mid + 1)
           rc == IF h = 1 THEN <<>> ELSE SubSeq(children, mid + 2, n + 1)
           m  == items[mid + 1]
<1>4. s.left = Branch(li, lc) /\ s.right = Branch(ri, rc) /\ s.median = m
  BY <1>2 DEF node_split, Branch
<1> HIDE DEF mid
<1>5. mid \in Nat /\ mid + 1 \in 1 .. n /\ n \in Nat /\ n - (mid + 1) = MaxItems - 2 - mid
      /\ MaxItems - 2 \in Int /\ MinItems \in Int
  BY <1>2, <1>3, MinItemsBound
<1>6. /\ li \in Seq(Item) /\ ri \in Seq(Item) /\ m \in Item
      /\ items = (li \o <<m>>) \o ri
      /\ Len(li) = mid /\ Len(ri) = MaxItems - 2 - mid
  <2> HIDE DEF items
  <2> DEFINE k == mid + 1
  <2>1. k \in 1 .. Len(items) /\ (mid + 1) - 1 = mid /\ (mid + 1) + 1 = mid + 2 /\ n = Len(items)
    BY <1>5
  <2>2. m \in Item
    BY <1>2, <2>1
  <2>3. li \in Seq(Item) /\ Len(li) = mid
    BY <1>2, <1>5
  <2>4. ri \in Seq(Item) /\ Len(ri) = n - k
    BY <1>2, <1>5
  <2>5. /\ items = SubSeq(items, 1, k - 1) \o SubSeq(items, k, Len(items))
        /\ SubSeq(items, 1, k - 1) \in Seq(Item) /\ SubSeq(items, k, Len(items)) \in Seq(Item)
        /\ Len(SubSeq(items, k, Len(items))) = Len(items) + 1 - k
    <3> HIDE DEF k
    <3>1. k \in 1 .. Len(items) + 1
      BY <2>1
    <3> QED
      BY <1>2, <3>1, CutAt
  <2>6. SubSeq(items, k, n) = <<m>> \o ri
    <3> DEFINE t == SubSeq(items, k, n)
    <3>1. t \in Seq(Item) /\ Len(t) = n + 1 - k /\ \A j \in 1 .. n + 1 - k : t[j] = items[k + j - 1]
      BY <1>2, <1>5
    <3>2. \A j \in 1 .. n - k : ri[j] = items[k + j]
      BY <1>2, <1>5
    <3> HIDE DEF ri, m, t
    <3> DEFINE u == <<m>> \o ri
    <3>3. u \in Seq(Item) /\ Len(u) = 1 + Len(ri)
          /\ \A j \in 1 .. 1 + Len(ri) : u[j] = IF j <= 1 THEN m ELSE ri[j - 1]
      <4>1. <<m>> \in Seq(Item) /\ Len(<<m>>) = 1 /\ <<m>>[1] = m
        BY <2>2
      <4>2. u \in Seq(Item) /\ Len(u) = Len(<<m>>) + Len(ri)
            /\ \A j \in 1 .. Len(<<m>>) + Len(ri) : u[j] = IF j <= Len(<<m>>) THEN <<m>>[j] ELSE ri[j - Len(<<m>>)]
        BY <2>4, <4>1, ConcatProperties
      <4> HIDE DEF u
      <4> QED
        BY <4>1, <4>2
    <3> HIDE DEF u
    <3>4. ASSUME NEW j \in 1 .. Len(t) PROVE t[j] = u[j]
      <4>1. CASE j = 1
        BY <4>1, <3>1, <3>3, <2>1, <2>4 DEF m
      <4>2. CASE j # 1
        <5>1. j - 1 \in 1 .. n - k /\ k + (j - 1) = k + j - 1
          BY <4>2, <3>1, <1>5
        <5>2. u[j] = ri[j - 1] /\ ri[j - 1] = items[k + (j - 1)]
          <6>1. j \in 1 .. 1 + Len(ri) /\ ~ (j <= 1)
            BY <5>1, <4>2, <2>4, <1>5
          <6>2. u[j] = ri[j - 1]
            BY <6>1, <3>3
          <6>3. ri[j - 1] = items[k + (j - 1)]
            BY <5>1, <3>2
          <6> QED
            BY <6>2, <6>3
        <5> QED
          BY <5>1, <5>2, <3>1
      <4> QED
        BY <4>1, <4>2
    <3>5. t = u
      <4>1. Len(t) = Len(u)
        BY <3>1, <3>3, <2>4, <1>5
      <4> QED
        BY <3>1, <3>3, <3>4, <4>1, SeqEqual
    <3> QED
      BY <3>5 DEF t, u
  <2>7. items = (li \o <<m>>) \o ri
    <3>1. items = li \o (<<m>> \o ri)
      BY <2>1, <2>5, <2>6
    <3> HIDE DEF li, ri, m
    <3>2. <<m>> \in Seq(Item)
      BY <2>2
    <3> QED
      BY <2>3, <2>4, <3>1, <3>2, ConcatAssoc
  <2> QED
    BY <1>5, <2>2, <2>3, <2>4, <2>7
<1>7. /\ lc \in Seq(Sub[h - 1]) /\ rc \in Seq(Sub[h - 1])
      /\ children = lc \o rc
      /\ IF h = 1 THEN lc = <<>> /\ rc = <<>> ELSE Len(lc) = Len(li) + 1 /\ Len(rc) = Len(ri) + 1
  <2> HIDE DEF items, children, li, ri
  <2>1. CASE h = 1
    BY <1>2, <2>1
  <2>2. CASE h # 1
    <3> DEFINE k == mid + 2
    <3>1. k \in 1 .. Len(children) + 1 /\ k - 1 = mid + 1 /\ Len(children) = n + 1
      BY <1>2, <1>5, <2>2
    <3>2. /\ children = SubSeq(children, 1, k - 1) \o SubSeq(children, k, Len(children))
          /\ SubSeq(children, 1, k - 1) \in Seq(Sub[h - 1]) /\ SubSeq(children, k, Len(children)) \in Seq(Sub[h - 1])
          /\ Len(SubSeq(children, 1, k - 1)) = k - 1 /\ Len(SubSeq(children, k, Len(children))) = Len(children) + 1 - k
      <4> HIDE DEF k
      <4> QED
        BY <1>2, <3>1, CutAt
    <3>3. lc = SubSeq(children, 1, k - 1) /\ rc = SubSeq(children, k, Len(children))
      BY <2>2, <3>1
    <3>4. k - 1 = Len(li) + 1 /\ Len(children) + 1 - k = Len(ri) + 1
      BY <1>2, <1>5, <1>6, <3>1, <2>2
    <3> HIDE DEF lc, rc, k
    <3> QED
      BY <2>2, <3>2, <3>3, <3>4
  <2> QED
    BY <2>1, <2>2
<1> HIDE DEF items, children, li, ri, lc, rc, m, n
<1>a. Len(li) \in MinItems .. MaxItems - 2 /\ Len(ri) \in MinItems .. MaxItems - 2
  BY <1>3, <1>6
<1>8. Branch(li, lc) \in Good(h, MinItems, MaxItems - 2)
  <2>1. IF h = 1 THEN lc = <<>> ELSE Len(lc) = Len(li) + 1
    BY <1>7
  <2> QED
    BY <1>5, <1>6, <1>7, <1>a, <2>1, GoodMade
<1>9. Branch(ri, rc) \in Good(h, MinItems, MaxItems - 2)
  <2>1. IF h = 1 THEN rc = <<>> ELSE Len(rc) = Len(ri) + 1
    BY <1>7
  <2> QED
    BY <1>5, <1>6, <1>7, <1>a, <2>1, GoodMade
<1>10. Joined(Branch(li, lc), m, Branch(ri, rc)) = Branch((li \o <<m>>) \o ri, lc \o rc)
  BY DEF Joined, Branch
<1> QED
  BY <1>2, <1>4, <1>6, <1>7, <1>8, <1>9, <1>10, SubIsGood

-----------------------------------------------------------------------------
(* The pool.                                                                 *)

(* A group of the pool. *)
LEMMA GroupOf ==
    ASSUME NEW p \in Pool, NEW kind \in Kinds
    PROVE  p[kind] \in Group /\ p[kind].len \in Int /\ p[kind].cap \in Int

BY DEF Pool, Group, Kinds

Regroup(p, kind, g) == [p EXCEPT ![kind] = g]

(* A pool whose group of a kind is replaced. *)
LEMMA GroupReplaced ==
    ASSUME NEW p \in Pool, NEW kind \in Kinds, NEW g \in Group
    PROVE  /\ Regroup(p, kind, g) \in Pool
           /\ Regroup(p, kind, g)[kind] = g
           /\ \A k \in Kinds \ {kind} : Regroup(p, kind, g)[k] = p[k]
<1>1. CASE kind = "leaves"
  BY <1>1 DEF Pool, Group, Kinds, Regroup
<1>2. CASE kind = "branches"
  BY <1>2 DEF Pool, Group, Kinds, Regroup
<1> QED
  BY <1>1, <1>2 DEF Kinds

(* A node given away. *)
LEMMA GimmeNode ==
    ASSUME NEW p \in Pool, NEW kind \in Kinds, NEW q, q = gimme_node(p, kind)
    PROVE  /\ q \in Pool
           /\ q[kind].len = p[kind].len - 1
           /\ \A k \in Kinds \ {kind} : q[k].len = p[k].len
           /\ \A k \in Kinds : q[k].cap = p[k].cap
<1> DEFINE g == [len |-> p[kind].len - 1, cap |-> p[kind].cap]
<1>1. g \in Group /\ g.len = p[kind].len - 1 /\ g.cap = p[kind].cap
  BY GroupOf DEF Group
<1>2. [p[kind] EXCEPT !.len = @ - 1] = g
  BY GroupOf DEF Group
<1>3. q = Regroup(p, kind, g)
  BY <1>2 DEF gimme_node, Regroup
<1> HIDE DEF g
<1>4. q \in Pool /\ q[kind] = g /\ \A k \in Kinds \ {kind} : q[k] = p[k]
  BY <1>1, <1>3, GroupReplaced
<1>5. \A k \in Kinds : q[k].cap = p[k].cap
  <2>1. ASSUME NEW k \in Kinds PROVE q[k].cap = p[k].cap
    <3>1. CASE k = kind
      BY <3>1, <1>1, <1>4
    <3>2. CASE k # kind
      BY <3>2, <1>4
    <3> QED
      BY <3>1, <3>2
  <2> QED
    BY <2>1
<1> QED
  BY <1>1, <1>4, <1>5

-----------------------------------------------------------------------------
(* What an insertion does to a tree that is good.                            *)

SizedSet(h, node, p, s) ==
    /\ s = [node |-> s.node, prev |-> s.prev, pool |-> s.pool]
    /\ s.node \in Good(h, Len(node.items), Len(node.items) + 1)
    /\ s.prev \in Item \cup {NoItem}
    /\ s.prev # NoItem => Len(s.node.items) = Len(node.items)
    /\ s.pool \in Pool
    /\ \A kind \in Kinds : s.pool[kind].cap = p[kind].cap
    /\ \A kind \in Kinds : s.pool[kind].len <= p[kind].len
    /\ IF h = 1 THEN \A kind \in Kinds : s.pool[kind].len = p[kind].len
       ELSE /\ p["leaves"].len - 1 <= s.pool["leaves"].len
            /\ p["branches"].len - (h - 2) <= s.pool["branches"].len
    /\ \A kind \in Kinds :
          NodesIn(h, s.node, kind) + s.pool[kind].len = NodesIn(h, node, kind) + p[kind].len

(* The place of a key in a node. *)
LEMMA PlaceOfKey ==
    ASSUME NEW node, node.items \in Seq(Item), NEW key
    PROVE  node_find(node, key) \in 1 .. Len(node.items) + 1
<1> DEFINE S == {i \in DOMAIN node.items : node.items[i].key < key}
           n == Len(node.items)
<1>1. n \in Nat /\ DOMAIN node.items = 1 .. n
  OBVIOUS
<1>2. IsFiniteSet(1 .. n) /\ Cardinality(1 .. n) = n
  BY <1>1, FS_Interval
<1>3. IsFiniteSet(S) /\ Cardinality(S) <= n /\ Cardinality(S) \in Nat
  <2>1. S \subseteq 1 .. n
    BY <1>1
  <2> HIDE DEF S
  <2> QED
    BY <1>2, <2>1, FS_Subset, FS_CardinalityType
<1>4. node_find(node, key) = 1 + Cardinality(S)
  BY DEF node_find
<1> HIDE DEF S
<1> QED
  BY <1>1, <1>3, <1>4

(* An item replaced, or put into a leaf. *)
LEMMA SetHereSized ==
    ASSUME NEW h \in Nat, h >= 1, NEW lo \in Int, NEW hi \in Int, NEW node \in Good(h, lo, hi),
           NEW item \in Item, NEW p \in Pool,
           NEW i \in 1 .. Len(node.items) + 1, HasAt(node, i, item.key) \/ IsLeaf(node),
           NEW s, s = SetHere(node, i, item, p)
    PROVE  SizedSet(h, node, p, s)
<1> DEFINE items == node.items
           n == Len(items)
<1>1. /\ items \in Seq(Item) /\ node.children \in Seq(Sub[h - 1])
      /\ node = Branch(items, node.children) /\ n \in Nat
      /\ IsLeaf(node) <=> h = 1
      /\ IF h = 1 THEN node.children = <<>> ELSE Len(node.children) = n + 1
      /\ node \in Tree[h] /\ h - 1 \in Nat
  BY GoodParts
<1>2. \A kind \in Kinds : p[kind].len \in Int /\ p[kind].cap \in Int
  BY GroupOf
<1>3. CASE HasAt(node, i, item.key)
  <2> DEFINE new == [items EXCEPT ![i] = item]
  <2>1. i \in 1 .. n /\ items[i] \in Item
    BY <1>1, <1>3 DEF HasAt
  <2>2. new \in Seq(Item) /\ Len(new) = n
    BY <1>1, <2>1
  <2>3. s = [node |-> Branch(new, node.children), prev |-> items[i], pool |-> p]
    <3>1. [node EXCEPT !.items[i] = item] = Branch(new, node.children)
      <4>1. node = [items |-> items, children |-> node.children]
        BY <1>1 DEF Branch
      <4> HIDE DEF items
      <4>2. [node EXCEPT !.items[i] = item] = [node EXCEPT !.items = [node.items EXCEPT ![i] = item]]
        OBVIOUS
      <4>3. node.items = items
        BY DEF items
      <4>4. [node EXCEPT !.items = new] = [items |-> new, children |-> node.children]
        <5> HIDE DEF new
        <5> QED
          BY <4>1
      <4> QED
        BY <4>2, <4>3, <4>4 DEF Branch
    <3> QED
      BY <1>3, <3>1 DEF SetHere
  <2> HIDE DEF new
  <2>4. /\ Branch(new, node.children) \in Good(h, n, n + 1)
        /\ Branch(new, node.children).items = new /\ Branch(new, node.children).children = node.children
    <3>1. Len(new) \in n .. n + 1 /\ n + 1 \in Int /\ n \in Int
      BY <2>2, <1>1
    <3>2. IF h = 1 THEN node.children = <<>> ELSE Len(node.children) = Len(new) + 1
      BY <1>1, <2>2
    <3> DEFINE hi1 == n + 1
               children == node.children
    <3>3. hi1 \in Int /\ Len(new) \in n .. hi1
      BY <3>1
    <3>4. children \in Seq(Sub[h - 1]) /\ IF h = 1 THEN children = <<>> ELSE Len(children) = Len(new) + 1
      BY <1>1, <3>2
    <3> HIDE DEF n, items, hi1, children
    <3>5. Branch(new, children) \in Good(h, n, hi1)
      BY <2>2, <3>1, <3>3, <3>4, GoodMade
    <3>6. Branch(new, children).items = new /\ Branch(new, children).children = children
      BY DEF Branch
    <3> QED
      BY <3>5, <3>6 DEF hi1, children
  <2>5. Branch(new, node.children) \in Tree[h]
    BY <2>4 DEF Good
  <2>6. ASSUME NEW kind \in Kinds
        PROVE  NodesIn(h, Branch(new, node.children), kind) = NodesIn(h, node, kind)
    BY <2>4, <2>5, <1>1, NodesInTree
  <2>7. s.node = Branch(new, node.children) /\ s.prev = items[i] /\ s.pool = p
    BY <2>3
  <2>8. \A kind \in Kinds : NodesIn(h, s.node, kind) + s.pool[kind].len = NodesIn(h, node, kind) + p[kind].len
    BY <2>6, <2>7
  <2>9. /\ p["leaves"].len - 1 <= p["leaves"].len
        /\ h # 1 => p["branches"].len - (h - 2) <= p["branches"].len
    BY <1>2 DEF Kinds
  <2>10. \A kind \in Kinds : p[kind].len <= p[kind].len
    BY <1>2
  <2> HIDE DEF n
  <2> QED
    BY <2>1, <2>2, <2>3, <2>4, <2>7, <2>8, <2>9, <2>10 DEF SizedSet, n
<1>4. CASE ~HasAt(node, i, item.key)
  <2> DEFINE new == InsertAt(items, i, item)
  <2>1. h = 1 /\ node.children = <<>>
    BY <1>1, <1>4
  <2>2. new \in Seq(Item) /\ Len(new) = n + 1
    <3>1. i - 1 \in 0 .. n
      BY <1>1
    <3>2. /\ SubSeq(items, 1, i - 1) \in Seq(Item) /\ SubSeq(items, i, n) \in Seq(Item)
          /\ Len(SubSeq(items, 1, i - 1)) = i - 1 /\ Len(SubSeq(items, i, n)) = n + 1 - i
      <4>1. items \in Seq(Item) /\ i \in 1 .. Len(items) + 1 /\ n = Len(items)
        BY <1>1
      <4> HIDE DEF items, n
      <4> QED
        BY <4>1, CutAt
    <3> DEFINE a == SubSeq(items, 1, i - 1)
               b == SubSeq(items, i, n)
    <3>3. new = (a \o <<item>>) \o b
      BY DEF InsertAt
    <3> HIDE DEF a, b, new
    <3>4. a \in Seq(Item) /\ b \in Seq(Item) /\ Len(a) = i - 1 /\ Len(b) = n + 1 - i
      BY <3>2 DEF a, b
    <3>5. a \o <<item>> \in Seq(Item) /\ Len(a \o <<item>>) = i
      BY <3>4
    <3>6. new \in Seq(Item) /\ Len(new) = i + Len(b)
      BY <3>3, <3>4, <3>5, ConcatProperties
    <3> HIDE DEF n
    <3> QED
      BY <3>4, <3>6, <1>1
  <2>3. s = [node |-> Branch(new, <<>>), prev |-> NoItem, pool |-> p]
    BY <1>4 DEF SetHere, Leaf, Branch
  <2> HIDE DEF new
  <2>4. /\ Branch(new, <<>>) \in Good(h, n, n + 1)
        /\ Branch(new, <<>>).items = new /\ Branch(new, <<>>).children = <<>>
    <3>1. Len(new) \in n .. n + 1 /\ n + 1 \in Int /\ n \in Int /\ <<>> \in Seq(Sub[h - 1])
      BY <2>2, <1>1
    <3> DEFINE hi1 == n + 1
               none == <<>>
    <3>3. hi1 \in Int /\ Len(new) \in n .. hi1
      BY <3>1
    <3>4. none \in Seq(Sub[h - 1]) /\ IF h = 1 THEN none = <<>> ELSE Len(none) = Len(new) + 1
      BY <2>1, <3>1
    <3> HIDE DEF n, items, hi1, none
    <3>5. Branch(new, none) \in Good(h, n, hi1)
      BY <2>2, <3>1, <3>3, <3>4, GoodMade
    <3>6. Branch(new, none).items = new /\ Branch(new, none).children = none
      BY DEF Branch
    <3> QED
      BY <3>5, <3>6 DEF hi1, none
  <2>5. Branch(new, <<>>) \in Tree[h]
    BY <2>4 DEF Good
  <2>6. ASSUME NEW kind \in Kinds
        PROVE  NodesIn(h, Branch(new, <<>>), kind) = NodesIn(h, node, kind)
    BY <2>1, <2>4, <2>5, <1>1, NodesInTree
  <2>7. s.node = Branch(new, <<>>) /\ s.prev = NoItem /\ s.pool = p
    BY <2>3
  <2>8. \A kind \in Kinds : NodesIn(h, s.node, kind) + s.pool[kind].len = NodesIn(h, node, kind) + p[kind].len
    BY <2>6, <2>7
  <2>9. \A kind \in Kinds : p[kind].len <= p[kind].len
    BY <1>2
  <2> HIDE DEF n
  <2> QED
    BY <2>1, <2>2, <2>3, <2>4, <2>7, <2>8, <2>9 DEF SizedSet, n
<1> QED
  BY <1>3, <1>4

-----------------------------------------------------------------------------
(* Sequences with a middle.                                                  *)

Spliced(a, m, b) == (a \o m) \o b

(* A sequence of one element. *)
LEMMA OneElement ==
    ASSUME NEW T, NEW x \in T
    PROVE  <<x>> \in Seq(T) /\ Len(<<x>>) = 1 /\ <<x>>[1] = x

OBVIOUS

(* A sequence of two elements. *)
LEMMA TwoElements ==
    ASSUME NEW T, NEW x \in T, NEW y \in T
    PROVE  /\ <<x, y>> \in Seq(T) /\ Len(<<x, y>>) = 2 /\ <<x, y>>[1] = x /\ <<x, y>>[2] = y
           /\ <<x>> \o <<y>> = <<x, y>>
<1>1. <<x, y>> \in Seq(T) /\ Len(<<x, y>>) = 2 /\ <<x, y>>[1] = x /\ <<x, y>>[2] = y
  OBVIOUS
<1> DEFINE p == <<x>>
           q == <<y>>
           r == <<x, y>>
<1>2. p \o q = r
  <2>1. p \in Seq(T) /\ q \in Seq(T) /\ Len(p) = 1 /\ Len(q) = 1 /\ p[1] = x /\ q[1] = y
    BY OneElement
  <2>2. r \in Seq(T) /\ Len(r) = 2 /\ r[1] = x /\ r[2] = y
    BY <1>1
  <2> HIDE DEF p, q, r
  <2>3. p \o q \in Seq(T) /\ Len(p \o q) = 2
        /\ \A j \in 1 .. 2 : (p \o q)[j] = IF j <= 1 THEN p[j] ELSE q[j - 1]
    <3>1. p \o q \in Seq(T) /\ Len(p \o q) = Len(p) + Len(q)
          /\ \A j \in 1 .. Len(p) + Len(q) : (p \o q)[j] = IF j <= Len(p) THEN p[j] ELSE q[j - Len(p)]
      BY <2>1, ConcatProperties
    <3> QED
      BY <2>1, <3>1
  <2>4. ASSUME NEW j \in 1 .. 2 PROVE (p \o q)[j] = r[j]
    BY <2>1, <2>2, <2>3
  <2> QED
    BY <2>2, <2>3, <2>4, SeqEqual
<1> QED
  BY <1>1, <1>2 DEF p, q, r

(* A middle put between two sequences makes a sequence. *)
LEMMA SplicedIs ==
    ASSUME NEW T, NEW a \in Seq(T), NEW m \in Seq(T), NEW b \in Seq(T)
    PROVE  /\ Spliced(a, m, b) \in Seq(T)
           /\ Len(Spliced(a, m, b)) = Len(a) + Len(m) + Len(b)
           /\ Len(a) \in Nat /\ Len(m) \in Nat /\ Len(b) \in Nat
<1>1. a \o m \in Seq(T) /\ Len(a \o m) = Len(a) + Len(m)
  BY ConcatProperties
<1>2. (a \o m) \o b \in Seq(T) /\ Len((a \o m) \o b) = Len(a \o m) + Len(b)
  BY <1>1, ConcatProperties
<1> QED
  BY <1>1, <1>2 DEF Spliced

(* Around one place, one element, or two. *)
LEMMA SplicedAtPlace ==
    ASSUME NEW T, NEW s \in Seq(T), NEW i \in 1 .. Len(s) + 1
    PROVE  /\ SubSeq(s, 1, i - 1) \in Seq(T) /\ SubSeq(s, i, Len(s)) \in Seq(T)
           /\ s = Spliced(SubSeq(s, 1, i - 1), <<>>, SubSeq(s, i, Len(s)))
           /\ Len(SubSeq(s, 1, i - 1)) = i - 1 /\ Len(SubSeq(s, i, Len(s))) = Len(s) + 1 - i
<1>1. /\ s = SubSeq(s, 1, i - 1) \o SubSeq(s, i, Len(s))
      /\ SubSeq(s, 1, i - 1) \in Seq(T) /\ SubSeq(s, i, Len(s)) \in Seq(T)
      /\ Len(SubSeq(s, 1, i - 1)) = i - 1 /\ Len(SubSeq(s, i, Len(s))) = Len(s) + 1 - i
  BY CutAt
<1>2. SubSeq(s, 1, i - 1) \o <<>> = SubSeq(s, 1, i - 1)
  BY <1>1, ConcatWithNone
<1> QED
  BY <1>1, <1>2 DEF Spliced

(* An element in the middle is found behind what comes before. *)
LEMMA SplicedAtElement ==
    ASSUME NEW T, NEW s \in Seq(T), NEW i \in 1 .. Len(s)
    PROVE  /\ SubSeq(s, 1, i - 1) \in Seq(T) /\ SubSeq(s, i + 1, Len(s)) \in Seq(T)
           /\ s = Spliced(SubSeq(s, 1, i - 1), <<s[i]>>, SubSeq(s, i + 1, Len(s)))
           /\ Len(SubSeq(s, 1, i - 1)) = i - 1 /\ Len(SubSeq(s, i + 1, Len(s))) = Len(s) - i

BY Around DEF Spliced

(* A middle of two is one of one. *)
LEMMA SplicedTwo ==
    ASSUME NEW T, NEW a \in Seq(T), NEW b \in Seq(T), NEW x \in T, NEW y \in T
    PROVE  /\ a \o <<x>> \in Seq(T) /\ <<y>> \o b \in Seq(T)
           /\ Len(a \o <<x>>) = Len(a) + 1 /\ Len(<<y>> \o b) = Len(b) + 1
           /\ Spliced(a, <<x, y>>, b) = Spliced(a \o <<x>>, <<y>>, b)
           /\ Spliced(a, <<x, y>>, b) = Spliced(a, <<x>>, <<y>> \o b)
<1>1. <<x>> \in Seq(T) /\ <<y>> \in Seq(T) /\ <<x>> \o <<y>> = <<x, y>> /\ Len(<<x>>) = 1 /\ Len(<<y>>) = 1
  BY OneElement, TwoElements
<1> DEFINE p == <<x>>
           q == <<y>>
           pq == <<x, y>>
<1>2. p \in Seq(T) /\ q \in Seq(T) /\ p \o q = pq /\ Len(p) = 1 /\ Len(q) = 1
  BY <1>1
<1> HIDE DEF p, q, pq
<1>3. a \o p \in Seq(T) /\ Len(a \o p) = Len(a) + Len(p) /\ q \o b \in Seq(T) /\ Len(q \o b) = Len(q) + Len(b)
  BY <1>2, ConcatProperties
<1>4. (a \o p) \o q = a \o (p \o q)
  <2>1. a \in Seq(T) /\ p \in Seq(T) /\ q \in Seq(T)
    BY <1>2
  <2> QED
    BY <2>1
<1>5. ((a \o p) \o q) \o b = (a \o p) \o (q \o b)
  BY <1>2, <1>3, ConcatAssoc
<1>6. (a \o pq) \o b = ((a \o p) \o q) \o b
  BY <1>2, <1>4
<1>7. Len(a \o p) = Len(a) + 1 /\ Len(q \o b) = Len(b) + 1
  <2>1. Len(a) \in Nat /\ Len(b) \in Nat
    OBVIOUS
  <2> QED
    BY <1>2, <1>3, <2>1
<1> QED
  BY <1>3, <1>5, <1>6, <1>7 DEF p, q, pq, Spliced

(* The element at the place. *)
LEMMA SplicedOne ==
    ASSUME NEW T, NEW a \in Seq(T), NEW b \in Seq(T), NEW x \in T, NEW i, i = Len(a) + 1
    PROVE  Spliced(a, <<x>>, b)[i] = x
<1> DEFINE c == a \o <<x>>
<1>1. c \in Seq(T) /\ Len(c) = i /\ c[i] = x /\ i \in 1 .. Len(c)
  OBVIOUS
<1> HIDE DEF c
<1>2. (c \o b)[i] = c[i]
  <2>1. \A j \in 1 .. Len(c) + Len(b) : (c \o b)[j] = IF j <= Len(c) THEN c[j] ELSE b[j - Len(c)]
    BY <1>1, ConcatProperties
  <2>2. i \in 1 .. Len(c) + Len(b) /\ i <= Len(c)
    BY <1>1
  <2> QED
    BY <2>1, <2>2
<1> QED
  BY <1>1, <1>2 DEF c, Spliced

(* InsertAt puts an element into the middle. *)
LEMMA InsertAtSpliced ==
    ASSUME NEW T, NEW a \in Seq(T), NEW b \in Seq(T), NEW x \in T, NEW i, i = Len(a) + 1
    PROVE  InsertAt(Spliced(a, <<>>, b), i, x) = Spliced(a, <<x>>, b)
<1>1. Spliced(a, <<>>, b) = a \o b
  BY ConcatWithNone DEF Spliced
<1>2. InsertAt(a \o b, i, x) = (a \o <<x>>) \o b
  BY InsertAtCut
<1> QED
  BY <1>1, <1>2 DEF Spliced

(* ReplaceAt replaces the one in the middle. *)
LEMMA ReplaceAtSpliced ==
    ASSUME NEW T, NEW a \in Seq(T), NEW b \in Seq(T), NEW x \in T, NEW y \in T, NEW i, i = Len(a) + 1
    PROVE  ReplaceAt(Spliced(a, <<x>>, b), i, y) = Spliced(a, <<y>>, b)
<1> DEFINE r == Spliced(a, <<y>>, b)
           s == Spliced(a, <<x>>, b)
           t == ReplaceAt(s, i, y)
<1>2. s \in Seq(T) /\ r \in Seq(T) /\ Len(s) = Len(a) + 1 + Len(b) /\ Len(r) = Len(s) /\ i \in 1 .. Len(s)
  BY DEF Spliced
<1>3. t = [s EXCEPT ![i] = y]
  BY DEF ReplaceAt
<1>4. ASSUME NEW j \in 1 .. Len(s), j # i PROVE s[j] = r[j]
  <2>1. CASE j < i
    BY <2>1 DEF Spliced
  <2>2. CASE j > i
    BY <1>4, <2>2 DEF Spliced
  <2> QED
    BY <1>2, <1>4, <2>1, <2>2
<1>5. r[i] = y
  BY SplicedOne
<1> HIDE DEF s, r, t
<1>6. t \in Seq(T) /\ Len(t) = Len(s)
  BY <1>2, <1>3
<1>7. ASSUME NEW j \in 1 .. Len(t) PROVE t[j] = r[j]
  BY <1>2, <1>3, <1>4, <1>5, <1>6
<1>8. t = r
  BY <1>2, <1>6, <1>7, SeqEqual
<1> QED
  BY <1>8 DEF s, r, t

(* RemoveAt takes it out. *)
LEMMA RemoveAtSpliced ==
    ASSUME NEW T, NEW a \in Seq(T), NEW b \in Seq(T), NEW x \in T, NEW i, i = Len(a) + 1
    PROVE  RemoveAt(Spliced(a, <<x>>, b), i) = Spliced(a, <<>>, b)
<1> DEFINE s == Spliced(a, <<x>>, b)
           c == a \o <<x>>
           d == <<x>> \o b
<1>1. c \in Seq(T) /\ Len(c) = i /\ d \in Seq(T) /\ i - 1 = Len(a) /\ s = c \o b
  BY DEF Spliced
<1>2. s = a \o d
  BY OneElement, ConcatAssoc DEF Spliced
<1> HIDE DEF c, d
<1>3. SubSeq(s, 1, i - 1) = a
  <2> HIDE DEF s
  <2> QED
    BY <1>1, <1>2, CutConcat
<1>4. SubSeq(s, i + 1, Len(s)) = b
  <2> HIDE DEF s
  <2> QED
    BY <1>1, CutConcat
<1>5. RemoveAt(s, i) = a \o b
  <2> HIDE DEF s
  <2> QED
    BY <1>3, <1>4 DEF RemoveAt
<1>6. Spliced(a, <<>>, b) = a \o b
  BY ConcatWithNone DEF Spliced
<1> QED
  BY <1>5, <1>6

(* Two elements in the middle. *)
LEMMA TwoInSpliced ==
    ASSUME NEW T, NEW a \in Seq(T), NEW b \in Seq(T), NEW x \in T, NEW y \in T,
           NEW i, i = Len(a) + 1, NEW j, j = Len(a) + 2
    PROVE  /\ Spliced(a, <<x, y>>, b)[i] = x
           /\ Spliced(a, <<x, y>>, b)[j] = y
           /\ InsertAt(Spliced(a, <<x>>, b), j, y) = Spliced(a, <<x, y>>, b)
           /\ RemoveAt(Spliced(a, <<x, y>>, b), j) = Spliced(a, <<x>>, b)
<1> DEFINE c == a \o <<x>>
           d == <<y>> \o b
<1>1. /\ c \in Seq(T) /\ d \in Seq(T) /\ Len(c) = Len(a) + 1
      /\ Spliced(a, <<x, y>>, b) = Spliced(c, <<y>>, b)
      /\ Spliced(a, <<x, y>>, b) = Spliced(a, <<x>>, d)
  BY SplicedTwo
<1>2. Spliced(a, <<x>>, b) = Spliced(c, <<>>, b)
  <2>1. c \o <<>> = c
    BY <1>1, ConcatWithNone
  <2> QED
    BY <2>1 DEF Spliced
<1>3. j = Len(c) + 1
  BY <1>1
<1> HIDE DEF c, d
<1>t. c \in Seq(T) /\ d \in Seq(T)
  BY <1>1
<1>4. Spliced(a, <<x>>, d)[i] = x /\ Spliced(c, <<y>>, b)[j] = y
  <2>1. Spliced(a, <<x>>, d)[i] = x
    BY <1>t, SplicedOne
  <2>2. Spliced(c, <<y>>, b)[j] = y
    BY <1>t, <1>3, SplicedOne
  <2> QED
    BY <2>1, <2>2
<1>7. InsertAt(Spliced(c, <<>>, b), j, y) = Spliced(c, <<y>>, b)
  BY <1>t, <1>3, InsertAtSpliced
<1>8. RemoveAt(Spliced(c, <<y>>, b), j) = Spliced(c, <<>>, b)
  BY <1>t, <1>3, RemoveAtSpliced
<1> QED
  BY <1>1, <1>2, <1>4, <1>7, <1>8

(* The first or the second of two in the middle is replaced. *)
LEMMA TwoReplaced ==
    ASSUME NEW T, NEW a \in Seq(T), NEW b \in Seq(T), NEW x \in T, NEW y \in T, NEW z \in T,
           NEW i, i = Len(a) + 1, NEW j, j = Len(a) + 2
    PROVE  /\ ReplaceAt(Spliced(a, <<x, y>>, b), i, z) = Spliced(a, <<z, y>>, b)
           /\ ReplaceAt(Spliced(a, <<x, y>>, b), j, z) = Spliced(a, <<x, z>>, b)
<1> DEFINE c == a \o <<x>>
           d == <<y>> \o b
<1>1. /\ c \in Seq(T) /\ d \in Seq(T) /\ Len(c) = Len(a) + 1
      /\ Spliced(a, <<x, y>>, b) = Spliced(c, <<y>>, b)
      /\ Spliced(a, <<x, y>>, b) = Spliced(a, <<x>>, d)
      /\ Spliced(a, <<z, y>>, b) = Spliced(a, <<z>>, d)
      /\ Spliced(a, <<x, z>>, b) = Spliced(c, <<z>>, b)
  BY SplicedTwo
<1>3. j = Len(c) + 1
  BY <1>1
<1> HIDE DEF c, d
<1>t. c \in Seq(T) /\ d \in Seq(T)
  BY <1>1
<1>5. ReplaceAt(Spliced(a, <<x>>, d), i, z) = Spliced(a, <<z>>, d)
  BY <1>t, ReplaceAtSpliced
<1>6. ReplaceAt(Spliced(c, <<y>>, b), j, z) = Spliced(c, <<z>>, b)
  BY <1>t, <1>3, ReplaceAtSpliced
<1> QED
  BY <1>1, <1>5, <1>6

-----------------------------------------------------------------------------
(* A branch around some of its items and the children beside them.           *)

Site(f, mids, C) == Branch(Spliced(f.lower, mids, f.upper), Spliced(f.left, C, f.right))

IsSite(h, f, i) ==
    /\ h \in Nat /\ h >= 2 /\ i \in Nat /\ i >= 1
    /\ f.lower \in Seq(Item) /\ f.upper \in Seq(Item)
    /\ f.left \in Seq(Sub[h - 1]) /\ f.right \in Seq(Sub[h - 1])
    /\ i = Len(f.lower) + 1 /\ i = Len(f.left) + 1 /\ Len(f.right) = Len(f.upper)

Room(f)          == Len(f.lower) + Len(f.upper)

Rest(h, f, kind) == Own(h, kind) + NodesInAll(h - 1, f.left, kind) + NodesInAll(h - 1, f.right, kind)

(* The parts of a site. *)
LEMMA SiteParts ==
    ASSUME NEW h, NEW f, NEW i, IsSite(h, f, i)
    PROVE  /\ h \in Nat /\ h >= 1 /\ h >= 2 /\ h # 1 /\ h - 1 \in Nat /\ h - 1 >= 1 /\ (h - 1) - 1 = h - 2
           /\ i \in Nat /\ i >= 1
           /\ f.lower \in Seq(Item) /\ f.upper \in Seq(Item)
           /\ f.left \in Seq(Sub[h - 1]) /\ f.right \in Seq(Sub[h - 1])
           /\ f.left \in Seq(Tree[h - 1]) /\ f.right \in Seq(Tree[h - 1])
           /\ i = Len(f.lower) + 1 /\ i = Len(f.left) + 1 /\ Len(f.right) = Len(f.upper)
           /\ Room(f) \in Nat /\ Len(f.lower) \in Nat /\ Len(f.upper) \in Nat
<1>1. /\ h \in Nat /\ h >= 2 /\ i \in Nat /\ i >= 1
      /\ f.lower \in Seq(Item) /\ f.upper \in Seq(Item)
      /\ f.left \in Seq(Sub[h - 1]) /\ f.right \in Seq(Sub[h - 1])
      /\ i = Len(f.lower) + 1 /\ i = Len(f.left) + 1 /\ Len(f.right) = Len(f.upper)
  BY DEF IsSite
<1>2. h >= 1 /\ h - 1 \in Nat /\ h - 1 >= 1 /\ (h - 1) - 1 = h - 2 /\ h # 1
  BY <1>1
<1>3. f.left \in Seq(Tree[h - 1]) /\ f.right \in Seq(Tree[h - 1])
  BY <1>1, <1>2, SeqOfSub
<1>4. Room(f) \in Nat /\ Len(f.lower) \in Nat /\ Len(f.upper) \in Nat
  <2> DEFINE X == f.lower
             Y == f.upper
  <2>1. X \in Seq(Item) /\ Y \in Seq(Item)
    BY <1>1
  <2>2. Room(f) = Len(X) + Len(Y)
    BY DEF Room
  <2> HIDE DEF X, Y
  <2>3. Len(X) \in Nat /\ Len(Y) \in Nat
    BY <2>1
  <2>4. Len(X) + Len(Y) \in Nat
    BY <2>3
  <2> QED
    BY <2>2, <2>3, <2>4 DEF X, Y
<1> QED
  BY <1>1, <1>2, <1>3, <1>4

(* The items and the children of a site. *)
LEMMA SiteItems ==
    ASSUME NEW f, NEW mids, NEW C
    PROVE  /\ Site(f, mids, C).items = Spliced(f.lower, mids, f.upper)
           /\ Site(f, mids, C).children = Spliced(f.left, C, f.right)

BY DEF Site, Branch

(* Every child of a branch has a site: the branch is what lies around the child. *)
LEMMA SiteAtChild ==
    ASSUME NEW h \in Nat, h >= 2, NEW lo \in Int, NEW hi \in Int, NEW node \in Good(h, lo, hi),
           NEW i \in 1 .. Len(node.items) + 1
    PROVE  /\ \E f : IsSite(h, f, i) /\ node = Site(f, <<>>, <<node.children[i]>>)
           /\ node.children[i] \in Sub[h - 1]
<1> DEFINE items == node.items
           children == node.children
           S == Sub[h - 1]
<1>1. /\ items \in Seq(Item) /\ children \in Seq(S)
      /\ Len(children) = Len(items) + 1 /\ Len(items) \in Nat
      /\ node = Branch(items, children)
  BY GoodParts
<1>2. i \in 1 .. Len(items) + 1 /\ i \in 1 .. Len(children) /\ i \in Nat /\ i >= 1
  BY <1>1
<1> DEFINE X == SubSeq(items, 1, i - 1)
           Y == SubSeq(items, i, Len(items))
           A == SubSeq(children, 1, i - 1)
           B == SubSeq(children, i + 1, Len(children))
           f == [lower |-> X, upper |-> Y, left |-> A, right |-> B]
<1> HIDE DEF items, children, S
<1>3. /\ X \in Seq(Item) /\ Y \in Seq(Item) /\ items = Spliced(X, <<>>, Y)
      /\ Len(X) = i - 1 /\ Len(Y) = Len(items) + 1 - i
  BY <1>1, <1>2, SplicedAtPlace
<1>4. /\ A \in Seq(S) /\ B \in Seq(S) /\ children = Spliced(A, <<children[i]>>, B)
      /\ Len(A) = i - 1 /\ Len(B) = Len(children) - i
  BY <1>1, <1>2, SplicedAtElement
<1>5. children[i] \in S
  BY <1>1, <1>2
<1> HIDE DEF X, Y, A, B
<1>6. f.lower = X /\ f.upper = Y /\ f.left = A /\ f.right = B
  OBVIOUS
<1> HIDE DEF f
<1>7. i = Len(X) + 1 /\ i = Len(A) + 1 /\ Len(B) = Len(Y)
  BY <1>1, <1>2, <1>3, <1>4
<1>8. IsSite(h, f, i)
  BY <1>2, <1>3, <1>4, <1>6, <1>7 DEF IsSite, S
<1>9. node = Site(f, <<>>, <<children[i]>>)
  BY <1>1, <1>3, <1>4, <1>6 DEF Site
<1> QED
  BY <1>5, <1>8, <1>9 DEF S, children

(* So has every item, with the two children beside it. *)
LEMMA SiteAtItem ==
    ASSUME NEW h \in Nat, h >= 2, NEW lo \in Int, NEW hi \in Int, NEW node \in Good(h, lo, hi),
           NEW i \in 1 .. Len(node.items)
    PROVE  /\ \E f : /\ IsSite(h, f, i)
                     /\ node = Site(f, <<node.items[i]>>, <<node.children[i], node.children[i + 1]>>)
           /\ node.children[i] \in Sub[h - 1] /\ node.children[i + 1] \in Sub[h - 1]
           /\ node.items[i] \in Item
<1> DEFINE items == node.items
           children == node.children
           S == Sub[h - 1]
           j == i + 1
<1>1. /\ items \in Seq(Item) /\ children \in Seq(S)
      /\ Len(children) = Len(items) + 1 /\ Len(items) \in Nat
      /\ node = Branch(items, children)
  BY GoodParts
<1>2. i \in 1 .. Len(items) /\ i \in 1 .. Len(children) /\ j \in 1 .. Len(children) /\ i \in Nat /\ i >= 1
  BY <1>1
<1> DEFINE X == SubSeq(items, 1, i - 1)
           Y == SubSeq(items, i + 1, Len(items))
           A == SubSeq(children, 1, i - 1)
           R == SubSeq(children, i + 1, Len(children))
           B == SubSeq(R, 1 + 1, Len(R))
           x == children[i]
           y == children[j]
           f == [lower |-> X, upper |-> Y, left |-> A, right |-> B]
<1> HIDE DEF items, children, S
<1>3. /\ X \in Seq(Item) /\ Y \in Seq(Item) /\ items = Spliced(X, <<items[i]>>, Y)
      /\ Len(X) = i - 1 /\ Len(Y) = Len(items) - i
  BY <1>1, <1>2, SplicedAtElement
<1>4. /\ A \in Seq(S) /\ R \in Seq(S) /\ children = Spliced(A, <<x>>, R)
      /\ Len(A) = i - 1 /\ Len(R) = Len(children) - i
  BY <1>1, <1>2, SplicedAtElement
<1>5. x \in S /\ y \in S /\ items[i] \in Item
  BY <1>1, <1>2
<1>a. R[1] = y
  BY <1>1, <1>2
<1>b. 1 \in 1 .. Len(R)
  BY <1>1, <1>2, <1>4
<1> HIDE DEF R
<1>6. R = <<y>> \o B /\ B \in Seq(S) /\ Len(B) = Len(R) - 1
  <2>1. /\ SubSeq(R, 1, 1 - 1) \in Seq(S) /\ SubSeq(R, 1 + 1, Len(R)) \in Seq(S)
        /\ R = Spliced(SubSeq(R, 1, 1 - 1), <<R[1]>>, SubSeq(R, 1 + 1, Len(R)))
        /\ Len(SubSeq(R, 1, 1 - 1)) = 1 - 1 /\ Len(SubSeq(R, 1 + 1, Len(R))) = Len(R) - 1
    <3> DEFINE one == 1
    <3>1. one \in 1 .. Len(R)
      BY <1>b
    <3> HIDE DEF one
    <3>2. /\ SubSeq(R, 1, one - 1) \in Seq(S) /\ SubSeq(R, one + 1, Len(R)) \in Seq(S)
        /\ R = Spliced(SubSeq(R, 1, one - 1), <<R[one]>>, SubSeq(R, one + 1, Len(R)))
        /\ Len(SubSeq(R, 1, one - 1)) = one - 1 /\ Len(SubSeq(R, one + 1, Len(R))) = Len(R) - one
      BY <1>4, <3>1, SplicedAtElement
    <3> QED
      BY <3>2 DEF one
  <2> DEFINE Z == SubSeq(R, 1, 1 - 1)
  <2>2. Z = <<>>
    <3>1. Z \in Seq(S) /\ Len(Z) = 0
      BY <2>1
    <3> HIDE DEF Z
    <3> QED
      BY <3>1
  <2>3. R = Spliced(<<>>, <<y>>, B) /\ B \in Seq(S) /\ Len(B) = Len(R) - 1
    BY <2>1, <2>2, <1>a
  <2> HIDE DEF B, y
  <2>4. <<>> \o <<y>> = <<y>>
    BY <1>5, OneElement, ConcatWithNone
  <2> QED
    BY <2>3, <2>4 DEF Spliced
<1> HIDE DEF X, Y, A, B, x, y
<1>7. Spliced(A, <<x, y>>, B) = children
  <2>1. A \in Seq(S) /\ B \in Seq(S) /\ x \in S /\ y \in S
    BY <1>4, <1>5, <1>6
  <2>2. Spliced(A, <<x, y>>, B) = Spliced(A, <<x>>, <<y>> \o B)
    BY <2>1, SplicedTwo
  <2> QED
    BY <1>4, <1>6, <2>2
<1>8. f.lower = X /\ f.upper = Y /\ f.left = A /\ f.right = B
  OBVIOUS
<1> HIDE DEF f
<1>9. i = Len(X) + 1 /\ i = Len(A) + 1 /\ Len(B) = Len(Y)
  BY <1>1, <1>2, <1>3, <1>4, <1>6
<1>10. IsSite(h, f, i)
  BY <1>2, <1>3, <1>4, <1>6, <1>8, <1>9 DEF IsSite, S
<1>11. node = Site(f, <<items[i]>>, <<x, y>>)
  BY <1>1, <1>3, <1>7, <1>8 DEF Site
<1> QED
  BY <1>5, <1>10, <1>11 DEF S, children, items, x, y, j

(* What is between: items, and one child more, from a set S of trees. *)
IsMiddle(S, mids, C) == mids \in Seq(Item) /\ C \in Seq(S) /\ Len(C) = Len(mids) + 1

(* A middle of one child. *)
LEMMA MiddleOfOne ==
    ASSUME NEW S, NEW c \in S
    PROVE  IsMiddle(S, <<>>, <<c>>)
<1>1. <<>> \in Seq(Item) /\ Len(<<>>) = 0
  OBVIOUS
<1> QED
  BY <1>1, OneElement DEF IsMiddle

(* A middle of two children and the item between them. *)
LEMMA MiddleOfTwo ==
    ASSUME NEW S, NEW m \in Item, NEW l \in S, NEW r \in S
    PROVE  IsMiddle(S, <<m>>, <<l, r>>)
<1>1. <<m>> \in Seq(Item) /\ Len(<<m>>) = 1
  BY OneElement
<1>2. <<l, r>> \in Seq(S) /\ Len(<<l, r>>) = 2
  BY TwoElements
<1> DEFINE p == <<m>>
           q == <<l, r>>
<1>3. p \in Seq(Item) /\ q \in Seq(S) /\ Len(q) = Len(p) + 1
  BY <1>1, <1>2
<1> HIDE DEF p, q
<1>4. IsMiddle(S, p, q)
  BY <1>3 DEF IsMiddle
<1> QED
  BY <1>4 DEF p, q

(* Two lengths around a third, and one more of another. *)
LEMMA Lengths ==
    ASSUME NEW x \in Nat, NEW y \in Nat, NEW m \in Nat, NEW a, NEW b, NEW c, a = x, b = y, c = m + 1
    PROVE  a + c + b = (x + m + y) + 1 /\ x + m + y = (x + y) + m /\ x + m + y \in Nat

OBVIOUS

IsAround(S, X, Y, A, B) ==
    /\ X \in Seq(Item) /\ Y \in Seq(Item) /\ A \in Seq(S) /\ B \in Seq(S)
    /\ Len(A) = Len(X) /\ Len(B) = Len(Y)

(* What lies around a middle has a length of its own. *)
LEMMA SplicedLengths ==
    ASSUME NEW S, NEW mids, NEW C, IsMiddle(S, mids, C), NEW X, NEW Y, NEW A, NEW B, IsAround(S, X, Y, A, B)
    PROVE  /\ Spliced(X, mids, Y) \in Seq(Item) /\ Spliced(A, C, B) \in Seq(S)
           /\ Len(Spliced(A, C, B)) = Len(Spliced(X, mids, Y)) + 1
           /\ Len(Spliced(X, mids, Y)) = (Len(X) + Len(Y)) + Len(mids)
           /\ Len(Spliced(X, mids, Y)) \in Nat
<1>1. mids \in Seq(Item) /\ C \in Seq(S) /\ Len(C) = Len(mids) + 1
  BY DEF IsMiddle
<1>a. X \in Seq(Item) /\ Y \in Seq(Item) /\ A \in Seq(S) /\ B \in Seq(S) /\ Len(A) = Len(X) /\ Len(B) = Len(Y)
  BY DEF IsAround
<1> DEFINE items == Spliced(X, mids, Y)
           children == Spliced(A, C, B)
<1>2. /\ items \in Seq(Item) /\ Len(items) = Len(X) + Len(mids) + Len(Y)
      /\ Len(mids) \in Nat /\ Len(X) \in Nat /\ Len(Y) \in Nat
  <2>1. X \in Seq(Item) /\ Y \in Seq(Item) /\ mids \in Seq(Item)
    BY <1>1, <1>a
  <2> QED
    BY <2>1, SplicedIs
<1> HIDE DEF items
<1>3. children \in Seq(S) /\ Len(children) = Len(A) + Len(C) + Len(B)
  <2>1. A \in Seq(S) /\ B \in Seq(S) /\ C \in Seq(S)
    BY <1>1, <1>a
  <2> QED
    BY <2>1, SplicedIs
<1> HIDE DEF children
<1>4. Len(A) + Len(C) + Len(B) = (Len(X) + Len(mids) + Len(Y)) + 1
      /\ Len(X) + Len(mids) + Len(Y) = (Len(X) + Len(Y)) + Len(mids)
      /\ Len(X) + Len(mids) + Len(Y) \in Nat
  BY <1>1, <1>2, <1>a, Lengths
<1> QED
  BY <1>2, <1>3, <1>4 DEF items, children

(* And so for the items and the children of a site: one child more than items. *)
LEMMA SiteLengths ==
    ASSUME NEW h, NEW f, NEW i, IsSite(h, f, i), NEW S, S \in {Sub[h - 1], Tree[h - 1]},
           NEW mids, NEW C, IsMiddle(S, mids, C)
    PROVE  /\ Spliced(f.lower, mids, f.upper) \in Seq(Item) /\ Spliced(f.left, C, f.right) \in Seq(S)
           /\ Len(Spliced(f.left, C, f.right)) = Len(Spliced(f.lower, mids, f.upper)) + 1
           /\ Len(Spliced(f.lower, mids, f.upper)) = Room(f) + Len(mids)
           /\ Len(Spliced(f.lower, mids, f.upper)) \in Nat
           /\ h \in Nat /\ h >= 1 /\ h # 1 /\ h - 1 \in Nat
<1> DEFINE X == f.lower
           Y == f.upper
           A == f.left
           B == f.right
<1>1. X \in Seq(Item) /\ Y \in Seq(Item) /\ h \in Nat /\ h >= 1 /\ h # 1 /\ h - 1 \in Nat
  BY SiteParts
<1>2. A \in Seq(S) /\ B \in Seq(S)
  BY SiteParts
<1>3. Len(A) = Len(X) /\ Len(B) = Len(Y)
  <2>1. i = Len(X) + 1 /\ i = Len(A) + 1 /\ Len(B) = Len(Y) /\ Len(X) \in Nat
    BY SiteParts
  <2>2. Len(A) \in Nat
    BY <1>2
  <2> QED
    BY <2>1, <2>2
<1>4. Room(f) = Len(X) + Len(Y)
  BY DEF Room
<1> HIDE DEF X, Y, A, B
<1>5. /\ Spliced(X, mids, Y) \in Seq(Item) /\ Spliced(A, C, B) \in Seq(S)
      /\ Len(Spliced(A, C, B)) = Len(Spliced(X, mids, Y)) + 1
      /\ Len(Spliced(X, mids, Y)) = (Len(X) + Len(Y)) + Len(mids)
      /\ Len(Spliced(X, mids, Y)) \in Nat
  BY <1>1, <1>2, <1>3, SplicedLengths DEF IsAround
<1> QED
  BY <1>1, <1>4, <1>5 DEF X, Y, A, B

(* A branch with sound children in the middle has room for what it has. *)
LEMMA SiteGood ==
    ASSUME NEW h, NEW f, NEW i, IsSite(h, f, i), NEW mids, NEW C, IsMiddle(Sub[h - 1], mids, C)
    PROVE  /\ \A n : n = Room(f) + Len(mids) => Site(f, mids, C) \in Good(h, n, n)
           /\ Len(Site(f, mids, C).items) = Room(f) + Len(mids) /\ Room(f) + Len(mids) \in Nat
<1> DEFINE items == Spliced(f.lower, mids, f.upper)
           children == Spliced(f.left, C, f.right)
           n == Room(f) + Len(mids)
<1>1. /\ items \in Seq(Item) /\ children \in Seq(Sub[h - 1]) /\ Len(children) = Len(items) + 1
      /\ Len(items) = n /\ Len(items) \in Nat
      /\ h \in Nat /\ h >= 1 /\ h # 1
  BY SiteLengths
<1> HIDE DEF items, children, n
<1>2. n \in Nat /\ n \in Int /\ Len(items) \in n .. n
  BY <1>1
<1>3. Branch(items, children) \in Good(h, n, n) /\ Branch(items, children).items = items
  <2>1. IF h = 1 THEN children = <<>> ELSE Len(children) = Len(items) + 1
    BY <1>1
  <2>2. children \in Seq(Sub[h - 1]) /\ items \in Seq(Item) /\ h \in Nat /\ h >= 1
    BY <1>1
  <2> QED
    <3>1. Branch(items, children) \in Good(h, n, n)
      BY <1>2, <2>1, <2>2, GoodMade
    <3> QED
      BY <3>1 DEF Branch
<1> QED
  BY <1>1, <1>2, <1>3 DEF Site, items, children, n

(* The nodes of such a branch. *)
LEMMA SiteNodes ==
    ASSUME NEW h, NEW f, NEW i, IsSite(h, f, i), NEW mids, NEW C, IsMiddle(Tree[h - 1], mids, C)
    PROVE  /\ Site(f, mids, C) \in Tree[h]
           /\ \A kind \in Kinds :
                 /\ NodesIn(h, Site(f, mids, C), kind) = Rest(h, f, kind) + NodesInAll(h - 1, C, kind)
                 /\ Rest(h, f, kind) \in Nat /\ NodesInAll(h - 1, C, kind) \in Nat
<1> DEFINE items == Spliced(f.lower, mids, f.upper)
           children == Spliced(f.left, C, f.right)
<1>1. /\ items \in Seq(Item) /\ children \in Seq(Tree[h - 1]) /\ Len(children) = Len(items) + 1
      /\ h \in Nat /\ h >= 1 /\ h # 1 /\ h - 1 \in Nat
  BY SiteLengths
<1>2. C \in Seq(Tree[h - 1])
  BY DEF IsMiddle
<1>3. Site(f, mids, C) = Branch(items, children) /\ Branch(items, children).children = children
  BY DEF Site, Branch
<1> HIDE DEF items
<1>5. Branch(items, children) \in Tree[h]
  <2> HIDE DEF children
  <2> QED
    BY <1>1, TreeMade
<1>6. ASSUME NEW kind \in Kinds
      PROVE  /\ NodesIn(h, Branch(items, children), kind) = Rest(h, f, kind) + NodesInAll(h - 1, C, kind)
             /\ Rest(h, f, kind) \in Nat /\ NodesInAll(h - 1, C, kind) \in Nat
  <2> DEFINE k == h - 1
             A == f.left
             B == f.right
  <2>1. NodesIn(h, Branch(items, children), kind) = Own(h, kind) + NodesInAll(k, children, kind)
    <3> HIDE DEF children
    <3> QED
      BY <1>1, <1>3, <1>5, NodesInTree
  <2>2. k \in Nat /\ A \in Seq(Tree[k]) /\ B \in Seq(Tree[k]) /\ C \in Seq(Tree[k])
    BY <1>1, <1>2, SiteParts
  <2>3. children = (A \o C) \o B
    BY DEF Spliced
  <2>5. Rest(h, f, kind) = Own(h, kind) + NodesInAll(k, A, kind) + NodesInAll(k, B, kind)
    BY DEF Rest
  <2> HIDE DEF k, A, B, children
  <2>6. /\ NodesInAll(k, (A \o C) \o B, kind) = NodesInAll(k, A, kind) + NodesInAll(k, C, kind) + NodesInAll(k, B, kind)
        /\ NodesInAll(k, A, kind) \in Nat /\ NodesInAll(k, B, kind) \in Nat /\ NodesInAll(k, C, kind) \in Nat
    BY <2>2, NodesAround
  <2>4. Own(h, kind) \in Nat
    BY DEF Own
  <2>7. /\ NodesIn(h, Branch(items, children), kind) = Rest(h, f, kind) + NodesInAll(k, C, kind)
        /\ Rest(h, f, kind) \in Nat /\ NodesInAll(k, C, kind) \in Nat
    BY <2>1, <2>3, <2>4, <2>5, <2>6
  <2> QED
    BY <2>7 DEF k
<1> QED
  BY <1>3, <1>5, <1>6

(* The nodes of two trees. *)
LEMMA NodesInTwo ==
    ASSUME NEW h \in Nat, NEW x \in Tree[h], NEW y \in Tree[h], NEW kind \in Kinds
    PROVE  NodesInAll(h, <<x, y>>, kind) = NodesIn(h, x, kind) + NodesIn(h, y, kind)
<1>1. <<x>> \in Seq(Tree[h]) /\ <<y>> \in Seq(Tree[h]) /\ <<x>> \o <<y>> = <<x, y>>
  <2> DEFINE T == Tree[h]
  <2>1. x \in T /\ y \in T
    OBVIOUS
  <2> HIDE DEF T
  <2>2. <<x>> \in Seq(T) /\ <<y>> \in Seq(T)
    BY <2>1, OneElement
  <2>3. <<x>> \o <<y>> = <<x, y>>
    BY <2>1, TwoElements
  <2> QED
    BY <2>2, <2>3 DEF T
<1>2. NodesInAll(h, <<x>>, kind) = NodesIn(h, x, kind) /\ NodesInAll(h, <<y>>, kind) = NodesIn(h, y, kind)
  BY NodesInOne
<1> DEFINE p == <<x>>
           q == <<y>>
<1>3. p \in Seq(Tree[h]) /\ q \in Seq(Tree[h])
  BY <1>1
<1> HIDE DEF p, q
<1>4. NodesInAll(h, p \o q, kind) = NodesInAll(h, p, kind) + NodesInAll(h, q, kind)
  BY <1>3, NodesInConcat
<1> QED
  BY <1>1, <1>2, <1>4 DEF p, q

-----------------------------------------------------------------------------
(* What the operations do to a branch around a child.                        *)

(* The child of a branch around it. *)
LEMMA SiteChild ==
    ASSUME NEW h, NEW f, NEW i, IsSite(h, f, i), NEW mids, NEW c \in Tree[h - 1]
    PROVE  Site(f, mids, <<c>>).children[i] = c
<1> DEFINE T == Tree[h - 1]
           A == f.left
           B == f.right
<1>1. A \in Seq(T) /\ B \in Seq(T) /\ i = Len(A) + 1 /\ c \in T
  BY SiteParts
<1> HIDE DEF T
<1>2. Spliced(A, <<c>>, B)[i] = c
  <2> HIDE DEF A, B
  <2> QED
    BY <1>1, SplicedOne
<1> QED
  BY <1>2, SiteItems

(* The child is replaced. *)
LEMMA SiteSetChild ==
    ASSUME NEW h, NEW f, NEW i, IsSite(h, f, i), NEW mids, NEW c \in Tree[h - 1], NEW d \in Tree[h - 1]
    PROVE  [Site(f, mids, <<c>>) EXCEPT !.children[i] = d] = Site(f, mids, <<d>>)
<1> DEFINE T == Tree[h - 1]
           A == f.left
           B == f.right
<1>1. A \in Seq(T) /\ B \in Seq(T) /\ i = Len(A) + 1 /\ c \in T /\ d \in T
  BY SiteParts
<1> HIDE DEF T, A, B
<1>3. ReplaceAt(Spliced(A, <<c>>, B), i, d) = Spliced(A, <<d>>, B)
  BY <1>1, ReplaceAtSpliced
<1> DEFINE items == Spliced(f.lower, mids, f.upper)
           before == Spliced(A, <<c>>, B)
           after == Spliced(A, <<d>>, B)
<1>4. Site(f, mids, <<c>>) = [items |-> items, children |-> before]
      /\ Site(f, mids, <<d>>) = [items |-> items, children |-> after]
  BY DEF Site, Branch, A, B
<1>5. [before EXCEPT ![i] = d] = after
  BY <1>3 DEF ReplaceAt
<1> HIDE DEF items, before, after
<1>6. [[items |-> items, children |-> before] EXCEPT !.children[i] = d]
      = [items |-> items, children |-> [before EXCEPT ![i] = d]]
  OBVIOUS
<1> QED
  BY <1>4, <1>5, <1>6

SplitsInto(h, f, i, c, lean_left, l, m, r) ==
    /\ IsSite(h, f, i) /\ c \in Tree[h - 1] /\ l \in Tree[h - 1] /\ m \in Item /\ r \in Tree[h - 1]
    /\ node_split(c, lean_left) = [left |-> l, median |-> m, right |-> r]

(* The child is split. *)
LEMMA SiteSplit ==
    ASSUME NEW h, NEW f, NEW i, NEW c, NEW lean_left, NEW l, NEW m, NEW r,
           SplitsInto(h, f, i, c, lean_left, l, m, r)
    PROVE  SplitChild(Site(f, <<>>, <<c>>), i, lean_left) = Site(f, <<m>>, <<l, r>>)
<1> DEFINE node == Site(f, <<>>, <<c>>)
           T == Tree[h - 1]
           A == f.left
           B == f.right
           X == f.lower
           Y == f.upper
<1>0. /\ IsSite(h, f, i) /\ c \in T /\ l \in T /\ m \in Item /\ r \in T
      /\ node_split(c, lean_left) = [left |-> l, median |-> m, right |-> r]
  BY DEF SplitsInto
<1>1. A \in Seq(T) /\ B \in Seq(T) /\ i = Len(A) + 1 /\ c \in T /\ l \in T /\ r \in T
  BY <1>0, SiteParts
<1>2. X \in Seq(Item) /\ Y \in Seq(Item) /\ i = Len(X) + 1 /\ m \in Item
  BY <1>0, SiteParts
<1>3. node.children[i] = c
  BY <1>0, SiteChild
<1>4. node.items = Spliced(X, <<>>, Y) /\ node.children = Spliced(A, <<c>>, B)
  BY SiteItems
<1> HIDE DEF node
<1>5. SplitChild(node, i, lean_left) =
         [items |-> InsertAt(node.items, i, m),
          children |-> InsertAt(ReplaceAt(node.children, i, l), i + 1, r)]
  <2> DEFINE s == node_split(c, lean_left)
  <2>1. s.left = l /\ s.median = m /\ s.right = r
    BY <1>0
  <2> HIDE DEF s
  <2>2. SplitChild(node, i, lean_left) =
         [items |-> InsertAt(node.items, i, s.median),
          children |-> InsertAt(ReplaceAt(node.children, i, s.left), i + 1, s.right)]
    BY <1>3 DEF SplitChild, s
  <2> QED
    BY <2>1, <2>2
<1> HIDE DEF T, A, B, X, Y
<1>6. InsertAt(Spliced(X, <<>>, Y), i, m) = Spliced(X, <<m>>, Y)
  BY <1>2, InsertAtSpliced
<1>7. ReplaceAt(Spliced(A, <<c>>, B), i, l) = Spliced(A, <<l>>, B)
  BY <1>1, ReplaceAtSpliced
<1>8. InsertAt(Spliced(A, <<l>>, B), i + 1, r) = Spliced(A, <<l, r>>, B)
  <2> DEFINE j == i + 1
  <2>1. j = Len(A) + 2
    <3>1. Len(A) \in Nat
      BY <1>1
    <3> QED
      BY <1>1, <3>1
  <2> HIDE DEF j
  <2>2. InsertAt(Spliced(A, <<l>>, B), j, r) = Spliced(A, <<l, r>>, B)
    BY <1>1, <2>1, TwoInSpliced
  <2> QED
    BY <2>2 DEF j
<1>9. Site(f, <<m>>, <<l, r>>) = [items |-> Spliced(X, <<m>>, Y), children |-> Spliced(A, <<l, r>>, B)]
  BY DEF Site, Branch, X, Y, A, B
<1> QED
  BY <1>4, <1>5, <1>6, <1>7, <1>8, <1>9 DEF node

(* The parts of what an insertion promises. *)
LEMMA SizedSetParts ==
    ASSUME NEW h, NEW node, NEW p, NEW s, SizedSet(h, node, p, s)
    PROVE  /\ s = [node |-> s.node, prev |-> s.prev, pool |-> s.pool]
           /\ s.node \in Good(h, Len(node.items), Len(node.items) + 1)
           /\ s.prev \in Item \cup {NoItem}
           /\ s.prev # NoItem => Len(s.node.items) = Len(node.items)
           /\ s.pool \in Pool
           /\ \A kind \in Kinds : s.pool[kind].cap = p[kind].cap
           /\ \A kind \in Kinds : s.pool[kind].len <= p[kind].len
           /\ h = 1 => \A kind \in Kinds : s.pool[kind].len = p[kind].len
           /\ h # 1 => /\ p["leaves"].len - 1 <= s.pool["leaves"].len
                       /\ p["branches"].len - (h - 2) <= s.pool["branches"].len
           /\ \A kind \in Kinds :
                 NodesIn(h, s.node, kind) + s.pool[kind].len = NodesIn(h, node, kind) + p[kind].len

BY DEF SizedSet

(* What a sound tree is. *)
LEMMA InGood ==
    ASSUME NEW h, NEW lo, NEW hi, NEW node
    PROVE  node \in Good(h, lo, hi) <=>
              node \in Tree[h] /\ Len(node.items) \in lo .. hi /\ node.children \in Seq(Sub[h - 1])

BY DEF Good

(* A child after an item was set in it, and its nodes. *)
LEMMA ChildSet ==
    ASSUME NEW k \in Nat, k >= 1, NEW child \in Sub[k], NEW p, NEW c, SizedSet(k, child, p, c)
    PROVE  /\ c.node \in Tree[k] /\ Len(c.node.items) \in Nat
           /\ ~(c.prev = NoItem /\ Full(c.node)) => c.node \in Sub[k]
           /\ Full(c.node) => c.node \in Good(k, MaxItems - 1, MaxItems - 1)
<1> DEFINE n == Len(child.items)
           m == Len(c.node.items)
<1>1. n \in MinItems .. MaxItems - 2
  BY SubIsGood DEF Good
<1>2. /\ c.node \in Good(k, n, n + 1)
      /\ c.prev # NoItem => m = n
  BY SizedSetParts
<1>3. c.node \in Tree[k] /\ m \in n .. n + 1 /\ c.node.children \in Seq(Sub[k - 1])
  <2> DEFINE n1 == n + 1
  <2>1. c.node \in Good(k, n, n1)
    BY <1>2
  <2> HIDE DEF n, n1
  <2>2. c.node \in Tree[k] /\ Len(c.node.items) \in n .. n1 /\ c.node.children \in Seq(Sub[k - 1])
    BY <2>1, InGood, Zenon
  <2> QED
    BY <2>2 DEF n, n1
<1>4. n \in Nat /\ m \in Nat /\ MaxItems \in Nat /\ MinItems \in Nat /\ MaxItems >= 4
  <2>1. MinItems \in Nat /\ MaxItems \in Nat /\ MaxItems >= 4
    BY MinItemsBound
  <2> HIDE DEF n, m
  <2> QED
    BY <1>1, <1>3, <2>1
<1>5. ASSUME ~(c.prev = NoItem /\ Full(c.node)) PROVE c.node \in Sub[k]
  <2>1. m \in MinItems .. MaxItems - 2
    <3>1. CASE c.prev # NoItem
      <4>1. m = n
        BY <3>1, <1>2
      <4> HIDE DEF n, m
      <4> QED
        BY <4>1, <1>1
    <3>2. CASE c.prev = NoItem
      <4>1. m # MaxItems - 1
        BY <1>5, <3>2 DEF Full
      <4> HIDE DEF n, m
      <4> QED
        BY <4>1, <1>1, <1>3, <1>4
    <3> QED
      BY <3>1, <3>2
  <2>2. c.node \in Good(k, MinItems, MaxItems - 2)
    BY <1>3, <2>1 DEF Good
  <2> QED
    BY <2>2, SubIsGood
<1>6. ASSUME Full(c.node) PROVE c.node \in Good(k, MaxItems - 1, MaxItems - 1)
  <2>1. m \in MaxItems - 1 .. MaxItems - 1
    BY <1>4, <1>6 DEF Full
  <2> QED
    BY <1>3, <2>1 DEF Good
<1> QED
  BY <1>3, <1>4, <1>5, <1>6

IsSetBelow(h, lo, hi, node, lean_left, p, i, c, s) ==
    /\ h \in Nat /\ h >= 2 /\ lo \in Int /\ hi \in Int /\ node \in Good(h, lo, hi)
    /\ lean_left \in BOOLEAN /\ p \in Pool
    /\ i \in 1 .. Len(node.items) + 1 /\ SizedSet(h - 1, node.children[i], p, c)
    /\ s = SetBelow(node, i, c, lean_left)

(* The counting of nodes in an insertion: below, and with a split. *)
LEMMA SetCounts ==
    ASSUME NEW rest \in Nat, NEW child \in Nat, NEW new \in Nat, NEW old \in Int, NEW q \in Int,
           NEW own \in Nat, new + q = child + old
    PROVE  /\ (rest + new) + q = (rest + child) + old
           /\ (rest + (new + own)) + (q - own) = (rest + child) + old

OBVIOUS

(* An item set below a branch. *)
LEMMA SetBelowSized ==
    ASSUME NEW h, NEW lo, NEW hi, NEW node, NEW lean_left, NEW p, NEW i, NEW c, NEW s,
           IsSetBelow(h, lo, hi, node, lean_left, p, i, c, s)
    PROVE  SizedSet(h, node, p, s)
<1> DEFINE child == node.children[i]
           k == h - 1
           n == Len(node.items)
<1>h. /\ h \in Nat /\ h >= 2 /\ lo \in Int /\ hi \in Int /\ node \in Good(h, lo, hi)
      /\ lean_left \in BOOLEAN /\ p \in Pool
      /\ i \in 1 .. n + 1 /\ SizedSet(k, child, p, c)
      /\ s = SetBelow(node, i, c, lean_left)
  BY DEF IsSetBelow
<1>0. k \in Nat /\ k >= 1 /\ h >= 1 /\ h # 1 /\ h = k + 1
  BY <1>h
<1>1. /\ \E f : IsSite(h, f, i) /\ node = Site(f, <<>>, <<child>>)
      /\ child \in Sub[k]
  BY <1>h, SiteAtChild
<1>p. PICK f : IsSite(h, f, i) /\ node = Site(f, <<>>, <<child>>)
  BY <1>1
<1> HIDE DEF child
<1>2. child \in Tree[k]
  BY <1>0, <1>1, SubIsGood
<1>3. /\ c.node \in Tree[k]
      /\ ~(c.prev = NoItem /\ Full(c.node)) => c.node \in Sub[k]
      /\ Full(c.node) => c.node \in Good(k, MaxItems - 1, MaxItems - 1)
  BY <1>h, <1>0, <1>1, ChildSet
<1>4. /\ c = [node |-> c.node, prev |-> c.prev, pool |-> c.pool]
      /\ c.prev \in Item \cup {NoItem}
      /\ c.pool \in Pool
      /\ \A kind \in Kinds : c.pool[kind].cap = p[kind].cap
      /\ \A kind \in Kinds : c.pool[kind].len <= p[kind].len
      /\ k = 1 => \A kind \in Kinds : c.pool[kind].len = p[kind].len
      /\ k # 1 => /\ p["leaves"].len - 1 <= c.pool["leaves"].len
                  /\ p["branches"].len - (k - 2) <= c.pool["branches"].len
      /\ \A kind \in Kinds :
            NodesIn(k, c.node, kind) + c.pool[kind].len = NodesIn(k, child, kind) + p[kind].len
  <2> HIDE DEF k
  <2> QED
    BY <1>h, SizedSetParts
<1>n. n = Room(f) /\ Room(f) \in Nat /\ n \in Nat
  <2>1. IsMiddle(Sub[h - 1], <<>>, <<child>>)
    BY <1>1, MiddleOfOne
  <2>2. Len(Site(f, <<>>, <<child>>).items) = Room(f) + Len(<<>>) /\ Room(f) + Len(<<>>) \in Nat
    BY <1>p, <2>1, SiteGood
  <2>3. Room(f) \in Nat
    BY <1>p, SiteParts
  <2>4. Len(<<>>) = 0
    OBVIOUS
  <2> QED
    BY <1>p, <2>2, <2>3, <2>4
<1> HIDE DEF n
<1>9. ASSUME NEW kind \in Kinds
      PROVE  /\ c.pool[kind].len \in Int /\ p[kind].len \in Int
             /\ NodesIn(k, c.node, kind) \in Nat /\ NodesIn(k, child, kind) \in Nat
             /\ Own(k, kind) \in Nat /\ Rest(h, f, kind) \in Nat
             /\ NodesIn(h, node, kind) = Rest(h, f, kind) + NodesIn(k, child, kind)
  <2>1. c.pool[kind].len \in Int /\ p[kind].len \in Int
    BY <1>h, <1>4, GroupOf
  <2>2. Own(k, kind) \in Nat
    BY DEF Own
  <2>3. IsMiddle(Tree[h - 1], <<>>, <<child>>)
    BY <1>2, MiddleOfOne
  <2>4. /\ NodesIn(h, Site(f, <<>>, <<child>>), kind) = Rest(h, f, kind) + NodesInAll(k, <<child>>, kind)
        /\ Rest(h, f, kind) \in Nat
    BY <1>p, <2>3, SiteNodes
  <2> HIDE DEF k
  <2>5. NodesIn(k, c.node, kind) \in Nat /\ NodesIn(k, child, kind) \in Nat
    BY <1>0, <1>2, <1>3, NodesInNat
  <2>6. NodesInAll(k, <<child>>, kind) = NodesIn(k, child, kind)
    BY <1>0, <1>2, NodesInOne
  <2> QED
    BY <1>p, <2>1, <2>2, <2>4, <2>5, <2>6
<1> DEFINE below == [node EXCEPT !.children[i] = c.node]
<1>5. below = Site(f, <<>>, <<c.node>>)
  <2>1. [Site(f, <<>>, <<child>>) EXCEPT !.children[i] = c.node] = Site(f, <<>>, <<c.node>>)
    BY <1>p, <1>2, <1>3, SiteSetChild
  <2> QED
    BY <1>p, <2>1
<1> HIDE DEF below, k
<1>k. k = h - 1
  BY DEF k
<1>l. "leaves" \in Kinds /\ "branches" \in Kinds
  BY DEF Kinds
<1>11. CASE c.prev = NoItem /\ Full(c.node)
  <2> DEFINE sp == node_split(c.node, lean_left)
             l == sp.left
             r == sp.right
             m == sp.median
             q == gimme_node(c.pool, Kind(c.node))
             new == Site(f, <<m>>, <<l, r>>)
  <2>1. l \in Sub[k] /\ r \in Sub[k] /\ m \in Item /\ c.node = Joined(l, m, r)
    BY <1>h, <1>0, <1>3, <1>11, NodeSplit
  <2>2. sp = [left |-> l, median |-> m, right |-> r]
    BY DEF node_split
  <2> HIDE DEF l, r, m, sp
  <2>3. l \in Tree[k] /\ r \in Tree[k]
    BY <1>0, <2>1, SubIsGood
  <2>4. SplitChild(below, i, lean_left) = new
    <3>1. SplitsInto(h, f, i, c.node, lean_left, l, m, r)
      BY <1>p, <1>3, <1>k, <2>1, <2>2, <2>3 DEF sp, SplitsInto
    <3>2. SplitChild(Site(f, <<>>, <<c.node>>), i, lean_left) = Site(f, <<m>>, <<l, r>>)
      BY <3>1, SiteSplit
    <3> QED
      BY <1>5, <3>2 DEF new
  <2>5. s = [node |-> new, prev |-> NoItem, pool |-> q]
    <3>1. s = [node |-> SplitChild(below, i, lean_left), prev |-> NoItem, pool |-> q]
      BY <1>h, <1>11 DEF SetBelow, below
    <3> QED
      BY <2>4, <3>1
  <2> HIDE DEF q, new
  <2>6. s.node = new /\ s.prev = NoItem /\ s.pool = q /\ s = [node |-> s.node, prev |-> s.prev, pool |-> s.pool]
    BY <2>5
  <2>7. new \in Good(h, n, n + 1)
    <3>1. IsMiddle(Sub[h - 1], <<m>>, <<l, r>>)
      BY <1>k, <2>1, MiddleOfTwo
    <3>2. Len(<<m>>) = 1
      OBVIOUS
    <3> DEFINE n1 == n + 1
               one == <<m>>
               two == <<l, r>>
    <3>3. n1 = Room(f) + Len(one) /\ n1 \in Int
      BY <1>n, <3>2
    <3>4. IsMiddle(Sub[h - 1], one, two) /\ new = Site(f, one, two)
      BY <3>1 DEF new
    <3> HIDE DEF n1, one, two
    <3>5. Site(f, one, two) \in Good(h, n1, n1)
      BY <1>p, <3>3, <3>4, SiteGood
    <3>6. n <= n1 /\ n \in Int
      BY <1>n DEF n1
    <3>7. Good(h, n1, n1) \subseteq Good(h, n, n1)
      BY <3>3, <3>6, GoodWithin
    <3> QED
      BY <3>4, <3>5, <3>7 DEF n1
  <2>8. Kind(c.node) = KindAt(k) /\ KindAt(k) \in Kinds
    BY <1>0, <1>3, TreeParts DEF Kind, KindAt, Kinds
  <2>9. /\ q \in Pool
        /\ q[KindAt(k)].len = c.pool[KindAt(k)].len - 1
        /\ \A kind \in Kinds \ {KindAt(k)} : q[kind].len = c.pool[kind].len
        /\ \A kind \in Kinds : q[kind].cap = c.pool[kind].cap
    BY <1>4, <2>8, GimmeNode DEF q
  <2>10. ASSUME NEW kind \in Kinds
         PROVE  q[kind].len = c.pool[kind].len - Own(k, kind) /\ q[kind].len \in Int
    <3>1. CASE kind = KindAt(k)
      BY <3>1, <2>9, <1>9 DEF Own
    <3>2. CASE kind # KindAt(k)
      BY <3>2, <2>9, <1>9 DEF Own
    <3> QED
      BY <3>1, <3>2
  <2>11. ASSUME NEW kind \in Kinds
         PROVE  NodesIn(h, new, kind) = Rest(h, f, kind) + (NodesIn(k, c.node, kind) + Own(k, kind))
    <3>1. IsMiddle(Tree[h - 1], <<m>>, <<l, r>>)
      BY <1>k, <2>1, <2>3, MiddleOfTwo
    <3>2. NodesIn(h, Site(f, <<m>>, <<l, r>>), kind) = Rest(h, f, kind) + NodesInAll(h - 1, <<l, r>>, kind)
      BY <1>p, <3>1, SiteNodes
    <3>3. NodesInAll(k, <<l, r>>, kind) = NodesIn(k, l, kind) + NodesIn(k, r, kind)
      BY <1>0, <2>3, NodesInTwo
    <3>4. NodesIn(k, l, kind) + NodesIn(k, r, kind) = NodesIn(k, Joined(l, m, r), kind) + Own(k, kind)
      BY <1>0, <2>1, <2>3, JoinedTree
    <3> QED
      BY <1>k, <2>1, <3>2, <3>3, <3>4 DEF new
  <2>12. ASSUME NEW kind \in Kinds
         PROVE  NodesIn(h, new, kind) + q[kind].len = NodesIn(h, node, kind) + p[kind].len
    <3>1. NodesIn(k, c.node, kind) + c.pool[kind].len = NodesIn(k, child, kind) + p[kind].len
      BY <1>4
    <3>2. (Rest(h, f, kind) + (NodesIn(k, c.node, kind) + Own(k, kind))) + (c.pool[kind].len - Own(k, kind))
          = (Rest(h, f, kind) + NodesIn(k, child, kind)) + p[kind].len
      BY <1>9, <3>1, SetCounts
    <3> QED
      BY <1>9, <2>10, <2>11, <3>2
  <2>13. /\ p["leaves"].len - 1 <= q["leaves"].len
         /\ p["branches"].len - (h - 2) <= q["branches"].len
    <3>2. /\ q["leaves"].len = c.pool["leaves"].len - Own(k, "leaves")
          /\ q["branches"].len = c.pool["branches"].len - Own(k, "branches")
          /\ c.pool["leaves"].len \in Int /\ c.pool["branches"].len \in Int
          /\ p["leaves"].len \in Int /\ p["branches"].len \in Int
      BY <2>10, <1>9, <1>l
    <3>3. CASE k = 1
      <4>1. Own(k, "leaves") = 1 /\ Own(k, "branches") = 0 /\ h - 2 = 0
        BY <1>0, <3>3 DEF Own, KindAt
      <4>2. c.pool["leaves"].len = p["leaves"].len /\ c.pool["branches"].len = p["branches"].len
        BY <1>4, <1>l, <3>3
      <4> QED
        BY <4>1, <4>2, <3>2
    <3>4. CASE k # 1
      <4>1. Own(k, "leaves") = 0 /\ Own(k, "branches") = 1 /\ h - 2 = (k - 2) + 1 /\ k - 2 \in Int
        BY <1>0, <3>4 DEF Own, KindAt
      <4>2. /\ p["leaves"].len - 1 <= c.pool["leaves"].len
            /\ p["branches"].len - (k - 2) <= c.pool["branches"].len
        BY <1>4, <3>4
      <4> QED
        BY <4>1, <4>2, <3>2
    <3> QED
      BY <3>3, <3>4
  <2>14. ASSUME NEW kind \in Kinds PROVE q[kind].len <= p[kind].len
    <3>1. c.pool[kind].len <= p[kind].len /\ q[kind].len = c.pool[kind].len - Own(k, kind)
      BY <1>4, <2>10
    <3> QED
      BY <1>9, <3>1
  <2>15. \A kind \in Kinds : q[kind].cap = p[kind].cap
    BY <1>4, <2>9
  <2> QED
    BY <1>0, <2>6, <2>7, <2>9, <2>12, <2>13, <2>14, <2>15 DEF SizedSet, n
<1>12. CASE ~(c.prev = NoItem /\ Full(c.node))
  <2>1. s = [c EXCEPT !.node = below]
    BY <1>h, <1>12 DEF SetBelow, below
  <2>2. s.node = below /\ s.prev = c.prev /\ s.pool = c.pool
        /\ s = [node |-> s.node, prev |-> s.prev, pool |-> s.pool]
    BY <2>1, <1>4
  <2>3. c.node \in Sub[k]
    BY <1>3, <1>12
  <2>4. below \in Good(h, n, n) /\ Len(below.items) = n
    <3>1. IsMiddle(Sub[h - 1], <<>>, <<c.node>>)
      BY <1>k, <2>3, MiddleOfOne
    <3>2. Len(<<>>) = 0
      OBVIOUS
    <3> DEFINE none == <<>>
               one == <<c.node>>
    <3>3. n = Room(f) + Len(none)
      BY <1>n, <3>2
    <3>4. IsMiddle(Sub[h - 1], none, one) /\ below = Site(f, none, one)
      BY <1>5, <3>1
    <3> HIDE DEF none, one
    <3> QED
      BY <1>p, <3>3, <3>4, SiteGood
  <2>5. below \in Good(h, n, n + 1)
    <3> DEFINE n1 == n + 1
    <3>1. n \in Int /\ n1 \in Int /\ n <= n1
      BY <1>n
    <3> HIDE DEF n1
    <3>2. Good(h, n, n) \subseteq Good(h, n, n1)
      BY <3>1, GoodWithin
    <3> QED
      BY <2>4, <3>2 DEF n1
  <2>6. ASSUME NEW kind \in Kinds
        PROVE  NodesIn(h, below, kind) + c.pool[kind].len = NodesIn(h, node, kind) + p[kind].len
    <3>1. IsMiddle(Tree[h - 1], <<>>, <<c.node>>)
      BY <1>k, <1>3, MiddleOfOne
    <3>2. NodesIn(h, Site(f, <<>>, <<c.node>>), kind) = Rest(h, f, kind) + NodesInAll(h - 1, <<c.node>>, kind)
      BY <1>p, <3>1, SiteNodes
    <3>3. NodesInAll(k, <<c.node>>, kind) = NodesIn(k, c.node, kind)
      BY <1>0, <1>3, NodesInOne
    <3>4. NodesIn(k, c.node, kind) + c.pool[kind].len = NodesIn(k, child, kind) + p[kind].len
      BY <1>4
    <3>5. (Rest(h, f, kind) + NodesIn(k, c.node, kind)) + c.pool[kind].len
          = (Rest(h, f, kind) + NodesIn(k, child, kind)) + p[kind].len
      BY <1>9, <3>4, SetCounts
    <3> QED
      BY <1>k, <1>5, <1>9, <3>2, <3>3, <3>5
  <2>7. /\ p["leaves"].len - 1 <= c.pool["leaves"].len
        /\ p["branches"].len - (h - 2) <= c.pool["branches"].len
    <3>2. /\ c.pool["leaves"].len \in Int /\ c.pool["branches"].len \in Int
          /\ p["leaves"].len \in Int /\ p["branches"].len \in Int
      BY <1>9, <1>l
    <3>3. CASE k = 1
      <4>1. c.pool["leaves"].len = p["leaves"].len /\ c.pool["branches"].len = p["branches"].len /\ h - 2 = 0
        BY <1>0, <1>4, <1>l, <3>3
      <4> QED
        BY <4>1, <3>2
    <3>4. CASE k # 1
      <4>1. /\ p["leaves"].len - 1 <= c.pool["leaves"].len
            /\ p["branches"].len - (k - 2) <= c.pool["branches"].len
        BY <1>4, <3>4
      <4>2. h - 2 = (k - 2) + 1 /\ k - 2 \in Int
        BY <1>0
      <4> QED
        BY <4>1, <4>2, <3>2
    <3> QED
      BY <3>3, <3>4
  <2> QED
    BY <1>0, <1>4, <2>2, <2>4, <2>5, <2>6, <2>7 DEF SizedSet, n
<1> QED
  BY <1>11, <1>12

IsSetting(item, lean_left, p) == item \in Item /\ lean_left \in BOOLEAN /\ p \in Pool

(* node_set on a tree that is as it should be between calls. *)
LEMMA NodeSetSized ==
    ASSUME NEW item, NEW lean_left, NEW p, IsSetting(item, lean_left, p),
           NEW h \in Nat, h >= 1, NEW tree \in Good(h, 0, MaxItems - 2)
    PROVE  SizedSet(h, tree, p, node_set(h, tree, item, lean_left, p))
<1> DEFINE T(k) == \A node \in Good(k, 0, MaxItems - 2) : SizedSet(k, node, p, node_set(k, node, item, lean_left, p))
           S == {k \in Nat : k >= 1 => T(k)}
<1>0. item \in Item /\ lean_left \in BOOLEAN /\ p \in Pool
  BY DEF IsSetting
<1>m. 0 \in Int /\ MaxItems - 2 \in Int /\ MinItems \in Int /\ MinItems >= 0
  BY MinItemsBound
<1>1. 0 \in S
  OBVIOUS
<1>2. ASSUME NEW k \in Nat, k \in S PROVE k + 1 \in S
  <2> DEFINE h1 == k + 1
  <2>0. h1 \in Nat /\ h1 >= 1 /\ h1 - 1 = k
    OBVIOUS
  <2>k. k >= 1 => T(k)
    BY <1>2
  <2> HIDE DEF h1, T
  <2>1. ASSUME NEW node, node \in Good(h1, 0, MaxItems - 2)
        PROVE  SizedSet(h1, node, p, node_set(h1, node, item, lean_left, p))
    <3> DEFINE i == node_find(node, item.key)
               s == node_set(h1, node, item, lean_left, p)
    <3>1. /\ node \in Tree[h1] /\ node.items \in Seq(Item)
          /\ IsLeaf(node) <=> h1 = 1
      BY <2>0, <2>1, <1>m, GoodParts
    <3>2. i \in 1 .. Len(node.items) + 1
      BY <3>1, PlaceOfKey
    <3>3. s = IF HasAt(node, i, item.key) \/ IsLeaf(node) THEN SetHere(node, i, item, p)
              ELSE SetBelow(node, i, node_set(h1 - 1, node.children[i], item, lean_left, p), lean_left)
      BY <1>0, <2>0, <3>1, NodeSetIs
    <3> HIDE DEF i, s
    <3>4. CASE HasAt(node, i, item.key) \/ IsLeaf(node)
      <4>1. s = SetHere(node, i, item, p)
        BY <3>3, <3>4
      <4>2. SizedSet(h1, node, p, s)
        BY <1>0, <1>m, <2>0, <2>1, <3>2, <3>4, <4>1, SetHereSized
      <4> QED
        BY <4>2 DEF s
    <3>5. CASE ~(HasAt(node, i, item.key) \/ IsLeaf(node))
      <4> DEFINE c == node_set(k, node.children[i], item, lean_left, p)
                 child == node.children[i]
      <4>1. h1 >= 2 /\ k >= 1
        <5>1. h1 # 1
          BY <3>1, <3>5
        <5> QED
          BY <5>1, <2>0
      <4>2. s = SetBelow(node, i, c, lean_left)
        BY <3>3, <3>5, <2>0
      <4>3. child \in Sub[k]
        BY <1>m, <2>0, <2>1, <3>2, <4>1, SiteAtChild
      <4>4. child \in Good(k, 0, MaxItems - 2)
        <5>1. child \in Good(k, MinItems, MaxItems - 2)
          BY <4>1, <4>3, SubIsGood
        <5> HIDE DEF child
        <5> QED
          BY <5>1, <1>m, GoodWithin
      <4>5. SizedSet(k, child, p, c)
        BY <2>k, <4>1, <4>4 DEF T
      <4> HIDE DEF c
      <4>6. IsSetBelow(h1, 0, MaxItems - 2, node, lean_left, p, i, c, s)
        BY <1>0, <1>m, <2>0, <2>1, <3>2, <4>1, <4>2, <4>5 DEF IsSetBelow
      <4>7. SizedSet(h1, node, p, s)
        BY <4>6, SetBelowSized
      <4> QED
        BY <4>7 DEF s
    <3> QED
      BY <3>4, <3>5
  <2>2. T(h1)
    BY <2>1 DEF T
  <2> QED
    BY <2>0, <2>2 DEF h1
<1>3. h \in S
  <2> HIDE DEF S
  <2> QED
    BY <1>1, <1>2, SetInduction
<1> QED
  BY <1>3

-----------------------------------------------------------------------------
(* Filling the pool.                                                         *)

\* A pool no group of which gave away more than it had, or has more than room.
PoolOk(p) == p \in Pool /\ \A kind \in Kinds : 0 <= p[kind].len /\ p[kind].len <= p[kind].cap

(* One allocation of fill_pool leaves a pool, and no group with fewer nodes. *)
LEMMA FillStepOk ==
    ASSUME NEW p, PoolOk(p), NEW kind \in Kinds
    PROVE  /\ PoolOk(FillStep(p, kind))
           /\ \A k \in Kinds : p[k].len <= FillStep(p, kind)[k].len
<1>1. p \in Pool /\ \A k \in Kinds : 0 <= p[k].len /\ p[k].len <= p[k].cap
  BY DEF PoolOk
<1>2. ASSUME NEW k \in Kinds PROVE p[k].len \in Int /\ p[k].cap \in Nat /\ p[k] = [len |-> p[k].len, cap |-> p[k].cap]
  BY <1>1, GroupOf DEF Group
<1> DEFINE g == p[kind]
           n == IF g.len = g.cap THEN [len |-> g.len, cap |-> IF g.cap = 0 THEN 1 ELSE 2 * g.cap]
                ELSE [len |-> g.len + 1, cap |-> g.cap]
<1>3. FillStep(p, kind) = Regroup(p, kind, n)
  <2>1. CASE g.len = g.cap
    <3>1. grow_group(g) = [len |-> g.len, cap |-> IF g.cap = 0 THEN 1 ELSE 2 * g.cap]
      <4>1. g \in Group
        BY <1>1, GroupOf
      <4> HIDE DEF g
      <4> QED
        BY <4>1 DEF grow_group, Group
    <3> QED
      BY <2>1, <3>1 DEF FillStep, Regroup
  <2>2. CASE g.len # g.cap
    <3>1. [g EXCEPT !.len = @ + 1] = [len |-> g.len + 1, cap |-> g.cap]
      <4>1. g \in Group
        BY <1>1, GroupOf
      <4> HIDE DEF g
      <4> QED
        BY <4>1 DEF Group
    <3> QED
      BY <2>2, <3>1 DEF FillStep, Regroup
  <2> QED
    BY <2>1, <2>2
<1>4. g.len \in Int /\ g.cap \in Nat /\ 0 <= g.len /\ g.len <= g.cap
  BY <1>1, <1>2
<1> HIDE DEF g
<1>5. n \in Group /\ 0 <= n.len /\ n.len <= n.cap /\ g.len <= n.len
  BY <1>4 DEF Group
<1> HIDE DEF n
<1> DEFINE q == Regroup(p, kind, n)
<1>6. q \in Pool /\ q[kind] = n /\ \A k \in Kinds \ {kind} : q[k] = p[k]
  BY <1>1, <1>5, GroupReplaced
<1> HIDE DEF q
<1>7. ASSUME NEW k \in Kinds PROVE 0 <= q[k].len /\ q[k].len <= q[k].cap /\ p[k].len <= q[k].len
  <2>1. CASE k = kind
    <3>1. q[k] = n /\ p[k] = g
      BY <2>1, <1>6 DEF g
    <3> QED
      BY <3>1, <1>5
  <2>2. CASE k # kind
    <3>1. q[k] = p[k]
      BY <2>2, <1>6
    <3>2. p[k].len \in Int /\ 0 <= p[k].len /\ p[k].len <= p[k].cap
      BY <1>1, <1>2
    <3>3. p[k].len <= p[k].len
      BY <3>2
    <3> HIDE DEF n
    <3> QED
      BY <3>1, <3>2, <3>3, Zenon
  <2> QED
    BY <2>1, <2>2
<1> QED
  BY <1>3, <1>6, <1>7 DEF PoolOk, q

(* fill_pool, whatever it could allocate. *)
LEMMA FillPoolOk ==
    ASSUME NEW p, PoolOk(p), NEW h \in Nat, NEW mallocs \in Nat
    PROVE  /\ PoolOk(fill_pool(p, h, mallocs).pool)
           /\ \A k \in Kinds : p[k].len <= fill_pool(p, h, mallocs).pool[k].len
           /\ fill_pool(p, h, mallocs).ok \in BOOLEAN
           /\ fill_pool(p, h, mallocs).ok =>
                 /\ fill_pool(p, h, mallocs).pool["leaves"].len >= 1
                 /\ fill_pool(p, h, mallocs).pool["branches"].len >= h
<1>1. p \in Pool
  BY DEF PoolOk
<1>2. PICK after : /\ after = [m \in Nat |-> FillAt(m, p, h, after[m - 1])]
                   /\ \A m \in Nat : fill_pool(p, h, m) = [pool |-> after[m], ok |-> FilledFor(after[m], h)]
  BY <1>1, FillPoolIs
<1> DEFINE Fine(q) == PoolOk(q) /\ \A k \in Kinds : p[k].len <= q[k].len
           S == {m \in Nat : Fine(after[m])}
<1>3. \A m \in Nat : after[m] = FillAt(m, p, h, after[m - 1])
  BY <1>2
<1>4. ASSUME NEW q, PoolOk(q), NEW k \in Kinds PROVE q[k].len \in Int
  BY <1>4, GroupOf DEF PoolOk
<1>5. 0 \in S
  <2>1. after[0] = p
    BY <1>3 DEF FillAt
  <2>2. Fine(p)
    BY <1>4
  <2> QED
    BY <2>1, <2>2
<1>6. ASSUME NEW m \in Nat, m \in S PROVE m + 1 \in S
  <2> DEFINE q == after[m]
             r == after[m + 1]
  <2>1. Fine(q)
    BY <1>6
  <2>2. r = FillAt(m + 1, p, h, q)
    <3>1. m + 1 \in Nat /\ (m + 1) - 1 = m
      OBVIOUS
    <3> QED
      BY <1>3, <3>1
  <2>3. r = q \/ \E kind \in Kinds : r = FillStep(q, kind)
    <3>1. m + 1 # 0
      OBVIOUS
    <3> HIDE DEF q, r
    <3> QED
      BY <2>2, <3>1 DEF FillAt, Kinds
  <2> HIDE DEF q, r
  <2>4. Fine(r)
    <3>1. CASE r = q
      BY <2>1, <3>1
    <3>2. ASSUME NEW kind \in Kinds, r = FillStep(q, kind) PROVE Fine(r)
      <4>1. PoolOk(r) /\ \A k \in Kinds : q[k].len <= r[k].len
        BY <2>1, <3>2, FillStepOk
      <4>2. ASSUME NEW k \in Kinds PROVE p[k].len <= r[k].len
        <5>1. p[k].len \in Int /\ q[k].len \in Int /\ r[k].len \in Int
          BY <1>4, <2>1, <4>1
        <5>2. p[k].len <= q[k].len /\ q[k].len <= r[k].len
          BY <2>1, <4>1
        <5> QED
          BY <5>1, <5>2
      <4> QED
        BY <4>1, <4>2
    <3> QED
      BY <2>3, <3>1, <3>2
  <2> QED
    BY <2>4 DEF r
<1>7. mallocs \in S
  <2> HIDE DEF S
  <2> QED
    BY <1>5, <1>6, SetInduction
<1> DEFINE q == after[mallocs]
<1>8. fill_pool(p, h, mallocs).pool = q /\ fill_pool(p, h, mallocs).ok = FilledFor(q, h)
  BY <1>2
<1>9. Fine(q)
  BY <1>7
<1> HIDE DEF q
<1>10. FilledFor(q, h) => q["leaves"].len >= 1 /\ q["branches"].len >= h
  <2>1. 0 <= q["leaves"].len /\ q["leaves"].len \in Int /\ q["branches"].len \in Int
    BY <1>4, <1>9 DEF PoolOk, Kinds
  <2> QED
    BY <2>1 DEF FilledFor, WantsLeaf, WantsBranch
<1>11. FilledFor(q, h) \in BOOLEAN
  BY DEF FilledFor
<1> QED
  BY <1>8, <1>9, <1>10, <1>11

MakesGood(h, lo, hi, items, children) ==
    /\ h \in Nat /\ h >= 1 /\ lo \in Int /\ hi \in Int
    /\ items \in Seq(Item) /\ Len(items) \in lo .. hi
    /\ children \in Seq(Sub[h - 1])
    /\ IF h = 1 THEN children = <<>> ELSE Len(children) = Len(items) + 1

(* A node is good when its parts are. *)
LEMMA GoodBranch ==
    ASSUME NEW h, NEW lo, NEW hi, NEW items, NEW children, MakesGood(h, lo, hi, items, children)
    PROVE  Branch(items, children) \in Good(h, lo, hi)
<1>1. /\ h \in Nat /\ h >= 1 /\ lo \in Int /\ hi \in Int
      /\ items \in Seq(Item) /\ Len(items) \in lo .. hi
      /\ children \in Seq(Sub[h - 1])
      /\ IF h = 1 THEN children = <<>> ELSE Len(children) = Len(items) + 1
  BY DEF MakesGood
<1> QED
  BY <1>1, GoodMade

(* A node of a height given away. *)
LEMMA GimmeOwn ==
    ASSUME NEW p \in Pool, NEW k, NEW q, q = gimme_node(p, KindAt(k))
    PROVE  /\ q \in Pool
           /\ \A kind \in Kinds : /\ q[kind].len = p[kind].len - Own(k, kind)
                                  /\ q[kind].cap = p[kind].cap
                                  /\ q[kind].len \in Int /\ Own(k, kind) \in {0, 1}
<1>1. KindAt(k) \in Kinds
  BY DEF KindAt, Kinds
<1>2. /\ q \in Pool
      /\ q[KindAt(k)].len = p[KindAt(k)].len - 1
      /\ \A kind \in Kinds \ {KindAt(k)} : q[kind].len = p[kind].len
      /\ \A kind \in Kinds : q[kind].cap = p[kind].cap
  BY <1>1, GimmeNode
<1>3. ASSUME NEW kind \in Kinds
      PROVE  q[kind].len = p[kind].len - Own(k, kind) /\ q[kind].len \in Int /\ Own(k, kind) \in {0, 1}
  <2>1. p[kind].len \in Int /\ q[kind].len \in Int
    BY <1>2, GroupOf
  <2>2. CASE kind = KindAt(k)
    BY <2>1, <2>2, <1>2 DEF Own
  <2>3. CASE kind # KindAt(k)
    <3>1. q[kind].len = p[kind].len
      BY <1>2, <2>3
    <3> QED
      BY <2>1, <2>3, <3>1 DEF Own
  <2> QED
    BY <2>2, <2>3
<1> QED
  BY <1>2, <1>3

(* The tree, of any height. *)
Whole(h, tree) ==
    h \in Nat /\ IF h = 0 THEN tree = NoTree ELSE tree \in Good(h, 1, MaxItems - 2)

(* There is a tree exactly when it has a height, and it is sound; no tree has no nodes. *)
LEMMA WholeParts ==
    ASSUME NEW h, NEW tree, Whole(h, tree)
    PROVE  /\ h \in Nat /\ tree \in Tree[h]
           /\ tree = NoTree <=> h = 0
           /\ h # 0 => h >= 1 /\ tree \in Good(h, 1, MaxItems - 2)
           /\ h = 0 => \A kind \in Kinds : NodesIn(h, tree, kind) = 0
<1>1. CASE h = 0
  <2>1. tree = NoTree
    BY <1>1 DEF Whole
  <2>2. Tree[0] = TreeStep(0, Tree[0 - 1])
    BY TreeIs
  <2>3. tree \in Tree[0]
    BY <2>1, <2>2 DEF TreeStep
  <2>4. NodesOf[0][tree] = NodesOfAt(0, tree, NodesOf[0 - 1])
    BY <2>3, NodesOfIs
  <2>5. \A kind \in Kinds : NodesOfAt(0, tree, NodesOf[0 - 1])[kind] = 0
    BY DEF NodesOfAt, Kinds
  <2> QED
    BY <1>1, <2>1, <2>3, <2>4, <2>5 DEF NodesIn
<1>2. CASE h # 0
  <2>1. h \in Nat /\ h >= 1 /\ tree \in Good(h, 1, MaxItems - 2)
    BY <1>2 DEF Whole
  <2>2. tree \in Tree[h] /\ Len(tree.items) \in 1 .. MaxItems - 2
    BY <2>1, InGood
  <2>3. tree.items # <<>>
    BY <2>2
  <2>4. tree # NoTree
    BY <2>3 DEF NoTree
  <2> QED
    BY <1>2, <2>1, <2>2, <2>4
<1> QED
  BY <1>1, <1>2

(* What an insertion promises. *)
IsSetInto(h, tree, p, s) ==
    /\ s.grown \in Nat /\ Whole(h + s.grown, s.node)
    /\ s.pool \in Pool /\ \A kind \in Kinds : 0 <= s.pool[kind].len /\ s.pool[kind].len <= s.pool[kind].cap
    /\ s.prev \in Item \cup {NoItem}
    /\ \A kind \in Kinds :
          NodesIn(h + s.grown, s.node, kind) + s.pool[kind].len = NodesIn(h, tree, kind) + p[kind].len

(* The first item of a tree. *)
LEMMA FirstItem ==
    ASSUME NEW item \in Item
    PROVE  /\ Leaf(<<item>>) \in Good(1, 1, MaxItems - 2)
           /\ \A kind \in Kinds : NodesIn(1, Leaf(<<item>>), kind) = Own(1, kind)
<1> DEFINE items == <<item>>
           none == <<>>
           hi == MaxItems - 2
<1>1. items \in Seq(Item) /\ Len(items) = 1 /\ none \in Seq(Sub[1 - 1])
  BY OneElement
<1>2. hi \in Int /\ 1 \in 1 .. hi
  BY MinItemsBound
<1>3. Leaf(items) = Branch(items, none) /\ none = <<>>
  BY DEF Leaf, Branch
<1> HIDE DEF items, none, hi
<1>4. Branch(items, none) \in Good(1, 1, hi)
  <2>1. MakesGood(1, 1, hi, items, none)
    BY <1>1, <1>2, <1>3 DEF MakesGood
  <2> QED
    BY <2>1, GoodBranch
<1>5. Branch(items, none) \in Tree[1]
  BY <1>4, InGood
<1>6. ASSUME NEW kind \in Kinds PROVE NodesIn(1, Branch(items, none), kind) = Own(1, kind)
  <2>1. NodesIn(1, Branch(items, none), kind) = Own(1, kind) + NodesInAll(1 - 1, Branch(items, none).children, kind)
    BY <1>5, NodesInTree
  <2>2. Branch(items, none).children = <<>>
    BY <1>3 DEF Branch
  <2>3. NodesInAll(1 - 1, <<>>, kind) = 0
    BY NodesInNone
  <2> QED
    BY <2>1, <2>2, <2>3 DEF Own
<1> QED
  BY <1>3, <1>4, <1>6 DEF items, hi

(* A full root under a new one. *)
LEMMA RootGrown ==
    ASSUME NEW h \in Nat, h >= 1, NEW node, node \in Good(h, MaxItems - 1, MaxItems - 1),
           NEW lean_left \in BOOLEAN, NEW rest, NEW s, s = [node |-> node, prev |-> NoItem, pool |-> rest]
    PROVE  /\ GrowRoot(s, lean_left).node \in Good(h + 1, 1, MaxItems - 2)
           /\ GrowRoot(s, lean_left).prev = NoItem
           /\ GrowRoot(s, lean_left).pool = gimme_node(gimme_node(rest, KindAt(h)), KindAt(h + 1))
           /\ GrowRoot(s, lean_left).grown = 1
           /\ \A kind \in Kinds : NodesIn(h + 1, GrowRoot(s, lean_left).node, kind)
                                  = Own(h + 1, kind) + (NodesIn(h, node, kind) + Own(h, kind))
<1> DEFINE sp == node_split(node, lean_left)
           l == sp.left
           r == sp.right
           m == sp.median
           items == <<m>>
           children == <<l, r>>
           g == GrowRoot(s, lean_left)
           k == h + 1
<1>0. k \in Nat /\ k >= 1 /\ k - 1 = h /\ k # 1
  OBVIOUS
<1>1. l \in Sub[h] /\ r \in Sub[h] /\ m \in Item /\ node = Joined(l, m, r)
  BY NodeSplit
<1>2. g = [node |-> [items |-> items, children |-> children], prev |-> NoItem,
           pool |-> gimme_node(gimme_node(rest, Kind(node)), "branches"), grown |-> 1]
  BY DEF GrowRoot
<1> HIDE DEF l, r, m, g, sp
<1>3. Kind(node) = KindAt(h) /\ KindAt(k) = "branches"
  <2>1. node \in Tree[h]
    BY InGood
  <2> QED
    BY <1>0, <2>1, TreeParts DEF Kind, KindAt
<1>4. g.node = Branch(items, children) /\ g.prev = NoItem
      /\ g.pool = gimme_node(gimme_node(rest, KindAt(h)), KindAt(k))
      /\ g.grown = 1
  BY <1>2, <1>3 DEF Branch
<1>5. items \in Seq(Item) /\ Len(items) = 1
  BY <1>1, OneElement
<1>6. children \in Seq(Sub[h]) /\ Len(children) = 2
  BY <1>1, TwoElements
<1>7. l \in Tree[h] /\ r \in Tree[h]
  BY <1>1, SubIsGood
<1>8. \A kind \in Kinds : NodesInAll(h, children, kind) = NodesIn(h, node, kind) + Own(h, kind)
  <2>1. ASSUME NEW kind \in Kinds PROVE NodesInAll(h, children, kind) = NodesIn(h, node, kind) + Own(h, kind)
    <3>1. NodesInAll(h, children, kind) = NodesIn(h, l, kind) + NodesIn(h, r, kind)
      BY <1>7, NodesInTwo
    <3>2. NodesIn(h, l, kind) + NodesIn(h, r, kind) = NodesIn(h, Joined(l, m, r), kind) + Own(h, kind)
      BY <1>1, <1>7, JoinedTree
    <3> QED
      BY <1>1, <3>1, <3>2
  <2> QED
    BY <2>1
<1> HIDE DEF items, children, k
<1>9. Branch(items, children) \in Good(k, 1, MaxItems - 2) /\ Branch(items, children).children = children
  <2> DEFINE hi == MaxItems - 2
  <2>1. hi \in Int /\ Len(items) \in 1 .. hi
    BY <1>5, MinItemsBound
  <2>2. IF k = 1 THEN children = <<>> ELSE Len(children) = Len(items) + 1
    BY <1>0, <1>5, <1>6
  <2>3. children \in Seq(Sub[k - 1])
    BY <1>0, <1>6
  <2> HIDE DEF hi
  <2>4. Branch(items, children) \in Good(k, 1, hi)
    <3>1. MakesGood(k, 1, hi, items, children)
      BY <1>0, <1>5, <2>1, <2>2, <2>3 DEF MakesGood
    <3> QED
      BY <3>1, GoodBranch
  <2> QED
    BY <2>4 DEF Branch, hi
<1>10. Branch(items, children) \in Tree[k]
  BY <1>9, InGood
<1>11. ASSUME NEW kind \in Kinds
       PROVE  NodesIn(k, Branch(items, children), kind) = Own(k, kind) + NodesInAll(h, children, kind)
  <2>1. NodesIn(k, Branch(items, children), kind) = Own(k, kind) + NodesInAll(k - 1, Branch(items, children).children, kind)
    BY <1>0, <1>10, NodesInTree
  <2> QED
    BY <1>0, <1>9, <2>1
<1> QED
  BY <1>4, <1>8, <1>9, <1>11 DEF g, k

(* An insertion into the tree, with a pool that is full enough. *)
LEMMA SetIntoSized ==
    ASSUME NEW item, NEW lean_left, NEW p, IsSetting(item, lean_left, p), Whole(height, root), PoolOk(p),
           p["leaves"].len >= 1, p["branches"].len >= height, NEW s, s = SetInto(item, lean_left, p)
    PROVE  IsSetInto(height, root, p, s)
<1>0. item \in Item /\ lean_left \in BOOLEAN /\ p \in Pool
  BY DEF IsSetting
<1>1. /\ height \in Nat /\ root \in Tree[height]
      /\ root = NoTree <=> height = 0
      /\ height # 0 => height >= 1 /\ root \in Good(height, 1, MaxItems - 2)
      /\ height = 0 => \A kind \in Kinds : NodesIn(height, root, kind) = 0
  BY WholeParts
<1>2. \A kind \in Kinds : 0 <= p[kind].len /\ p[kind].len <= p[kind].cap
  BY DEF PoolOk
<1>3. ASSUME NEW kind \in Kinds PROVE p[kind].len \in Int /\ p[kind].cap \in Int
  BY <1>0, GroupOf
<1>4. "leaves" \in Kinds /\ "branches" \in Kinds /\ \A kind \in Kinds : kind = "leaves" \/ kind = "branches"
  BY DEF Kinds
<1>5. CASE root = NoTree
  <2> DEFINE q == gimme_node(p, "leaves")
  <2>1. s = [node |-> Leaf(<<item>>), prev |-> NoItem, pool |-> q, grown |-> 1]
    BY <1>5 DEF SetInto
  <2>2. KindAt(1) = "leaves" /\ Own(1, "leaves") = 1 /\ Own(1, "branches") = 0
    BY DEF KindAt, Own
  <2>3. q \in Pool /\ \A kind \in Kinds : /\ q[kind].len = p[kind].len - Own(1, kind)
                                          /\ q[kind].cap = p[kind].cap
                                          /\ q[kind].len \in Int /\ Own(1, kind) \in {0, 1}
    BY <1>0, <2>2, GimmeOwn
  <2>4. /\ Leaf(<<item>>) \in Good(1, 1, MaxItems - 2)
        /\ \A kind \in Kinds : NodesIn(1, Leaf(<<item>>), kind) = Own(1, kind)
    BY <1>0, FirstItem
  <2>5. s.node = Leaf(<<item>>) /\ s.prev = NoItem /\ s.pool = q /\ s.grown = 1
    BY <2>1
  <2> HIDE DEF q
  <2>6. height = 0 /\ height + s.grown = 1
    BY <1>1, <1>5, <2>5
  <2>7. Whole(height + s.grown, s.node)
    BY <2>4, <2>5, <2>6 DEF Whole
  <2>8. ASSUME NEW kind \in Kinds
        PROVE  /\ 0 <= q[kind].len /\ q[kind].len <= q[kind].cap
               /\ Own(1, kind) + q[kind].len = 0 + p[kind].len
    <3>1. p[kind].len \in Int /\ p[kind].cap \in Int /\ 0 <= p[kind].len /\ p[kind].len <= p[kind].cap
      BY <1>2, <1>3
    <3>2. q[kind].len = p[kind].len - Own(1, kind) /\ q[kind].cap = p[kind].cap /\ Own(1, kind) \in {0, 1}
      BY <2>3
    <3>3. Own(1, kind) <= p[kind].len
      BY <2>2, <1>4, <3>1
    <3> QED
      BY <3>1, <3>2, <3>3
  <2>9. ASSUME NEW kind \in Kinds
        PROVE  NodesIn(height + s.grown, s.node, kind) + s.pool[kind].len = NodesIn(height, root, kind) + p[kind].len
    BY <1>1, <2>4, <2>5, <2>6, <2>8
  <2> QED
    BY <2>3, <2>5, <2>7, <2>8, <2>9 DEF IsSetInto
<1>6. CASE root # NoTree
  <2> DEFINE t == node_set(height, root, item, lean_left, p)
             n == Len(root.items)
             h1 == height + 1
  <2>1. height >= 1 /\ root \in Good(height, 1, MaxItems - 2)
    BY <1>1, <1>6
  <2>2. root \in Good(height, 0, MaxItems - 2) /\ n \in 1 .. MaxItems - 2 /\ MaxItems \in Nat
    <3> DEFINE hi == MaxItems - 2
    <3>1. hi \in Int /\ MaxItems \in Nat
      BY MinItemsBound
    <3> HIDE DEF hi
    <3>2. root \in Good(height, 1, hi)
      BY <2>1 DEF hi
    <3>3. root \in Good(height, 0, hi) /\ n \in 1 .. hi
      BY <3>1, <3>2, GoodWithin, InGood
    <3> QED
      BY <3>1, <3>3 DEF hi
  <2>3. SizedSet(height, root, p, t)
    BY <1>1, <2>1, <2>2, NodeSetSized
  <2> HIDE DEF t
  <2>4. /\ t = [node |-> t.node, prev |-> t.prev, pool |-> t.pool]
        /\ t.node \in Good(height, n, n + 1)
        /\ t.prev \in Item \cup {NoItem}
        /\ t.prev # NoItem => Len(t.node.items) = n
        /\ t.pool \in Pool
        /\ \A kind \in Kinds : t.pool[kind].cap = p[kind].cap
        /\ \A kind \in Kinds : t.pool[kind].len <= p[kind].len
        /\ height = 1 => \A kind \in Kinds : t.pool[kind].len = p[kind].len
        /\ height # 1 => /\ p["leaves"].len - 1 <= t.pool["leaves"].len
                         /\ p["branches"].len - (height - 2) <= t.pool["branches"].len
        /\ \A kind \in Kinds :
              NodesIn(height, t.node, kind) + t.pool[kind].len = NodesIn(height, root, kind) + p[kind].len
    BY <2>3, SizedSetParts
  <2>5. t.node \in Tree[height] /\ Len(t.node.items) \in n .. n + 1 /\ t.node.children \in Seq(Sub[height - 1])
    BY <2>4, InGood
  <2>6. ASSUME NEW kind \in Kinds
        PROVE  t.pool[kind].len \in Int /\ NodesIn(height, t.node, kind) \in Nat
               /\ NodesIn(height, root, kind) \in Nat
    BY <1>1, <2>4, <2>5, GroupOf, NodesInNat
  <2> HIDE DEF n
  <2>7. CASE t.prev = NoItem /\ Full(t.node)
    <3> DEFINE g == GrowRoot(t, lean_left)
               q1 == gimme_node(t.pool, KindAt(height))
               q == gimme_node(q1, KindAt(h1))
    <3>1. s = g
      BY <1>6, <2>7 DEF SetInto, t
    <3>2. t.node \in Good(height, MaxItems - 1, MaxItems - 1)
      <4>1. Len(t.node.items) \in MaxItems - 1 .. MaxItems - 1
        BY <2>2, <2>7 DEF Full
      <4> QED
        BY <2>5, <4>1, InGood
    <3>3. t = [node |-> t.node, prev |-> NoItem, pool |-> t.pool]
      BY <2>4, <2>7
    <3>4. /\ g.node \in Good(h1, 1, MaxItems - 2)
          /\ g.prev = NoItem /\ g.pool = q
          /\ g.grown = 1
          /\ \A kind \in Kinds : NodesIn(h1, g.node, kind)
                                 = Own(h1, kind) + (NodesIn(height, t.node, kind) + Own(height, kind))
      BY <1>0, <1>1, <2>1, <3>2, <3>3, RootGrown
    <3> HIDE DEF g
    <3>5. s.node = g.node /\ s.prev = g.prev /\ s.pool = g.pool /\ s.grown = 1
      BY <3>1, <3>4
    <3>6. q1 \in Pool /\ \A kind \in Kinds : /\ q1[kind].len = t.pool[kind].len - Own(height, kind)
                                             /\ q1[kind].cap = t.pool[kind].cap
                                             /\ q1[kind].len \in Int /\ Own(height, kind) \in {0, 1}
      BY <2>4, GimmeOwn
    <3>7. q \in Pool /\ \A kind \in Kinds : /\ q[kind].len = q1[kind].len - Own(h1, kind)
                                            /\ q[kind].cap = q1[kind].cap
                                            /\ q[kind].len \in Int /\ Own(h1, kind) \in {0, 1}
      BY <3>6, GimmeOwn
    <3> HIDE DEF q1, q
    <3>8. height + s.grown = h1 /\ h1 \in Nat /\ h1 # 0
      BY <1>1, <3>5
    <3> HIDE DEF h1
    <3>9. Whole(height + s.grown, s.node)
      BY <3>4, <3>5, <3>8 DEF Whole
    <3>10. Own(h1, "branches") = 1 /\ Own(h1, "leaves") = 0
      BY <1>1, <2>1 DEF Own, KindAt, h1
    <3>11. ASSUME NEW kind \in Kinds
           PROVE  /\ 0 <= q[kind].len /\ q[kind].len <= q[kind].cap
                  /\ NodesIn(h1, g.node, kind) + q[kind].len = NodesIn(height, root, kind) + p[kind].len
      <4>1. /\ q[kind].len = (t.pool[kind].len - Own(height, kind)) - Own(h1, kind)
            /\ q[kind].cap = p[kind].cap
            /\ Own(h1, kind) \in {0, 1} /\ Own(height, kind) \in {0, 1}
        BY <2>4, <3>6, <3>7
      <4>2. /\ t.pool[kind].len \in Int /\ p[kind].len \in Int /\ p[kind].cap \in Int
            /\ NodesIn(height, t.node, kind) \in Nat /\ NodesIn(height, root, kind) \in Nat
        BY <1>3, <2>6
      <4>3. t.pool[kind].len <= p[kind].len /\ p[kind].len <= p[kind].cap
        BY <1>2, <2>4
      <4>4. NodesIn(height, t.node, kind) + t.pool[kind].len = NodesIn(height, root, kind) + p[kind].len
        BY <2>4
      <4>5. NodesIn(h1, g.node, kind) = Own(h1, kind) + (NodesIn(height, t.node, kind) + Own(height, kind))
        BY <3>4
      <4>6. Own(height, kind) + Own(h1, kind) <= t.pool[kind].len
        <5>1. CASE height = 1
          <6>1. Own(height, "leaves") = 1 /\ Own(height, "branches") = 0
            BY <5>1 DEF Own, KindAt
          <6>2. t.pool[kind].len = p[kind].len
            BY <2>4, <5>1
          <6> QED
            BY <5>1, <6>1, <6>2, <3>10, <1>4, <4>2
        <5>2. CASE height # 1
          <6>1. Own(height, "leaves") = 0 /\ Own(height, "branches") = 1 /\ height - 2 \in Int
            BY <1>1, <5>2 DEF Own, KindAt
          <6>2. /\ p["leaves"].len - 1 <= t.pool["leaves"].len
                /\ p["branches"].len - (height - 2) <= t.pool["branches"].len
            BY <2>4, <5>2
          <6>3. /\ p["leaves"].len \in Int /\ p["branches"].len \in Int
                /\ t.pool["leaves"].len \in Int /\ t.pool["branches"].len \in Int
            BY <1>3, <1>4, <2>6
          <6>4. 0 <= t.pool["leaves"].len /\ 2 <= t.pool["branches"].len
            BY <1>1, <6>2, <6>3
          <6> QED
            BY <6>1, <6>4, <3>10, <1>4
        <5> QED
          BY <5>1, <5>2
      <4> QED
        BY <4>1, <4>2, <4>3, <4>4, <4>5, <4>6
    <3>12. ASSUME NEW kind \in Kinds
           PROVE  NodesIn(height + s.grown, s.node, kind) + s.pool[kind].len = NodesIn(height, root, kind) + p[kind].len
      BY <3>4, <3>5, <3>8, <3>11
    <3> QED
      BY <3>4, <3>5, <3>7, <3>9, <3>11, <3>12 DEF IsSetInto
  <2>8. CASE ~(t.prev = NoItem /\ Full(t.node))
    <3>1. s = [node |-> t.node, prev |-> t.prev, pool |-> t.pool, grown |-> 0]
      BY <1>6, <2>8 DEF SetInto, t
    <3>2. s.node = t.node /\ s.prev = t.prev /\ s.pool = t.pool /\ s.grown = 0
      BY <3>1
    <3>3. height + s.grown = height /\ height # 0
      BY <1>1, <2>1, <3>2
    <3>4. t.node \in Good(height, 1, MaxItems - 2)
      <4>1. Len(t.node.items) \in 1 .. MaxItems - 2
        <5>1. CASE t.prev # NoItem
          <6>1. Len(t.node.items) = n
            BY <5>1, <2>4
          <6> QED
            BY <6>1, <2>2
        <5>2. CASE t.prev = NoItem
          <6>1. Len(t.node.items) # MaxItems - 1
            BY <5>2, <2>8 DEF Full
          <6> DEFINE m == Len(t.node.items)
          <6>2. m \in n .. n + 1 /\ n \in 1 .. MaxItems - 2 /\ m # MaxItems - 1 /\ MaxItems \in Nat
            BY <6>1, <2>2, <2>5
          <6> HIDE DEF m
          <6>3. m \in 1 .. MaxItems - 2
            BY <6>2
          <6> QED
            BY <6>3 DEF m
        <5> QED
          BY <5>1, <5>2
      <4> QED
        BY <2>5, <4>1, InGood
    <3>5. Whole(height + s.grown, s.node)
      BY <1>1, <3>2, <3>3, <3>4 DEF Whole
    <3>6. ASSUME NEW kind \in Kinds
          PROVE  /\ 0 <= t.pool[kind].len /\ t.pool[kind].len <= t.pool[kind].cap
      <4>1. t.pool[kind].len \in Int /\ p[kind].len \in Int /\ p[kind].cap \in Int /\ t.pool[kind].cap = p[kind].cap
            /\ 0 <= p[kind].len
        BY <1>2, <1>3, <2>4, <2>6
      <4>2. t.pool[kind].len <= p[kind].len /\ p[kind].len <= p[kind].cap
        BY <1>2, <2>4
      <4>3. 0 <= t.pool[kind].len
        <5>1. CASE height = 1
          BY <2>4, <4>1, <5>1
        <5>2. CASE height # 1
          <6>2. /\ p["leaves"].len - 1 <= t.pool["leaves"].len
                /\ p["branches"].len - (height - 2) <= t.pool["branches"].len
            BY <2>4, <5>2
          <6>3. /\ p["leaves"].len \in Int /\ p["branches"].len \in Int
                /\ t.pool["leaves"].len \in Int /\ t.pool["branches"].len \in Int
            BY <1>3, <1>4, <2>6
          <6>4. 0 <= t.pool["leaves"].len /\ 2 <= t.pool["branches"].len
            BY <1>1, <6>2, <6>3
          <6> QED
            BY <6>3, <6>4, <1>4
        <5> QED
          BY <5>1, <5>2
      <4> QED
        BY <4>1, <4>2, <4>3
    <3>7. ASSUME NEW kind \in Kinds
          PROVE  NodesIn(height + s.grown, s.node, kind) + s.pool[kind].len = NodesIn(height, root, kind) + p[kind].len
      BY <2>4, <3>2, <3>3
    <3> QED
      BY <2>4, <3>2, <3>5, <3>6, <3>7 DEF IsSetInto
  <2> QED
    BY <2>7, <2>8
<1> QED
  BY <1>5, <1>6

ReplacesChild(h, lo, hi, node, i, c, below) ==
    /\ h \in Nat /\ h >= 2 /\ lo \in Int /\ hi \in Int /\ node \in Good(h, lo, hi)
    /\ i \in 1 .. Len(node.items) + 1 /\ c \in Tree[h - 1]
    /\ below = [node EXCEPT !.children[i] = c]

(* A branch with a child replaced. *)
LEMMA ChildReplaced ==
    ASSUME NEW h, NEW lo, NEW hi, NEW node, NEW i, NEW c, NEW below,
           ReplacesChild(h, lo, hi, node, i, c, below)
    PROVE  /\ below \in Tree[h] /\ below.items = node.items
           /\ Len(below.children) = Len(node.children) /\ below.children[i] = c
           /\ c \in Sub[h - 1] => below \in Good(h, lo, hi)
           /\ \A kind \in Kinds :
                 NodesIn(h, below, kind) + NodesIn(h - 1, node.children[i], kind)
                 = NodesIn(h, node, kind) + NodesIn(h - 1, c, kind)
<1> DEFINE child == node.children[i]
           k == h - 1
           n == Len(node.items)
<1>h. /\ h \in Nat /\ h >= 2 /\ lo \in Int /\ hi \in Int /\ node \in Good(h, lo, hi)
      /\ i \in 1 .. n + 1 /\ c \in Tree[k] /\ below = [node EXCEPT !.children[i] = c]
  BY DEF ReplacesChild
<1>0. k \in Nat /\ k >= 1 /\ h >= 1 /\ h # 1 /\ h = k + 1
  BY <1>h
<1>1. /\ \E f : IsSite(h, f, i) /\ node = Site(f, <<>>, <<child>>)
      /\ child \in Sub[k]
  BY <1>h, SiteAtChild
<1>p. PICK f : IsSite(h, f, i) /\ node = Site(f, <<>>, <<child>>)
  BY <1>1
<1>2. child \in Tree[k]
  <2> HIDE DEF child, k
  <2> QED
    BY <1>0, <1>1, SubIsGood
<1>g. node.items \in Seq(Item) /\ Len(node.items) \in lo .. hi
      /\ node = Branch(node.items, node.children)
      /\ Len(node.children) = n + 1 /\ node.children \in Seq(Tree[h - 1])
  BY <1>h, <1>0, GoodParts
<1>3. /\ below.items = node.items /\ below.children = [node.children EXCEPT ![i] = c]
      /\ Len(below.children) = Len(node.children) /\ below.children[i] = c
  <2> DEFINE items == node.items
             children == node.children
  <2>1. [Branch(items, children) EXCEPT !.children[i] = c] = Branch(items, [children EXCEPT ![i] = c])
    BY DEF Branch
  <2>2. below = Branch(items, [children EXCEPT ![i] = c])
    BY <1>h, <1>g, <2>1
  <2>3. i \in 1 .. Len(children) /\ children \in Seq(Tree[h - 1])
    BY <1>h, <1>g
  <2> HIDE DEF items, children, child
  <2>4. Len([children EXCEPT ![i] = c]) = Len(children) /\ [children EXCEPT ![i] = c][i] = c
    BY <2>3
  <2>5. below.items = items /\ below.children = [children EXCEPT ![i] = c]
    BY <2>2 DEF Branch
  <2> QED
    BY <2>4, <2>5 DEF items, children
<1> HIDE DEF child
<1>5. below = Site(f, <<>>, <<c>>)
  <2>1. [Site(f, <<>>, <<child>>) EXCEPT !.children[i] = c] = Site(f, <<>>, <<c>>)
    <3>1. c \in Tree[h - 1] /\ child \in Tree[h - 1]
      BY <1>h, <1>2
    <3> QED
      BY <1>p, <3>1, SiteSetChild
  <2> QED
    BY <1>p, <1>h, <2>1
<1>6. ASSUME c \in Sub[k] PROVE below \in Good(h, lo, hi)
  <2>1. IsMiddle(Sub[h - 1], <<>>, <<c>>)
    BY <1>6, MiddleOfOne
  <2> DEFINE none == <<>>
             one == <<c>>
             r == Room(f) + Len(none)
  <2>3. IsMiddle(Sub[h - 1], none, one) /\ below = Site(f, none, one)
    BY <1>5, <2>1
  <2> HIDE DEF none, one
  <2>4. below \in Good(h, r, r)
    BY <1>p, <2>3, SiteGood
  <2> HIDE DEF r
  <2>5. below \in Tree[h] /\ below.children \in Seq(Sub[h - 1])
    BY <2>4, InGood
  <2>6. Len(below.items) \in lo .. hi
    BY <1>g, <1>3
  <2> QED
    BY <2>5, <2>6, InGood
<1>7. below \in Tree[h] /\ \A kind \in Kinds : /\ NodesIn(h, below, kind) = Rest(h, f, kind) + NodesInAll(k, <<c>>, kind)
                                               /\ Rest(h, f, kind) \in Nat
  <2>1. IsMiddle(Tree[h - 1], <<>>, <<c>>)
    BY <1>h, MiddleOfOne
  <2> QED
    BY <1>p, <1>5, <2>1, SiteNodes
<1>8. \A kind \in Kinds : NodesIn(h, node, kind) = Rest(h, f, kind) + NodesInAll(k, <<child>>, kind)
  <2>1. IsMiddle(Tree[h - 1], <<>>, <<child>>)
    BY <1>2, MiddleOfOne
  <2> QED
    BY <1>p, <2>1, SiteNodes
<1>9. ASSUME NEW kind \in Kinds
      PROVE  NodesIn(h, below, kind) + NodesIn(k, child, kind) = NodesIn(h, node, kind) + NodesIn(k, c, kind)
  <2>1. NodesIn(h, below, kind) = Rest(h, f, kind) + NodesInAll(k, <<c>>, kind) /\ Rest(h, f, kind) \in Nat
    BY <1>7
  <2>2. NodesIn(h, node, kind) = Rest(h, f, kind) + NodesInAll(k, <<child>>, kind)
    BY <1>8
  <2>c. c \in Tree[k]
    BY <1>h
  <2> HIDE DEF k
  <2>3. NodesInAll(k, <<c>>, kind) = NodesIn(k, c, kind)
    BY <1>0, <2>c, NodesInOne
  <2>4. NodesInAll(k, <<child>>, kind) = NodesIn(k, child, kind)
    BY <1>0, <1>2, NodesInOne
  <2>5. NodesIn(k, c, kind) \in Nat /\ NodesIn(k, child, kind) \in Nat
    BY <1>0, <1>2, <2>c, NodesInNat
  <2> QED
    BY <2>1, <2>2, <2>3, <2>4, <2>5
<1> QED
  BY <1>3, <1>6, <1>7, <1>9 DEF child

-----------------------------------------------------------------------------
(* Loading.                                                                  *)

(* The last leaf is a leaf. *)
LEMMA LastLeafIsLeaf ==
    ASSUME NEW h \in Nat
    PROVE  /\ \A node \in Tree[h] : LastLeaf[h][node].items \in Seq(Item)
           /\ LastLeaf[0][NoTree].items = <<>>
<1> DEFINE T(k) == \A node \in Tree[k] : LastLeaf[k][node].items \in Seq(Item)
           S == {k \in Nat : T(k)}
<1>z. ASSUME NEW node \in Tree[0] PROVE node = NoTree /\ LastLeaf[0][node] = node
  BY NoBranchAtZero, LastLeafIs
<1>y. NoTree \in Tree[0]
  BY TreeIs DEF TreeStep
<1>n. NoTree.items = <<>> /\ NoTree.items \in Seq(Item)
  BY DEF NoTree
<1>1. 0 \in S
  BY <1>z, <1>n
<1>2. ASSUME NEW k \in Nat, k \in S PROVE k + 1 \in S
  <2> DEFINE h1 == k + 1
  <2>0. h1 \in Nat /\ h1 >= 1 /\ h1 - 1 = k
    OBVIOUS
  <2>k. T(k)
    BY <1>2
  <2> HIDE DEF h1, T
  <2>1. ASSUME NEW node \in Tree[h1] PROVE LastLeaf[h1][node].items \in Seq(Item)
    <3>1. /\ node.items \in Seq(Item) /\ node.children \in Seq(Tree[h1 - 1])
          /\ IsLeaf(node) <=> h1 = 1
          /\ IF h1 = 1 THEN node.children = <<>> ELSE Len(node.children) = Len(node.items) + 1
      BY <2>0, TreeParts
    <3>2. LastLeaf[h1][node] = IF IsLeaf(node) THEN node ELSE LastLeaf[h1 - 1][Last(node.children)]
      BY <2>0, LastLeafIs
    <3>3. CASE IsLeaf(node)
      BY <3>1, <3>2, <3>3
    <3>4. CASE ~IsLeaf(node)
      <4>1. node.children # <<>>
        BY <3>4 DEF IsLeaf
      <4>2. Last(node.children) \in Tree[h1 - 1]
        BY <3>1, <4>1, FrontAndLast
      <4> QED
        BY <2>0, <2>k, <3>2, <3>4, <4>2 DEF T
    <3> QED
      BY <3>3, <3>4
  <2>2. T(h1)
    BY <2>1 DEF T
  <2> QED
    BY <2>0, <2>2 DEF h1
<1>3. h \in S
  <2> HIDE DEF S
  <2> QED
    BY <1>1, <1>2, SetInduction
<1> QED
  BY <1>3, <1>z, <1>y, <1>n

IsAppended(h, lo, node, t) ==
    /\ t \in Good(h, lo, MaxItems - 2)
    /\ Len(LastLeaf[h][t].items) = Len(LastLeaf[h][node].items) + 1
    /\ \A kind \in Kinds : NodesIn(h, t, kind) = NodesIn(h, node, kind)

IsAppending(h, lo, node, item) ==
    /\ h \in Nat /\ h >= 1 /\ lo \in Int /\ node \in Good(h, lo, MaxItems - 2) /\ item \in Item
    /\ Len(LastLeaf[h][node].items) < MaxItems - 2

(* An item appended to a leaf. *)
LEMMA AppendHere ==
    ASSUME NEW h, NEW lo, NEW node, NEW item, IsAppending(h, lo, node, item), h = 1, NEW t,
           t = Leaf(Append(node.items, item))
    PROVE  IsAppended(h, lo, node, t)
<1> DEFINE items == node.items
           new == Append(items, item)
           hi == MaxItems - 2
           none == <<>>
<1>h. /\ h \in Nat /\ h >= 1 /\ lo \in Int /\ node \in Good(h, lo, hi) /\ item \in Item
      /\ Len(LastLeaf[h][node].items) < hi
  BY DEF IsAppending
<1>m. hi \in Int
  BY MinItemsBound
<1> HIDE DEF hi
<1>1. /\ node \in Tree[h] /\ Len(items) \in lo .. hi /\ items \in Seq(Item)
      /\ node.children \in Seq(Sub[h - 1]) /\ IsLeaf(node) /\ node.children = <<>>
      /\ node = Branch(node.items, node.children)
  BY <1>h, <1>m, GoodParts
<1>2. LastLeaf[h][node] = node
  BY <1>h, <1>1, LastLeafIs
<1>3. Len(items) < hi
  BY <1>h, <1>2
<1>4. none \in Seq(Sub[h - 1])
  BY <1>1
<1> HIDE DEF items
<1>5. new \in Seq(Item) /\ Len(new) = Len(items) + 1
  BY <1>1, <1>h
<1>6. t = Branch(new, none)
  BY DEF Leaf, Branch, items
<1>7. Len(new) \in lo .. hi
  BY <1>1, <1>3, <1>5, <1>h, <1>m
<1> HIDE DEF new
<1>8. t \in Good(h, lo, hi)
  <2>1. MakesGood(h, lo, hi, new, none)
    BY <1>h, <1>m, <1>4, <1>5, <1>7 DEF MakesGood
  <2> QED
    BY <1>6, <2>1, GoodBranch
<1>9. t \in Tree[h] /\ t.items = new /\ t.children = none
  BY <1>6, <1>8, InGood DEF Branch
<1>10. LastLeaf[h][t] = t
  BY <1>h, <1>9, LastLeafIs DEF IsLeaf
<1>11. ASSUME NEW kind \in Kinds PROVE NodesIn(h, t, kind) = NodesIn(h, node, kind)
  <2>1. NodesIn(h, t, kind) = Own(h, kind) + NodesInAll(h - 1, t.children, kind)
    BY <1>h, <1>9, NodesInTree
  <2>2. NodesIn(h, node, kind) = Own(h, kind) + NodesInAll(h - 1, node.children, kind)
    BY <1>h, <1>1, NodesInTree
  <2> QED
    BY <1>1, <1>9, <2>1, <2>2
<1> QED
  BY <1>2, <1>5, <1>8, <1>9, <1>10, <1>11 DEF IsAppended, hi, items

SetsLastChild(node, c, t) == t = [node EXCEPT !.children = ReplaceAt(@, Len(@), c)]

(* An item appended below a branch. *)
LEMMA AppendBelow ==
    ASSUME NEW h, NEW lo, NEW node, NEW item, IsAppending(h, lo, node, item), h # 1, NEW c,
           IsAppended(h - 1, MinItems, Last(node.children), c), NEW t, SetsLastChild(node, c, t)
    PROVE  IsAppended(h, lo, node, t)
<1> DEFINE hi == MaxItems - 2
           k == h - 1
           i == Len(node.children)
           child == Last(node.children)
<1>h. /\ h \in Nat /\ h >= 1 /\ lo \in Int /\ node \in Good(h, lo, hi) /\ item \in Item
      /\ Len(LastLeaf[h][node].items) < hi
  BY DEF IsAppending
<1>m. hi \in Int /\ MinItems \in Int
  BY MinItemsBound
<1> HIDE DEF hi
<1>0. h >= 2 /\ k \in Nat /\ k >= 1
  BY <1>h
<1>1. /\ node \in Tree[h] /\ Len(node.items) \in lo .. hi /\ node.items \in Seq(Item)
      /\ ~IsLeaf(node) /\ i = Len(node.items) + 1 /\ Len(node.items) \in Nat
      /\ node.children \in Seq(Tree[k])
      /\ node = Branch(node.items, node.children)
  BY <1>h, <1>m, GoodParts
<1>2. child = node.children[i] /\ i \in 1 .. Len(node.items) + 1
  BY <1>1 DEF Last
<1>3. /\ c \in Good(k, MinItems, hi)
      /\ Len(LastLeaf[k][c].items) = Len(LastLeaf[k][child].items) + 1
      /\ \A kind \in Kinds : NodesIn(k, c, kind) = NodesIn(k, child, kind)
  BY DEF IsAppended, hi
<1>4. c \in Sub[k] /\ c \in Tree[k]
  <2> HIDE DEF k
  <2> QED
    BY <1>0, <1>3, SubIsGood, InGood DEF hi
<1>5. t = [node EXCEPT !.children[i] = c]
  BY DEF ReplaceAt, SetsLastChild
<1> HIDE DEF child
<1>6. ReplacesChild(h, lo, hi, node, i, c, t)
  <2> HIDE DEF i
  <2> QED
    BY <1>h, <1>0, <1>m, <1>2, <1>4, <1>5 DEF ReplacesChild
<1>7. /\ t \in Tree[h] /\ t.items = node.items
      /\ Len(t.children) = Len(node.children) /\ t.children[i] = c
      /\ t \in Good(h, lo, hi)
      /\ \A kind \in Kinds :
            NodesIn(h, t, kind) + NodesIn(k, node.children[i], kind)
            = NodesIn(h, node, kind) + NodesIn(k, c, kind)
  <2> HIDE DEF i
  <2>1. /\ t \in Tree[h] /\ t.items = node.items
        /\ Len(t.children) = Len(node.children) /\ t.children[i] = c
        /\ c \in Sub[h - 1] => t \in Good(h, lo, hi)
        /\ \A kind \in Kinds :
              NodesIn(h, t, kind) + NodesIn(h - 1, node.children[i], kind)
              = NodesIn(h, node, kind) + NodesIn(h - 1, c, kind)
    BY <1>6, ChildReplaced
  <2>2. t \in Good(h, lo, hi)
    BY <2>1, <1>4
  <2> HIDE DEF k
  <2>3. k = h - 1
    BY DEF k
  <2> QED
    BY <2>1, <2>2, <2>3
<1>8. ASSUME NEW kind \in Kinds PROVE NodesIn(h, t, kind) = NodesIn(h, node, kind)
  <2>1. NodesIn(h, t, kind) + NodesIn(k, child, kind) = NodesIn(h, node, kind) + NodesIn(k, child, kind)
    BY <1>2, <1>3, <1>7
  <2>2. NodesIn(h, t, kind) \in Nat /\ NodesIn(h, node, kind) \in Nat
    BY <1>h, <1>1, <1>7, NodesInNat
  <2>3. NodesIn(k, child, kind) \in Nat
    <3>1. child \in Tree[k]
      BY <1>1, <1>2
    <3> HIDE DEF k
    <3> QED
      BY <1>0, <3>1, NodesInNat
  <2> QED
    BY <2>1, <2>2, <2>3
<1>9. LastLeaf[h][node] = LastLeaf[k][child]
  BY <1>h, <1>1, LastLeafIs DEF child
<1>10. LastLeaf[h][t] = LastLeaf[k][c]
  <2>1. Last(t.children) = c
    BY <1>7 DEF Last
  <2>2. ~IsLeaf(t)
    <3>1. IsLeaf(t) <=> h = 1
      BY <1>h, <1>7, TreeParts
    <3> QED
      BY <3>1
  <2>3. LastLeaf[h][t] = IF IsLeaf(t) THEN t ELSE LastLeaf[k][Last(t.children)]
    BY <1>h, <1>7, LastLeafIs
  <2> QED
    BY <2>1, <2>2, <2>3
<1>11. t \in Good(h, lo, hi)
  BY <1>7
<1> QED
  BY <1>3, <1>8, <1>9, <1>10, <1>11 DEF IsAppended, hi, child

(* AppendToLastLeaf on a tree that is as it should be between calls. *)
LEMMA AppendSized ==
    ASSUME NEW h \in Nat, NEW lo, NEW node, NEW item, IsAppending(h, lo, node, item)
    PROVE  IsAppended(h, lo, node, AppendToLastLeaf(h, node, item))
<1> DEFINE T(k) == \A l, x : IsAppending(k, l, x, item) => IsAppended(k, l, x, AppendToLastLeaf(k, x, item))
           S == {k \in Nat : T(k)}
<1>1. 0 \in S
  BY DEF IsAppending
<1>2. ASSUME NEW k \in Nat, k \in S PROVE k + 1 \in S
  <2> DEFINE h1 == k + 1
  <2>0. h1 \in Nat /\ h1 >= 1 /\ h1 - 1 = k
    OBVIOUS
  <2>k. T(k)
    BY <1>2
  <2> HIDE DEF h1, T
  <2>1. ASSUME NEW l, NEW x, IsAppending(h1, l, x, item)
        PROVE  IsAppended(h1, l, x, AppendToLastLeaf(h1, x, item))
    <3> DEFINE c == AppendToLastLeaf(k, Last(x.children), item)
               t == AppendToLastLeaf(h1, x, item)
               hi == MaxItems - 2
    <3>h. /\ l \in Int /\ x \in Good(h1, l, hi) /\ item \in Item
          /\ Len(LastLeaf[h1][x].items) < hi
      BY <2>1 DEF IsAppending
    <3>m. hi \in Int /\ MinItems \in Int
      BY MinItemsBound
    <3> HIDE DEF hi
    <3>1. x \in Tree[h1] /\ (IsLeaf(x) <=> h1 = 1) /\ x.children \in Seq(Sub[h1 - 1])
      BY <2>0, <3>h, <3>m, GoodParts
    <3>2. t = IF IsLeaf(x) THEN Leaf(Append(x.items, item))
              ELSE [x EXCEPT !.children = ReplaceAt(@, Len(@), c)]
      <4>1. c = AppendToLastLeaf(h1 - 1, Last(x.children), item)
        BY <2>0
      <4> HIDE DEF c
      <4> QED
        BY <2>0, <3>h, <3>1, <4>1, AppendToLastLeafIs
    <3> HIDE DEF t
    <3>3. CASE h1 = 1
      <4>1. t = Leaf(Append(x.items, item))
        BY <3>1, <3>2, <3>3
      <4>2. IsAppended(h1, l, x, t)
        BY <2>1, <3>3, <4>1, AppendHere
      <4> QED
        BY <4>2 DEF t
    <3>4. CASE h1 # 1
      <4> DEFINE child == Last(x.children)
      <4>1. SetsLastChild(x, c, t)
        BY <3>1, <3>2, <3>4 DEF SetsLastChild
      <4>2. child \in Sub[k]
        <5>1. x.children # <<>>
          BY <3>1, <3>4 DEF IsLeaf
        <5>2. x.children \in Seq(Sub[k])
          BY <2>0, <3>1
        <5> QED
          BY <5>1, <5>2, FrontAndLast
      <4>3. LastLeaf[h1][x] = LastLeaf[k][child]
        BY <2>0, <3>1, <3>4, LastLeafIs
      <4> HIDE DEF child
      <4>4. k >= 1
        BY <2>0, <3>4
      <4>5. child \in Good(k, MinItems, hi)
        BY <4>2, <4>4, SubIsGood DEF hi
      <4>6. IsAppending(k, MinItems, child, item)
        BY <3>h, <3>m, <4>3, <4>4, <4>5 DEF IsAppending, hi
      <4>7. IsAppended(k, MinItems, child, AppendToLastLeaf(k, child, item))
        BY <2>k, <4>6 DEF T
      <4>8. IsAppended(h1 - 1, MinItems, Last(x.children), c)
        BY <2>0, <4>7 DEF child
      <4> HIDE DEF c
      <4>9. IsAppended(h1, l, x, t)
        BY <2>1, <3>4, <4>1, <4>8, AppendBelow
      <4> QED
        BY <4>9 DEF t
    <3> QED
      BY <3>3, <3>4
  <2>2. T(h1)
    BY <2>1 DEF T
  <2> QED
    BY <2>0, <2>2 DEF h1
<1>3. h \in S
  <2> HIDE DEF S
  <2> QED
    BY <1>1, <1>2, SetInduction
<1> QED
  BY <1>3

-----------------------------------------------------------------------------
(* A deletion under way.                                                     *)

Under(node, prev, p, mallocs, freed) ==
    [node |-> node, prev |-> prev, pool |-> p, mallocs |-> mallocs, freed |-> freed]

Freed == [leaves : Nat, branches : Nat]

Bump(f, kind) == [f EXCEPT ![kind] = @ + 1]

IsDeletion(d) ==
    /\ d = Under(d.node, d.prev, d.pool, d.mallocs, d.freed)
    /\ PoolOk(d.pool) /\ d.mallocs \in Nat /\ d.freed \in Freed

(* The nodes a deletion holds or gave back. *)
Held(d, kind) == d.pool[kind].len + d.freed[kind]

(* The parts of a deletion. *)
LEMMA UnderParts ==
    ASSUME NEW node, NEW prev, NEW p, NEW mallocs, NEW freed
    PROVE  LET d == Under(node, prev, p, mallocs, freed)
           IN  /\ d.node = node /\ d.prev = prev /\ d.pool = p /\ d.mallocs = mallocs /\ d.freed = freed
               /\ d = Under(d.node, d.prev, d.pool, d.mallocs, d.freed)

BY DEF Under

(* One more node given back. *)
LEMMA Bumped ==
    ASSUME NEW f \in Freed, NEW kind \in Kinds
    PROVE  /\ Bump(f, kind) \in Freed /\ Bump(f, kind)[kind] = f[kind] + 1
           /\ \A k \in Kinds \ {kind} : Bump(f, kind)[k] = f[k]
           /\ \A k \in Kinds : f[k] \in Nat
<1>1. CASE kind = "leaves"
  BY <1>1 DEF Freed, Kinds, Bump
<1>2. CASE kind = "branches"
  BY <1>2 DEF Freed, Kinds, Bump
<1> QED
  BY <1>1, <1>2 DEF Kinds

(* What takeaway comes to. *)
LEMMA TakeawayIs ==
    ASSUME NEW d, IsDeletion(d), NEW kind \in Kinds, NEW e, e = takeaway(d, kind)
    PROVE  \/ e = Under(d.node, d.prev, d.pool, d.mallocs, Bump(d.freed, kind))
           \/ \E g \in Group, m \in Nat :
                 /\ e = Under(d.node, d.prev, Regroup(d.pool, kind, g), m, d.freed)
                 /\ g.len = d.pool[kind].len + 1 /\ g.len <= g.cap
<1> DEFINE p == d.pool
           g0 == p[kind]
           f == d.freed
<1>1. /\ d = Under(d.node, d.prev, p, d.mallocs, f)
      /\ p \in Pool /\ 0 <= g0.len /\ g0.len <= g0.cap /\ d.mallocs \in Nat /\ f \in Freed
  BY DEF IsDeletion, PoolOk
<1>2. g0 \in Group /\ g0.len \in Int /\ g0.cap \in Nat
  BY <1>1, GroupOf DEF Group
<1> DEFINE a == [len |-> g0.len + 1, cap |-> g0.cap]
           b == [len |-> g0.len + 1, cap |-> IF g0.cap = 0 THEN 1 ELSE 2 * g0.cap]
<1>3. [g0 EXCEPT !.len = @ + 1] = a /\ [grow_group(g0) EXCEPT !.len = @ + 1] = b
  <2>1. g0 \in Group /\ g0.cap \in Nat
    BY <1>2
  <2> DEFINE c == IF g0.cap = 0 THEN 1 ELSE 2 * g0.cap
             gg == grow_group(g0)
  <2> HIDE DEF g0
  <2>2. [g0 EXCEPT !.len = @ + 1] = [len |-> g0.len + 1, cap |-> g0.cap]
    BY <2>1 DEF Group
  <2>3. gg = [len |-> g0.len, cap |-> c]
    BY <2>1 DEF Group, grow_group
  <2> HIDE DEF c, gg
  <2>4. [gg EXCEPT !.len = @ + 1] = [len |-> g0.len + 1, cap |-> c]
    BY <2>3
  <2> QED
    BY <2>2, <2>4 DEF c, gg, g0
<1>4. a \in Group /\ b \in Group
  <2> HIDE DEF g0
  <2> QED
    BY <1>2 DEF Group
<1>5. [d EXCEPT !.freed[kind] = @ + 1] = Under(d.node, d.prev, p, d.mallocs, Bump(f, kind))
  <2> DEFINE x == d.node
             y == d.prev
             m == d.mallocs
             bf == Bump(f, kind)
  <2>1. [d EXCEPT !.freed[kind] = @ + 1] = [d EXCEPT !.freed = Bump(d.freed, kind)]
    BY DEF Bump
  <2>2. d = Under(x, y, p, m, f) /\ bf = Bump(d.freed, kind)
    BY <1>1
  <2> HIDE DEF x, y, p, m, f, bf
  <2>3. [Under(x, y, p, m, f) EXCEPT !.freed = bf] = Under(x, y, p, m, bf)
    BY DEF Under
  <2> QED
    BY <2>1, <2>2, <2>3 DEF x, y, p, m, f, bf
<1>6. [d EXCEPT !.pool[kind].len = @ + 1] = Under(d.node, d.prev, Regroup(p, kind, a), d.mallocs, f)
  <2> DEFINE x == d.node
             y == d.prev
             m == d.mallocs
             q == Regroup(p, kind, a)
  <2>1. [d EXCEPT !.pool[kind].len = @ + 1] = [d EXCEPT !.pool = q]
    <3>1. [d EXCEPT !.pool[kind].len = @ + 1] = [d EXCEPT !.pool = Regroup(p, kind, [g0 EXCEPT !.len = @ + 1])]
      BY DEF Regroup
    <3> QED
      BY <1>3, <3>1
  <2>2. d = Under(x, y, p, m, f)
    BY <1>1
  <2> HIDE DEF x, y, p, m, f, q
  <2>3. [Under(x, y, p, m, f) EXCEPT !.pool = q] = Under(x, y, q, m, f)
    BY DEF Under
  <2> QED
    BY <2>1, <2>2, <2>3 DEF x, y, m, q
<1>7. [d EXCEPT !.pool[kind] = [grow_group(g0) EXCEPT !.len = @ + 1], !.mallocs = @ - 1]
      = Under(d.node, d.prev, Regroup(p, kind, b), d.mallocs - 1, f)
  <2> DEFINE x == d.node
             y == d.prev
             m == d.mallocs
             q == Regroup(p, kind, b)
  <2>1. [d EXCEPT !.pool[kind] = [grow_group(g0) EXCEPT !.len = @ + 1], !.mallocs = @ - 1]
        = [d EXCEPT !.pool = q, !.mallocs = @ - 1]
    <3>1. [d EXCEPT !.pool[kind] = [grow_group(g0) EXCEPT !.len = @ + 1], !.mallocs = @ - 1]
          = [d EXCEPT !.pool = Regroup(p, kind, [grow_group(g0) EXCEPT !.len = @ + 1]), !.mallocs = @ - 1]
      BY DEF Regroup
    <3> QED
      BY <1>3, <3>1
  <2>2. d = Under(x, y, p, m, f)
    BY <1>1
  <2> HIDE DEF x, y, p, m, f, q
  <2> DEFINE u == Under(x, y, p, m, f)
             v == Under(x, y, q, m, f)
  <2>3. [u EXCEPT !.pool = q] = v
    BY DEF Under
  <2>4. [v EXCEPT !.mallocs = v.mallocs - 1] = Under(x, y, q, m - 1, f)
    BY DEF Under
  <2> HIDE DEF u, v
  <2>5. [u EXCEPT !.pool = q, !.mallocs = @ - 1] = [[u EXCEPT !.pool = q] EXCEPT !.mallocs = [u EXCEPT !.pool = q].mallocs - 1]
    OBVIOUS
  <2>6. [u EXCEPT !.pool = q, !.mallocs = @ - 1] = Under(x, y, q, m - 1, f)
    BY <2>3, <2>4, <2>5
  <2> QED
    BY <2>1, <2>2, <2>6 DEF x, y, m, q, u
<1>8. CASE g0.len = MAXLEN \/ (~(g0.len < g0.cap) /\ d.mallocs = 0)
  <2>1. e = [d EXCEPT !.freed[kind] = @ + 1]
    BY <1>8 DEF takeaway
  <2> QED
    BY <1>5, <2>1
<1>9. CASE ~(g0.len = MAXLEN) /\ g0.len < g0.cap
  <2>1. e = [d EXCEPT !.pool[kind].len = @ + 1]
    BY <1>9 DEF takeaway
  <2>2. a.len = g0.len + 1 /\ a.len <= a.cap
    <3> HIDE DEF g0
    <3> QED
      BY <1>2, <1>9
  <2> HIDE DEF a
  <2> QED
    BY <1>1, <1>4, <1>6, <2>1, <2>2
<1>10. CASE ~(g0.len = MAXLEN) /\ ~(g0.len < g0.cap) /\ d.mallocs # 0
  <2>1. e = [d EXCEPT !.pool[kind] = [grow_group(g0) EXCEPT !.len = @ + 1], !.mallocs = @ - 1]
    BY <1>10 DEF takeaway
  <2>2. b.len = g0.len + 1 /\ b.len <= b.cap
    <3> HIDE DEF g0
    <3> QED
      BY <1>1, <1>2
  <2>3. d.mallocs - 1 \in Nat
    BY <1>1, <1>10
  <2> HIDE DEF b
  <2> QED
    BY <1>4, <1>7, <2>1, <2>2, <2>3
<1> DEFINE full == g0.len = MAXLEN
           room == g0.len < g0.cap
           poor == d.mallocs = 0
<1>11. (full \/ (~room /\ poor)) \/ (~full /\ room) \/ (~full /\ ~room /\ ~poor)
  BY Zenon DEF full, room, poor
<1> QED
  BY <1>8, <1>9, <1>10, <1>11, Zenon

(* Taking a node away. *)
LEMMA TakesAway ==
    ASSUME NEW d, IsDeletion(d), NEW kind \in Kinds, NEW e, e = takeaway(d, kind)
    PROVE  /\ IsDeletion(e) /\ e.node = d.node /\ e.prev = d.prev
           /\ Held(e, kind) = Held(d, kind) + 1
           /\ \A k \in Kinds \ {kind} : Held(e, k) = Held(d, k)
           /\ \A k \in Kinds : Held(d, k) \in Int
<1>1. /\ d = Under(d.node, d.prev, d.pool, d.mallocs, d.freed)
      /\ d.pool \in Pool /\ \A k \in Kinds : 0 <= d.pool[k].len /\ d.pool[k].len <= d.pool[k].cap
      /\ d.mallocs \in Nat /\ d.freed \in Freed
  BY DEF IsDeletion, PoolOk
<1>2. \A k \in Kinds : d.pool[k].len \in Int /\ d.freed[k] \in Nat
  BY <1>1, GroupOf, Bumped
<1>3. CASE e = Under(d.node, d.prev, d.pool, d.mallocs, Bump(d.freed, kind))
  <2> DEFINE f == Bump(d.freed, kind)
  <2>1. e.node = d.node /\ e.prev = d.prev /\ e.pool = d.pool /\ e.mallocs = d.mallocs /\ e.freed = f
        /\ e = Under(e.node, e.prev, e.pool, e.mallocs, e.freed)
    BY <1>3, UnderParts
  <2>2. f \in Freed /\ f[kind] = d.freed[kind] + 1 /\ \A k \in Kinds \ {kind} : f[k] = d.freed[k]
    BY <1>1, Bumped
  <2> HIDE DEF f
  <2>3. IsDeletion(e)
    BY <1>1, <2>1, <2>2 DEF IsDeletion, PoolOk
  <2> QED
    BY <1>2, <2>1, <2>2, <2>3 DEF Held
<1>4. ASSUME NEW g \in Group, NEW m \in Nat,
             e = Under(d.node, d.prev, Regroup(d.pool, kind, g), m, d.freed),
             g.len = d.pool[kind].len + 1, g.len <= g.cap
      PROVE  /\ IsDeletion(e) /\ e.node = d.node /\ e.prev = d.prev
             /\ Held(e, kind) = Held(d, kind) + 1
             /\ \A k \in Kinds \ {kind} : Held(e, k) = Held(d, k)
  <2> DEFINE q == Regroup(d.pool, kind, g)
  <2>1. e.node = d.node /\ e.prev = d.prev /\ e.pool = q /\ e.mallocs = m /\ e.freed = d.freed
        /\ e = Under(e.node, e.prev, e.pool, e.mallocs, e.freed)
    BY <1>4, UnderParts
  <2>2. q \in Pool /\ q[kind] = g /\ \A k \in Kinds \ {kind} : q[k] = d.pool[k]
    BY <1>1, GroupReplaced
  <2> HIDE DEF q
  <2>3. PoolOk(q)
    <3>1. ASSUME NEW k \in Kinds PROVE 0 <= q[k].len /\ q[k].len <= q[k].cap
      <4>1. CASE k = kind
        <5>1. 0 <= g.len
          BY <1>1, <1>2, <1>4
        <5> QED
          BY <4>1, <5>1, <2>2, <1>4
      <4>2. CASE k # kind
        BY <4>2, <2>2, <1>1
      <4> QED
        BY <4>1, <4>2
    <3> QED
      BY <2>2, <3>1 DEF PoolOk
  <2>4. IsDeletion(e)
    BY <1>1, <2>1, <2>3 DEF IsDeletion
  <2>5. Held(e, kind) = Held(d, kind) + 1
    <3>1. e.pool[kind].len = d.pool[kind].len + 1 /\ e.freed[kind] = d.freed[kind]
      BY <2>1, <2>2, <1>4
    <3> QED
      BY <3>1, <1>2 DEF Held
  <2>6. \A k \in Kinds \ {kind} : Held(e, k) = Held(d, k)
    BY <2>1, <2>2 DEF Held
  <2> QED
    BY <2>1, <2>4, <2>5, <2>6
<1>5. \A k \in Kinds : Held(d, k) \in Int
  BY <1>2 DEF Held
<1> QED
  BY <1>3, <1>4, <1>5, TakeawayIs

-----------------------------------------------------------------------------
(* Two nodes next to each other and the item between them.                   *)

(* A sequence with its last element, and with its first, on its own. *)
LEMMA FrontThenLast ==
    ASSUME NEW T, NEW s \in Seq(T), s # <<>>
    PROVE  /\ Front(s) \in Seq(T) /\ Last(s) \in T /\ s = Front(s) \o <<Last(s)>>
           /\ Len(Front(s)) = Len(s) - 1
<1> DEFINE f == Front(s)
           x == Last(s)
<1>1. f \in Seq(T) /\ x \in T /\ s = Append(f, x) /\ Len(s) = Len(f) + 1
  BY FrontAndLast
<1> HIDE DEF f, x
<1>2. Append(f, x) = f \o <<x>>
  <2>1. Append(f, x) \in Seq(T) /\ Len(Append(f, x)) = Len(f) + 1 /\ Len(f) \in Nat
    BY <1>1
  <2>2. <<x>> \in Seq(T) /\ Len(<<x>>) = 1 /\ <<x>>[1] = x
    BY <1>1, OneElement
  <2> DEFINE y == <<x>>
             a == Append(f, x)
  <2>3. y \in Seq(T) /\ Len(y) = 1 /\ y[1] = x /\ a \in Seq(T) /\ Len(a) = Len(f) + 1
    BY <2>1, <2>2
  <2>4. \A i \in 1 .. Len(f) + 1 : a[i] = IF i <= Len(f) THEN f[i] ELSE x
    BY <1>1, <2>1
  <2> HIDE DEF y, a
  <2>5. f \o y \in Seq(T) /\ Len(f \o y) = Len(f) + Len(y)
        /\ \A i \in 1 .. Len(f) + Len(y) : (f \o y)[i] = IF i <= Len(f) THEN f[i] ELSE y[i - Len(f)]
    BY <1>1, <2>3, ConcatProperties
  <2>6. Len(f \o y) = Len(a) /\ \A i \in 1 .. Len(a) : (f \o y)[i] = a[i]
    <3>1. ASSUME NEW i \in 1 .. Len(a) PROVE (f \o y)[i] = a[i]
      <4>1. CASE i <= Len(f)
        BY <4>1, <2>1, <2>3, <2>4, <2>5
      <4>2. CASE ~(i <= Len(f))
        <5>1. i - Len(f) = 1
          BY <4>2, <2>1, <2>3
        <5> QED
          BY <4>2, <5>1, <2>1, <2>3, <2>4, <2>5
      <4> QED
        BY <4>1, <4>2
    <3> QED
      BY <2>3, <2>5, <3>1
  <2> QED
    BY <2>3, <2>5, <2>6, SeqEqual DEF a, y
<1>3. Len(f) = Len(s) - 1
  BY <1>1
<1> QED
  BY <1>1, <1>2, <1>3 DEF f, x

(* A sequence is its first element and the others. *)
LEMMA HeadThenTail ==
    ASSUME NEW T, NEW s \in Seq(T), s # <<>>
    PROVE  /\ Head(s) \in T /\ Tail(s) \in Seq(T) /\ s = <<Head(s)>> \o Tail(s)
           /\ Len(Tail(s)) = Len(s) - 1
<1> DEFINE t == Tail(s)
           x == Head(s)
           y == <<x>>
<1>1. x \in T /\ t \in Seq(T) /\ Len(t) = Len(s) - 1 /\ Len(s) \in Nat /\ x = s[1]
      /\ \A i \in 1 .. Len(t) : t[i] = s[i + 1]
  <2>1. Len(s) \in Nat /\ Len(s) # 0
    BY EmptySeq
  <2> QED
    BY <2>1
<1> HIDE DEF t, x
<1>2. y \in Seq(T) /\ Len(y) = 1 /\ y[1] = x
  BY <1>1, OneElement
<1> HIDE DEF y
<1>3. y \o t \in Seq(T) /\ Len(y \o t) = Len(y) + Len(t)
      /\ \A i \in 1 .. Len(y) + Len(t) : (y \o t)[i] = IF i <= Len(y) THEN y[i] ELSE t[i - Len(y)]
  <2>1. y \in Seq(T) /\ t \in Seq(T)
    BY <1>1, <1>2
  <2> QED
    BY <2>1, ConcatProperties
<1>4. ASSUME NEW i \in 1 .. Len(s) PROVE (y \o t)[i] = s[i]
  <2>1. CASE i = 1
    BY <2>1, <1>1, <1>2, <1>3
  <2>2. CASE i # 1
    <3>1. i - 1 \in 1 .. Len(t) /\ (i - 1) + 1 = i
      BY <2>2, <1>1
    <3>2. t[i - 1] = s[i]
      BY <1>1, <3>1
    <3> QED
      BY <2>2, <3>2, <1>1, <1>2, <1>3
  <2> QED
    BY <2>1, <2>2
<1>5. y \o t = s
  <2>1. Len(y \o t) = Len(s)
    BY <1>1, <1>2, <1>3
  <2> QED
    BY <1>3, <1>4, <2>1, SeqEqual
<1> QED
  BY <1>1, <1>5 DEF t, x, y

\* A node with good children, of whatever length.
Loose(k) == {node \in Tree[k] : node.children \in Seq(Sub[k - 1])}

(* A loose node of a height and its parts. *)
LEMMA LooseParts ==
    ASSUME NEW k \in Nat, k >= 1, NEW node \in Loose(k)
    PROVE  /\ node \in Tree[k] /\ node.items \in Seq(Item) /\ node.children \in Seq(Sub[k - 1])
           /\ node = Branch(node.items, node.children)
           /\ IsLeaf(node) <=> k = 1
           /\ IF k = 1 THEN node.children = <<>> ELSE Len(node.children) = Len(node.items) + 1
           /\ Len(node.items) \in Nat /\ k - 1 \in Nat
<1>1. node \in Tree[k] /\ node.children \in Seq(Sub[k - 1])
  BY DEF Loose
<1>2. /\ node.items \in Seq(Item)
      /\ node = Branch(node.items, node.children)
      /\ IsLeaf(node) <=> k = 1
      /\ IF k = 1 THEN node.children = <<>> ELSE Len(node.children) = Len(node.items) + 1
      /\ k - 1 \in Nat
  BY <1>1, TreeParts
<1> QED
  BY <1>1, <1>2

MakesLoose(k, items, children) ==
    /\ k \in Nat /\ k >= 1 /\ items \in Seq(Item) /\ children \in Seq(Sub[k - 1])
    /\ IF k = 1 THEN children = <<>> ELSE Len(children) = Len(items) + 1

(* A loose node from its parts. *)
LEMMA LooseMade ==
    ASSUME NEW k, NEW items, NEW children, MakesLoose(k, items, children)
    PROVE  /\ Branch(items, children) \in Loose(k)
           /\ Branch(items, children).items = items /\ Branch(items, children).children = children
<1>1. /\ k \in Nat /\ k >= 1 /\ items \in Seq(Item) /\ children \in Seq(Sub[k - 1])
      /\ IF k = 1 THEN children = <<>> ELSE Len(children) = Len(items) + 1
      /\ k - 1 \in Nat
  BY DEF MakesLoose
<1>2. children \in Seq(Tree[k - 1])
  BY <1>1, SeqOfSub
<1>3. Branch(items, children) \in Tree[k]
  BY <1>1, <1>2, TreeMade
<1> QED
  BY <1>1, <1>3 DEF Loose, Branch

(* A loose node that is neither too short nor too long is a good child. *)
LEMMA LooseIsSub ==
    ASSUME NEW k \in Nat, k >= 1
    PROVE  \A node : node \in Sub[k] <=> node \in Loose(k) /\ Len(node.items) \in MinItems .. MaxItems - 2

BY SubIsGood DEF Good, Loose

Pair(k, l, m, r) == k \in Nat /\ k >= 1 /\ l \in Loose(k) /\ r \in Loose(k) /\ m \in Item

\* The left node without its last item, which moves up, and the item moved down.
ShorterLeft(l)      == [items |-> Front(l.items), children |-> IF IsLeaf(l) THEN <<>> ELSE Front(l.children)]

LongerRight(l, m, r) == [items |-> <<m>> \o r.items,
                         children |-> IF IsLeaf(l) THEN <<>> ELSE <<Last(l.children)>> \o r.children]

\* And the other way round.
LongerLeft(l, m, r) == [items |-> Append(l.items, m),
                        children |-> IF IsLeaf(l) THEN <<>> ELSE Append(l.children, Head(r.children))]

ShorterRight(l, r)  == [items |-> Tail(r.items), children |-> IF IsLeaf(l) THEN <<>> ELSE Tail(r.children)]

(* Two sequences with an element moved from the end of one to the other. *)
LEMMA MovedOver ==
    ASSUME NEW T, NEW a \in Seq(T), NEW b \in Seq(T), NEW x \in T
    PROVE  /\ (a \o <<x>>) \o b = a \o (<<x>> \o b)
           /\ a \o <<x>> \in Seq(T) /\ <<x>> \o b \in Seq(T)
           /\ Len(a \o <<x>>) = Len(a) + 1 /\ Len(<<x>> \o b) = Len(b) + 1
<1> DEFINE y == <<x>>
<1>1. y \in Seq(T) /\ Len(y) = 1
  BY OneElement
<1> HIDE DEF y
<1>2. (a \o y) \o b = a \o (y \o b)
  BY <1>1, ConcatAssoc
<1>3. a \o y \in Seq(T) /\ Len(a \o y) = Len(a) + Len(y) /\ y \o b \in Seq(T) /\ Len(y \o b) = Len(y) + Len(b)
  BY <1>1, ConcatProperties
<1>4. Len(a) \in Nat /\ Len(b) \in Nat
  OBVIOUS
<1> QED
  BY <1>1, <1>2, <1>3, <1>4 DEF y

(* Appending is putting one element behind. *)
LEMMA AppendIs ==
    ASSUME NEW T, NEW s \in Seq(T), NEW x \in T
    PROVE  Append(s, x) = s \o <<x>>
<1> DEFINE t == Append(s, x)
<1>1. t \in Seq(T) /\ Len(t) = Len(s) + 1 /\ Len(s) \in Nat
  OBVIOUS
<1>2. t # <<>>
  BY <1>1
<1>3. Last(t) = x
  BY <1>1 DEF Last
<1>4. Front(t) = s
  <2>1. Front(t) \in Seq(T) /\ Len(Front(t)) = Len(s)
    <3> HIDE DEF t
    <3>1. Front(t) \in Seq(T) /\ Len(Front(t)) = Len(t) - 1
      BY <1>1, <1>2, FrontThenLast
    <3> QED
      BY <1>1, <3>1
  <2>2. Front(t) = SubSeq(t, 1, Len(t) - 1)
    BY DEF Front
  <2>3. ASSUME NEW i \in 1 .. Len(s) PROVE Front(t)[i] = s[i]
    <3>1. i \in 1 .. Len(t) - 1
      BY <1>1
    <3>2. SubSeq(t, 1, Len(t) - 1)[i] = t[i]
      <4>1. Len(t) - 1 \in Nat /\ 1 + i - 1 = i
        BY <1>1
      <4> HIDE DEF t
      <4> QED
        BY <1>1, <3>1, <4>1
    <3>3. t[i] = s[i]
      OBVIOUS
    <3> QED
      BY <2>2, <3>2, <3>3
  <2> QED
    BY <2>1, <2>3, SeqEqual
<1> HIDE DEF t
<1>5. t = Front(t) \o <<Last(t)>>
  BY <1>1, <1>2, FrontThenLast
<1> QED
  BY <1>3, <1>4, <1>5 DEF t

ShiftsRight(k, l, m, r, l2, m2, r2) ==
    /\ Pair(k, l, m, r) /\ Len(l.items) >= 1
    /\ l2 = ShorterLeft(l) /\ m2 = Last(l.items) /\ r2 = LongerRight(l, m, r)

ShiftsLeft(k, l, m, r, l2, m2, r2) ==
    /\ Pair(k, l, m, r) /\ Len(r.items) >= 1
    /\ l2 = LongerLeft(l, m, r) /\ m2 = Head(r.items) /\ r2 = ShorterRight(l, r)

(* An item moved from the left to the right. *)
LEMMA ShiftedRight ==
    ASSUME NEW k, NEW l, NEW m, NEW r, NEW l2, NEW m2, NEW r2, ShiftsRight(k, l, m, r, l2, m2, r2)
    PROVE  /\ Pair(k, l2, m2, r2)
           /\ Joined(l2, m2, r2) = Joined(l, m, r)
           /\ Len(l2.items) = Len(l.items) - 1 /\ Len(r2.items) = Len(r.items) + 1
<1> DEFINE li == l.items
           lc == l.children
           ri == r.items
           rc == r.children
           S == Sub[k - 1]
           fi == Front(li)
           gi == <<m>> \o ri
           fc == IF k = 1 THEN <<>> ELSE Front(lc)
           gc == IF k = 1 THEN <<>> ELSE <<Last(lc)>> \o rc
<1>h. Pair(k, l, m, r) /\ Len(li) >= 1 /\ l2 = ShorterLeft(l) /\ m2 = Last(li) /\ r2 = LongerRight(l, m, r)
  BY DEF ShiftsRight
<1>0. k \in Nat /\ k >= 1 /\ l \in Loose(k) /\ r \in Loose(k) /\ m \in Item
  BY <1>h DEF Pair
<1>1. /\ li \in Seq(Item) /\ lc \in Seq(S)
      /\ IF k = 1 THEN lc = <<>> ELSE Len(lc) = Len(li) + 1
      /\ Len(li) \in Nat /\ Len(li) >= 1
  BY <1>0, <1>h, LooseParts
<1>2. /\ ri \in Seq(Item) /\ rc \in Seq(S) /\ IF k = 1 THEN rc = <<>> ELSE Len(rc) = Len(ri) + 1
      /\ Len(ri) \in Nat
  BY <1>0, LooseParts
<1>3. IsLeaf(l) <=> k = 1
  BY <1>0, LooseParts
<1>4. l2 = Branch(fi, fc)
  BY <1>3, <1>h DEF ShorterLeft, Branch
<1>5. r2 = Branch(gi, gc)
  BY <1>3, <1>h DEF LongerRight, Branch
<1>6. Joined(l, m, r) = Branch((li \o <<m>>) \o ri, lc \o rc)
  BY DEF Joined
<1> HIDE DEF li, lc, ri, rc, S
<1>7. /\ fi \in Seq(Item) /\ m2 \in Item /\ li = fi \o <<m2>> /\ Len(fi) = Len(li) - 1
  <2>1. li # <<>>
    BY <1>1
  <2>2. m2 = Last(li)
    BY <1>h
  <2>3. li \in Seq(Item)
    BY <1>1
  <2>4. Front(li) \in Seq(Item) /\ Last(li) \in Item /\ li = Front(li) \o <<Last(li)>> /\ Len(Front(li)) = Len(li) - 1
    BY <2>1, <2>3, FrontThenLast
  <2> QED
    BY <2>2, <2>4
<1>8. gi \in Seq(Item) /\ Len(gi) = Len(ri) + 1 /\ (li \o <<m>>) \o ri = li \o gi
  BY <1>0, <1>1, <1>2, MovedOver
<1>9. /\ fc \in Seq(S) /\ gc \in Seq(S) /\ fc \o gc = lc \o rc
      /\ IF k = 1 THEN fc = <<>> ELSE Len(fc) = Len(fi) + 1
      /\ IF k = 1 THEN gc = <<>> ELSE Len(gc) = Len(gi) + 1
  <2>1. CASE k = 1
    BY <2>1, <1>1, <1>2
  <2>2. CASE k # 1
    <3> DEFINE x == Last(lc)
               a == Front(lc)
    <3>1. lc # <<>> /\ Len(lc) = Len(li) + 1 /\ Len(rc) = Len(ri) + 1
      BY <1>1, <1>2, <2>2
    <3>l. lc \in Seq(S) /\ lc # <<>>
      BY <1>1, <3>1
    <3>2. a \in Seq(S) /\ x \in S /\ lc = a \o <<x>> /\ Len(a) = Len(lc) - 1
      BY <3>l, FrontThenLast
    <3> HIDE DEF x, a
    <3>3. /\ (a \o <<x>>) \o rc = a \o (<<x>> \o rc)
          /\ <<x>> \o rc \in Seq(S)
          /\ Len(<<x>> \o rc) = Len(rc) + 1
      BY <1>2, <3>2, MovedOver
    <3>4. fc = a /\ gc = <<x>> \o rc
      BY <2>2 DEF a, x
    <3> HIDE DEF fc, gc
    <3>5. Len(fc) = Len(fi) + 1
      <4>1. Len(a) = Len(li) /\ Len(fi) = Len(li) - 1 /\ Len(li) \in Nat
        BY <1>1, <1>7, <3>1, <3>2
      <4> QED
        BY <3>4, <4>1
    <3>6. Len(gc) = Len(gi) + 1
      BY <1>8, <3>1, <3>3, <3>4
    <3> QED
      BY <2>2, <3>2, <3>3, <3>4, <3>5, <3>6
  <2> QED
    BY <2>1, <2>2
<1> HIDE DEF fi, gi, fc, gc
<1>10. l2 \in Loose(k) /\ l2.items = fi /\ l2.children = fc
  <2>1. MakesLoose(k, fi, fc)
    BY <1>0, <1>7, <1>9 DEF MakesLoose, S
  <2> QED
    BY <1>4, <2>1, LooseMade
<1>11. r2 \in Loose(k) /\ r2.items = gi /\ r2.children = gc
  <2>1. MakesLoose(k, gi, gc)
    <3>1. gi \in Seq(Item) /\ gc \in Seq(Sub[k - 1])
      BY <1>8, <1>9 DEF S
    <3>2. IF k = 1 THEN gc = <<>> ELSE Len(gc) = Len(gi) + 1
      BY <1>9
    <3> QED
      BY <1>0, <3>1, <3>2 DEF MakesLoose
  <2> QED
    BY <1>5, <2>1, LooseMade
<1>12. Joined(l2, m2, r2) = Branch((fi \o <<m2>>) \o gi, fc \o gc)
  BY <1>10, <1>11 DEF Joined
<1>13. Joined(l2, m2, r2) = Joined(l, m, r)
  BY <1>6, <1>7, <1>8, <1>9, <1>12
<1> QED
  BY <1>0, <1>7, <1>8, <1>10, <1>11, <1>13 DEF Pair, li, ri

(* An item moved from the right to the left. *)
LEMMA ShiftedLeft ==
    ASSUME NEW k, NEW l, NEW m, NEW r, NEW l2, NEW m2, NEW r2, ShiftsLeft(k, l, m, r, l2, m2, r2)
    PROVE  /\ Pair(k, l2, m2, r2)
           /\ Joined(l2, m2, r2) = Joined(l, m, r)
           /\ Len(l2.items) = Len(l.items) + 1 /\ Len(r2.items) = Len(r.items) - 1
<1> DEFINE li == l.items
           lc == l.children
           ri == r.items
           rc == r.children
           S == Sub[k - 1]
           fi == Append(li, m)
           gi == Tail(ri)
           fc == IF k = 1 THEN <<>> ELSE Append(lc, Head(rc))
           gc == IF k = 1 THEN <<>> ELSE Tail(rc)
<1>h. Pair(k, l, m, r) /\ Len(ri) >= 1 /\ l2 = LongerLeft(l, m, r) /\ m2 = Head(ri) /\ r2 = ShorterRight(l, r)
  BY DEF ShiftsLeft
<1>0. k \in Nat /\ k >= 1 /\ l \in Loose(k) /\ r \in Loose(k) /\ m \in Item
  BY <1>h DEF Pair
<1>1. /\ li \in Seq(Item) /\ lc \in Seq(S)
      /\ IF k = 1 THEN lc = <<>> ELSE Len(lc) = Len(li) + 1
      /\ Len(li) \in Nat
  BY <1>0, LooseParts
<1>2. /\ ri \in Seq(Item) /\ rc \in Seq(S) /\ IF k = 1 THEN rc = <<>> ELSE Len(rc) = Len(ri) + 1
      /\ Len(ri) \in Nat /\ Len(ri) >= 1
  BY <1>0, <1>h, LooseParts
<1>3. IsLeaf(l) <=> k = 1
  BY <1>0, LooseParts
<1>4. l2 = Branch(fi, fc)
  BY <1>3, <1>h DEF LongerLeft, Branch
<1>5. r2 = Branch(gi, gc)
  BY <1>3, <1>h DEF ShorterRight, Branch
<1>6. Joined(l, m, r) = Branch((li \o <<m>>) \o ri, lc \o rc)
  BY DEF Joined
<1> HIDE DEF li, lc, ri, rc, S
<1>7. /\ gi \in Seq(Item) /\ m2 \in Item /\ ri = <<m2>> \o gi /\ Len(gi) = Len(ri) - 1
  <2>1. ri # <<>>
    BY <1>2
  <2>2. m2 = Head(ri)
    BY <1>h
  <2> QED
    BY <1>2, <2>1, <2>2, HeadThenTail
<1>8. fi \in Seq(Item) /\ Len(fi) = Len(li) + 1 /\ fi = li \o <<m>>
  BY <1>0, <1>1, AppendIs
<1>9. /\ fc \in Seq(S) /\ gc \in Seq(S) /\ fc \o gc = lc \o rc
      /\ IF k = 1 THEN fc = <<>> ELSE Len(fc) = Len(fi) + 1
      /\ IF k = 1 THEN gc = <<>> ELSE Len(gc) = Len(gi) + 1
  <2>1. CASE k = 1
    BY <2>1, <1>1, <1>2
  <2>2. CASE k # 1
    <3> DEFINE x == Head(rc)
               b == Tail(rc)
    <3>1. rc # <<>> /\ Len(lc) = Len(li) + 1 /\ Len(rc) = Len(ri) + 1
      BY <1>1, <1>2, <2>2
    <3>2. b \in Seq(S) /\ x \in S /\ rc = <<x>> \o b /\ Len(b) = Len(rc) - 1
      BY <1>2, <3>1, HeadThenTail
    <3> HIDE DEF x, b
    <3>3. /\ (lc \o <<x>>) \o b = lc \o (<<x>> \o b)
          /\ lc \o <<x>> \in Seq(S)
          /\ Len(lc \o <<x>>) = Len(lc) + 1
      BY <1>1, <3>2, MovedOver
    <3>4. Append(lc, x) = lc \o <<x>>
      BY <1>1, <3>2, AppendIs
    <3>5. fc = lc \o <<x>> /\ gc = b
      BY <2>2, <3>4 DEF b, x
    <3> HIDE DEF fc, gc
    <3>6. Len(gc) = Len(gi) + 1
      <4>1. Len(b) = Len(ri) /\ Len(gi) = Len(ri) - 1 /\ Len(ri) \in Nat
        BY <1>2, <1>7, <3>1, <3>2
      <4> QED
        BY <3>5, <4>1
    <3>7. Len(fc) = Len(fi) + 1
      BY <1>8, <3>1, <3>3, <3>5
    <3> QED
      BY <2>2, <3>2, <3>3, <3>5, <3>6, <3>7
  <2> QED
    BY <2>1, <2>2
<1> HIDE DEF fi, gi, fc, gc
<1>10. l2 \in Loose(k) /\ l2.items = fi /\ l2.children = fc
  <2>1. MakesLoose(k, fi, fc)
    BY <1>0, <1>8, <1>9 DEF MakesLoose, S
  <2> QED
    BY <1>4, <2>1, LooseMade
<1>11. r2 \in Loose(k) /\ r2.items = gi /\ r2.children = gc
  <2>1. MakesLoose(k, gi, gc)
    <3>1. gi \in Seq(Item) /\ gc \in Seq(Sub[k - 1])
      BY <1>7, <1>9 DEF S
    <3>2. IF k = 1 THEN gc = <<>> ELSE Len(gc) = Len(gi) + 1
      BY <1>9
    <3> QED
      BY <1>0, <3>1, <3>2 DEF MakesLoose
  <2> QED
    BY <1>5, <2>1, LooseMade
<1>12. Joined(l2, m2, r2) = Branch((fi \o <<m2>>) \o gi, fc \o gc)
  BY <1>10, <1>11 DEF Joined
<1>13. (fi \o <<m2>>) \o gi = fi \o (<<m2>> \o gi)
  BY <1>7, <1>8, MovedOver
<1>14. Joined(l2, m2, r2) = Joined(l, m, r)
  BY <1>6, <1>7, <1>8, <1>9, <1>12, <1>13
<1> QED
  BY <1>0, <1>7, <1>8, <1>10, <1>11, <1>14 DEF Pair, li, ri

(* Two nodes joined. *)
LEMMA JoinedIsLoose ==
    ASSUME NEW k, NEW l, NEW m, NEW r, Pair(k, l, m, r)
    PROVE  Joined(l, m, r) \in Loose(k)
<1>0. k \in Nat /\ k >= 1 /\ l \in Loose(k) /\ r \in Loose(k) /\ m \in Item
  BY DEF Pair
<1>1. l \in Tree[k] /\ l.children \in Seq(Sub[k - 1]) /\ r \in Tree[k] /\ r.children \in Seq(Sub[k - 1])
  BY <1>0 DEF Loose
<1>2. /\ Joined(l, m, r) \in Tree[k]
      /\ Len(Joined(l, m, r).items) = Len(l.items) + 1 + Len(r.items)
      /\ Joined(l, m, r).children = l.children \o r.children
  BY <1>0, <1>1, JoinedTree
<1>3. l.children \o r.children \in Seq(Sub[k - 1])
  BY <1>1, ConcatProperties
<1> QED
  BY <1>2, <1>3 DEF Loose

-----------------------------------------------------------------------------
(* A branch around two children.                                             *)

(* The first of two elements of a sequence. *)
LEMMA FirstOfTwo ==
    ASSUME NEW T, NEW a \in Seq(T), NEW b \in Seq(T), NEW x \in T, NEW y \in T,
           NEW i, i = Len(a) + 1
    PROVE  Spliced(a, <<x, y>>, b)[i] = x
<1> DEFINE k == Len(a) + 2
<1> HIDE DEF k
<1>1. k = Len(a) + 2
  BY DEF k
<1>2. /\ Spliced(a, <<x, y>>, b)[i] = x
      /\ RemoveAt(Spliced(a, <<x, y>>, b), k) = Spliced(a, <<x>>, b)
  BY <1>1, TwoInSpliced
<1> QED
  BY <1>2

(* The second of them. *)
LEMMA SecondOfTwo ==
    ASSUME NEW T, NEW a \in Seq(T), NEW b \in Seq(T), NEW x \in T, NEW y \in T,
           NEW i, i = Len(a) + 2
    PROVE  Spliced(a, <<x, y>>, b)[i] = y
<1> DEFINE k == Len(a) + 1
<1> HIDE DEF k
<1>1. k = Len(a) + 1
  BY DEF k
<1>2. /\ Spliced(a, <<x, y>>, b)[k] = x
      /\ Spliced(a, <<x, y>>, b)[i] = y
      /\ RemoveAt(Spliced(a, <<x, y>>, b), i) = Spliced(a, <<x>>, b)
  BY <1>1, TwoInSpliced
<1> QED
  BY <1>2

(* The second of them removed. *)
LEMMA SecondRemoved ==
    ASSUME NEW T, NEW a \in Seq(T), NEW b \in Seq(T), NEW x \in T, NEW y \in T,
           NEW i, i = Len(a) + 2
    PROVE  RemoveAt(Spliced(a, <<x, y>>, b), i) = Spliced(a, <<x>>, b)
<1> DEFINE k == Len(a) + 1
<1> HIDE DEF k
<1>1. k = Len(a) + 1
  BY DEF k
<1>2. Spliced(a, <<x, y>>, b)[k] = x /\ RemoveAt(Spliced(a, <<x, y>>, b), i) = Spliced(a, <<x>>, b)
  BY <1>1, TwoInSpliced
<1> QED
  BY <1>2

(* The first of them replaced. *)
LEMMA FirstReplaced ==
    ASSUME NEW T, NEW a \in Seq(T), NEW b \in Seq(T), NEW x \in T, NEW y \in T, NEW z \in T,
           NEW i, i = Len(a) + 1
    PROVE  ReplaceAt(Spliced(a, <<x, y>>, b), i, z) = Spliced(a, <<z, y>>, b)
<1> DEFINE k == Len(a) + 2
<1> HIDE DEF k
<1>1. k = Len(a) + 2
  BY DEF k
<1>2. ReplaceAt(Spliced(a, <<x, y>>, b), i, z) = Spliced(a, <<z, y>>, b)
      /\ ReplaceAt(Spliced(a, <<x, y>>, b), k, z) = Spliced(a, <<x, z>>, b)
  BY <1>1, TwoReplaced
<1> QED
  BY <1>2

(* The second of them replaced. *)
LEMMA SecondReplaced ==
    ASSUME NEW T, NEW a \in Seq(T), NEW b \in Seq(T), NEW x \in T, NEW y \in T, NEW z \in T,
           NEW i, i = Len(a) + 2
    PROVE  ReplaceAt(Spliced(a, <<x, y>>, b), i, z) = Spliced(a, <<x, z>>, b)
<1> DEFINE k == Len(a) + 1
<1> HIDE DEF k
<1>1. k = Len(a) + 1
  BY DEF k
<1>2. ReplaceAt(Spliced(a, <<x, y>>, b), k, z) = Spliced(a, <<z, y>>, b)
      /\ ReplaceAt(Spliced(a, <<x, y>>, b), i, z) = Spliced(a, <<x, z>>, b)
  BY <1>1, TwoReplaced
<1> QED
  BY <1>2

OnSite(h, f, j, l, m, r) == IsSite(h, f, j) /\ m \in Item /\ l \in Tree[h - 1] /\ r \in Tree[h - 1]

(* The two children and the item between them. *)
LEMMA SiteTwo ==
    ASSUME NEW h, NEW f, NEW j, NEW l, NEW m, NEW r, OnSite(h, f, j, l, m, r)
    PROVE  /\ Site(f, <<m>>, <<l, r>>).items[j] = m
           /\ Site(f, <<m>>, <<l, r>>).children[j] = l
           /\ Site(f, <<m>>, <<l, r>>).children[j + 1] = r
<1> DEFINE T == Tree[h - 1]
           A == f.left
           B == f.right
           X == f.lower
           Y == f.upper
           i == j + 1
<1>0. IsSite(h, f, j) /\ m \in Item /\ l \in T /\ r \in T
  BY DEF OnSite
<1>1. /\ A \in Seq(T) /\ B \in Seq(T) /\ X \in Seq(Item) /\ Y \in Seq(Item)
      /\ j = Len(A) + 1 /\ j = Len(X) + 1
  BY <1>0, SiteParts
<1>2. i = Len(A) + 2
  <2>1. Len(A) \in Nat
    BY <1>1
  <2> QED
    BY <1>1, <2>1
<1> HIDE DEF T, A, B, X, Y, i
<1>3. Spliced(X, <<m>>, Y)[j] = m
  BY <1>0, <1>1, SplicedOne
<1>4. Spliced(A, <<l, r>>, B)[j] = l /\ Spliced(A, <<l, r>>, B)[i] = r
  <2>1. A \in Seq(T) /\ B \in Seq(T) /\ j = Len(A) + 1 /\ i = Len(A) + 2
    BY <1>1, <1>2
  <2>2. Spliced(A, <<l, r>>, B)[j] = l
    BY <1>0, <2>1, FirstOfTwo
  <2>3. Spliced(A, <<l, r>>, B)[i] = r
    BY <1>0, <2>1, SecondOfTwo
  <2> QED
    BY <2>2, <2>3
<1> QED
  BY <1>3, <1>4, SiteItems DEF A, B, X, Y, i

(* Both children and the item replaced. *)
LEMMA SiteReplaced ==
    ASSUME NEW h, NEW f, NEW j, NEW l, NEW m, NEW r, OnSite(h, f, j, l, m, r),
           NEW l2, NEW m2, NEW r2, OnSite(h, f, j, l2, m2, r2)
    PROVE  Branch(ReplaceAt(Site(f, <<m>>, <<l, r>>).items, j, m2),
                  ReplaceAt(ReplaceAt(Site(f, <<m>>, <<l, r>>).children, j, l2), j + 1, r2))
           = Site(f, <<m2>>, <<l2, r2>>)
<1> DEFINE T == Tree[h - 1]
           A == f.left
           B == f.right
           X == f.lower
           Y == f.upper
           i == j + 1
           node == Site(f, <<m>>, <<l, r>>)
<1>0. IsSite(h, f, j) /\ m \in Item /\ l \in T /\ r \in T /\ m2 \in Item /\ l2 \in T /\ r2 \in T
  BY DEF OnSite
<1>1. /\ A \in Seq(T) /\ B \in Seq(T) /\ X \in Seq(Item) /\ Y \in Seq(Item)
      /\ j = Len(A) + 1 /\ j = Len(X) + 1
  BY <1>0, SiteParts
<1>2. i = Len(A) + 2
  <2>1. Len(A) \in Nat
    BY <1>1
  <2> QED
    BY <1>1, <2>1
<1>n. node.items = Spliced(X, <<m>>, Y) /\ node.children = Spliced(A, <<l, r>>, B)
  BY SiteItems
<1>s. Site(f, <<m2>>, <<l2, r2>>) = Branch(Spliced(X, <<m2>>, Y), Spliced(A, <<l2, r2>>, B))
  BY DEF Site
<1> HIDE DEF T, A, B, X, Y, i, node
<1>3. ReplaceAt(Spliced(X, <<m>>, Y), j, m2) = Spliced(X, <<m2>>, Y)
  BY <1>0, <1>1, ReplaceAtSpliced
<1>4. ReplaceAt(Spliced(A, <<l, r>>, B), j, l2) = Spliced(A, <<l2, r>>, B)
  <2>1. A \in Seq(T) /\ B \in Seq(T) /\ j = Len(A) + 1 /\ i = Len(A) + 2
    BY <1>1, <1>2
  <2> QED
    BY <1>0, <2>1, FirstReplaced
<1>5. ReplaceAt(Spliced(A, <<l2, r>>, B), i, r2) = Spliced(A, <<l2, r2>>, B)
  <2>1. A \in Seq(T) /\ B \in Seq(T) /\ j = Len(A) + 1 /\ i = Len(A) + 2
    BY <1>1, <1>2
  <2> QED
    BY <1>0, <2>1, SecondReplaced
<1> QED
  BY <1>3, <1>4, <1>5, <1>n, <1>s DEF i, node

(* The two children merged into one. *)
LEMMA SiteMerged ==
    ASSUME NEW h, NEW f, NEW j, NEW l, NEW m, NEW r, OnSite(h, f, j, l, m, r), Joined(l, m, r) \in Tree[h - 1]
    PROVE  Merge(Site(f, <<m>>, <<l, r>>), j) = Site(f, <<>>, <<Joined(l, m, r)>>)
<1> DEFINE T == Tree[h - 1]
           A == f.left
           B == f.right
           X == f.lower
           Y == f.upper
           i == j + 1
           node == Site(f, <<m>>, <<l, r>>)
           both == Joined(l, m, r)
<1>0. IsSite(h, f, j) /\ m \in Item /\ l \in T /\ r \in T /\ both \in T
  BY DEF OnSite
<1>1. /\ A \in Seq(T) /\ B \in Seq(T) /\ X \in Seq(Item) /\ Y \in Seq(Item)
      /\ j = Len(A) + 1 /\ j = Len(X) + 1
  BY <1>0, SiteParts
<1>2. i = Len(A) + 2
  <2>1. Len(A) \in Nat
    BY <1>1
  <2> QED
    BY <1>1, <2>1
<1>n. node.items = Spliced(X, <<m>>, Y) /\ node.children = Spliced(A, <<l, r>>, B)
  BY SiteItems
<1>t. node.items[j] = m /\ node.children[j] = l /\ node.children[i] = r
  BY SiteTwo
<1>m. Merge(node, j) = Branch(RemoveAt(node.items, j), RemoveAt(ReplaceAt(node.children, j, both), i))
  BY <1>t DEF Merge, Joined, Branch
<1>s. Site(f, <<>>, <<both>>) = Branch(Spliced(X, <<>>, Y), Spliced(A, <<both>>, B))
  BY DEF Site
<1> HIDE DEF T, A, B, X, Y, i, node, both
<1>3. RemoveAt(Spliced(X, <<m>>, Y), j) = Spliced(X, <<>>, Y)
  BY <1>0, <1>1, RemoveAtSpliced
<1>4. ReplaceAt(Spliced(A, <<l, r>>, B), j, both) = Spliced(A, <<both, r>>, B)
  <2>1. A \in Seq(T) /\ B \in Seq(T) /\ j = Len(A) + 1 /\ i = Len(A) + 2
    BY <1>1, <1>2
  <2> QED
    BY <1>0, <2>1, FirstReplaced
<1>5. RemoveAt(Spliced(A, <<both, r>>, B), i) = Spliced(A, <<both>>, B)
  <2>1. A \in Seq(T) /\ B \in Seq(T) /\ j = Len(A) + 1 /\ i = Len(A) + 2
    BY <1>1, <1>2
  <2> QED
    BY <1>0, <2>1, SecondRemoved
<1> QED
  BY <1>3, <1>4, <1>5, <1>n, <1>m, <1>s DEF both, node

(* An item moved right between the two children. *)
LEMMA SiteMovedRight ==
    ASSUME NEW h, NEW f, NEW j, NEW l, NEW m, NEW r, OnSite(h, f, j, l, m, r),
           NEW node, node = Site(f, <<m>>, <<l, r>>),
           OnSite(h, f, j, ShorterLeft(l), Last(l.items), LongerRight(l, m, r))
    PROVE  MoveRight(node, j) = Site(f, <<Last(l.items)>>, <<ShorterLeft(l), LongerRight(l, m, r)>>)
<1> DEFINE i == j + 1
           l2 == ShorterLeft(l)
           m2 == Last(l.items)
           r2 == LongerRight(l, m, r)
<1>t. node.items[j] = m /\ node.children[j] = l /\ node.children[i] = r
  BY SiteTwo
<1>1. MoveRight(node, j) = Branch(ReplaceAt(node.items, j, m2),
                                  ReplaceAt(ReplaceAt(node.children, j, l2), j + 1, r2))
  BY <1>t DEF MoveRight, Branch, ShorterLeft, LongerRight
<1>2. OnSite(h, f, j, l2, m2, r2)
  OBVIOUS
<1> HIDE DEF l2, m2, r2
<1>3. Branch(ReplaceAt(node.items, j, m2), ReplaceAt(ReplaceAt(node.children, j, l2), j + 1, r2))
      = Site(f, <<m2>>, <<l2, r2>>)
  BY <1>2, SiteReplaced
<1> QED
  BY <1>1, <1>3 DEF l2, m2, r2

(* An item moved left between the two children. *)
LEMMA SiteMovedLeft ==
    ASSUME NEW h, NEW f, NEW j, NEW l, NEW m, NEW r, OnSite(h, f, j, l, m, r),
           NEW node, node = Site(f, <<m>>, <<l, r>>),
           OnSite(h, f, j, LongerLeft(l, m, r), Head(r.items), ShorterRight(l, r))
    PROVE  MoveLeft(node, j) = Site(f, <<Head(r.items)>>, <<LongerLeft(l, m, r), ShorterRight(l, r)>>)
<1> DEFINE i == j + 1
           l2 == LongerLeft(l, m, r)
           m2 == Head(r.items)
           r2 == ShorterRight(l, r)
<1>t. node.items[j] = m /\ node.children[j] = l /\ node.children[i] = r
  BY SiteTwo
<1>1. MoveLeft(node, j) = Branch(ReplaceAt(node.items, j, m2),
                                  ReplaceAt(ReplaceAt(node.children, j, l2), j + 1, r2))
  BY <1>t DEF MoveLeft, Branch, LongerLeft, ShorterRight
<1>2. OnSite(h, f, j, l2, m2, r2)
  OBVIOUS
<1> HIDE DEF l2, m2, r2
<1>3. Branch(ReplaceAt(node.items, j, m2), ReplaceAt(ReplaceAt(node.children, j, l2), j + 1, r2))
      = Site(f, <<m2>>, <<l2, r2>>)
  BY <1>2, SiteReplaced
<1> QED
  BY <1>1, <1>3 DEF l2, m2, r2

-----------------------------------------------------------------------------
(* Rebalancing.                                                              *)

WithNode(d, x) == [d EXCEPT !.node = x]

(* A deletion that came to another node. *)
LEMMA NodeGiven ==
    ASSUME NEW d, IsDeletion(d), NEW x
    PROVE  /\ IsDeletion(WithNode(d, x)) /\ WithNode(d, x).node = x
           /\ WithNode(d, x).prev = d.prev
           /\ \A kind : Held(WithNode(d, x), kind) = Held(d, kind)
<1> DEFINE e == Under(x, d.prev, d.pool, d.mallocs, d.freed)
<1>1. d = Under(d.node, d.prev, d.pool, d.mallocs, d.freed)
      /\ PoolOk(d.pool) /\ d.mallocs \in Nat /\ d.freed \in Freed
  BY DEF IsDeletion
<1>2. WithNode(d, x) = e
  <2> DEFINE a == d.node
             b == d.prev
             p == d.pool
             n == d.mallocs
             f == d.freed
  <2>1. d = Under(a, b, p, n, f)
    BY <1>1
  <2> HIDE DEF a, b, p, n, f
  <2>2. [Under(a, b, p, n, f) EXCEPT !.node = x] = Under(x, b, p, n, f)
    BY DEF Under
  <2> QED
    BY <2>1, <2>2 DEF WithNode, a, b, p, n, f
<1>3. e.node = x /\ e.prev = d.prev /\ e.pool = d.pool /\ e.mallocs = d.mallocs /\ e.freed = d.freed
      /\ e = Under(e.node, e.prev, e.pool, e.mallocs, e.freed)
  BY DEF Under
<1> HIDE DEF e
<1>4. IsDeletion(e)
  BY <1>1, <1>3 DEF IsDeletion
<1> QED
  BY <1>2, <1>3, <1>4 DEF Held

Unbalanced(h, f, j, i, l, m, r, d) ==
    /\ IsSite(h, f, j) /\ Pair(h - 1, l, m, r) /\ IsDeletion(d)
    /\ d.node = Site(f, <<m>>, <<l, r>>)
    /\ \/ i = j /\ r \in Sub[h - 1] /\ Len(l.items) \in MinItems - 1 .. MaxItems - 2
       \/ i = j + 1 /\ Room(f) + 1 = j /\ l \in Sub[h - 1] /\ Len(r.items) \in MinItems - 1 .. MaxItems - 2

Untouched(h, l, r, d, e) == e = d /\ l \in Sub[h - 1] /\ r \in Sub[h - 1]

Merged(h, f, l, m, r, d, e) ==
    /\ Joined(l, m, r) \in Sub[h - 1]
    /\ e = takeaway(WithNode(d, Site(f, <<>>, <<Joined(l, m, r)>>)), KindAt(h - 1))

Moved(h, f, l, m, r, d, e, l2, m2, r2) ==
    /\ l2 \in Sub[h - 1] /\ r2 \in Sub[h - 1] /\ m2 \in Item
    /\ Joined(l2, m2, r2) = Joined(l, m, r)
    /\ e = WithNode(d, Site(f, <<m2>>, <<l2, r2>>))

(* The site and the sizes of what is to be rebalanced. *)
LEMMA UnbalancedParts ==
    ASSUME NEW h, NEW f, NEW j, NEW i, NEW l, NEW m, NEW r, NEW d, Unbalanced(h, f, j, i, l, m, r, d)
    PROVE  /\ h - 1 \in Nat /\ h - 1 >= 1 /\ j \in Nat /\ j >= 1
           /\ l \in Tree[h - 1] /\ r \in Tree[h - 1] /\ m \in Item
           /\ OnSite(h, f, j, l, m, r)
           /\ Len(l.items) \in Nat /\ Len(r.items) \in Nat
           /\ d.node.items[j] = m /\ d.node.children[j] = l /\ d.node.children[j + 1] = r
           /\ Len(d.node.items) = Room(f) + 1 /\ Room(f) + 1 >= j /\ Room(f) \in Nat
           /\ Kind(r) = KindAt(h - 1) /\ KindAt(h - 1) \in Kinds
           /\ i = j => d.node.children[i] = l
           /\ i = j + 1 => d.node.children[i] = r
<1> DEFINE k == h - 1
<1>h. IsSite(h, f, j) /\ Pair(h - 1, l, m, r) /\ d.node = Site(f, <<m>>, <<l, r>>)
  BY DEF Unbalanced
<1>1. k \in Nat /\ k >= 1 /\ l \in Loose(k) /\ r \in Loose(k) /\ m \in Item
  BY <1>h DEF Pair
<1>2. l \in Tree[k] /\ r \in Tree[k] /\ Len(l.items) \in Nat /\ Len(r.items) \in Nat
  <2> HIDE DEF k
  <2> QED
    BY <1>1, LooseParts
<1>3. OnSite(h, f, j, l, m, r)
  BY <1>h, <1>1, <1>2 DEF OnSite
<1>4. d.node.items[j] = m /\ d.node.children[j] = l /\ d.node.children[j + 1] = r
  BY <1>h, <1>3, SiteTwo
<1>5. /\ j \in Nat /\ j >= 1 /\ j = Len(f.lower) + 1
      /\ Len(f.lower) \in Nat /\ Len(f.upper) \in Nat /\ Room(f) \in Nat
  BY <1>h, SiteParts
<1>6. Room(f) + 1 >= j
  <2> DEFINE a == Len(f.lower)
             b == Len(f.upper)
  <2>1. Room(f) = a + b
    BY DEF Room
  <2>2. j = a + 1 /\ a \in Nat /\ b \in Nat
    BY <1>5
  <2> HIDE DEF a, b
  <2> QED
    BY <2>1, <2>2
<1>7. Len(d.node.items) = Room(f) + 1
  <2> DEFINE one == <<m>>
             two == <<l, r>>
             T == Tree[h - 1]
  <2>1. IsMiddle(T, one, two)
    BY <1>1, <1>2, MiddleOfTwo
  <2>a. Len(one) = 1
    OBVIOUS
  <2>b. T \in {Sub[h - 1], Tree[h - 1]}
    OBVIOUS
  <2> HIDE DEF one, two, T
  <2>2. Len(Spliced(f.lower, one, f.upper)) = Room(f) + Len(one)
    BY <1>h, <2>1, <2>b, SiteLengths
  <2>3. d.node.items = Spliced(f.lower, one, f.upper)
    BY <1>h, SiteItems DEF one
  <2> QED
    BY <2>a, <2>2, <2>3
<1>8. Kind(r) = KindAt(k) /\ KindAt(k) \in Kinds
  <2>1. IsLeaf(r) <=> k = 1
    <3> HIDE DEF k
    <3> QED
      BY <1>1, LooseParts
  <2> QED
    BY <2>1 DEF Kind, KindAt, Kinds
<1> HIDE DEF k
<1>k. k = h - 1
  BY DEF k
<1> QED
  BY <1>1, <1>2, <1>3, <1>4, <1>5, <1>6, <1>7, <1>8, <1>k

(* The node chosen, and the one next to it. *)
LEMMA RebalanceWhere ==
    ASSUME NEW h, NEW f, NEW j, NEW i, NEW l, NEW m, NEW r, NEW d, Unbalanced(h, f, j, i, l, m, r, d)
    PROVE  LET small == IF i = j THEN l ELSE r
           IN  Rebalance(d, i) =
                  IF Len(small.items) >= MinItems THEN d
                  ELSE IF Merges(l, r)
                  THEN takeaway(WithNode(d, Merge(d.node, j)), KindAt(h - 1))
                  ELSE IF Len(l.items) > Len(r.items)
                  THEN WithNode(d, MoveRight(d.node, j))
                  ELSE WithNode(d, MoveLeft(d.node, j))
<1> DEFINE node == d.node
           jj == IF i > Len(node.items) THEN i - 1 ELSE i
           small == IF i = j THEN l ELSE r
<1>1. /\ j \in Nat
      /\ node.children[j] = l /\ node.children[j + 1] = r
      /\ Len(node.items) = Room(f) + 1 /\ Room(f) + 1 >= j /\ Room(f) \in Nat
      /\ Kind(r) = KindAt(h - 1)
      /\ i = j => node.children[i] = l
      /\ i = j + 1 => node.children[i] = r
  BY UnbalancedParts
<1>2. i = j \/ (i = j + 1 /\ Room(f) + 1 = j)
  BY DEF Unbalanced
<1>3. jj = j
  BY <1>1, <1>2
<1>4. node.children[i] = small
  BY <1>1, <1>2
<1>5. Rebalance(d, i) =
         IF Len(node.children[i].items) >= MinItems THEN d
         ELSE IF Merges(node.children[jj], node.children[jj + 1])
         THEN takeaway(WithNode(d, Merge(node, jj)), Kind(node.children[jj + 1]))
         ELSE IF Len(node.children[jj].items) > Len(node.children[jj + 1].items)
         THEN WithNode(d, MoveRight(node, jj))
         ELSE WithNode(d, MoveLeft(node, jj))
  BY DEF Rebalance, WithNode
<1> HIDE DEF jj, node, small
<1>6. Rebalance(d, i) =
         IF Len(small.items) >= MinItems THEN d
         ELSE IF Merges(l, r)
         THEN takeaway(WithNode(d, Merge(node, j)), KindAt(h - 1))
         ELSE IF Len(l.items) > Len(r.items)
         THEN WithNode(d, MoveRight(node, j))
         ELSE WithNode(d, MoveLeft(node, j))
  BY <1>1, <1>3, <1>4, <1>5
<1> QED
  BY <1>6 DEF node, small

(* What rebalancing comes to. *)
LEMMA RebalanceIs ==
    ASSUME NEW h, NEW f, NEW j, NEW i, NEW l, NEW m, NEW r, NEW d, Unbalanced(h, f, j, i, l, m, r, d)
    PROVE  LET e == Rebalance(d, i)
           IN  \/ Untouched(h, l, r, d, e)
               \/ Merged(h, f, l, m, r, d, e)
               \/ \E l2, m2, r2 : Moved(h, f, l, m, r, d, e, l2, m2, r2)
<1> DEFINE e == Rebalance(d, i)
           k == h - 1
           node == d.node
           a == Len(l.items)
           b == Len(r.items)
           small == IF i = j THEN l ELSE r
           both == Joined(l, m, r)
<1>h. /\ IsSite(h, f, j) /\ Pair(k, l, m, r) /\ node = Site(f, <<m>>, <<l, r>>)
      /\ \/ i = j /\ r \in Sub[k] /\ a \in MinItems - 1 .. MaxItems - 2
         \/ i = j + 1 /\ l \in Sub[k] /\ b \in MinItems - 1 .. MaxItems - 2
  BY DEF Unbalanced
<1>p. Pair(k, l, m, r)
  BY <1>h
<1>n. node = Site(f, <<m>>, <<l, r>>)
  BY <1>h
<1>m. MinItems \in Nat /\ MinItems >= 1 /\ 2 * MinItems <= MaxItems - 2 /\ MaxItems \in Nat
  BY MinItemsBound
<1>1. /\ k \in Nat /\ k >= 1 /\ j \in Nat /\ j >= 1
      /\ l \in Tree[k] /\ r \in Tree[k] /\ m \in Item
      /\ OnSite(h, f, j, l, m, r)
      /\ a \in Nat /\ b \in Nat
  BY UnbalancedParts
<1>s. OnSite(h, f, j, l, m, r)
  BY <1>1
<1>2. e = IF Len(small.items) >= MinItems THEN d
          ELSE IF Merges(l, r)
          THEN takeaway(WithNode(d, Merge(node, j)), KindAt(k))
          ELSE IF a > b
          THEN WithNode(d, MoveRight(node, j))
          ELSE WithNode(d, MoveLeft(node, j))
  BY RebalanceWhere
<1> HIDE DEF e, k, node
<1>k. k = h - 1
  BY DEF k
<1>3. l \in Loose(k) /\ r \in Loose(k)
  BY <1>h DEF Pair
<1>4. \A x : x \in Sub[k] <=> x \in Loose(k) /\ Len(x.items) \in MinItems .. MaxItems - 2
  BY <1>1, LooseIsSub
<1>5. \/ i = j /\ small = l /\ r \in Sub[k] /\ a \in MinItems - 1 .. MaxItems - 2
      \/ i # j /\ small = r /\ l \in Sub[k] /\ b \in MinItems - 1 .. MaxItems - 2
  BY <1>h, <1>1
<1> HIDE DEF small, a, b, both
<1>ab. a = Len(l.items) /\ b = Len(r.items)
  BY DEF a, b
<1>6. CASE Len(small.items) >= MinItems
  <2>1. e = d
    BY <1>2, <1>6
  <2>2. l \in Sub[k] /\ r \in Sub[k]
    <3>1. CASE small = l /\ r \in Sub[k] /\ a \in MinItems - 1 .. MaxItems - 2
      <4>1. a \in MinItems .. MaxItems - 2
        BY <1>6, <1>ab, <1>m, <3>1
      <4> QED
        BY <1>3, <1>4, <1>ab, <3>1, <4>1
    <3>2. CASE small = r /\ l \in Sub[k] /\ b \in MinItems - 1 .. MaxItems - 2
      <4>1. b \in MinItems .. MaxItems - 2
        BY <1>6, <1>ab, <1>m, <3>2
      <4> QED
        BY <1>3, <1>4, <1>ab, <3>2, <4>1
    <3> QED
      BY <1>5, <3>1, <3>2
  <2>3. Untouched(h, l, r, d, e)
    BY <1>k, <2>1, <2>2 DEF Untouched
  <2> QED
    BY <2>3 DEF e
<1>7. CASE ~(Len(small.items) >= MinItems)
  \* The larger and the smaller of the two.
  <2>1. \/ small = l /\ b \in MinItems .. MaxItems - 2 /\ a \in MinItems - 1 .. MaxItems - 2 /\ ~(a >= MinItems)
        \/ small = r /\ a \in MinItems .. MaxItems - 2 /\ b \in MinItems - 1 .. MaxItems - 2 /\ ~(b >= MinItems)
    <3>1. CASE small = l /\ r \in Sub[k] /\ a \in MinItems - 1 .. MaxItems - 2
      BY <1>4, <1>7, <1>ab, <3>1
    <3>2. CASE small = r /\ l \in Sub[k] /\ b \in MinItems - 1 .. MaxItems - 2
      BY <1>4, <1>7, <1>ab, <3>2
    <3> QED
      BY <1>5, <3>1, <3>2
  <2>2. \/ /\ a + b + 1 < MaxItems - 1 => a + 1 + b \in MinItems .. MaxItems - 2
           /\ ~(a + b + 1 < MaxItems - 1) =>
                 a > b /\ a >= 1 /\ a - 1 \in MinItems .. MaxItems - 2 /\ b + 1 \in MinItems .. MaxItems - 2
        \/ /\ a + b + 1 < MaxItems - 1 => a + 1 + b \in MinItems .. MaxItems - 2
           /\ ~(a + b + 1 < MaxItems - 1) =>
                 b > a /\ b >= 1 /\ b - 1 \in MinItems .. MaxItems - 2 /\ a + 1 \in MinItems .. MaxItems - 2
    <3> DEFINE n == MinItems
    <3> HIDE DEF n
    <3>1. n \in Nat /\ n >= 1 /\ 2 * n <= MaxItems - 2 /\ MaxItems \in Nat /\ a \in Nat /\ b \in Nat
      BY <1>m, <1>1 DEF n
    <3>2. \/ b \in n .. MaxItems - 2 /\ a \in n - 1 .. MaxItems - 2 /\ ~(a >= n)
          \/ a \in n .. MaxItems - 2 /\ b \in n - 1 .. MaxItems - 2 /\ ~(b >= n)
      BY <2>1 DEF n
    <3>3. CASE b \in n .. MaxItems - 2 /\ a \in n - 1 .. MaxItems - 2 /\ ~(a >= n)
      <4>1. /\ a + b + 1 < MaxItems - 1 => a + 1 + b \in n .. MaxItems - 2
            /\ ~(a + b + 1 < MaxItems - 1) =>
                  b > a /\ b >= 1 /\ b - 1 \in n .. MaxItems - 2 /\ a + 1 \in n .. MaxItems - 2
        BY <3>1, <3>3
      <4> QED
        BY <4>1 DEF n
    <3>4. CASE a \in n .. MaxItems - 2 /\ b \in n - 1 .. MaxItems - 2 /\ ~(b >= n)
      <4>1. /\ a + b + 1 < MaxItems - 1 => a + 1 + b \in n .. MaxItems - 2
            /\ ~(a + b + 1 < MaxItems - 1) =>
                  a > b /\ a >= 1 /\ a - 1 \in n .. MaxItems - 2 /\ b + 1 \in n .. MaxItems - 2
        BY <3>1, <3>4
      <4> QED
        BY <4>1 DEF n
    <3> QED
      BY <3>2, <3>3, <3>4
  <2>m. Merges(l, r) <=> a + b + 1 < MaxItems - 1
    BY <1>ab DEF Merges
  <2>3. CASE Merges(l, r)
    <3>1. e = takeaway(WithNode(d, Merge(node, j)), KindAt(k))
      BY <1>2, <1>7, <2>3
    <3>a. Joined(l, m, r) \in Loose(k)
      BY <1>p, JoinedIsLoose
    <3>b. Len(Joined(l, m, r).items) = Len(l.items) + 1 + Len(r.items)
      BY <1>1, JoinedTree
    <3>2. both \in Loose(k) /\ Len(both.items) = a + 1 + b
      BY <3>a, <3>b, <1>ab DEF both
    <3>3. a + 1 + b \in MinItems .. MaxItems - 2
      BY <2>2, <2>3, <2>m
    <3>4. both \in Sub[k]
      BY <1>4, <3>2, <3>3
    <3>5. both \in Tree[k]
      BY <3>2 DEF Loose
    <3>6. Merge(Site(f, <<m>>, <<l, r>>), j) = Site(f, <<>>, <<Joined(l, m, r)>>)
      BY <1>1, <1>k, <3>5, SiteMerged DEF both
    <3>7. Merged(h, f, l, m, r, d, e)
      BY <1>h, <1>k, <3>1, <3>4, <3>6 DEF Merged, both
    <3> QED
      BY <3>7 DEF e
  <2>4. CASE ~Merges(l, r) /\ a > b
    <3> DEFINE l2 == ShorterLeft(l)
               m2 == Last(l.items)
               r2 == LongerRight(l, m, r)
    <3>1. e = WithNode(d, MoveRight(node, j))
      BY <1>2, <1>7, <2>4
    <3>2. a >= 1 /\ a - 1 \in MinItems .. MaxItems - 2 /\ b + 1 \in MinItems .. MaxItems - 2
      BY <1>1, <2>2, <2>4, <2>m
    <3>p. ShiftsRight(k, l, m, r, l2, m2, r2)
      BY <1>h, <1>ab, <3>2 DEF ShiftsRight
    <3> HIDE DEF l2, m2, r2
    <3>3. /\ Pair(k, l2, m2, r2)
          /\ Joined(l2, m2, r2) = Joined(l, m, r)
          /\ Len(l2.items) = Len(l.items) - 1 /\ Len(r2.items) = Len(r.items) + 1
      BY <3>p, ShiftedRight
    <3>4. l2 \in Loose(k) /\ r2 \in Loose(k) /\ m2 \in Item
      BY <3>3 DEF Pair
    <3>5. l2 \in Sub[k] /\ r2 \in Sub[k]
      BY <1>4, <1>ab, <3>2, <3>3, <3>4
    <3>6. l2 \in Tree[k] /\ r2 \in Tree[k]
      BY <3>4 DEF Loose
    <3>7. OnSite(h, f, j, l2, m2, r2)
      BY <1>h, <1>k, <3>4, <3>6 DEF OnSite
    <3>8. MoveRight(node, j) = Site(f, <<m2>>, <<l2, r2>>)
      <4>1. OnSite(h, f, j, ShorterLeft(l), Last(l.items), LongerRight(l, m, r))
        BY <3>7 DEF l2, m2, r2
      <4>2. MoveRight(node, j) = Site(f, <<Last(l.items)>>, <<ShorterLeft(l), LongerRight(l, m, r)>>)
        BY <1>s, <1>n, <4>1, SiteMovedRight
      <4> QED
        BY <4>2 DEF l2, m2, r2
    <3>9. Moved(h, f, l, m, r, d, e, l2, m2, r2)
      BY <1>h, <1>k, <3>1, <3>3, <3>4, <3>5, <3>8 DEF Moved
    <3> QED
      BY <3>9 DEF e
  <2>5. CASE ~Merges(l, r) /\ ~(a > b)
    <3> DEFINE l2 == LongerLeft(l, m, r)
               m2 == Head(r.items)
               r2 == ShorterRight(l, r)
    <3>1. e = WithNode(d, MoveLeft(node, j))
      BY <1>2, <1>7, <2>5
    <3>2. b >= 1 /\ b - 1 \in MinItems .. MaxItems - 2 /\ a + 1 \in MinItems .. MaxItems - 2
      BY <1>1, <2>2, <2>5, <2>m
    <3>p. ShiftsLeft(k, l, m, r, l2, m2, r2)
      BY <1>h, <1>ab, <3>2 DEF ShiftsLeft
    <3> HIDE DEF l2, m2, r2
    <3>3. /\ Pair(k, l2, m2, r2)
          /\ Joined(l2, m2, r2) = Joined(l, m, r)
          /\ Len(l2.items) = Len(l.items) + 1 /\ Len(r2.items) = Len(r.items) - 1
      BY <3>p, ShiftedLeft
    <3>4. l2 \in Loose(k) /\ r2 \in Loose(k) /\ m2 \in Item
      BY <3>3 DEF Pair
    <3>5. l2 \in Sub[k] /\ r2 \in Sub[k]
      BY <1>4, <1>ab, <3>2, <3>3, <3>4
    <3>6. l2 \in Tree[k] /\ r2 \in Tree[k]
      BY <3>4 DEF Loose
    <3>7. OnSite(h, f, j, l2, m2, r2)
      BY <1>h, <1>k, <3>4, <3>6 DEF OnSite
    <3>8. MoveLeft(node, j) = Site(f, <<m2>>, <<l2, r2>>)
      <4>1. OnSite(h, f, j, LongerLeft(l, m, r), Head(r.items), ShorterRight(l, r))
        BY <3>7 DEF l2, m2, r2
      <4>2. MoveLeft(node, j) = Site(f, <<Head(r.items)>>, <<LongerLeft(l, m, r), ShorterRight(l, r)>>)
        BY <1>s, <1>n, <4>1, SiteMovedLeft
      <4> QED
        BY <4>2 DEF l2, m2, r2
    <3>9. Moved(h, f, l, m, r, d, e, l2, m2, r2)
      BY <1>h, <1>k, <3>1, <3>3, <3>4, <3>5, <3>8 DEF Moved
    <3> QED
      BY <3>9 DEF e
  <2> QED
    BY <2>3, <2>4, <2>5
<1> QED
  BY <1>6, <1>7

-----------------------------------------------------------------------------
(* What rebalancing keeps.                                                   *)

(* A branch around two sound children. *)
LEMMA TwoGood ==
    ASSUME NEW h, NEW f, NEW j, NEW l, NEW m, NEW r, OnSite(h, f, j, l, m, r),
           l \in Sub[h - 1], r \in Sub[h - 1]
    PROVE  Site(f, <<m>>, <<l, r>>) \in Good(h, Room(f), Room(f) + 1)
<1> DEFINE one == <<m>>
           two == <<l, r>>
           n == Room(f) + Len(one)
<1>1. IsSite(h, f, j) /\ m \in Item
  BY DEF OnSite
<1>2. IsMiddle(Sub[h - 1], one, two)
  BY <1>1, MiddleOfTwo
<1>3. Len(one) = 1
  OBVIOUS
<1> HIDE DEF one, two
<1>4. Site(f, one, two) \in Good(h, n, n)
  BY <1>1, <1>2, SiteGood
<1>5. Room(f) \in Nat
  BY <1>1, SiteParts
<1>6. Good(h, n, n) \subseteq Good(h, Room(f), Room(f) + 1)
  BY <1>3, <1>5, GoodWithin
<1> QED
  BY <1>4, <1>6 DEF one, two

HasRoom(f, mids) == Len(Spliced(f.lower, mids, f.upper)) = Room(f) + Len(mids)

(* The number of items of a branch around some. *)
LEMMA SiteRoom ==
    ASSUME NEW h, NEW f, NEW i, IsSite(h, f, i), NEW S, S \in {Sub[h - 1], Tree[h - 1]},
           NEW mids, NEW C, IsMiddle(S, mids, C)
    PROVE  HasRoom(f, mids)
<1>1. Len(Spliced(f.lower, mids, f.upper)) = Room(f) + Len(mids)
  BY SiteLengths, Z3
<1> QED
  BY <1>1 DEF HasRoom

(* The number of items of a branch around one. *)
LEMMA TwoLength ==
    ASSUME NEW h, NEW f, NEW j, NEW l, NEW m, NEW r, OnSite(h, f, j, l, m, r),
           NEW n, n = Len(Site(f, <<m>>, <<l, r>>).items)
    PROVE  n = Room(f) + 1 /\ Room(f) \in Nat
<1> DEFINE one == <<m>>
           two == <<l, r>>
           T == Tree[h - 1]
<1>1. IsSite(h, f, j) /\ m \in Item /\ l \in T /\ r \in T
  BY DEF OnSite
<1>2. IsMiddle(T, one, two)
  BY <1>1, MiddleOfTwo
<1>3. Len(one) = 1
  OBVIOUS
<1>4. T \in {Sub[h - 1], Tree[h - 1]}
  OBVIOUS
<1>5. Site(f, <<m>>, <<l, r>>).items = Spliced(f.lower, one, f.upper)
  BY SiteItems
<1>6. Room(f) \in Nat
  BY <1>1, SiteParts
<1> HIDE DEF one, two, T
<1>7. HasRoom(f, one)
  BY <1>1, <1>2, <1>4, SiteRoom
<1>8. Len(Spliced(f.lower, one, f.upper)) = Room(f) + Len(one)
  BY <1>7 DEF HasRoom
<1> QED
  BY <1>3, <1>5, <1>6, <1>8

(* And around one. *)
LEMMA OneGood ==
    ASSUME NEW h, NEW f, NEW j, IsSite(h, f, j), NEW c, c \in Sub[h - 1]
    PROVE  Site(f, <<>>, <<c>>) \in Good(h, Room(f), Room(f) + 1)
<1> DEFINE none == <<>>
           one == <<c>>
           n == Room(f) + Len(none)
<1>2. IsMiddle(Sub[h - 1], none, one)
  BY MiddleOfOne
<1>3. Len(none) = 0
  OBVIOUS
<1> HIDE DEF one, none
<1>4. Site(f, none, one) \in Good(h, n, n)
  BY <1>2, SiteGood
<1>5. Room(f) \in Nat
  BY SiteParts
<1>6. Good(h, n, n) \subseteq Good(h, Room(f), Room(f) + 1)
  BY <1>3, <1>5, GoodWithin
<1> QED
  BY <1>4, <1>6 DEF one, none

(* The nodes of a branch with two children in the middle. *)
LEMMA TwoNodes ==
    ASSUME NEW h, NEW f, NEW j, NEW l, NEW m, NEW r, OnSite(h, f, j, l, m, r), NEW kind \in Kinds
    PROVE  /\ NodesIn(h, Site(f, <<m>>, <<l, r>>), kind)
              = Rest(h, f, kind) + (NodesIn(h - 1, l, kind) + NodesIn(h - 1, r, kind))
           /\ Rest(h, f, kind) \in Nat
<1> DEFINE one == <<m>>
           two == <<l, r>>
<1>1. IsSite(h, f, j) /\ m \in Item /\ l \in Tree[h - 1] /\ r \in Tree[h - 1]
  BY DEF OnSite
<1>2. IsMiddle(Tree[h - 1], one, two)
  BY <1>1, MiddleOfTwo
<1>h. h - 1 \in Nat
  BY <1>1, SiteParts
<1>3. NodesInAll(h - 1, two, kind) = NodesIn(h - 1, l, kind) + NodesIn(h - 1, r, kind)
  BY <1>1, <1>h, NodesInTwo
<1> HIDE DEF one, two
<1>4. NodesIn(h, Site(f, one, two), kind) = Rest(h, f, kind) + NodesInAll(h - 1, two, kind)
      /\ Rest(h, f, kind) \in Nat
  BY <1>1, <1>2, SiteNodes
<1> QED
  BY <1>3, <1>4 DEF one, two

(* And of one with one child. *)
LEMMA OneNodes ==
    ASSUME NEW h, NEW f, NEW j, IsSite(h, f, j), NEW c, c \in Tree[h - 1], NEW kind \in Kinds
    PROVE  /\ NodesIn(h, Site(f, <<>>, <<c>>), kind) = Rest(h, f, kind) + NodesIn(h - 1, c, kind)
           /\ Rest(h, f, kind) \in Nat
<1> DEFINE none == <<>>
           one == <<c>>
<1>2. IsMiddle(Tree[h - 1], none, one)
  BY MiddleOfOne
<1>h. h - 1 \in Nat
  BY SiteParts
<1>3. NodesInAll(h - 1, one, kind) = NodesIn(h - 1, c, kind)
  BY <1>h, NodesInOne
<1> HIDE DEF one, none
<1>4. NodesIn(h, Site(f, none, one), kind) = Rest(h, f, kind) + NodesInAll(h - 1, one, kind)
      /\ Rest(h, f, kind) \in Nat
  BY <1>2, SiteNodes
<1> QED
  BY <1>3, <1>4 DEF one, none

\* No node comes or goes between two states of a deletion at a height.
Keeps(h, d, e) ==
    \A kind \in Kinds : NodesIn(h, e.node, kind) + Held(e, kind) = NodesIn(h, d.node, kind) + Held(d, kind)

\* The result of a deletion that leaves the place of an item free or taken.
Balanced(h, f, d, e) ==
    /\ IsDeletion(e) /\ e.prev = d.prev
    /\ e.node \in Good(h, Room(f), Room(f) + 1)
    /\ Keeps(h, d, e)

(* Rebalancing makes a sound branch and keeps count of the nodes. *)
LEMMA RebalancedTo ==
    ASSUME NEW h, NEW f, NEW j, NEW i, NEW l, NEW m, NEW r, NEW d, Unbalanced(h, f, j, i, l, m, r, d),
           NEW e, e = Rebalance(d, i)
    PROVE  Balanced(h, f, d, e)
<1> DEFINE k == h - 1
<1>1. /\ k \in Nat /\ k >= 1 /\ l \in Tree[k] /\ r \in Tree[k] /\ m \in Item
      /\ KindAt(k) \in Kinds
  BY UnbalancedParts
<1>2. OnSite(h, f, j, l, m, r)
  BY UnbalancedParts
<1>3. IsDeletion(d) /\ d.node = Site(f, <<m>>, <<l, r>>) /\ IsSite(h, f, j)
  BY DEF Unbalanced
<1>4. Untouched(h, l, r, d, e) \/ Merged(h, f, l, m, r, d, e) \/ \E l2, m2, r2 : Moved(h, f, l, m, r, d, e, l2, m2, r2)
  BY RebalanceIs
<1>n. ASSUME NEW kind \in Kinds
      PROVE  /\ NodesIn(h, d.node, kind) = Rest(h, f, kind) + (NodesIn(k, l, kind) + NodesIn(k, r, kind))
             /\ Rest(h, f, kind) \in Nat /\ NodesIn(k, l, kind) \in Nat /\ NodesIn(k, r, kind) \in Nat
             /\ NodesIn(k, l, kind) + NodesIn(k, r, kind) = NodesIn(k, Joined(l, m, r), kind) + Own(k, kind)
  <2>1. /\ NodesIn(h, d.node, kind) = Rest(h, f, kind) + (NodesIn(k, l, kind) + NodesIn(k, r, kind))
        /\ Rest(h, f, kind) \in Nat
    BY <1>2, <1>3, TwoNodes
  <2> HIDE DEF k
  <2> QED
    BY <1>1, <2>1, NodesInNat, JoinedTree
<1>5. CASE Untouched(h, l, r, d, e)
  <2>1. e = d /\ l \in Sub[h - 1] /\ r \in Sub[h - 1]
    BY <1>5 DEF Untouched
  <2>2. e.node \in Good(h, Room(f), Room(f) + 1)
    BY <1>2, <1>3, <2>1, TwoGood
  <2> QED
    BY <1>3, <2>1, <2>2 DEF Balanced, Keeps
<1>6. CASE Merged(h, f, l, m, r, d, e)
  <2> DEFINE c == Joined(l, m, r)
             x == Site(f, <<>>, <<c>>)
             w == WithNode(d, x)
  <2>1. c \in Sub[h - 1] /\ e = takeaway(w, KindAt(k))
    BY <1>6 DEF Merged
  <2>2. c \in Tree[k]
    BY <1>1, <2>1, SubIsGood
  <2>3. x \in Good(h, Room(f), Room(f) + 1)
    BY <1>3, <2>1, OneGood
  <2>4. ASSUME NEW kind \in Kinds PROVE NodesIn(h, x, kind) = Rest(h, f, kind) + NodesIn(k, c, kind)
    BY <1>3, <2>2, OneNodes
  <2>n. ASSUME NEW kind \in Kinds PROVE NodesIn(k, c, kind) \in Nat
    <3> HIDE DEF k
    <3> QED
      BY <1>1, <2>2, NodesInNat
  <2> HIDE DEF c, x
  <2>5. /\ IsDeletion(w) /\ w.node = x /\ w.prev = d.prev
        /\ \A kind : Held(w, kind) = Held(d, kind)
    BY <1>3, NodeGiven
  <2> HIDE DEF w
  <2>6. /\ IsDeletion(e) /\ e.node = w.node /\ e.prev = w.prev
        /\ Held(e, KindAt(k)) = Held(w, KindAt(k)) + 1
        /\ \A kind \in Kinds \ {KindAt(k)} : Held(e, kind) = Held(w, kind)
        /\ \A kind \in Kinds : Held(w, kind) \in Int
    BY <1>1, <2>1, <2>5, TakesAway
  <2>7. ASSUME NEW kind \in Kinds
        PROVE  NodesIn(h, e.node, kind) + Held(e, kind) = NodesIn(h, d.node, kind) + Held(d, kind)
    <3> DEFINE own == Own(k, kind)
               rest == Rest(h, f, kind)
    <3>1. Held(e, kind) = Held(d, kind) + own /\ own \in {0, 1} /\ Held(d, kind) \in Int
      <4>1. CASE kind = KindAt(k)
        BY <2>5, <2>6, <4>1 DEF Own
      <4>2. CASE kind # KindAt(k)
        BY <2>5, <2>6, <4>2 DEF Own
      <4> QED
        BY <4>1, <4>2
    <3>2. NodesIn(h, e.node, kind) = rest + NodesIn(k, c, kind) /\ NodesIn(k, c, kind) \in Nat
      BY <2>4, <2>5, <2>6, <2>n
    <3>3. NodesIn(h, d.node, kind) = rest + (NodesIn(k, c, kind) + own) /\ rest \in Nat
      BY <1>n DEF c
    <3> HIDE DEF own, rest, k
    <3> QED
      BY <3>1, <3>2, <3>3
  <2> QED
    BY <2>3, <2>5, <2>6, <2>7 DEF Balanced, Keeps
<1>7. ASSUME NEW l2, NEW m2, NEW r2, Moved(h, f, l, m, r, d, e, l2, m2, r2)
      PROVE  Balanced(h, f, d, e)
  <2> DEFINE x == Site(f, <<m2>>, <<l2, r2>>)
  <2>1. /\ l2 \in Sub[h - 1] /\ r2 \in Sub[h - 1] /\ m2 \in Item
        /\ Joined(l2, m2, r2) = Joined(l, m, r)
        /\ e = WithNode(d, x)
    BY <1>7 DEF Moved
  <2>2. l2 \in Tree[k] /\ r2 \in Tree[k]
    BY <1>1, <2>1, SubIsGood
  <2>3. OnSite(h, f, j, l2, m2, r2)
    BY <1>3, <2>1, <2>2 DEF OnSite
  <2>4. x \in Good(h, Room(f), Room(f) + 1)
    BY <2>1, <2>3, TwoGood
  <2>5. ASSUME NEW kind \in Kinds
        PROVE  /\ NodesIn(h, x, kind) = Rest(h, f, kind) + (NodesIn(k, l2, kind) + NodesIn(k, r2, kind))
               /\ NodesIn(k, l2, kind) + NodesIn(k, r2, kind) = NodesIn(k, Joined(l2, m2, r2), kind) + Own(k, kind)
    <3>1. NodesIn(h, x, kind) = Rest(h, f, kind) + (NodesIn(k, l2, kind) + NodesIn(k, r2, kind))
      BY <2>3, TwoNodes
    <3> HIDE DEF k
    <3> QED
      BY <1>1, <2>1, <2>2, <3>1, JoinedTree
  <2> HIDE DEF x
  <2>6. /\ IsDeletion(e) /\ e.node = x /\ e.prev = d.prev
        /\ \A kind : Held(e, kind) = Held(d, kind)
    BY <1>3, <2>1, NodeGiven
  <2>7. ASSUME NEW kind \in Kinds
        PROVE  NodesIn(h, e.node, kind) = NodesIn(h, d.node, kind)
    BY <1>n, <2>1, <2>5, <2>6
  <2> QED
    BY <2>4, <2>6, <2>7 DEF Balanced, Keeps
<1> QED
  BY <1>4, <1>5, <1>6, <1>7

-----------------------------------------------------------------------------
(* A deletion below a branch.                                                *)

WithBoth(d, prev, x) == [d EXCEPT !.prev = prev, !.node = x]

(* A deletion that came to another item and another node. *)
LEMMA BothGiven ==
    ASSUME NEW d, IsDeletion(d), NEW prev, NEW x
    PROVE  /\ IsDeletion(WithBoth(d, prev, x)) /\ WithBoth(d, prev, x).node = x
           /\ WithBoth(d, prev, x).prev = prev
           /\ \A kind : Held(WithBoth(d, prev, x), kind) = Held(d, kind)
<1> DEFINE e == Under(x, prev, d.pool, d.mallocs, d.freed)
<1>1. d = Under(d.node, d.prev, d.pool, d.mallocs, d.freed)
      /\ PoolOk(d.pool) /\ d.mallocs \in Nat /\ d.freed \in Freed
  BY DEF IsDeletion
<1>2. WithBoth(d, prev, x) = e
  <2> DEFINE a == d.node
             b == d.prev
             p == d.pool
             n == d.mallocs
             f == d.freed
  <2>1. d = Under(a, b, p, n, f)
    BY <1>1
  <2> HIDE DEF a, b, p, n, f
  <2>2. [Under(a, b, p, n, f) EXCEPT !.prev = prev, !.node = x] = Under(x, prev, p, n, f)
    <3> DEFINE u == Under(a, b, p, n, f)
               v == Under(a, prev, p, n, f)
    <3>1. [u EXCEPT !.prev = prev] = v
      BY DEF Under
    <3>2. [v EXCEPT !.node = x] = Under(x, prev, p, n, f)
      BY DEF Under
    <3> HIDE DEF u, v
    <3>3. [u EXCEPT !.prev = prev, !.node = x] = [[u EXCEPT !.prev = prev] EXCEPT !.node = x]
      OBVIOUS
    <3> QED
      BY <3>1, <3>2, <3>3 DEF u
  <2> QED
    BY <2>1, <2>2 DEF WithBoth, a, b, p, n, f
<1>3. e.node = x /\ e.prev = prev /\ e.pool = d.pool /\ e.mallocs = d.mallocs /\ e.freed = d.freed
      /\ e = Under(e.node, e.prev, e.pool, e.mallocs, e.freed)
  BY DEF Under
<1> HIDE DEF e
<1>4. IsDeletion(e)
  BY <1>1, <1>3 DEF IsDeletion
<1> QED
  BY <1>2, <1>3, <1>4 DEF Held

\* The branch with another child, and another item in place of a deleted one.
Patched(node, i, c, found, item) ==
    [node EXCEPT !.children[i] = c, !.items = IF found THEN ReplaceAt(@, i, item) ELSE @]

(* Its two sequences. *)
LEMMA PatchedIs ==
    ASSUME NEW items, NEW children, NEW i, NEW c, NEW found, NEW item
    PROVE  Patched(Branch(items, children), i, c, found, item)
           = Branch(IF found THEN ReplaceAt(items, i, item) ELSE items, ReplaceAt(children, i, c))
<1> DEFINE new == IF found THEN ReplaceAt(items, i, item) ELSE items
           v == [items |-> items, children |-> children]
           w == [items |-> items, children |-> [children EXCEPT ![i] = c]]
<1>1. [v EXCEPT !.children[i] = c] = w
  OBVIOUS
<1>2. v.items = items /\ w.items = items
  OBVIOUS
<1>3. [w EXCEPT !.items = new] = [items |-> new, children |-> [children EXCEPT ![i] = c]]
  <2> HIDE DEF new
  <2> QED
    OBVIOUS
<1>4. Patched(v, i, c, found, item) = [[v EXCEPT !.children[i] = c] EXCEPT !.items = IF found THEN ReplaceAt(w.items, i, item) ELSE w.items]
  BY <1>1 DEF Patched
<1> QED
  BY <1>1, <1>2, <1>3, <1>4 DEF Branch, ReplaceAt

(* The first of the two children patched. *)
LEMMA FirstPatched ==
    ASSUME NEW h, NEW f, NEW j, NEW l, NEW m, NEW r, OnSite(h, f, j, l, m, r),
           NEW c, NEW item, NEW m2, OnSite(h, f, j, c, m2, r),
           NEW found \in BOOLEAN, m2 = IF found THEN item ELSE m
    PROVE  Patched(Site(f, <<m>>, <<l, r>>), j, c, found, item) = Site(f, <<m2>>, <<c, r>>)
<1> DEFINE T == Tree[h - 1]
           A == f.left
           B == f.right
           X == f.lower
           Y == f.upper
<1>0. IsSite(h, f, j) /\ m \in Item /\ l \in T /\ r \in T /\ m2 \in Item /\ c \in T
  BY DEF OnSite
<1>1. /\ A \in Seq(T) /\ B \in Seq(T) /\ X \in Seq(Item) /\ Y \in Seq(Item)
      /\ j = Len(A) + 1 /\ j = Len(X) + 1
  BY <1>0, SiteParts
<1>s. /\ Site(f, <<m>>, <<l, r>>) = Branch(Spliced(X, <<m>>, Y), Spliced(A, <<l, r>>, B))
      /\ Site(f, <<m2>>, <<c, r>>) = Branch(Spliced(X, <<m2>>, Y), Spliced(A, <<c, r>>, B))
  BY DEF Site
<1> HIDE DEF T, A, B, X, Y
<1>3. ReplaceAt(Spliced(X, <<m>>, Y), j, m2) = Spliced(X, <<m2>>, Y)
  BY <1>0, <1>1, ReplaceAtSpliced
<1>4. ReplaceAt(Spliced(A, <<l, r>>, B), j, c) = Spliced(A, <<c, r>>, B)
  BY <1>0, <1>1, FirstReplaced
<1> DEFINE items == Spliced(X, <<m>>, Y)
           children == Spliced(A, <<l, r>>, B)
<1>5. (IF found THEN ReplaceAt(items, j, item) ELSE items) = Spliced(X, <<m2>>, Y)
  BY <1>3
<1> HIDE DEF items, children
<1>6. Patched(Branch(items, children), j, c, found, item)
      = Branch(IF found THEN ReplaceAt(items, j, item) ELSE items, ReplaceAt(children, j, c))
  BY PatchedIs
<1> QED
  BY <1>4, <1>5, <1>6, <1>s DEF items, children

(* The second of them. *)
LEMMA SecondPatched ==
    ASSUME NEW h, NEW f, NEW j, NEW l, NEW m, NEW r, OnSite(h, f, j, l, m, r),
           NEW c, NEW item, OnSite(h, f, j, l, m, c), NEW i, i = j + 1, NEW found \in BOOLEAN, ~found
    PROVE  Patched(Site(f, <<m>>, <<l, r>>), i, c, found, item) = Site(f, <<m>>, <<l, c>>)
<1> DEFINE T == Tree[h - 1]
           A == f.left
           B == f.right
           X == f.lower
           Y == f.upper
<1>0. IsSite(h, f, j) /\ m \in Item /\ l \in T /\ r \in T /\ c \in T
  BY DEF OnSite
<1>1. /\ A \in Seq(T) /\ B \in Seq(T)
      /\ j = Len(A) + 1
  BY <1>0, SiteParts
<1>2. i = Len(A) + 2
  <2>1. Len(A) \in Nat
    BY <1>1
  <2> QED
    BY <1>1, <2>1
<1>s. /\ Site(f, <<m>>, <<l, r>>) = Branch(Spliced(X, <<m>>, Y), Spliced(A, <<l, r>>, B))
      /\ Site(f, <<m>>, <<l, c>>) = Branch(Spliced(X, <<m>>, Y), Spliced(A, <<l, c>>, B))
  BY DEF Site
<1> HIDE DEF T, A, B, X, Y
<1>4. ReplaceAt(Spliced(A, <<l, r>>, B), i, c) = Spliced(A, <<l, c>>, B)
  <2>1. A \in Seq(T) /\ B \in Seq(T) /\ i = Len(A) + 2
    BY <1>1, <1>2
  <2> QED
    BY <1>0, <2>1, SecondReplaced
<1> DEFINE items == Spliced(X, <<m>>, Y)
           children == Spliced(A, <<l, r>>, B)
<1> HIDE DEF items, children
<1>6. Patched(Branch(items, children), i, c, found, item)
      = Branch(IF found THEN ReplaceAt(items, i, item) ELSE items, ReplaceAt(children, i, c))
  BY PatchedIs
<1>7. Patched(Branch(items, children), i, c, found, item) = Branch(items, ReplaceAt(children, i, c))
  BY <1>6
<1> QED
  BY <1>4, <1>7, <1>s DEF items, children

\* An item was deleted in child i of a branch, which came to d; the branch to e.
IsDeletedBelow(h, lo, hi, node, i, found, d, e) ==
    /\ h \in Nat /\ h >= 2 /\ lo \in Int /\ hi \in Int /\ node \in Good(h, lo, hi)
    /\ Len(node.items) >= 1
    /\ i \in 1 .. Len(node.items) + 1 /\ found \in BOOLEAN
    /\ found => i <= Len(node.items) /\ d.prev \in Item
    /\ IsDeletion(d)
    /\ d.node \in Loose(h - 1)
    /\ Len(d.node.items) \in Len(node.children[i].items) - 1 .. Len(node.children[i].items)
    /\ e = DeletedBelow(node, i, found, d)

(* The branch is rebalanced after it was patched. *)
LEMMA DeletedBelowIs ==
    ASSUME NEW node, NEW i, NEW found, NEW d
    PROVE  DeletedBelow(node, i, found, d)
           = Rebalance(WithBoth(d, IF found THEN node.items[i] ELSE d.prev,
                                   Patched(node, i, d.node, found, d.prev)), i)

BY DEF DeletedBelow, WithBoth, Patched

\* The two children and the item between them before and after the deletion.
Patches(h, f, j, node, i, found, d, l, m, r, l2, m2, r2) ==
    /\ OnSite(h, f, j, l, m, r) /\ OnSite(h, f, j, l2, m2, r2)
    /\ node = Site(f, <<m>>, <<l, r>>)
    /\ Patched(node, i, d.node, found, d.prev) = Site(f, <<m2>>, <<l2, r2>>)
    /\ Pair(h - 1, l2, m2, r2)
    /\ \/ i = j /\ l = node.children[i] /\ l2 = d.node /\ r2 = r /\ r2 \in Sub[h - 1]
       \/ i = j + 1 /\ Room(f) + 1 = j /\ r = node.children[i] /\ r2 = d.node /\ l2 = l /\ l2 \in Sub[h - 1]

(* There are such children. *)
LEMMA ThePatches ==
    ASSUME NEW h, NEW lo, NEW hi, NEW node, NEW i, NEW found, NEW d, NEW e,
           IsDeletedBelow(h, lo, hi, node, i, found, d, e)
    PROVE  \E f, j, l, m, r, l2, m2, r2 : Patches(h, f, j, node, i, found, d, l, m, r, l2, m2, r2)
<1> DEFINE n == Len(node.items)
           j == IF i > n THEN i - 1 ELSE i
           k == h - 1
           l == node.children[j]
           r == node.children[j + 1]
           m == node.items[j]
           c == d.node
<1>h. /\ h \in Nat /\ h >= 2 /\ lo \in Int /\ hi \in Int /\ node \in Good(h, lo, hi)
      /\ n >= 1 /\ i \in 1 .. n + 1 /\ found \in BOOLEAN
      /\ found => i <= n /\ d.prev \in Item
      /\ c \in Loose(k)
  BY DEF IsDeletedBelow
<1>1. n \in Nat
  BY <1>h, GoodParts
<1>2. j \in 1 .. n
  <2> HIDE DEF n
  <2> QED
    BY <1>h, <1>1
<1>3. /\ \E f : IsSite(h, f, j) /\ node = Site(f, <<m>>, <<l, r>>)
      /\ l \in Sub[k] /\ r \in Sub[k] /\ m \in Item
  <2> HIDE DEF j
  <2> QED
    BY <1>h, <1>2, SiteAtItem
<1>k. k \in Nat /\ k >= 1
  BY <1>h
<1>p. PICK f : IsSite(h, f, j) /\ node = Site(f, <<m>>, <<l, r>>)
  BY <1>3
<1>i. (i = j /\ i <= n) \/ (i = j + 1 /\ j = n /\ ~(i <= n))
  <2> HIDE DEF n
  <2> QED
    BY <1>h, <1>1
<1>c. (i = j => l = node.children[i]) /\ (i = j + 1 => r = node.children[i])
  <2> HIDE DEF j
  <2> QED
    OBVIOUS
<1>t. l \in Tree[k] /\ r \in Tree[k] /\ c \in Tree[k]
  BY <1>h, <1>3, <1>k, SubIsGood DEF Loose
<1>l. l \in Loose(k) /\ r \in Loose(k)
  BY <1>3, <1>k, LooseIsSub
<1>o. OnSite(h, f, j, l, m, r)
  BY <1>p, <1>3, <1>t DEF OnSite
<1>s. IsSite(h, f, j) /\ node = Site(f, <<m>>, <<l, r>>)
  BY <1>p
<1>r. Room(f) + 1 = n
  <2>1. n = Len(Site(f, <<m>>, <<l, r>>).items)
    BY <1>p
  <2> HIDE DEF n, l, m, r, j
  <2> QED
    BY <1>o, <2>1, TwoLength
<1> HIDE DEF l, m, r, j, c, n
<1>4. CASE i = j /\ i <= n
  <2> DEFINE m2 == IF found THEN d.prev ELSE m
  <2>1. m2 \in Item
    BY <1>h, <1>3, <1>4
  <2>2. OnSite(h, f, j, c, m2, r)
    BY <1>s, <1>t, <2>1 DEF OnSite
  <2>e. m2 = IF found THEN d.prev ELSE m
    OBVIOUS
  <2> HIDE DEF m2
  <2>3. Patched(Site(f, <<m>>, <<l, r>>), j, c, found, d.prev) = Site(f, <<m2>>, <<c, r>>)
    BY <1>h, <1>o, <2>2, <2>e, FirstPatched
  <2>4. Patched(node, i, d.node, found, d.prev) = Site(f, <<m2>>, <<c, r>>)
    BY <1>4, <1>s, <2>3 DEF c
  <2>5. Pair(k, c, m2, r)
    BY <1>h, <1>k, <1>l, <2>1 DEF Pair
  <2>6. l = node.children[i] /\ c = d.node
    BY <1>4, <1>c DEF c
  <2>7. Patches(h, f, j, node, i, found, d, l, m, r, c, m2, r)
    BY <1>3, <1>4, <1>o, <1>s, <2>2, <2>4, <2>5, <2>6 DEF Patches
  <2> QED
    BY <2>7
<1>5. CASE i = j + 1 /\ j = n /\ ~(i <= n)
  <2>1. ~found
    BY <1>h, <1>5
  <2>2. OnSite(h, f, j, l, m, c)
    BY <1>s, <1>t, <1>3 DEF OnSite
  <2>3. Patched(Site(f, <<m>>, <<l, r>>), i, c, found, d.prev) = Site(f, <<m>>, <<l, c>>)
    BY <1>h, <1>o, <1>5, <2>1, <2>2, SecondPatched
  <2>4. Patched(node, i, d.node, found, d.prev) = Site(f, <<m>>, <<l, c>>)
    BY <1>s, <2>3 DEF c
  <2>5. Pair(k, l, m, c)
    BY <1>h, <1>k, <1>l, <1>3 DEF Pair
  <2>6. r = node.children[i] /\ c = d.node /\ Room(f) + 1 = j
    BY <1>5, <1>c, <1>r DEF c
  <2>7. Patches(h, f, j, node, i, found, d, l, m, r, l, m, c)
    BY <1>3, <1>5, <1>o, <1>s, <2>2, <2>4, <2>5, <2>6 DEF Patches
  <2> QED
    BY <2>7
<1> QED
  BY <1>i, <1>4, <1>5

\* The result of a deletion below a branch.
IsChildDeletion(h, node, i, found, d, e) ==
    /\ IsDeletion(e) /\ e.prev = IF found THEN node.items[i] ELSE d.prev
    /\ e.node \in Good(h, Len(node.items) - 1, Len(node.items))
    /\ \A kind \in Kinds :
          NodesIn(h, e.node, kind) + Held(e, kind) + NodesIn(h - 1, node.children[i], kind)
          = NodesIn(h, node, kind) + (NodesIn(h - 1, d.node, kind) + Held(d, kind))

(* The branch that a deletion below it comes to. *)
LEMMA DeletedBelowSized ==
    ASSUME NEW h, NEW lo, NEW hi, NEW node, NEW i, NEW found, NEW d, NEW e,
           IsDeletedBelow(h, lo, hi, node, i, found, d, e)
    PROVE  IsChildDeletion(h, node, i, found, d, e)
<1> DEFINE prev == IF found THEN node.items[i] ELSE d.prev
           x == Patched(node, i, d.node, found, d.prev)
           w == WithBoth(d, prev, x)
           n == Len(node.items)
           k == h - 1
<1>h. /\ h \in Nat /\ h >= 2 /\ lo \in Int /\ hi \in Int /\ node \in Good(h, lo, hi)
      /\ IsDeletion(d) /\ d.node \in Loose(k)
      /\ Len(d.node.items) \in Len(node.children[i].items) - 1 .. Len(node.children[i].items)
      /\ i \in 1 .. n + 1
      /\ e = DeletedBelow(node, i, found, d)
  BY DEF IsDeletedBelow
<1>k. k \in Nat /\ k >= 1
  BY <1>h
<1>1. e = Rebalance(w, i)
  BY <1>h, DeletedBelowIs
<1> HIDE DEF prev, x
<1>2. /\ IsDeletion(w) /\ w.node = x /\ w.prev = prev
      /\ \A kind : Held(w, kind) = Held(d, kind)
  BY <1>h, BothGiven
<1> HIDE DEF w
<1>3. PICK f, j, l, m, r, l2, m2, r2 : Patches(h, f, j, node, i, found, d, l, m, r, l2, m2, r2)
  BY ThePatches
<1>4. /\ OnSite(h, f, j, l, m, r) /\ OnSite(h, f, j, l2, m2, r2)
      /\ node = Site(f, <<m>>, <<l, r>>) /\ x = Site(f, <<m2>>, <<l2, r2>>)
      /\ Pair(k, l2, m2, r2)
      /\ \/ i = j /\ l = node.children[i] /\ l2 = d.node /\ r2 = r /\ r2 \in Sub[k]
         \/ i = j + 1 /\ Room(f) + 1 = j /\ r = node.children[i] /\ r2 = d.node /\ l2 = l /\ l2 \in Sub[k]
  BY <1>3 DEF Patches, x
<1>5. IsSite(h, f, j)
  BY <1>4 DEF OnSite
<1>6. node.children[i] \in Sub[k]
  BY <1>h, SiteAtChild
<1>7. Len(d.node.items) \in MinItems - 1 .. MaxItems - 2
  <2> DEFINE a == Len(node.children[i].items)
             b == Len(d.node.items)
  <2>1. a \in MinItems .. MaxItems - 2
    BY <1>6, <1>k, SubIsGood DEF Good
  <2>2. b \in a - 1 .. a
    BY <1>h
  <2>3. MinItems \in Nat /\ MaxItems \in Nat
    BY MinItemsBound
  <2> HIDE DEF a, b
  <2>4. b \in MinItems - 1 .. MaxItems - 2
    BY <2>1, <2>2, <2>3
  <2> QED
    BY <2>4 DEF b
<1>8. Unbalanced(h, f, j, i, l2, m2, r2, w)
  <2>1. \/ i = j /\ r2 \in Sub[h - 1] /\ Len(l2.items) \in MinItems - 1 .. MaxItems - 2
        \/ i = j + 1 /\ Room(f) + 1 = j /\ l2 \in Sub[h - 1] /\ Len(r2.items) \in MinItems - 1 .. MaxItems - 2
    BY <1>4, <1>7
  <2>2. Pair(h - 1, l2, m2, r2)
    BY <1>4
  <2> QED
    BY <1>2, <1>4, <1>5, <2>1, <2>2 DEF Unbalanced
<1>9. Balanced(h, f, w, e)
  BY <1>1, <1>8, RebalancedTo
<1>10. /\ IsDeletion(e) /\ e.prev = prev /\ e.node \in Good(h, Room(f), Room(f) + 1)
       /\ Keeps(h, w, e)
  BY <1>2, <1>9 DEF Balanced
<1>11. Room(f) + 1 = n /\ Room(f) \in Nat
  <2>1. n = Len(Site(f, <<m>>, <<l, r>>).items)
    BY <1>4
  <2> HIDE DEF n
  <2> QED
    BY <1>4, <2>1, TwoLength
<1>12. e.node \in Good(h, n - 1, n)
  <2>1. Room(f) = n - 1
    BY <1>11
  <2> HIDE DEF n
  <2> QED
    BY <1>10, <1>11, <2>1
<1>13. ASSUME NEW kind \in Kinds
       PROVE  NodesIn(h, e.node, kind) + Held(e, kind) + NodesIn(k, node.children[i], kind)
              = NodesIn(h, node, kind) + (NodesIn(k, d.node, kind) + Held(d, kind))
  <2> DEFINE child == node.children[i]
             rest == Rest(h, f, kind)
             new == NodesIn(k, d.node, kind)
             old == NodesIn(k, child, kind)
             hd == Held(d, kind)
             he == Held(e, kind)
  <2>1. NodesIn(h, e.node, kind) + he = NodesIn(h, x, kind) + hd
    BY <1>2, <1>10 DEF Keeps
  <2>2. NodesIn(h, node, kind) = rest + (NodesIn(k, l, kind) + NodesIn(k, r, kind)) /\ rest \in Nat
    BY <1>4, TwoNodes
  <2>3. NodesIn(h, x, kind) = rest + (NodesIn(k, l2, kind) + NodesIn(k, r2, kind))
    BY <1>4, TwoNodes
  <2>4. l \in Tree[k] /\ r \in Tree[k] /\ l2 \in Tree[k] /\ r2 \in Tree[k]
    BY <1>4 DEF OnSite
  <2> HIDE DEF k
  <2>5. /\ NodesIn(k, l, kind) \in Nat /\ NodesIn(k, r, kind) \in Nat
        /\ NodesIn(k, l2, kind) \in Nat /\ NodesIn(k, r2, kind) \in Nat
    BY <1>k, <2>4, NodesInNat
  <2>6. hd \in Int /\ he \in Int
    <3>1. \A b : IsDeletion(b) => Held(b, kind) \in Int
      <4>1. ASSUME NEW b, IsDeletion(b) PROVE Held(b, kind) \in Int
        <5>1. b.pool \in Pool /\ b.freed \in Freed
          BY <4>1 DEF IsDeletion, PoolOk
        <5>2. b.pool[kind].len \in Int
          BY <5>1, GroupOf
        <5>3. b.freed[kind] \in Nat
          BY <5>1, Bumped
        <5> QED
          BY <5>2, <5>3 DEF Held
      <4> QED
        BY <4>1
    <3> QED
      BY <1>h, <1>10, <3>1
  <2> DEFINE ne == NodesIn(h, e.node, kind)
             nx == NodesIn(h, x, kind)
  <2>e. ne \in Int
    <3>1. e.node \in Tree[h]
      BY <1>12, InGood
    <3> QED
      BY <1>h, <3>1, NodesInNat
  <2>7. \/ NodesIn(k, l, kind) = old /\ NodesIn(k, l2, kind) = new /\ r2 = r
        \/ NodesIn(k, r, kind) = old /\ NodesIn(k, r2, kind) = new /\ l2 = l
    BY <1>4
  <2> HIDE DEF child, rest, new, old, hd, he, ne, nx
  <2>8. CASE NodesIn(k, l, kind) = old /\ NodesIn(k, l2, kind) = new /\ r2 = r
    <3>1. ne + he + old = NodesIn(h, node, kind) + (new + hd)
      <4>1. ne + he = nx + hd
        BY <2>1 DEF ne, nx
      <4>2. nx = rest + (new + NodesIn(k, r, kind))
        BY <2>3, <2>8 DEF nx
      <4>3. NodesIn(h, node, kind) = rest + (old + NodesIn(k, r, kind)) /\ rest \in Nat
        BY <2>2, <2>8
      <4>4. old \in Nat /\ new \in Nat
        BY <2>5, <2>8
      <4> QED
        BY <2>5, <2>6, <2>e, <4>1, <4>2, <4>3, <4>4
    <3> QED
      BY <3>1 DEF ne, he, old, new, hd, child
  <2>9. CASE NodesIn(k, r, kind) = old /\ NodesIn(k, r2, kind) = new /\ l2 = l
    <3>1. ne + he + old = NodesIn(h, node, kind) + (new + hd)
      <4>1. ne + he = nx + hd
        BY <2>1 DEF ne, nx
      <4>2. nx = rest + (NodesIn(k, l, kind) + new)
        BY <2>3, <2>9 DEF nx
      <4>3. NodesIn(h, node, kind) = rest + (NodesIn(k, l, kind) + old) /\ rest \in Nat
        BY <2>2, <2>9
      <4>4. old \in Nat /\ new \in Nat
        BY <2>5, <2>9
      <4> QED
        BY <2>5, <2>6, <2>e, <4>1, <4>2, <4>3, <4>4
    <3> QED
      BY <3>1 DEF ne, he, old, new, hd, child
  <2> QED
    BY <2>7, <2>8, <2>9
<1> QED
  BY <1>10, <1>12, <1>13 DEF IsChildDeletion, prev

-----------------------------------------------------------------------------
(* node_delete.                                                              *)

\* What a deletion in a tree promises: nothing was found, or an item less.
NodeDeletion(h, node, p, e) ==
    /\ e.prev \in Item \cup {NoItem}
    /\ e.prev # NoItem =>
          /\ IsDeletion(e)
          /\ e.node \in Good(h, Len(node.items) - 1, Len(node.items))
          /\ \A kind \in Kinds : NodesIn(h, e.node, kind) + Held(e, kind) = NodesIn(h, node, kind) + p[kind].len

IsDeleting(key, p, mallocs) == key \in Key \cup {0} /\ PoolOk(p) /\ mallocs \in Nat

(* A deletion that begins. *)
LEMMA NothingYet ==
    ASSUME NEW node, NEW key, NEW p, NEW mallocs, IsDeleting(key, p, mallocs), NEW none,
           none = NothingDeleted(node, p, mallocs)
    PROVE  /\ IsDeletion(none) /\ none.prev = NoItem /\ none.node = node
           /\ \A kind \in Kinds : Held(none, kind) = p[kind].len
<1> DEFINE zero == [leaves |-> 0, branches |-> 0]
<1>1. none = Under(node, NoItem, p, mallocs, zero)
  BY DEF NothingDeleted, Under
<1>2. zero \in Freed /\ \A kind \in Kinds : zero[kind] = 0
  BY DEF Freed, Kinds
<1> HIDE DEF zero
<1>3. /\ none.node = node /\ none.prev = NoItem /\ none.pool = p /\ none.mallocs = mallocs /\ none.freed = zero
      /\ none = Under(none.node, none.prev, none.pool, none.mallocs, none.freed)
  BY <1>1, UnderParts
<1>4. PoolOk(p) /\ mallocs \in Nat
  BY DEF IsDeleting
<1>5. IsDeletion(none)
  BY <1>2, <1>3, <1>4 DEF IsDeletion
<1>6. ASSUME NEW kind \in Kinds PROVE Held(none, kind) = p[kind].len
  <2>1. p[kind].len \in Int
    BY <1>4, GroupOf DEF PoolOk
  <2> QED
    BY <1>2, <1>3, <2>1 DEF Held
<1> QED
  BY <1>3, <1>5, <1>6

(* An element removed. *)
LEMMA OneRemoved ==
    ASSUME NEW T, NEW s \in Seq(T), NEW i \in 1 .. Len(s)
    PROVE  RemoveAt(s, i) \in Seq(T) /\ Len(RemoveAt(s, i)) = Len(s) - 1 /\ s[i] \in T
<1> DEFINE a == SubSeq(s, 1, i - 1)
           b == SubSeq(s, i + 1, Len(s))
           x == s[i]
           none == <<>>
<1>1. a \in Seq(T) /\ b \in Seq(T) /\ s = Spliced(a, <<x>>, b) /\ Len(a) = i - 1 /\ Len(b) = Len(s) - i
  BY SplicedAtElement
<1>2. x \in T /\ i \in Nat /\ i >= 1 /\ Len(s) \in Nat
  OBVIOUS
<1>3. none \in Seq(T) /\ Len(none) = 0
  OBVIOUS
<1> HIDE DEF a, b, x, none
<1>4. i = Len(a) + 1
  BY <1>1, <1>2
<1>5. RemoveAt(Spliced(a, <<x>>, b), i) = Spliced(a, none, b)
  BY <1>1, <1>2, <1>4, RemoveAtSpliced DEF none
<1>6. /\ Spliced(a, none, b) \in Seq(T) /\ Len(Spliced(a, none, b)) = Len(a) + Len(none) + Len(b)
      /\ Len(a) \in Nat /\ Len(b) \in Nat
  <2>1. a \in Seq(T) /\ none \in Seq(T) /\ b \in Seq(T)
    BY <1>1, <1>3
  <2> QED
    BY <2>1, SplicedIs
<1> QED
  BY <1>1, <1>2, <1>3, <1>5, <1>6 DEF x

IsLeafDeletion(node, p, mallocs, i, e) ==
    /\ node \in Good(1, 1, MaxItems - 2) /\ PoolOk(p) /\ mallocs \in Nat
    /\ i \in 1 .. Len(node.items)
    /\ e = [NothingDeleted(node, p, mallocs) EXCEPT !.node = Leaf(RemoveAt(node.items, i)), !.prev = node.items[i]]

(* An item deleted in a leaf. *)
LEMMA LeafDeleted ==
    ASSUME NEW node, NEW p, NEW mallocs, NEW i, NEW e, IsLeafDeletion(node, p, mallocs, i, e)
    PROVE  NodeDeletion(1, node, p, e)
<1> DEFINE items == node.items
           n == Len(items)
           new == RemoveAt(items, i)
           none == <<>>
           zero == [leaves |-> 0, branches |-> 0]
           x == Leaf(new)
           y == items[i]
           hi == MaxItems - 2
<1>h. /\ node \in Good(1, 1, hi) /\ PoolOk(p) /\ mallocs \in Nat
      /\ i \in 1 .. n
      /\ e = [NothingDeleted(node, p, mallocs) EXCEPT !.node = x, !.prev = y]
  BY DEF IsLeafDeletion
<1>m. hi \in Int
  BY MinItemsBound
<1> HIDE DEF hi
<1>1. /\ node \in Tree[1] /\ n \in Nat /\ n \in 1 .. hi /\ items \in Seq(Item)
      /\ node.children \in Seq(Sub[1 - 1]) /\ node.children = <<>>
  <2> DEFINE h == 1
  <2>1. h \in Nat /\ h >= 1 /\ h \in Int /\ node \in Good(h, h, hi) /\ h = 1
    BY <1>h
  <2> HIDE DEF h
  <2>2. /\ node \in Tree[h] /\ Len(node.items) \in h .. hi /\ Len(node.items) \in Nat
        /\ node.items \in Seq(Item) /\ node.children \in Seq(Sub[h - 1])
        /\ IF h = 1 THEN node.children = <<>> ELSE Len(node.children) = Len(node.items) + 1
    BY <1>m, <2>1, GoodParts
  <2> QED
    BY <2>1, <2>2
<1>2. new \in Seq(Item) /\ Len(new) = n - 1 /\ y \in Item
  <2> HIDE DEF items
  <2>1. items \in Seq(Item) /\ i \in 1 .. Len(items)
    BY <1>1, <1>h
  <2> QED
    BY <2>1, OneRemoved
<1>3. x = Branch(new, none)
  BY DEF Leaf, Branch
<1>4. none \in Seq(Sub[1 - 1])
  BY <1>1
<1> HIDE DEF new, y, n, items, x
<1>5. x \in Good(1, n - 1, n)
  <2>1. Len(new) \in n - 1 .. n /\ n - 1 \in Int /\ n \in Int
    BY <1>1, <1>2
  <2>2. MakesGood(1, n - 1, n, new, none)
    BY <1>2, <1>4, <2>1 DEF MakesGood
  <2> QED
    BY <1>3, <2>2, GoodBranch
<1>6. e = Under(x, y, p, mallocs, zero)
  <2> DEFINE u == Under(node, NoItem, p, mallocs, zero)
             v == Under(x, NoItem, p, mallocs, zero)
  <2>1. NothingDeleted(node, p, mallocs) = u
    BY DEF NothingDeleted, Under
  <2> HIDE DEF zero
  <2>2. [u EXCEPT !.node = x] = v
    BY DEF Under
  <2>3. [v EXCEPT !.prev = y] = Under(x, y, p, mallocs, zero)
    BY DEF Under
  <2> HIDE DEF u, v
  <2>4. [u EXCEPT !.node = x, !.prev = y] = [[u EXCEPT !.node = x] EXCEPT !.prev = y]
    OBVIOUS
  <2> QED
    BY <1>h, <2>1, <2>2, <2>3, <2>4
<1>7. zero \in Freed /\ \A kind \in Kinds : zero[kind] = 0
  BY DEF Freed, Kinds
<1> HIDE DEF zero
<1>8. /\ e.node = x /\ e.prev = y /\ e.pool = p /\ e.mallocs = mallocs /\ e.freed = zero
      /\ e = Under(e.node, e.prev, e.pool, e.mallocs, e.freed)
  BY <1>6, UnderParts
<1>9. IsDeletion(e)
  BY <1>h, <1>7, <1>8 DEF IsDeletion
<1>10. ASSUME NEW kind \in Kinds
       PROVE  NodesIn(1, e.node, kind) + Held(e, kind) = NodesIn(1, node, kind) + p[kind].len
  <2>1. p[kind].len \in Int
    BY <1>h, GroupOf DEF PoolOk
  <2>2. Held(e, kind) = p[kind].len
    BY <1>7, <1>8, <2>1 DEF Held
  <2>3. x \in Tree[1] /\ x.children = node.children
    BY <1>1, <1>3, <1>5, InGood DEF Branch
  <2>4. NodesIn(1, x, kind) = NodesIn(1, node, kind)
    <3>1. NodesIn(1, x, kind) = Own(1, kind) + NodesInAll(1 - 1, x.children, kind)
      BY <2>3, NodesInTree
    <3>2. NodesIn(1, node, kind) = Own(1, kind) + NodesInAll(1 - 1, node.children, kind)
      BY <1>1, NodesInTree
    <3> QED
      BY <2>3, <3>1, <3>2
  <2> QED
    BY <1>8, <2>2, <2>4
<1> QED
  BY <1>2, <1>5, <1>8, <1>9, <1>10 DEF NodeDeletion, n, items

IsBranchDeletion(h, node, p, i, found, d, e) ==
    /\ h \in Nat /\ h >= 2 /\ node \in Good(h, 1, MaxItems - 2) /\ PoolOk(p)
    /\ i \in 1 .. Len(node.items) + 1 /\ found \in BOOLEAN /\ (found => i <= Len(node.items))
    /\ NodeDeletion(h - 1, node.children[i], p, d) /\ d.prev # NoItem
    /\ e = DeletedBelow(node, i, found, d)

(* What was held, and the nodes. *)
LEMMA HeldIsInt ==
    ASSUME NEW d, IsDeletion(d), NEW kind \in Kinds
    PROVE  Held(d, kind) \in Int
<1>1. d.pool \in Pool /\ d.freed \in Freed
  BY DEF IsDeletion, PoolOk
<1>2. d.pool[kind].len \in Int
  BY <1>1, GroupOf
<1>3. d.freed[kind] \in Nat
  BY <1>1, Bumped
<1> QED
  BY <1>2, <1>3 DEF Held

(* The counting of nodes in a deletion. *)
LEMMA DeleteCounts ==
    ASSUME NEW new \in Int, NEW he \in Int, NEW child \in Int, NEW all \in Int, NEW below \in Int,
           NEW q \in Int, (new + he) + child = all + below, below = child + q
    PROVE  new + he = all + q

OBVIOUS

(* An item deleted below a branch: what is known of the child. *)
LEMMA BranchDeletion ==
    ASSUME NEW h, NEW node, NEW p, NEW i, NEW found, NEW d, NEW e,
           IsBranchDeletion(h, node, p, i, found, d, e)
    PROVE  IsDeletedBelow(h, 1, MaxItems - 2, node, i, found, d, e)
<1> DEFINE n == Len(node.items)
           hi == MaxItems - 2
           k == h - 1
           child == node.children[i]
           c == Len(child.items)
<1>h. /\ h \in Nat /\ h >= 2 /\ node \in Good(h, 1, hi) /\ PoolOk(p)
      /\ i \in 1 .. n + 1 /\ found \in BOOLEAN /\ (found => i <= n)
      /\ NodeDeletion(k, child, p, d) /\ d.prev # NoItem
      /\ e = DeletedBelow(node, i, found, d)
  BY DEF IsBranchDeletion
<1>m. hi \in Int
  BY MinItemsBound
<1>1. n \in 1 .. hi
  BY <1>h, InGood, Zenon
<1>2. /\ d.prev \in Item /\ IsDeletion(d)
      /\ d.node \in Good(k, c - 1, c)
  BY <1>h DEF NodeDeletion
<1>3. d.node \in Tree[k] /\ Len(d.node.items) \in c - 1 .. c /\ d.node.children \in Seq(Sub[k - 1])
  <2> DEFINE c1 == c - 1
  <2>1. d.node \in Good(k, c1, c)
    BY <1>2
  <2> HIDE DEF c1, c, k
  <2>2. d.node \in Tree[k] /\ Len(d.node.items) \in c1 .. c /\ d.node.children \in Seq(Sub[k - 1])
    BY <2>1, InGood, Zenon
  <2> QED
    BY <2>2 DEF c1
<1>4. d.node \in Loose(k)
  BY <1>3 DEF Loose
<1>5. n >= 1 /\ 1 \in Int
  BY <1>1
<1> QED
  BY <1>h, <1>m, <1>2, <1>3, <1>4, <1>5 DEF IsDeletedBelow

(* An item deleted below a branch. *)
LEMMA BranchDeleted ==
    ASSUME NEW h, NEW node, NEW p, NEW i, NEW found, NEW d, NEW e,
           IsBranchDeletion(h, node, p, i, found, d, e)
    PROVE  NodeDeletion(h, node, p, e)
<1> DEFINE n == Len(node.items)
           hi == MaxItems - 2
           k == h - 1
           child == node.children[i]
           c == Len(child.items)
<1>h. /\ h \in Nat /\ h >= 2 /\ node \in Good(h, 1, hi) /\ PoolOk(p)
      /\ i \in 1 .. n + 1 /\ found \in BOOLEAN /\ (found => i <= n)
      /\ NodeDeletion(k, child, p, d) /\ d.prev # NoItem
      /\ e = DeletedBelow(node, i, found, d)
  BY DEF IsBranchDeletion
<1>m. hi \in Int
  BY MinItemsBound
<1>1. n \in 1 .. hi /\ n \in Nat /\ node \in Tree[h] /\ node.items \in Seq(Item)
  <2> DEFINE lo == 1
  <2>1. lo \in Int /\ node \in Good(h, lo, hi) /\ h >= 1
    BY <1>h
  <2> HIDE DEF lo, hi, n
  <2>2. Len(node.items) \in lo .. hi /\ Len(node.items) \in Nat /\ node \in Tree[h] /\ node.items \in Seq(Item)
    BY <1>h, <1>m, <2>1, GoodParts
  <2> QED
    BY <2>2 DEF lo, n
<1>2. /\ d.prev \in Item /\ IsDeletion(d)
      /\ d.node \in Good(k, c - 1, c)
      /\ \A kind \in Kinds : NodesIn(k, d.node, kind) + Held(d, kind) = NodesIn(k, child, kind) + p[kind].len
  BY <1>h DEF NodeDeletion
<1>3. d.node \in Tree[k] /\ Len(d.node.items) \in c - 1 .. c /\ d.node.children \in Seq(Sub[k - 1])
  <2> DEFINE c1 == c - 1
  <2>1. d.node \in Good(k, c1, c)
    BY <1>2
  <2> HIDE DEF c1, c, k
  <2>2. d.node \in Tree[k] /\ Len(d.node.items) \in c1 .. c /\ d.node.children \in Seq(Sub[k - 1])
    BY <2>1, InGood, Zenon
  <2> QED
    BY <2>2 DEF c1
<1>5. IsDeletedBelow(h, 1, hi, node, i, found, d, e)
  BY BranchDeletion
<1>6. IsChildDeletion(h, node, i, found, d, e)
  BY <1>5, DeletedBelowSized
<1>7. /\ IsDeletion(e) /\ e.prev = IF found THEN node.items[i] ELSE d.prev
      /\ e.node \in Good(h, n - 1, n)
      /\ \A kind \in Kinds :
            (NodesIn(h, e.node, kind) + Held(e, kind)) + NodesIn(k, child, kind)
            = NodesIn(h, node, kind) + (NodesIn(k, d.node, kind) + Held(d, kind))
  BY <1>6 DEF IsChildDeletion
<1>8. e.prev \in Item
  <2>1. CASE found
    <3>1. i \in 1 .. n
      BY <1>h, <1>1, <2>1
    <3>2. node.items[i] \in Item
      BY <1>1, <3>1
    <3> QED
      BY <1>7, <2>1, <3>2
  <2>2. CASE ~found
    BY <1>2, <1>7, <2>2
  <2> QED
    BY <1>h, <2>1, <2>2
<1>c. child \in Tree[k]
  <2>1. child \in Sub[k]
    <3> DEFINE lo == 1
    <3>1. lo \in Int /\ node \in Good(h, lo, hi)
      BY <1>h
    <3> HIDE DEF lo, hi
    <3>2. node.children[i] \in Sub[h - 1]
      BY <1>h, <1>m, <3>1, SiteAtChild
    <3> QED
      BY <3>2
  <2>2. k \in Nat
    BY <1>h
  <2> HIDE DEF k
  <2> QED
    BY <2>1, <2>2, SubIsGood
<1>e. e.node \in Tree[h]
  <2> DEFINE n1 == n - 1
  <2>1. e.node \in Good(h, n1, n)
    BY <1>7
  <2> HIDE DEF n1, n
  <2> QED
    BY <2>1, InGood, Zenon
<1>9. ASSUME NEW kind \in Kinds
      PROVE  NodesIn(h, e.node, kind) + Held(e, kind) = NodesIn(h, node, kind) + p[kind].len
  <2> DEFINE new == NodesIn(h, e.node, kind)
             old == NodesIn(k, child, kind)
             all == NodesIn(h, node, kind)
             nd == NodesIn(k, d.node, kind)
             he == Held(e, kind)
             hd == Held(d, kind)
             q == p[kind].len
             below == nd + hd
  <2>1. new \in Int /\ all \in Int
    BY <1>h, <1>1, <1>e, NodesInNat
  <2>2. old \in Int /\ nd \in Int
    <3>1. k \in Nat
      BY <1>h
    <3> HIDE DEF k
    <3> QED
      BY <1>3, <1>c, <3>1, NodesInNat
  <2>3. he \in Int /\ hd \in Int
    BY <1>2, <1>7, HeldIsInt
  <2>4. q \in Int
    BY <1>h, GroupOf DEF PoolOk
  <2>5. (new + he) + old = all + below
    BY <1>7
  <2>6. below = old + q
    BY <1>2
  <2>7. below \in Int
    BY <2>2, <2>3
  <2> HIDE DEF new, old, all, nd, he, hd, q, below
  <2>8. new + he = all + q
    BY <2>1, <2>2, <2>3, <2>4, <2>5, <2>6, <2>7, DeleteCounts
  <2> QED
    BY <2>8 DEF new, he, all, q
<1> QED
  BY <1>7, <1>8, <1>9 DEF NodeDeletion

(* Where a deletion goes on. *)
LEMMA PositionIs ==
    ASSUME NEW node, node.items \in Seq(Item), NEW key, NEW a \in DelAct
    PROVE  /\ Position(node, a, key) \in
                 IF IsLeaf(node) /\ a = "POPBACK" THEN {Len(node.items)}
                 ELSE IF a = "POPBACK" THEN {Len(node.children)}
                 ELSE 1 .. Len(node.items) + 1
           /\ a = "POPFRONT" => Position(node, a, key) = 1
<1>0. Len(node.items) \in Nat
  OBVIOUS
<1>1. node_find(node, key) \in 1 .. Len(node.items) + 1
  BY PlaceOfKey
<1>2. CASE a = "DELKEY"
  <2>1. Position(node, a, key) = node_find(node, key)
    BY <1>2 DEF Position
  <2> QED
    BY <1>1, <1>2, <2>1
<1>3. CASE a = "POPFRONT"
  <2>1. Position(node, a, key) = 1
    BY <1>3 DEF Position
  <2> QED
    BY <1>0, <1>3, <2>1
<1>4. CASE a = "POPBACK"
  <2>1. Position(node, a, key) = IF IsLeaf(node) THEN Len(node.items) ELSE Len(node.children)
    BY <1>4 DEF Position
  <2> QED
    BY <1>4, <2>1
<1> QED
  BY <1>2, <1>3, <1>4 DEF DelAct

IsNodeDeletion(h, node, key, p, mallocs, a, i, found, d, e) ==
    /\ h \in Nat /\ h >= 1 /\ node \in Good(h, 1, MaxItems - 2) /\ IsDeleting(key, p, mallocs)
    /\ a \in DelAct /\ i = Position(node, a, key) /\ found = (a = "DELKEY" /\ HasAt(node, i, key))
    /\ (h >= 2 => NodeDeletion(h - 1, node.children[i], p, d))
    /\ e = AtNode(node, a, key, NothingDeleted(node, p, mallocs), d)

(* A deletion at one node. *)
LEMMA DeletedAtNode ==
    ASSUME NEW h, NEW node, NEW key, NEW p, NEW mallocs, NEW a, NEW i, NEW found, NEW d, NEW e,
           IsNodeDeletion(h, node, key, p, mallocs, a, i, found, d, e)
    PROVE  NodeDeletion(h, node, p, e)
<1> DEFINE none == NothingDeleted(node, p, mallocs)
           hi == MaxItems - 2
           n == Len(node.items)
<1>h. /\ h \in Nat /\ h >= 1 /\ node \in Good(h, 1, hi) /\ IsDeleting(key, p, mallocs)
      /\ a \in DelAct /\ i = Position(node, a, key) /\ found = (a = "DELKEY" /\ HasAt(node, i, key))
      /\ (h >= 2 => NodeDeletion(h - 1, node.children[i], p, d))
      /\ e = AtNode(node, a, key, none, d)
  BY DEF IsNodeDeletion
<1>m. hi \in Int
  BY MinItemsBound
<1>1. /\ n \in 1 .. hi /\ n \in Nat /\ node \in Tree[h] /\ node.items \in Seq(Item)
      /\ IsLeaf(node) <=> h = 1
      /\ (h # 1 => Len(node.children) = n + 1)
  <2> DEFINE lo == 1
  <2>1. lo \in Int /\ node \in Good(h, lo, hi)
    BY <1>h
  <2> HIDE DEF lo, hi, n
  <2>2. /\ Len(node.items) \in lo .. hi /\ Len(node.items) \in Nat /\ node \in Tree[h] /\ node.items \in Seq(Item)
        /\ IsLeaf(node) <=> h = 1
        /\ IF h = 1 THEN node.children = <<>> ELSE Len(node.children) = Len(node.items) + 1
    BY <1>h, <1>m, <2>1, GoodParts
  <2> QED
    BY <2>2 DEF lo, n
<1>2. PoolOk(p) /\ mallocs \in Nat
  BY <1>h DEF IsDeleting
<1>3. found \in BOOLEAN /\ (found => i <= n)
  BY <1>h DEF HasAt, n
<1>f. found <=> Finds(node, a, key)
  BY <1>h DEF Finds
<1>4. /\ i \in IF IsLeaf(node) /\ a = "POPBACK" THEN {n}
               ELSE IF a = "POPBACK" THEN {Len(node.children)}
               ELSE 1 .. n + 1
      /\ (a = "POPFRONT" => i = 1)
  BY <1>h, <1>1, PositionIs
<1>5. /\ IsDeletion(none) /\ none.prev = NoItem
  BY <1>h, NothingYet
<1>6. CASE e = none
  BY <1>5, <1>6 DEF NodeDeletion
<1>7. CASE IsLeaf(node) /\ ~(a = "DELKEY" /\ ~found)
  <2>1. h = 1
    BY <1>1, <1>7
  <2>2. i \in 1 .. n
    <3>1. CASE a = "POPBACK"
      BY <1>1, <1>4, <1>7, <3>1
    <3>2. CASE a = "POPFRONT"
      BY <1>1, <1>4, <1>7, <3>2
    <3>3. CASE a = "DELKEY"
      <4>1. found
        BY <1>7, <3>3
      <4>2. i \in 1 .. n + 1 /\ i <= n
        BY <1>3, <1>4, <3>3, <4>1
      <4> QED
        BY <1>1, <4>2
    <3> QED
      BY <1>h, <3>1, <3>2, <3>3 DEF DelAct
  <2>3. e = [none EXCEPT !.node = Leaf(RemoveAt(node.items, i)), !.prev = node.items[i]]
    BY <1>h, <1>f, <1>7 DEF AtNode
  <2>4. IsLeafDeletion(node, p, mallocs, i, e)
    BY <1>h, <1>2, <2>1, <2>2, <2>3 DEF IsLeafDeletion
  <2>5. NodeDeletion(1, node, p, e)
    BY <2>4, LeafDeleted
  <2> QED
    BY <2>1, <2>5
<1>8. CASE ~IsLeaf(node) /\ d.prev # NoItem
  <2>1. h # 1 /\ h >= 2
    BY <1>1, <1>8, <1>h
  <2>2. i \in 1 .. n + 1
    <3>1. CASE a = "POPBACK"
      BY <1>1, <1>4, <1>8, <2>1, <3>1
    <3>2. CASE a # "POPBACK"
      BY <1>4, <3>2
    <3> QED
      BY <3>1, <3>2
  <2>3. e = DeletedBelow(node, i, found, d)
    <3>1. e = DeletedBelow(node, Position(node, a, key), Finds(node, a, key), d)
      BY <1>h, <1>8 DEF AtNode
    <3>2. found = Finds(node, a, key)
      BY <1>h DEF Finds
    <3> QED
      BY <1>h, <3>1, <3>2
  <2>4. IsBranchDeletion(h, node, p, i, found, d, e)
    BY <1>h, <1>2, <1>3, <1>8, <2>1, <2>2, <2>3 DEF IsBranchDeletion
  <2> QED
    BY <2>4, BranchDeleted
<1>9. \/ e = none
      \/ IsLeaf(node) /\ ~(a = "DELKEY" /\ ~found)
      \/ ~IsLeaf(node) /\ d.prev # NoItem
  <2> HIDE DEF none
  <2> QED
    BY <1>h, <1>f DEF AtNode
<1> QED
  BY <1>6, <1>7, <1>8, <1>9

(* node_delete on a tree that is as it should be between calls. *)
LEMMA NodeDeleted ==
    ASSUME NEW key, NEW p, NEW mallocs, IsDeleting(key, p, mallocs), NEW act \in DelAct,
           NEW h \in Nat, h >= 1, NEW tree \in Good(h, 1, MaxItems - 2)
    PROVE  NodeDeletion(h, tree, p, node_delete(h, tree, act, key, p, mallocs))
<1> DEFINE hi == MaxItems - 2
           T(k) == \A a \in DelAct : \A node \in Good(k, 1, hi) :
                      NodeDeletion(k, node, p, node_delete(k, node, a, key, p, mallocs))
           S == {k \in Nat : k >= 1 => T(k)}
<1>0. key \in Key \cup {0} /\ p \in Pool /\ mallocs \in Nat
  BY DEF IsDeleting, PoolOk
<1>m. hi \in Int /\ MinItems \in Int /\ MinItems >= 1
  BY MinItemsBound
<1>1. 0 \in S
  OBVIOUS
<1>2. ASSUME NEW k \in Nat, k \in S PROVE k + 1 \in S
  <2> DEFINE h1 == k + 1
  <2>0. h1 \in Nat /\ h1 >= 1 /\ h1 - 1 = k
    OBVIOUS
  <2>k. k >= 1 => T(k)
    BY <1>2
  <2> HIDE DEF h1, T
  <2>1. ASSUME NEW a, a \in DelAct, NEW node, node \in Good(h1, 1, hi)
        PROVE  NodeDeletion(h1, node, p, node_delete(h1, node, a, key, p, mallocs))
    <3> DEFINE i == Position(node, a, key)
               found == a = "DELKEY" /\ HasAt(node, i, key)
               none == NothingDeleted(node, p, mallocs)
               b == IF found THEN "POPBACK" ELSE a
               d == node_delete(k, node.children[i], b, key, p, mallocs)
               e == node_delete(h1, node, a, key, p, mallocs)
    <3>1. /\ node \in Tree[h1] /\ node.items \in Seq(Item) /\ Len(node.items) \in Nat
          /\ IsLeaf(node) <=> h1 = 1
          /\ (h1 # 1 => Len(node.children) = Len(node.items) + 1)
      <4> DEFINE lo == 1
      <4>1. lo \in Int /\ node \in Good(h1, lo, hi)
        BY <2>1
      <4> HIDE DEF lo, hi
      <4>2. /\ Len(node.items) \in Nat /\ node \in Tree[h1] /\ node.items \in Seq(Item)
            /\ IsLeaf(node) <=> h1 = 1
            /\ IF h1 = 1 THEN node.children = <<>> ELSE Len(node.children) = Len(node.items) + 1
        BY <1>m, <2>0, <4>1, GoodParts
      <4> QED
        BY <4>2
    <3>b. b \in DelAct
      BY <2>1 DEF DelAct
    <3>2. e = AtNode(node, a, key, none, d)
      <4>1. d = node_delete(h1 - 1, Below(node, a, key), Goes(node, a, key), key, p, mallocs)
        BY <2>0 DEF Below, Goes, Finds
      <4> HIDE DEF d
      <4>2. /\ key \in Key \cup {0} /\ p \in Pool /\ mallocs \in Nat
            /\ a \in DelAct /\ h1 \in Nat /\ node \in Tree[h1]
        BY <1>0, <2>0, <2>1, <3>1
      <4>3. e = AtNode(node, a, key, none, node_delete(h1 - 1, Below(node, a, key), Goes(node, a, key), key, p, mallocs))
        BY <4>2, NodeDeleteIs
      <4> QED
        BY <4>1, <4>3
    <3>3. h1 >= 2 => NodeDeletion(h1 - 1, node.children[i], p, d)
      <4>1. SUFFICES ASSUME h1 >= 2 PROVE NodeDeletion(k, node.children[i], p, d)
        BY <2>0
      <4>2. k >= 1
        BY <2>0, <4>1
      <4>3. i \in 1 .. Len(node.items) + 1
        <5>1. ~IsLeaf(node) /\ Len(node.children) = Len(node.items) + 1
          BY <3>1, <4>1
        <5>2. i \in IF IsLeaf(node) /\ a = "POPBACK" THEN {Len(node.items)}
                    ELSE IF a = "POPBACK" THEN {Len(node.children)}
                    ELSE 1 .. Len(node.items) + 1
          BY <2>1, <3>1, PositionIs
        <5> HIDE DEF i
        <5> QED
          BY <3>1, <5>1, <5>2
      <4> HIDE DEF i
      <4> DEFINE child == node.children[i]
      <4>4. child \in Sub[k]
        <5> DEFINE lo == 1
        <5>1. lo \in Int /\ node \in Good(h1, lo, hi)
          BY <2>1
        <5> HIDE DEF lo, hi
        <5>2. node.children[i] \in Sub[h1 - 1]
          BY <1>m, <2>0, <4>1, <4>3, <5>1, SiteAtChild
        <5> QED
          BY <2>0, <5>2
      <4>5. child \in Good(k, 1, hi)
        <5>1. child \in Good(k, MinItems, hi)
          BY <4>2, <4>4, SubIsGood
        <5> DEFINE lo == 1
        <5>2. lo \in Int /\ lo <= MinItems
          BY <1>m
        <5>3. hi <= hi
          BY <1>m
        <5> HIDE DEF child, lo, hi
        <5>4. Good(k, MinItems, hi) \subseteq Good(k, lo, hi)
          BY <1>m, <5>2, <5>3, GoodWithin
        <5> QED
          BY <5>1, <5>4 DEF lo
      <4>6. NodeDeletion(k, child, p, node_delete(k, child, b, key, p, mallocs))
        BY <2>k, <3>b, <4>2, <4>5 DEF T
      <4> QED
        BY <4>6
    <3> HIDE DEF i, found, d, e
    <3>4. IsNodeDeletion(h1, node, key, p, mallocs, a, i, found, d, e)
      <4>1. i = Position(node, a, key) /\ found = (a = "DELKEY" /\ HasAt(node, i, key))
        BY DEF i, found
      <4>2. node \in Good(h1, 1, MaxItems - 2)
        BY <2>1
      <4> QED
        BY <2>0, <2>1, <3>2, <3>3, <4>1, <4>2 DEF IsNodeDeletion
    <3>5. NodeDeletion(h1, node, p, e)
      BY <3>4, DeletedAtNode
    <3> QED
      BY <3>5 DEF e
  <2>2. T(h1)
    BY <2>1 DEF T
  <2> QED
    BY <2>0, <2>2 DEF h1
<1>3. h \in S
  <2> HIDE DEF S
  <2> QED
    BY <1>1, <1>2, SetInduction
<1> QED
  BY <1>3

IsShrinking(h, d, h2, e) ==
    /\ h \in Nat /\ h >= 1 /\ IsDeletion(d) /\ d.node \in Good(h, 0, MaxItems - 2)
    /\ e = ShrinkRoot(d) /\ h2 = IF Shrinks(d) THEN h - 1 ELSE h

\* What is left under the root.
Shrunk(node) == IF IsLeaf(node) THEN NoTree ELSE node.children[1]

(* A sequence of one element. *)
LEMMA OnlyElement ==
    ASSUME NEW S, NEW s \in Seq(S), Len(s) = 1
    PROVE  s = <<s[1]>> /\ s[1] \in S
<1> DEFINE t == <<s[1]>>
<1>1. s[1] \in S
  OBVIOUS
<1>2. t \in Seq(S) /\ Len(t) = 1 /\ t[1] = s[1]
  BY <1>1
<1> HIDE DEF t
<1>3. \A i \in 1 .. 1 : t[i] = s[i]
  BY <1>2
<1>4. s = t
  BY <1>2, <1>3, SeqEqual
<1> QED
  BY <1>1, <1>4 DEF t

(* The tree under an empty root. *)
LEMMA UnderEmptyRoot ==
    ASSUME NEW h \in Nat, h >= 1, NEW node, node \in Good(h, 0, MaxItems - 2), node.items = <<>>
    PROVE  /\ Whole(h - 1, Shrunk(node))
           /\ \A kind \in Kinds : /\ NodesIn(h, node, kind) = NodesIn(h - 1, Shrunk(node), kind) + Own(h, kind)
                                  /\ NodesIn(h - 1, Shrunk(node), kind) \in Nat
           /\ Kind(node) = KindAt(h)
<1> DEFINE hi == MaxItems - 2
           lo == 0
           k == h - 1
           x == Shrunk(node)
<1>m. hi \in Int /\ lo \in Int /\ MinItems \in Int /\ MinItems >= 1
  BY MinItemsBound
<1>k. k \in Nat
  OBVIOUS
<1>1. node \in Good(h, lo, hi)
  OBVIOUS
<1> HIDE DEF lo, hi
<1>2. /\ node \in Tree[h] /\ node.children \in Seq(Sub[h - 1])
      /\ IsLeaf(node) <=> h = 1
      /\ IF h = 1 THEN node.children = <<>> ELSE Len(node.children) = Len(node.items) + 1
  BY <1>1, <1>m, GoodParts
<1>3. Kind(node) = KindAt(h)
  BY <1>2 DEF Kind, KindAt
<1>4. ASSUME NEW kind \in Kinds PROVE NodesIn(h, node, kind) = Own(h, kind) + NodesInAll(k, node.children, kind)
  BY <1>2, NodesInTree
<1>5. CASE h = 1
  <2>1. x = NoTree /\ node.children = <<>> /\ k = 0
    BY <1>2, <1>5 DEF Shrunk
  <2>2. Whole(k, x)
    BY <2>1 DEF Whole
  <2>3. ASSUME NEW kind \in Kinds PROVE NodesIn(k, x, kind) = 0 /\ NodesInAll(k, node.children, kind) = 0
    BY <2>1, <2>2, WholeParts, NodesInNone
  <2>4. ASSUME NEW kind \in Kinds
        PROVE  NodesIn(h, node, kind) = NodesIn(k, x, kind) + Own(h, kind) /\ NodesIn(k, x, kind) \in Nat
    BY <1>4, <2>3 DEF Own
  <2> QED
    BY <1>3, <2>2, <2>4
<1>6. CASE h # 1
  <2>0. k >= 1
    BY <1>6
  <2>1. x = node.children[1] /\ Len(node.children) = 1
    BY <1>2, <1>6 DEF Shrunk
  <2>2. node.children \in Seq(Sub[k])
    BY <1>2
  <2> DEFINE C == node.children
  <2> HIDE DEF k, C, x
  <2>3. x \in Sub[k] /\ C = <<x>>
    <3>1. x = C[1] /\ Len(C) = 1 /\ C \in Seq(Sub[k])
      BY <2>1, <2>2 DEF C
    <3> QED
      BY <3>1, OnlyElement
  <2>4. x \in Tree[k] /\ x \in Good(k, MinItems, hi)
    BY <1>k, <2>0, <2>3, SubIsGood DEF hi
  <2>5. Whole(k, x)
    <3> DEFINE one == 1
    <3>1. one \in Int /\ one <= MinItems /\ hi <= hi
      BY <1>m
    <3> HIDE DEF one
    <3>2. x \in Good(k, one, hi)
      BY <1>m, <2>4, <3>1, GoodWithin
    <3> QED
      BY <1>k, <2>0, <3>2 DEF Whole, one, hi
  <2>6. ASSUME NEW kind \in Kinds
        PROVE  NodesIn(h, node, kind) = NodesIn(k, x, kind) + Own(h, kind) /\ NodesIn(k, x, kind) \in Nat
    <3>1. NodesInAll(k, C, kind) = NodesIn(k, x, kind) /\ NodesIn(k, x, kind) \in Nat
      BY <1>k, <2>3, <2>4, NodesInOne, NodesInNat
    <3>2. NodesIn(h, node, kind) = Own(h, kind) + NodesInAll(k, C, kind)
      BY <1>4 DEF C
    <3> QED
      BY <3>1, <3>2 DEF Own
  <2> QED
    BY <1>3, <2>5, <2>6 DEF k, x
<1> QED
  BY <1>5, <1>6

\* What shrinking the root promises.
ShrinksTo(h, d, h2, e) ==
    /\ IsDeletion(e) /\ e.prev = d.prev /\ Whole(h2, e.node)
    /\ \A kind \in Kinds : NodesIn(h2, e.node, kind) + Held(e, kind) = NodesIn(h, d.node, kind) + Held(d, kind)

(* The root after a deletion. *)
LEMMA RootShrunk ==
    ASSUME NEW h, NEW d, NEW h2, NEW e, IsShrinking(h, d, h2, e)
    PROVE  ShrinksTo(h, d, h2, e)
<1> DEFINE hi == MaxItems - 2
           node == d.node
           x == Shrunk(node)
<1>h. /\ h \in Nat /\ h >= 1 /\ IsDeletion(d) /\ node \in Good(h, 0, hi)
      /\ e = ShrinkRoot(d) /\ h2 = IF Shrinks(d) THEN h - 1 ELSE h
  BY DEF IsShrinking
<1>m. hi \in Int
  BY MinItemsBound
<1>0. node.items \in Seq(Item) /\ Len(node.items) \in 0 .. hi
  <2> DEFINE lo == 0
  <2>1. node \in Good(h, lo, hi) /\ lo \in Int
    BY <1>h
  <2> HIDE DEF lo, hi, node
  <2>2. node.items \in Seq(Item) /\ Len(node.items) \in lo .. hi
    BY <1>h, <1>m, <2>1, GoodParts
  <2> QED
    BY <2>2 DEF lo
<1>1. CASE ~Shrinks(d)
  <2>1. e = d /\ h2 = h
    BY <1>h, <1>1 DEF ShrinkRoot
  <2>2. node.items # <<>>
    BY <1>1 DEF Shrinks
  <2>3. Whole(h, node)
    <3>1. Len(node.items) \in 1 .. hi
      <4> DEFINE s == node.items
      <4>1. s \in Seq(Item) /\ s # <<>> /\ Len(s) \in 0 .. hi
        BY <1>0, <2>2
      <4> HIDE DEF s, hi
      <4>2. Len(s) \in 1 .. hi
        BY <1>m, <4>1
      <4> QED
        BY <4>2 DEF s
    <3>2. node \in Good(h, 1, hi)
      BY <1>h, <3>1, InGood
    <3> QED
      BY <1>h, <3>2 DEF Whole
  <2> QED
    BY <1>h, <2>1, <2>3 DEF ShrinksTo
<1>2. CASE Shrinks(d)
  <2> DEFINE w == WithNode(d, x)
             k == h - 1
  <2>1. node.items = <<>> /\ h2 = k
    BY <1>h, <1>2 DEF Shrinks
  <2>2. /\ Whole(k, x)
        /\ \A kind \in Kinds : /\ NodesIn(h, node, kind) = NodesIn(k, x, kind) + Own(h, kind)
                               /\ NodesIn(k, x, kind) \in Nat
        /\ Kind(node) = KindAt(h)
    BY <1>h, <2>1, UnderEmptyRoot
  <2>3. e = takeaway(w, KindAt(h))
    <3>1. [d EXCEPT !.node = IF IsLeaf(@) THEN NoTree ELSE @.children[1]] = w
      BY DEF WithNode, Shrunk
    <3> HIDE DEF w
    <3>2. ShrinkRoot(d) = takeaway(w, Kind(d.node))
      BY <1>2, <3>1 DEF ShrinkRoot
    <3> QED
      BY <1>h, <2>2, <3>2
  <2> HIDE DEF x
  <2>4. /\ IsDeletion(w) /\ w.node = x /\ w.prev = d.prev
        /\ \A kind : Held(w, kind) = Held(d, kind)
    BY <1>h, NodeGiven
  <2> HIDE DEF w
  <2>5. KindAt(h) \in Kinds
    BY DEF KindAt, Kinds
  <2>6. /\ IsDeletion(e) /\ e.node = w.node /\ e.prev = w.prev
        /\ Held(e, KindAt(h)) = Held(w, KindAt(h)) + 1
        /\ \A kind \in Kinds \ {KindAt(h)} : Held(e, kind) = Held(w, kind)
        /\ \A kind \in Kinds : Held(w, kind) \in Int
    BY <2>3, <2>4, <2>5, TakesAway
  <2>7. ASSUME NEW kind \in Kinds
        PROVE  NodesIn(k, e.node, kind) + Held(e, kind) = NodesIn(h, node, kind) + Held(d, kind)
    <3> DEFINE own == Own(h, kind)
    <3>1. Held(e, kind) = Held(d, kind) + own /\ own \in {0, 1} /\ Held(d, kind) \in Int
      <4>1. CASE kind = KindAt(h)
        BY <2>4, <2>6, <4>1 DEF Own
      <4>2. CASE kind # KindAt(h)
        BY <2>4, <2>6, <4>2 DEF Own
      <4> QED
        BY <4>1, <4>2
    <3>2. /\ NodesIn(h, node, kind) = NodesIn(k, x, kind) + own
          /\ NodesIn(k, x, kind) \in Nat
          /\ NodesIn(k, e.node, kind) = NodesIn(k, x, kind)
      BY <2>2, <2>4, <2>6
    <3> HIDE DEF own, k, node
    <3> QED
      BY <3>1, <3>2
  <2> QED
    BY <2>1, <2>2, <2>4, <2>6, <2>7 DEF ShrinksTo
<1> QED
  BY <1>1, <1>2

\* The parts of the invariant.
NoPanic == status \in {"ok", "freed", "crash"}

\* Every node allocated and not freed is in the tree or in the pool.
Tallied(h, tree, p, alive) ==
    /\ DOMAIN alive = Kinds
    /\ \A kind \in Kinds : alive[kind] = NodesIn(h, tree, kind) + p[kind].len

Loaded(h, tree, pos) == pos \in 0 .. Len(LastLeaf[h][tree].items)

\* The tree, its pool and the nodes alive.
Kept(h, tree, p, alive) == Whole(h, tree) /\ PoolOk(p) /\ Tallied(h, tree, p, alive)

\* The inductive invariant: no panic, a sound tree, a pool, all nodes in either, and the last load within the last leaf.
TreeInv == NoPanic /\ Kept(height, root, pool, live) /\ Loaded(height, root, litem)

(* The end of a tree holds a number of items, that of no tree none. *)
LEMMA LastLength ==
    ASSUME NEW h, NEW tree, Whole(h, tree)
    PROVE  /\ Len(LastLeaf[h][tree].items) \in Nat
           /\ h = 0 => Len(LastLeaf[h][tree].items) = 0
<1>1. h \in Nat /\ tree \in Tree[h] /\ (tree = NoTree <=> h = 0)
  BY WholeParts
<1>2. LastLeaf[h][tree].items \in Seq(Item) /\ LastLeaf[0][NoTree].items = <<>>
  BY <1>1, LastLeafIsLeaf
<1>3. h = 0 => Len(LastLeaf[h][tree].items) = Len(<<>>)
  BY <1>1, <1>2
<1> QED
  BY <1>2, <1>3

(* The number of nodes of a kind is a number. *)
LEMMA WholeNodes ==
    ASSUME NEW h, NEW tree, Whole(h, tree), NEW kind \in Kinds
    PROVE  NodesIn(h, tree, kind) \in Nat
<1>1. h \in Nat /\ tree \in Tree[h]
  BY WholeParts
<1> QED
  BY <1>1, NodesInNat

(* What fill_pool allocates is counted. *)
LEMMA FilledTallied ==
    ASSUME NEW p, PoolOk(p), PoolOk(pool), Whole(height, root), Tallied(height, root, pool, live)
    PROVE  Tallied(height, root, p, Filled(p))
<1>1. DOMAIN Filled(p) = Kinds
  BY DEF Filled, Tallied
<1>2. ASSUME NEW kind \in Kinds
      PROVE  Filled(p)[kind] = NodesIn(height, root, kind) + p[kind].len
  <2> DEFINE n == NodesIn(height, root, kind)
             a == p[kind].len
             b == pool[kind].len
  <2>1. Filled(p)[kind] = live[kind] + a - b /\ live[kind] = n + b
    BY <1>1 DEF Filled, Tallied
  <2>2. n \in Nat
    BY WholeNodes
  <2>3. a \in Int /\ b \in Int
    BY GroupOf DEF PoolOk
  <2> HIDE DEF n, a, b
  <2>4. Filled(p)[kind] = n + a
    BY <2>1, <2>2, <2>3
  <2> QED
    BY <2>4 DEF n, a
<1> QED
  BY <1>1, <1>2 DEF Tallied

(* A filled pool is one, and is full enough when fill_pool says so. *)
LEMMA Filling ==
    ASSUME NEW mallocs \in Nat, PoolOk(pool), height \in Nat, NEW filled,
           filled = fill_pool(pool, height, mallocs)
    PROVE  /\ PoolOk(filled.pool)
           /\ filled.ok => filled.pool["leaves"].len >= 1 /\ filled.pool["branches"].len >= height

BY FillPoolOk

(* An insertion: the tree, the pool and the nodes alive stay as they should. *)
LEMMA SetKeeps ==
    ASSUME TreeInv, status = "ok", NEW item \in Item, NEW lean_left \in BOOLEAN, NEW mallocs \in Nat,
           btree_set_x(item, lean_left, mallocs)
    PROVE  NoPanic' /\ Kept(height', root', pool', live')
<1> DEFINE filled == fill_pool(pool, height, mallocs)
           q == filled.pool
           s == SetInto(item, lean_left, q)
<1>1. Whole(height, root) /\ PoolOk(pool) /\ Tallied(height, root, pool, live)
  BY DEF TreeInv, Kept
<1>2. height \in Nat
  BY <1>1, WholeParts
<1>3. /\ PoolOk(q)
      /\ filled.ok => q["leaves"].len >= 1 /\ q["branches"].len >= height
  <2> HIDE DEF filled
  <2>1. filled = fill_pool(pool, height, mallocs)
    BY DEF filled
  <2> QED
    BY <1>1, <1>2, <2>1, Filling
<1>4. Tallied(height, root, q, Filled(q))
  <2> HIDE DEF q
  <2> QED
    BY <1>1, <1>3, FilledTallied
<1>5. live' = Filled(q)
  BY DEF btree_set_x
<1>6. CASE ~filled.ok
  <2>1. pool' = q /\ status' = status /\ root' = root /\ height' = height
    BY <1>6 DEF btree_set_x
  <2> HIDE DEF q
  <2> QED
    BY <2>1, <1>1, <1>3, <1>4, <1>5 DEF Kept, NoPanic
<1>7. CASE filled.ok
  <2>1. /\ status' = IF Panics(s.pool) THEN "panic" ELSE "ok"
        /\ root' = s.node /\ pool' = s.pool /\ height' = height + s.grown
    BY <1>7 DEF btree_set_x
  <2>2. q["leaves"].len >= 1 /\ q["branches"].len >= height /\ q \in Pool
    BY <1>3, <1>7 DEF PoolOk
  <2> HIDE DEF q, filled
  <2>3. IsSetting(item, lean_left, q) /\ s = SetInto(item, lean_left, q)
    BY <2>2 DEF IsSetting
  <2>4. IsSetInto(height, root, q, s)
    <3> HIDE DEF s
    <3> QED
      BY <1>1, <1>3, <2>2, <2>3, SetIntoSized
  <2> HIDE DEF s
  <2>5. Whole(height', root')
    BY <2>1, <2>4 DEF IsSetInto
  <2>6. PoolOk(pool')
    BY <2>1, <2>4 DEF IsSetInto, PoolOk
  <2>7. ~Panics(s.pool)
    <3>1. \A kind \in Kinds : pool'[kind].len \in Int /\ 0 <= pool'[kind].len
      BY <2>6, GroupOf DEF PoolOk
    <3>2. pool'["leaves"].len \in Int /\ 0 <= pool'["leaves"].len
      BY <3>1 DEF Kinds
    <3>3. pool'["branches"].len \in Int /\ 0 <= pool'["branches"].len
      BY <3>1 DEF Kinds
    <3> QED
      BY <3>2, <3>3, <2>1 DEF Panics
  <2>8. NoPanic'
    BY <2>1, <2>7 DEF NoPanic
  <2>9. Tallied(height', root', pool', live')
    <3>1. \A kind \in Kinds : NodesIn(height', root', kind) + pool'[kind].len
                              = NodesIn(height, root, kind) + q[kind].len
      BY <2>1, <2>4 DEF IsSetInto
    <3>2. DOMAIN live' = Kinds /\ \A kind \in Kinds : live'[kind] = NodesIn(height, root, kind) + q[kind].len
      BY <1>4, <1>5 DEF Tallied
    <3> QED
      BY <3>1, <3>2 DEF Tallied
  <2> QED
    BY <2>5, <2>6, <2>8, <2>9 DEF Kept
<1> QED
  BY <1>6, <1>7

(* An item appended to the last leaf: it stays within the room there is. *)
LEMMA AppendKeeps ==
    ASSUME TreeInv, NEW item \in Item, load_appends(item)
    PROVE  TreeInv'
<1> DEFINE lo == 1
           t == AppendToLastLeaf(height, root, item)
<1>1. Whole(height, root) /\ PoolOk(pool) /\ Tallied(height, root, pool, live)
      /\ Loaded(height, root, litem) /\ NoPanic
  BY DEF TreeInv, Kept
<1>2. /\ litem # 0 /\ Len(LastLeaf[height][root].items) < MaxItems - 2
      /\ root' = t /\ status' = status /\ height' = height /\ pool' = pool /\ litem' = litem
      /\ live' = live
  BY DEF load_appends, LoadAppends, MayLoad
<1>3. height # 0
  <2>1. height = 0 => Len(LastLeaf[height][root].items) = 0
    BY <1>1, LastLength
  <2>2. litem \in 0 .. Len(LastLeaf[height][root].items)
    BY <1>1 DEF Loaded
  <2> QED
    BY <2>1, <2>2, <1>2
<1>4. height \in Nat /\ height >= 1 /\ root \in Good(height, 1, MaxItems - 2)
  BY <1>1, <1>3, WholeParts
<1>5. IsAppending(height, lo, root, item)
  <2>1. lo \in Int
    OBVIOUS
  <2>2. root \in Good(height, lo, MaxItems - 2)
    BY <1>4
  <2> HIDE DEF lo
  <2> QED
    BY <1>2, <1>4, <2>1, <2>2 DEF IsAppending
<1>6. IsAppended(height, lo, root, t)
  <2> HIDE DEF lo
  <2> QED
    BY <1>4, <1>5, AppendSized
<1> HIDE DEF t
<1>7. Whole(height', root')
  <2>1. t \in Good(height, 1, MaxItems - 2)
    BY <1>6 DEF IsAppended
  <2> QED
    BY <2>1, <1>2, <1>4 DEF Whole
<1>8. Tallied(height', root', pool', live')
  <2>1. \A kind \in Kinds : NodesIn(height', root', kind) = NodesIn(height, root, kind)
    BY <1>2, <1>6 DEF IsAppended
  <2>2. DOMAIN live = Kinds /\ \A kind \in Kinds : live[kind] = NodesIn(height, root, kind) + pool[kind].len
    BY <1>1 DEF Tallied
  <2> QED
    BY <2>1, <2>2, <1>2 DEF Tallied
<1>9. Loaded(height', root', litem')
  <2> DEFINE a == Len(LastLeaf[height][root].items)
             b == Len(LastLeaf[height'][root'].items)
  <2>1. b = a + 1
    BY <1>2, <1>6 DEF IsAppended
  <2>2. a \in Nat
    BY <1>1, LastLength
  <2>3. litem \in 0 .. a
    BY <1>1 DEF Loaded
  <2>4. Loaded(height', root', litem') <=> litem' \in 0 .. b
    BY DEF Loaded
  <2> HIDE DEF a, b
  <2> QED
    BY <2>1, <2>2, <2>3, <2>4, <1>2
<1> QED
  BY <1>1, <1>2, <1>7, <1>8, <1>9 DEF TreeInv, Kept, NoPanic

(* No position in a tree is remembered. *)
LEMMA NothingLoaded ==
    ASSUME NEW h, NEW tree, Whole(h, tree)
    PROVE  Loaded(h, tree, 0)

BY LastLength DEF Loaded

(* A deletion: a deletion call has the number of mallocs it may make. *)
LEMMA DeleteKeeps ==
    ASSUME TreeInv, NEW act \in DelAct, NEW key \in Key \cup {0}, NEW mallocs \in Nat,
           delete_x(act, key, mallocs)
    PROVE  TreeInv'
<1> DEFINE d == node_delete(height, root, act, key, pool, mallocs)
           e == ShrinkRoot(d)
           h2 == IF Shrinks(d) THEN height - 1 ELSE height
           lo == 1
           hi == MaxItems - 2
<1>1. Whole(height, root) /\ PoolOk(pool) /\ Tallied(height, root, pool, live) /\ NoPanic
  BY DEF TreeInv, Kept
<1>2. status' = status /\ litem' = 0
  BY DEF delete_x
<1>3. CASE root = NoTree \/ d.prev = NoItem
  <2>1. root' = root /\ height' = height /\ pool' = pool /\ live' = live
    BY <1>3 DEF delete_x
  <2>2. Loaded(height', root', litem')
    BY <1>1, <1>2, <2>1, NothingLoaded
  <2> QED
    BY <1>1, <1>2, <2>1, <2>2 DEF TreeInv, Kept, NoPanic
<1>4. CASE ~(root = NoTree \/ d.prev = NoItem)
  <2>1. /\ root' = e.node /\ pool' = e.pool /\ height' = h2
        /\ live' = [kind \in DOMAIN live |-> live[kind] - e.freed[kind]]
    BY <1>4 DEF delete_x
  <2>2. height \in Nat /\ height >= 1 /\ root \in Good(height, 1, MaxItems - 2)
    BY <1>1, <1>4, WholeParts
  <2>3. IsDeleting(key, pool, mallocs)
    BY <1>1 DEF IsDeleting
  <2>4. NodeDeletion(height, root, pool, d)
    BY <2>2, <2>3, NodeDeleted
  <2>5. d = node_delete(height, root, act, key, pool, mallocs)
    OBVIOUS
  <2> HIDE DEF d
  <2>6. /\ IsDeletion(d) /\ d.node \in Good(height, Len(root.items) - 1, Len(root.items))
        /\ \A kind \in Kinds : NodesIn(height, d.node, kind) + Held(d, kind)
                               = NodesIn(height, root, kind) + pool[kind].len
    BY <2>4, <1>4 DEF NodeDeletion
  <2>7. d.node \in Good(height, 0, MaxItems - 2)
    <3> DEFINE n == Len(root.items)
               a == n - 1
               zero == 0
    <3>1. lo \in Int /\ hi \in Int /\ root \in Good(height, lo, hi) /\ zero \in Int
      BY <2>2, MinItemsBound
    <3> HIDE DEF lo, hi
    <3>2. n \in lo .. hi /\ n \in Nat
      BY <3>1, <2>2, GoodParts
    <3>3. d.node \in Good(height, a, n)
      BY <2>6
    <3>4. zero <= a /\ n <= hi /\ a \in Int
      BY <3>1, <3>2 DEF lo
    <3> HIDE DEF a, n, zero
    <3>5. Good(height, a, n) \subseteq Good(height, zero, hi)
      BY <3>1, <3>2, <3>4, GoodWithin
    <3> QED
      BY <3>3, <3>5 DEF zero, hi
  <2>8. IsShrinking(height, d, h2, e)
    BY <2>2, <2>6, <2>7 DEF IsShrinking
  <2>9. ShrinksTo(height, d, h2, e)
    <3> HIDE DEF h2, e
    <3> QED
      BY <2>8, RootShrunk
  <2> HIDE DEF e, h2
  <2>10. Whole(height', root') /\ PoolOk(pool')
    BY <2>1, <2>9 DEF ShrinksTo, IsDeletion
  <2>11. Tallied(height', root', pool', live')
    <3>1. DOMAIN live = Kinds /\ \A kind \in Kinds : live[kind] = NodesIn(height, root, kind) + pool[kind].len
      BY <1>1 DEF Tallied
    <3>2. DOMAIN live' = Kinds
      BY <3>1, <2>1
    <3>3. ASSUME NEW kind \in Kinds
          PROVE  live'[kind] = NodesIn(height', root', kind) + pool'[kind].len
      <4> DEFINE x == NodesIn(height', root', kind)
                 y == pool'[kind].len
                 z == e.freed[kind]
                 u == NodesIn(height, d.node, kind)
                 v == Held(d, kind)
                 w == NodesIn(height, root, kind)
                 c == pool[kind].len
      <4>1. live'[kind] = live[kind] - z /\ live[kind] = w + c
        BY <2>1, <3>1
      <4>2. u + v = w + c
        BY <2>6
      <4>3. x + (y + z) = u + v
        BY <2>1, <2>9 DEF ShrinksTo, Held
      <4>4. x \in Nat /\ w \in Nat
        BY <1>1, <2>10, WholeNodes
      <4>5. y \in Int /\ c \in Int
        BY <1>1, <2>10, GroupOf DEF PoolOk
      <4>6. z \in Int
        BY <2>9 DEF ShrinksTo, IsDeletion, Freed, Kinds
      <4> HIDE DEF x, y, z, u, v, w, c
      <4>7. live'[kind] = x + y
        BY <4>1, <4>2, <4>3, <4>4, <4>5, <4>6
      <4> QED
        BY <4>7 DEF x, y
    <3> QED
      BY <3>2, <3>3 DEF Tallied
  <2>12. Loaded(height', root', litem')
    BY <1>2, <2>10, NothingLoaded
  <2> QED
    BY <1>1, <1>2, <2>10, <2>11, <2>12 DEF TreeInv, Kept, NoPanic
<1> QED
  BY <1>3, <1>4

(* Memory never holds more calls than a number. *)
LEMMA MallocsAreNat == \A mallocs \in Mallocs : mallocs \in Nat

BY TreeAssumption DEF Mallocs

(* There is no tree and no node at first, nor after btree_free. *)
LEMMA NothingKept ==
    ASSUME NEW alive, DOMAIN alive = Kinds, \A kind \in Kinds : alive[kind] = 0
    PROVE  Kept(0, NoTree, EmptyPool, alive) /\ Loaded(0, NoTree, 0)
<1>1. Whole(0, NoTree)
  BY DEF Whole
<1>2. PoolOk(EmptyPool) /\ \A kind \in Kinds : EmptyPool[kind].len = 0
  BY DEF PoolOk, EmptyPool, EmptyGroup, Pool, Group, Kinds
<1>3. \A kind \in Kinds : NodesIn(0, NoTree, kind) = 0
  BY <1>1, WholeParts
<1>4. Tallied(0, NoTree, EmptyPool, alive)
  BY <1>2, <1>3 DEF Tallied
<1> QED
  BY <1>1, <1>2, <1>4, NothingLoaded DEF Kept

(* btree_free. *)
LEMMA FreeKeeps ==
    ASSUME TreeInv, btree_free
    PROVE  TreeInv'
<1>1. Whole(height, root) /\ PoolOk(pool) /\ Tallied(height, root, pool, live)
  BY DEF TreeInv, Kept
<1>2. /\ status' = "freed" /\ root' = NoTree /\ pool' = EmptyPool /\ height' = 0 /\ litem' = 0
      /\ live' = [kind \in DOMAIN live |-> live[kind] - NodesIn(height, root, kind) - pool[kind].len]
  BY DEF btree_free, NodesIn
<1>3. DOMAIN live = Kinds /\ \A kind \in Kinds : live[kind] = NodesIn(height, root, kind) + pool[kind].len
  BY <1>1 DEF Tallied
<1>4. DOMAIN live' = Kinds
  BY <1>2, <1>3
<1>5. ASSUME NEW kind \in Kinds PROVE live'[kind] = 0
  <2> DEFINE n == NodesIn(height, root, kind)
             a == pool[kind].len
  <2>1. live'[kind] = live[kind] - n - a /\ live[kind] = n + a
    BY <1>2, <1>3
  <2>2. n \in Nat /\ a \in Int
    BY <1>1, WholeNodes, GroupOf DEF PoolOk
  <2> HIDE DEF n, a
  <2> QED
    BY <2>1, <2>2
<1>6. Kept(0, NoTree, EmptyPool, live') /\ Loaded(0, NoTree, 0)
  BY <1>4, <1>5, NothingKept
<1> QED
  BY <1>2, <1>6 DEF TreeInv, NoPanic

(* Every call keeps the tree, the pool and their tally. *)
LEMMA TreeInvKept == TreeInv /\ [Next]_vars => TreeInv'
<1> SUFFICES ASSUME TreeInv, [Next]_vars PROVE TreeInv'
  OBVIOUS
<1>1. ASSUME NEW item \in Item, NEW mallocs \in Mallocs, btree_set(item, mallocs) PROVE TreeInv'
  <2>1. status = "ok" /\ btree_set_x(item, FALSE, mallocs) /\ litem' = 0
    BY <1>1 DEF btree_set
  <2>2. NoPanic' /\ Kept(height', root', pool', live')
    BY <2>1, MallocsAreNat, SetKeeps
  <2>3. Loaded(height', root', litem')
    BY <2>1, <2>2, NothingLoaded DEF Kept
  <2> QED
    BY <2>2, <2>3 DEF TreeInv
<1>2. ASSUME NEW item \in Item, NEW mallocs \in Mallocs, load_sets(item, mallocs) PROVE TreeInv'
  <2>1. /\ status = "ok" /\ btree_set_x(item, TRUE, mallocs)
        /\ litem' = IF ret' # NoItem THEN 0 ELSE Len(LastLeaf[height'][root'].items)
    BY <1>2 DEF load_sets, MayLoad
  <2>2. NoPanic' /\ Kept(height', root', pool', live')
    BY <2>1, MallocsAreNat, SetKeeps
  <2>3. Loaded(height', root', litem')
    <3> DEFINE b == Len(LastLeaf[height'][root'].items)
    <3>1. b \in Nat
      BY <2>2, LastLength DEF Kept
    <3>2. Loaded(height', root', litem') <=> litem' \in 0 .. b
      BY DEF Loaded
    <3>3. litem' = 0 \/ litem' = b
      BY <2>1
    <3> HIDE DEF b
    <3> QED
      BY <3>1, <3>2, <3>3
  <2> QED
    BY <2>2, <2>3 DEF TreeInv
<1>3. ASSUME NEW item \in Item, NEW mallocs \in Mallocs, load_crashes(item, mallocs) PROVE TreeInv'
  BY <1>3 DEF load_crashes, TreeInv, NoPanic, Kept
<1>4. ASSUME NEW item \in Item, load_appends(item) PROVE TreeInv'
  BY <1>4, AppendKeeps
<1>5. ASSUME NEW key \in Key, NEW mallocs \in Mallocs, btree_delete(key, mallocs) PROVE TreeInv'
  BY <1>5, MallocsAreNat, DeleteKeeps DEF btree_delete, DelAct
<1>6. ASSUME NEW mallocs \in Mallocs, btree_pop_min(mallocs) PROVE TreeInv'
  BY <1>6, MallocsAreNat, DeleteKeeps DEF btree_pop_min, DelAct
<1>7. ASSUME NEW mallocs \in Mallocs, btree_pop_max(mallocs) PROVE TreeInv'
  BY <1>7, MallocsAreNat, DeleteKeeps DEF btree_pop_max, DelAct
<1>8. CASE btree_free
  BY <1>8, FreeKeeps
<1>9. CASE UNCHANGED vars
  BY <1>9 DEF vars, TreeInv, NoPanic, Kept
<1> QED
  BY <1>1, <1>2, <1>3, <1>4, <1>5, <1>6, <1>7, <1>8, <1>9 DEF Next

(* There is no tree at first. *)
LEMMA InitIsWhole == Init => TreeInv
<1> SUFFICES ASSUME Init PROVE TreeInv
  OBVIOUS
<1>1. DOMAIN live = Kinds /\ \A kind \in Kinds : live[kind] = 0
  BY DEF Init, Kinds
<1>2. Kept(0, NoTree, EmptyPool, live) /\ Loaded(0, NoTree, 0)
  BY <1>1, NothingKept
<1> QED
  BY <1>2 DEF Init, TreeInv, NoPanic

(* The inductive invariant: whatever is called, and whichever allocations fail, the tree is sound, the pool is one, and every node alive is in one of the two. *)
THEOREM TreeIsWhole == Spec => []TreeInv
  BY InitIsWhole, TreeInvKept, PTL DEF Spec

(* gimme_node never panics. *)
THEOREM PoolNeverRunsOut == Spec => []NeverOutOfNodes
<1>1. TreeInv => NeverOutOfNodes
  BY DEF TreeInv, NoPanic, NeverOutOfNodes
<1> QED
  BY <1>1, TreeIsWhole, PTL

(* No node leaks. *)
THEOREM NodesAreKept == Spec => []NoNodeLeaks
<1>1. TreeInv => NoNodeLeaks
  <2> SUFFICES ASSUME TreeInv PROVE NoNodeLeaks
    OBVIOUS
  <2>1. PoolOk(pool) /\ Tallied(height, root, pool, live)
    BY DEF TreeInv, Kept
  <2> QED
    BY <2>1 DEF PoolOk, Tallied, NoNodeLeaks, NodesIn
<1> QED
  BY <1>1, TreeIsWhole, PTL

Roomy(node) == node.items \in Seq(Item) /\ Len(node.items) <= MaxItems - 2

WellFilled(node) == Roomy(node) /\ Len(node.items) >= MinItems

(* Every node of a subtree has as many items as it should. *)
LEMMA NodesOfSub ==
    ASSUME NEW h \in Nat
    PROVE  \A node \in Sub[h] : \A x \in Nodes[h][node] : WellFilled(x)
<1> DEFINE T(k) == \A node \in Sub[k] : \A x \in Nodes[k][node] : WellFilled(x)
           S == {k \in Nat : T(k)}
           lo == MinItems
           hi == MaxItems - 2
<1>0. lo \in Int /\ hi \in Int
  BY MinItemsBound
<1>1. 0 \in S
  BY SubIsGood
<1>2. ASSUME NEW k \in S PROVE k + 1 \in S
  <2> DEFINE n == k + 1
  <2>0. n \in Nat /\ n >= 1 /\ n - 1 = k
    OBVIOUS
  <2>1. T(k)
    OBVIOUS
  <2> HIDE DEF T, n, S
  <2>2. T(n)
    <3> SUFFICES ASSUME NEW node \in Sub[n], NEW x \in Nodes[n][node] PROVE WellFilled(x)
      BY DEF T
    <3>1. node \in Good(n, lo, hi)
      BY <2>0, SubIsGood
    <3> HIDE DEF lo, hi
    <3>2. /\ node \in Tree[n] /\ Len(node.items) \in lo .. hi /\ node.items \in Seq(Item)
          /\ node.children \in Seq(Sub[n - 1])
      BY <1>0, <2>0, <3>1, GoodParts
    <3>3. x = node \/ \E child \in ToSet(node.children) : x \in Nodes[k][child]
      BY <2>0, <3>2, NodesIs DEF NodesAt
    <3>4. WellFilled(node)
      BY <1>0, <3>2 DEF WellFilled, Roomy, lo, hi
    <3>5. \A child \in ToSet(node.children) : child \in Sub[k]
      BY <2>0, <3>2 DEF ToSet
    <3> QED
      BY <3>3, <3>4, <3>5, <2>1 DEF T
  <2> QED
    BY <2>0, <2>2 DEF S, n, T
<1> HIDE DEF S
<1>3. \A k \in Nat : k \in S
  BY <1>1, <1>2, SetInduction
<1> QED
  BY <1>3 DEF S

(* btree_sane's properties. *)
THEOREM TreeIsSane == Spec => []SaneProps
<1>1. TreeInv => SaneProps
  <2> SUFFICES ASSUME TreeInv PROVE SaneProps
    OBVIOUS
  <2>1. Whole(height, root)
    BY DEF TreeInv, Kept
  <2>2. height \in Nat /\ root \in Tree[height] /\ (root = NoTree <=> height = 0)
    BY <2>1, WholeParts
  <2>3. \A x \in Nodes[height][root] :
            x = root \/ \E child \in ToSet(root.children) : x \in Nodes[height - 1][child]
    BY <2>2, NodesIs DEF NodesAt
  <2>4. CASE height = 0
    <3>1. root.items = <<>> /\ ToSet(root.children) = {}
      BY <2>2, <2>4 DEF NoTree, ToSet
    <3>2. Len(root.items) = 0
      BY <3>1
    <3>3. MaxItems - 2 \in Nat
      BY MinItemsBound
    <3> QED
      BY <2>2, <2>3, <2>4, <3>1, <3>2, <3>3 DEF SaneProps
  <2>5. CASE height # 0
    <3> DEFINE lo == 1
               hi == MaxItems - 2
               k == height - 1
    <3>1. height >= 1 /\ root \in Good(height, lo, hi) /\ k \in Nat
      BY <2>1, <2>2, <2>5, WholeParts
    <3>2. lo \in Int /\ hi \in Int
      BY MinItemsBound
    <3> HIDE DEF lo, hi
    <3>3. Len(root.items) \in lo .. hi /\ root.items \in Seq(Item) /\ root.children \in Seq(Sub[height - 1])
      BY <2>2, <3>1, <3>2, GoodParts
    <3>4. \A child \in ToSet(root.children) : child \in Sub[k]
      BY <3>3 DEF ToSet
    <3>5. \A x \in Nodes[height][root] : x = root \/ WellFilled(x)
      BY <2>3, <3>1, <3>4, NodesOfSub
    <3>6. Len(root.items) >= 1 /\ Len(root.items) <= MaxItems - 2
      BY <3>2, <3>3 DEF lo, hi
    <3> QED
      BY <3>5, <3>6 DEF SaneProps, WellFilled, Roomy
  <2> QED
    BY <2>4, <2>5
<1> QED
  BY <1>1, TreeIsWhole, PTL

-----------------------------------------------------------------------------
(* What is woven.                                                            *)

\* Items and the parts before, between and after them.
Fits(items, parts) ==
    items \in Seq(Item) /\ parts \in Seq(Seq(Item)) /\ Len(parts) = Len(items) + 1

\* Each item behind a part, and each before one.
AfterParts(X, A)  == Woven(X, Append(A, <<>>))

BeforeParts(Y, B) == Woven(Y, <<<<>>>> \o B)

(* The length of two sequences. *)
LEMMA LengthsAdd ==
    ASSUME NEW T, NEW a \in Seq(T), NEW b \in Seq(T)
    PROVE  a \o b \in Seq(T) /\ Len(a \o b) = Len(a) + Len(b)
  BY ConcatElements, Zenon

(* A sequence behind another one, an element at a time. *)
LEMMA ConcatAppended ==
    ASSUME NEW T, NEW a \in Seq(T), NEW b \in Seq(T), NEW x \in T
    PROVE  a \o Append(b, x) = Append(a \o b, x)
  OBVIOUS

\* Two walks, one after the other.
Cat(a, b) == a \o b

(* Two walks behind one another are a walk. *)
LEMMA CatIn ==
    ASSUME NEW a \in Seq(Item), NEW b \in Seq(Item)
    PROVE  Cat(a, b) \in Seq(Item)
  BY DEF Cat

(* It does not matter which two are put together first. *)
LEMMA CatAssoc ==
    ASSUME NEW a \in Seq(Item), NEW b \in Seq(Item), NEW c \in Seq(Item)
    PROVE  Cat(Cat(a, b), c) = Cat(a, Cat(b, c))
  BY DEF Cat

(* A walk behind or before nothing is itself. *)
LEMMA CatNone ==
    ASSUME NEW a \in Seq(Item)
    PROVE  Cat(a, <<>>) = a /\ Cat(<<>>, a) = a
  BY ConcatWithNone DEF Cat

(* Four may be put together in any order, too. *)
LEMMA CatFour ==
    ASSUME NEW a \in Seq(Item), NEW b \in Seq(Item), NEW c \in Seq(Item), NEW d \in Seq(Item)
    PROVE  Cat(Cat(Cat(a, b), c), d) = Cat(a, Cat(Cat(b, c), d))
  BY CatAssoc, CatIn

(* Weaving makes a sequence of items. *)
LEMMA WovenIsSeq ==
    ASSUME NEW items, NEW parts, Fits(items, parts)
    PROVE  Woven(items, parts) \in Seq(Item)
<1>0. items \in Seq(Item) /\ parts \in Seq(Seq(Item)) /\ Len(parts) = Len(items) + 1
  BY DEF Fits
<1>1. CASE items = <<>>
  <2>1. Len(parts) = 1
    BY <1>0, <1>1
  <2>2. parts = <<parts[1]>> /\ parts[1] \in Seq(Item)
    BY <1>0, <2>1, OnlyElement
  <2> QED
    BY <1>1, <2>2, WovenFromNone
<1>2. CASE items # <<>>
  <2>1. Last(items) \in Item
    BY <1>0, <1>2, FrontAndLast
  <2> DEFINE none == <<>>
  <2>2. none \in Seq(Item)
    OBVIOUS
  <2> HIDE DEF none
  <2> QED
    BY <1>0, <2>1, <2>2, WovenWithAppended
<1> QED
  BY <1>1, <1>2

(* One item more, and the part after it. *)
LEMMA WovenMore ==
    ASSUME NEW items, NEW parts, Fits(items, parts), NEW x \in Item, NEW p \in Seq(Item)
    PROVE  /\ Fits(Append(items, x), Append(parts, p))
           /\ Woven(Append(items, x), Append(parts, p)) = Cat(Cat(Woven(items, parts), <<x>>), p)
           /\ Woven(items, parts) \in Seq(Item)
<1>0. items \in Seq(Item) /\ parts \in Seq(Seq(Item)) /\ Len(parts) = Len(items) + 1
  BY DEF Fits
<1>1. /\ Append(items, x) \in Seq(Item) /\ Append(parts, p) \in Seq(Seq(Item))
      /\ Len(Append(parts, p)) = Len(Append(items, x)) + 1
  BY <1>0
<1>2. Woven(Append(items, x), Append(parts, p)) = Woven(items, parts) \o <<x>> \o p
  BY <1>0, WovenWithAppended
<1> QED
  BY <1>1, <1>2, WovenIsSeq DEF Fits, Cat

IsMore(items, parts, X, A, x, p) ==
    /\ Fits(X, A) /\ x \in Item /\ p \in Seq(Item)
    /\ items = Append(X, x) /\ parts = Append(A, p)

(* The last item of what fits, and the part after it. *)
LEMMA FitsMore ==
    ASSUME NEW items, NEW parts, Fits(items, parts), items # <<>>
    PROVE  \E X, A, x, p : IsMore(items, parts, X, A, x, p)
<1>0. items \in Seq(Item) /\ parts \in Seq(Seq(Item)) /\ Len(parts) = Len(items) + 1
  BY DEF Fits
<1>1. /\ Front(items) \in Seq(Item) /\ Last(items) \in Item /\ items = Append(Front(items), Last(items))
      /\ Len(items) = Len(Front(items)) + 1
  BY <1>0, FrontAndLast
<1>2. parts # <<>>
  BY <1>0
<1>3. /\ Front(parts) \in Seq(Seq(Item)) /\ Last(parts) \in Seq(Item)
      /\ parts = Append(Front(parts), Last(parts)) /\ Len(parts) = Len(Front(parts)) + 1
  BY <1>0, <1>2, FrontAndLast
<1>4. Len(Front(parts)) \in Nat /\ Len(Front(items)) \in Nat
  BY <1>1, <1>3
<1>5. Len(Front(parts)) = Len(Front(items)) + 1
  BY <1>0, <1>1, <1>3, <1>4
<1>6. Fits(Front(items), Front(parts))
  BY <1>1, <1>3, <1>5 DEF Fits
<1>7. IsMore(items, parts, Front(items), Front(parts), Last(items), Last(parts))
  BY <1>1, <1>3, <1>6 DEF IsMore
<1> QED
  BY <1>7

\* The same number of items and parts.
Pairs(Y, B) == Y \in Seq(Item) /\ B \in Seq(Seq(Item)) /\ Len(B) = Len(Y)

AreMore(Y, B, X, A, x, p) ==
    /\ Pairs(X, A) /\ x \in Item /\ p \in Seq(Item)
    /\ Y = Append(X, x) /\ B = Append(A, p)
    /\ Len(Y) = Len(X) + 1 /\ Len(X) \in Nat

(* The last of them. *)
LEMMA PairsMore ==
    ASSUME NEW Y, NEW B, Pairs(Y, B), Y # <<>>
    PROVE  \E X, A, x, p : AreMore(Y, B, X, A, x, p)
<1>0. Y \in Seq(Item) /\ B \in Seq(Seq(Item)) /\ Len(B) = Len(Y)
  BY DEF Pairs
<1>1. /\ Front(Y) \in Seq(Item) /\ Last(Y) \in Item /\ Y = Append(Front(Y), Last(Y))
      /\ Len(Y) = Len(Front(Y)) + 1
  BY <1>0, FrontAndLast
<1>2. B # <<>>
  BY <1>0, <1>1
<1>3. /\ Front(B) \in Seq(Seq(Item)) /\ Last(B) \in Seq(Item)
      /\ B = Append(Front(B), Last(B)) /\ Len(B) = Len(Front(B)) + 1
  BY <1>0, <1>2, FrontAndLast
<1>4. Len(Front(B)) \in Nat /\ Len(Front(Y)) \in Nat
  BY <1>1, <1>3
<1>5. Len(Front(B)) = Len(Front(Y))
  BY <1>0, <1>1, <1>3, <1>4
<1>6. Pairs(Front(Y), Front(B))
  BY <1>1, <1>3, <1>5 DEF Pairs
<1>7. AreMore(Y, B, Front(Y), Front(B), Last(Y), Last(B))
  BY <1>1, <1>3, <1>4, <1>6 DEF AreMore
<1> QED
  BY <1>7

(* Items and parts put together fit. *)
LEMMA FitsConcat ==
    ASSUME NEW M, NEW C, Fits(M, C), NEW Y, NEW B, Pairs(Y, B)
    PROVE  Fits(M \o Y, C \o B)
<1>1. /\ M \in Seq(Item) /\ C \in Seq(Seq(Item)) /\ Len(C) = Len(M) + 1
      /\ Y \in Seq(Item) /\ B \in Seq(Seq(Item)) /\ Len(B) = Len(Y)
  BY DEF Fits, Pairs
<1>2. M \o Y \in Seq(Item) /\ Len(M \o Y) = Len(M) + Len(Y) /\ Len(M) \in Nat /\ Len(Y) \in Nat
  BY <1>1
<1>3. C \o B \in Seq(Seq(Item)) /\ Len(C \o B) = Len(C) + Len(B)
  BY <1>1, LengthsAdd
<1> QED
  BY <1>1, <1>2, <1>3 DEF Fits

(* Nothing before the first part fits. *)
LEMMA FitsBehind ==
    ASSUME NEW Y, NEW B, Pairs(Y, B)
    PROVE  Fits(Y, <<<<>>>> \o B)
<1> DEFINE first == <<<<>>>>
<1>1. Y \in Seq(Item) /\ B \in Seq(Seq(Item)) /\ Len(B) = Len(Y)
  BY DEF Pairs
<1>2. first \in Seq(Seq(Item)) /\ Len(first) = 1
  OBVIOUS
<1> HIDE DEF first
<1>3. first \o B \in Seq(Seq(Item)) /\ Len(first \o B) = Len(first) + Len(B)
  BY <1>1, <1>2, LengthsAdd
<1>4. Len(first \o B) = Len(Y) + 1
  <2>1. Len(B) \in Nat
    BY <1>1
  <2> QED
    BY <1>1, <1>2, <1>3, <2>1
<1>5. Fits(Y, first \o B)
  BY <1>1, <1>3, <1>4 DEF Fits
<1> QED
  BY <1>5 DEF first

(* What is behind a part woven, and what follows. *)
LEMMA BeforeMore ==
    ASSUME NEW Y, NEW B, Pairs(Y, B), NEW y \in Item, NEW b \in Seq(Item)
    PROVE  /\ BeforeParts(Append(Y, y), Append(B, b)) = Cat(Cat(BeforeParts(Y, B), <<y>>), b)
           /\ BeforeParts(Y, B) \in Seq(Item)
<1> DEFINE first == <<<<>>>>
<1>1. Fits(Y, first \o B)
  BY FitsBehind
<1>2. first \in Seq(Seq(Item)) /\ B \in Seq(Seq(Item))
  BY DEF Pairs
<1> HIDE DEF first
<1>3. first \o Append(B, b) = Append(first \o B, b)
  BY <1>2, ConcatAppended
<1>4. Woven(Append(Y, y), Append(first \o B, b)) = Cat(Cat(Woven(Y, first \o B), <<y>>), b)
  BY <1>1, WovenMore
<1>5. Woven(Y, first \o B) \in Seq(Item)
  BY <1>1, WovenIsSeq
<1> QED
  BY <1>3, <1>4, <1>5 DEF BeforeParts, first

\* The items and parts behind what is woven, so many of them.
WeavesOn(M, C, V, D) == Woven(M \o V, C \o D) = Cat(Woven(M, C), BeforeParts(V, D))

WeavesOnAll(M, C, n) == \A V, D : Pairs(V, D) /\ Len(V) = n => WeavesOn(M, C, V, D)

(* None of them. *)
LEMMA WeavesOnNone ==
    ASSUME NEW M, NEW C, Fits(M, C)
    PROVE  WeavesOnAll(M, C, 0)
<1>0. M \in Seq(Item) /\ C \in Seq(Seq(Item)) /\ Woven(M, C) \in Seq(Item)
  BY WovenIsSeq DEF Fits
<1>1. ASSUME NEW V, NEW D, Pairs(V, D), Len(V) = 0
      PROVE  WeavesOn(M, C, V, D)
  <2>1. V = <<>> /\ D = <<>>
    BY <1>1 DEF Pairs
  <2>2. M \o <<>> = M /\ C \o <<>> = C
    BY <1>0, ConcatWithNone
  <2>3. BeforeParts(<<>>, <<>>) = <<>>
    <3> DEFINE none == <<>>
    <3>1. none \in Seq(Item) /\ <<none>> \o <<>> = <<none>>
      OBVIOUS
    <3> HIDE DEF none
    <3>2. Woven(<<>>, <<none>>) = none
      BY <3>1, WovenFromNone
    <3> QED
      BY <3>1, <3>2 DEF BeforeParts, none
  <2>4. Cat(Woven(M, C), <<>>) = Woven(M, C)
    BY <1>0, CatNone
  <2> QED
    BY <2>1, <2>2, <2>3, <2>4 DEF WeavesOn
<1> QED
  BY <1>1 DEF WeavesOnAll

(* One more of them. *)
LEMMA WeavesOnMore ==
    ASSUME NEW M, NEW C, Fits(M, C), NEW X, NEW A, Pairs(X, A), WeavesOn(M, C, X, A),
           NEW x \in Item, NEW p \in Seq(Item)
    PROVE  WeavesOn(M, C, Append(X, x), Append(A, p))
<1>0. M \in Seq(Item) /\ C \in Seq(Seq(Item)) /\ Woven(M, C) \in Seq(Item)
  BY WovenIsSeq DEF Fits
<1>1. X \in Seq(Item) /\ A \in Seq(Seq(Item))
  BY DEF Pairs
<1>2. M \o Append(X, x) = Append(M \o X, x)
  BY <1>0, <1>1, ConcatAppended
<1>3. C \o Append(A, p) = Append(C \o A, p)
  BY <1>0, <1>1, ConcatAppended
<1>4. Fits(M \o X, C \o A)
  BY FitsConcat
<1> DEFINE wov == Woven(M, C)
           bef == BeforeParts(X, A)
           one == <<x>>
           xs  == Append(X, x)
           as  == Append(A, p)
<1>5. Woven(Append(M \o X, x), Append(C \o A, p)) = Cat(Cat(Woven(M \o X, C \o A), one), p)
  BY <1>4, WovenMore
<1>6. Woven(M \o xs, C \o as) = Cat(Cat(Woven(M \o X, C \o A), one), p)
  BY <1>2, <1>3, <1>5
<1>7. BeforeParts(xs, as) = Cat(Cat(bef, one), p) /\ bef \in Seq(Item)
  BY BeforeMore
<1>8. Woven(M \o X, C \o A) = Cat(wov, bef)
  BY DEF WeavesOn
<1>9. wov \in Seq(Item) /\ one \in Seq(Item)
  BY <1>0
<1> HIDE DEF wov, bef, one, xs, as
<1>10. Cat(Cat(Cat(wov, bef), one), p) = Cat(wov, Cat(Cat(bef, one), p))
  BY <1>7, <1>9, CatFour
<1>11. Woven(M \o xs, C \o as) = Cat(wov, BeforeParts(xs, as))
  BY <1>6, <1>7, <1>8, <1>10
<1> QED
  BY <1>11 DEF wov, xs, as, WeavesOn

(* The items and parts behind what is woven. *)
LEMMA WovenRight ==
    ASSUME NEW M, NEW C, Fits(M, C), NEW Y, NEW B, Pairs(Y, B)
    PROVE  WeavesOn(M, C, Y, B)
<1> DEFINE S == {n \in Nat : WeavesOnAll(M, C, n)}
<1>1. 0 \in S
  BY WeavesOnNone
<1>2. ASSUME NEW n \in Nat, WeavesOnAll(M, C, n) PROVE WeavesOnAll(M, C, n + 1)
  <2>1. ASSUME NEW V, NEW D, Pairs(V, D), Len(V) = n + 1
        PROVE  WeavesOn(M, C, V, D)
    <3>1. V # <<>>
      BY <2>1
    <3>0. PICK X, A, x, p : AreMore(V, D, X, A, x, p)
      BY <2>1, <3>1, PairsMore
    <3>2. /\ Pairs(X, A) /\ x \in Item /\ p \in Seq(Item)
          /\ V = Append(X, x) /\ D = Append(A, p)
          /\ Len(V) = Len(X) + 1 /\ Len(X) \in Nat
      BY <3>0 DEF AreMore
    <3>3. Len(X) = n
      BY <2>1, <3>2
    <3>4. WeavesOn(M, C, X, A)
      BY <1>2, <3>2, <3>3 DEF WeavesOnAll
    <3> QED
      BY <3>2, <3>4, WeavesOnMore
  <2> QED
    BY <2>1 DEF WeavesOnAll
<1>3. \A n \in Nat : n \in S
  <2>1. \A n \in Nat : n \in S => n + 1 \in S
    BY <1>2
  <2> HIDE DEF S
  <2> QED
    BY <1>1, <2>1, SetInduction
<1>4. Len(Y) \in Nat /\ WeavesOnAll(M, C, Len(Y))
  BY <1>3 DEF Pairs
<1> QED
  BY <1>4 DEF WeavesOnAll

(* What is woven of nothing and one part. *)
LEMMA NothingWoven ==
    Fits(<<>>, <<<<>>>>) /\ Woven(<<>>, <<<<>>>>) = <<>> /\ <<>> \in Seq(Item)
<1> DEFINE none == <<>>
           part == <<none>>
<1>1. none \in Seq(Item) /\ part \in Seq(Seq(Item)) /\ Len(none) = 0 /\ Len(part) = 1
  OBVIOUS
<1>2. Woven(<<>>, <<none>>) = none
  <2> HIDE DEF none
  <2> QED
    BY <1>1, WovenFromNone
<1> HIDE DEF none, part
<1>3. Fits(none, part)
  BY <1>1 DEF Fits
<1> QED
  BY <1>1, <1>2, <1>3 DEF none, part

(* Items each behind a part end with the last item. *)
LEMMA AfterIs ==
    ASSUME NEW X \in Seq(Item), NEW x \in Item, NEW A, Pairs(Append(X, x), A)
    PROVE  /\ Fits(X, A) /\ Woven(X, A) \in Seq(Item)
           /\ AfterParts(Append(X, x), A) = Cat(Woven(X, A), <<x>>)
<1>1. Append(X, x) \in Seq(Item) /\ Len(Append(X, x)) = Len(X) + 1
  BY ConcatAppended
<1>2. A \in Seq(Seq(Item)) /\ Len(A) = Len(X) + 1
  BY <1>1 DEF Pairs
<1>3. Fits(X, A)
  BY <1>2 DEF Fits
<1>4. Woven(X, A) \in Seq(Item)
  BY <1>3, WovenIsSeq
<1> DEFINE none == <<>>
           wov  == Woven(X, A)
           one  == <<x>>
           xs   == Append(X, x)
<1>5. none \in Seq(Item) /\ one \in Seq(Item)
  OBVIOUS
<1>6. Cat(Cat(wov, one), none) = Cat(wov, one)
  <2> HIDE DEF wov, one
  <2>1. Cat(wov, one) \in Seq(Item)
    BY <1>4, <1>5, CatIn DEF wov
  <2> QED
    BY <2>1, CatNone DEF none
<1>7. Woven(xs, Append(A, none)) = Cat(Cat(wov, one), none)
  <2> HIDE DEF none
  <2> QED
    BY <1>3, <1>5, WovenMore
<1>8. AfterParts(xs, A) = Cat(wov, one)
  <2> HIDE DEF wov, one, xs
  <2> QED
    BY <1>6, <1>7 DEF AfterParts, none
<1> QED
  BY <1>3, <1>4, <1>8

\* The items and parts before what is woven.
WeavesIn(X, A, M, C) == Woven(X \o M, A \o C) = Cat(AfterParts(X, A), Woven(M, C))

WeavesInAll(X, A, n) == \A M, C : Fits(M, C) /\ Len(M) = n => WeavesIn(X, A, M, C)

(* Before one part. *)
LEMMA WeavesInOne ==
    ASSUME NEW X, NEW A, Pairs(X, A), NEW c \in Seq(Item)
    PROVE  /\ Woven(X, Append(A, c)) = Cat(AfterParts(X, A), c)
           /\ AfterParts(X, A) \in Seq(Item)
<1>1. CASE X = <<>>
  <2>1. A = <<>>
    BY <1>1 DEF Pairs
  <2>2. Append(A, c) = <<c>> /\ Append(A, <<>>) = <<<<>>>>
    BY <2>1
  <2>3. AfterParts(X, A) = <<>> /\ <<>> \in Seq(Item)
    BY <1>1, <2>2, NothingWoven DEF AfterParts
  <2>4. Woven(X, Append(A, c)) = c
    BY <1>1, <2>2, WovenFromNone
  <2> QED
    BY <2>3, <2>4, CatNone
<1>2. CASE X # <<>>
  <2>1. PICK V, D, x, p : AreMore(X, A, V, D, x, p)
    BY <1>2, PairsMore
  <2>2. x \in Item /\ X = Append(V, x)
    BY <2>1 DEF AreMore
  <2>3. V \in Seq(Item)
    BY <2>1 DEF AreMore, Pairs
  <2>4. Pairs(Append(V, x), A)
    BY <2>2
  <2>5. Fits(V, A) /\ Woven(V, A) \in Seq(Item) /\ AfterParts(Append(V, x), A) = Cat(Woven(V, A), <<x>>)
    BY <2>2, <2>3, <2>4, AfterIs
  <2>6. Woven(Append(V, x), Append(A, c)) = Cat(Cat(Woven(V, A), <<x>>), c)
    BY <2>2, <2>5, WovenMore
  <2>7. <<x>> \in Seq(Item)
    BY <2>2
  <2>8. Cat(Woven(V, A), <<x>>) \in Seq(Item)
    BY <2>5, <2>7, CatIn
  <2> QED
    BY <2>2, <2>5, <2>6, <2>8
<1> QED
  BY <1>1, <1>2

(* In front of no items. *)
LEMMA WeavesInNone ==
    ASSUME NEW X, NEW A, Pairs(X, A)
    PROVE  WeavesInAll(X, A, 0)
<1>0. X \in Seq(Item) /\ A \in Seq(Seq(Item))
  BY DEF Pairs
<1>1. ASSUME NEW M, NEW C, Fits(M, C), Len(M) = 0
      PROVE  WeavesIn(X, A, M, C)
  <2>1. M = <<>> /\ C \in Seq(Seq(Item)) /\ Len(C) = 1
    BY <1>1 DEF Fits
  <2>2. C = <<C[1]>> /\ C[1] \in Seq(Item)
    BY <2>1, OnlyElement
  <2> DEFINE c == C[1]
  <2>3. c \in Seq(Item) /\ C = <<c>>
    BY <2>2
  <2> HIDE DEF c
  <2>4. X \o M = X
    BY <1>0, <2>1, ConcatWithNone
  <2>5. A \o <<c>> = Append(A, c)
    BY <1>0, <2>3, AppendIs
  <2>6. Woven(M, C) = c
    BY <2>1, <2>3, WovenFromNone
  <2>7. Woven(X, Append(A, c)) = Cat(AfterParts(X, A), c)
    BY <2>3, WeavesInOne
  <2>8. Woven(X \o M, A \o C) = Woven(X, Append(A, c))
    BY <2>3, <2>4, <2>5
  <2> QED
    BY <2>6, <2>7, <2>8 DEF WeavesIn
<1> QED
  BY <1>1 DEF WeavesInAll

(* Before one item more. *)
LEMMA WeavesInMore ==
    ASSUME NEW X, NEW A, Pairs(X, A), NEW M, NEW C, Fits(M, C), WeavesIn(X, A, M, C),
           NEW m \in Item, NEW p \in Seq(Item)
    PROVE  WeavesIn(X, A, Append(M, m), Append(C, p))
<1>0. X \in Seq(Item) /\ A \in Seq(Seq(Item)) /\ M \in Seq(Item) /\ C \in Seq(Seq(Item))
      /\ Len(A) = Len(X) /\ Len(C) = Len(M) + 1
  BY DEF Pairs, Fits
<1>1. Fits(X \o M, A \o C)
  <2>1. X \o M \in Seq(Item) /\ Len(X \o M) = Len(X) + Len(M)
    BY <1>0, LengthsAdd
  <2>2. A \o C \in Seq(Seq(Item)) /\ Len(A \o C) = Len(A) + Len(C)
    BY <1>0, LengthsAdd
  <2>3. Len(A \o C) = Len(X \o M) + 1
    <3>1. Len(X) \in Nat /\ Len(M) \in Nat
      BY <1>0
    <3> QED
      BY <1>0, <2>1, <2>2, <3>1
  <2> QED
    BY <2>1, <2>2, <2>3 DEF Fits
<1>2. X \o Append(M, m) = Append(X \o M, m)
  BY <1>0, ConcatAppended
<1>3. A \o Append(C, p) = Append(A \o C, p)
  BY <1>0, ConcatAppended
<1> DEFINE wov == Woven(M, C)
           aft == AfterParts(X, A)
           one == <<m>>
           ms  == Append(M, m)
           ps  == Append(C, p)
<1>4. Woven(Append(X \o M, m), Append(A \o C, p)) = Cat(Cat(Woven(X \o M, A \o C), one), p)
  BY <1>1, WovenMore
<1>5. Woven(X \o ms, A \o ps) = Cat(Cat(Woven(X \o M, A \o C), one), p)
  BY <1>2, <1>3, <1>4
<1>6. Woven(ms, ps) = Cat(Cat(wov, one), p) /\ wov \in Seq(Item)
  BY WovenMore
<1>7. Woven(X \o M, A \o C) = Cat(aft, wov)
  BY DEF WeavesIn
<1>8. aft \in Seq(Item)
  BY <1>6, WeavesInOne
<1>9. one \in Seq(Item)
  OBVIOUS
<1> HIDE DEF wov, aft, one, ms, ps
<1>10. Cat(Cat(Cat(aft, wov), one), p) = Cat(aft, Cat(Cat(wov, one), p))
  BY <1>6, <1>8, <1>9, CatFour
<1>11. Woven(X \o ms, A \o ps) = Cat(aft, Woven(ms, ps))
  BY <1>5, <1>6, <1>7, <1>10
<1> QED
  BY <1>11 DEF aft, ms, ps, WeavesIn

(* The items and parts before what is woven. *)
LEMMA WovenLeft ==
    ASSUME NEW X, NEW A, Pairs(X, A), NEW M, NEW C, Fits(M, C)
    PROVE  WeavesIn(X, A, M, C)
<1> DEFINE S == {n \in Nat : WeavesInAll(X, A, n)}
<1>1. 0 \in S
  BY WeavesInNone
<1>2. ASSUME NEW n \in Nat, WeavesInAll(X, A, n) PROVE WeavesInAll(X, A, n + 1)
  <2>1. ASSUME NEW V, NEW D, Fits(V, D), Len(V) = n + 1
        PROVE  WeavesIn(X, A, V, D)
    <3>1. V # <<>>
      BY <2>1
    <3>2. PICK I, E, x, p : IsMore(V, D, I, E, x, p)
      BY <2>1, <3>1, FitsMore
    <3>3. /\ Fits(I, E) /\ x \in Item /\ p \in Seq(Item) /\ V = Append(I, x) /\ D = Append(E, p)
      BY <3>2 DEF IsMore
    <3>4. I \in Seq(Item)
      BY <3>3 DEF Fits
    <3>5. Len(V) = Len(I) + 1 /\ Len(I) \in Nat
      BY <3>3, <3>4
    <3>6. Len(I) = n
      BY <2>1, <3>5
    <3>7. WeavesIn(X, A, I, E)
      BY <1>2, <3>3, <3>6 DEF WeavesInAll
    <3> QED
      BY <3>3, <3>7, WeavesInMore
  <2> QED
    BY <2>1 DEF WeavesInAll
<1>3. \A n \in Nat : n \in S
  <2>1. \A n \in Nat : n \in S => n + 1 \in S
    BY <1>2
  <2> HIDE DEF S
  <2> QED
    BY <1>1, <2>1, SetInduction
<1>4. Len(M) \in Nat /\ WeavesInAll(X, A, Len(M))
  BY <1>3 DEF Fits
<1> QED
  BY <1>4 DEF WeavesInAll

(* Items each before a part begin with the first item. *)
LEMMA BeforeIs ==
    ASSUME NEW y \in Item, NEW Y, NEW B, Fits(Y, B)
    PROVE  BeforeParts(<<y>> \o Y, B) = Cat(<<y>>, Woven(Y, B))
<1> DEFINE none == <<>>
           part == <<none>>
           one  == <<y>>
<1>1. none \in Seq(Item) /\ part \in Seq(Seq(Item)) /\ one \in Seq(Item) /\ Len(one) = Len(part)
      /\ one = Append(none, y)
  OBVIOUS
<1>2. Woven(none, part) = none
  BY NothingWoven
<1> HIDE DEF none, part, one
<1>3. Pairs(one, part)
  BY <1>1 DEF Pairs
<1>4. AfterParts(one, part) = Cat(Woven(none, part), one)
  BY <1>1, <1>3, AfterIs DEF one
<1>5. Cat(none, one) = one
  BY <1>1, CatNone DEF none
<1>6. WeavesIn(one, part, Y, B)
  BY <1>3, WovenLeft
<1>7. Woven(one \o Y, part \o B) = Cat(one, Woven(Y, B))
  BY <1>2, <1>4, <1>5, <1>6 DEF WeavesIn
<1> QED
  BY <1>7 DEF BeforeParts, one, part, none

-----------------------------------------------------------------------------
(* The walk over a tree.                                                     *)

Walk(h, node)   == node_scan[h][node]

Walks(h, trees) == [i \in DOMAIN trees |-> Walk(h, trees[i])]

(* A walk shows the items of a leaf, or weaves those of a branch with the walks over its children. *)
LEMMA WalkIs ==
    ASSUME NEW h \in Nat, NEW node \in Tree[h]
    PROVE  Walk(h, node) = IF IsLeaf(node) THEN node.items
                           ELSE Woven(node.items, Walks(h - 1, node.children))
  BY ScanIs DEF Walk, Walks, ScanAt

\* Whether the trees of a height have walks.
HasWalks(h) == \A node \in Tree[h] : Walk(h, node) \in Seq(Item)

(* The walks over some trees. *)
LEMMA WalksInSeq ==
    ASSUME NEW h, HasWalks(h), NEW trees \in Seq(Tree[h])
    PROVE  Walks(h, trees) \in Seq(Seq(Item)) /\ Len(Walks(h, trees)) = Len(trees)
<1>1. DOMAIN trees = 1 .. Len(trees) /\ Len(trees) \in Nat
  OBVIOUS
<1>2. ASSUME NEW i \in DOMAIN trees PROVE Walk(h, trees[i]) \in Seq(Item)
  BY DEF HasWalks
<1>3. Walks(h, trees) = [i \in 1 .. Len(trees) |-> Walk(h, trees[i])]
  BY <1>1 DEF Walks
<1> QED
  BY <1>1, <1>2, <1>3

(* Every tree has a walk. *)
LEMMA AllHaveWalks == \A h \in Nat : HasWalks(h)
<1> DEFINE S == {k \in Nat : HasWalks(k)}
<1>1. 0 \in S
  <2>1. ASSUME NEW node \in Tree[0] PROVE Walk(0, node) \in Seq(Item)
    <3>1. node = NoTree /\ IsLeaf(node)
      BY NoBranchAtZero
    <3>2. Walk(0, node) = node.items
      BY <3>1, WalkIs
    <3>3. node.items = <<>> /\ <<>> \in Seq(Item)
      BY <3>1 DEF NoTree
    <3> QED
      BY <3>2, <3>3
  <2> QED
    BY <2>1 DEF HasWalks
<1>2. ASSUME NEW k \in Nat, HasWalks(k) PROVE HasWalks(k + 1)
  <2>1. ASSUME NEW node \in Tree[k + 1] PROVE Walk(k + 1, node) \in Seq(Item)
    <3>1. k + 1 \in Nat /\ k + 1 >= 1 /\ (k + 1) - 1 = k
      OBVIOUS
    <3>2. /\ node.items \in Seq(Item) /\ node.children \in Seq(Tree[k])
          /\ IsLeaf(node) <=> k + 1 = 1
          /\ k + 1 # 1 => Len(node.children) = Len(node.items) + 1
      BY <3>1, TreeParts
    <3>3. Walk(k + 1, node) = IF IsLeaf(node) THEN node.items
                              ELSE Woven(node.items, Walks(k, node.children))
      BY <3>1, WalkIs
    <3>4. CASE IsLeaf(node)
      BY <3>2, <3>3, <3>4
    <3>5. CASE ~IsLeaf(node)
      <4>1. Walks(k, node.children) \in Seq(Seq(Item)) /\ Len(Walks(k, node.children)) = Len(node.children)
        BY <1>2, <3>2, WalksInSeq
      <4>2. Fits(node.items, Walks(k, node.children))
        BY <3>2, <3>5, <4>1 DEF Fits
      <4>3. Woven(node.items, Walks(k, node.children)) \in Seq(Item)
        BY <4>2, WovenIsSeq
      <4> QED
        BY <3>3, <3>5, <4>3
    <3> QED
      BY <3>4, <3>5
  <2> QED
    BY <2>1 DEF HasWalks
<1>3. \A n \in Nat : n \in S
  <2>1. \A n \in Nat : n \in S => n + 1 \in S
    BY <1>2
  <2> HIDE DEF S
  <2> QED
    BY <1>1, <2>1, SetInduction
<1> QED
  BY <1>3

(* The walk over a tree is a sequence of items, and those over some trees are as many. *)
LEMMA WalkInSeq ==
    ASSUME NEW h \in Nat, NEW node \in Tree[h]
    PROVE  Walk(h, node) \in Seq(Item)
  BY AllHaveWalks DEF HasWalks

(* The walks of a list of trees are a list of walks. *)
LEMMA WalksAre ==
    ASSUME NEW h \in Nat, NEW trees \in Seq(Tree[h])
    PROVE  Walks(h, trees) \in Seq(Seq(Item)) /\ Len(Walks(h, trees)) = Len(trees)
  BY AllHaveWalks, WalksInSeq

(* The walks over two lists of trees. *)
LEMMA WalksConcat ==
    ASSUME NEW h \in Nat, NEW s \in Seq(Tree[h]), NEW t \in Seq(Tree[h])
    PROVE  Walks(h, s \o t) = Walks(h, s) \o Walks(h, t)
<1> DEFINE W(r) == Walks(h, r)
<1>1. /\ W(s) \in Seq(Seq(Item)) /\ W(t) \in Seq(Seq(Item))
      /\ Len(W(s)) = Len(s) /\ Len(W(t)) = Len(t) /\ Len(s) \in Nat /\ Len(t) \in Nat
  BY WalksAre
<1>2. s \o t \in Seq(Tree[h]) /\ Len(s \o t) = Len(s) + Len(t)
  BY LengthsAdd
<1>3. W(s \o t) \in Seq(Seq(Item)) /\ Len(W(s \o t)) = Len(s) + Len(t)
  BY <1>2, WalksAre
<1>4. W(s) \o W(t) \in Seq(Seq(Item)) /\ Len(W(s) \o W(t)) = Len(s) + Len(t)
  <2> HIDE DEF W
  <2> QED
    BY <1>1, LengthsAdd
<1>5. ASSUME NEW i \in 1 .. Len(s) + Len(t) PROVE W(s \o t)[i] = (W(s) \o W(t))[i]
  <2>1. W(s \o t)[i] = Walk(h, (s \o t)[i])
    BY <1>2 DEF Walks
  <2>2. CASE i <= Len(s)
    <3>1. (s \o t)[i] = s[i] /\ W(s)[i] = Walk(h, s[i])
      BY <2>2, <1>1 DEF Walks
    <3>2. (W(s) \o W(t))[i] = W(s)[i]
      <4> HIDE DEF W
      <4> QED
        BY <2>2, <1>1
    <3> QED
      BY <2>1, <3>1, <3>2
  <2>3. CASE i > Len(s)
    <3>1. i - Len(s) \in 1 .. Len(t)
      BY <2>3, <1>1
    <3>2. (s \o t)[i] = t[i - Len(s)] /\ W(t)[i - Len(s)] = Walk(h, t[i - Len(s)])
      BY <2>3, <3>1, <1>1 DEF Walks
    <3>3. (W(s) \o W(t))[i] = W(t)[i - Len(s)]
      <4> HIDE DEF W
      <4> QED
        BY <2>3, <3>1, <1>1
    <3> QED
      BY <2>1, <3>2, <3>3
  <2> QED
    BY <1>1, <2>2, <2>3
<1> HIDE DEF W
<1>6. W(s \o t) = W(s) \o W(t)
  BY <1>3, <1>4, <1>5, SeqEqual
<1> QED
  BY <1>6 DEF W

(* The walk over one tree, and those over two. *)
LEMMA WalksOne ==
    ASSUME NEW h, NEW c
    PROVE  Walks(h, <<c>>) = <<Walk(h, c)>>
  BY DEF Walks

(* And those of two trees are two. *)
LEMMA WalksTwo ==
    ASSUME NEW h, NEW l, NEW r
    PROVE  Walks(h, <<l, r>>) = <<Walk(h, l), Walk(h, r)>>
  BY DEF Walks

(* The walk over a branch. *)
LEMMA WalkOfBranch ==
    ASSUME NEW h \in Nat, h >= 2, NEW node \in Tree[h]
    PROVE  /\ Walk(h, node) = Woven(node.items, Walks(h - 1, node.children))
           /\ Fits(node.items, Walks(h - 1, node.children))
<1>1. h - 1 \in Nat /\ h >= 1 /\ h # 1
  OBVIOUS
<1>2. /\ node.items \in Seq(Item) /\ node.children \in Seq(Tree[h - 1])
      /\ ~IsLeaf(node) /\ Len(node.children) = Len(node.items) + 1
  BY <1>1, TreeParts
<1>3. Walks(h - 1, node.children) \in Seq(Seq(Item)) /\ Len(Walks(h - 1, node.children)) = Len(node.children)
  BY <1>1, <1>2, WalksAre
<1> QED
  BY <1>2, <1>3, WalkIs DEF Fits

(* That over a leaf. *)
LEMMA WalkOfLeaf ==
    ASSUME NEW h \in Nat, h <= 1, NEW node \in Tree[h]
    PROVE  Walk(h, node) = node.items /\ node.items \in Seq(Item)
<1>1. CASE h = 0
  <2>1. node = NoTree /\ IsLeaf(node)
    BY <1>1, NoBranchAtZero
  <2> QED
    BY <2>1, WalkIs DEF NoTree
<1>2. CASE h = 1
  <2>1. IsLeaf(node) /\ node.items \in Seq(Item)
    BY <1>2, TreeParts
  <2> QED
    BY <2>1, WalkIs
<1> QED
  BY <1>1, <1>2

\* A walk in three parts.
Framed(a, m, b) == Cat(Cat(a, m), b)

(* Three walks behind one another are a walk. *)
LEMMA FramedIn ==
    ASSUME NEW a \in Seq(Item), NEW m \in Seq(Item), NEW b \in Seq(Item)
    PROVE  Framed(a, m, b) \in Seq(Item)
  BY CatIn DEF Framed

(* Two nodes with an item between them are walked as one. *)
LEMMA JoinedWalk ==
    ASSUME NEW k \in Nat, k >= 1, NEW l \in Tree[k], NEW m \in Item, NEW r \in Tree[k]
    PROVE  Walk(k, Joined(l, m, r)) = Framed(Walk(k, l), <<m>>, Walk(k, r))
<1>1. Joined(l, m, r) \in Tree[k]
  BY JoinedTree
<1>2. /\ Joined(l, m, r).items = (l.items \o <<m>>) \o r.items
      /\ Joined(l, m, r).children = l.children \o r.children
  BY DEF Joined, Branch
<1>3. CASE k = 1
  <2>1. /\ Walk(k, Joined(l, m, r)) = Joined(l, m, r).items
        /\ Walk(k, l) = l.items /\ Walk(k, r) = r.items
    BY <1>1, <1>3, WalkOfLeaf
  <2> QED
    BY <1>2, <2>1 DEF Framed, Cat
<1>4. CASE k # 1
  <2> DEFINE li == l.items
             ri == r.items
             lw == Walks(k - 1, l.children)
             rw == Walks(k - 1, r.children)
             one == <<m>>
             out == one \o ri
  <2>1. k >= 2 /\ k - 1 \in Nat
    BY <1>4
  <2>2. Fits(li, lw) /\ Fits(ri, rw) /\ Walk(k, l) = Woven(li, lw) /\ Walk(k, r) = Woven(ri, rw)
    BY <2>1, WalkOfBranch
  <2>3. Walk(k, Joined(l, m, r)) = Woven((li \o one) \o ri, lw \o rw)
    <3>1. l.children \in Seq(Tree[k - 1]) /\ r.children \in Seq(Tree[k - 1])
      BY TreeParts
    <3>2. Walks(k - 1, l.children \o r.children) = lw \o rw
      BY <2>1, <3>1, WalksConcat
    <3>3. Walk(k, Joined(l, m, r)) = Woven(Joined(l, m, r).items, Walks(k - 1, Joined(l, m, r).children))
      BY <1>1, <2>1, WalkOfBranch
    <3> QED
      BY <1>2, <3>2, <3>3
  <2>4. li \in Seq(Item) /\ ri \in Seq(Item) /\ one \in Seq(Item)
    BY <2>2 DEF Fits
  <2>14. Cat(Cat(li, one), ri) = Cat(li, Cat(one, ri))
    BY <2>4, CatAssoc
  <2>5. (li \o one) \o ri = li \o out
    BY <2>14 DEF Cat
  <2>15. out \in Seq(Item) /\ Len(out) = Len(one) + Len(ri)
    BY <2>4, LengthsAdd
  <2>16. Len(one) = 1
    OBVIOUS
  <2>6. Woven(li, lw) \in Seq(Item) /\ Woven(ri, rw) \in Seq(Item)
    BY <2>2, WovenIsSeq
  <2>7. BeforeParts(out, rw) = Cat(one, Woven(ri, rw))
    BY <2>2, BeforeIs
  <2> HIDE DEF li, ri, lw, rw, one, out
  <2>8. Pairs(out, rw)
    <3>1. rw \in Seq(Seq(Item)) /\ Len(rw) = Len(ri) + 1
      BY <2>2 DEF Fits
    <3>2. Len(ri) \in Nat
      BY <2>4
    <3>3. Len(rw) = Len(out)
      BY <2>15, <2>16, <3>1, <3>2
    <3> QED
      BY <2>15, <3>1, <3>3 DEF Pairs
  <2>9. WeavesOn(li, lw, out, rw)
    BY <2>2, <2>8, WovenRight
  <2>10. Woven(li \o out, lw \o rw) = Cat(Woven(li, lw), Cat(one, Woven(ri, rw)))
    BY <2>7, <2>9 DEF WeavesOn
  <2>11. Cat(Cat(Woven(li, lw), one), Woven(ri, rw)) = Cat(Woven(li, lw), Cat(one, Woven(ri, rw)))
    BY <2>4, <2>6, CatAssoc
  <2>12. Walk(k, Joined(l, m, r)) = Framed(Walk(k, l), one, Walk(k, r))
    BY <2>2, <2>3, <2>5, <2>10, <2>11 DEF Framed
  <2> QED
    BY <2>12 DEF one
<1> QED
  BY <1>3, <1>4

\* What a walk over a branch shows before and after its middle.
LeftWalk(h, f)  == AfterParts(f.lower, Walks(h - 1, f.left))

RightWalk(h, f) == BeforeParts(f.upper, Walks(h - 1, f.right))

(* Around a middle, the items and the walks pair up. *)
LEMMA SitePairs ==
    ASSUME NEW h, NEW f, NEW i, IsSite(h, f, i)
    PROVE  /\ Pairs(f.lower, Walks(h - 1, f.left)) /\ Pairs(f.upper, Walks(h - 1, f.right))
           /\ LeftWalk(h, f) \in Seq(Item) /\ RightWalk(h, f) \in Seq(Item)
<1> DEFINE a == Walks(h - 1, f.left)
           b == Walks(h - 1, f.right)
<1>1. /\ h - 1 \in Nat /\ f.lower \in Seq(Item) /\ f.upper \in Seq(Item)
      /\ f.left \in Seq(Tree[h - 1]) /\ f.right \in Seq(Tree[h - 1])
      /\ i = Len(f.lower) + 1 /\ i = Len(f.left) + 1 /\ Len(f.right) = Len(f.upper)
  BY SiteParts
<1>2. /\ a \in Seq(Seq(Item)) /\ Len(a) = Len(f.left)
      /\ b \in Seq(Seq(Item)) /\ Len(b) = Len(f.right)
  BY <1>1, WalksAre
<1>3. Len(f.left) = Len(f.lower)
  <2>1. Len(f.left) \in Nat /\ Len(f.lower) \in Nat
    BY <1>1
  <2> QED
    BY <1>1, <2>1
<1>4. Pairs(f.lower, a) /\ Pairs(f.upper, b)
  BY <1>1, <1>2, <1>3 DEF Pairs
<1> HIDE DEF a, b
<1>5. AfterParts(f.lower, a) \in Seq(Item)
  <2>1. <<>> \in Seq(Item)
    OBVIOUS
  <2> QED
    BY <1>4, <2>1, WeavesInOne
<1>6. BeforeParts(f.upper, b) \in Seq(Item)
  BY <1>4, FitsBehind, WovenIsSeq DEF BeforeParts
<1> QED
  BY <1>4, <1>5, <1>6 DEF a, b, LeftWalk, RightWalk

(* The walk over a branch around a middle. *)
LEMMA SiteWalk ==
    ASSUME NEW h, NEW f, NEW i, IsSite(h, f, i), NEW mids, NEW C, IsMiddle(Tree[h - 1], mids, C)
    PROVE  /\ Walk(h, Site(f, mids, C)) = Framed(LeftWalk(h, f), Woven(mids, Walks(h - 1, C)), RightWalk(h, f))
           /\ Fits(mids, Walks(h - 1, C)) /\ Site(f, mids, C) \in Tree[h]
<1> DEFINE k == h - 1
           X == f.lower
           Y == f.upper
           A == Walks(k, f.left)
           B == Walks(k, f.right)
           w == Walks(k, C)
<1>1. /\ h \in Nat /\ h >= 2 /\ k \in Nat
      /\ f.left \in Seq(Tree[k]) /\ f.right \in Seq(Tree[k])
  BY SiteParts
<1>2. mids \in Seq(Item) /\ C \in Seq(Tree[k]) /\ Len(C) = Len(mids) + 1
  BY DEF IsMiddle
<1>3. Pairs(X, A) /\ Pairs(Y, B)
  BY SitePairs
<1>4. Fits(mids, w)
  BY <1>1, <1>2, WalksAre DEF Fits
<1>5. Site(f, mids, C) \in Tree[h]
  BY SiteNodes
<1>6. Walk(h, Site(f, mids, C)) = Woven((X \o mids) \o Y, (A \o w) \o B)
  <2>1. Walk(h, Site(f, mids, C)) = Woven(Site(f, mids, C).items, Walks(k, Site(f, mids, C).children))
    BY <1>1, <1>5, WalkOfBranch
  <2>2. Site(f, mids, C).items = (X \o mids) \o Y /\ Site(f, mids, C).children = (f.left \o C) \o f.right
    BY SiteItems DEF Spliced
  <2>3. Walks(k, f.left \o C) = A \o w /\ f.left \o C \in Seq(Tree[k])
    BY <1>1, <1>2, WalksConcat, LengthsAdd
  <2>4. Walks(k, (f.left \o C) \o f.right) = Walks(k, f.left \o C) \o B
    BY <1>1, <2>3, WalksConcat
  <2> QED
    BY <2>1, <2>2, <2>3, <2>4
<1>7. LeftWalk(h, f) = AfterParts(X, A) /\ RightWalk(h, f) = BeforeParts(Y, B)
  BY DEF LeftWalk, RightWalk
<1> HIDE DEF k, X, Y, A, B, w
<1>8. WeavesIn(X, A, mids, w)
  BY <1>3, <1>4, WovenLeft
<1>9. Fits(X \o mids, A \o w)
  <2>1. X \in Seq(Item) /\ A \in Seq(Seq(Item)) /\ w \in Seq(Seq(Item)) /\ Len(A) = Len(X) /\ Len(w) = Len(mids) + 1
    BY <1>3, <1>4 DEF Pairs, Fits
  <2>2. X \o mids \in Seq(Item) /\ Len(X \o mids) = Len(X) + Len(mids)
    BY <1>2, <2>1, LengthsAdd
  <2>3. A \o w \in Seq(Seq(Item)) /\ Len(A \o w) = Len(A) + Len(w)
    BY <2>1, LengthsAdd
  <2>4. Len(X) \in Nat /\ Len(mids) \in Nat
    BY <1>2, <2>1
  <2>5. Len(A \o w) = Len(X \o mids) + 1
    BY <2>1, <2>2, <2>3, <2>4
  <2> QED
    BY <2>2, <2>3, <2>5 DEF Fits
<1>10. WeavesOn(X \o mids, A \o w, Y, B)
  BY <1>3, <1>9, WovenRight
<1>11. Walk(h, Site(f, mids, C)) = Cat(Cat(AfterParts(X, A), Woven(mids, w)), BeforeParts(Y, B))
  BY <1>6, <1>8, <1>10 DEF WeavesOn, WeavesIn
<1>12. Walk(h, Site(f, mids, C)) = Framed(LeftWalk(h, f), Woven(mids, w), RightWalk(h, f))
  BY <1>7, <1>11 DEF Framed
<1> QED
  BY <1>4, <1>5, <1>12 DEF w, k

(* Around one child. *)
LEMMA OneWalk ==
    ASSUME NEW h, NEW f, NEW i, IsSite(h, f, i), NEW c \in Tree[h - 1]
    PROVE  /\ Walk(h, Site(f, <<>>, <<c>>)) = Framed(LeftWalk(h, f), Walk(h - 1, c), RightWalk(h, f))
           /\ Walk(h - 1, c) \in Seq(Item) /\ Site(f, <<>>, <<c>>) \in Tree[h]
<1>1. IsMiddle(Tree[h - 1], <<>>, <<c>>)
  BY MiddleOfOne
<1>2. Walks(h - 1, <<c>>) = <<Walk(h - 1, c)>>
  BY WalksOne
<1>3. Walk(h - 1, c) \in Seq(Item)
  BY SiteParts, WalkInSeq
<1>4. Woven(<<>>, <<Walk(h - 1, c)>>) = Walk(h - 1, c)
  BY <1>3, WovenFromNone
<1>5. /\ Walk(h, Site(f, <<>>, <<c>>)) = Framed(LeftWalk(h, f), Woven(<<>>, Walks(h - 1, <<c>>)), RightWalk(h, f))
      /\ Site(f, <<>>, <<c>>) \in Tree[h]
  BY <1>1, SiteWalk
<1> QED
  BY <1>2, <1>3, <1>4, <1>5

(* What is woven of one item and two parts. *)
LEMMA OneWoven ==
    ASSUME NEW m \in Item, NEW a \in Seq(Item), NEW b \in Seq(Item)
    PROVE  Woven(<<m>>, <<a, b>>) = Framed(a, <<m>>, b)
<1> DEFINE none == <<>>
           part == <<a>>
<1>1. none \in Seq(Item) /\ part \in Seq(Seq(Item))
  OBVIOUS
<1>5. Len(part) = Len(none) + 1 /\ Append(none, m) = <<m>>
  OBVIOUS
<1>6. Append(part, b) = <<a, b>>
  <2>1. <<a>> \o <<b>> = <<a, b>>
    BY TwoElements
  <2>2. Append(part, b) = part \o <<b>>
    BY <1>1, AppendIs
  <2> QED
    BY <2>1, <2>2
<1>2. Woven(none, part) = a
  BY WovenFromNone
<1> HIDE DEF none, part
<1>3. Fits(none, part)
  BY <1>1, <1>5 DEF Fits
<1>4. Woven(Append(none, m), Append(part, b)) = Cat(Cat(Woven(none, part), <<m>>), b)
  BY <1>3, WovenMore
<1> QED
  BY <1>2, <1>4, <1>5, <1>6 DEF Framed

(* Around two. *)
LEMMA TwoWalk ==
    ASSUME NEW h, NEW f, NEW j, NEW l, NEW m, NEW r, OnSite(h, f, j, l, m, r)
    PROVE  /\ Walk(h, Site(f, <<m>>, <<l, r>>))
              = Framed(LeftWalk(h, f), Framed(Walk(h - 1, l), <<m>>, Walk(h - 1, r)), RightWalk(h, f))
           /\ Walk(h - 1, l) \in Seq(Item) /\ Walk(h - 1, r) \in Seq(Item)
           /\ Site(f, <<m>>, <<l, r>>) \in Tree[h]
<1>0. IsSite(h, f, j) /\ m \in Item /\ l \in Tree[h - 1] /\ r \in Tree[h - 1]
  BY DEF OnSite
<1>1. IsMiddle(Tree[h - 1], <<m>>, <<l, r>>)
  BY <1>0, MiddleOfTwo
<1>2. Walks(h - 1, <<l, r>>) = <<Walk(h - 1, l), Walk(h - 1, r)>>
  BY WalksTwo
<1>3. Walk(h - 1, l) \in Seq(Item) /\ Walk(h - 1, r) \in Seq(Item)
  BY <1>0, SiteParts, WalkInSeq
<1>4. Woven(<<m>>, <<Walk(h - 1, l), Walk(h - 1, r)>>) = Framed(Walk(h - 1, l), <<m>>, Walk(h - 1, r))
  BY <1>0, <1>3, OneWoven
<1>5. /\ Walk(h, Site(f, <<m>>, <<l, r>>))
         = Framed(LeftWalk(h, f), Woven(<<m>>, Walks(h - 1, <<l, r>>)), RightWalk(h, f))
      /\ Site(f, <<m>>, <<l, r>>) \in Tree[h]
  BY <1>0, <1>1, SiteWalk
<1> QED
  BY <1>2, <1>3, <1>4, <1>5

-----------------------------------------------------------------------------
(* Walks in order.                                                           *)

\* The keys ascend, are all below or above a key, or those of two walks apart.
Sorted(w)     == \A i, j \in 1 .. Len(w) : i < j => w[i].key < w[j].key

KeysUnder(w, key) == \A x \in ToSet(w) : x.key < key

KeysOver(key, w)  == \A x \in ToSet(w) : key < x.key

Apart(a, b)   == \A x \in ToSet(a), y \in ToSet(b) : x.key < y.key

(* Keys are numbers. *)
LEMMA KeysAreInt == \A x \in Item : x.key \in Int
  BY TreeAssumption DEF Item

(* What two walks show. *)
LEMMA ShownByCat ==
    ASSUME NEW a \in Seq(Item), NEW b \in Seq(Item)
    PROVE  ToSet(Cat(a, b)) = ToSet(a) \cup ToSet(b)
<1>1. Len(a \o b) = Len(a) + Len(b) /\ Len(a) \in Nat /\ Len(b) \in Nat
  OBVIOUS
<1>2. /\ \A i \in 1 .. Len(a) : (a \o b)[i] = a[i]
      /\ \A i \in 1 .. Len(b) : (a \o b)[Len(a) + i] = b[i]
  OBVIOUS
<1>3. a \o b \in Seq(Item)
  OBVIOUS
<1>4. ASSUME NEW x \in ToSet(a \o b) PROVE x \in ToSet(a) \cup ToSet(b)
  <2>1. PICK i \in 1 .. Len(a) + Len(b) : x = (a \o b)[i]
    BY <1>1, <1>3 DEF ToSet
  <2>2. CASE i \in 1 .. Len(a)
    BY <1>2, <2>1, <2>2 DEF ToSet
  <2>3. CASE i \notin 1 .. Len(a)
    <3>1. i - Len(a) \in 1 .. Len(b) /\ Len(a) + (i - Len(a)) = i
      BY <1>1, <2>3
    <3>2. x = b[i - Len(a)]
      BY <1>2, <2>1, <3>1
    <3> QED
      BY <3>1, <3>2 DEF ToSet
  <2> QED
    BY <2>2, <2>3
<1>5. ASSUME NEW x \in ToSet(a) PROVE x \in ToSet(a \o b)
  <2>1. PICK i \in 1 .. Len(a) : x = a[i]
    BY DEF ToSet
  <2>2. i \in 1 .. Len(a \o b) /\ x = (a \o b)[i]
    BY <1>1, <1>2, <2>1
  <2> QED
    BY <1>3, <2>2 DEF ToSet
<1>6. ASSUME NEW x \in ToSet(b) PROVE x \in ToSet(a \o b)
  <2>1. PICK i \in 1 .. Len(b) : x = b[i]
    BY DEF ToSet
  <2>2. Len(a) + i \in 1 .. Len(a \o b) /\ x = (a \o b)[Len(a) + i]
    BY <1>1, <1>2, <2>1
  <2> QED
    BY <1>3, <2>2 DEF ToSet
<1> HIDE DEF Cat
<1> QED
  BY <1>4, <1>5, <1>6 DEF Cat

(* One item, and none. *)
LEMMA ShownByOne ==
    /\ ToSet(<<>>) = {}
    /\ \A x : ToSet(<<x>>) = {x}
<1>1. ASSUME NEW x PROVE ToSet(<<x>>) = {x}
  <2>1. DOMAIN <<x>> = {1} /\ <<x>>[1] = x
    OBVIOUS
  <2> QED
    BY <2>1 DEF ToSet
<1> QED
  BY <1>1 DEF ToSet

(* What a walk shows are items, at its places. *)
LEMMA ShownAt ==
    ASSUME NEW a \in Seq(Item)
    PROVE  /\ ToSet(a) \subseteq Item
           /\ \A i \in 1 .. Len(a) : a[i] \in ToSet(a)
           /\ \A x \in ToSet(a) : \E i \in 1 .. Len(a) : x = a[i]
  BY DEF ToSet

(* Two walks in order. *)
LEMMA SortedCat ==
    ASSUME NEW a \in Seq(Item), NEW b \in Seq(Item)
    PROVE  Sorted(Cat(a, b)) <=> Sorted(a) /\ Sorted(b) /\ Apart(a, b)
<1> DEFINE c == a \o b
           m == Len(a)
           n == Len(b)
<1>1. Len(c) = m + n /\ m \in Nat /\ n \in Nat
  OBVIOUS
<1>2. /\ \A i \in 1 .. m : c[i] = a[i]
      /\ \A i \in 1 .. n : c[m + i] = b[i]
  OBVIOUS
<1> HIDE DEF c, m, n
<1>3. ASSUME Sorted(c) PROVE Sorted(a)
  <2>1. ASSUME NEW i \in 1 .. m, NEW j \in 1 .. m, i < j PROVE a[i].key < a[j].key
    <3>1. i \in 1 .. Len(c) /\ j \in 1 .. Len(c)
      BY <1>1
    <3>2. c[i].key < c[j].key
      BY <1>3, <2>1, <3>1 DEF Sorted
    <3> QED
      BY <1>2, <3>2
  <2> QED
    BY <2>1 DEF Sorted, m
<1>4. ASSUME Sorted(c) PROVE Sorted(b)
  <2>1. ASSUME NEW i \in 1 .. n, NEW j \in 1 .. n, i < j PROVE b[i].key < b[j].key
    <3>1. m + i \in 1 .. Len(c) /\ m + j \in 1 .. Len(c) /\ m + i < m + j
      BY <1>1, <2>1
    <3>2. c[m + i].key < c[m + j].key
      BY <1>4, <3>1 DEF Sorted
    <3> QED
      BY <1>2, <3>2
  <2> QED
    BY <2>1 DEF Sorted, n
<1>5. ASSUME Sorted(c) PROVE Apart(a, b)
  <2>1. ASSUME NEW x \in ToSet(a), NEW y \in ToSet(b) PROVE x.key < y.key
    <3>1. PICK i \in 1 .. m : x = a[i]
      BY ShownAt DEF m
    <3>2. PICK j \in 1 .. n : y = b[j]
      BY ShownAt DEF n
    <3>3. i \in 1 .. Len(c) /\ m + j \in 1 .. Len(c) /\ i < m + j
      BY <1>1
    <3>4. c[i].key < c[m + j].key
      BY <1>5, <3>3 DEF Sorted
    <3> QED
      BY <1>2, <3>1, <3>2, <3>4
  <2> QED
    BY <2>1 DEF Apart
<1>6. ASSUME Sorted(a), Sorted(b), Apart(a, b) PROVE Sorted(c)
  <2>1. ASSUME NEW i \in 1 .. Len(c), NEW j \in 1 .. Len(c), i < j PROVE c[i].key < c[j].key
    <3>1. CASE j <= m
      <4>1. i \in 1 .. m /\ j \in 1 .. m
        BY <1>1, <2>1, <3>1
      <4>2. a[i].key < a[j].key
        BY <1>6, <2>1, <4>1 DEF Sorted, m
      <4> QED
        BY <1>2, <4>1, <4>2
    <3>2. CASE i <= m /\ m < j
      <4>1. i \in 1 .. m /\ j - m \in 1 .. n /\ m + (j - m) = j
        BY <1>1, <2>1, <3>2
      <4>2. a[i] \in ToSet(a) /\ b[j - m] \in ToSet(b)
        BY <4>1, ShownAt DEF m, n
      <4>3. a[i].key < b[j - m].key
        BY <1>6, <4>2 DEF Apart
      <4> QED
        BY <1>2, <4>1, <4>3
    <3>3. CASE m < i
      <4>1. i - m \in 1 .. n /\ m + (i - m) = i /\ j - m \in 1 .. n /\ m + (j - m) = j /\ i - m < j - m
        BY <1>1, <2>1, <3>3
      <4>2. b[i - m].key < b[j - m].key
        BY <1>6, <4>1 DEF Sorted, n
      <4> QED
        BY <1>2, <4>1, <4>2
    <3>4. j <= m \/ (i <= m /\ m < j) \/ m < i
      BY <1>1
    <3> QED
      BY <3>1, <3>2, <3>3, <3>4
  <2> QED
    BY <2>1 DEF Sorted
<1> QED
  BY <1>3, <1>4, <1>5, <1>6 DEF Cat, c

(* One item, and none, is in order. *)
LEMMA SortedOne == Sorted(<<>>) /\ \A x : Sorted(<<x>>)
<1>1. ASSUME NEW x PROVE Sorted(<<x>>)
  <2>1. Len(<<x>>) = 1
    OBVIOUS
  <2> QED
    BY <2>1 DEF Sorted
<1> QED
  BY <1>1 DEF Sorted

(* Walks that are apart, by their ends. *)
LEMMA UnderLast ==
    ASSUME NEW a \in Seq(Item), NEW x \in Item, Sorted(Cat(a, <<x>>)), NEW key \in Int, x.key < key
    PROVE  KeysUnder(Cat(a, <<x>>), key)
<1>1. <<x>> \in Seq(Item) /\ ToSet(<<x>>) = {x}
  BY ShownByOne
<1>2. Apart(a, <<x>>) /\ ToSet(Cat(a, <<x>>)) = ToSet(a) \cup {x}
  BY <1>1, SortedCat, ShownByCat
<1>3. ToSet(a) \subseteq Item
  BY ShownAt
<1> QED
  BY <1>1, <1>2, <1>3, KeysAreInt DEF Apart, KeysUnder

(* A key below the first of a walk in order is below all of it. *)
LEMMA OverFirst ==
    ASSUME NEW a \in Seq(Item), NEW x \in Item, Sorted(Cat(<<x>>, a)), NEW key \in Int, key < x.key
    PROVE  KeysOver(key, Cat(<<x>>, a))
<1>1. <<x>> \in Seq(Item) /\ ToSet(<<x>>) = {x}
  BY ShownByOne
<1>2. Apart(<<x>>, a) /\ ToSet(Cat(<<x>>, a)) = {x} \cup ToSet(a)
  BY <1>1, SortedCat, ShownByCat
<1>3. ToSet(a) \subseteq Item
  BY ShownAt
<1> QED
  BY <1>1, <1>2, <1>3, KeysAreInt DEF Apart, KeysOver

(* The place of a key among items in order. *)
LEMMA KeyPlace ==
    ASSUME NEW node, node.items \in Seq(Item), Sorted(node.items), NEW key \in Int,
           NEW i, i = node_find(node, key)
    PROVE  /\ i \in 1 .. Len(node.items) + 1
           /\ \A j \in 1 .. Len(node.items) : node.items[j].key < key <=> j < i
<1> DEFINE items == node.items
           n == Len(items)
           S == {j \in DOMAIN items : items[j].key < key}
<1>1. n \in Nat /\ DOMAIN items = 1 .. n
  OBVIOUS
<1>2. i = 1 + Cardinality(S)
  BY DEF node_find
<1>3. \A j \in 1 .. n : items[j].key \in Int
  BY KeysAreInt
<1>4. \A j, k \in 1 .. n : k \in S /\ j < k => j \in S
  BY <1>1, <1>3 DEF Sorted
<1>5. S \subseteq 1 .. n
  BY <1>1
<1>6. \A j \in 1 .. n : j \in S <=> items[j].key < key
  BY <1>1
<1> HIDE DEF S, n
<1>7. ASSUME NEW j \in Nat PROVE IsFiniteSet(1 .. j) /\ Cardinality(1 .. j) = j
  <2>1. IsFiniteSet(1 .. j) /\ Cardinality(1 .. j) = IF 1 > j THEN 0 ELSE j - 1 + 1
    BY FS_Interval
  <2> QED
    BY <2>1
<1>8. IsFiniteSet(S) /\ Cardinality(S) \in Nat /\ Cardinality(S) <= n
  BY <1>1, <1>5, <1>7, FS_Subset, FS_CardinalityType
<1>9. ASSUME NEW j \in 1 .. n, j \in S PROVE j < i
  <2>1. 1 .. j \subseteq S
    BY <1>1, <1>4, <1>9
  <2>2. Cardinality(1 .. j) <= Cardinality(S)
    BY <1>8, <2>1, FS_Subset
  <2>3. Cardinality(1 .. j) = j
    BY <1>1, <1>7
  <2> QED
    BY <1>1, <1>2, <1>8, <2>2, <2>3
<1>10. ASSUME NEW j \in 1 .. n, j \notin S PROVE i <= j
  <2>1. j - 1 \in Nat
    BY <1>1
  <2>2. S \subseteq 1 .. j - 1
    BY <1>1, <1>4, <1>5, <1>10
  <2>3. Cardinality(S) <= Cardinality(1 .. j - 1)
    BY <1>7, <2>1, <2>2, FS_Subset
  <2>4. Cardinality(1 .. j - 1) = j - 1
    BY <1>7, <2>1
  <2> QED
    BY <1>1, <1>2, <1>8, <2>3, <2>4
<1>11. i \in 1 .. n + 1
  BY <1>1, <1>2, <1>8
<1>12. ASSUME NEW j \in 1 .. n PROVE items[j].key < key <=> j < i
  <2>1. j < i <=> ~(i <= j)
    BY <1>1, <1>11
  <2> QED
    BY <1>6, <1>9, <1>10, <2>1
<1> QED
  BY <1>11, <1>12 DEF n

(* One element more. *)
LEMMA ShownByMore ==
    ASSUME NEW T, NEW s \in Seq(T), NEW x \in T
    PROVE  ToSet(Append(s, x)) = ToSet(s) \cup {x}
<1> DEFINE t == Append(s, x)
<1>1. t \in Seq(T) /\ Len(t) = Len(s) + 1 /\ Len(s) \in Nat
  OBVIOUS
<1>2. t[Len(s) + 1] = x /\ \A i \in 1 .. Len(s) : t[i] = s[i]
  OBVIOUS
<1>3. DOMAIN t = 1 .. Len(s) + 1 /\ DOMAIN s = 1 .. Len(s)
  BY <1>1
<1> HIDE DEF t
<1>4. \A i \in 1 .. Len(s) + 1 : i \in 1 .. Len(s) \/ i = Len(s) + 1
  BY <1>1
<1>5. 1 .. Len(s) \subseteq 1 .. Len(s) + 1 /\ Len(s) + 1 \in 1 .. Len(s) + 1
  BY <1>1
<1>6. ToSet(t) = ToSet(s) \cup {x}
  BY <1>2, <1>3, <1>4, <1>5 DEF ToSet
<1> QED
  BY <1>6 DEF t

\* What is shown by parts, and by what is woven.
ShownByAll(parts) == UNION {ToSet(p) : p \in ToSet(parts)}

WeavesWell(items, parts) ==
    /\ ToSet(Woven(items, parts)) = ToSet(items) \cup ShownByAll(parts)
    /\ Sorted(Woven(items, parts)) => Sorted(items)

WeavesWellFor(n) == \A X, A : Fits(X, A) /\ Len(X) = n => WeavesWell(X, A)

(* One more item, and one more part. *)
LEMMA WeavesWellMore ==
    ASSUME NEW X, NEW A, Fits(X, A), WeavesWell(X, A), NEW x \in Item, NEW p \in Seq(Item)
    PROVE  WeavesWell(Append(X, x), Append(A, p))
<1> DEFINE w == Woven(X, A)
           one == <<x>>
           v == Woven(Append(X, x), Append(A, p))
<1>1. v = Cat(Cat(w, one), p) /\ w \in Seq(Item)
  BY WovenMore
<1>2. X \in Seq(Item) /\ A \in Seq(Seq(Item))
  BY DEF Fits
<1>3. one \in Seq(Item) /\ ToSet(one) = {x} /\ Sorted(one)
  BY ShownByOne, SortedOne
<1>4. ToSet(w) = ToSet(X) \cup ShownByAll(A) /\ (Sorted(w) => Sorted(X))
  BY DEF WeavesWell
<1>5. Append(X, x) = Cat(X, one)
  BY <1>2, AppendIs DEF Cat
<1> HIDE DEF w, one, v
<1>6. Cat(w, one) \in Seq(Item) /\ ToSet(Cat(w, one)) = ToSet(w) \cup {x}
  BY <1>1, <1>3, CatIn, ShownByCat
<1>7. ToSet(v) = (ToSet(w) \cup {x}) \cup ToSet(p)
  BY <1>1, <1>6, ShownByCat
<1>8. ShownByAll(Append(A, p)) = ShownByAll(A) \cup ToSet(p)
  <2>1. ToSet(Append(A, p)) = ToSet(A) \cup {p}
    BY <1>2, ShownByMore
  <2> QED
    BY <2>1 DEF ShownByAll
<1>9. ToSet(Append(X, x)) = ToSet(X) \cup {x}
  BY <1>2, ShownByMore
<1>10. ASSUME Sorted(v) PROVE Sorted(Append(X, x))
  <2>1. Sorted(w) /\ Apart(w, one)
    BY <1>1, <1>3, <1>6, <1>10, SortedCat
  <2>2. Apart(X, one)
    BY <1>4, <2>1 DEF Apart
  <2> QED
    BY <1>2, <1>3, <1>4, <1>5, <2>1, <2>2, SortedCat
<1> QED
  BY <1>4, <1>7, <1>8, <1>9, <1>10 DEF WeavesWell, v

(* No item at all. *)
LEMMA WeavesWellNone == WeavesWellFor(0)
<1> SUFFICES ASSUME NEW X, NEW A, Fits(X, A), Len(X) = 0 PROVE WeavesWell(X, A)
  BY DEF WeavesWellFor
<1>1. X = <<>> /\ A \in Seq(Seq(Item)) /\ Len(A) = 1
  BY DEF Fits
<1>2. A = <<A[1]>> /\ A[1] \in Seq(Item)
  BY <1>1, OnlyElement
<1>3. Woven(<<>>, A) = A[1]
  BY <1>2, WovenFromNone
<1>4. ToSet(A) = {A[1]}
  BY <1>2, ShownByOne
<1>5. ShownByAll(A) = ToSet(A[1])
  BY <1>4 DEF ShownByAll
<1> QED
  BY <1>1, <1>3, <1>5, ShownByOne, SortedOne DEF WeavesWell

(* Weaving shows the items and the parts, and puts the items in order. *)
LEMMA WovenWell ==
    ASSUME NEW items, NEW parts, Fits(items, parts)
    PROVE  WeavesWell(items, parts)
<1> DEFINE S == {k \in Nat : WeavesWellFor(k)}
<1>1. 0 \in S
  BY WeavesWellNone
<1>2. \A n \in Nat : n \in S => n + 1 \in S
  <2> SUFFICES ASSUME NEW n \in Nat, WeavesWellFor(n) PROVE WeavesWellFor(n + 1)
    OBVIOUS
  <2> SUFFICES ASSUME NEW V, NEW D, Fits(V, D), Len(V) = n + 1 PROVE WeavesWell(V, D)
    BY DEF WeavesWellFor
  <2>1. V # <<>>
    OBVIOUS
  <2>2. PICK X, A, x, p : IsMore(V, D, X, A, x, p)
    BY <2>1, FitsMore
  <2>3. /\ Fits(X, A) /\ x \in Item /\ p \in Seq(Item)
        /\ V = Append(X, x) /\ D = Append(A, p)
    BY <2>2 DEF IsMore
  <2>4. Len(V) = Len(X) + 1 /\ Len(X) \in Nat
    BY <2>3 DEF Fits
  <2>5. Len(X) = n
    BY <2>4
  <2>6. WeavesWell(X, A)
    BY <2>3, <2>5 DEF WeavesWellFor
  <2> QED
    BY <2>3, <2>6, WeavesWellMore
<1> HIDE DEF S
<1>3. \A n \in Nat : n \in S
  BY <1>1, <1>2, SetInduction
<1>4. Len(items) \in Nat
  BY DEF Fits
<1> QED
  BY <1>3, <1>4 DEF S, WeavesWellFor

(* The items of a node are in order when the walk over its tree is. *)
LEMMA ItemsSorted ==
    ASSUME NEW h \in Nat, NEW node \in Tree[h], Sorted(Walk(h, node))
    PROVE  Sorted(node.items)
<1>1. CASE h >= 2
  <2>1. /\ Walk(h, node) = Woven(node.items, Walks(h - 1, node.children))
        /\ Fits(node.items, Walks(h - 1, node.children))
    BY <1>1, WalkOfBranch
  <2> QED
    BY <2>1, WovenWell DEF WeavesWell
<1>2. CASE h <= 1
  BY <1>2, WalkOfLeaf
<1> QED
  BY <1>1, <1>2

(* The walk around a child ends before it, and begins behind it, with the items beside it. *)
LEMMA LeftEnds ==
    ASSUME NEW h, NEW f, NEW i, IsSite(h, f, i)
    PROVE  IF f.lower = <<>> THEN LeftWalk(h, f) = <<>>
           ELSE \E a \in Seq(Item) : LeftWalk(h, f) = Cat(a, <<Last(f.lower)>>)
<1> DEFINE A == Walks(h - 1, f.left)
<1>1. Pairs(f.lower, A) /\ f.lower \in Seq(Item)
  BY SitePairs DEF Pairs
<1>2. LeftWalk(h, f) = AfterParts(f.lower, A)
  BY DEF LeftWalk
<1> HIDE DEF A
<1>3. CASE f.lower = <<>>
  <2>1. A \in Seq(Seq(Item)) /\ Len(A) = 0
    BY <1>1, <1>3 DEF Pairs
  <2>2. A = <<>>
    BY <2>1
  <2>3. Append(A, <<>>) = <<<<>>>>
    BY <2>2
  <2> QED
    BY <1>2, <1>3, <2>3, NothingWoven DEF AfterParts
<1>4. CASE f.lower # <<>>
  <2> DEFINE X == Front(f.lower)
             x == Last(f.lower)
  <2>1. X \in Seq(Item) /\ x \in Item /\ f.lower = Append(X, x)
    BY <1>1, <1>4, FrontAndLast
  <2> HIDE DEF X, x
  <2>2. Pairs(Append(X, x), A)
    BY <1>1, <2>1
  <2>3. /\ Woven(X, A) \in Seq(Item)
        /\ AfterParts(Append(X, x), A) = Cat(Woven(X, A), <<x>>)
    BY <2>1, <2>2, AfterIs
  <2> QED
    BY <1>2, <1>4, <2>1, <2>3 DEF x
<1> QED
  BY <1>3, <1>4

(* What is walked to the right of a child begins with the item to its right. *)
LEMMA RightBegins ==
    ASSUME NEW h, NEW f, NEW i, IsSite(h, f, i)
    PROVE  IF f.upper = <<>> THEN RightWalk(h, f) = <<>>
           ELSE \E a \in Seq(Item) : RightWalk(h, f) = Cat(<<Head(f.upper)>>, a)
<1> DEFINE B == Walks(h - 1, f.right)
<1>1. Pairs(f.upper, B) /\ f.upper \in Seq(Item)
  BY SitePairs DEF Pairs
<1>2. RightWalk(h, f) = BeforeParts(f.upper, B)
  BY DEF RightWalk
<1> HIDE DEF B
<1>3. CASE f.upper = <<>>
  <2>1. B \in Seq(Seq(Item)) /\ Len(B) = 0
    BY <1>1, <1>3 DEF Pairs
  <2>2. B = <<>>
    BY <2>1
  <2>3. <<<<>>>> \o B = <<<<>>>>
    BY <2>2
  <2> QED
    BY <1>2, <1>3, <2>3, NothingWoven DEF BeforeParts
<1>4. CASE f.upper # <<>>
  <2> DEFINE y == Head(f.upper)
             Y == Tail(f.upper)
  <2>1. Y \in Seq(Item) /\ y \in Item /\ f.upper = <<y>> \o Y /\ Len(Y) = Len(f.upper) - 1
    BY <1>1, <1>4, HeadThenTail
  <2> HIDE DEF Y, y
  <2>2. Fits(Y, B)
    <3>1. B \in Seq(Seq(Item)) /\ Len(B) = Len(f.upper) /\ Len(f.upper) \in Nat
      BY <1>1 DEF Pairs
    <3>2. Len(B) = Len(Y) + 1
      BY <2>1, <3>1
    <3> QED
      BY <2>1, <3>1, <3>2 DEF Fits
  <2>3. BeforeParts(<<y>> \o Y, B) = Cat(<<y>>, Woven(Y, B))
    BY <2>1, <2>2, BeforeIs
  <2>4. Woven(Y, B) \in Seq(Item)
    BY <2>2, WovenIsSeq
  <2> QED
    BY <1>2, <1>4, <2>1, <2>3, <2>4 DEF y
<1> QED
  BY <1>3, <1>4

===============================================================================
