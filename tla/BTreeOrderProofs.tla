--------------------------- MODULE BTreeOrderProofs ---------------------------
(***************************************************************************)
(* BTree: a walk of the tree meets the items in ascending order, count is  *)
(* how many there are, the queries agree with them, and the tree is the    *)
(* ordered set of OrderedSet, whatever MaxItems, the keys, the calls and   *)
(* the allocations that fail, as long as btree_load is given greater items *)
(* only.                                                                   *)
(*                                                                         *)
(* Walk(h, node) is what node_scan shows.  At a child of a branch it is    *)
(* Framed: what lies to the left of the child, the child's own walk, what  *)
(* lies to the right.  An insertion Puts an item into the walk and a       *)
(* deletion Takes one out of it, at a place that is the right one if the   *)
(* walk is Sorted; splitting, merging and borrowing leave the walk as it   *)
(* is.  OrderInv, next to TreeInv of BTreeProofs, is inductive.  A query   *)
(* Answers as the walk wants: the iterators show the part of it on one     *)
(* side of the pivot.  The last part is the search within a node, as       *)
(* NodeFind takes it step by step.                                         *)
(***************************************************************************)
EXTENDS BTreeProofs, NodeFind

(* Three walks in order. *)
LEMMA SortedFramed ==
    ASSUME NEW a \in Seq(Item), NEW m \in Seq(Item), NEW b \in Seq(Item)
    PROVE  /\ Sorted(Framed(a, m, b)) <=>
                 Sorted(a) /\ Sorted(m) /\ Sorted(b) /\ Apart(a, m) /\ Apart(a, b) /\ Apart(m, b)
           /\ ToSet(Framed(a, m, b)) = (ToSet(a) \cup ToSet(m)) \cup ToSet(b)
<1> DEFINE am == Cat(a, m)
<1>1. /\ am \in Seq(Item) /\ ToSet(am) = ToSet(a) \cup ToSet(m)
      /\ Sorted(am) <=> Sorted(a) /\ Sorted(m) /\ Apart(a, m)
  BY CatIn, ShownByCat, SortedCat
<1> HIDE DEF am
<1>2. /\ Sorted(Cat(am, b)) <=> Sorted(am) /\ Sorted(b) /\ Apart(am, b)
      /\ ToSet(Cat(am, b)) = ToSet(am) \cup ToSet(b)
  BY <1>1, ShownByCat, SortedCat
<1>3. Apart(am, b) <=> Apart(a, b) /\ Apart(m, b)
  BY <1>1 DEF Apart
<1> QED
  BY <1>1, <1>2, <1>3 DEF Framed, am

(* The items beside a place. *)
LEMMA BesidePlace ==
    ASSUME NEW a \in Seq(Item), NEW b \in Seq(Item), NEW s, s = Spliced(a, <<>>, b)
    PROVE  /\ a # <<>> => Last(a) = s[Len(a)]
           /\ b # <<>> => Head(b) = s[Len(a) + 1]
           /\ Len(s) = Len(a) + Len(b)
<1>1. s = a \o b
  BY ConcatWithNone DEF Spliced
<1>2. a # <<>> => Len(a) \in 1 .. Len(a)
  OBVIOUS
<1>3. b # <<>> => 1 \in 1 .. Len(b)
  OBVIOUS
<1>4. /\ \A i \in 1 .. Len(a) : (a \o b)[i] = a[i]
      /\ \A i \in 1 .. Len(b) : (a \o b)[Len(a) + i] = b[i]
      /\ Len(a \o b) = Len(a) + Len(b)
  OBVIOUS
<1>5. Last(a) = a[Len(a)] /\ Head(b) = b[1]
  BY DEF Last
<1> QED
  BY <1>1, <1>2, <1>3, <1>4, <1>5

IsPlace(h, f, i, c, node, sought) ==
    /\ IsSite(h, f, i) /\ c \in Tree[h - 1] /\ node = Site(f, <<>>, <<c>>)
    /\ sought \in Int /\ i = node_find(node, sought) /\ ~HasAt(node, i, sought)

(* The keys shown around the child where a key would be. *)
LEMMA PlaceBounds ==
    ASSUME NEW h, NEW f, NEW i, NEW c, NEW node, NEW sought, IsPlace(h, f, i, c, node, sought),
           Sorted(Walk(h, node))
    PROVE  KeysUnder(LeftWalk(h, f), sought) /\ KeysOver(sought, RightWalk(h, f))
<1> DEFINE L == LeftWalk(h, f)
           R == RightWalk(h, f)
           w == Walk(h - 1, c)
           list == node.items
<1>1. /\ IsSite(h, f, i) /\ c \in Tree[h - 1] /\ node = Site(f, <<>>, <<c>>)
      /\ sought \in Int /\ i = node_find(node, sought) /\ ~HasAt(node, i, sought)
  BY DEF IsPlace
<1>2. /\ f.lower \in Seq(Item) /\ f.upper \in Seq(Item) /\ i = Len(f.lower) + 1 /\ h \in Nat
  BY <1>1, SiteParts
<1>3. /\ Walk(h, node) = Framed(L, w, R) /\ w \in Seq(Item) /\ node \in Tree[h]
  BY <1>1, OneWalk
<1>4. L \in Seq(Item) /\ R \in Seq(Item)
  BY <1>1, SitePairs
<1>5. list = Spliced(f.lower, <<>>, f.upper)
  BY <1>1, SiteItems
<1>6. list \in Seq(Item)
  <2>1. <<>> \in Seq(Item)
    OBVIOUS
  <2> QED
    BY <1>2, <1>5, <2>1, SplicedIs
<1>7. Sorted(list)
  BY <1>2, <1>3, ItemsSorted
<1>8. /\ i \in 1 .. Len(list) + 1
      /\ \A j \in 1 .. Len(list) : list[j].key < sought <=> j < i
  BY <1>1, <1>6, <1>7, KeyPlace
<1>9. Sorted(Framed(L, w, R))
  BY <1>3
<1> HIDE DEF L, R, w
<1>10. Sorted(L) /\ Sorted(R)
  BY <1>3, <1>4, <1>9, SortedFramed
<1>11. /\ f.lower # <<>> => Last(f.lower) = list[Len(f.lower)]
       /\ f.upper # <<>> => Head(f.upper) = list[Len(f.lower) + 1]
       /\ Len(list) = Len(f.lower) + Len(f.upper)
  <2> HIDE DEF list
  <2> QED
    BY <1>2, <1>5, BesidePlace
<1> DEFINE under == Len(f.lower)
           up  == Len(f.upper)
           n   == Len(list)
<1>12. /\ under \in Nat /\ up \in Nat
       /\ f.lower # <<>> => under # 0
       /\ f.upper # <<>> => up # 0
  BY <1>2
<1>15. n = under + up /\ i = under + 1
  BY <1>2, <1>11
<1>16. /\ f.lower # <<>> => Last(f.lower) = list[under]
       /\ f.upper # <<>> => Head(f.upper) = list[i]
  BY <1>11, <1>15
<1>17. /\ \A j \in 1 .. n : list[j].key < sought <=> j < i
       /\ \A j \in 1 .. n : list[j] \in Item
  BY <1>6, <1>8
<1>18. i \in 1 .. n => list[i].key # sought
  <2>1. n \in Nat
    BY <1>6
  <2>2. i \in 1 .. n => i <= n
    BY <2>1
  <2> QED
    BY <1>1, <2>2 DEF HasAt
<1> HIDE DEF under, up, n, list
<1>13. KeysUnder(L, sought)
  <2>1. CASE f.lower = <<>>
    <3>1. L = <<>>
      BY <1>1, <2>1, LeftEnds DEF L
    <3> QED
      BY <3>1, ShownByOne DEF KeysUnder
  <2>2. CASE f.lower # <<>>
    <3> DEFINE x == Last(f.lower)
    <3>1. PICK a \in Seq(Item) : L = Cat(a, <<x>>)
      BY <1>1, <2>2, LeftEnds DEF L
    <3>2. under \in 1 .. n /\ under < i
      BY <1>12, <1>15, <2>2
    <3>3. x = list[under]
      BY <1>16, <2>2
    <3>4. x.key < sought /\ x \in Item
      BY <1>17, <3>2, <3>3
    <3> HIDE DEF x
    <3> QED
      BY <1>1, <1>10, <3>1, <3>4, UnderLast
  <2> QED
    BY <2>1, <2>2
<1>14. KeysOver(sought, R)
  <2>1. CASE f.upper = <<>>
    <3>1. R = <<>>
      BY <1>1, <2>1, RightBegins DEF R
    <3> QED
      BY <3>1, ShownByOne DEF KeysOver
  <2>2. CASE f.upper # <<>>
    <3> DEFINE x == Head(f.upper)
    <3>1. PICK a \in Seq(Item) : R = Cat(<<x>>, a)
      BY <1>1, <2>2, RightBegins DEF R
    <3>2. i \in 1 .. n /\ ~(i < i)
      BY <1>12, <1>15, <2>2
    <3>3. x = list[i]
      BY <1>16, <2>2
    <3>4. x \in Item
      BY <1>17, <3>2, <3>3
    <3>6. ~(x.key < sought) /\ x.key # sought
      BY <1>17, <1>18, <3>2, <3>3
    <3>7. sought < x.key
      BY <1>1, <3>4, <3>6, KeysAreInt
    <3> HIDE DEF x
    <3> QED
      BY <1>1, <1>10, <3>1, <3>4, <3>7, OverFirst
  <2> QED
    BY <2>1, <2>2
<1> QED
  BY <1>13, <1>14 DEF L, R

-----------------------------------------------------------------------------
(* What an insertion does to the walk.                                       *)

\* An item is put in place of the one with its key, or where that would be.
PutsAt(X, M, Y, w, item, prev, v) ==
    /\ X \in Seq(Item) /\ M \in Seq(Item) /\ Y \in Seq(Item)
    /\ w = Framed(X, M, Y) /\ v = Framed(X, <<item>>, Y)
    /\ IF prev = NoItem THEN M = <<>> ELSE M = <<prev>>
    /\ Sorted(w) => /\ KeysUnder(X, item.key) /\ KeysOver(item.key, Y)
                    /\ prev # NoItem => prev.key = item.key

Puts(w, item, prev, v) == \E X, M, Y : PutsAt(X, M, Y, w, item, prev, v)

(* A walk framed again. *)
LEMMA FramedTwice ==
    ASSUME NEW L \in Seq(Item), NEW X \in Seq(Item), NEW M \in Seq(Item), NEW Y \in Seq(Item), NEW R \in Seq(Item)
    PROVE  Framed(L, Framed(X, M, Y), R) = Framed(Cat(L, X), M, Cat(Y, R))
<1> DEFINE xm == Cat(X, M)
           lx == Cat(L, X)
           yr == Cat(Y, R)
           lxm == Cat(lx, M)
<1>1. xm \in Seq(Item) /\ lx \in Seq(Item) /\ yr \in Seq(Item) /\ lxm \in Seq(Item)
  BY CatIn
<1>2. lxm = Cat(L, xm)
  BY CatAssoc
<1> HIDE DEF xm, lx, yr, lxm
<1>3. Cat(L, Cat(xm, Y)) = Cat(Cat(L, xm), Y)
  BY <1>1, CatAssoc
<1>4. Cat(Cat(lxm, Y), R) = Cat(lxm, Cat(Y, R))
  BY <1>1, CatAssoc
<1>5. Cat(Cat(L, Cat(xm, Y)), R) = Cat(lxm, yr)
  BY <1>2, <1>3, <1>4 DEF yr
<1> QED
  BY <1>5 DEF Framed, xm, lx, lxm, yr

(* An item put into a part of the walk. *)
LEMMA PutsWithin ==
    ASSUME NEW w, NEW item \in Item, NEW prev, NEW v, Puts(w, item, prev, v),
           NEW L \in Seq(Item), NEW R \in Seq(Item),
           Sorted(Framed(L, w, R)) => KeysUnder(L, item.key) /\ KeysOver(item.key, R)
    PROVE  Puts(Framed(L, w, R), item, prev, Framed(L, v, R))
<1>1. PICK X, M, Y : PutsAt(X, M, Y, w, item, prev, v)
  BY DEF Puts
<1>2. /\ X \in Seq(Item) /\ M \in Seq(Item) /\ Y \in Seq(Item)
      /\ w = Framed(X, M, Y) /\ v = Framed(X, <<item>>, Y)
      /\ IF prev = NoItem THEN M = <<>> ELSE M = <<prev>>
      /\ Sorted(w) => /\ KeysUnder(X, item.key) /\ KeysOver(item.key, Y)
                      /\ prev # NoItem => prev.key = item.key
  BY <1>1 DEF PutsAt
<1> DEFINE lx == Cat(L, X)
           yr == Cat(Y, R)
           one == <<item>>
<1>3. lx \in Seq(Item) /\ yr \in Seq(Item) /\ one \in Seq(Item) /\ w \in Seq(Item)
  BY <1>2, CatIn, FramedIn
<1> HIDE DEF one
<1>4. Framed(L, w, R) = Framed(lx, M, yr) /\ Framed(L, v, R) = Framed(lx, one, yr)
  <2>1. Framed(L, Framed(X, M, Y), R) = Framed(lx, M, yr)
    BY <1>2, FramedTwice
  <2>2. Framed(L, Framed(X, one, Y), R) = Framed(lx, one, yr)
    BY <1>2, <1>3, FramedTwice
  <2> QED
    BY <1>2, <2>1, <2>2 DEF one
<1>5. ToSet(lx) = ToSet(L) \cup ToSet(X) /\ ToSet(yr) = ToSet(Y) \cup ToSet(R)
  BY <1>2, ShownByCat
<1> HIDE DEF lx, yr
<1>6. ASSUME Sorted(Framed(L, w, R))
      PROVE  /\ KeysUnder(lx, item.key) /\ KeysOver(item.key, yr)
             /\ prev # NoItem => prev.key = item.key
  <2>1. Sorted(w)
    BY <1>3, <1>6, SortedFramed
  <2>2. KeysUnder(L, item.key) /\ KeysOver(item.key, R)
    BY <1>6
  <2> QED
    BY <1>2, <1>5, <2>1, <2>2 DEF KeysUnder, KeysOver
<1>7. PutsAt(lx, M, yr, Framed(L, w, R), item, prev, Framed(L, v, R))
  BY <1>2, <1>3, <1>4, <1>6 DEF PutsAt, one
<1> QED
  BY <1>7 DEF Puts

(* An item between two walks. *)
LEMMA PutsBetween ==
    ASSUME NEW X \in Seq(Item), NEW Y \in Seq(Item), NEW item \in Item,
           Sorted(Cat(X, Y)) => KeysUnder(X, item.key) /\ KeysOver(item.key, Y)
    PROVE  Puts(Cat(X, Y), item, NoItem, Framed(X, <<item>>, Y))
<1>1. <<>> \in Seq(Item) /\ Cat(X, <<>>) = X
  BY CatNone
<1>2. Cat(X, Y) = Framed(X, <<>>, Y)
  BY <1>1 DEF Framed
<1>3. PutsAt(X, <<>>, Y, Cat(X, Y), item, NoItem, Framed(X, <<item>>, Y))
  BY <1>1, <1>2 DEF PutsAt
<1> QED
  BY <1>3 DEF Puts

(* And in place of one with its key. *)
LEMMA PutsInPlace ==
    ASSUME NEW X \in Seq(Item), NEW Y \in Seq(Item), NEW item \in Item, NEW prev \in Item,
           prev.key = item.key
    PROVE  Puts(Framed(X, <<prev>>, Y), item, prev, Framed(X, <<item>>, Y))
<1> DEFINE one == <<prev>>
           w == Framed(X, one, Y)
<1>1. one \in Seq(Item) /\ ToSet(one) = {prev} /\ prev # NoItem
  BY ShownByOne, TreeAssumption
<1>2. ASSUME Sorted(w) PROVE KeysUnder(X, item.key) /\ KeysOver(item.key, Y)
  <2>1. Apart(X, one) /\ Apart(one, Y)
    <3> HIDE DEF one
    <3> QED
      BY <1>1, <1>2, SortedFramed
  <2> QED
    BY <1>1, <2>1 DEF Apart, KeysUnder, KeysOver
<1> HIDE DEF w
<1>3. PutsAt(X, one, Y, w, item, prev, Framed(X, <<item>>, Y))
  BY <1>1, <1>2 DEF PutsAt, w
<1> QED
  BY <1>3 DEF Puts, w

(* The parts of a walk and what they show. *)
LEMMA UnderPart ==
    ASSUME NEW s \in Seq(Item), NEW i \in 1 .. Len(s) + 1, NEW sought,
           \A j \in 1 .. Len(s) : s[j].key < sought <=> j < i
    PROVE  /\ KeysUnder(SubSeq(s, 1, i - 1), sought)
           /\ \A x \in ToSet(SubSeq(s, i, Len(s))) : ~(x.key < sought) /\ \E j \in i .. Len(s) : x = s[j]
<1> DEFINE a == SubSeq(s, 1, i - 1)
           b == SubSeq(s, i, Len(s))
           n == Len(s)
<1>1. n \in Nat /\ i - 1 \in Nat /\ i - 1 <= n /\ i \in Nat /\ i >= 1
  OBVIOUS
<1>2. /\ a \in Seq(Item) /\ Len(a) = i - 1 /\ \A j \in 1 .. i - 1 : a[j] = s[j]
      /\ b \in Seq(Item) /\ Len(b) = n + 1 - i /\ \A j \in 1 .. n + 1 - i : b[j] = s[i + j - 1]
  OBVIOUS
<1> HIDE DEF a, b, n
<1>3. ASSUME NEW x \in ToSet(a) PROVE x.key < sought
  <2>3. PICK j \in 1 .. Len(a) : x = a[j]
    BY <1>2, ShownAt
  <2>1. j \in 1 .. i - 1 /\ x = s[j]
    BY <1>2, <2>3
  <2>2. j \in 1 .. n /\ j < i
    BY <1>1, <2>1
  <2> QED
    BY <2>1, <2>2 DEF n
<1>4. ASSUME NEW x \in ToSet(b) PROVE ~(x.key < sought) /\ \E j \in i .. n : x = s[j]
  <2>1. PICK j \in 1 .. n + 1 - i : x = s[i + j - 1]
    BY <1>2, ShownAt
  <2>2. i + j - 1 \in i .. n /\ i + j - 1 \in 1 .. n /\ ~(i + j - 1 < i)
    BY <1>1
  <2> QED
    BY <2>1, <2>2 DEF n
<1> QED
  BY <1>3, <1>4 DEF KeysUnder, a, b, n

(* An item put into a leaf. *)
LEMMA PutsInLeaf ==
    ASSUME NEW node, node.items \in Seq(Item), NEW item \in Item,
           NEW i, i = node_find(node, item.key), ~HasAt(node, i, item.key)
    PROVE  Puts(node.items, item, NoItem, InsertAt(node.items, i, item)) 
<1> DEFINE s == node.items
           a == SubSeq(s, 1, i - 1)
           b == SubSeq(s, i, Len(s))
           sought == item.key
<1>1. i \in 1 .. Len(s) + 1
  BY PlaceOfKey
<1>2. /\ s = a \o b /\ a \in Seq(Item) /\ b \in Seq(Item) /\ Len(a) = i - 1
  <2> HIDE DEF s
  <2>1. s \in Seq(Item)
    BY DEF s
  <2> QED
    BY <1>1, <2>1, CutAt
<1>3. ASSUME Sorted(s) PROVE KeysUnder(a, sought) /\ KeysOver(sought, b)
  <2>1. \A j \in 1 .. Len(s) : s[j].key < sought <=> j < i
    BY <1>3, KeyPlace, KeysAreInt
  <2>2. i <= Len(s) => s[i].key # sought
    BY DEF HasAt
  <2> HIDE DEF s
  <2>3. s \in Seq(Item)
    BY DEF s
  <2>4. /\ KeysUnder(a, sought)
        /\ \A x \in ToSet(b) : ~(x.key < sought) /\ \E j \in i .. Len(s) : x = s[j]
    BY <1>1, <2>1, <2>3, UnderPart
  <2>5. ASSUME NEW x \in ToSet(b) PROVE sought < x.key
    <3>1. x \in Item /\ x.key \in Int /\ sought \in Int
      BY <1>2, ShownAt, KeysAreInt
    <3>2. PICK j \in i .. Len(s) : x = s[j]
      BY <2>4
    <3>3. x.key # sought
      <4>1. CASE j = i
        <5>1. i <= Len(s)
          BY <1>1, <2>3, <4>1
        <5> QED
          BY <2>2, <3>2, <4>1, <5>1
      <4>2. CASE j # i
        <5>1. i \in 1 .. Len(s) /\ j \in 1 .. Len(s) /\ i < j
          BY <1>1, <2>3, <4>2
        <5>2. s[i].key < s[j].key
          BY <1>3, <5>1 DEF Sorted
        <5>3. s[i] \in Item /\ ~(s[i].key < sought)
          BY <1>1, <2>1, <2>3, <5>1
        <5> QED
          BY <3>1, <3>2, <5>2, <5>3, KeysAreInt
      <4> QED
        BY <4>1, <4>2
    <3> QED
      BY <2>4, <3>1, <3>3
  <2> QED
    BY <2>4, <2>5 DEF KeysOver
<1> HIDE DEF s, a, b
<1>4. InsertAt(a \o b, i, item) = (a \o <<item>>) \o b
  <2>1. i = Len(a) + 1
    BY <1>1, <1>2
  <2> QED
    BY <1>2, <2>1, InsertAtCut
<1>5. Puts(Cat(a, b), item, NoItem, Framed(a, <<item>>, b))
  BY <1>2, <1>3, PutsBetween DEF Cat
<1> QED
  BY <1>2, <1>4, <1>5 DEF Cat, Framed, s

(* An item replaced in a node: its items, before and after. *)
LEMMA ItemsReplaced ==
    ASSUME NEW h \in Nat, h >= 1, NEW node \in Tree[h], NEW i \in 1 .. Len(node.items), NEW item \in Item
    PROVE  [node EXCEPT !.items[i] = item] = Branch(ReplaceAt(node.items, i, item), node.children)
<1> DEFINE list == node.items
           children == node.children
           new == ReplaceAt(list, i, item)
<1>1. node = [items |-> list, children |-> children]
  BY TreeParts DEF Branch
<1>2. [node EXCEPT !.items[i] = item] = [node EXCEPT !.items = [node.items EXCEPT ![i] = item]]
  OBVIOUS
<1>3. [node.items EXCEPT ![i] = item] = new
  BY DEF ReplaceAt
<1> HIDE DEF list, children, new
<1>4. [node EXCEPT !.items = new] = [items |-> new, children |-> children]
  BY <1>1
<1> QED
  BY <1>2, <1>3, <1>4 DEF Branch, list, children, new

(* An item replaced in a leaf. *)
LEMMA PutsOverLeaf ==
    ASSUME NEW node \in Tree[1], NEW item \in Item, NEW i \in 1 .. Len(node.items),
           node.items[i].key = item.key
    PROVE  Puts(Walk(1, node), item, node.items[i], Walk(1, [node EXCEPT !.items[i] = item]))
<1> DEFINE s == node.items
           a == SubSeq(s, 1, i - 1)
           b == SubSeq(s, i + 1, Len(s))
           prev == s[i]
           new == ReplaceAt(s, i, item)
           none == <<>>
           h == 1
<1>1. s \in Seq(Item) /\ node.children = <<>> /\ h \in Nat /\ h >= 1 /\ h <= 1
  BY TreeParts
<1>2. /\ a \in Seq(Item) /\ b \in Seq(Item) /\ s = Spliced(a, <<prev>>, b)
      /\ Len(a) = i - 1 /\ prev \in Item
  <2> HIDE DEF s
  <2>1. s \in Seq(Item) /\ i \in 1 .. Len(s)
    BY <1>1 DEF s
  <2> QED
    BY <2>1, SplicedAtElement
<1>3. i = Len(a) + 1
  BY <1>2
<1>4. node \in Tree[h] /\ prev.key = item.key
  OBVIOUS
<1>5. [node EXCEPT !.items[i] = item] = Branch(new, none)
  BY <1>1, ItemsReplaced
<1>n. none \in Seq(Tree[h - 1])
  OBVIOUS
<1> HIDE DEF a, b, prev, s, new, h, none
<1>6. new = Spliced(a, <<item>>, b)
  <2>1. ReplaceAt(Spliced(a, <<prev>>, b), i, item) = Spliced(a, <<item>>, b)
    BY <1>2, <1>3, ReplaceAtSpliced
  <2> QED
    BY <1>2, <2>1 DEF new
<1>7. new \in Seq(Item)
  <2>1. <<item>> \in Seq(Item)
    OBVIOUS
  <2> QED
    BY <1>2, <1>6, <2>1, SplicedIs
<1>8. Branch(new, none) \in Tree[h] /\ Branch(new, none).items = new
  BY <1>1, <1>7, <1>n, TreeMade DEF h, none, Branch
<1>9. Walk(h, node) = s /\ Walk(h, Branch(new, none)) = new
  BY <1>1, <1>4, <1>8, WalkOfLeaf DEF s
<1>10. Puts(Framed(a, <<prev>>, b), item, prev, Framed(a, <<item>>, b))
  BY <1>2, <1>4, PutsInPlace
<1>11. Framed(a, <<prev>>, b) = s /\ Framed(a, <<item>>, b) = new
  BY <1>2, <1>6 DEF Framed, Cat, Spliced
<1> QED
  BY <1>5, <1>9, <1>10, <1>11 DEF h, prev, s

(* An item replaced in a branch. *)
LEMMA PutsOverBranch ==
    ASSUME NEW h \in Nat, h >= 2, NEW lo \in Int, NEW hi \in Int, NEW node \in Good(h, lo, hi),
           NEW item \in Item, NEW i \in 1 .. Len(node.items), node.items[i].key = item.key
    PROVE  Puts(Walk(h, node), item, node.items[i], Walk(h, [node EXCEPT !.items[i] = item]))
<1> DEFINE k == h - 1
           l == node.children[i]
           r == node.children[i + 1]
           m == node.items[i]
           new == [node EXCEPT !.items[i] = item]
<1>1. /\ \E f : IsSite(h, f, i) /\ node = Site(f, <<m>>, <<l, r>>)
      /\ l \in Sub[k] /\ r \in Sub[k] /\ m \in Item
  BY SiteAtItem
<1>2. node \in Tree[h] /\ h >= 1 /\ k \in Nat
  BY GoodParts
<1>3. l \in Tree[k] /\ r \in Tree[k]
  <2> HIDE DEF l, r
  <2> QED
    BY <1>1, <1>2, SubIsGood
<1>4. new = Branch(ReplaceAt(node.items, i, item), node.children)
  BY <1>2, ItemsReplaced
<1>5. m.key = item.key
  OBVIOUS
<1> HIDE DEF l, r, m, new
<1>6. PICK f : IsSite(h, f, i) /\ node = Site(f, <<m>>, <<l, r>>)
  BY <1>1
<1>7. OnSite(h, f, i, l, m, r) /\ OnSite(h, f, i, l, item, r)
  BY <1>1, <1>3, <1>6 DEF OnSite
<1>8. new = Site(f, <<item>>, <<l, r>>)
  <2> DEFINE a == f.lower
             b == f.upper
  <2>1. a \in Seq(Item) /\ b \in Seq(Item) /\ i = Len(a) + 1
    BY <1>6, SiteParts
  <2>2. node.items = Spliced(a, <<m>>, b) /\ node.children = Spliced(f.left, <<l, r>>, f.right)
    BY <1>6, SiteItems
  <2> HIDE DEF a, b
  <2>3. ReplaceAt(Spliced(a, <<m>>, b), i, item) = Spliced(a, <<item>>, b)
    BY <1>1, <2>1, ReplaceAtSpliced
  <2> QED
    BY <1>4, <2>2, <2>3 DEF Site, a, b
<1> DEFINE L == LeftWalk(h, f)
           R == RightWalk(h, f)
           wl == Walk(h - 1, l)
           wr == Walk(h - 1, r)
<1>9. /\ Walk(h, node) = Framed(L, Framed(wl, <<m>>, wr), R)
      /\ Walk(h, new) = Framed(L, Framed(wl, <<item>>, wr), R)
      /\ wl \in Seq(Item) /\ wr \in Seq(Item)
  BY <1>6, <1>7, <1>8, TwoWalk
<1>10. L \in Seq(Item) /\ R \in Seq(Item)
  BY <1>6, SitePairs
<1> HIDE DEF L, R, wl, wr
<1> DEFINE a == Cat(L, wl)
           b == Cat(wr, R)
           was == <<m>>
           one == <<item>>
<1>11. a \in Seq(Item) /\ b \in Seq(Item) /\ was \in Seq(Item) /\ one \in Seq(Item)
  BY <1>1, <1>9, <1>10, CatIn
<1> HIDE DEF was, one
<1>12. /\ Framed(L, Framed(wl, was, wr), R) = Framed(a, was, b)
       /\ Framed(L, Framed(wl, one, wr), R) = Framed(a, one, b)
  BY <1>9, <1>10, <1>11, FramedTwice
<1> HIDE DEF a, b
<1>13. Puts(Framed(a, was, b), item, m, Framed(a, one, b))
  BY <1>1, <1>5, <1>11, PutsInPlace DEF was, one
<1> QED
  BY <1>9, <1>12, <1>13 DEF was, one, m, new

\* What an insertion that came to s did to the walk.
WalkPuts(h, node, item, s) == Puts(Walk(h, node), item, s.prev, Walk(h, s.node))

(* An item set at a node. *)
LEMMA SetHereWalk ==
    ASSUME NEW h \in Nat, h >= 1, NEW lo \in Int, NEW hi \in Int, NEW node \in Good(h, lo, hi),
           NEW item \in Item, NEW p,
           NEW i, i = node_find(node, item.key), HasAt(node, i, item.key) \/ IsLeaf(node),
           NEW s, s = SetHere(node, i, item, p)
    PROVE  WalkPuts(h, node, item, s)
<1>1. /\ node \in Tree[h] /\ node.items \in Seq(Item) /\ (IsLeaf(node) <=> h = 1)
  BY GoodParts
<1>2. i \in 1 .. Len(node.items) + 1
  BY <1>1, PlaceOfKey
<1>3. CASE HasAt(node, i, item.key)
  <2>1. s.node = [node EXCEPT !.items[i] = item] /\ s.prev = node.items[i]
    BY <1>3 DEF SetHere
  <2>2. i \in 1 .. Len(node.items) /\ node.items[i].key = item.key
    BY <1>1, <1>2, <1>3 DEF HasAt
  <2>3. CASE h = 1
    <3>1. node \in Tree[1]
      BY <1>1, <2>3
    <3>2. Puts(Walk(1, node), item, node.items[i], Walk(1, [node EXCEPT !.items[i] = item]))
      BY <2>2, <3>1, PutsOverLeaf
    <3> QED
      BY <2>1, <2>3, <3>2 DEF WalkPuts
  <2>4. CASE h # 1
    <3>1. h >= 2
      BY <2>4
    <3>2. Puts(Walk(h, node), item, node.items[i], Walk(h, [node EXCEPT !.items[i] = item]))
      BY <2>2, <3>1, PutsOverBranch
    <3> QED
      BY <2>1, <3>2 DEF WalkPuts
  <2> QED
    BY <2>3, <2>4
<1>4. CASE ~HasAt(node, i, item.key)
  <2> DEFINE new == InsertAt(node.items, i, item)
  <2>1. s.node = Leaf(new) /\ s.prev = NoItem /\ h = 1 /\ h <= 1
    BY <1>1, <1>4 DEF SetHere
  <2>2. Puts(node.items, item, NoItem, new)
    BY <1>1, <1>4, PutsInLeaf
  <2>3. PICK X, M, Y : PutsAt(X, M, Y, node.items, item, NoItem, new)
    BY <2>2 DEF Puts
  <2>4. new \in Seq(Item)
    <3>1. X \in Seq(Item) /\ Y \in Seq(Item) /\ new = Framed(X, <<item>>, Y)
      BY <2>3 DEF PutsAt
    <3>2. <<item>> \in Seq(Item)
      OBVIOUS
    <3> QED
      BY <3>1, <3>2, FramedIn
  <2> HIDE DEF new
  <2>5. Leaf(new) \in Tree[h] /\ Leaf(new).items = new
    <3> DEFINE none == <<>>
    <3>1. none \in Seq(Tree[h - 1]) /\ Leaf(new) = Branch(new, none) /\ Leaf(new).items = new
      BY DEF Leaf, Branch
    <3>2. IF h = 1 THEN none = <<>> ELSE Len(none) = Len(new) + 1
      BY <2>1
    <3> HIDE DEF none
    <3> QED
      BY <2>4, <3>1, <3>2, TreeMade
  <2>6. Walk(h, node) = node.items /\ Walk(h, Leaf(new)) = new
    BY <1>1, <2>1, <2>5, WalkOfLeaf
  <2> QED
    BY <2>1, <2>2, <2>6 DEF WalkPuts
<1> QED
  BY <1>3, <1>4

(* An item set below a branch. *)
LEMMA SetBelowWalk ==
    ASSUME NEW h, NEW lo, NEW hi, NEW node, NEW lean_left, NEW p, NEW i, NEW c, NEW s,
           IsSetBelow(h, lo, hi, node, lean_left, p, i, c, s),
           NEW item \in Item, i = node_find(node, item.key), ~HasAt(node, i, item.key),
           WalkPuts(h - 1, node.children[i], item, c)
    PROVE  WalkPuts(h, node, item, s)
<1> DEFINE child == node.children[i]
           k == h - 1
           n == Len(node.items)
           L(f) == LeftWalk(h, f)
           R(f) == RightWalk(h, f)
<1>h. /\ h \in Nat /\ h >= 2 /\ lo \in Int /\ hi \in Int /\ node \in Good(h, lo, hi)
      /\ lean_left \in BOOLEAN /\ p \in Pool
      /\ i \in 1 .. n + 1 /\ SizedSet(k, child, p, c)
      /\ s = SetBelow(node, i, c, lean_left)
  BY DEF IsSetBelow
<1>0. k \in Nat /\ k >= 1 /\ h >= 1
  BY <1>h
<1>1. /\ \E f : IsSite(h, f, i) /\ node = Site(f, <<>>, <<child>>)
      /\ child \in Sub[k]
  BY <1>h, SiteAtChild
<1>p. PICK f : IsSite(h, f, i) /\ node = Site(f, <<>>, <<child>>)
  BY <1>1
<1>g. item.key \in Int /\ i = node_find(node, item.key) /\ ~HasAt(node, i, item.key)
  BY KeysAreInt
<1>w. Puts(Walk(k, child), item, c.prev, Walk(k, c.node))
  BY DEF WalkPuts
<1> HIDE DEF child
<1>2. child \in Tree[k]
  BY <1>0, <1>1, SubIsGood
<1>3. c.node \in Tree[k] /\ (Full(c.node) => c.node \in Good(k, MaxItems - 1, MaxItems - 1))
  BY <1>h, <1>0, <1>1, ChildSet
<1>4. Walk(h, node) = Framed(L(f), Walk(k, child), R(f)) /\ Walk(k, child) \in Seq(Item)
  BY <1>p, <1>2, OneWalk
<1>5. L(f) \in Seq(Item) /\ R(f) \in Seq(Item)
  BY <1>p, SitePairs
<1>6. Sorted(Walk(h, node)) => KeysUnder(L(f), item.key) /\ KeysOver(item.key, R(f))
  <2>1. IsPlace(h, f, i, child, node, item.key)
    BY <1>g, <1>p, <1>2 DEF IsPlace
  <2> QED
    BY <2>1, PlaceBounds
<1>7. Puts(Walk(h, node), item, c.prev, Framed(L(f), Walk(k, c.node), R(f)))
  <2> HIDE DEF k, L, R
  <2> QED
    BY <1>w, <1>4, <1>5, <1>6, PutsWithin
<1> DEFINE below == [node EXCEPT !.children[i] = c.node]
<1>8. below = Site(f, <<>>, <<c.node>>)
  <2>1. [Site(f, <<>>, <<child>>) EXCEPT !.children[i] = c.node] = Site(f, <<>>, <<c.node>>)
    BY <1>p, <1>2, <1>3, SiteSetChild
  <2> QED
    BY <1>p, <2>1
<1>9. Walk(h, below) = Framed(L(f), Walk(k, c.node), R(f))
  BY <1>p, <1>3, <1>8, OneWalk
<1> HIDE DEF below
<1>11. CASE c.prev = NoItem /\ Full(c.node)
  <2> DEFINE sp == node_split(c.node, lean_left)
             l == sp.left
             r == sp.right
             m == sp.median
             new == Site(f, <<m>>, <<l, r>>)
  <2>1. l \in Sub[k] /\ r \in Sub[k] /\ m \in Item /\ c.node = Joined(l, m, r)
    BY <1>h, <1>0, <1>3, <1>11, NodeSplit
  <2>2. sp = [left |-> l, median |-> m, right |-> r]
    BY DEF node_split
  <2> HIDE DEF l, r, m, sp
  <2>3. l \in Tree[k] /\ r \in Tree[k]
    BY <1>0, <2>1, SubIsGood
  <2>4. SplitChild(below, i, lean_left) = new
    <3>1. SplitsInto(h, f, i, c.node, lean_left, l, m, r)
      BY <1>p, <1>3, <2>1, <2>2, <2>3 DEF sp, SplitsInto
    <3>2. SplitChild(Site(f, <<>>, <<c.node>>), i, lean_left) = Site(f, <<m>>, <<l, r>>)
      BY <3>1, SiteSplit
    <3> QED
      BY <1>8, <3>2 DEF new
  <2>5. s.node = new /\ s.prev = NoItem
    BY <1>h, <1>11, <2>4 DEF SetBelow, below
  <2>6. Walk(k, c.node) = Framed(Walk(k, l), <<m>>, Walk(k, r))
    <3> HIDE DEF k
    <3> QED
      BY <1>0, <2>1, <2>3, JoinedWalk
  <2>7. OnSite(h, f, i, l, m, r)
    BY <1>p, <2>1, <2>3 DEF OnSite
  <2>8. Walk(h, new) = Framed(L(f), Framed(Walk(k, l), <<m>>, Walk(k, r)), R(f))
    BY <2>7, TwoWalk
  <2>9. Walk(h, s.node) = Framed(L(f), Walk(k, c.node), R(f))
    BY <2>5, <2>6, <2>8
  <2> QED
    BY <1>7, <1>11, <2>5, <2>9 DEF WalkPuts
<1>12. CASE ~(c.prev = NoItem /\ Full(c.node))
  <2>1. s = [c EXCEPT !.node = below]
    BY <1>h, <1>12 DEF SetBelow, below
  <2>2. c = [node |-> c.node, prev |-> c.prev, pool |-> c.pool]
    <3> HIDE DEF k
    <3> QED
      BY <1>h, SizedSetParts
  <2>3. s.node = below /\ s.prev = c.prev
    BY <2>1, <2>2
  <2> QED
    BY <1>7, <1>9, <2>3 DEF WalkPuts
<1> QED
  BY <1>11, <1>12

(* node_set puts the item into the walk. *)
LEMMA NodeSetWalk ==
    ASSUME NEW item, NEW lean_left, NEW p, IsSetting(item, lean_left, p),
           NEW h \in Nat, h >= 1, NEW tree \in Good(h, 0, MaxItems - 2)
    PROVE  WalkPuts(h, tree, item, node_set(h, tree, item, lean_left, p))
<1> DEFINE T(k) == \A node \in Good(k, 0, MaxItems - 2) : WalkPuts(k, node, item, node_set(k, node, item, lean_left, p))
           S == {k \in Nat : k >= 1 => T(k)}
<1>0. item \in Item /\ lean_left \in BOOLEAN /\ p \in Pool
  BY DEF IsSetting
<1>m. 0 \in Int /\ MaxItems - 2 \in Int /\ MinItems \in Int /\ MinItems >= 0
  BY MinItemsBound
<1>1. 0 \in S
  OBVIOUS
<1>2. ASSUME NEW k \in Nat, k \in S PROVE k + 1 \in S
  <2> DEFINE h1 == k + 1
  <2>0. h1 \in Nat /\ h1 >= 1 /\ h1 - 1 = k
    OBVIOUS
  <2>k. k >= 1 => T(k)
    BY <1>2
  <2> HIDE DEF h1, T
  <2>1. ASSUME NEW node, node \in Good(h1, 0, MaxItems - 2)
        PROVE  WalkPuts(h1, node, item, node_set(h1, node, item, lean_left, p))
    <3> DEFINE i == node_find(node, item.key)
               s == node_set(h1, node, item, lean_left, p)
    <3>1. /\ node \in Tree[h1] /\ node.items \in Seq(Item)
          /\ IsLeaf(node) <=> h1 = 1
      BY <2>0, <2>1, <1>m, GoodParts
    <3>2. i \in 1 .. Len(node.items) + 1
      BY <3>1, PlaceOfKey
    <3>3. s = IF HasAt(node, i, item.key) \/ IsLeaf(node) THEN SetHere(node, i, item, p)
              ELSE SetBelow(node, i, node_set(h1 - 1, node.children[i], item, lean_left, p), lean_left)
      BY <1>0, <2>0, <3>1, NodeSetIs
    <3>6. i = node_find(node, item.key)
      OBVIOUS
    <3> HIDE DEF i, s
    <3>4. CASE HasAt(node, i, item.key) \/ IsLeaf(node)
      <4>1. s = SetHere(node, i, item, p)
        BY <3>3, <3>4
      <4>2. WalkPuts(h1, node, item, s)
        BY <1>0, <1>m, <2>0, <2>1, <3>4, <3>6, <4>1, SetHereWalk
      <4> QED
        BY <4>2 DEF s
    <3>5. CASE ~(HasAt(node, i, item.key) \/ IsLeaf(node))
      <4> DEFINE c == node_set(k, node.children[i], item, lean_left, p)
                 child == node.children[i]
      <4>1. h1 >= 2 /\ k >= 1
        <5>1. h1 # 1
          BY <3>1, <3>5
        <5> QED
          BY <5>1, <2>0
      <4>2. s = SetBelow(node, i, c, lean_left)
        BY <3>3, <3>5, <2>0
      <4>3. child \in Sub[k]
        BY <1>m, <2>0, <2>1, <3>2, <4>1, SiteAtChild
      <4>4. child \in Good(k, 0, MaxItems - 2)
        <5>1. child \in Good(k, MinItems, MaxItems - 2)
          BY <4>1, <4>3, SubIsGood
        <5> HIDE DEF child
        <5> QED
          BY <5>1, <1>m, GoodWithin
      <4>5. SizedSet(k, child, p, c)
        BY <4>1, <4>4, NodeSetSized
      <4>8. WalkPuts(h1 - 1, child, item, c)
        BY <2>0, <2>k, <4>1, <4>4 DEF T
      <4> HIDE DEF c
      <4>6. IsSetBelow(h1, 0, MaxItems - 2, node, lean_left, p, i, c, s)
        BY <1>0, <1>m, <2>0, <2>1, <3>2, <4>1, <4>2, <4>5 DEF IsSetBelow
      <4>7. WalkPuts(h1, node, item, s)
        BY <1>0, <3>5, <3>6, <4>6, <4>8, SetBelowWalk
      <4> QED
        BY <4>7 DEF s
    <3> QED
      BY <3>4, <3>5
  <2>2. T(h1)
    BY <2>1 DEF T
  <2> QED
    BY <2>0, <2>2 DEF h1
<1>3. h \in S
  <2> HIDE DEF S
  <2> QED
    BY <1>1, <1>2, SetInduction
<1> QED
  BY <1>3

(* A root split under a new one is walked as before. *)
LEMMA GrowRootWalk ==
    ASSUME NEW h \in Nat, h >= 1, NEW node, node \in Good(h, MaxItems - 1, MaxItems - 1),
           NEW lean_left \in BOOLEAN, NEW s, s.node = node
    PROVE  Walk(h + 1, GrowRoot(s, lean_left).node) = Walk(h, node)
<1> DEFINE sp == node_split(node, lean_left)
           l == sp.left
           r == sp.right
           m == sp.median
           list == <<m>>
           children == <<l, r>>
           k == h + 1
           new == Branch(list, children)
<1>0. k \in Nat /\ k >= 1 /\ k >= 2 /\ k - 1 = h /\ k # 1
  OBVIOUS
<1>1. l \in Sub[h] /\ r \in Sub[h] /\ m \in Item /\ node = Joined(l, m, r)
  BY NodeSplit
<1>2. GrowRoot(s, lean_left).node = new
  BY DEF GrowRoot, Branch
<1> HIDE DEF l, r, m, sp
<1>3. l \in Tree[h] /\ r \in Tree[h]
  BY <1>1, SubIsGood
<1>4. list \in Seq(Item) /\ Len(list) = 1
  BY <1>1, OneElement
<1>5. children \in Seq(Tree[h]) /\ Len(children) = 2
  BY <1>3, TwoElements
<1>6. Walks(h, children) = <<Walk(h, l), Walk(h, r)>>
  BY WalksTwo
<1>7. Walk(h, l) \in Seq(Item) /\ Walk(h, r) \in Seq(Item)
  BY <1>3, WalkInSeq
<1>8. Woven(list, <<Walk(h, l), Walk(h, r)>>) = Framed(Walk(h, l), list, Walk(h, r))
  BY <1>1, <1>7, OneWoven
<1>9. Walk(h, node) = Framed(Walk(h, l), list, Walk(h, r))
  BY <1>1, <1>3, JoinedWalk
<1> HIDE DEF list, children, k
<1>10. new \in Tree[k]
  <2>1. IF k = 1 THEN children = <<>> ELSE Len(children) = Len(list) + 1
    BY <1>0, <1>4, <1>5
  <2>2. children \in Seq(Tree[k - 1])
    BY <1>0, <1>5
  <2> QED
    BY <1>0, <1>4, <2>1, <2>2, TreeMade
<1>11. new.items = list /\ new.children = children
  BY DEF Branch
<1> HIDE DEF new
<1>12. Walk(k, new) = Woven(list, Walks(h, children))
  BY <1>0, <1>10, <1>11, WalkOfBranch
<1>13. Walk(k, new) = Walk(h, node)
  BY <1>6, <1>8, <1>9, <1>12
<1> QED
  BY <1>2, <1>13 DEF k

\* What an insertion into the tree that came to s did to the walk.
TreePuts(h, tree, item, s) == Puts(Walk(h, tree), item, s.prev, Walk(h + s.grown, s.node))

(* btree_set_x puts the item into the walk. *)
LEMMA SetIntoWalk ==
    ASSUME NEW item, NEW lean_left, NEW p, IsSetting(item, lean_left, p), Whole(height, root),
           NEW s, s = SetInto(item, lean_left, p)
    PROVE  TreePuts(height, root, item, s)
<1>0. item \in Item /\ lean_left \in BOOLEAN /\ p \in Pool
  BY DEF IsSetting
<1>1. /\ height \in Nat /\ root \in Tree[height]
      /\ root = NoTree <=> height = 0
      /\ height # 0 => height >= 1 /\ root \in Good(height, 1, MaxItems - 2)
  BY WholeParts
<1>5. CASE root = NoTree
  <2> DEFINE new == <<item>>
             none == <<>>
             h == 1
  <2>1. s.node = Leaf(new) /\ s.prev = NoItem /\ s.grown = h
    BY <1>5 DEF SetInto
  <2>2. height = 0 /\ height + s.grown = h
    BY <1>1, <1>5, <2>1
  <2>3. new \in Seq(Item) /\ none \in Seq(Item)
    BY <1>0
  <2>4. Walk(height, root) = none
    <3>1. Walk(height, root) = root.items
      BY <1>1, <2>2, WalkOfLeaf
    <3> QED
      BY <1>5, <3>1 DEF NoTree
  <2>5. h \in Nat /\ h <= 1 /\ Leaf(new) \in Tree[h] /\ Leaf(new).items = new
    <3>1. Leaf(new) \in Good(1, 1, MaxItems - 2)
      BY <1>0, FirstItem
    <3> QED
      BY <3>1, InGood DEF Leaf
  <2> HIDE DEF h
  <2>6. Walk(h, Leaf(new)) = new
    BY <2>5, WalkOfLeaf
  <2>7. KeysUnder(none, item.key) /\ KeysOver(item.key, none)
    BY ShownByOne DEF KeysUnder, KeysOver
  <2> HIDE DEF none
  <2>8. Puts(Cat(none, none), item, NoItem, Framed(none, <<item>>, none))
    BY <1>0, <2>3, <2>7, PutsBetween
  <2> HIDE DEF new
  <2>9. Cat(none, none) = none /\ Framed(none, new, none) = new
    BY <2>3, CatNone DEF none, Framed
  <2>10. Puts(none, item, NoItem, new)
    BY <2>8, <2>9 DEF new
  <2> QED
    BY <2>1, <2>2, <2>4, <2>6, <2>10 DEF TreePuts
<1>6. CASE root # NoTree
  <2> DEFINE t == node_set(height, root, item, lean_left, p)
             n == Len(root.items)
             h1 == height + 1
  <2>1. height >= 1 /\ root \in Good(height, 1, MaxItems - 2)
    BY <1>1, <1>6
  <2>2. root \in Good(height, 0, MaxItems - 2) /\ n \in 1 .. MaxItems - 2 /\ MaxItems \in Nat
    <3> DEFINE hi == MaxItems - 2
    <3>1. hi \in Int /\ MaxItems \in Nat
      BY MinItemsBound
    <3> HIDE DEF hi
    <3>2. root \in Good(height, 1, hi)
      BY <2>1 DEF hi
    <3>3. root \in Good(height, 0, hi) /\ n \in 1 .. hi
      BY <3>1, <3>2, GoodWithin, InGood
    <3> QED
      BY <3>1, <3>3 DEF hi
  <2>3. SizedSet(height, root, p, t) /\ WalkPuts(height, root, item, t)
    BY <1>1, <2>1, <2>2, NodeSetSized, NodeSetWalk
  <2>4. s = IF t.prev = NoItem /\ Full(t.node) THEN GrowRoot(t, lean_left)
            ELSE [node |-> t.node, prev |-> t.prev, pool |-> t.pool, grown |-> 0]
    BY <1>6 DEF SetInto
  <2> HIDE DEF t
  <2>5. t.node \in Good(height, n, n + 1)
    BY <2>3, SizedSetParts
  <2>6. Puts(Walk(height, root), item, t.prev, Walk(height, t.node))
    BY <2>3 DEF WalkPuts
  <2>7. CASE t.prev = NoItem /\ Full(t.node)
    <3>1. s = GrowRoot(t, lean_left) /\ s.prev = NoItem /\ s.grown = 1
      BY <2>4, <2>7 DEF GrowRoot
    <3>2. t.node \in Good(height, MaxItems - 1, MaxItems - 1)
      <4>1. t.node \in Tree[height] /\ t.node.children \in Seq(Sub[height - 1])
        BY <2>5, InGood
      <4>2. Len(t.node.items) = MaxItems - 1
        BY <2>7 DEF Full
      <4>3. Len(t.node.items) \in MaxItems - 1 .. MaxItems - 1
        BY <2>2, <4>2
      <4> QED
        BY <4>1, <4>3, InGood
    <3>3. Walk(h1, GrowRoot(t, lean_left).node) = Walk(height, t.node)
      BY <1>0, <1>1, <2>1, <3>2, GrowRootWalk
    <3> QED
      BY <2>6, <2>7, <3>1, <3>3 DEF TreePuts
  <2>8. CASE ~(t.prev = NoItem /\ Full(t.node))
    <3>1. s.node = t.node /\ s.prev = t.prev /\ s.grown = 0
      BY <2>4, <2>8
    <3>2. height + s.grown = height
      BY <1>1, <3>1
    <3> QED
      BY <2>6, <3>1, <3>2 DEF TreePuts
  <2> QED
    BY <2>7, <2>8
<1> QED
  BY <1>5, <1>6

-----------------------------------------------------------------------------
(* Items at the ends.                                                        *)

(* Nothing is walked before the first child, or behind the last one. *)
LEMMA FirstSite ==
    ASSUME NEW h, NEW f, NEW i, IsSite(h, f, i), i = 1
    PROVE  LeftWalk(h, f) = <<>>
<1>1. f.lower \in Seq(Item) /\ i = Len(f.lower) + 1
  BY SiteParts
<1>2. f.lower = <<>>
  BY <1>1
<1> QED
  BY <1>2, LeftEnds

(* Nothing is walked behind the last child. *)
LEMMA LastSite ==
    ASSUME NEW h, NEW f, NEW i, IsSite(h, f, i), NEW c, NEW node, node = Site(f, <<>>, <<c>>),
           i = Len(node.items) + 1
    PROVE  RightWalk(h, f) = <<>>
<1> DEFINE under == Len(f.lower)
           up  == Len(f.upper)
           n   == Len(node.items)
<1>1. f.lower \in Seq(Item) /\ f.upper \in Seq(Item) /\ i = under + 1
  BY SiteParts
<1>2. node.items = Spliced(f.lower, <<>>, f.upper)
  BY SiteItems
<1>3. n = under + up
  BY <1>1, <1>2, BesidePlace
<1>4. under \in Nat /\ up \in Nat /\ (up = 0 => f.upper = <<>>)
  BY <1>1
<1>5. i = n + 1
  OBVIOUS
<1> HIDE DEF under, up, n
<1>6. f.upper = <<>>
  BY <1>1, <1>3, <1>4, <1>5
<1> QED
  BY <1>6, RightBegins

IsAppendedWalk(h, node, item, t) == t \in Tree[h] /\ Walk(h, t) = Cat(Walk(h, node), <<item>>)

(* An item appended below a branch. *)
LEMMA AppendBelowWalk ==
    ASSUME NEW h, NEW lo, NEW node, NEW item, IsAppending(h, lo, node, item), h # 1, NEW c,
           IsAppendedWalk(h - 1, Last(node.children), item, c), NEW t, SetsLastChild(node, c, t)
    PROVE  IsAppendedWalk(h, node, item, t)
<1> DEFINE hi == MaxItems - 2
           k == h - 1
           i == Len(node.children)
           child == Last(node.children)
           one == <<item>>
<1>h. /\ h \in Nat /\ h >= 1 /\ lo \in Int /\ node \in Good(h, lo, hi) /\ item \in Item
  BY DEF IsAppending
<1>m. hi \in Int
  BY MinItemsBound
<1> HIDE DEF hi
<1>0. h >= 2 /\ k \in Nat /\ k >= 1
  BY <1>h
<1>1. /\ node.items \in Seq(Item)
      /\ i = Len(node.items) + 1 /\ Len(node.items) \in Nat
      /\ node.children \in Seq(Tree[k])
  BY <1>h, <1>m, GoodParts
<1>2. child = node.children[i] /\ i \in 1 .. Len(node.items) + 1 /\ child \in Tree[k]
  BY <1>1 DEF Last
<1>3. c \in Tree[k] /\ Walk(k, c) = Cat(Walk(k, child), one)
  BY DEF IsAppendedWalk
<1>5. t = [node EXCEPT !.children[i] = c]
  BY DEF ReplaceAt, SetsLastChild
<1>6. one \in Seq(Item)
  BY <1>h
<1> HIDE DEF child, one
<1>7. \E f : IsSite(h, f, i) /\ node = Site(f, <<>>, <<child>>)
  <2> HIDE DEF i
  <2> QED
    BY <1>h, <1>0, <1>m, <1>2, SiteAtChild
<1>8. PICK f : IsSite(h, f, i) /\ node = Site(f, <<>>, <<child>>)
  BY <1>7
<1>n. i = Len(node.items) + 1
  BY <1>1
<1> HIDE DEF i
<1>9. RightWalk(h, f) = <<>>
  BY <1>n, <1>8, LastSite
<1>10. t = Site(f, <<>>, <<c>>)
  <2>1. [Site(f, <<>>, <<child>>) EXCEPT !.children[i] = c] = Site(f, <<>>, <<c>>)
    BY <1>2, <1>3, <1>8, SiteSetChild
  <2> QED
    BY <1>5, <1>8, <2>1
<1> DEFINE L == LeftWalk(h, f)
<1>11. /\ Walk(h, node) = Framed(L, Walk(k, child), RightWalk(h, f)) /\ Walk(k, child) \in Seq(Item)
       /\ Walk(h, t) = Framed(L, Walk(k, c), RightWalk(h, f)) /\ Walk(k, c) \in Seq(Item)
       /\ t \in Tree[h]
  BY <1>2, <1>3, <1>8, <1>10, OneWalk
<1>12. L \in Seq(Item)
  BY <1>8, SitePairs
<1> HIDE DEF L
<1>13. Walk(h, node) = Cat(L, Walk(k, child)) /\ Walk(h, t) = Cat(L, Walk(k, c))
  <2>1. Cat(L, Walk(k, child)) \in Seq(Item) /\ Cat(L, Walk(k, c)) \in Seq(Item)
    BY <1>11, <1>12, CatIn
  <2> QED
    BY <1>9, <1>11, <2>1, CatNone DEF Framed
<1>14. Cat(Cat(L, Walk(k, child)), one) = Cat(L, Cat(Walk(k, child), one))
  BY <1>6, <1>11, <1>12, CatAssoc
<1> QED
  BY <1>3, <1>11, <1>13, <1>14 DEF IsAppendedWalk, one

(* AppendToLastLeaf appends to the walk. *)
LEMMA AppendWalk ==
    ASSUME NEW h \in Nat, NEW lo, NEW node, NEW item, IsAppending(h, lo, node, item)
    PROVE  IsAppendedWalk(h, node, item, AppendToLastLeaf(h, node, item))
<1> DEFINE T(k) == \A l, x : IsAppending(k, l, x, item) => IsAppendedWalk(k, x, item, AppendToLastLeaf(k, x, item))
           S == {k \in Nat : T(k)}
<1>1. 0 \in S
  BY DEF IsAppending
<1>2. ASSUME NEW k \in Nat, k \in S PROVE k + 1 \in S
  <2> DEFINE h1 == k + 1
  <2>0. h1 \in Nat /\ h1 >= 1 /\ h1 - 1 = k
    OBVIOUS
  <2>k. T(k)
    BY <1>2
  <2> HIDE DEF h1, T
  <2>1. ASSUME NEW l, NEW x, IsAppending(h1, l, x, item)
        PROVE  IsAppendedWalk(h1, x, item, AppendToLastLeaf(h1, x, item))
    <3> DEFINE c == AppendToLastLeaf(k, Last(x.children), item)
               t == AppendToLastLeaf(h1, x, item)
               hi == MaxItems - 2
    <3>h. /\ l \in Int /\ x \in Good(h1, l, hi) /\ item \in Item
          /\ Len(LastLeaf[h1][x].items) < hi
      BY <2>1 DEF IsAppending
    <3>m. hi \in Int /\ MinItems \in Int
      BY MinItemsBound
    <3> HIDE DEF hi
    <3>1. x \in Tree[h1] /\ (IsLeaf(x) <=> h1 = 1) /\ x.children \in Seq(Sub[h1 - 1])
      BY <2>0, <3>h, <3>m, GoodParts
    <3>2. t = IF IsLeaf(x) THEN Leaf(Append(x.items, item))
              ELSE [x EXCEPT !.children = ReplaceAt(@, Len(@), c)]
      <4>1. c = AppendToLastLeaf(h1 - 1, Last(x.children), item)
        BY <2>0
      <4> HIDE DEF c
      <4> QED
        BY <2>0, <3>h, <3>1, <4>1, AppendToLastLeafIs
    <3> HIDE DEF t
    <3>3. CASE h1 = 1
      <4>1. t = Leaf(Append(x.items, item))
        BY <3>1, <3>2, <3>3
      <4>2. IsAppended(h1, l, x, t)
        BY <2>1, <3>3, <4>1, AppendHere
      <4>3. t \in Tree[h1] /\ t.items = Append(x.items, item) /\ h1 <= 1
        BY <3>3, <4>1, <4>2, InGood DEF IsAppended, Leaf
      <4>4. Walk(h1, t) = Append(x.items, item) /\ Walk(h1, x) = x.items /\ x.items \in Seq(Item)
        BY <2>0, <3>1, <4>3, WalkOfLeaf
      <4>5. Append(x.items, item) = Cat(x.items, <<item>>)
        BY <3>h, <4>4, AppendIs DEF Cat
      <4> QED
        BY <4>3, <4>4, <4>5 DEF t, IsAppendedWalk
    <3>4. CASE h1 # 1
      <4> DEFINE child == Last(x.children)
      <4>1. SetsLastChild(x, c, t)
        BY <3>1, <3>2, <3>4 DEF SetsLastChild
      <4>2. child \in Sub[k]
        <5>1. x.children # <<>>
          BY <3>1, <3>4 DEF IsLeaf
        <5>2. x.children \in Seq(Sub[k])
          BY <2>0, <3>1
        <5> QED
          BY <5>1, <5>2, FrontAndLast
      <4>3. LastLeaf[h1][x] = LastLeaf[k][child]
        BY <2>0, <3>1, <3>4, LastLeafIs
      <4> HIDE DEF child
      <4>4. k >= 1
        BY <2>0, <3>4
      <4>5. child \in Good(k, MinItems, hi)
        BY <4>2, <4>4, SubIsGood DEF hi
      <4>6. IsAppending(k, MinItems, child, item)
        BY <3>h, <3>m, <4>3, <4>4, <4>5 DEF IsAppending, hi
      <4>7. IsAppendedWalk(k, child, item, AppendToLastLeaf(k, child, item))
        BY <2>k, <4>6 DEF T
      <4>8. IsAppendedWalk(h1 - 1, Last(x.children), item, c)
        BY <2>0, <4>7 DEF child
      <4> HIDE DEF c
      <4>9. IsAppendedWalk(h1, x, item, t)
        BY <2>1, <3>4, <4>1, <4>8, AppendBelowWalk
      <4> QED
        BY <4>9 DEF t
    <3> QED
      BY <3>3, <3>4
  <2>2. T(h1)
    BY <2>1 DEF T
  <2> QED
    BY <2>0, <2>2 DEF h1
<1>3. h \in S
  <2> HIDE DEF S
  <2> QED
    BY <1>1, <1>2, SetInduction
<1> QED
  BY <1>3

-----------------------------------------------------------------------------
(* What a deletion does to the walk.                                         *)

(* Two children next to each other are walked like the two joined. *)
LEMMA JoinedAlike ==
    ASSUME NEW h, NEW f, NEW j, NEW l, NEW m, NEW r, OnSite(h, f, j, l, m, r)
    PROVE  Walk(h, Site(f, <<m>>, <<l, r>>)) = Walk(h, Site(f, <<>>, <<Joined(l, m, r)>>))
<1> DEFINE k == h - 1
<1>1. IsSite(h, f, j) /\ m \in Item /\ l \in Tree[k] /\ r \in Tree[k]
  BY DEF OnSite
<1>2. k \in Nat /\ k >= 1
  BY <1>1, SiteParts
<1> HIDE DEF k
<1>3. /\ Walk(k, Joined(l, m, r)) = Framed(Walk(k, l), <<m>>, Walk(k, r))
      /\ Joined(l, m, r) \in Tree[k]
  BY <1>1, <1>2, JoinedWalk, JoinedTree
<1>4. Walk(h, Site(f, <<m>>, <<l, r>>))
      = Framed(LeftWalk(h, f), Framed(Walk(k, l), <<m>>, Walk(k, r)), RightWalk(h, f))
  BY TwoWalk DEF k
<1>5. Walk(h, Site(f, <<>>, <<Joined(l, m, r)>>))
      = Framed(LeftWalk(h, f), Walk(k, Joined(l, m, r)), RightWalk(h, f))
  BY <1>1, <1>3, OneWalk DEF k
<1> QED
  BY <1>3, <1>4, <1>5

(* Rebalancing leaves the walk as it is. *)
LEMMA RebalanceWalk ==
    ASSUME NEW h, NEW f, NEW j, NEW i, NEW l, NEW m, NEW r, NEW d, Unbalanced(h, f, j, i, l, m, r, d),
           NEW e, e = Rebalance(d, i)
    PROVE  Walk(h, e.node) = Walk(h, d.node)
<1>1. /\ OnSite(h, f, j, l, m, r) /\ h - 1 \in Nat /\ h - 1 >= 1 /\ KindAt(h - 1) \in Kinds
  BY UnbalancedParts
<1>2. IsDeletion(d) /\ d.node = Site(f, <<m>>, <<l, r>>)
  BY DEF Unbalanced
<1>3. \/ Untouched(h, l, r, d, e)
      \/ Merged(h, f, l, m, r, d, e)
      \/ \E l2, m2, r2 : Moved(h, f, l, m, r, d, e, l2, m2, r2)
  BY RebalanceIs
<1>4. CASE Untouched(h, l, r, d, e)
  BY <1>4 DEF Untouched
<1>5. CASE Merged(h, f, l, m, r, d, e)
  <2> DEFINE x == Site(f, <<>>, <<Joined(l, m, r)>>)
  <2>1. e = takeaway(WithNode(d, x), KindAt(h - 1))
    BY <1>5 DEF Merged
  <2>2. Walk(h, x) = Walk(h, Site(f, <<m>>, <<l, r>>))
    BY <1>1, JoinedAlike
  <2> HIDE DEF x
  <2>3. IsDeletion(WithNode(d, x)) /\ WithNode(d, x).node = x
    BY <1>2, NodeGiven
  <2>4. e.node = WithNode(d, x).node
    BY <1>1, <2>1, <2>3, TakesAway
  <2> QED
    BY <1>2, <2>2, <2>3, <2>4
<1>6. CASE \E l2, m2, r2 : Moved(h, f, l, m, r, d, e, l2, m2, r2)
  <2>0. PICK l2, m2, r2 : Moved(h, f, l, m, r, d, e, l2, m2, r2)
    BY <1>6
  <2> DEFINE x == Site(f, <<m2>>, <<l2, r2>>)
  <2>1. /\ l2 \in Sub[h - 1] /\ r2 \in Sub[h - 1] /\ m2 \in Item
        /\ Joined(l2, m2, r2) = Joined(l, m, r)
        /\ e = WithNode(d, x)
    BY <2>0 DEF Moved
  <2>2. OnSite(h, f, j, l2, m2, r2)
    BY <1>1, <2>1, SubIsGood DEF OnSite
  <2>3. Walk(h, x) = Walk(h, Site(f, <<m>>, <<l, r>>))
    <3>1. Walk(h, Site(f, <<m>>, <<l, r>>)) = Walk(h, Site(f, <<>>, <<Joined(l, m, r)>>))
      BY <1>1, JoinedAlike
    <3>2. Walk(h, x) = Walk(h, Site(f, <<>>, <<Joined(l2, m2, r2)>>))
      BY <2>2, JoinedAlike
    <3> QED
      BY <2>1, <3>1, <3>2
  <2> HIDE DEF x
  <2>4. e.node = x
    BY <1>2, <2>1, NodeGiven
  <2> QED
    BY <1>2, <2>3, <2>4
<1> QED
  BY <1>3, <1>4, <1>5, <1>6

(* The branch that a deletion below it comes to is walked like the branch patched. *)
LEMMA DeletedBelowWalk ==
    ASSUME NEW h, NEW lo, NEW hi, NEW node, NEW i, NEW met, NEW d, NEW e,
           IsDeletedBelow(h, lo, hi, node, i, met, d, e)
    PROVE  Walk(h, e.node) = Walk(h, Patched(node, i, d.node, met, d.prev))
<1> DEFINE prev == IF met THEN node.items[i] ELSE d.prev
           x == Patched(node, i, d.node, met, d.prev)
           w == WithBoth(d, prev, x)
           n == Len(node.items)
           k == h - 1
<1>h. /\ h \in Nat /\ h >= 2 /\ lo \in Int /\ hi \in Int /\ node \in Good(h, lo, hi)
      /\ IsDeletion(d) /\ d.node \in Loose(k)
      /\ Len(d.node.items) \in Len(node.children[i].items) - 1 .. Len(node.children[i].items)
      /\ i \in 1 .. n + 1
      /\ e = DeletedBelow(node, i, met, d)
  BY DEF IsDeletedBelow
<1>k. k \in Nat /\ k >= 1
  BY <1>h
<1>1. e = Rebalance(w, i)
  BY <1>h, DeletedBelowIs
<1> HIDE DEF prev, x
<1>2. IsDeletion(w) /\ w.node = x
  BY <1>h, BothGiven
<1> HIDE DEF w
<1>3. PICK f, j, l, m, r, l2, m2, r2 : Patches(h, f, j, node, i, met, d, l, m, r, l2, m2, r2)
  BY ThePatches
<1>4. /\ OnSite(h, f, j, l2, m2, r2) /\ x = Site(f, <<m2>>, <<l2, r2>>)
      /\ Pair(k, l2, m2, r2)
      /\ \/ i = j /\ l = node.children[i] /\ l2 = d.node /\ r2 = r /\ r2 \in Sub[k]
         \/ i = j + 1 /\ Room(f) + 1 = j /\ r = node.children[i] /\ r2 = d.node /\ l2 = l /\ l2 \in Sub[k]
  BY <1>3 DEF Patches, x
<1>5. IsSite(h, f, j)
  BY <1>4 DEF OnSite
<1>6. node.children[i] \in Sub[k]
  BY <1>h, SiteAtChild
<1>7. Len(d.node.items) \in MinItems - 1 .. MaxItems - 2
  <2> DEFINE a == Len(node.children[i].items)
             b == Len(d.node.items)
  <2>1. a \in MinItems .. MaxItems - 2
    BY <1>6, <1>k, SubIsGood DEF Good
  <2>2. b \in a - 1 .. a
    BY <1>h
  <2>3. MinItems \in Nat /\ MaxItems \in Nat
    BY MinItemsBound
  <2> HIDE DEF a, b
  <2>4. b \in MinItems - 1 .. MaxItems - 2
    BY <2>1, <2>2, <2>3
  <2> QED
    BY <2>4 DEF b
<1>8. Unbalanced(h, f, j, i, l2, m2, r2, w)
  <2>1. \/ i = j /\ r2 \in Sub[h - 1] /\ Len(l2.items) \in MinItems - 1 .. MaxItems - 2
        \/ i = j + 1 /\ Room(f) + 1 = j /\ l2 \in Sub[h - 1] /\ Len(r2.items) \in MinItems - 1 .. MaxItems - 2
    BY <1>4, <1>7
  <2>2. Pair(h - 1, l2, m2, r2)
    BY <1>4
  <2> QED
    BY <1>2, <1>4, <1>5, <2>1, <2>2 DEF Unbalanced
<1> QED
  BY <1>1, <1>2, <1>8, RebalanceWalk DEF x

\* An item is taken out of the walk: the first, the last, or the one with the key.
TakesAt(X, Y, a, sought, w, prev, v) ==
    /\ X \in Seq(Item) /\ Y \in Seq(Item) /\ prev \in Item
    /\ w = Framed(X, <<prev>>, Y) /\ v = Cat(X, Y)
    /\ a = "POPFRONT" => X = <<>>
    /\ a = "POPBACK" => Y = <<>>
    /\ a = "DELKEY" => prev.key = sought

\* Only a key may not be found.
Misses(a, sought, w)         == a = "DELKEY" /\ (Sorted(w) => \A x \in ToSet(w) : x.key # sought)

Takes(a, sought, w, prev, v) == IF prev = NoItem THEN Misses(a, sought, w) ELSE \E X, Y : TakesAt(X, Y, a, sought, w, prev, v)

(* An item taken out of a part of the walk. *)
LEMMA TakesWithin ==
    ASSUME NEW a, NEW sought, NEW w, NEW prev, NEW v, Takes(a, sought, w, prev, v), prev # NoItem,
           NEW L \in Seq(Item), NEW R \in Seq(Item),
           a = "POPFRONT" => L = <<>>, a = "POPBACK" => R = <<>>
    PROVE  Takes(a, sought, Framed(L, w, R), prev, Framed(L, v, R))
<1>1. PICK X, Y : TakesAt(X, Y, a, sought, w, prev, v)
  BY DEF Takes
<1>2. /\ X \in Seq(Item) /\ Y \in Seq(Item) /\ prev \in Item
      /\ w = Framed(X, <<prev>>, Y) /\ v = Cat(X, Y)
      /\ a = "POPFRONT" => X = <<>>
      /\ a = "POPBACK" => Y = <<>>
      /\ a = "DELKEY" => prev.key = sought
  BY <1>1 DEF TakesAt
<1> DEFINE lx == Cat(L, X)
           yr == Cat(Y, R)
           one == <<prev>>
           none == <<>>
<1>3. lx \in Seq(Item) /\ yr \in Seq(Item) /\ one \in Seq(Item) /\ none \in Seq(Item)
  BY <1>2, CatIn
<1>4. /\ Cat(X, none) = X /\ Cat(lx, none) = lx
      /\ a = "POPFRONT" => lx = <<>>
      /\ a = "POPBACK" => yr = <<>>
  BY <1>2, <1>3, CatNone
<1> HIDE DEF one, none
<1>5. Framed(L, w, R) = Framed(lx, one, yr)
  <2>1. Framed(L, Framed(X, one, Y), R) = Framed(lx, one, yr)
    BY <1>2, <1>3, FramedTwice
  <2> QED
    BY <1>2, <2>1 DEF one
<1>6. Framed(L, v, R) = Cat(lx, yr)
  <2>1. Framed(L, Framed(X, none, Y), R) = Framed(lx, none, yr)
    BY <1>2, <1>3, FramedTwice
  <2> QED
    BY <1>2, <1>4, <2>1 DEF Framed
<1> HIDE DEF lx, yr
<1>7. TakesAt(lx, yr, a, sought, Framed(L, w, R), prev, Framed(L, v, R))
  BY <1>2, <1>3, <1>4, <1>5, <1>6 DEF TakesAt, one
<1> QED
  BY <1>7 DEF Takes

(* A key that is missed in a part of the walk. *)
LEMMA MissesWithin ==
    ASSUME NEW a, NEW sought \in Int, NEW w \in Seq(Item), Misses(a, sought, w),
           NEW L \in Seq(Item), NEW R \in Seq(Item),
           Sorted(Framed(L, w, R)) => KeysUnder(L, sought) /\ KeysOver(sought, R)
    PROVE  Misses(a, sought, Framed(L, w, R))
<1>1. a = "DELKEY" /\ (Sorted(w) => \A x \in ToSet(w) : x.key # sought)
  BY DEF Misses
<1> SUFFICES ASSUME Sorted(Framed(L, w, R)), NEW x \in ToSet(Framed(L, w, R)) PROVE x.key # sought
  BY <1>1 DEF Misses
<1>2. Sorted(w) /\ ToSet(Framed(L, w, R)) = (ToSet(L) \cup ToSet(w)) \cup ToSet(R)
  BY SortedFramed
<1>3. KeysUnder(L, sought) /\ KeysOver(sought, R)
  OBVIOUS
<1>4. x \in ToSet(L) \/ x \in ToSet(w) \/ x \in ToSet(R)
  BY <1>2
<1>5. x.key \in Int
  BY <1>4, ShownAt, KeysAreInt
<1>6. x \in ToSet(L) => x.key < sought
  BY <1>3 DEF KeysUnder
<1>7. x \in ToSet(R) => sought < x.key
  BY <1>3 DEF KeysOver
<1> QED
  BY <1>1, <1>2, <1>4, <1>5, <1>6, <1>7

IsTaken(a, sought, s, i) ==
    /\ s \in Seq(Item) /\ i \in 1 .. Len(s)
    /\ a = "POPFRONT" => i = 1
    /\ a = "POPBACK" => i = Len(s)
    /\ a = "DELKEY" => s[i].key = sought

(* An item taken out of a leaf. *)
LEMMA TakesInLeaf ==
    ASSUME NEW a, NEW sought, NEW s, NEW i, IsTaken(a, sought, s, i)
    PROVE  Takes(a, sought, s, s[i], RemoveAt(s, i))
<1> DEFINE X == SubSeq(s, 1, i - 1)
           Y == SubSeq(s, i + 1, Len(s))
           x == s[i]
           n == Len(s)
<1>h. /\ s \in Seq(Item) /\ i \in 1 .. n
      /\ a = "POPFRONT" => i = 1
      /\ a = "POPBACK" => i = n
      /\ a = "DELKEY" => x.key = sought
  BY DEF IsTaken
<1>1. X \in Seq(Item) /\ Y \in Seq(Item) /\ s = Spliced(X, <<x>>, Y) /\ Len(X) = i - 1 /\ Len(Y) = n - i
  BY <1>h, SplicedAtElement
<1>2. x \in Item /\ i \in Nat /\ i >= 1 /\ n \in Nat
  BY <1>h
<1> HIDE DEF X, Y, x, n
<1>3. i = Len(X) + 1
  BY <1>1, <1>2
<1>4. RemoveAt(Spliced(X, <<x>>, Y), i) = Spliced(X, <<>>, Y)
  BY <1>1, <1>2, <1>3, RemoveAtSpliced
<1>5. Spliced(X, <<>>, Y) = Cat(X, Y)
  BY <1>1, ConcatWithNone DEF Spliced, Cat
<1>6. /\ a = "POPFRONT" => X = <<>>
      /\ a = "POPBACK" => Y = <<>>
  <2>1. (Len(X) = 0 => X = <<>>) /\ (Len(Y) = 0 => Y = <<>>)
    BY <1>1
  <2>2. (i = 1 => Len(X) = 0) /\ (i = n => Len(Y) = 0)
    BY <1>1, <1>2
  <2> QED
    BY <1>h, <2>1, <2>2
<1>7. s = Framed(X, <<x>>, Y) /\ RemoveAt(s, i) = Cat(X, Y)
  BY <1>1, <1>4, <1>5 DEF Framed, Cat, Spliced
<1>8. TakesAt(X, Y, a, sought, s, x, RemoveAt(s, i))
  BY <1>h, <1>1, <1>2, <1>6, <1>7 DEF TakesAt
<1>9. x # NoItem
  BY <1>2, TreeAssumption
<1> QED
  BY <1>8, <1>9 DEF Takes, x

(* A key that is not where it would be in sorted items is not among them. *)
LEMMA MissesInLeaf ==
    ASSUME NEW node, node.items \in Seq(Item), NEW sought \in Int,
           NEW i, i = node_find(node, sought), ~HasAt(node, i, sought)
    PROVE  Misses("DELKEY", sought, node.items)
<1> DEFINE s == node.items
           n == Len(s)
<1> SUFFICES ASSUME Sorted(s), NEW x \in ToSet(s), x.key = sought PROVE FALSE
  BY DEF Misses
<1>1. /\ i \in 1 .. n + 1
      /\ \A j \in 1 .. n : s[j].key < sought <=> j < i
  BY KeyPlace
<1>2. i <= n => s[i].key # sought
  BY DEF HasAt
<1>3. s \in Seq(Item) /\ n \in Nat
  OBVIOUS
<1>4. PICK j \in 1 .. n : x = s[j]
  BY <1>3, ShownAt
<1>5. \A l \in 1 .. n : s[l] \in Item /\ s[l].key \in Int
  BY <1>3, KeysAreInt
<1>6. ~(j < i)
  BY <1>1, <1>4
<1>7. \A l, m \in 1 .. n : l < m => s[l].key < s[m].key
  BY DEF Sorted
<1> HIDE DEF s, n
<1>8. i \in 1 .. n /\ i < j
  <2>1. j # i
    BY <1>2, <1>4
  <2> QED
    BY <1>1, <1>3, <1>4, <1>6, <2>1
<1>9. s[i].key < sought
  BY <1>4, <1>7, <1>8
<1>10. i < i
  BY <1>1, <1>8, <1>9
<1> QED
  BY <1>8, <1>10

(* The branch with another child. *)
LEMMA ChildPatched ==
    ASSUME NEW h, NEW f, NEW i, IsSite(h, f, i), NEW c \in Tree[h - 1], NEW d \in Tree[h - 1], NEW item,
           NEW met, ~met
    PROVE  Patched(Site(f, <<>>, <<c>>), i, d, met, item) = Site(f, <<>>, <<d>>)
<1> DEFINE T == Tree[h - 1]
           A == f.left
           B == f.right
           list == Spliced(f.lower, <<>>, f.upper)
           children == Spliced(A, <<c>>, B)
<1>1. A \in Seq(T) /\ B \in Seq(T) /\ i = Len(A) + 1
  BY SiteParts
<1>2. Site(f, <<>>, <<c>>) = Branch(list, children) /\ Site(f, <<>>, <<d>>) = Branch(list, Spliced(A, <<d>>, B))
  BY DEF Site
<1>0. c \in T /\ d \in T
  OBVIOUS
<1> HIDE DEF T, A, B, list
<1>3. ReplaceAt(children, i, d) = Spliced(A, <<d>>, B)
  BY <1>0, <1>1, ReplaceAtSpliced
<1> HIDE DEF children
<1>4. Patched(Branch(list, children), i, d, met, item) = Branch(list, ReplaceAt(children, i, d))
  BY PatchedIs
<1> QED
  BY <1>2, <1>3, <1>4

IsTakenBelow(h, node, p, i, met, d, e, a, sought) ==
    /\ IsBranchDeletion(h, node, p, i, met, d, e) /\ ~met
    /\ Takes(a, sought, Walk(h - 1, node.children[i]), d.prev, Walk(h - 1, d.node))
    /\ a = "POPFRONT" => i = 1
    /\ a = "POPBACK" => i = Len(node.items) + 1

(* An item taken out of a child is taken out of the branch. *)
LEMMA TakesBelow ==
    ASSUME NEW h, NEW node, NEW p, NEW i, NEW met, NEW d, NEW e, NEW a, NEW sought,
           IsTakenBelow(h, node, p, i, met, d, e, a, sought)
    PROVE  Takes(a, sought, Walk(h, node), e.prev, Walk(h, e.node))
<1> DEFINE k == h - 1
           child == node.children[i]
           n == Len(node.items)
           hi == MaxItems - 2
           lo == 1
<1>h. /\ IsBranchDeletion(h, node, p, i, met, d, e) /\ ~met
      /\ Takes(a, sought, Walk(k, child), d.prev, Walk(k, d.node))
      /\ a = "POPFRONT" => i = 1
      /\ a = "POPBACK" => i = n + 1
  BY DEF IsTakenBelow
<1>f. ~met
  BY DEF IsTakenBelow
<1>1. h \in Nat /\ h >= 2 /\ node \in Good(h, lo, hi) /\ i \in 1 .. n + 1 /\ d.prev # NoItem
  BY <1>h DEF IsBranchDeletion
<1>m. lo \in Int /\ hi \in Int
  BY MinItemsBound
<1>2. IsDeletedBelow(h, lo, hi, node, i, met, d, e)
  BY <1>h, BranchDeletion
<1>3. d.node \in Tree[k]
  BY <1>2 DEF IsDeletedBelow, Loose
<1> HIDE DEF hi, lo
<1>4. /\ \E f : IsSite(h, f, i) /\ node = Site(f, <<>>, <<child>>)
      /\ child \in Sub[k]
  BY <1>1, <1>m, SiteAtChild
<1>k. k \in Nat
  BY <1>1
<1> HIDE DEF child
<1>p. PICK f : IsSite(h, f, i) /\ node = Site(f, <<>>, <<child>>)
  BY <1>4
<1>5. child \in Tree[k]
  BY <1>4, <1>k, SubIsGood
<1> DEFINE x == Site(f, <<>>, <<d.node>>)
           L == LeftWalk(h, f)
           R == RightWalk(h, f)
<1>6. e.prev = d.prev
  BY <1>f, <1>2, DeletedBelowSized DEF IsChildDeletion
<1>7. Walk(h, e.node) = Walk(h, x)
  <2>1. Walk(h, e.node) = Walk(h, Patched(node, i, d.node, met, d.prev))
    BY <1>2, DeletedBelowWalk
  <2>2. Patched(Site(f, <<>>, <<child>>), i, d.node, met, d.prev) = x
    BY <1>f, <1>p, <1>3, <1>5, ChildPatched
  <2> QED
    BY <1>p, <2>1, <2>2
<1>8. Walk(h, node) = Framed(L, Walk(k, child), R) /\ Walk(h, x) = Framed(L, Walk(k, d.node), R)
  BY <1>p, <1>3, <1>5, OneWalk
<1>9. L \in Seq(Item) /\ R \in Seq(Item)
  BY <1>p, SitePairs
<1>10. /\ a = "POPFRONT" => L = <<>>
       /\ a = "POPBACK" => R = <<>>
  BY <1>h, <1>p, FirstSite, LastSite
<1> HIDE DEF k, x, L, R
<1>11. Takes(a, sought, Framed(L, Walk(k, child), R), d.prev, Framed(L, Walk(k, d.node), R))
  BY <1>h, <1>1, <1>9, <1>10, TakesWithin DEF child
<1> QED
  BY <1>6, <1>7, <1>8, <1>11

IsTakenHere(h, node, p, i, met, d, e, sought) ==
    /\ IsBranchDeletion(h, node, p, i, met, d, e) /\ met
    /\ Takes("POPBACK", sought, Walk(h - 1, node.children[i]), d.prev, Walk(h - 1, d.node))
    /\ node.items[i].key = sought

(* What two walks with an item between become when the last item of the first takes its place. *)
LEMMA LastMovedUp ==
    ASSUME NEW X \in Seq(Item), NEW y \in Item, NEW m \in Item, NEW b \in Seq(Item),
           NEW L \in Seq(Item), NEW R \in Seq(Item)
    PROVE  LET wl == Framed(X, <<y>>, <<>>) IN
           /\ wl \in Seq(Item)
           /\ Framed(L, Framed(wl, <<m>>, b), R) = Framed(Cat(L, wl), <<m>>, Cat(b, R))
           /\ Framed(L, Framed(X, <<y>>, b), R) = Cat(Cat(L, wl), Cat(b, R))
<1> DEFINE one == <<y>>
           none == <<>>
           was == <<m>>
           wl == Framed(X, one, none)
           br == Cat(b, R)
<1>1. one \in Seq(Item) /\ none \in Seq(Item) /\ was \in Seq(Item)
  OBVIOUS
<1>2. wl = Cat(X, one)
  <2>1. Cat(X, one) \in Seq(Item)
    BY <1>1, CatIn
  <2> QED
    BY <2>1, CatNone DEF Framed
<1> HIDE DEF one, none, was, wl
<1>3. wl \in Seq(Item) /\ br \in Seq(Item)
  BY <1>1, <1>2, CatIn
<1>4. Framed(L, Framed(wl, was, b), R) = Framed(Cat(L, wl), was, br)
  BY <1>1, <1>3, FramedTwice
<1>5. Framed(L, Framed(X, one, b), R) = Framed(Cat(L, X), one, br)
  BY <1>1, FramedTwice
<1>6. Cat(Cat(L, X), one) = Cat(L, wl)
  BY <1>1, <1>2, CatAssoc
<1>7. Framed(L, Framed(X, one, b), R) = Cat(Cat(L, wl), br)
  BY <1>5, <1>6 DEF Framed
<1> QED
  BY <1>3, <1>4, <1>7 DEF wl, one, none, was

(* An item of a branch taken out. *)
LEMMA TakesHere ==
    ASSUME NEW h, NEW node, NEW p, NEW i, NEW met, NEW d, NEW e, NEW sought,
           IsTakenHere(h, node, p, i, met, d, e, sought)
    PROVE  Takes("DELKEY", sought, Walk(h, node), e.prev, Walk(h, e.node))
<1> DEFINE k == h - 1
           l == node.children[i]
           r == node.children[i + 1]
           m == node.items[i]
           n == Len(node.items)
           hi == MaxItems - 2
           lo == 1
           y == d.prev
           c == d.node
<1>h. /\ IsBranchDeletion(h, node, p, i, met, d, e) /\ met
      /\ Takes("POPBACK", sought, Walk(k, l), y, Walk(k, c))
      /\ m.key = sought
  BY DEF IsTakenHere
<1>f. met /\ met \in BOOLEAN
  BY <1>h DEF IsBranchDeletion
<1>1. h \in Nat /\ h >= 2 /\ node \in Good(h, lo, hi) /\ i \in 1 .. n + 1 /\ i <= n /\ y # NoItem
  BY <1>h DEF IsBranchDeletion
<1>m. lo \in Int /\ hi \in Int
  BY MinItemsBound
<1>2. IsDeletedBelow(h, lo, hi, node, i, met, d, e)
  BY <1>h, BranchDeletion
<1>3. c \in Tree[k] /\ y \in Item
  BY <1>f, <1>2 DEF IsDeletedBelow, Loose
<1>i. i \in 1 .. n
  <2> HIDE DEF n
  <2> QED
    BY <1>1
<1>6. e.prev = m
  <2>1. e.prev = IF met THEN m ELSE y
    BY <1>2, DeletedBelowSized DEF IsChildDeletion
  <2> QED
    BY <1>f, <2>1, Zenon
<1> HIDE DEF hi, lo
<1>4. /\ \E f : IsSite(h, f, i) /\ node = Site(f, <<m>>, <<l, r>>)
      /\ l \in Sub[k] /\ r \in Sub[k] /\ m \in Item
  BY <1>1, <1>m, <1>i, SiteAtItem
<1>k. k \in Nat
  BY <1>1
<1>w. Walk(h, e.node) = Walk(h, Patched(node, i, c, met, y))
  BY <1>2, DeletedBelowWalk
<1> HIDE DEF l, r, m, c, y
<1>p. PICK f : IsSite(h, f, i) /\ node = Site(f, <<m>>, <<l, r>>)
  BY <1>4
<1>5. l \in Tree[k] /\ r \in Tree[k]
  BY <1>4, <1>k, SubIsGood
<1> DEFINE x == Site(f, <<y>>, <<c, r>>)
           L == LeftWalk(h, f)
           R == RightWalk(h, f)
           b == Walk(k, r)
<1>7. OnSite(h, f, i, l, m, r) /\ OnSite(h, f, i, c, y, r)
  BY <1>p, <1>3, <1>4, <1>5 DEF OnSite
<1>8. Walk(h, e.node) = Walk(h, x)
  <2>1. Patched(Site(f, <<m>>, <<l, r>>), i, c, met, y) = x
    <3>1. y = IF met THEN y ELSE m
      BY <1>f, Zenon
    <3>2. met \in BOOLEAN
      BY <1>f
    <3> QED
      BY <1>7, <3>1, <3>2, FirstPatched
  <2> QED
    BY <1>p, <1>w, <2>1
<1>9. /\ Walk(h, node) = Framed(L, Framed(Walk(k, l), <<m>>, b), R)
      /\ Walk(h, x) = Framed(L, Framed(Walk(k, c), <<y>>, b), R)
      /\ b \in Seq(Item)
  BY <1>p, <1>7, TwoWalk
<1>10. L \in Seq(Item) /\ R \in Seq(Item)
  BY <1>p, SitePairs
<1>11. PICK X, Y : TakesAt(X, Y, "POPBACK", sought, Walk(k, l), y, Walk(k, c))
  BY <1>h, <1>1 DEF Takes, y, l, c
<1>12. X \in Seq(Item) /\ Walk(k, l) = Framed(X, <<y>>, <<>>) /\ Walk(k, c) = X
  <2>1. X \in Seq(Item) /\ Y = <<>> /\ Walk(k, l) = Framed(X, <<y>>, Y) /\ Walk(k, c) = Cat(X, Y)
    BY <1>11 DEF TakesAt
  <2> QED
    BY <2>1, CatNone
<1> DEFINE wl == Framed(X, <<y>>, <<>>)
<1> HIDE DEF k, x, L, R, b
<1>13. /\ wl \in Seq(Item)
       /\ Framed(L, Framed(wl, <<m>>, b), R) = Framed(Cat(L, wl), <<m>>, Cat(b, R))
       /\ Framed(L, Framed(X, <<y>>, b), R) = Cat(Cat(L, wl), Cat(b, R))
  BY <1>3, <1>4, <1>9, <1>10, <1>12, LastMovedUp
<1> HIDE DEF wl
<1>14. Cat(L, wl) \in Seq(Item) /\ Cat(b, R) \in Seq(Item)
  BY <1>9, <1>10, <1>13, CatIn
<1>15. Walk(h, node) = Framed(Cat(L, wl), <<m>>, Cat(b, R)) /\ Walk(h, e.node) = Cat(Cat(L, wl), Cat(b, R))
  BY <1>8, <1>9, <1>12, <1>13 DEF wl
<1>16. TakesAt(Cat(L, wl), Cat(b, R), "DELKEY", sought, Walk(h, node), m, Walk(h, e.node))
  BY <1>h, <1>4, <1>14, <1>15 DEF TakesAt, m
<1>17. m # NoItem
  BY <1>4, TreeAssumption
<1> QED
  BY <1>6, <1>16, <1>17 DEF Takes

\* What a deletion that came to e did to the walk.
WalkTakes(h, node, a, sought, e) == Takes(a, sought, Walk(h, node), e.prev, Walk(h, e.node))

IsWalkDeletion(h, node, sought, p, mallocs, a, i, met, d, e) ==
    /\ IsNodeDeletion(h, node, sought, p, mallocs, a, i, met, d, e)
    /\ a = "DELKEY" => sought \in Int
    /\ h >= 2 => WalkTakes(h - 1, node.children[i], IF met THEN "POPBACK" ELSE a, sought, d)

(* What is known of a node at which a deletion arrives. *)
LEMMA DeletionAtNode ==
    ASSUME NEW h, NEW node, NEW sought, NEW p, NEW mallocs, NEW a, NEW i, NEW met, NEW d, NEW e,
           IsNodeDeletion(h, node, sought, p, mallocs, a, i, met, d, e)
    PROVE  /\ h \in Nat /\ h >= 1 /\ node \in Tree[h] /\ node.items \in Seq(Item) /\ node.items # <<>>
           /\ node \in Good(h, 1, MaxItems - 2) /\ PoolOk(p) /\ mallocs \in Nat
           /\ a \in DelAct /\ met \in BOOLEAN /\ (met <=> a = "DELKEY" /\ HasAt(node, i, sought))
           /\ IsLeaf(node) <=> h = 1
           /\ a = "DELKEY" => i = node_find(node, sought)
           /\ a = "POPFRONT" => i = 1
           /\ a = "POPBACK" => i = IF h = 1 THEN Len(node.items) ELSE Len(node.items) + 1
           /\ i \in 1 .. Len(node.items) + 1
           /\ e = AtNode(node, a, sought, NothingDeleted(node, p, mallocs), d)
           /\ NothingDeleted(node, p, mallocs).prev = NoItem
<1> DEFINE hi == MaxItems - 2
           n == Len(node.items)
<1>h. /\ h \in Nat /\ h >= 1 /\ node \in Good(h, 1, hi) /\ IsDeleting(sought, p, mallocs)
      /\ a \in DelAct /\ i = Position(node, a, sought) /\ met = (a = "DELKEY" /\ HasAt(node, i, sought))
      /\ e = AtNode(node, a, sought, NothingDeleted(node, p, mallocs), d)
  BY DEF IsNodeDeletion
<1>m. hi \in Int
  BY MinItemsBound
<1>1. /\ n \in 1 .. hi /\ n \in Nat /\ node \in Tree[h] /\ node.items \in Seq(Item)
      /\ IsLeaf(node) <=> h = 1
      /\ (h # 1 => Len(node.children) = n + 1)
  <2> DEFINE lo == 1
  <2>1. lo \in Int /\ node \in Good(h, lo, hi)
    BY <1>h
  <2> HIDE DEF lo, hi, n
  <2>2. /\ Len(node.items) \in lo .. hi /\ Len(node.items) \in Nat /\ node \in Tree[h] /\ node.items \in Seq(Item)
        /\ IsLeaf(node) <=> h = 1
        /\ IF h = 1 THEN node.children = <<>> ELSE Len(node.children) = Len(node.items) + 1
    BY <1>h, <1>m, <2>1, GoodParts
  <2> QED
    BY <2>2 DEF lo, n
<1>2. PoolOk(p) /\ mallocs \in Nat
  BY <1>h DEF IsDeleting
<1>3. met \in BOOLEAN /\ (met <=> a = "DELKEY" /\ HasAt(node, i, sought))
  BY <1>h
<1>4. /\ i \in IF IsLeaf(node) /\ a = "POPBACK" THEN {n}
               ELSE IF a = "POPBACK" THEN {Len(node.children)}
               ELSE 1 .. n + 1
      /\ (a = "POPFRONT" => i = 1)
  BY <1>h, <1>1, PositionIs
<1>5. NothingDeleted(node, p, mallocs).prev = NoItem
  BY <1>h, NothingYet
<1>6. node.items # <<>>
  BY <1>1
<1>7. a = "DELKEY" => i = node_find(node, sought)
  BY <1>h DEF Position
<1> HIDE DEF n
<1>8. a = "POPBACK" => i = IF h = 1 THEN n ELSE n + 1
  BY <1>1, <1>4
<1>9. i \in 1 .. n + 1
  <2>1. CASE a = "POPBACK"
    BY <1>1, <1>8, <2>1
  <2>2. CASE a # "POPBACK"
    BY <1>4, <2>2
  <2> QED
    BY <2>1, <2>2
<1> QED
  BY <1>h, <1>1, <1>2, <1>3, <1>4, <1>5, <1>6, <1>7, <1>8, <1>9 DEF n

(* A deletion at a leaf. *)
LEMMA LeafWalkTakes ==
    ASSUME NEW h, NEW node, NEW sought, NEW p, NEW mallocs, NEW a, NEW i, NEW met, NEW d, NEW e,
           IsWalkDeletion(h, node, sought, p, mallocs, a, i, met, d, e), h = 1
    PROVE  WalkTakes(h, node, a, sought, e)
<1> DEFINE none == NothingDeleted(node, p, mallocs)
           s == node.items
           n == Len(s)
<1>h. IsNodeDeletion(h, node, sought, p, mallocs, a, i, met, d, e) /\ (a = "DELKEY" => sought \in Int)
  BY DEF IsWalkDeletion
<1>1. /\ h \in Nat /\ h >= 1 /\ h <= 1 /\ node \in Tree[h] /\ s \in Seq(Item) /\ s # <<>>
      /\ node \in Good(h, 1, MaxItems - 2) /\ PoolOk(p) /\ mallocs \in Nat
      /\ a \in DelAct /\ met \in BOOLEAN /\ (met <=> a = "DELKEY" /\ HasAt(node, i, sought))
      /\ IsLeaf(node)
      /\ a = "DELKEY" => i = node_find(node, sought)
      /\ a = "POPFRONT" => i = 1
      /\ a = "POPBACK" => i = n
      /\ i \in 1 .. n + 1
      /\ e = AtNode(node, a, sought, none, d)
      /\ none.prev = NoItem
  BY <1>h, DeletionAtNode
<1>n. n \in Nat /\ n >= 1
  BY <1>1
<1>f. met <=> Finds(node, a, sought)
  <2>1. a = "DELKEY" => i = Position(node, a, sought)
    BY <1>1 DEF Position
  <2> QED
    BY <1>1, <2>1 DEF Finds
<1>2. Walk(h, node) = s
  BY <1>1, WalkOfLeaf
<1>3. CASE a = "DELKEY" /\ ~met
  <2>1. e = none
    <3> HIDE DEF none
    <3> QED
      BY <1>1, <1>3, <1>f DEF AtNode
  <2>2. Misses("DELKEY", sought, s)
    BY <1>h, <1>1, <1>3, MissesInLeaf
  <2> QED
    BY <1>1, <1>2, <1>3, <2>1, <2>2 DEF WalkTakes, Takes
<1>4. CASE ~(a = "DELKEY" /\ ~met)
  <2>1. e = [none EXCEPT !.node = Leaf(RemoveAt(s, i)), !.prev = s[i]]
    <3>1. i = Position(node, a, sought)
      BY <1>h DEF IsNodeDeletion
    <3> QED
      BY <1>1, <1>4, <1>f, <3>1 DEF AtNode
  <2>2. i \in 1 .. n
    <3>1. CASE a = "DELKEY"
      <4>1. i <= n
        BY <1>1, <1>4, <3>1 DEF HasAt
      <4> QED
        BY <1>1, <4>1
    <3>2. CASE a = "POPFRONT"
      <4> HIDE DEF n
      <4> QED
        BY <1>1, <1>n, <3>2
    <3>3. CASE a = "POPBACK"
      <4> HIDE DEF n
      <4> QED
        BY <1>1, <1>n, <3>3
    <3> QED
      BY <1>1, <3>1, <3>2, <3>3 DEF DelAct
  <2>3. a = "DELKEY" => s[i].key = sought
    BY <1>1, <1>4 DEF HasAt
  <2>4. IsTaken(a, sought, s, i)
    BY <1>1, <2>2, <2>3 DEF IsTaken
  <2>5. Takes(a, sought, s, s[i], RemoveAt(s, i))
    BY <2>4, TakesInLeaf
  <2>6. IsLeafDeletion(node, p, mallocs, i, e)
    BY <1>1, <2>1, <2>2 DEF IsLeafDeletion
  <2>7. e.node = Leaf(RemoveAt(s, i)) /\ e.prev = s[i]
    BY <2>1 DEF NothingDeleted
  <2>8. RemoveAt(s, i) \in Seq(Item)
    <3> HIDE DEF s
    <3> QED
      BY <1>1, <2>2, OneRemoved
  <2> DEFINE new == RemoveAt(s, i)
  <2> HIDE DEF new, s
  <2>9. Leaf(new) \in Tree[h] /\ Leaf(new).items = new
    <3> DEFINE nil == <<>>
    <3>1. nil \in Seq(Tree[h - 1]) /\ Leaf(new) = Branch(new, nil) /\ Leaf(new).items = new
      BY DEF Leaf, Branch
    <3>2. IF h = 1 THEN nil = <<>> ELSE Len(nil) = Len(new) + 1
      OBVIOUS
    <3> HIDE DEF nil
    <3>3. new \in Seq(Item)
      BY <2>8 DEF new
    <3> QED
      BY <1>1, <3>1, <3>2, <3>3, TreeMade
  <2>10. Walk(h, Leaf(new)) = new
    BY <1>1, <2>9, WalkOfLeaf
  <2> QED
    BY <1>2, <2>5, <2>7, <2>10 DEF WalkTakes, new
<1> QED
  BY <1>3, <1>4

(* A key missed below a branch. *)
LEMMA MissesBelow ==
    ASSUME NEW h, NEW f, NEW i, NEW c, NEW node, NEW sought, IsPlace(h, f, i, c, node, sought),
           NEW a, Misses(a, sought, Walk(h - 1, c))
    PROVE  Misses(a, sought, Walk(h, node))
<1> DEFINE L == LeftWalk(h, f)
           R == RightWalk(h, f)
           w == Walk(h - 1, c)
<1>1. IsSite(h, f, i) /\ c \in Tree[h - 1] /\ node = Site(f, <<>>, <<c>>) /\ sought \in Int
  BY DEF IsPlace
<1>2. Walk(h, node) = Framed(L, w, R) /\ w \in Seq(Item)
  BY <1>1, OneWalk
<1>3. L \in Seq(Item) /\ R \in Seq(Item)
  BY <1>1, SitePairs
<1>4. Sorted(Walk(h, node)) => KeysUnder(L, sought) /\ KeysOver(sought, R)
  BY PlaceBounds
<1>5. Misses(a, sought, w)
  OBVIOUS
<1> HIDE DEF L, R, w
<1>6. Misses(a, sought, Framed(L, w, R))
  BY <1>1, <1>2, <1>3, <1>4, <1>5, MissesWithin
<1> QED
  BY <1>2, <1>6

(* A deletion at a branch. *)
LEMMA BranchWalkTakes ==
    ASSUME NEW h, NEW node, NEW sought, NEW p, NEW mallocs, NEW a, NEW i, NEW met, NEW d, NEW e,
           IsWalkDeletion(h, node, sought, p, mallocs, a, i, met, d, e), h >= 2
    PROVE  WalkTakes(h, node, a, sought, e)
<1> DEFINE none == NothingDeleted(node, p, mallocs)
           n == Len(node.items)
           child == node.children[i]
           b == IF met THEN "POPBACK" ELSE a
           k == h - 1
<1>h. /\ IsNodeDeletion(h, node, sought, p, mallocs, a, i, met, d, e)
      /\ a = "DELKEY" => sought \in Int
      /\ Takes(b, sought, Walk(k, child), d.prev, Walk(k, d.node))
  BY DEF IsWalkDeletion, WalkTakes
<1>g. NodeDeletion(k, child, p, d) /\ i = Position(node, a, sought)
  BY <1>h DEF IsNodeDeletion
<1>1. /\ h \in Nat /\ h >= 1 /\ node \in Tree[h]
      /\ node \in Good(h, 1, MaxItems - 2) /\ PoolOk(p)
      /\ a \in DelAct /\ met \in BOOLEAN /\ (met <=> a = "DELKEY" /\ HasAt(node, i, sought))
      /\ ~IsLeaf(node)
      /\ a = "DELKEY" => i = node_find(node, sought)
      /\ a = "POPFRONT" => i = 1
      /\ a = "POPBACK" => i = n + 1
      /\ i \in 1 .. n + 1
      /\ e = AtNode(node, a, sought, none, d)
      /\ none.prev = NoItem
  <2>1. h # 1 /\ ~(h = 1)
    BY <1>h DEF IsNodeDeletion
  <2> QED
    BY <1>h, <2>1, DeletionAtNode
<1>f. met <=> Finds(node, a, sought)
  <2>1. a = "DELKEY" => i = Position(node, a, sought)
    BY <1>1 DEF Position
  <2> QED
    BY <1>1, <2>1 DEF Finds
<1>b. (met => b = "POPBACK") /\ (~met => b = a)
  OBVIOUS
<1>2. CASE d.prev = NoItem
  <2>1. e = none
    <3> HIDE DEF none
    <3> QED
      BY <1>1, <1>2 DEF AtNode
  <2>2. Misses(b, sought, Walk(k, child))
    BY <1>h, <1>2 DEF Takes
  <2>3. ~met /\ a = "DELKEY"
    <3>1. b = "DELKEY"
      BY <2>2 DEF Misses
    <3> QED
      BY <1>b, <3>1
  <2>4. Misses(a, sought, Walk(k, child)) /\ sought \in Int /\ i = node_find(node, sought) /\ ~HasAt(node, i, sought)
    BY <1>h, <1>1, <1>b, <2>2, <2>3
  <2> DEFINE lo == 1
             hi == MaxItems - 2
  <2>5. lo \in Int /\ hi \in Int /\ node \in Good(h, lo, hi)
    BY <1>1, MinItemsBound
  <2> HIDE DEF lo, hi
  <2>6. /\ \E f : IsSite(h, f, i) /\ node = Site(f, <<>>, <<child>>)
        /\ child \in Sub[k]
    BY <1>1, <2>5, SiteAtChild
  <2>k. k \in Nat
    BY <1>1
  <2> HIDE DEF child
  <2>7. PICK f : IsSite(h, f, i) /\ node = Site(f, <<>>, <<child>>)
    BY <2>6
  <2>8. child \in Tree[k]
    BY <2>6, <2>k, SubIsGood
  <2>9. IsPlace(h, f, i, child, node, sought)
    BY <2>4, <2>7, <2>8 DEF IsPlace
  <2>10. Misses(a, sought, Walk(h, node))
    BY <2>4, <2>9, MissesBelow
  <2> QED
    BY <1>1, <2>1, <2>10 DEF WalkTakes, Takes
<1>3. CASE d.prev # NoItem
  <2>1. e = DeletedBelow(node, i, met, d)
    <3>1. e = DeletedBelow(node, Position(node, a, sought), Finds(node, a, sought), d)
      BY <1>1, <1>3 DEF AtNode
    <3>2. met = Finds(node, a, sought)
      BY <1>1, <1>f DEF Finds
    <3> QED
      BY <1>g, <3>1, <3>2
  <2>2. met => i <= n
    BY <1>1 DEF HasAt
  <2>3. IsBranchDeletion(h, node, p, i, met, d, e)
    BY <1>1, <1>3, <1>g, <2>1, <2>2 DEF IsBranchDeletion
  <2>4. CASE met
    <3>1. Takes("POPBACK", sought, Walk(k, child), d.prev, Walk(k, d.node))
      BY <1>h, <1>b, <2>4
    <3>2. a = "DELKEY" /\ node.items[i].key = sought
      BY <1>1, <2>4 DEF HasAt
    <3>3. IsTakenHere(h, node, p, i, met, d, e, sought)
      BY <2>3, <2>4, <3>1, <3>2 DEF IsTakenHere
    <3>4. Takes("DELKEY", sought, Walk(h, node), e.prev, Walk(h, e.node))
      BY <3>3, TakesHere
    <3> QED
      BY <3>2, <3>4 DEF WalkTakes
  <2>5. CASE ~met
    <3>1. Takes(a, sought, Walk(k, child), d.prev, Walk(k, d.node))
      BY <1>h, <1>b, <2>5
    <3>3. IsTakenBelow(h, node, p, i, met, d, e, a, sought)
      BY <1>1, <2>3, <2>5, <3>1 DEF IsTakenBelow
    <3>4. Takes(a, sought, Walk(h, node), e.prev, Walk(h, e.node))
      BY <3>3, TakesBelow
    <3> QED
      BY <3>4 DEF WalkTakes
  <2> QED
    BY <2>4, <2>5
<1> QED
  BY <1>2, <1>3

(* node_delete takes the item out of the walk, or the walk has no such key. *)
LEMMA NodeDeleteWalk ==
    ASSUME NEW sought, NEW p, NEW mallocs, IsDeleting(sought, p, mallocs), NEW act \in DelAct,
           act = "DELKEY" => sought \in Key,
           NEW h \in Nat, h >= 1, NEW tree \in Good(h, 1, MaxItems - 2)
    PROVE  WalkTakes(h, tree, act, sought, node_delete(h, tree, act, sought, p, mallocs))
<1> DEFINE hi == MaxItems - 2
           T(k) == \A a \in DelAct : \A node \in Good(k, 1, hi) : (a = "DELKEY" => sought \in Int) =>
                      WalkTakes(k, node, a, sought, node_delete(k, node, a, sought, p, mallocs))
           S == {k \in Nat : k >= 1 => T(k)}
<1>0. sought \in Key \cup {0} /\ p \in Pool /\ mallocs \in Nat
  BY DEF IsDeleting, PoolOk
<1>m. hi \in Int /\ MinItems \in Int /\ MinItems >= 1
  BY MinItemsBound
<1>1. 0 \in S
  OBVIOUS
<1>2. ASSUME NEW k \in Nat, k \in S PROVE k + 1 \in S
  <2> DEFINE h1 == k + 1
  <2>0. h1 \in Nat /\ h1 >= 1 /\ h1 - 1 = k
    OBVIOUS
  <2>k. k >= 1 => T(k)
    BY <1>2
  <2> HIDE DEF h1, T
  <2>1. ASSUME NEW a, a \in DelAct, NEW node, node \in Good(h1, 1, hi), a = "DELKEY" => sought \in Int
        PROVE  WalkTakes(h1, node, a, sought, node_delete(h1, node, a, sought, p, mallocs))
    <3> DEFINE i == Position(node, a, sought)
               met == a = "DELKEY" /\ HasAt(node, i, sought)
               none == NothingDeleted(node, p, mallocs)
               b == IF met THEN "POPBACK" ELSE a
               d == node_delete(k, node.children[i], b, sought, p, mallocs)
               e == node_delete(h1, node, a, sought, p, mallocs)
    <3>1. /\ node \in Tree[h1] /\ node.items \in Seq(Item) /\ Len(node.items) \in Nat
          /\ IsLeaf(node) <=> h1 = 1
          /\ (h1 # 1 => Len(node.children) = Len(node.items) + 1)
      <4> DEFINE lo == 1
      <4>1. lo \in Int /\ node \in Good(h1, lo, hi)
        BY <2>1
      <4> HIDE DEF lo, hi
      <4>2. /\ Len(node.items) \in Nat /\ node \in Tree[h1] /\ node.items \in Seq(Item)
            /\ IsLeaf(node) <=> h1 = 1
            /\ IF h1 = 1 THEN node.children = <<>> ELSE Len(node.children) = Len(node.items) + 1
        BY <1>m, <2>0, <4>1, GoodParts
      <4> QED
        BY <4>2
    <3>b. b \in DelAct /\ (b = "DELKEY" => sought \in Int)
      BY <2>1 DEF DelAct
    <3>2. e = AtNode(node, a, sought, none, d)
      <4>1. d = node_delete(h1 - 1, Below(node, a, sought), Goes(node, a, sought), sought, p, mallocs)
        BY <2>0 DEF Below, Goes, Finds
      <4> HIDE DEF d
      <4>2. /\ sought \in Key \cup {0} /\ p \in Pool /\ mallocs \in Nat
            /\ a \in DelAct /\ h1 \in Nat /\ node \in Tree[h1]
        BY <1>0, <2>0, <2>1, <3>1
      <4>3. e = AtNode(node, a, sought, none, node_delete(h1 - 1, Below(node, a, sought), Goes(node, a, sought), sought, p, mallocs))
        BY <4>2, NodeDeleteIs
      <4> QED
        BY <4>1, <4>3
    <3>3. h1 >= 2 => /\ NodeDeletion(h1 - 1, node.children[i], p, d)
                     /\ WalkTakes(h1 - 1, node.children[i], b, sought, d)
      <4>1. SUFFICES ASSUME h1 >= 2
                     PROVE  /\ NodeDeletion(k, node.children[i], p, d)
                            /\ WalkTakes(k, node.children[i], b, sought, d)
        BY <2>0
      <4>2. k >= 1
        BY <2>0, <4>1
      <4>3. i \in 1 .. Len(node.items) + 1
        <5>1. ~IsLeaf(node) /\ Len(node.children) = Len(node.items) + 1
          BY <3>1, <4>1
        <5>2. i \in IF IsLeaf(node) /\ a = "POPBACK" THEN {Len(node.items)}
                    ELSE IF a = "POPBACK" THEN {Len(node.children)}
                    ELSE 1 .. Len(node.items) + 1
          BY <2>1, <3>1, PositionIs
        <5> HIDE DEF i
        <5> QED
          BY <3>1, <5>1, <5>2
      <4> HIDE DEF i
      <4> DEFINE child == node.children[i]
      <4>4. child \in Sub[k]
        <5> DEFINE lo == 1
        <5>1. lo \in Int /\ node \in Good(h1, lo, hi)
          BY <2>1
        <5> HIDE DEF lo, hi
        <5>2. node.children[i] \in Sub[h1 - 1]
          BY <1>m, <2>0, <4>1, <4>3, <5>1, SiteAtChild
        <5> QED
          BY <2>0, <5>2
      <4>5. child \in Good(k, 1, hi)
        <5>1. child \in Good(k, MinItems, hi)
          BY <4>2, <4>4, SubIsGood
        <5> DEFINE lo == 1
        <5>2. lo \in Int /\ lo <= MinItems
          BY <1>m
        <5>3. hi <= hi
          BY <1>m
        <5> HIDE DEF child, lo, hi
        <5>4. Good(k, MinItems, hi) \subseteq Good(k, lo, hi)
          BY <1>m, <5>2, <5>3, GoodWithin
        <5> QED
          BY <5>1, <5>4 DEF lo
      <4>6. NodeDeletion(k, child, p, node_delete(k, child, b, sought, p, mallocs))
        <5> HIDE DEF b, child
        <5> QED
          BY <3>b, <4>2, <4>5, NodeDeleted
      <4>7. WalkTakes(k, child, b, sought, node_delete(k, child, b, sought, p, mallocs))
        BY <2>k, <3>b, <4>2, <4>5 DEF T
      <4> QED
        BY <4>6, <4>7
    <3>i. i = Position(node, a, sought) /\ met = (a = "DELKEY" /\ HasAt(node, i, sought))
      OBVIOUS
    <3>t. node \in Good(h1, 1, MaxItems - 2)
      BY <2>1
    <3> HIDE DEF i, d, e
    <3>w. h1 >= 2 => WalkTakes(h1 - 1, node.children[i], IF met THEN "POPBACK" ELSE a, sought, d)
      BY <3>3
    <3> HIDE DEF met
    <3>4. IsNodeDeletion(h1, node, sought, p, mallocs, a, i, met, d, e)
      BY <2>0, <2>1, <3>2, <3>3, <3>i, <3>t DEF IsNodeDeletion
    <3>5. IsWalkDeletion(h1, node, sought, p, mallocs, a, i, met, d, e)
      BY <2>1, <3>4, <3>w DEF IsWalkDeletion
    <3>6. CASE h1 = 1
      <4>1. WalkTakes(h1, node, a, sought, e)
        BY <3>5, <3>6, LeafWalkTakes
      <4> QED
        BY <4>1 DEF e
    <3>7. CASE h1 >= 2
      <4>1. WalkTakes(h1, node, a, sought, e)
        BY <3>5, <3>7, BranchWalkTakes
      <4> QED
        BY <4>1 DEF e
    <3> QED
      BY <2>0, <3>6, <3>7
  <2>2. T(h1)
    BY <2>1 DEF T
  <2> QED
    BY <2>0, <2>2 DEF h1
<1>3. h \in S
  <2> HIDE DEF S
  <2> QED
    BY <1>1, <1>2, SetInduction
<1>4. act = "DELKEY" => sought \in Int
  BY TreeAssumption
<1> QED
  BY <1>3, <1>4

(* Shrinking the root leaves the walk as it is. *)
LEMMA ShrunkWalk ==
    ASSUME NEW h, NEW d, NEW h2, NEW e, IsShrinking(h, d, h2, e)
    PROVE  Walk(h2, e.node) = Walk(h, d.node)
<1> DEFINE hi == MaxItems - 2
           node == d.node
           x == Shrunk(node)
           k == h - 1
           lo == 0
<1>h. /\ h \in Nat /\ h >= 1 /\ IsDeletion(d) /\ node \in Good(h, lo, hi)
      /\ e = ShrinkRoot(d) /\ h2 = IF Shrinks(d) THEN k ELSE h
  BY DEF IsShrinking
<1>m. hi \in Int /\ lo \in Int
  BY MinItemsBound
<1>1. CASE ~Shrinks(d)
  BY <1>h, <1>1 DEF ShrinkRoot
<1>2. CASE Shrinks(d)
  <2>1. node.items = <<>> /\ h2 = k
    BY <1>h, <1>2 DEF Shrinks
  <2>2. Whole(k, x) /\ Kind(node) = KindAt(h)
    BY <1>h, <2>1, UnderEmptyRoot
  <2>3. e.node = x
    <3> DEFINE w == WithNode(d, x)
    <3>1. [d EXCEPT !.node = IF IsLeaf(@) THEN NoTree ELSE @.children[1]] = w
      BY DEF WithNode, Shrunk
    <3>2. IsDeletion(w) /\ w.node = x
      BY <1>h, NodeGiven
    <3> HIDE DEF w, x
    <3>3. e = takeaway(w, KindAt(h))
      BY <1>h, <1>2, <2>2, <3>1 DEF ShrinkRoot
    <3>4. KindAt(h) \in Kinds
      BY DEF KindAt, Kinds
    <3> QED
      BY <3>2, <3>3, <3>4, TakesAway
  <2>4. k \in Nat /\ x \in Tree[k]
    BY <2>2, WholeParts
  <2> HIDE DEF lo, hi
  <2>5. /\ node \in Tree[h] /\ (IsLeaf(node) <=> h = 1)
        /\ node.children \in Seq(Sub[h - 1])
        /\ IF h = 1 THEN node.children = <<>> ELSE Len(node.children) = Len(node.items) + 1
    BY <1>h, <1>m, GoodParts
  <2>6. CASE h = 1
    <3>1. x = NoTree /\ k <= 1 /\ h <= 1
      BY <2>5, <2>6 DEF Shrunk
    <3>2. Walk(k, x) = <<>>
      <4>1. Walk(k, x) = x.items
        BY <2>4, <3>1, WalkOfLeaf
      <4> QED
        BY <3>1, <4>1 DEF NoTree
    <3>3. Walk(h, node) = <<>>
      BY <1>h, <2>1, <2>5, <3>1, WalkOfLeaf
    <3> QED
      BY <2>1, <2>3, <3>2, <3>3
  <2>7. CASE h # 1
    <3>1. h >= 2 /\ x = node.children[1] /\ Len(node.children) = 1
      BY <1>h, <2>1, <2>5, <2>7 DEF Shrunk
    <3> DEFINE C == node.children
    <3>2. C = <<C[1]>>
      <4>1. C \in Seq(Sub[k]) /\ Len(C) = 1
        BY <2>5, <3>1
      <4> HIDE DEF C, k
      <4> QED
        BY <4>1, OnlyElement
    <3>3. C = <<x>>
      BY <3>1, <3>2
    <3>4. Walk(h, node) = Woven(node.items, Walks(k, C))
      BY <1>h, <2>5, <3>1, WalkOfBranch
    <3> HIDE DEF C, x, k
    <3>5. Walks(k, C) = <<Walk(k, x)>>
      BY <3>3, WalksOne
    <3>6. Walk(k, x) \in Seq(Item)
      BY <2>4, WalkInSeq
    <3>7. Woven(<<>>, <<Walk(k, x)>>) = Walk(k, x)
      BY <3>6, WovenFromNone
    <3> QED
      BY <2>1, <2>3, <3>4, <3>5, <3>7
  <2> QED
    BY <2>6, <2>7
<1> QED
  BY <1>1, <1>2

ShowsItems(h) == \A node \in Tree[h] : ItemsOf[h][node] = ToSet(Walk(h, node))

(* A walk shows every item below a node, and no other. *)
LEMMA ShowsItemsMore ==
    ASSUME NEW k \in Nat, ShowsItems(k)
    PROVE  ShowsItems(k + 1)
<1> DEFINE h == k + 1
<1>0. h \in Nat /\ h >= 1 /\ h - 1 = k
  OBVIOUS
<1>i. \A child \in Tree[k] : ItemsOf[k][child] = ToSet(Walk(k, child))
  BY DEF ShowsItems
<1> HIDE DEF h
<1> SUFFICES ASSUME NEW node \in Tree[h] PROVE ItemsOf[h][node] = ToSet(Walk(h, node))
  BY DEF ShowsItems, h
<1>1. ItemsOf[h][node] = ToSet(node.items) \cup UNION {ItemsOf[k][child] : child \in ToSet(node.children)}
  BY <1>0, ItemsOfIs DEF ItemsOfAt
<1>2. /\ node.children \in Seq(Tree[k]) /\ (IsLeaf(node) <=> h = 1)
      /\ (h = 1 => node.children = <<>>)
  BY <1>0, TreeParts
<1>3. CASE h = 1
  <2>1. ToSet(node.children) = {}
    BY <1>2, <1>3, ShownByOne
  <2>2. Walk(h, node) = node.items
    BY <1>0, <1>3, WalkOfLeaf
  <2>3. UNION {ItemsOf[k][child] : child \in ToSet(node.children)} = {}
    BY <2>1
  <2> QED
    BY <1>1, <2>2, <2>3
<1>4. CASE h # 1
  <2> DEFINE C == node.children
             W == Walks(k, C)
  <2>1. Walk(h, node) = Woven(node.items, W) /\ Fits(node.items, W)
    <3>1. h >= 2
      BY <1>0, <1>4
    <3> QED
      BY <1>0, <3>1, WalkOfBranch
  <2>2. ToSet(Walk(h, node)) = ToSet(node.items) \cup ShownByAll(W)
    <3> HIDE DEF W
    <3> QED
      BY <2>1, WovenWell DEF WeavesWell
  <2>3. ShownByAll(W) = UNION {ItemsOf[k][child] : child \in ToSet(C)}
    <3>1. ToSet(W) = {Walk(k, C[i]) : i \in DOMAIN C} /\ ToSet(C) = {C[i] : i \in DOMAIN C}
      BY DEF Walks, ToSet
    <3>2. \A i \in DOMAIN C : C[i] \in Tree[k]
      BY <1>2
    <3>3. \A i \in DOMAIN C : ItemsOf[k][C[i]] = ToSet(Walk(k, C[i]))
      BY <1>i, <3>2
    <3> HIDE DEF W, C
    <3> QED
      BY <3>1, <3>3 DEF ShownByAll
  <2> QED
    BY <1>1, <2>2, <2>3
<1> QED
  BY <1>3, <1>4

(* A walk shows every item of a tree, and no other. *)
LEMMA WalkShowsItems ==
    ASSUME NEW h \in Nat, NEW node \in Tree[h]
    PROVE  ItemsOf[h][node] = ToSet(Walk(h, node))
<1> DEFINE S == {k \in Nat : ShowsItems(k)}
<1>1. 0 \in S
  <2> SUFFICES ASSUME NEW x \in Tree[0] PROVE ItemsOf[0][x] = ToSet(Walk(0, x))
    BY DEF ShowsItems
  <2>1. x.children = <<>> /\ x.items = <<>>
    BY NoBranchAtZero DEF NoTree
  <2> DEFINE z == 0
  <2>2. z \in Nat /\ z <= 1 /\ x \in Tree[z]
    OBVIOUS
  <2> HIDE DEF z
  <2>3. Walk(z, x) = x.items
    BY <2>2, WalkOfLeaf
  <2>4. ItemsOf[z][x] = ToSet(x.items) \cup UNION {ItemsOf[z - 1][child] : child \in ToSet(x.children)}
    BY <2>2, ItemsOfIs DEF ItemsOfAt
  <2>5. ToSet(x.children) = {}
    BY <2>1, ShownByOne
  <2>6. UNION {ItemsOf[z - 1][child] : child \in ToSet(x.children)} = {}
    BY <2>5
  <2>7. ItemsOf[z][x] = ToSet(Walk(z, x))
    BY <2>3, <2>4, <2>6
  <2> QED
    BY <2>7 DEF z
<1>2. ASSUME NEW k \in S PROVE k + 1 \in S
  BY ShowsItemsMore
<1> HIDE DEF S
<1>3. h \in S
  BY <1>1, <1>2, SetInduction
<1> QED
  BY <1>3 DEF S, ShowsItems

\* The items with a key.
With(S, sought) == {x \in S : x.key = sought}

One(prev)    == IF prev = NoItem THEN {} ELSE {prev}

\* A set with an item put in place of the one with its key.
IsPut(S, item, prev, T) == With(S, item.key) = One(prev) /\ T = (S \ With(S, item.key)) \cup {item}

(* The lengths of three parts. *)
LEMMA FramedLength ==
    ASSUME NEW a \in Seq(Item), NEW m \in Seq(Item), NEW b \in Seq(Item)
    PROVE  /\ Framed(a, m, b) \in Seq(Item) /\ Len(Framed(a, m, b)) = (Len(a) + Len(m)) + Len(b)
           /\ Cat(a, b) \in Seq(Item) /\ Len(Cat(a, b)) = Len(a) + Len(b)
           /\ Len(a) \in Nat /\ Len(m) \in Nat /\ Len(b) \in Nat
<1> DEFINE am == Cat(a, m)
<1>1. am \in Seq(Item) /\ Len(am) = Len(a) + Len(m)
  BY LengthsAdd DEF Cat
<1>2. Cat(a, b) \in Seq(Item) /\ Len(Cat(a, b)) = Len(a) + Len(b)
  BY LengthsAdd DEF Cat
<1> HIDE DEF am
<1>3. Cat(am, b) \in Seq(Item) /\ Len(Cat(am, b)) = Len(am) + Len(b)
  BY <1>1, LengthsAdd DEF Cat
<1> QED
  BY <1>1, <1>2, <1>3 DEF Framed, am

(* An item put into a walk: its length, its order and what it shows. *)
LEMMA PutsWell ==
    ASSUME NEW w, NEW item \in Item, NEW prev, NEW v, Puts(w, item, prev, v)
    PROVE  /\ w \in Seq(Item) /\ v \in Seq(Item)
           /\ Len(v) = IF prev = NoItem THEN Len(w) + 1 ELSE Len(w)
           /\ Sorted(w) => Sorted(v) /\ IsPut(ToSet(w), item, prev, ToSet(v))
<1>1. PICK X, M, Y : PutsAt(X, M, Y, w, item, prev, v)
  BY DEF Puts
<1>2. /\ X \in Seq(Item) /\ M \in Seq(Item) /\ Y \in Seq(Item)
      /\ w = Framed(X, M, Y) /\ v = Framed(X, <<item>>, Y)
      /\ IF prev = NoItem THEN M = <<>> ELSE M = <<prev>>
      /\ Sorted(w) => /\ KeysUnder(X, item.key) /\ KeysOver(item.key, Y)
                      /\ prev # NoItem => prev.key = item.key
  BY <1>1 DEF PutsAt
<1> DEFINE one == <<item>>
<1>3. /\ one \in Seq(Item) /\ Len(one) = 1 /\ ToSet(one) = {item} /\ Sorted(one)
      /\ ToSet(M) = One(prev) /\ Len(M) = IF prev = NoItem THEN 0 ELSE 1
  <2>1. one \in Seq(Item) /\ Len(one) = 1
    OBVIOUS
  <2>2. ToSet(one) = {item} /\ Sorted(one)
    BY ShownByOne, SortedOne
  <2>3. ToSet(M) = One(prev)
    BY <1>2, ShownByOne DEF One
  <2>4. Len(M) = IF prev = NoItem THEN 0 ELSE 1
    <3>1. Len(<<>>) = 0 /\ Len(<<prev>>) = 1
      OBVIOUS
    <3> QED
      BY <1>2, <3>1
  <2> QED
    BY <2>1, <2>2, <2>3, <2>4
<1>t. X \in Seq(Item) /\ Y \in Seq(Item)
  BY <1>2
<1>o. one \in Seq(Item)
  BY <1>3
<1>v. v = Framed(X, one, Y)
  BY <1>2
<1> HIDE DEF one
<1>4. /\ w \in Seq(Item) /\ Len(w) = (Len(X) + Len(M)) + Len(Y)
      /\ v \in Seq(Item) /\ Len(v) = (Len(X) + Len(one)) + Len(Y)
      /\ Len(X) \in Nat /\ Len(Y) \in Nat
  <2>1. w \in Seq(Item) /\ Len(w) = (Len(X) + Len(M)) + Len(Y)
    BY <1>2, FramedLength
  <2>2. v \in Seq(Item) /\ Len(v) = (Len(X) + Len(one)) + Len(Y)
    BY <1>t, <1>o, <1>v, FramedLength
  <2> QED
    BY <1>2, <2>1, <2>2, FramedLength
<1>5. Len(v) = IF prev = NoItem THEN Len(w) + 1 ELSE Len(w)
  BY <1>3, <1>4
<1>6. ASSUME Sorted(w) PROVE Sorted(v) /\ IsPut(ToSet(w), item, prev, ToSet(v))
  <2>1. Sorted(X) /\ Sorted(Y) /\ Apart(X, Y) /\ ToSet(w) = (ToSet(X) \cup One(prev)) \cup ToSet(Y)
    BY <1>2, <1>3, <1>6, SortedFramed
  <2>2. /\ KeysUnder(X, item.key) /\ KeysOver(item.key, Y)
        /\ prev # NoItem => prev.key = item.key
    BY <1>2, <1>6
  <2>3. Apart(X, one) /\ Apart(one, Y)
    BY <1>3, <2>2 DEF Apart, KeysUnder, KeysOver
  <2>4. Sorted(v) /\ ToSet(v) = (ToSet(X) \cup {item}) \cup ToSet(Y)
    <3>1. Sorted(Framed(X, one, Y))
      BY <1>2, <1>3, <2>1, <2>3, SortedFramed
    <3>2. ToSet(Framed(X, one, Y)) = (ToSet(X) \cup ToSet(one)) \cup ToSet(Y)
      BY <1>2, <1>3, SortedFramed
    <3> QED
      BY <1>3, <1>v, <3>1, <3>2
  <2>5. /\ \A x \in ToSet(X) : x.key \in Int /\ x.key # item.key
        /\ \A x \in ToSet(Y) : x.key \in Int /\ x.key # item.key
    <3>1. item.key \in Int
      BY KeysAreInt
    <3>2. /\ \A x \in ToSet(X) : x.key \in Int /\ x.key < item.key
          /\ \A x \in ToSet(Y) : x.key \in Int /\ item.key < x.key
      BY <1>2, <2>2, ShownAt, KeysAreInt DEF KeysUnder, KeysOver
    <3> QED
      BY <3>1, <3>2
  <2>6. With(ToSet(w), item.key) = One(prev)
    BY <2>1, <2>2, <2>5 DEF With, One
  <2>7. ToSet(v) = (ToSet(w) \ One(prev)) \cup {item}
    <3>1. \A x \in One(prev) : x \notin ToSet(X) /\ x \notin ToSet(Y)
      BY <2>2, <2>5 DEF One
    <3> QED
      BY <2>1, <2>4, <3>1
  <2> QED
    BY <2>4, <2>6, <2>7 DEF IsPut
<1> QED
  BY <1>4, <1>5, <1>6

\* A set without the item that was deleted, the first, the last or the one with the key.
IsTake(S, a, sought, prev, T) ==
    /\ T = S \ {prev} /\ prev \in S /\ prev \in Item
    /\ a = "POPFRONT" => \A x \in T : prev.key < x.key
    /\ a = "POPBACK" => \A x \in T : x.key < prev.key
    /\ a = "DELKEY" => With(S, sought) = {prev}

(* An item taken out of a walk. *)
LEMMA TakesWell ==
    ASSUME NEW a, NEW sought, NEW w, NEW prev, NEW v, Takes(a, sought, w, prev, v), prev # NoItem
    PROVE  /\ w \in Seq(Item) /\ v \in Seq(Item) /\ Len(v) = Len(w) - 1
           /\ Sorted(w) => Sorted(v) /\ IsTake(ToSet(w), a, sought, prev, ToSet(v))
<1>1. PICK X, Y : TakesAt(X, Y, a, sought, w, prev, v)
  BY DEF Takes
<1>2. /\ X \in Seq(Item) /\ Y \in Seq(Item) /\ prev \in Item
      /\ w = Framed(X, <<prev>>, Y) /\ v = Cat(X, Y)
      /\ a = "POPFRONT" => X = <<>>
      /\ a = "POPBACK" => Y = <<>>
      /\ a = "DELKEY" => prev.key = sought
  BY <1>1 DEF TakesAt
<1> DEFINE one == <<prev>>
<1>3. /\ one \in Seq(Item) /\ Len(one) = 1 /\ ToSet(one) = {prev}
      /\ a = "POPFRONT" => ToSet(X) = {}
      /\ a = "POPBACK" => ToSet(Y) = {}
  BY <1>2, ShownByOne
<1>t. X \in Seq(Item) /\ Y \in Seq(Item)
  BY <1>2
<1>o. one \in Seq(Item)
  BY <1>3
<1>w. w = Framed(X, one, Y)
  BY <1>2
<1> HIDE DEF one
<1>4. /\ w \in Seq(Item) /\ Len(w) = (Len(X) + Len(one)) + Len(Y)
      /\ v \in Seq(Item) /\ Len(v) = Len(X) + Len(Y)
      /\ Len(X) \in Nat /\ Len(Y) \in Nat
  <2>1. w \in Seq(Item) /\ Len(w) = (Len(X) + Len(one)) + Len(Y)
    BY <1>t, <1>o, <1>w, FramedLength
  <2>2. v \in Seq(Item) /\ Len(v) = Len(X) + Len(Y)
    BY <1>2, FramedLength
  <2> QED
    BY <1>2, <2>1, <2>2, FramedLength
<1>5. Len(v) = Len(w) - 1
  BY <1>3, <1>4
<1>6. ASSUME Sorted(w) PROVE Sorted(v) /\ IsTake(ToSet(w), a, sought, prev, ToSet(v))
  <2>1. /\ Sorted(X) /\ Sorted(Y) /\ Apart(X, Y) /\ Apart(X, one) /\ Apart(one, Y)
        /\ ToSet(w) = (ToSet(X) \cup {prev}) \cup ToSet(Y)
    BY <1>2, <1>3, <1>w, <1>6, SortedFramed
  <2>2. Sorted(v) /\ ToSet(v) = ToSet(X) \cup ToSet(Y)
    BY <1>2, <2>1, SortedCat, ShownByCat
  <2>3. /\ \A x \in ToSet(X) : x.key \in Int /\ x.key < prev.key
        /\ \A x \in ToSet(Y) : x.key \in Int /\ prev.key < x.key
    BY <1>2, <1>3, <2>1, ShownAt, KeysAreInt DEF Apart
  <2>4. prev.key \in Int
    BY <1>2, KeysAreInt
  <2>5. \A x \in ToSet(X) \cup ToSet(Y) : x.key # prev.key
    BY <2>3, <2>4
  <2>6. ToSet(v) = ToSet(w) \ {prev} /\ prev \in ToSet(w)
    BY <2>1, <2>2, <2>5
  <2>7. a = "DELKEY" => With(ToSet(w), sought) = {prev}
    BY <1>2, <2>1, <2>5 DEF With
  <2>8. /\ a = "POPFRONT" => \A x \in ToSet(v) : prev.key < x.key
        /\ a = "POPBACK" => \A x \in ToSet(v) : x.key < prev.key
    BY <1>3, <2>2, <2>3
  <2> QED
    BY <1>2, <2>2, <2>6, <2>7, <2>8 DEF IsTake
<1> QED
  BY <1>4, <1>5, <1>6

(* A key that is missed is of no item. *)
LEMMA MissesWell ==
    ASSUME NEW a, NEW sought, NEW w, NEW v, Takes(a, sought, w, NoItem, v)
    PROVE  a = "DELKEY" /\ (Sorted(w) => With(ToSet(w), sought) = {})
  BY DEF Takes, Misses, With

\* btree_load is given only items that are greater than all there are.
Sheltered == "load_unsorted" \notin Client

ItemWalk == Walk(height, root)

\* The items are counted, and in order.
OrderInv == count = Len(ItemWalk) /\ (Sheltered => Sorted(ItemWalk))

\* What an insertion, a deletion and a call that changes no tree do to the walk.
SetsWalk(item) ==
    /\ Puts(ItemWalk, item, ret', Walk(height', root'))
    /\ count' = IF ret' = NoItem THEN count + 1 ELSE count
    /\ oom' = FALSE

FailsToSet == UNCHANGED <<root, height, count>> /\ ret' = NoItem /\ oom' = TRUE

AppendsToWalk(item) ==
    /\ Walk(height', root') = Cat(ItemWalk, <<item>>)
    /\ Sheltered => KeysUnder(ItemWalk, item.key)
    /\ count' = count + 1 /\ ret' = NoItem /\ oom' = FALSE

DeletesFromWalk(a, sought) ==
    /\ Takes(a, sought, ItemWalk, ret', Walk(height', root'))
    /\ ret' # NoItem /\ count' = count - 1 /\ oom' = oom

DeletesNothing(a, sought) ==
    /\ UNCHANGED <<root, height, count, oom>> /\ ret' = NoItem
    /\ height = 0 \/ Takes(a, sought, ItemWalk, NoItem, ItemWalk)

SetsOrFails(item)    == SetsWalk(item) \/ FailsToSet

DeletesOrNot(a, sought) == DeletesFromWalk(a, sought) \/ DeletesNothing(a, sought)

(* The walk of the tree is a sequence of items, and shows them all. *)
LEMMA ItemWalkShows ==
    ASSUME TreeInv
    PROVE  /\ height \in Nat /\ root \in Tree[height] /\ ItemWalk \in Seq(Item)
           /\ Items = ToSet(ItemWalk)
<1>1. Whole(height, root)
  BY DEF TreeInv, Kept
<1>2. height \in Nat /\ root \in Tree[height]
  BY <1>1, WholeParts
<1> QED
  BY <1>2, WalkInSeq, WalkShowsItems DEF Items, ItemWalk

(* An insertion. *)
LEMMA SetOnWalk ==
    ASSUME TreeInv, NEW item \in Item, NEW lean_left \in BOOLEAN, NEW mallocs \in Nat,
           btree_set_x(item, lean_left, mallocs)
    PROVE  SetsOrFails(item)
<1> DEFINE filled == fill_pool(pool, height, mallocs)
           q == filled.pool
           s == SetInto(item, lean_left, q)
<1>1. Whole(height, root) /\ PoolOk(pool)
  BY DEF TreeInv, Kept
<1>2. height \in Nat
  BY <1>1, WholeParts
<1>3. PoolOk(q)
  <2> HIDE DEF filled
  <2>1. filled = fill_pool(pool, height, mallocs)
    BY DEF filled
  <2> QED
    BY <1>1, <1>2, <2>1, Filling
<1>6. CASE ~filled.ok
  BY <1>6 DEF btree_set_x, FailsToSet, SetsOrFails
<1>7. CASE filled.ok
  <2>1. /\ root' = s.node /\ height' = height + s.grown
        /\ count' = (IF s.prev = NoItem THEN count + 1 ELSE count)
        /\ ret' = s.prev /\ oom' = FALSE
    BY <1>7 DEF btree_set_x
  <2>2. q \in Pool
    BY <1>3 DEF PoolOk
  <2> HIDE DEF q, filled
  <2>3. IsSetting(item, lean_left, q) /\ s = SetInto(item, lean_left, q)
    BY <2>2 DEF IsSetting
  <2>4. TreePuts(height, root, item, s)
    <3> HIDE DEF s
    <3> QED
      BY <1>1, <2>3, SetIntoWalk
  <2> HIDE DEF s
  <2>5. Puts(ItemWalk, item, ret', Walk(height', root'))
    BY <2>1, <2>4 DEF TreePuts, ItemWalk
  <2> QED
    BY <2>1, <2>5 DEF SetsWalk, SetsOrFails
<1> QED
  BY <1>6, <1>7

(* An item appended to the last leaf. *)
LEMMA AppendOnWalk ==
    ASSUME TreeInv, NEW item \in Item, load_appends(item)
    PROVE  AppendsToWalk(item)
<1> DEFINE lo == 1
           t == AppendToLastLeaf(height, root, item)
<1>1. Whole(height, root) /\ Loaded(height, root, litem)
  BY DEF TreeInv, Kept
<1>2. /\ litem # 0 /\ Len(LastLeaf[height][root].items) < MaxItems - 2
      /\ root' = t /\ height' = height /\ count' = count + 1 /\ ret' = NoItem /\ oom' = FALSE
      /\ Sheltered => \A i \in Items : i.key < item.key
  BY DEF load_appends, LoadAppends, MayLoad, Sheltered
<1>3. height # 0
  <2>1. height = 0 => Len(LastLeaf[height][root].items) = 0
    BY <1>1, LastLength
  <2>2. litem \in 0 .. Len(LastLeaf[height][root].items)
    BY <1>1 DEF Loaded
  <2> QED
    BY <2>1, <2>2, <1>2
<1>4. height \in Nat /\ height >= 1 /\ root \in Good(height, 1, MaxItems - 2)
  BY <1>1, <1>3, WholeParts
<1>5. IsAppending(height, lo, root, item)
  <2>1. lo \in Int
    OBVIOUS
  <2>2. root \in Good(height, lo, MaxItems - 2)
    BY <1>4
  <2> HIDE DEF lo
  <2> QED
    BY <1>2, <1>4, <2>1, <2>2 DEF IsAppending
<1>6. IsAppendedWalk(height, root, item, t)
  <2> HIDE DEF lo
  <2> QED
    BY <1>4, <1>5, AppendWalk
<1> HIDE DEF t
<1>7. Walk(height', root') = Cat(ItemWalk, <<item>>)
  BY <1>2, <1>6 DEF IsAppendedWalk, ItemWalk
<1>8. Sheltered => KeysUnder(ItemWalk, item.key)
  BY <1>2, ItemWalkShows DEF KeysUnder
<1> QED
  BY <1>2, <1>7, <1>8 DEF AppendsToWalk

(* A deletion. *)
LEMMA DeleteOnWalk ==
    ASSUME TreeInv, NEW act \in DelAct, NEW sought \in Key \cup {0}, act = "DELKEY" => sought \in Key,
           NEW mallocs \in Nat, delete_x(act, sought, mallocs)
    PROVE  DeletesOrNot(act, sought)
<1> DEFINE d == node_delete(height, root, act, sought, pool, mallocs)
           e == ShrinkRoot(d)
           h2 == IF Shrinks(d) THEN height - 1 ELSE height
           lo == 1
           hi == MaxItems - 2
<1>1. Whole(height, root) /\ PoolOk(pool)
  BY DEF TreeInv, Kept
<1>2. oom' = oom
  BY DEF delete_x
<1>3. CASE root = NoTree
  <2>1. root' = root /\ height' = height /\ count' = count /\ ret' = NoItem
    BY <1>3 DEF delete_x
  <2>2. height = 0
    BY <1>1, <1>3, WholeParts
  <2> QED
    BY <1>2, <2>1, <2>2 DEF DeletesNothing, DeletesOrNot
<1>4. CASE root # NoTree
  <2>1. height \in Nat /\ height >= 1 /\ root \in Good(height, 1, MaxItems - 2)
    BY <1>1, <1>4, WholeParts
  <2>2. IsDeleting(sought, pool, mallocs)
    BY <1>1 DEF IsDeleting
  <2>3. NodeDeletion(height, root, pool, d)
    BY <2>1, <2>2, NodeDeleted
  <2>4. WalkTakes(height, root, act, sought, d)
    BY <2>1, <2>2, NodeDeleteWalk
  <2>5. IF d.prev = NoItem
        THEN ret' = NoItem /\ UNCHANGED <<root, height, count>>
        ELSE root' = e.node /\ ret' = d.prev /\ count' = count - 1 /\ height' = h2
    BY <1>4 DEF delete_x
  <2> HIDE DEF d
  <2>6. Takes(act, sought, ItemWalk, d.prev, Walk(height, d.node))
    BY <2>4 DEF WalkTakes, ItemWalk
  <2>7. CASE d.prev = NoItem
    <3>1. Takes(act, sought, ItemWalk, NoItem, ItemWalk)
      BY <2>6, <2>7 DEF Takes
    <3> QED
      BY <1>2, <2>5, <2>7, <3>1 DEF DeletesNothing, DeletesOrNot
  <2>8. CASE d.prev # NoItem
    <3>1. IsDeletion(d) /\ d.node \in Good(height, Len(root.items) - 1, Len(root.items))
      BY <2>3, <2>8 DEF NodeDeletion
    <3>2. d.node \in Good(height, 0, MaxItems - 2)
      <4> DEFINE n == Len(root.items)
                 a == n - 1
                 zero == 0
      <4>1. lo \in Int /\ hi \in Int /\ root \in Good(height, lo, hi) /\ zero \in Int
        BY <2>1, MinItemsBound
      <4> HIDE DEF lo, hi
      <4>2. n \in lo .. hi /\ n \in Nat
        BY <4>1, <2>1, GoodParts
      <4>3. d.node \in Good(height, a, n)
        BY <3>1
      <4>4. zero <= a /\ n <= hi /\ a \in Int
        BY <4>1, <4>2 DEF lo
      <4> HIDE DEF a, n, zero
      <4>5. Good(height, a, n) \subseteq Good(height, zero, hi)
        BY <4>1, <4>2, <4>4, GoodWithin
      <4> QED
        BY <4>3, <4>5 DEF zero, hi
    <3>3. IsShrinking(height, d, h2, e)
      BY <2>1, <3>1, <3>2 DEF IsShrinking
    <3>4. Walk(h2, e.node) = Walk(height, d.node)
      <4> HIDE DEF h2, e
      <4> QED
        BY <3>3, ShrunkWalk
    <3> HIDE DEF e, h2
    <3>5. Takes(act, sought, ItemWalk, ret', Walk(height', root'))
      BY <2>5, <2>6, <2>8, <3>4
    <3> QED
      BY <1>2, <2>5, <2>8, <3>5 DEF DeletesFromWalk, DeletesOrNot
  <2> QED
    BY <2>7, <2>8
<1> QED
  BY <1>3, <1>4

\* What a call does to the walk of the tree, to the count and to what is returned.
FreesWalk == Walk(height', root') = <<>> /\ count' = 0 /\ UNCHANGED <<oom, ret>>

WalkNext ==
    \/ \E item \in Item : SetsOrFails(item) \/ AppendsToWalk(item)
    \/ \E sought \in Key : DeletesOrNot("DELKEY", sought)
    \/ DeletesOrNot("POPFRONT", 0)
    \/ DeletesOrNot("POPBACK", 0)
    \/ FreesWalk
    \/ UNCHANGED <<root, height, count, oom, ret>>

(* There is nothing to walk without a tree. *)
LEMMA NoWalk ==
    /\ Walk(0, NoTree) = <<>> /\ Len(Walk(0, NoTree)) = 0
    /\ \A h, tree : Whole(h, tree) /\ h = 0 => Walk(h, tree) = <<>>
<1> DEFINE z == 0
           none == <<>>
<1>1. Whole(z, NoTree)
  BY DEF Whole
<1>2. z \in Nat /\ z <= 1 /\ NoTree \in Tree[z]
  BY <1>1, WholeParts
<1>3. NoTree.items = none /\ Len(none) = 0
  BY DEF NoTree
<1> HIDE DEF z, none
<1>4. Walk(z, NoTree) = none
  BY <1>2, <1>3, WalkOfLeaf
<1>5. \A h, tree : Whole(h, tree) /\ h = 0 => tree = NoTree
  BY WholeParts
<1>6. Walk(0, NoTree) = <<>>
  BY <1>4 DEF z, none
<1> QED
  BY <1>3, <1>5, <1>6 DEF none

(* Every call of the program is one of these. *)
LEMMA NextOnWalk == TreeInv /\ [Next]_vars => WalkNext
<1> SUFFICES ASSUME TreeInv, [Next]_vars PROVE WalkNext
  OBVIOUS
<1>1. ASSUME NEW item \in Item, NEW mallocs \in Mallocs, btree_set(item, mallocs) PROVE WalkNext
  <2>1. btree_set_x(item, FALSE, mallocs)
    BY <1>1 DEF btree_set
  <2>2. SetsOrFails(item)
    BY <2>1, MallocsAreNat, SetOnWalk
  <2> QED
    BY <2>2 DEF WalkNext
<1>2. ASSUME NEW item \in Item, NEW mallocs \in Mallocs, load_sets(item, mallocs) PROVE WalkNext
  <2>1. btree_set_x(item, TRUE, mallocs)
    BY <1>2 DEF load_sets
  <2>2. SetsOrFails(item)
    BY <2>1, MallocsAreNat, SetOnWalk
  <2> QED
    BY <2>2 DEF WalkNext
<1>3. ASSUME NEW item \in Item, NEW mallocs \in Mallocs, load_crashes(item, mallocs) PROVE WalkNext
  BY <1>3 DEF load_crashes, WalkNext
<1>4. ASSUME NEW item \in Item, load_appends(item) PROVE WalkNext
  BY <1>4, AppendOnWalk DEF WalkNext
<1>5. ASSUME NEW sought \in Key, NEW mallocs \in Mallocs, btree_delete(sought, mallocs) PROVE WalkNext
  <2>1. DeletesOrNot("DELKEY", sought)
    BY <1>5, MallocsAreNat, DeleteOnWalk DEF btree_delete, DelAct
  <2> QED
    BY <2>1 DEF WalkNext
<1>6. ASSUME NEW mallocs \in Mallocs, btree_pop_min(mallocs) PROVE WalkNext
  <2>1. DeletesOrNot("POPFRONT", 0)
    BY <1>6, MallocsAreNat, DeleteOnWalk DEF btree_pop_min, DelAct
  <2> QED
    BY <2>1 DEF WalkNext
<1>7. ASSUME NEW mallocs \in Mallocs, btree_pop_max(mallocs) PROVE WalkNext
  <2>1. DeletesOrNot("POPBACK", 0)
    BY <1>7, MallocsAreNat, DeleteOnWalk DEF btree_pop_max, DelAct
  <2> QED
    BY <2>1 DEF WalkNext
<1>8. CASE btree_free
  <2>1. root' = NoTree /\ height' = 0 /\ count' = 0 /\ oom' = oom /\ ret' = ret
    BY <1>8 DEF btree_free
  <2> QED
    BY <2>1, NoWalk DEF WalkNext, FreesWalk
<1>9. CASE UNCHANGED vars
  BY <1>9 DEF vars, WalkNext
<1> QED
  BY <1>1, <1>2, <1>3, <1>4, <1>5, <1>6, <1>7, <1>8, <1>9 DEF Next

(* An item appended to a walk. *)
LEMMA AppendsWell ==
    ASSUME NEW w \in Seq(Item), NEW item \in Item, NEW v, v = Cat(w, <<item>>)
    PROVE  /\ v \in Seq(Item) /\ Len(v) = Len(w) + 1 /\ ToSet(v) = ToSet(w) \cup {item}
           /\ Sorted(w) /\ KeysUnder(w, item.key) => Sorted(v) /\ With(ToSet(w), item.key) = {}
<1> DEFINE one == <<item>>
<1>1. one \in Seq(Item)
  OBVIOUS
<1>2. Len(one) = 1
  OBVIOUS
<1>3. ToSet(one) = {item} /\ Sorted(one)
  BY ShownByOne, SortedOne
<1>4. v = Cat(w, one)
  OBVIOUS
<1> HIDE DEF one
<1>5. v \in Seq(Item) /\ Len(v) = Len(w) + Len(one) /\ Len(w) \in Nat
  BY <1>1, <1>4, FramedLength
<1>6. ToSet(v) = ToSet(w) \cup ToSet(one)
  BY <1>1, <1>4, ShownByCat
<1>7. ASSUME Sorted(w), KeysUnder(w, item.key) PROVE Sorted(v) /\ With(ToSet(w), item.key) = {}
  <2>1. Apart(w, one)
    BY <1>3, <1>7 DEF Apart, KeysUnder
  <2>2. Sorted(v)
    BY <1>1, <1>3, <1>4, <1>7, <2>1, SortedCat
  <2>3. \A x \in ToSet(w) : x.key \in Int /\ x.key < item.key
    BY <1>7, ShownAt, KeysAreInt DEF KeysUnder
  <2>4. item.key \in Int
    BY KeysAreInt
  <2>5. \A x \in ToSet(w) : x.key # item.key
    BY <2>3, <2>4
  <2> QED
    BY <2>2, <2>5 DEF With
<1> QED
  BY <1>2, <1>3, <1>5, <1>6, <1>7

(* Every call keeps the items counted and in order. *)
LEMMA OrderInvKept == TreeInv /\ OrderInv /\ [Next]_vars => OrderInv'
<1> SUFFICES ASSUME TreeInv, OrderInv, [Next]_vars PROVE OrderInv'
  OBVIOUS
<1> DEFINE w == ItemWalk
           v == Walk(height', root')
<1>1. WalkNext
  BY NextOnWalk
<1>2. w \in Seq(Item) /\ Len(w) \in Nat
  BY ItemWalkShows
<1>3. count = Len(w) /\ (Sheltered => Sorted(w))
  BY DEF OrderInv
<1>4. count' = Len(v) /\ (Sheltered => Sorted(v)) => OrderInv'
  BY DEF OrderInv, ItemWalk
<1>5. UNCHANGED <<root, height>> => v = w
  BY DEF ItemWalk
<1> HIDE DEF v, w
<1>6. ASSUME NEW item \in Item, SetsOrFails(item) PROVE OrderInv'
  <2>1. CASE FailsToSet
    BY <2>1, <1>3, <1>4, <1>5 DEF FailsToSet
  <2>2. CASE SetsWalk(item)
    <3>1. Puts(w, item, ret', v) /\ count' = IF ret' = NoItem THEN count + 1 ELSE count
      BY <2>2 DEF SetsWalk, v, w
    <3>2. Len(v) = (IF ret' = NoItem THEN Len(w) + 1 ELSE Len(w)) /\ (Sorted(w) => Sorted(v))
      BY <3>1, PutsWell
    <3> QED
      BY <1>3, <1>4, <3>1, <3>2
  <2> QED
    BY <1>6, <2>1, <2>2 DEF SetsOrFails
<1>7. ASSUME NEW item \in Item, AppendsToWalk(item) PROVE OrderInv'
  <2>1. v = Cat(w, <<item>>) /\ (Sheltered => KeysUnder(w, item.key)) /\ count' = count + 1
    BY <1>7 DEF AppendsToWalk, v, w
  <2>2. Len(v) = Len(w) + 1 /\ (Sorted(w) /\ KeysUnder(w, item.key) => Sorted(v))
    BY <1>2, <2>1, AppendsWell
  <2> QED
    BY <1>3, <1>4, <2>1, <2>2
<1>8. ASSUME NEW a, NEW sought, DeletesOrNot(a, sought) PROVE OrderInv'
  <2>1. CASE DeletesNothing(a, sought)
    BY <2>1, <1>3, <1>4, <1>5 DEF DeletesNothing
  <2>2. CASE DeletesFromWalk(a, sought)
    <3>1. Takes(a, sought, w, ret', v) /\ ret' # NoItem /\ count' = count - 1
      BY <2>2 DEF DeletesFromWalk, v, w
    <3>2. Len(v) = Len(w) - 1 /\ (Sorted(w) => Sorted(v))
      BY <3>1, TakesWell
    <3> QED
      BY <1>3, <1>4, <3>1, <3>2
  <2> QED
    BY <1>8, <2>1, <2>2 DEF DeletesOrNot
<1>9. CASE FreesWalk
  <2>1. v = <<>> /\ count' = 0
    BY <1>9 DEF FreesWalk, v
  <2>2. Sorted(v)
    BY <2>1, SortedOne
  <2>3. Len(v) = 0
    BY <2>1
  <2> QED
    BY <1>4, <2>1, <2>2, <2>3
<1>10. CASE UNCHANGED <<root, height, count, oom, ret>>
  BY <1>10, <1>3, <1>4, <1>5
<1> QED
  BY <1>1, <1>6, <1>7, <1>8, <1>9, <1>10 DEF WalkNext

(* At every moment count is the number of the items, and they are in order. *)
LEMMA OrderInvAlways == Spec => [](TreeInv /\ OrderInv)
<1>1. Init => TreeInv /\ OrderInv
  <2> SUFFICES ASSUME Init PROVE TreeInv /\ OrderInv
    OBVIOUS
  <2>1. TreeInv
    BY InitIsWhole
  <2>2. height = 0 /\ root = NoTree /\ count = 0
    BY DEF Init
  <2>3. ItemWalk = <<>> /\ Len(ItemWalk) = 0
    BY <2>2, NoWalk DEF ItemWalk
  <2>4. Sorted(ItemWalk)
    BY <2>3, SortedOne
  <2> QED
    BY <2>1, <2>2, <2>3, <2>4 DEF OrderInv
<1>2. TreeInv /\ OrderInv /\ [Next]_vars => (TreeInv /\ OrderInv)'
  BY TreeInvKept, OrderInvKept
<1> QED
  BY <1>1, <1>2, PTL DEF Spec

\* Between calls the tree is what its own self-check wants (btree.c:1226-1331):
\* a walk meets each key once, in ascending order, and count items; for every
\* client that gives btree_load greater items only.
THEOREM TreeIsOrdered ==
    ASSUME "load_unsorted" \notin Client
    PROVE  Spec => []btree_sane
<1>1. TreeInv /\ OrderInv => SaneHeight /\ SaneOrder
  <2> SUFFICES ASSUME TreeInv, OrderInv PROVE SaneHeight /\ SaneOrder
    OBVIOUS
  <2> DEFINE w == ItemWalk
  <2>1. root \in Tree[height] /\ w \in Seq(Item)
    BY ItemWalkShows
  <2>2. count = Len(w) /\ Sorted(w)
    BY DEF OrderInv, Sheltered
  <2>3. w = node_scan[height][root]
    BY DEF ItemWalk, Walk
  <2> HIDE DEF w
  <2>4. Len(w) \in Nat
    BY <2>1
  <2>5. ASSUME NEW i \in 1 .. Len(w) - 1 PROVE w[i].key < w[i + 1].key
    <3>1. i \in 1 .. Len(w) /\ i + 1 \in 1 .. Len(w) /\ i < i + 1
      BY <2>4
    <3> QED
      BY <2>2, <3>1 DEF Sorted
  <2> QED
    BY <2>1, <2>2, <2>3, <2>5 DEF SaneHeight, SaneOrder, Ascends
<1> QED
  BY <1>1, OrderInvAlways, TreeIsSane, PTL DEF btree_sane

(* The walk after a step shows the items after it. *)
LEMMA WalkShowsNext ==
    ASSUME TreeInv'
    PROVE  Items' = ToSet(Walk(height', root'))
<1>1. Whole(height', root')
  BY DEF TreeInv, Kept
<1>2. height' \in Nat /\ root' \in Tree[height']
  BY <1>1, WholeParts
<1>3. ItemsOf[height'][root'] = ToSet(Walk(height', root'))
  BY <1>2, WalkShowsItems
<1> QED
  BY <1>3 DEF Items

(* What OneOf gives. *)
LEMMA OneIsGiven ==
    ASSUME NEW prev
    PROVE  O!OneOf(One(prev)) = prev
<1>1. CASE prev = NoItem
  BY <1>1 DEF One, O!OneOf
<1>2. CASE prev # NoItem
  <2>1. One(prev) = {prev} /\ One(prev) # {}
    BY <1>2 DEF One
  <2>2. (CHOOSE i \in {prev} : TRUE) = prev
    OBVIOUS
  <2> QED
    BY <2>1, <2>2 DEF O!OneOf
<1> QED
  BY <1>1, <1>2

(* NULL is no item. *)
LEMMA NoneIsGiven == One(NoItem) = {}
  BY DEF One

\* The set a deletion or a pop takes.
Taken(a, sought) ==
    IF a = "POPFRONT" THEN O!Least(Items)
    ELSE IF a = "POPBACK" THEN O!Greatest(Items) ELSE O!WithKey(sought)

(* A deletion takes what it should, or there is nothing of the kind. *)
LEMMA DeletionTakes ==
    ASSUME TreeInv, TreeInv', Sorted(ItemWalk), NEW a \in DelAct, NEW sought, DeletesOrNot(a, sought)
    PROVE  /\ Taken(a, sought) = One(ret')
           /\ Items' = Items \ One(ret')
           /\ oom' = oom
<1> DEFINE w == ItemWalk
           v == Walk(height', root')
           S == Items
           T == Items'
<1>1. S = ToSet(w) /\ w \in Seq(Item)
  BY ItemWalkShows
<1>2. T = ToSet(v)
  BY WalkShowsNext
<1>3. S \subseteq Item /\ \A x \in S : x.key \in Int
  BY <1>1, ShownAt, KeysAreInt
<1>4. O!WithKey(sought) = With(S, sought)
  BY DEF O!WithKey, With
<1>s. UNCHANGED <<root, height>> => T = S
  BY DEF Items
<1>l. /\ O!Least(S) = {i \in S : \A j \in S : i.key <= j.key}
      /\ O!Greatest(S) = {i \in S : \A j \in S : i.key >= j.key}
  BY DEF O!Least, O!Greatest
<1>5. CASE DeletesNothing(a, sought)
  <2>1. /\ UNCHANGED <<root, height, oom>> /\ ret' = NoItem
        /\ height = 0 \/ Takes(a, sought, w, NoItem, w)
    BY <1>5 DEF DeletesNothing
  <2>2. One(ret') = {} /\ T = S
    BY <2>1, <1>s, NoneIsGiven
  <2>3. CASE height = 0
    <3>1. w = <<>>
      BY <2>3, NoWalk DEF TreeInv, Kept, ItemWalk
    <3>2. S = {}
      BY <1>1, <3>1, ShownByOne
    <3>3. Taken(a, sought) = {}
      BY <1>4, <1>l, <3>2 DEF Taken, With
    <3> QED
      BY <2>1, <2>2, <3>2, <3>3
  <2>4. CASE Takes(a, sought, w, NoItem, w)
    <3>1. a = "DELKEY" /\ With(S, sought) = {}
      BY <1>1, <2>4, MissesWell
    <3> QED
      BY <1>4, <2>1, <2>2, <3>1 DEF Taken
  <2> QED
    BY <2>1, <2>3, <2>4
<1>6. CASE DeletesFromWalk(a, sought)
  <2> DEFINE p == ret'
  <2>1. Takes(a, sought, w, p, v) /\ p # NoItem /\ oom' = oom
    BY <1>6 DEF DeletesFromWalk
  <2>2. IsTake(S, a, sought, p, T)
    BY <1>1, <1>2, <2>1, TakesWell
  <2> HIDE DEF S, T, p
  <2>3. One(p) = {p}
    BY <2>1 DEF One
  <2>4. T = S \ {p} /\ p \in S
    BY <2>2 DEF IsTake
  <2>5. CASE a = "POPFRONT"
    <3>1. \A x \in T : p.key < x.key
      BY <2>2, <2>5 DEF IsTake
    <3>2. O!Least(S) = {p}
      BY <1>3, <1>l, <2>4, <3>1
    <3> QED
      BY <2>1, <2>3, <2>4, <2>5, <3>2 DEF Taken, S, T, p
  <2>6. CASE a = "POPBACK"
    <3>1. \A x \in T : x.key < p.key
      BY <2>2, <2>6 DEF IsTake
    <3>2. O!Greatest(S) = {p}
      BY <1>3, <1>l, <2>4, <3>1
    <3> QED
      BY <2>1, <2>3, <2>4, <2>6, <3>2 DEF Taken, S, T, p
  <2>7. CASE a = "DELKEY"
    <3>1. With(S, sought) = {p}
      BY <2>2, <2>7 DEF IsTake
    <3> QED
      BY <1>4, <2>1, <2>3, <2>4, <2>7, <3>1 DEF Taken, S, T, p
  <2> QED
    BY <2>5, <2>6, <2>7 DEF DelAct
<1> QED
  BY <1>5, <1>6 DEF DeletesOrNot

(* A step of the tree is one of the ordered set. *)
LEMMA SetRefines ==
    ASSUME TreeInv, TreeInv', Sorted(ItemWalk), NEW item \in Item, SetsOrFails(item)
    PROVE  O!Set(item) \/ O!OutOfMemory
<1> DEFINE w == ItemWalk
           v == Walk(height', root')
<1>1. Items = ToSet(w)
  BY ItemWalkShows
<1>2. Items' = ToSet(v)
  BY WalkShowsNext
<1>3. CASE FailsToSet
  <2>1. Items' = Items /\ ret' = NoItem /\ oom' = TRUE
    BY <1>3 DEF FailsToSet, Items
  <2> QED
    BY <2>1 DEF O!OutOfMemory
<1>4. CASE SetsWalk(item)
  <2>1. Puts(w, item, ret', v) /\ oom' = FALSE
    BY <1>4 DEF SetsWalk
  <2>2. IsPut(Items, item, ret', Items')
    BY <1>1, <1>2, <2>1, PutsWell
  <2>3. O!WithKey(item.key) = With(Items, item.key)
    BY DEF O!WithKey, With
  <2>4. O!WithKey(item.key) = One(ret') /\ Items' = (Items \ O!WithKey(item.key)) \cup {item}
    BY <2>2, <2>3 DEF IsPut
  <2>5. O!OneOf(O!WithKey(item.key)) = ret'
    BY <2>4, OneIsGiven
  <2> QED
    BY <2>1, <2>4, <2>5 DEF O!Set
<1> QED
  BY <1>3, <1>4 DEF SetsOrFails

(* An item appended is one set. *)
LEMMA AppendRefines ==
    ASSUME TreeInv, TreeInv', Sorted(ItemWalk), Sheltered, NEW item \in Item, AppendsToWalk(item)
    PROVE  O!Set(item)
<1> DEFINE w == ItemWalk
           v == Walk(height', root')
<1>1. Items = ToSet(w) /\ w \in Seq(Item)
  BY ItemWalkShows
<1>2. Items' = ToSet(v)
  BY WalkShowsNext
<1>3. v = Cat(w, <<item>>) /\ KeysUnder(w, item.key) /\ ret' = NoItem /\ oom' = FALSE
  BY DEF AppendsToWalk
<1> HIDE DEF v, w
<1>4. ToSet(v) = ToSet(w) \cup {item} /\ With(ToSet(w), item.key) = {}
  <2>1. Sorted(w)
    BY DEF w
  <2> QED
    BY <1>1, <1>3, <2>1, AppendsWell
<1>5. O!WithKey(item.key) = One(NoItem)
  BY <1>1, <1>4, NoneIsGiven DEF O!WithKey, With
<1>6. O!OneOf(O!WithKey(item.key)) = ret'
  BY <1>3, <1>5, OneIsGiven
<1>7. Items' = (Items \ O!WithKey(item.key)) \cup {item}
  BY <1>1, <1>2, <1>4, <1>5, NoneIsGiven
<1> QED
  BY <1>3, <1>6, <1>7 DEF O!Set

(* A deletion of a key no item has takes the set of no items. *)
LEMMA DeleteRefines ==
    ASSUME TreeInv, TreeInv', Sorted(ItemWalk), NEW sought \in Key, DeletesOrNot("DELKEY", sought)
    PROVE  (\E i \in Item : O!Delete(i.key)) \/ O!PopMin
<1> DEFINE S == Items
<1>1. O!WithKey(sought) = One(ret') /\ Items' = S \ O!WithKey(sought) /\ oom' = oom
  <2>1. "DELKEY" \in DelAct
    BY DEF DelAct
  <2> DEFINE a == "DELKEY"
  <2>2. Taken(a, sought) = One(ret') /\ Items' = S \ One(ret') /\ oom' = oom
    BY <2>1, DeletionTakes
  <2> QED
    BY <2>2 DEF Taken
<1>2. O!OneOf(O!WithKey(sought)) = ret'
  BY <1>1, OneIsGiven
<1>3. O!Delete(sought)
  BY <1>1, <1>2 DEF O!Delete, O!Take
<1>4. CASE S = {}
  <2>1. O!Least(S) = {} /\ O!WithKey(sought) = {}
    BY <1>4 DEF O!Least, O!WithKey
  <2> QED
    BY <1>1, <1>2, <2>1 DEF O!PopMin, O!Take
<1>5. CASE S # {}
  <2>1. S \subseteq Item
    BY ItemWalkShows, ShownAt
  <2>2. PICK x \in Item : TRUE
    BY <1>5, <2>1
  <2> DEFINE j == [key |-> sought, val |-> x.val]
  <2>3. j \in Item /\ j.key = sought
    BY <2>2 DEF Item
  <2> QED
    BY <1>3, <2>3
<1> QED
  BY <1>4, <1>5

(* Every step. *)
LEMMA NextRefines ==
    ASSUME TreeInv, TreeInv', Sorted(ItemWalk), Sheltered, [Next]_vars
    PROVE  [O!Next]_<<Items, ret, oom>>
<1>1. WalkNext
  BY NextOnWalk
<1>2. ASSUME NEW item \in Item, SetsOrFails(item) PROVE O!Next
  BY <1>2, SetRefines DEF O!Next
<1>3. ASSUME NEW item \in Item, AppendsToWalk(item) PROVE O!Next
  BY <1>3, AppendRefines DEF O!Next
<1>4. ASSUME NEW sought \in Key, DeletesOrNot("DELKEY", sought) PROVE O!Next
  BY <1>4, DeleteRefines DEF O!Next
<1>5. CASE DeletesOrNot("POPFRONT", 0)
  <2> DEFINE a == "POPFRONT"
             zero == 0
  <2>1. a \in DelAct /\ DeletesOrNot(a, zero)
    BY <1>5 DEF DelAct
  <2>2. Taken(a, zero) = O!Least(Items)
    BY DEF Taken
  <2> HIDE DEF a, zero
  <2>3. O!Least(Items) = One(ret') /\ Items' = Items \ One(ret') /\ oom' = oom
    BY <2>1, <2>2, DeletionTakes
  <2>4. O!OneOf(O!Least(Items)) = ret'
    BY <2>3, OneIsGiven
  <2> QED
    BY <2>3, <2>4 DEF O!Next, O!PopMin, O!Take
<1>6. CASE DeletesOrNot("POPBACK", 0)
  <2> DEFINE a == "POPBACK"
             zero == 0
  <2>1. a \in DelAct /\ DeletesOrNot(a, zero)
    BY <1>6 DEF DelAct
  <2>2. Taken(a, zero) = O!Greatest(Items)
    BY DEF Taken
  <2> HIDE DEF a, zero
  <2>3. O!Greatest(Items) = One(ret') /\ Items' = Items \ One(ret') /\ oom' = oom
    BY <2>1, <2>2, DeletionTakes
  <2>4. O!OneOf(O!Greatest(Items)) = ret'
    BY <2>3, OneIsGiven
  <2> QED
    BY <2>3, <2>4 DEF O!Next, O!PopMax, O!Take
<1>7. CASE FreesWalk
  <2>1. Items' = ToSet(Walk(height', root'))
    BY WalkShowsNext
  <2>2. Items' = {} /\ oom' = oom /\ ret' = ret
    BY <1>7, <2>1, ShownByOne DEF FreesWalk
  <2> QED
    BY <2>2 DEF O!Next, O!Clear
<1>8. CASE UNCHANGED <<root, height, count, oom, ret>>
  BY <1>8 DEF Items
<1> QED
  BY <1>1, <1>2, <1>3, <1>4, <1>5, <1>6, <1>7, <1>8 DEF WalkNext

(* What a call removes is the item with its key, or at the end of its name. *)
LEMMA PopsTake ==
    ASSUME TreeInv, TreeInv', Sorted(ItemWalk)
    PROVE  /\ PopsMin => ret' = O!OneOf(O!Least(Items))
           /\ PopsMax => ret' = O!OneOf(O!Greatest(Items))
           /\ \A sought \in Key : Deletes(sought) => ret' = O!OneOf(O!WithKey(sought))
<1> DEFINE zero == 0
           front == "POPFRONT"
           back == "POPBACK"
           del == "DELKEY"
<1>t. front \in DelAct /\ back \in DelAct /\ del \in DelAct /\ zero \in Key \cup {0}
  BY DEF DelAct
<1>1. ASSUME NEW mallocs \in Mallocs, btree_pop_min(mallocs) PROVE ret' = O!OneOf(O!Least(Items))
  <2>1. delete_x(front, zero, mallocs) /\ front # "DELKEY"
    BY <1>1 DEF btree_pop_min
  <2>2. Taken(front, zero) = O!Least(Items)
    BY DEF Taken
  <2> HIDE DEF front, zero
  <2>3. DeletesOrNot(front, zero)
    BY <1>t, <2>1, MallocsAreNat, DeleteOnWalk
  <2>4. O!Least(Items) = One(ret')
    BY <1>t, <2>2, <2>3, DeletionTakes
  <2> QED
    BY <2>4, OneIsGiven
<1>2. ASSUME NEW mallocs \in Mallocs, btree_pop_max(mallocs) PROVE ret' = O!OneOf(O!Greatest(Items))
  <2>1. delete_x(back, zero, mallocs) /\ back # "DELKEY"
    BY <1>2 DEF btree_pop_max
  <2>2. Taken(back, zero) = O!Greatest(Items)
    BY DEF Taken
  <2> HIDE DEF back, zero
  <2>3. DeletesOrNot(back, zero)
    BY <1>t, <2>1, MallocsAreNat, DeleteOnWalk
  <2>4. O!Greatest(Items) = One(ret')
    BY <1>t, <2>2, <2>3, DeletionTakes
  <2> QED
    BY <2>4, OneIsGiven
<1>3. ASSUME NEW sought \in Key, NEW mallocs \in Mallocs, btree_delete(sought, mallocs)
      PROVE  ret' = O!OneOf(O!WithKey(sought))
  <2>1. delete_x(del, sought, mallocs)
    BY <1>3 DEF btree_delete
  <2>2. Taken(del, sought) = O!WithKey(sought)
    BY DEF Taken
  <2> HIDE DEF del
  <2>3. DeletesOrNot(del, sought)
    BY <1>t, <2>1, MallocsAreNat, DeleteOnWalk
  <2>4. O!WithKey(sought) = One(ret')
    BY <1>t, <2>2, <2>3, DeletionTakes
  <2> QED
    BY <2>4, OneIsGiven
<1> QED
  BY <1>1, <1>2, <1>3 DEF PopsMin, PopsMax, Deletes

\* Such a client sees the ordered set the comments of btree.c describe: an item
\* set replaces and returns the one with its key, one loaded is added, one
\* deleted or popped is the right one and is returned, and a failed allocation
\* changes nothing.
THEOREM TreeIsOrderedSet ==
    ASSUME "load_unsorted" \notin Client
    PROVE  Spec => IsOrderedSet
<1>1. TreeInv /\ OrderInv => Sorted(ItemWalk) /\ Sheltered
  BY DEF OrderInv, Sheltered
<1>2. Init => O!Init
  <2> SUFFICES ASSUME Init PROVE O!Init
    OBVIOUS
  <2>1. TreeInv /\ height = 0 /\ root = NoTree /\ ret = NoItem /\ oom = FALSE
    BY InitIsWhole DEF Init
  <2>2. Items = {}
    BY <2>1, ItemWalkShows, NoWalk, ShownByOne DEF ItemWalk
  <2> QED
    BY <2>1, <2>2 DEF O!Init
<1>3. TreeInv /\ OrderInv /\ TreeInv' /\ [Next]_vars => [O!Next]_<<Items, ret, oom>>
  BY <1>1, NextRefines
<1>4. TreeInv /\ OrderInv /\ TreeInv' /\ [Next]_vars => [TakesRight]_vars
  BY <1>1, PopsTake DEF TakesRight
<1>5. Spec => O!Spec /\ [][TakesRight]_vars
  BY <1>2, <1>3, <1>4, OrderInvAlways, PTL DEF Spec, O!Spec
<1> QED
  BY <1>5, PTL DEF IsOrderedSet

FirstLeafStep(h, below) ==
    [node \in Tree[h] |-> IF IsLeaf(node) THEN node ELSE below[Head(node.children)]]

FirstLeaves == INSTANCE Recursion WITH Step <- FirstLeafStep

(* The first leaf of a tree. *)
LEMMA FirstLeafIs ==
    ASSUME NEW h \in Nat, NEW node \in Tree[h]
    PROVE  FirstLeaf[h][node] = IF IsLeaf(node) THEN node ELSE FirstLeaf[h - 1][Head(node.children)]
<1> DEFINE Def(f) == f = [k \in Nat |-> FirstLeafStep(k, f[k - 1])]
<1>1. \A x, y : FirstLeafStep(0, x) = FirstLeafStep(0, y)
  BY NoBranchAtZero DEF FirstLeafStep
<1>2. \E f : Def(f)
  BY <1>1, FirstLeaves!Solvable
<1>3. FirstLeaf = CHOOSE f : Def(f)
  BY DEF FirstLeaf, FirstLeafStep
<1>4. Def(FirstLeaf)
  BY <1>2, <1>3
<1> HIDE DEF Def
<1>5. FirstLeaf[h] = FirstLeafStep(h, FirstLeaf[h - 1])
  BY <1>4 DEF Def
<1> QED
  BY <1>5 DEF FirstLeafStep

GetAt(h, node, sought, below) ==
    LET i == node_find(node, sought)
    IN  IF HasAt(node, i, sought) THEN node.items[i]
        ELSE IF IsLeaf(node) THEN NoItem
        ELSE below[node.children[i]][sought]

GetStep(h, below) == [node \in Tree[h] |-> [sought \in Key |-> GetAt(h, node, sought, below)]]

Gets == INSTANCE Recursion WITH Step <- GetStep

(* What a search for a key returns. *)
LEMMA GetIs ==
    ASSUME NEW h \in Nat, NEW node \in Tree[h], NEW sought \in Key
    PROVE  btree_get[h][node][sought] = GetAt(h, node, sought, btree_get[h - 1])
<1> DEFINE Def(f) == f = [k \in Nat |-> GetStep(k, f[k - 1])]
<1>1. \A x, y : GetStep(0, x) = GetStep(0, y)
  BY NoBranchAtZero DEF GetStep, GetAt
<1>2. \E f : Def(f)
  BY <1>1, Gets!Solvable
<1>3. btree_get = CHOOSE f : Def(f)
  BY DEF btree_get, GetStep, GetAt
<1>4. Def(btree_get)
  BY <1>2, <1>3
<1> HIDE DEF Def
<1>5. btree_get[h] = GetStep(h, btree_get[h - 1])
  BY <1>4 DEF Def
<1> QED
  BY <1>5 DEF GetStep

AscendAt(h, node, pivot, below) ==
    LET i == node_find(node, pivot)
    IN  (IF IsLeaf(node) \/ HasAt(node, i, pivot) THEN <<>>
         ELSE below[node.children[i]][pivot])
        \o ScanFrom(h, node, i)

AscendStep(h, below) == [node \in Tree[h] |-> [pivot \in Key |-> AscendAt(h, node, pivot, below)]]

Ascents == INSTANCE Recursion WITH Step <- AscendStep

(* What a walk up from a pivot shows. *)
LEMMA AscendIs ==
    ASSUME NEW h \in Nat, NEW node \in Tree[h], NEW pivot \in Key
    PROVE  node_ascend[h][node][pivot] = AscendAt(h, node, pivot, node_ascend[h - 1])
<1> DEFINE Def(f) == f = [k \in Nat |-> AscendStep(k, f[k - 1])]
<1>1. \A x, y : AscendStep(0, x) = AscendStep(0, y)
  BY NoBranchAtZero DEF AscendStep, AscendAt
<1>2. \E f : Def(f)
  BY <1>1, Ascents!Solvable
<1>3. node_ascend = CHOOSE f : Def(f)
  BY DEF node_ascend, AscendStep, AscendAt
<1>4. Def(node_ascend)
  BY <1>2, <1>3
<1> HIDE DEF Def
<1>5. node_ascend[h] = AscendStep(h, node_ascend[h - 1])
  BY <1>4 DEF Def
<1> QED
  BY <1>5 DEF AscendStep

DescendAt(h, node, pivot, below) ==
    LET i == node_find(node, pivot)
    IN  IF HasAt(node, i, pivot) THEN ReverseFrom(h, node, i)
        ELSE (IF IsLeaf(node) THEN <<>> ELSE below[node.children[i]][pivot])
             \o ReverseFrom(h, node, i - 1)

DescendStep(h, below) == [node \in Tree[h] |-> [pivot \in Key |-> DescendAt(h, node, pivot, below)]]

Descents == INSTANCE Recursion WITH Step <- DescendStep

(* What a walk down from a pivot shows. *)
LEMMA DescendIs ==
    ASSUME NEW h \in Nat, NEW node \in Tree[h], NEW pivot \in Key
    PROVE  node_descend[h][node][pivot] = DescendAt(h, node, pivot, node_descend[h - 1])
<1> DEFINE Def(f) == f = [k \in Nat |-> DescendStep(k, f[k - 1])]
<1>1. \A x, y : DescendStep(0, x) = DescendStep(0, y)
  BY NoBranchAtZero DEF DescendStep, DescendAt
<1>2. \E f : Def(f)
  BY <1>1, Descents!Solvable
<1>3. node_descend = CHOOSE f : Def(f)
  BY DEF node_descend, DescendStep, DescendAt
<1>4. Def(node_descend)
  BY <1>2, <1>3
<1> HIDE DEF Def
<1>5. node_descend[h] = DescendStep(h, node_descend[h - 1])
  BY <1>4 DEF Def
<1> QED
  BY <1>5 DEF DescendStep

-----------------------------------------------------------------------------
(* Walks from a pivot on.                                                    *)

(* A sequence read backwards. *)
LEMMA ReverseIs ==
    ASSUME NEW T, NEW a \in Seq(T)
    PROVE  /\ Reverse(a) \in Seq(T) /\ Len(Reverse(a)) = Len(a) /\ Len(a) \in Nat
           /\ \A i \in 1 .. Len(a) : Reverse(a)[i] = a[(Len(a) - i) + 1]
<1> DEFINE n == Len(a)
           r == [i \in 1 .. n |-> a[(n - i) + 1]]
<1>1. n \in Nat /\ \A i \in 1 .. n : (n - i) + 1 \in 1 .. n
  OBVIOUS
<1>2. \A i \in 1 .. n : a[(n - i) + 1] \in T
  BY <1>1
<1>3. Reverse(a) = r
  BY DEF Reverse
<1>4. r \in [1 .. n -> T]
  <2> HIDE DEF n
  <2> QED
    BY <1>2
<1>5. r \in Seq(T) /\ DOMAIN r = 1 .. n
  <2> HIDE DEF r
  <2> QED
    BY <1>1, <1>4
<1>6. Len(r) = n
  <2> HIDE DEF r, n
  <2> QED
    BY <1>1, <1>5
<1> QED
  BY <1>1, <1>3, <1>5, <1>6

(* Reading one element, and none. *)
LEMMA ReverseOne ==
    ASSUME NEW T, NEW x \in T
    PROVE  Reverse(<<x>>) = <<x>> /\ Reverse(<<>>) = <<>>
<1>1. <<x>> \in Seq(T) /\ Len(<<x>>) = 1
  OBVIOUS
<1>2. Reverse(<<x>>) = <<x>>
  <2> DEFINE one == <<x>>
             r == Reverse(one)
  <2>1. one \in Seq(T) /\ Len(one) = 1 /\ one[1] = x
    OBVIOUS
  <2> HIDE DEF one
  <2>2. r \in Seq(T) /\ Len(r) = Len(one) /\ \A i \in 1 .. Len(one) : r[i] = one[(Len(one) - i) + 1]
    BY <2>1, ReverseIs
  <2> HIDE DEF r
  <2>3. Len(r) = 1 /\ r[1] = x
    BY <2>1, <2>2
  <2>4. r = <<x>>
    BY <2>2, <2>3
  <2> QED
    BY <2>4 DEF r, one
<1>3. Reverse(<<>>) = <<>>
  <2>1. <<>> \in Seq(T) /\ Len(<<>>) = 0
    OBVIOUS
  <2>2. Reverse(<<>>) \in Seq(T) /\ Len(Reverse(<<>>)) = 0
    BY <2>1, ReverseIs
  <2> QED
    BY <2>2
<1> QED
  BY <1>2, <1>3

(* One sequence behind another, read backwards. *)
LEMMA ReverseConcat ==
    ASSUME NEW T, NEW a \in Seq(T), NEW b \in Seq(T)
    PROVE  Reverse(a \o b) = Reverse(b) \o Reverse(a)
<1> DEFINE c == a \o b
           n == Len(a)
           m == Len(b)
           l == Reverse(c)
           u == Reverse(a)
           v == Reverse(b)
           r == v \o u
<1>1. c \in Seq(T) /\ Len(c) = n + m /\ n \in Nat /\ m \in Nat
  BY LengthsAdd
<1>2. /\ l \in Seq(T) /\ Len(l) = n + m
      /\ \A i \in 1 .. n + m : l[i] = c[((n + m) - i) + 1]
  <2> HIDE DEF c, n, m
  <2>1. l \in Seq(T) /\ Len(l) = Len(c) /\ \A i \in 1 .. Len(c) : l[i] = c[(Len(c) - i) + 1]
    BY <1>1, ReverseIs
  <2> QED
    BY <1>1, <2>1
<1>3. /\ u \in Seq(T) /\ Len(u) = n /\ \A i \in 1 .. n : u[i] = a[(n - i) + 1]
  BY ReverseIs
<1>4. /\ v \in Seq(T) /\ Len(v) = m /\ \A i \in 1 .. m : v[i] = b[(m - i) + 1]
  BY ReverseIs
<1>5. r \in Seq(T) /\ Len(r) = m + n /\ \A i \in 1 .. m + n : r[i] = IF i <= m THEN v[i] ELSE u[i - m]
  <2> HIDE DEF n, m, u, v
  <2>1. u \in Seq(T) /\ v \in Seq(T) /\ Len(u) = n /\ Len(v) = m
    BY <1>3, <1>4
  <2>2. /\ r \in Seq(T) /\ Len(r) = Len(v) + Len(u)
        /\ \A i \in 1 .. Len(v) + Len(u) : r[i] = IF i <= Len(v) THEN v[i] ELSE u[i - Len(v)]
    BY <2>1
  <2> HIDE DEF r
  <2> QED
    BY <2>1, <2>2
<1>6. \A i \in 1 .. n + m : c[i] = IF i <= n THEN a[i] ELSE b[i - n]
  OBVIOUS
<1> HIDE DEF c, n, m, l, u, v, r
<1>7. ASSUME NEW i \in 1 .. n + m PROVE l[i] = r[i]
  <2>1. i \in Nat /\ i >= 1 /\ i <= n + m
    BY <1>1
  <2> DEFINE j == ((n + m) - i) + 1
  <2>2. j \in 1 .. n + m /\ l[i] = c[j]
    BY <1>1, <1>2, <2>1
  <2>3. CASE i <= m
    <3>1. ~(j <= n) /\ j - n = (m - i) + 1 /\ i \in 1 .. m
      BY <1>1, <2>1, <2>3
    <3>2. c[j] = b[j - n]
      BY <1>6, <2>2, <3>1
    <3>3. r[i] = v[i] /\ v[i] = b[(m - i) + 1]
      BY <1>1, <1>4, <1>5, <2>1, <2>3, <3>1
    <3> QED
      BY <2>2, <3>1, <3>2, <3>3
  <2>4. CASE ~(i <= m)
    <3>1. j <= n /\ j = (n - (i - m)) + 1 /\ i - m \in 1 .. n
      BY <1>1, <2>1, <2>4
    <3>2. c[j] = a[j]
      BY <1>6, <2>2, <3>1
    <3>3. r[i] = u[i - m] /\ u[i - m] = a[(n - (i - m)) + 1]
      BY <1>1, <1>3, <1>5, <2>1, <2>4, <3>1
    <3> QED
      BY <2>2, <3>1, <3>2, <3>3
  <2> QED
    BY <2>3, <2>4
<1>8. l = r
  <2>1. Len(l) = Len(r)
    BY <1>1, <1>2, <1>5
  <2>2. \A i \in 1 .. Len(l) : l[i] = r[i]
    BY <1>2, <1>7
  <2> QED
    BY <1>2, <1>5, <2>1, <2>2, SeqEqual
<1> QED
  BY <1>8 DEF c, l, u, v, r

(* Two walks, one after the other, read backwards. *)
LEMMA ReverseCat ==
    ASSUME NEW a \in Seq(Item), NEW b \in Seq(Item)
    PROVE  Reverse(Cat(a, b)) = Cat(Reverse(b), Reverse(a)) /\ Reverse(a) \in Seq(Item)
  BY ReverseConcat, ReverseIs DEF Cat

\* Walks in reverse order, each read backwards.
ReverseAll(A) == [j \in 1 .. Len(A) |-> Reverse(A[(Len(A) - j) + 1])]

(* Walks in reverse order are as many. *)
LEMMA ReverseAllIs ==
    ASSUME NEW A \in Seq(Seq(Item))
    PROVE  /\ ReverseAll(A) \in Seq(Seq(Item)) /\ Len(ReverseAll(A)) = Len(A) /\ Len(A) \in Nat
           /\ \A j \in 1 .. Len(A) : ReverseAll(A)[j] = Reverse(A[(Len(A) - j) + 1])
<1> DEFINE n == Len(A)
           T == Seq(Item)
           r == [j \in 1 .. n |-> Reverse(A[(n - j) + 1])]
<1>1. n \in Nat /\ \A j \in 1 .. n : (n - j) + 1 \in 1 .. n
  OBVIOUS
<1>2. ASSUME NEW j \in 1 .. n PROVE Reverse(A[(n - j) + 1]) \in T
  <2> DEFINE p == A[(n - j) + 1]
  <2>1. p \in Seq(Item)
    BY <1>1
  <2> HIDE DEF p
  <2>2. Reverse(p) \in Seq(Item)
    BY <2>1, ReverseIs
  <2> QED
    BY <2>2 DEF p
<1>3. ReverseAll(A) = r
  BY DEF ReverseAll
<1>4. r \in [1 .. n -> T]
  <2> HIDE DEF n, T
  <2> QED
    BY <1>2
<1>5. r \in Seq(T) /\ DOMAIN r = 1 .. n
  <2> HIDE DEF r, T
  <2> QED
    BY <1>1, <1>4
<1>6. Len(r) = n
  <2> HIDE DEF r, n
  <2> QED
    BY <1>1, <1>5
<1> QED
  BY <1>1, <1>3, <1>5, <1>6

(* One more item, and one more walk, come first backwards. *)
LEMMA ReverseMore ==
    ASSUME NEW X \in Seq(Item), NEW x \in Item, NEW A \in Seq(Seq(Item)), NEW p \in Seq(Item)
    PROVE  /\ Reverse(Append(X, x)) = <<x>> \o Reverse(X)
           /\ ReverseAll(Append(A, p)) = <<Reverse(p)>> \o ReverseAll(A)
<1>1. Reverse(Append(X, x)) = <<x>> \o Reverse(X)
  <2> DEFINE one == <<x>>
  <2>1. Append(X, x) = X \o one /\ one \in Seq(Item)
    OBVIOUS
  <2>2. Reverse(one) = one
    BY ReverseOne
  <2> HIDE DEF one
  <2>3. Reverse(X \o one) = Reverse(one) \o Reverse(X)
    BY <2>1, ReverseConcat
  <2> QED
    BY <2>1, <2>2, <2>3 DEF one
<1>2. ReverseAll(Append(A, p)) = <<Reverse(p)>> \o ReverseAll(A)
  <2> DEFINE T == Seq(Item)
             B == Append(A, p)
             n == Len(A)
             q == Reverse(p)
             one == <<q>>
             RA == ReverseAll(A)
             RB == ReverseAll(B)
             r == one \o RA
  <2>1. B \in Seq(T) /\ Len(B) = n + 1 /\ n \in Nat /\ B[n + 1] = p /\ \A j \in 1 .. n : B[j] = A[j]
    OBVIOUS
  <2>2. RA \in Seq(T) /\ Len(RA) = n /\ \A j \in 1 .. n : RA[j] = Reverse(A[(n - j) + 1])
    BY ReverseAllIs
  <2>3. RB \in Seq(T) /\ Len(RB) = n + 1 /\ \A j \in 1 .. n + 1 : RB[j] = Reverse(B[((n + 1) - j) + 1])
    <3> HIDE DEF B, n
    <3>1. RB \in Seq(T) /\ Len(RB) = Len(B) /\ \A j \in 1 .. Len(B) : RB[j] = Reverse(B[(Len(B) - j) + 1])
      BY <2>1, ReverseAllIs
    <3> QED
      BY <2>1, <3>1
  <2>4. q \in T
    BY ReverseIs
  <2> HIDE DEF T, B, n, q, RA, RB
  <2>5. r \in Seq(T) /\ Len(r) = n + 1 /\ r[1] = q /\ \A j \in 1 .. n : r[j + 1] = RA[j]
    <3>1. one \in Seq(T) /\ Len(one) = 1 /\ one[1] = q
      BY <2>4
    <3> HIDE DEF one
    <3>0. RA \in Seq(T)
      BY <2>2
    <3>2. /\ r \in Seq(T) /\ Len(r) = Len(one) + Len(RA)
          /\ \A j \in 1 .. Len(one) + Len(RA) : r[j] = IF j <= Len(one) THEN one[j] ELSE RA[j - Len(one)]
      BY <3>0, <3>1, ConcatElements
    <3> HIDE DEF r
    <3>3. Len(r) = 1 + n /\ \A j \in 1 .. 1 + n : r[j] = IF j <= 1 THEN one[j] ELSE RA[j - 1]
      BY <2>2, <3>1, <3>2
    <3> QED
      BY <2>1, <3>1, <3>2, <3>3
  <2> HIDE DEF r
  <2>6. ASSUME NEW j \in 1 .. n + 1 PROVE RB[j] = r[j]
    <3>1. CASE j = 1
      <4>1. RB[1] = Reverse(B[n + 1])
        BY <2>1, <2>3, <3>1
      <4> QED
        BY <2>1, <2>5, <3>1, <4>1 DEF q
    <3>2. CASE j # 1
      <4> DEFINE k == j - 1
      <4>1. k \in 1 .. n /\ j = k + 1 /\ ((n + 1) - j) + 1 = (n - k) + 1 /\ (n - k) + 1 \in 1 .. n
        BY <2>1, <3>2
      <4>2. RB[j] = Reverse(A[(n - k) + 1])
        BY <2>1, <2>3, <4>1
      <4>3. r[j] = RA[k] /\ RA[k] = Reverse(A[(n - k) + 1])
        BY <2>2, <2>5, <4>1
      <4> QED
        BY <4>2, <4>3
    <3> QED
      BY <3>1, <3>2
  <2>7. RB = r
    <3>1. \A j \in 1 .. Len(RB) : RB[j] = r[j]
      BY <2>3, <2>6
    <3> QED
      BY <2>3, <2>5, <3>1, SeqEqual
  <2> QED
    BY <2>7 DEF RB, B, r, q, RA
<1> QED
  BY <1>1, <1>2

\* A walk from the end of items and parts.
WeavesBack(X, A) ==
    /\ Pairs(Reverse(X), ReverseAll(A))
    /\ BeforeParts(Reverse(X), ReverseAll(A)) = Reverse(AfterParts(X, A))

WeavesBackFor(n) == \A X, A : Pairs(X, A) /\ Len(X) = n => WeavesBack(X, A)

(* Backwards, items and parts still go together. *)
LEMMA PairsReversed ==
    ASSUME NEW X, NEW A, Pairs(X, A)
    PROVE  Pairs(Reverse(X), ReverseAll(A))
<1>1. X \in Seq(Item) /\ A \in Seq(Seq(Item)) /\ Len(A) = Len(X)
  BY DEF Pairs
<1> QED
  BY <1>1, ReverseIs, ReverseAllIs DEF Pairs

(* Of nothing, nothing is woven. *)
LEMMA WeavesBackNone == WeavesBackFor(0)
<1> SUFFICES ASSUME NEW X, NEW A, Pairs(X, A), Len(X) = 0 PROVE WeavesBack(X, A)
  BY DEF WeavesBackFor
<1>0. X \in Seq(Item) /\ A \in Seq(Seq(Item)) /\ Len(A) = 0
  BY DEF Pairs
<1>1. X = <<>> /\ A = <<>>
  BY <1>0
<1>2. Reverse(<<>>) = <<>>
  <2>1. <<>> \in Seq(Item) /\ Len(<<>>) = 0
    OBVIOUS
  <2>2. Reverse(<<>>) \in Seq(Item) /\ Len(Reverse(<<>>)) = 0
    BY <2>1, ReverseIs
  <2> QED
    BY <2>2
<1>3. A \in Seq(Seq(Item)) /\ Len(A) = 0
  BY <1>1
<1>4. ReverseAll(A) = <<>>
  <2>1. ReverseAll(A) \in Seq(Seq(Item)) /\ Len(ReverseAll(A)) = 0
    BY <1>3, ReverseAllIs
  <2> QED
    BY <2>1
<1>5. <<<<>>>> \o <<>> = <<<<>>>> /\ Append(<<>>, <<>>) = <<<<>>>>
  OBVIOUS
<1>6. BeforeParts(<<>>, <<>>) = <<>> /\ AfterParts(<<>>, <<>>) = <<>>
  BY <1>5, NothingWoven DEF BeforeParts, AfterParts
<1>7. Pairs(Reverse(X), ReverseAll(A))
  BY PairsReversed
<1> QED
  BY <1>1, <1>2, <1>4, <1>6, <1>7 DEF WeavesBack

(* With one more item and part. *)
LEMMA WeavesBackMore ==
    ASSUME NEW X, NEW A, Pairs(X, A), WeavesBack(X, A), NEW x \in Item, NEW p \in Seq(Item)
    PROVE  WeavesBack(Append(X, x), Append(A, p))
<1> DEFINE Y == Append(X, x)
           B == Append(A, p)
           one == <<x>>
           q == Reverse(p)
           part == <<q>>
           RX == Reverse(X)
           RA == ReverseAll(A)
           none == <<>>
           walk == AfterParts(X, A)
<1>1. X \in Seq(Item) /\ A \in Seq(Seq(Item)) /\ Len(A) = Len(X)
  BY DEF Pairs
<1>2. Pairs(Y, B)
  <2>1. Y \in Seq(Item) /\ B \in Seq(Seq(Item)) /\ Len(Y) = Len(X) + 1 /\ Len(B) = Len(A) + 1
    BY <1>1
  <2> QED
    BY <1>1, <2>1 DEF Pairs
<1>3. Pairs(Reverse(Y), ReverseAll(B))
  BY <1>2, PairsReversed
<1>4. Reverse(Y) = one \o RX /\ ReverseAll(B) = part \o RA
  BY <1>1, ReverseMore
<1>5. RX \in Seq(Item) /\ RA \in Seq(Seq(Item)) /\ Len(RA) = Len(RX) /\ q \in Seq(Item) /\ Len(RX) \in Nat
  BY <1>1, ReverseIs, ReverseAllIs
<1>6. one \in Seq(Item) /\ none \in Seq(Item) /\ Len(none) = 0
  OBVIOUS
<1>7. walk \in Seq(Item) /\ Woven(X, B) = Cat(walk, p)
  BY WeavesInOne
<1>8. AfterParts(Y, B) = Cat(Cat(walk, p), one)
  BY <1>1, <1>2, <1>7, AfterIs
<1>9. BeforeParts(RX, RA) = Reverse(walk) /\ Pairs(RX, RA)
  BY DEF WeavesBack
<1> HIDE DEF Y, B, one, q, RX, RA, none, walk
<1>10. part \in Seq(Seq(Item)) /\ Len(part) = 1
  BY <1>5
<1>11. Woven(none, part) = q
  BY <1>5, WovenFromNone DEF none
<1> HIDE DEF part
<1>12. Fits(none, part)
  BY <1>6, <1>10 DEF Fits
<1>13. Woven(none \o RX, part \o RA) = Cat(q, Reverse(walk)) /\ Fits(none \o RX, part \o RA)
  BY <1>9, <1>11, <1>12, WovenRight, FitsConcat DEF WeavesOn
<1>14. none \o RX = RX
  BY <1>5 DEF none
<1>15. BeforeParts(one \o RX, part \o RA) = Cat(one, Cat(q, Reverse(walk)))
  BY <1>13, <1>14, BeforeIs DEF one
<1>16. Reverse(Cat(Cat(walk, p), one)) = Cat(one, Cat(q, Reverse(walk)))
  <2>1. Cat(walk, p) \in Seq(Item)
    BY <1>7, CatIn
  <2>2. Reverse(Cat(walk, p)) = Cat(q, Reverse(walk))
    BY <1>7, ReverseCat DEF q
  <2>3. Reverse(Cat(Cat(walk, p), one)) = Cat(Reverse(one), Reverse(Cat(walk, p)))
    BY <1>6, <2>1, ReverseCat
  <2>4. Reverse(one) = one
    BY ReverseOne DEF one
  <2> QED
    BY <2>2, <2>3, <2>4
<1>17. BeforeParts(Reverse(Y), ReverseAll(B)) = Reverse(AfterParts(Y, B))
  BY <1>4, <1>8, <1>15, <1>16
<1> QED
  BY <1>3, <1>17 DEF WeavesBack, Y, B

\* Read from the end, what is woven with its parts before its items is woven with
\* their reverses behind them.
LEMMA ReversedWoven ==
    ASSUME NEW X, NEW A, Pairs(X, A)
    PROVE  WeavesBack(X, A)
<1> DEFINE S == {n \in Nat : WeavesBackFor(n)}
<1>1. 0 \in S
  BY WeavesBackNone
<1>2. ASSUME NEW n \in Nat, WeavesBackFor(n) PROVE WeavesBackFor(n + 1)
  <2>1. ASSUME NEW V, NEW D, Pairs(V, D), Len(V) = n + 1
        PROVE  WeavesBack(V, D)
    <3>1. V # <<>>
      BY <2>1
    <3>2. PICK I, E, x, p : AreMore(V, D, I, E, x, p)
      BY <2>1, <3>1, PairsMore
    <3>3. /\ Pairs(I, E) /\ x \in Item /\ p \in Seq(Item) /\ V = Append(I, x) /\ D = Append(E, p)
          /\ Len(V) = Len(I) + 1 /\ Len(I) \in Nat
      BY <3>2 DEF AreMore
    <3>4. Len(I) = n
      BY <2>1, <3>3
    <3>5. WeavesBack(I, E)
      BY <1>2, <3>3, <3>4 DEF WeavesBackFor
    <3> QED
      BY <3>3, <3>5, WeavesBackMore
  <2> QED
    BY <2>1 DEF WeavesBackFor
<1>3. \A n \in Nat : n \in S
  <2>1. \A n \in Nat : n \in S => n + 1 \in S
    BY <1>2
  <2> HIDE DEF S
  <2> QED
    BY <1>1, <2>1, SetInduction
<1>4. Len(X) \in Nat /\ WeavesBackFor(Len(X))
  BY <1>3 DEF Pairs
<1> QED
  BY <1>4 DEF WeavesBackFor

(* The elements around a single one. *)
LEMMA AroundElement ==
    ASSUME NEW T, NEW a \in Seq(T), NEW x \in T, NEW b \in Seq(T)
    PROVE  /\ \A j \in 1 .. Len(a) : Spliced(a, <<x>>, b)[j] = a[j]
           /\ \A j \in 1 .. Len(b) : Spliced(a, <<x>>, b)[(Len(a) + 1) + j] = b[j]
<1> DEFINE one == <<x>>
           u == a \o one
           n == Len(a)
           m == Len(b)
           s == u \o b
<1>1. one \in Seq(T) /\ Len(one) = 1 /\ n \in Nat /\ m \in Nat
  OBVIOUS
<1>2. s = Spliced(a, one, b)
  BY DEF Spliced
<1> HIDE DEF one
<1>3. /\ u \in Seq(T) /\ Len(u) = Len(a) + Len(one)
      /\ \A j \in 1 .. Len(a) + Len(one) : u[j] = IF j <= Len(a) THEN a[j] ELSE one[j - Len(a)]
  BY <1>1, ConcatElements
<1> HIDE DEF u
<1>4. \A j \in 1 .. Len(u) + Len(b) : s[j] = IF j <= Len(u) THEN u[j] ELSE b[j - Len(u)]
  BY <1>3, ConcatElements
<1> HIDE DEF n, m, s
<1>5. Len(u) = n + 1 /\ \A j \in 1 .. n + 1 : u[j] = IF j <= n THEN a[j] ELSE one[j - n]
  BY <1>1, <1>3 DEF n
<1>6. \A j \in 1 .. (n + 1) + m : s[j] = IF j <= n + 1 THEN u[j] ELSE b[j - (n + 1)]
  BY <1>4, <1>5 DEF m
<1>7. \A j \in 1 .. n : s[j] = a[j]
  BY <1>1, <1>5, <1>6
<1>8. ASSUME NEW j \in 1 .. m PROVE s[(n + 1) + j] = b[j]
  <2> DEFINE k == (n + 1) + j
  <2>1. k \in 1 .. (n + 1) + m /\ ~(k <= n + 1) /\ k - (n + 1) = j
    BY <1>1
  <2> HIDE DEF k
  <2> QED
    BY <1>6, <2>1 DEF k
<1> QED
  BY <1>2, <1>7, <1>8 DEF n, m, one

\* A branch around one of its children.
AtChild(h, f, i, c, node) == IsSite(h, f, i) /\ c \in Tree[h - 1] /\ node = Site(f, <<>>, <<c>>)

\* What is on either side of a child.
IsBeside(h, f, i, node) ==
    /\ node.items \in Seq(Item) /\ node \in Tree[h] /\ ~IsLeaf(node)
    /\ SubSeq(node.items, i, Len(node.items)) = f.upper
    /\ SubSeq(node.items, 1, i - 1) = f.lower
    /\ Len(node.items) = Len(f.lower) + Len(f.upper)
    /\ \A j \in 1 .. Len(f.right) : node.children[i + j] = f.right[j]
    /\ \A j \in 1 .. Len(f.left) : node.children[j] = f.left[j]

(* The items and the children on either side of a child. *)
LEMMA BesideChild ==
    ASSUME NEW h, NEW f, NEW i, NEW c, NEW node, AtChild(h, f, i, c, node)
    PROVE  IsBeside(h, f, i, node)
<1> DEFINE a == f.lower
           b == f.upper
           l == f.left
           r == f.right
           T == Tree[h - 1]
<1>0. IsSite(h, f, i) /\ c \in T /\ node = Site(f, <<>>, <<c>>)
  BY DEF AtChild
<1>1. /\ a \in Seq(Item) /\ b \in Seq(Item) /\ l \in Seq(T) /\ r \in Seq(T)
      /\ i = Len(a) + 1 /\ i = Len(l) + 1 /\ h \in Nat /\ h >= 1 /\ h # 1
  BY <1>0, SiteParts
<1>2. node.items = Spliced(a, <<>>, b) /\ node.children = Spliced(l, <<c>>, r)
  BY <1>0, SiteItems
<1>3. node \in Tree[h]
  BY <1>0, OneWalk
<1>4. ~IsLeaf(node) /\ node.items \in Seq(Item)
  BY <1>1, <1>3, TreeParts
<1> HIDE DEF a, b, l, r, T
<1>5. node.items = a \o b
  <2>1. a \o <<>> = a
    BY <1>1
  <2> QED
    BY <1>2, <2>1 DEF Spliced
<1>6. /\ SubSeq(a \o b, 1, Len(a)) = a /\ SubSeq(a \o b, Len(a) + 1, Len(a \o b)) = b
      /\ Len(a \o b) = Len(a) + Len(b) /\ Len(a) \in Nat
  BY <1>1, CutConcat, LengthsAdd
<1>7. /\ \A j \in 1 .. Len(l) : Spliced(l, <<c>>, r)[j] = l[j]
      /\ \A j \in 1 .. Len(r) : Spliced(l, <<c>>, r)[(Len(l) + 1) + j] = r[j]
  BY <1>0, <1>1, AroundElement
<1>8. i - 1 = Len(a)
  BY <1>1, <1>6
<1>9. /\ \A j \in 1 .. Len(r) : node.children[i + j] = r[j]
      /\ \A j \in 1 .. Len(l) : node.children[j] = l[j]
  BY <1>1, <1>2, <1>7
<1>10. /\ SubSeq(node.items, i, Len(node.items)) = b /\ SubSeq(node.items, 1, i - 1) = a
       /\ Len(node.items) = Len(a) + Len(b)
  BY <1>1, <1>5, <1>6, <1>8
<1> QED
  BY <1>3, <1>4, <1>9, <1>10 DEF a, b, l, r, IsBeside

(* The walk on from a child is what the iterator shows after it. *)
LEMMA ScanAtChild ==
    ASSUME NEW h, NEW f, NEW i, NEW c, NEW node, AtChild(h, f, i, c, node)
    PROVE  ScanFrom(h, node, i) = RightWalk(h, f)
<1> DEFINE shown == SubSeq(node.items, i, Len(node.items))
           parts == [j \in DOMAIN shown |-> node_scan[h - 1][node.children[i + j]]]
           r == f.right
           B == Walks(h - 1, r)
<1>0. IsSite(h, f, i)
  BY DEF AtChild
<1>1. /\ shown = f.upper /\ ~IsLeaf(node)
      /\ \A j \in 1 .. Len(r) : node.children[i + j] = r[j]
  <2>1. IsBeside(h, f, i, node)
    BY BesideChild
  <2> QED
    BY <2>1 DEF IsBeside
<1>2. f.upper \in Seq(Item) /\ r \in Seq(Tree[h - 1]) /\ Len(r) = Len(f.upper)
  BY <1>0, SiteParts
<1>3. ScanFrom(h, node, i) = Woven(shown, <<<<>>>> \o parts)
  BY <1>1 DEF ScanFrom
<1>4. DOMAIN shown = 1 .. Len(r) /\ DOMAIN r = 1 .. Len(r)
  <2> HIDE DEF shown, r
  <2> QED
    BY <1>1, <1>2
<1>5. B = [j \in DOMAIN r |-> node_scan[h - 1][r[j]]]
  BY DEF Walks, Walk
<1>6. parts = B
  <2> HIDE DEF shown, r, B
  <2>1. parts = [j \in 1 .. Len(r) |-> node_scan[h - 1][node.children[i + j]]]
    BY <1>4
  <2>2. B = [j \in 1 .. Len(r) |-> node_scan[h - 1][r[j]]]
    BY <1>4, <1>5
  <2> HIDE DEF parts
  <2> QED
    BY <1>1, <2>1, <2>2
<1> HIDE DEF shown, parts, B
<1> QED
  BY <1>1, <1>3, <1>6 DEF RightWalk, BeforeParts, B, r

(* The walk up to a child, backwards, is what the iterator shows down from it. *)
LEMMA ReverseAtChild ==
    ASSUME NEW h, NEW f, NEW i, NEW c, NEW node, AtChild(h, f, i, c, node)
    PROVE  ReverseFrom(h, node, i - 1) = Reverse(LeftWalk(h, f))
<1> DEFINE shown == Reverse(SubSeq(node.items, 1, i - 1))
           parts == [j \in DOMAIN shown |-> Reverse(node_scan[h - 1][node.children[(i - 1) + 1 - j]])]
           l == f.left
           a == f.lower
           A == Walks(h - 1, l)
           RA == ReverseAll(A)
<1>0. IsSite(h, f, i)
  BY DEF AtChild
<1>1. /\ shown = Reverse(a) /\ ~IsLeaf(node)
      /\ \A j \in 1 .. Len(l) : node.children[j] = l[j]
  <2>1. IsBeside(h, f, i, node)
    BY BesideChild
  <2> QED
    BY <2>1 DEF IsBeside
<1>2. /\ a \in Seq(Item) /\ l \in Seq(Tree[h - 1]) /\ i = Len(a) + 1 /\ i = Len(l) + 1
      /\ h - 1 \in Nat
  BY <1>0, SiteParts
<1>3. ReverseFrom(h, node, i - 1) = Woven(shown, <<<<>>>> \o parts)
  BY <1>1 DEF ReverseFrom
<1>4. A \in Seq(Seq(Item)) /\ Len(A) = Len(l)
  BY <1>2, WalksAre
<1> DEFINE n == Len(l)
<1>5. n \in Nat /\ DOMAIN l = 1 .. n /\ i = n + 1 /\ Len(a) = n
  BY <1>2
<1>6. DOMAIN shown = 1 .. n
  <2>1. Reverse(a) \in Seq(Item) /\ Len(Reverse(a)) = Len(a)
    BY <1>2, ReverseIs
  <2> QED
    BY <1>1, <1>5, <2>1
<1>7. A = [j \in DOMAIN l |-> node_scan[h - 1][l[j]]]
  BY DEF Walks, Walk
<1>8. RA = [j \in 1 .. n |-> Reverse(A[(n - j) + 1])]
  BY <1>4 DEF ReverseAll
<1>9. parts = [j \in 1 .. n |-> Reverse(node_scan[h - 1][node.children[(i - 1) + 1 - j]])]
  <2> HIDE DEF shown
  <2> QED
    BY <1>6
<1> HIDE DEF shown, parts, l, a, A, RA, n
<1>10. ASSUME NEW j \in 1 .. n
       PROVE  node_scan[h - 1][node.children[(i - 1) + 1 - j]] = A[(n - j) + 1]
  <2> DEFINE k == (n - j) + 1
  <2>1. k \in 1 .. n /\ (i - 1) + 1 - j = k
    BY <1>5
  <2> HIDE DEF k
  <2>2. A[k] = node_scan[h - 1][l[k]]
    BY <1>5, <1>7, <2>1
  <2>3. node.children[k] = l[k]
    BY <1>1, <2>1 DEF n
  <2> QED
    BY <2>1, <2>2, <2>3 DEF k
<1>11. parts = RA
  BY <1>8, <1>9, <1>10
<1>12. ReverseFrom(h, node, i - 1) = BeforeParts(Reverse(a), RA)
  BY <1>1, <1>3, <1>11 DEF BeforeParts
<1>13. Pairs(a, A)
  BY <1>0, SitePairs DEF a, A, l
<1>14. BeforeParts(Reverse(a), RA) = Reverse(AfterParts(a, A))
  BY <1>13, ReversedWoven DEF WeavesBack, RA
<1> QED
  BY <1>12, <1>14 DEF LeftWalk, a, A, l

-----------------------------------------------------------------------------
(* What the iterators and the search should answer, given the walk.          *)

KeysFrom(sought, s) == \A x \in ToSet(s) : x.key >= sought

KeysTo(s, sought)   == \A x \in ToSet(s) : x.key <= sought

\* The end of the walk from the key on; its beginning up to the key, backwards;
\* the item with the key.
IsUp(w, sought, X, s)      == X \in Seq(Item) /\ s \in Seq(Item) /\ w = Cat(X, s) /\ KeysUnder(X, sought) /\ KeysFrom(sought, s)

IsDown(w, sought, P, Y, s) == P \in Seq(Item) /\ Y \in Seq(Item) /\ s = Reverse(P) /\ w = Cat(P, Y) /\ KeysTo(P, sought) /\ KeysOver(sought, Y)

WalksUp(w, sought, s)    == \E X : IsUp(w, sought, X, s)

WalksDown(w, sought, s)  == \E P, Y : IsDown(w, sought, P, Y, s)

Meets(w, sought, g) == One(g) = With(ToSet(w), sought)

(* From an item with the key on. *)
LEMMA UpFrom ==
    ASSUME NEW X \in Seq(Item), NEW y \in Item, NEW a \in Seq(Item), NEW R, R = Cat(<<y>>, a),
           Sorted(Cat(X, R))
    PROVE  WalksUp(Cat(X, R), y.key, R) /\ Meets(Cat(X, R), y.key, y)
<1> DEFINE one == <<y>>
           sought == y.key
           w == Cat(X, R)
<1>1. one \in Seq(Item) /\ ToSet(one) = {y}
  BY ShownByOne
<1>2. R \in Seq(Item) /\ ToSet(R) = {y} \cup ToSet(a)
  BY <1>1, CatIn, ShownByCat
<1>3. Sorted(X) /\ Sorted(R) /\ Apart(X, R)
  BY <1>2, SortedCat
<1>4. Apart(one, a)
  <2> HIDE DEF one
  <2> QED
    BY <1>1, <1>3, SortedCat DEF one
<1>5. \A x \in Item : x.key \in Int
  BY KeysAreInt
<1>6. ToSet(a) \subseteq Item /\ ToSet(X) \subseteq Item
  BY ShownAt
<1>7. \A x \in ToSet(a) : sought < x.key
  BY <1>1, <1>4 DEF Apart
<1>8. \A x \in ToSet(X) : x.key < sought
  BY <1>2, <1>3 DEF Apart
<1>9. KeysFrom(sought, R)
  <2>1. ASSUME NEW x \in ToSet(R) PROVE x.key >= sought
    <3>1. x = y \/ x \in ToSet(a)
      BY <1>2
    <3> QED
      BY <1>5, <1>6, <1>7, <3>1
  <2> QED
    BY <2>1 DEF KeysFrom
<1>10. KeysUnder(X, sought)
  BY <1>8 DEF KeysUnder
<1>11. IsUp(w, sought, X, R)
  BY <1>2, <1>9, <1>10 DEF IsUp
<1>12. ToSet(w) = ToSet(X) \cup ({y} \cup ToSet(a))
  BY <1>2, ShownByCat
<1>13. With(ToSet(w), sought) = {y}
  <2>1. y \in ToSet(w)
    BY <1>12
  <2>2. ASSUME NEW x \in ToSet(w), x.key = sought PROVE x = y
    <3>1. x \in ToSet(X) => x.key < sought
      BY <1>8
    <3>2. x \in ToSet(a) => sought < x.key
      BY <1>7
    <3>3. x \in ToSet(X) \/ x = y \/ x \in ToSet(a)
      BY <1>12
    <3>4. sought \in Int
      BY <1>5
    <3>5. ~(sought < sought)
      BY <3>4
    <3> QED
      BY <2>2, <3>1, <3>2, <3>3, <3>5
  <2> QED
    BY <2>1, <2>2 DEF With
<1>14. y # NoItem
  BY TreeAssumption
<1> HIDE DEF w, sought
<1> QED
  BY <1>11, <1>13, <1>14 DEF WalksUp, Meets, One, w, sought

(* WalksDown from an item with the key. *)
LEMMA DownFrom ==
    ASSUME NEW Y \in Seq(Item), NEW y \in Item, NEW a \in Seq(Item), NEW P, P = Cat(a, <<y>>),
           Sorted(Cat(P, Y))
    PROVE  WalksDown(Cat(P, Y), y.key, Reverse(P))
<1> DEFINE one == <<y>>
           sought == y.key
           w == Cat(P, Y)
<1>1. one \in Seq(Item) /\ ToSet(one) = {y}
  BY ShownByOne
<1>2. P \in Seq(Item) /\ ToSet(P) = ToSet(a) \cup {y}
  <2>1. P = Cat(a, one)
    OBVIOUS
  <2> HIDE DEF one
  <2> QED
    BY <1>1, <2>1, CatIn, ShownByCat
<1>3. Sorted(Y) /\ Sorted(P) /\ Apart(P, Y)
  BY <1>2, SortedCat
<1>4. Apart(a, one)
  <2> HIDE DEF one
  <2> QED
    BY <1>1, <1>3, SortedCat DEF one
<1>5. \A x \in Item : x.key \in Int
  BY KeysAreInt
<1>6. ToSet(a) \subseteq Item /\ ToSet(Y) \subseteq Item
  BY ShownAt
<1>7. \A x \in ToSet(a) : x.key < sought
  BY <1>1, <1>4 DEF Apart
<1>8. \A x \in ToSet(Y) : sought < x.key
  BY <1>2, <1>3 DEF Apart
<1>9. KeysTo(P, sought)
  <2>1. ASSUME NEW x \in ToSet(P) PROVE x.key <= sought
    <3>1. x = y \/ x \in ToSet(a)
      BY <1>2
    <3> QED
      BY <1>5, <1>6, <1>7, <3>1
  <2> QED
    BY <2>1 DEF KeysTo
<1>10. KeysOver(sought, Y)
  BY <1>8 DEF KeysOver
<1>11. IsDown(w, sought, P, Y, Reverse(P))
  BY <1>2, <1>9, <1>10 DEF IsDown
<1> HIDE DEF w, sought
<1> QED
  BY <1>11 DEF WalksDown, w, sought

(* Where the key is not, and would go. *)
LEMMA AnswersBetween ==
    ASSUME NEW a \in Seq(Item), NEW b \in Seq(Item), NEW sought \in Int, KeysUnder(a, sought), KeysOver(sought, b)
    PROVE  WalksUp(Cat(a, b), sought, b) /\ WalksDown(Cat(a, b), sought, Reverse(a)) /\ Meets(Cat(a, b), sought, NoItem)
<1>1. ToSet(a) \subseteq Item /\ ToSet(b) \subseteq Item /\ ToSet(Cat(a, b)) = ToSet(a) \cup ToSet(b)
  BY ShownAt, ShownByCat
<1>2. \A x \in Item : x.key \in Int
  BY KeysAreInt
<1>3. KeysTo(a, sought) /\ KeysFrom(sought, b)
  BY <1>1, <1>2 DEF KeysTo, KeysFrom, KeysUnder, KeysOver
<1>4. IsUp(Cat(a, b), sought, a, b) /\ IsDown(Cat(a, b), sought, a, b, Reverse(a))
  BY <1>3 DEF IsUp, IsDown
<1>5. With(ToSet(Cat(a, b)), sought) = {}
  <2>1. ASSUME NEW x \in ToSet(a) \cup ToSet(b) PROVE x.key # sought
    BY <1>1, <1>2 DEF KeysUnder, KeysOver
  <2> QED
    BY <1>1, <2>1 DEF With
<1> QED
  BY <1>4, <1>5 DEF WalksUp, WalksDown, Meets, One

(* What is answered below a branch is answered at the branch. *)
LEMMA AnswersWithin ==
    ASSUME NEW L \in Seq(Item), NEW m \in Seq(Item), NEW R \in Seq(Item), NEW sought \in Int,
           KeysUnder(L, sought), KeysOver(sought, R), NEW u, NEW d, NEW g,
           WalksUp(m, sought, u), WalksDown(m, sought, d), Meets(m, sought, g)
    PROVE  /\ WalksUp(Framed(L, m, R), sought, Cat(u, R)) /\ WalksDown(Framed(L, m, R), sought, Cat(d, Reverse(L)))
           /\ Meets(Framed(L, m, R), sought, g)
<1> DEFINE w == Framed(L, m, R)
<1>1. PICK X : IsUp(m, sought, X, u)
  BY DEF WalksUp
<1>2. PICK P, Y : IsDown(m, sought, P, Y, d)
  BY DEF WalksDown
<1>3. X \in Seq(Item) /\ u \in Seq(Item) /\ m = Cat(X, u) /\ KeysUnder(X, sought) /\ KeysFrom(sought, u)
  BY <1>1 DEF IsUp
<1>4. /\ P \in Seq(Item) /\ Y \in Seq(Item) /\ d = Reverse(P) /\ m = Cat(P, Y)
      /\ KeysTo(P, sought) /\ KeysOver(sought, Y)
  BY <1>2 DEF IsDown
<1>5. \A x \in Item : x.key \in Int
  BY KeysAreInt
<1>6. ToSet(L) \subseteq Item /\ ToSet(R) \subseteq Item
  BY ShownAt
<1>7. WalksUp(w, sought, Cat(u, R))
  <2> DEFINE a == Cat(L, X)
             b == Cat(u, R)
  <2>1. a \in Seq(Item) /\ b \in Seq(Item) /\ ToSet(a) = ToSet(L) \cup ToSet(X) /\ ToSet(b) = ToSet(u) \cup ToSet(R)
    BY <1>3, CatIn, ShownByCat
  <2>2. w = Cat(a, b)
    <3>1. Cat(Cat(L, Cat(X, u)), R) = Cat(Cat(Cat(L, X), u), R)
      BY <1>3, CatAssoc
    <3>2. Cat(Cat(Cat(L, X), u), R) = Cat(Cat(L, X), Cat(u, R))
      BY <1>3, <2>1, CatAssoc
    <3> QED
      BY <1>3, <3>1, <3>2 DEF Framed
  <2>3. KeysUnder(a, sought)
    BY <1>3, <2>1 DEF KeysUnder
  <2>4. KeysFrom(sought, b)
    BY <1>3, <1>5, <1>6, <2>1 DEF KeysFrom, KeysOver
  <2>5. IsUp(w, sought, a, b)
    BY <2>1, <2>2, <2>3, <2>4 DEF IsUp
  <2> QED
    BY <2>5 DEF WalksUp
<1>8. WalksDown(w, sought, Cat(d, Reverse(L)))
  <2> DEFINE a == Cat(L, P)
             b == Cat(Y, R)
  <2>1. a \in Seq(Item) /\ b \in Seq(Item) /\ ToSet(a) = ToSet(L) \cup ToSet(P) /\ ToSet(b) = ToSet(Y) \cup ToSet(R)
    BY <1>4, CatIn, ShownByCat
  <2>2. w = Cat(a, b)
    <3>1. Cat(Cat(L, Cat(P, Y)), R) = Cat(Cat(Cat(L, P), Y), R)
      BY <1>4, CatAssoc
    <3>2. Cat(Cat(Cat(L, P), Y), R) = Cat(Cat(L, P), Cat(Y, R))
      BY <1>4, <2>1, CatAssoc
    <3> QED
      BY <1>4, <3>1, <3>2 DEF Framed
  <2>3. KeysTo(a, sought)
    BY <1>4, <1>5, <1>6, <2>1 DEF KeysTo, KeysUnder
  <2>4. KeysOver(sought, b)
    BY <1>4, <2>1 DEF KeysOver
  <2>5. Reverse(a) = Cat(d, Reverse(L))
    BY <1>4, ReverseCat
  <2>6. IsDown(w, sought, a, b, Cat(d, Reverse(L)))
    BY <2>1, <2>2, <2>3, <2>4, <2>5 DEF IsDown
  <2> QED
    BY <2>6 DEF WalksDown
<1>9. Meets(w, sought, g)
  <2>1. ToSet(w) = (ToSet(L) \cup ToSet(m)) \cup ToSet(R)
    BY SortedFramed
  <2>2. ASSUME NEW x \in ToSet(L) \cup ToSet(R) PROVE x.key # sought
    BY <1>5, <1>6 DEF KeysUnder, KeysOver
  <2> HIDE DEF w
  <2>3. With(ToSet(w), sought) = With(ToSet(m), sought)
    BY <2>1, <2>2 DEF With
  <2> QED
    BY <2>3 DEF Meets
<1> QED
  BY <1>7, <1>8, <1>9

\* The three answers for a key are those the walk of the node wants.
Answers(h, node, sought, u, d, g) ==
    Sorted(Walk(h, node)) =>
        /\ WalksUp(Walk(h, node), sought, u)
        /\ WalksDown(Walk(h, node), sought, d)
        /\ Meets(Walk(h, node), sought, g)

(* The items of a leaf around a key that is among them. *)
LEMMA LeafCutAt ==
    ASSUME NEW s \in Seq(Item), NEW i \in 1 .. Len(s)
    PROVE  \E a, b : /\ a \in Seq(Item) /\ b \in Seq(Item) /\ s[i] \in Item
                     /\ SubSeq(s, 1, i) = Cat(a, <<s[i]>>) /\ SubSeq(s, i, Len(s)) = Cat(<<s[i]>>, b)
                     /\ s = Cat(a, SubSeq(s, i, Len(s))) /\ s = Cat(SubSeq(s, 1, i), b)
<1> DEFINE a == SubSeq(s, 1, i - 1)
           b == SubSeq(s, i + 1, Len(s))
           y == s[i]
           one == <<y>>
           up == SubSeq(s, i, Len(s))
           down == SubSeq(s, 1, i)
           n == Len(s)
<1>1. /\ a \in Seq(Item) /\ b \in Seq(Item) /\ s = Spliced(a, one, b)
      /\ Len(a) = i - 1 /\ Len(b) = n - i /\ y \in Item /\ n \in Nat
  BY SplicedAtElement
<1>2. s = a \o up /\ up \in Seq(Item) /\ Len(up) = n + 1 - i
  BY CutAt
<1>3. i + 1 \in 1 .. n + 1 /\ (i + 1) - 1 = i
  BY <1>1
<1>4. s = down \o b /\ down \in Seq(Item) /\ Len(down) = i
  <2>1. /\ s = SubSeq(s, 1, (i + 1) - 1) \o SubSeq(s, i + 1, n)
        /\ SubSeq(s, 1, (i + 1) - 1) \in Seq(Item) /\ Len(SubSeq(s, 1, (i + 1) - 1)) = (i + 1) - 1
    BY <1>3, CutAt
  <2> QED
    BY <1>3, <2>1
<1>5. one \in Seq(Item) /\ Len(one) = 1
  BY <1>1
<1> HIDE DEF a, b, y, one, up, down, n
<1>6. s = Cat(a, Cat(one, b)) /\ s = Cat(Cat(a, one), b)
  BY <1>1, <1>5, CatAssoc DEF Spliced, Cat
<1>7. Cat(one, b) \in Seq(Item) /\ Cat(a, one) \in Seq(Item)
  BY <1>1, <1>5, CatIn
<1>8. up = Cat(one, b)
  <2>1. a \o up = a \o Cat(one, b)
    BY <1>2, <1>6 DEF Cat
  <2> QED
    BY <1>1, <1>2, <1>7, <2>1, SameCut
<1>9. down = Cat(a, one)
  <2>1. down \o b = Cat(a, one) \o b
    BY <1>4, <1>6 DEF Cat
  <2>2. Len(Cat(a, one)) = Len(down)
    <3>1. Len(a \o one) = Len(a) + Len(one)
      BY <1>1, <1>5, LengthsAdd
    <3> QED
      BY <1>1, <1>4, <1>5, <3>1 DEF Cat
  <2> QED
    BY <1>1, <1>4, <1>7, <2>1, <2>2, SameCut
<1>10. s = Cat(a, up) /\ s = Cat(down, b)
  BY <1>2, <1>4 DEF Cat
<1> QED
  BY <1>1, <1>8, <1>9, <1>10 DEF one, y, up, down

(* The keys on either side of where a key would go in a leaf. *)
LEMMA LeafBounds ==
    ASSUME NEW node, node.items \in Seq(Item), Sorted(node.items), NEW sought \in Int,
           NEW i, i = node_find(node, sought), ~HasAt(node, i, sought)
    PROVE  LET s == node.items
               a == SubSeq(s, 1, i - 1)
               b == SubSeq(s, i, Len(s))
           IN  a \in Seq(Item) /\ b \in Seq(Item) /\ s = Cat(a, b) /\ KeysUnder(a, sought) /\ KeysOver(sought, b)
<1> DEFINE s == node.items
           n == Len(s)
           a == SubSeq(s, 1, i - 1)
           b == SubSeq(s, i, n)
<1>1. /\ i \in 1 .. n + 1
      /\ \A j \in 1 .. n : s[j].key < sought <=> j < i
  BY KeyPlace
<1>2. a \in Seq(Item) /\ b \in Seq(Item) /\ s = Cat(a, b)
  BY <1>1, CutAt DEF Cat
<1>3. s \in Seq(Item) /\ n \in Nat /\ \A j \in 1 .. n : s[j] \in Item
  OBVIOUS
<1>4. i \in 1 .. n => s[i].key # sought
  <2>1. i \in 1 .. n => i <= n
    BY <1>3
  <2> QED
    BY <2>1 DEF HasAt
<1>5. \A j, k \in 1 .. n : j < k => s[j].key < s[k].key
  BY DEF Sorted
<1> HIDE DEF s, n
<1>6. /\ KeysUnder(a, sought)
      /\ \A x \in ToSet(b) : ~(x.key < sought) /\ \E j \in i .. n : x = s[j]
  BY <1>1, <1>3, UnderPart DEF n
<1>7. ASSUME NEW x \in ToSet(b) PROVE sought < x.key
  <2>1. PICK j \in i .. n : x = s[j]
    BY <1>6
  <2>2. j \in 1 .. n /\ i \in 1 .. n /\ ~(x.key < sought) /\ x \in Item
    BY <1>1, <1>3, <1>6, <2>1
  <2>3. x.key \in Int /\ s[i].key \in Int
    BY <1>3, <2>2, KeysAreInt
  <2>4. CASE j = i
    BY <1>4, <2>1, <2>2, <2>3, <2>4
  <2>5. CASE j # i
    <3>1. i < j /\ ~(i < i)
      BY <1>1, <2>1, <2>2, <2>5
    <3>2. s[i].key < x.key
      BY <1>5, <2>1, <2>2, <3>1
    <3>3. ~(s[i].key < sought)
      BY <1>1, <2>2, <3>1
    <3> QED
      BY <2>3, <3>2, <3>3
  <2> QED
    BY <2>4, <2>5
<1> QED
  BY <1>2, <1>6, <1>7 DEF KeysOver, s, n

(* A leaf answers as its items want. *)
LEMMA LeafAnswers ==
    ASSUME NEW h \in Nat, h <= 1, NEW node \in Tree[h], IsLeaf(node), NEW sought \in Key
    PROVE  Answers(h, node, sought, node_ascend[h][node][sought], node_descend[h][node][sought], btree_get[h][node][sought])
<1> DEFINE s == node.items
           i == node_find(node, sought)
           u == node_ascend[h][node][sought]
           d == node_descend[h][node][sought]
           g == btree_get[h][node][sought]
           up == SubSeq(s, i, Len(s))
<1>1. Walk(h, node) = s /\ s \in Seq(Item)
  BY WalkOfLeaf
<1>2. sought \in Int
  BY TreeAssumption
<1>3. u = <<>> \o ScanFrom(h, node, i) /\ ScanFrom(h, node, i) = up
  BY AscendIs DEF AscendAt, ScanFrom
<1>4. i \in 1 .. Len(s) + 1
  BY <1>1, PlaceOfKey
<1>5. u = up /\ up \in Seq(Item)
  <2>1. up \in Seq(Item)
    BY <1>1, <1>4, CutAt
  <2> HIDE DEF u, up
  <2> QED
    BY <1>3, <2>1
<1>6. d = IF HasAt(node, i, sought) THEN ReverseFrom(h, node, i) ELSE <<>> \o ReverseFrom(h, node, i - 1)
  BY DescendIs DEF DescendAt
<1>7. \A j : ReverseFrom(h, node, j) = Reverse(SubSeq(s, 1, j))
  BY DEF ReverseFrom
<1>8. g = IF HasAt(node, i, sought) THEN s[i] ELSE NoItem
  BY GetIs DEF GetAt
<1>9. i = node_find(node, sought)
  OBVIOUS
<1> HIDE DEF i, u, d, g
<1>10. ASSUME Sorted(s) PROVE WalksUp(s, sought, u) /\ WalksDown(s, sought, d) /\ Meets(s, sought, g)
  <2>1. CASE HasAt(node, i, sought)
    <3> DEFINE y == s[i]
               down == SubSeq(s, 1, i)
    <3>1. i \in 1 .. Len(s) /\ y.key = sought
      BY <1>1, <1>4, <2>1 DEF HasAt
    <3>2. PICK a, b : /\ a \in Seq(Item) /\ b \in Seq(Item) /\ y \in Item
                      /\ down = Cat(a, <<y>>) /\ up = Cat(<<y>>, b)
                      /\ s = Cat(a, up) /\ s = Cat(down, b)
      BY <1>1, <3>1, LeafCutAt
    <3>3. d = Reverse(down) /\ g = y
      BY <1>6, <1>7, <1>8, <2>1
    <3> HIDE DEF y, down, up, s
    <3>4. WalksUp(Cat(a, up), y.key, up) /\ Meets(Cat(a, up), y.key, y)
      BY <1>10, <3>2, UpFrom
    <3>5. WalksDown(Cat(down, b), y.key, Reverse(down))
      BY <1>10, <3>2, DownFrom
    <3> QED
      BY <1>5, <3>1, <3>2, <3>3, <3>4, <3>5
  <2>2. CASE ~HasAt(node, i, sought)
    <3> DEFINE a == SubSeq(s, 1, i - 1)
    <3>1. a \in Seq(Item) /\ up \in Seq(Item) /\ s = Cat(a, up) /\ KeysUnder(a, sought) /\ KeysOver(sought, up)
      BY <1>1, <1>2, <1>9, <1>10, <2>2, LeafBounds
    <3>2. Reverse(a) \in Seq(Item)
      BY <3>1, ReverseIs
    <3>3. d = <<>> \o Reverse(a) /\ g = NoItem
      BY <1>6, <1>7, <1>8, <2>2
    <3> HIDE DEF a, up, s
    <3>4. d = Reverse(a)
      BY <3>2, <3>3
    <3>5. WalksUp(Cat(a, up), sought, up) /\ WalksDown(Cat(a, up), sought, Reverse(a)) /\ Meets(Cat(a, up), sought, NoItem)
      BY <1>2, <3>1, AnswersBetween
    <3> QED
      BY <1>5, <3>1, <3>3, <3>4, <3>5
  <2> QED
    BY <2>1, <2>2
<1> QED
  BY <1>1, <1>10 DEF Answers, u, d, g

\* A branch with the key as its item i.
HasHere(h, lo, hi, node, sought, i) ==
    /\ h \in Nat /\ h >= 2 /\ lo \in Int /\ hi \in Int /\ node \in Good(h, lo, hi)
    /\ sought \in Key /\ i = node_find(node, sought) /\ HasAt(node, i, sought)

(* What holds where the key is found. *)
LEMMA HereParts ==
    ASSUME NEW h, NEW lo, NEW hi, NEW node, NEW sought, NEW i, HasHere(h, lo, hi, node, sought, i)
    PROVE  /\ h \in Nat /\ h >= 2 /\ lo \in Int /\ hi \in Int /\ node \in Good(h, lo, hi)
           /\ node \in Tree[h] /\ ~IsLeaf(node) /\ sought \in Key /\ sought \in Int
           /\ node.items \in Seq(Item) /\ Len(node.items) \in Nat
           /\ i \in 1 .. Len(node.items) /\ i + 1 \in 1 .. Len(node.items) + 1
           /\ i \in 1 .. Len(node.items) + 1
           /\ node.items[i] \in Item /\ node.items[i].key = sought
           /\ i = node_find(node, sought) /\ HasAt(node, i, sought)
<1>1. /\ h \in Nat /\ h >= 2 /\ h >= 1 /\ h # 1 /\ lo \in Int /\ hi \in Int /\ node \in Good(h, lo, hi)
      /\ sought \in Key /\ i = node_find(node, sought) /\ HasAt(node, i, sought)
  BY DEF HasHere
<1>2. node \in Tree[h] /\ ~IsLeaf(node) /\ node.items \in Seq(Item) /\ Len(node.items) \in Nat
  BY <1>1, GoodParts
<1>3. i \in 1 .. Len(node.items) + 1
  BY <1>1, <1>2, PlaceOfKey
<1>4. i <= Len(node.items) /\ node.items[i].key = sought
  BY <1>1 DEF HasAt
<1>5. i \in 1 .. Len(node.items) /\ i + 1 \in 1 .. Len(node.items) + 1
  BY <1>2, <1>3, <1>4
<1>6. node.items[i] \in Item
  BY <1>2, <1>5
<1>7. sought \in Int
  BY <1>1, TreeAssumption
<1> QED
  BY <1>1, <1>2, <1>3, <1>4, <1>5, <1>6, <1>7

(* A good branch at one of its children. *)
LEMMA GoodAtChild ==
    ASSUME NEW h \in Nat, h >= 2, NEW lo \in Int, NEW hi \in Int, NEW node \in Good(h, lo, hi),
           NEW i \in 1 .. Len(node.items) + 1
    PROVE  \E f : AtChild(h, f, i, node.children[i], node)
<1>1. PICK f : IsSite(h, f, i) /\ node = Site(f, <<>>, <<node.children[i]>>)
  BY SiteAtChild
<1>2. node.children[i] \in Sub[h - 1]
  BY SiteAtChild
<1>3. node.children[i] \in Tree[h - 1]
  <2> DEFINE c == node.children[i]
  <2>1. c \in Sub[h - 1] /\ h - 1 \in Nat
    BY <1>2
  <2> HIDE DEF c
  <2> QED
    BY <2>1, SubIsGood DEF c
<1> QED
  BY <1>1, <1>3 DEF AtChild

(* The walk of a branch at one of its children. *)
LEMMA ChildWalk ==
    ASSUME NEW h, NEW f, NEW i, NEW c, NEW node, AtChild(h, f, i, c, node)
    PROVE  /\ Walk(h, node) = Framed(LeftWalk(h, f), Walk(h - 1, c), RightWalk(h, f))
           /\ LeftWalk(h, f) \in Seq(Item) /\ Walk(h - 1, c) \in Seq(Item) /\ RightWalk(h, f) \in Seq(Item)
<1>1. IsSite(h, f, i) /\ c \in Tree[h - 1] /\ node = Site(f, <<>>, <<c>>)
  BY DEF AtChild
<1> QED
  BY <1>1, OneWalk, SitePairs

(* Up from an item of a branch. *)
LEMMA HereUp ==
    ASSUME NEW h, NEW lo, NEW hi, NEW node, NEW sought, NEW i, HasHere(h, lo, hi, node, sought, i),
           Sorted(Walk(h, node))
    PROVE  /\ WalksUp(Walk(h, node), sought, node_ascend[h][node][sought])
           /\ Meets(Walk(h, node), sought, btree_get[h][node][sought])
<1> DEFINE y == node.items[i]
           c == node.children[i]
           w == Walk(h, node)
           u == node_ascend[h][node][sought]
           g == btree_get[h][node][sought]
<1>1. /\ h \in Nat /\ h >= 2 /\ lo \in Int /\ hi \in Int /\ node \in Good(h, lo, hi)
      /\ node \in Tree[h] /\ sought \in Key
      /\ node.items \in Seq(Item) /\ Len(node.items) \in Nat
      /\ i \in 1 .. Len(node.items) /\ i \in 1 .. Len(node.items) + 1
      /\ y \in Item /\ y.key = sought
      /\ i = node_find(node, sought) /\ HasAt(node, i, sought)
  BY HereParts
<1>2. PICK f : AtChild(h, f, i, c, node)
  BY <1>1, GoodAtChild
<1>3. g = y
  BY <1>1, GetIs DEF GetAt
<1>4. u = <<>> \o ScanFrom(h, node, i)
  <2>1. u = AscendAt(h, node, sought, node_ascend[h - 1])
    BY <1>1, AscendIs
  <2>2. HasAt(node, node_find(node, sought), sought)
    BY <1>1
  <2> HIDE DEF u
  <2> QED
    BY <1>1, <2>1, <2>2 DEF AscendAt
<1>5. IsSite(h, f, i) /\ node = Site(f, <<>>, <<c>>)
  BY <1>2 DEF AtChild
<1>6. ScanFrom(h, node, i) = RightWalk(h, f)
  BY <1>2, ScanAtChild
<1>7. node.items = Spliced(f.lower, <<>>, f.upper)
  BY <1>5, SiteItems
<1>8. /\ f.lower \in Seq(Item) /\ f.upper \in Seq(Item) /\ i = Len(f.lower) + 1
      /\ Len(f.lower) \in Nat /\ Len(f.upper) \in Nat
  BY <1>5, SiteParts
<1>9. /\ f.upper # <<>> => Head(f.upper) = node.items[Len(f.lower) + 1]
      /\ Len(node.items) = Len(f.lower) + Len(f.upper)
  BY <1>7, <1>8, BesidePlace
<1>10. f.upper # <<>>
  <2> DEFINE n == Len(node.items)
             under == Len(f.lower)
             top == Len(f.upper)
  <2>2. n \in Nat /\ i \in 1 .. n /\ i = under + 1 /\ under \in Nat /\ top \in Nat /\ n = under + top
    BY <1>1, <1>8, <1>9
  <2> HIDE DEF n, under, top
  <2>3. top # 0
    BY <2>2
  <2>1. Len(f.upper) # 0
    BY <2>3 DEF top
  <2> QED
    BY <2>1
<1>11. Head(f.upper) = y
  BY <1>8, <1>9, <1>10
<1> DEFINE L == LeftWalk(h, f)
           m == Walk(h - 1, c)
           R == RightWalk(h, f)
           X == Cat(L, m)
<1>12. w = Framed(L, m, R) /\ L \in Seq(Item) /\ m \in Seq(Item) /\ R \in Seq(Item)
  BY <1>2, ChildWalk
<1>13. PICK a \in Seq(Item) : R = Cat(<<Head(f.upper)>>, a)
  BY <1>5, <1>10, RightBegins
<1>14. R = Cat(<<y>>, a)
  BY <1>11, <1>13
<1>15. Sorted(w)
  OBVIOUS
<1> HIDE DEF y, c, w, u, g, L, m, R
<1>16. X \in Seq(Item) /\ w = Cat(X, R)
  BY <1>12, CatIn DEF Framed
<1>17. u = R
  BY <1>4, <1>6, <1>12 DEF R
<1> HIDE DEF X
<1>18. WalksUp(Cat(X, R), y.key, R) /\ Meets(Cat(X, R), y.key, y)
  BY <1>1, <1>14, <1>15, <1>16, UpFrom
<1> QED
  BY <1>1, <1>3, <1>16, <1>17, <1>18 DEF w, u, g

(* Down from an item of a branch. *)
LEMMA HereDown ==
    ASSUME NEW h, NEW lo, NEW hi, NEW node, NEW sought, NEW i, HasHere(h, lo, hi, node, sought, i),
           Sorted(Walk(h, node))
    PROVE  WalksDown(Walk(h, node), sought, node_descend[h][node][sought])
<1> DEFINE y == node.items[i]
           c == node.children[i + 1]
           w == Walk(h, node)
           d == node_descend[h][node][sought]
<1>1. /\ h \in Nat /\ h >= 2 /\ lo \in Int /\ hi \in Int /\ node \in Good(h, lo, hi)
      /\ node \in Tree[h] /\ sought \in Key
      /\ node.items \in Seq(Item) /\ Len(node.items) \in Nat
      /\ i \in 1 .. Len(node.items) /\ i + 1 \in 1 .. Len(node.items) + 1
      /\ y \in Item /\ y.key = sought
      /\ i = node_find(node, sought) /\ HasAt(node, i, sought)
  BY HereParts
<1>2. PICK f : AtChild(h, f, i + 1, c, node)
  BY <1>1, GoodAtChild
<1>4. d = ReverseFrom(h, node, i)
  BY <1>1, DescendIs DEF DescendAt
<1>5. IsSite(h, f, i + 1) /\ node = Site(f, <<>>, <<c>>)
  BY <1>2 DEF AtChild
<1>6. ReverseFrom(h, node, i) = Reverse(LeftWalk(h, f))
  <2>1. ReverseFrom(h, node, (i + 1) - 1) = Reverse(LeftWalk(h, f))
    BY <1>2, ReverseAtChild
  <2>2. (i + 1) - 1 = i
    BY <1>1
  <2> QED
    BY <2>1, <2>2
<1>7. node.items = Spliced(f.lower, <<>>, f.upper)
  BY <1>5, SiteItems
<1>8. /\ f.lower \in Seq(Item) /\ f.upper \in Seq(Item) /\ i + 1 = Len(f.lower) + 1
      /\ Len(f.lower) \in Nat
  BY <1>5, SiteParts
<1>9. Len(f.lower) = i
  BY <1>1, <1>8
<1>10. f.lower # <<>>
  <2>1. Len(f.lower) # 0
    BY <1>1, <1>9
  <2> QED
    BY <2>1
<1>11. Last(f.lower) = y
  <2>1. Last(f.lower) = node.items[Len(f.lower)]
    BY <1>7, <1>8, <1>10, BesidePlace
  <2> QED
    BY <1>9, <2>1
<1> DEFINE L == LeftWalk(h, f)
           m == Walk(h - 1, c)
           R == RightWalk(h, f)
           Y == Cat(m, R)
<1>12. w = Framed(L, m, R) /\ L \in Seq(Item) /\ m \in Seq(Item) /\ R \in Seq(Item)
  BY <1>2, ChildWalk
<1>13. PICK a \in Seq(Item) : L = Cat(a, <<Last(f.lower)>>)
  BY <1>5, <1>10, LeftEnds
<1>14. L = Cat(a, <<y>>)
  BY <1>11, <1>13
<1>15. Sorted(w)
  OBVIOUS
<1> HIDE DEF y, c, w, d, L, m, R
<1>16. Y \in Seq(Item) /\ w = Cat(L, Y)
  BY <1>12, CatIn, CatAssoc DEF Framed
<1>17. d = Reverse(L)
  BY <1>4, <1>6 DEF L
<1> HIDE DEF Y
<1>18. WalksDown(Cat(L, Y), y.key, Reverse(L))
  BY <1>1, <1>14, <1>15, <1>16, DownFrom
<1> QED
  BY <1>1, <1>16, <1>17, <1>18 DEF w, d

\* A branch that leads on to its child i.
LeadsOn(h, lo, hi, node, sought, i) ==
    /\ h \in Nat /\ h >= 2 /\ lo \in Int /\ hi \in Int /\ node \in Good(h, lo, hi)
    /\ sought \in Key /\ i = node_find(node, sought) /\ ~HasAt(node, i, sought)

(* The child answers for the branch. *)
LEMMA ChildAnswers ==
    ASSUME NEW h, NEW lo, NEW hi, NEW node, NEW sought, NEW i, LeadsOn(h, lo, hi, node, sought, i),
           NEW c, c = node.children[i],
           Answers(h - 1, c, sought, node_ascend[h - 1][c][sought], node_descend[h - 1][c][sought], btree_get[h - 1][c][sought])
    PROVE  Answers(h, node, sought, node_ascend[h][node][sought], node_descend[h][node][sought], btree_get[h][node][sought])
<1> DEFINE w == Walk(h, node)
           u == node_ascend[h][node][sought]
           d == node_descend[h][node][sought]
           g == btree_get[h][node][sought]
           cu == node_ascend[h - 1][c][sought]
           cd == node_descend[h - 1][c][sought]
           cg == btree_get[h - 1][c][sought]
           m == Walk(h - 1, c)
<1>1. /\ h \in Nat /\ h >= 2 /\ h >= 1 /\ h # 1 /\ lo \in Int /\ hi \in Int /\ node \in Good(h, lo, hi)
      /\ sought \in Key /\ i = node_find(node, sought) /\ ~HasAt(node, i, sought)
  BY DEF LeadsOn
<1>2. node \in Tree[h] /\ ~IsLeaf(node) /\ node.items \in Seq(Item)
  BY <1>1, GoodParts
<1>3. i \in 1 .. Len(node.items) + 1 /\ sought \in Int
  BY <1>1, <1>2, PlaceOfKey, TreeAssumption
<1>4. PICK f : AtChild(h, f, i, c, node)
  BY <1>1, <1>3, GoodAtChild
<1> DEFINE L == LeftWalk(h, f)
           R == RightWalk(h, f)
<1>5. u = cu \o ScanFrom(h, node, i) /\ ScanFrom(h, node, i) = R
  <2>1. u = cu \o ScanFrom(h, node, i)
    BY <1>1, <1>2, AscendIs DEF AscendAt
  <2> QED
    BY <2>1, <1>4, ScanAtChild
<1>6. d = cd \o ReverseFrom(h, node, i - 1) /\ ReverseFrom(h, node, i - 1) = Reverse(L)
  <2>1. d = cd \o ReverseFrom(h, node, i - 1)
    BY <1>1, <1>2, DescendIs DEF DescendAt
  <2> QED
    BY <2>1, <1>4, ReverseAtChild
<1>7. g = cg
  BY <1>1, <1>2, GetIs DEF GetAt
<1>8. w = Framed(L, m, R) /\ L \in Seq(Item) /\ m \in Seq(Item) /\ R \in Seq(Item)
  BY <1>4, ChildWalk
<1>9. IsPlace(h, f, i, c, node, sought)
  BY <1>1, <1>3, <1>4 DEF AtChild, IsPlace
<1>10. ASSUME Sorted(w) PROVE KeysUnder(L, sought) /\ KeysOver(sought, R)
  BY <1>9, <1>10, PlaceBounds
<1>11. Sorted(m) => WalksUp(m, sought, cu) /\ WalksDown(m, sought, cd) /\ Meets(m, sought, cg)
  BY DEF Answers
<1> HIDE DEF w, u, d, g, cu, cd, cg, m, L, R
<1>12. Sorted(w) => Sorted(m)
  BY <1>8, SortedFramed
<1>13. ASSUME Sorted(w) PROVE WalksUp(w, sought, u) /\ WalksDown(w, sought, d) /\ Meets(w, sought, g)
  <2>1. KeysUnder(L, sought) /\ KeysOver(sought, R)
    BY <1>10, <1>13
  <2>2. WalksUp(m, sought, cu) /\ WalksDown(m, sought, cd) /\ Meets(m, sought, cg)
    BY <1>11, <1>12, <1>13
  <2>3. /\ WalksUp(Framed(L, m, R), sought, Cat(cu, R)) /\ WalksDown(Framed(L, m, R), sought, Cat(cd, Reverse(L)))
        /\ Meets(Framed(L, m, R), sought, cg)
    BY <1>3, <1>8, <2>1, <2>2, AnswersWithin
  <2>4. u = Cat(cu, R) /\ d = Cat(cd, Reverse(L))
    BY <1>5, <1>6 DEF Cat
  <2> QED
    BY <1>7, <1>8, <2>3, <2>4
<1> QED
  BY <1>13 DEF Answers, w, u, d, g

\* Every key is answered as the walk wants.
AnswersAll(h, node) ==
    \A sought \in Key : Answers(h, node, sought, node_ascend[h][node][sought], node_descend[h][node][sought], btree_get[h][node][sought])

(* One node answers, if its children do. *)
LEMMA NodeAnswers ==
    ASSUME NEW h \in Nat, h >= 1, NEW node, node \in Good(h, 0, MaxItems - 2),
           h >= 2 => \A c \in Good(h - 1, 0, MaxItems - 2) : AnswersAll(h - 1, c)
    PROVE  AnswersAll(h, node)
<1>m. 0 \in Int /\ MaxItems - 2 \in Int /\ MinItems \in Int /\ MinItems >= 0
  BY MinItemsBound
<1> SUFFICES ASSUME NEW sought \in Key
             PROVE  Answers(h, node, sought, node_ascend[h][node][sought], node_descend[h][node][sought], btree_get[h][node][sought])
  BY DEF AnswersAll
<1> DEFINE i == node_find(node, sought)
<1>1. node \in Tree[h] /\ node.items \in Seq(Item) /\ (IsLeaf(node) <=> h = 1)
  BY <1>m, GoodParts
<1>2. i \in 1 .. Len(node.items) + 1
  BY <1>1, PlaceOfKey
<1>3. CASE h = 1
  BY <1>1, <1>3, LeafAnswers
<1>4. CASE h # 1
  <2>0. h >= 2
    BY <1>4
  <2>1. CASE HasAt(node, i, sought)
    <3>1. HasHere(h, 0, MaxItems - 2, node, sought, i)
      BY <1>m, <2>0, <2>1 DEF HasHere
    <3> QED
      BY <3>1, HereUp, HereDown DEF Answers
  <2>2. CASE ~HasAt(node, i, sought)
    <3> DEFINE c == node.children[i]
    <3>1. LeadsOn(h, 0, MaxItems - 2, node, sought, i)
      BY <1>m, <2>0, <2>2 DEF LeadsOn
    <3>2. c \in Sub[h - 1]
      BY <1>m, <1>2, <2>0, SiteAtChild
    <3>3. c \in Good(h - 1, 0, MaxItems - 2)
      <4> DEFINE k == h - 1
      <4>1. k \in Nat /\ k >= 1
        BY <2>0
      <4> HIDE DEF k, c
      <4>2. c \in Good(k, MinItems, MaxItems - 2)
        BY <3>2, <4>1, SubIsGood DEF k
      <4> QED
        BY <1>m, <4>2, GoodWithin DEF k
    <3>4. AnswersAll(h - 1, c)
      BY <2>0, <3>3
    <3>5. c = node.children[i]
      OBVIOUS
    <3> HIDE DEF c, i
    <3> QED
      BY <3>1, <3>4, <3>5, ChildAnswers DEF AnswersAll
  <2> QED
    BY <2>1, <2>2
<1> QED
  BY <1>3, <1>4

(* Every tree answers as its walk wants. *)
LEMMA TreeAnswers ==
    ASSUME NEW h \in Nat, h >= 1, NEW tree, tree \in Good(h, 0, MaxItems - 2)
    PROVE  AnswersAll(h, tree)
<1> DEFINE T(k) == \A node \in Good(k, 0, MaxItems - 2) : AnswersAll(k, node)
           S == {k \in Nat : k >= 1 => T(k)}
<1>1. 0 \in S
  OBVIOUS
<1>2. ASSUME NEW k \in Nat, k \in S PROVE k + 1 \in S
  <2> DEFINE h1 == k + 1
  <2>0. h1 \in Nat /\ h1 >= 1 /\ h1 - 1 = k
    OBVIOUS
  <2>1. k >= 1 => T(k)
    BY <1>2
  <2> HIDE DEF h1
  <2>2. h1 >= 2 => \A c \in Good(h1 - 1, 0, MaxItems - 2) : AnswersAll(h1 - 1, c)
    <3>1. h1 >= 2 => k >= 1
      BY <2>0
    <3> QED
      BY <2>0, <2>1, <3>1
  <2>3. T(h1)
    <3> SUFFICES ASSUME NEW node, node \in Good(h1, 0, MaxItems - 2) PROVE AnswersAll(h1, node)
      OBVIOUS
    <3> QED
      BY <2>0, <2>2, NodeAnswers
  <2> HIDE DEF T
  <2> QED
    BY <2>0, <2>3 DEF h1
<1>3. h \in S
  <2> HIDE DEF S
  <2> QED
    BY <1>1, <1>2, SetInduction
<1> QED
  BY <1>3

-----------------------------------------------------------------------------
(* The ends of the tree.                                                     *)

(* The ends of two walks, one after the other. *)
LEMMA EndsOfCat ==
    ASSUME NEW a \in Seq(Item), NEW b \in Seq(Item)
    PROVE  /\ a # <<>> => Cat(a, b) # <<>> /\ Head(Cat(a, b)) = Head(a)
           /\ b # <<>> => Cat(a, b) # <<>> /\ Last(Cat(a, b)) = Last(b)
<1> DEFINE c == a \o b
           n == Len(a)
           m == Len(b)
           l == Len(c)
<1>1. /\ c \in Seq(Item) /\ l = n + m /\ n \in Nat /\ m \in Nat
      /\ \A j \in 1 .. n + m : c[j] = IF j <= n THEN a[j] ELSE b[j - n]
  BY ConcatElements
<1>2. a # <<>> => n # 0
  OBVIOUS
<1>3. b # <<>> => m # 0
  OBVIOUS
<1>4. c # <<>> <=> l # 0
  BY <1>1
<1>5. n # 0 => c[1] = a[1] /\ l # 0
  <2> HIDE DEF c, n, m, l
  <2> QED
    BY <1>1
<1>6. m # 0 => c[l] = b[m] /\ l # 0
  <2> HIDE DEF c, n, m, l
  <2>1. m # 0 => n + m \in 1 .. n + m /\ ~(n + m <= n) /\ (n + m) - n = m
    BY <1>1
  <2> QED
    BY <1>1, <2>1
<1>7. Head(c) = c[1] /\ Head(a) = a[1] /\ Last(c) = c[l] /\ Last(b) = b[m]
  <2>1. c \in Seq(Item)
    BY <1>1
  <2> HIDE DEF c
  <2>2. Head(c) = c[1] /\ Head(a) = a[1]
    BY <2>1
  <2> QED
    BY <2>2 DEF Last
<1> HIDE DEF c, n, m, l
<1> QED
  BY <1>2, <1>3, <1>4, <1>5, <1>6, <1>7 DEF Cat, c

\* The walk begins with the first item of the first leaf and ends with the last
\* of the last.
EndsWell(h, node) ==
    /\ Walk(h, node) # <<>>
    /\ Head(FirstLeaf[h][node].items) = Head(Walk(h, node))
    /\ Last(LastLeaf[h][node].items) = Last(Walk(h, node))

(* A branch ends as its first and its last child do. *)
LEMMA BranchEnds ==
    ASSUME NEW h \in Nat, h >= 2, NEW lo \in Int, NEW hi \in Int, NEW node \in Good(h, lo, hi),
           \A c \in Sub[h - 1] : EndsWell(h - 1, c)
    PROVE  EndsWell(h, node)
<1> DEFINE n == Len(node.items)
           w == Walk(h, node)
           first == node.children[1]
           last == node.children[n + 1]
           k == h - 1
<1>1. /\ node \in Tree[h] /\ ~IsLeaf(node) /\ node.items \in Seq(Item) /\ n \in Nat
      /\ node.children \in Seq(Tree[h - 1]) /\ Len(node.children) = n + 1
  BY GoodParts
<1>2. 1 \in 1 .. n + 1 /\ n + 1 \in 1 .. n + 1
  BY <1>1
<1>3. first \in Sub[k] /\ last \in Sub[k]
  BY <1>2, SiteAtChild
<1>4. Head(node.children) = first /\ Last(node.children) = last
  BY <1>1 DEF Last
<1>5. FirstLeaf[h][node] = FirstLeaf[k][first]
  BY <1>1, <1>4, FirstLeafIs
<1>6. LastLeaf[h][node] = LastLeaf[k][last]
  BY <1>1, <1>4, LastLeafIs
<1>7. EndsWell(k, first) /\ EndsWell(k, last)
  BY <1>3
<1>8. PICK f : AtChild(h, f, 1, first, node)
  BY <1>2, GoodAtChild
<1>9. PICK e : AtChild(h, e, n + 1, last, node)
  BY <1>2, GoodAtChild
<1> DEFINE L == LeftWalk(h, e)
           R == RightWalk(h, f)
           a == Walk(k, first)
           b == Walk(k, last)
<1>10. LeftWalk(h, f) = <<>>
  BY <1>8, FirstSite DEF AtChild
<1>11. RightWalk(h, e) = <<>>
  BY <1>9, LastSite DEF AtChild
<1>12. w = Framed(<<>>, a, R) /\ a \in Seq(Item) /\ R \in Seq(Item)
  BY <1>8, <1>10, ChildWalk
<1>13. w = Framed(L, b, <<>>) /\ b \in Seq(Item) /\ L \in Seq(Item)
  BY <1>9, <1>11, ChildWalk
<1>14. a # <<>> /\ Head(FirstLeaf[k][first].items) = Head(a)
  BY <1>7 DEF EndsWell
<1>15. b # <<>> /\ Last(LastLeaf[k][last].items) = Last(b)
  BY <1>7 DEF EndsWell
<1> HIDE DEF n, w, first, last, k, L, R, a, b
<1>16. w = Cat(a, R)
  BY <1>12, CatNone DEF Framed
<1>17. w = Cat(L, b)
  <2>1. Cat(L, b) \in Seq(Item)
    BY <1>13, CatIn
  <2> QED
    BY <1>13, <2>1, CatNone DEF Framed
<1>18. w # <<>> /\ Head(w) = Head(a)
  BY <1>12, <1>14, <1>16, EndsOfCat
<1>19. Last(w) = Last(b)
  BY <1>13, <1>15, <1>17, EndsOfCat
<1> QED
  BY <1>5, <1>6, <1>14, <1>15, <1>18, <1>19 DEF EndsWell, w

(* The first and the last item of a tree are at the ends of its walk. *)
LEMMA TreeEnds ==
    ASSUME NEW h \in Nat, h >= 1, NEW tree, tree \in Good(h, 1, MaxItems - 2)
    PROVE  EndsWell(h, tree)
<1> DEFINE T(k) == \A node \in Good(k, 1, MaxItems - 2) : EndsWell(k, node)
           S == {k \in Nat : k >= 1 => T(k)}
<1>m. 1 \in Int /\ MaxItems - 2 \in Int /\ MinItems \in Int /\ MinItems >= 1
  BY MinItemsBound
<1>1. 0 \in S
  OBVIOUS
<1>2. ASSUME NEW k \in Nat, k \in S PROVE k + 1 \in S
  <2> DEFINE h1 == k + 1
  <2>0. h1 \in Nat /\ h1 >= 1 /\ h1 - 1 = k
    OBVIOUS
  <2>1. k >= 1 => T(k)
    BY <1>2
  <2> HIDE DEF h1
  <2>2. ASSUME NEW node, node \in Good(h1, 1, MaxItems - 2) PROVE EndsWell(h1, node)
    <3>1. CASE h1 = 1
      <4>1. /\ node \in Tree[h1] /\ IsLeaf(node) /\ Len(node.items) # 0
        BY <1>m, <2>0, <2>2, <3>1, GoodParts
      <4>2. Walk(h1, node) = node.items
        BY <2>0, <3>1, <4>1, WalkOfLeaf
      <4>3. FirstLeaf[h1][node] = node /\ LastLeaf[h1][node] = node
        BY <2>0, <4>1, FirstLeafIs, LastLeafIs
      <4> QED
        BY <4>1, <4>2, <4>3 DEF EndsWell
    <3>2. CASE h1 # 1
      <4>1. h1 >= 2 /\ k >= 1
        BY <2>0, <3>2
      <4>2. ASSUME NEW c \in Sub[h1 - 1] PROVE EndsWell(h1 - 1, c)
        <5>1. c \in Good(k, MinItems, MaxItems - 2)
          BY <2>0, <4>1, SubIsGood
        <5>2. c \in Good(k, 1, MaxItems - 2)
          BY <1>m, <5>1, GoodWithin
        <5> QED
          BY <2>0, <2>1, <4>1, <5>2
      <4> QED
        BY <1>m, <2>0, <2>2, <4>1, <4>2, BranchEnds
    <3> QED
      BY <3>1, <3>2
  <2>3. T(h1)
    BY <2>2
  <2> HIDE DEF T
  <2> QED
    BY <2>0, <2>3 DEF h1
<1>3. h \in S
  <2> HIDE DEF S
  <2> QED
    BY <1>1, <1>2, SetInduction
<1> QED
  BY <1>3

-----------------------------------------------------------------------------
(* What is answered, over the items of the tree.                             *)

(* A sorted walk ascends. *)
LEMMA SortedAscends ==
    ASSUME NEW s \in Seq(Item), Sorted(s)
    PROVE  Ascends(s)
<1>1. Len(s) \in Nat
  OBVIOUS
<1>2. \A i \in 1 .. Len(s) - 1 : i \in 1 .. Len(s) /\ i + 1 \in 1 .. Len(s) /\ i < i + 1
  BY <1>1
<1> QED
  BY <1>2 DEF Sorted, Ascends

(* A walk read backwards shows the same items; read backwards twice it is as it was. *)
LEMMA ReverseTwice ==
    ASSUME NEW s \in Seq(Item)
    PROVE  ToSet(Reverse(s)) = ToSet(s) /\ Reverse(Reverse(s)) = s
<1> DEFINE n == Len(s)
           r == Reverse(s)
           t == Reverse(r)
<1>1. r \in Seq(Item) /\ Len(r) = n /\ n \in Nat /\ \A i \in 1 .. n : r[i] = s[(n - i) + 1]
  BY ReverseIs
<1>2. t \in Seq(Item) /\ Len(t) = n /\ \A i \in 1 .. n : t[i] = r[(n - i) + 1]
  <2> HIDE DEF r, n
  <2>1. t \in Seq(Item) /\ Len(t) = Len(r) /\ \A i \in 1 .. Len(r) : t[i] = r[(Len(r) - i) + 1]
    BY <1>1, ReverseIs
  <2> QED
    BY <1>1, <2>1
<1> HIDE DEF n, r, t
<1>3. \A i \in 1 .. n : (n - i) + 1 \in 1 .. n /\ (n - ((n - i) + 1)) + 1 = i
  BY <1>1
<1>4. \A i \in 1 .. n : t[i] = s[i]
  BY <1>1, <1>2, <1>3
<1>5. t = s
  BY <1>1, <1>2, <1>4, SeqEqual DEF n
<1>6. ASSUME NEW x PROVE x \in ToSet(r) <=> x \in ToSet(s)
  <2>1. ASSUME x \in ToSet(r) PROVE x \in ToSet(s)
    <3>1. PICK i \in 1 .. n : x = r[i]
      BY <1>1, <2>1, ShownAt
    <3>2. x = s[(n - i) + 1]
      BY <1>1, <3>1
    <3> QED
      BY <1>3, <3>2, ShownAt DEF n
  <2>2. ASSUME x \in ToSet(s) PROVE x \in ToSet(r)
    <3>1. PICK i \in 1 .. n : x = s[i]
      BY <2>2, ShownAt DEF n
    <3>2. x = r[(n - i) + 1]
      BY <1>1, <1>3, <3>1
    <3> QED
      BY <1>1, <1>3, <3>2, ShownAt
  <2> QED
    BY <2>1, <2>2
<1> QED
  BY <1>5, <1>6 DEF r, t

(* The part of a sorted walk from the key on. *)
LEMMA UpShows ==
    ASSUME NEW w \in Seq(Item), Sorted(w), NEW sought \in Int, NEW u, WalksUp(w, sought, u)
    PROVE  ToSet(u) = {x \in ToSet(w) : x.key >= sought} /\ Ascends(u)
<1>1. PICK X : IsUp(w, sought, X, u)
  BY DEF WalksUp
<1>2. X \in Seq(Item) /\ u \in Seq(Item) /\ w = Cat(X, u) /\ KeysUnder(X, sought) /\ KeysFrom(sought, u)
  BY <1>1 DEF IsUp
<1>3. ToSet(w) = ToSet(X) \cup ToSet(u) /\ ToSet(X) \subseteq Item
  BY <1>2, ShownByCat, ShownAt
<1>4. Sorted(u)
  BY <1>2, SortedCat
<1>5. \A x \in ToSet(X) : ~(x.key >= sought)
  BY <1>2, <1>3, KeysAreInt DEF KeysUnder
<1>6. ToSet(u) = {x \in ToSet(w) : x.key >= sought}
  BY <1>2, <1>3, <1>5 DEF KeysFrom
<1> QED
  BY <1>2, <1>4, <1>6, SortedAscends

(* The part of a sorted walk up to the key. *)
LEMMA DownShows ==
    ASSUME NEW w \in Seq(Item), Sorted(w), NEW sought \in Int, NEW d, WalksDown(w, sought, d)
    PROVE  ToSet(d) = {x \in ToSet(w) : x.key <= sought} /\ Ascends(Reverse(d))
<1>1. PICK P, Y : IsDown(w, sought, P, Y, d)
  BY DEF WalksDown
<1>2. /\ P \in Seq(Item) /\ Y \in Seq(Item) /\ d = Reverse(P) /\ w = Cat(P, Y)
      /\ KeysTo(P, sought) /\ KeysOver(sought, Y)
  BY <1>1 DEF IsDown
<1>3. ToSet(w) = ToSet(P) \cup ToSet(Y) /\ ToSet(Y) \subseteq Item
  BY <1>2, ShownByCat, ShownAt
<1>4. Sorted(P)
  BY <1>2, SortedCat
<1>5. \A x \in ToSet(Y) : ~(x.key <= sought)
  BY <1>2, <1>3, KeysAreInt DEF KeysOver
<1>6. ToSet(d) = ToSet(P) /\ Reverse(d) = P
  BY <1>2, ReverseTwice
<1>7. ToSet(d) = {x \in ToSet(w) : x.key <= sought}
  BY <1>2, <1>3, <1>5, <1>6 DEF KeysTo
<1> QED
  BY <1>2, <1>4, <1>6, <1>7, SortedAscends

(* What a search for a key in a sorted walk returns. *)
LEMMA GetShows ==
    ASSUME NEW S, NEW sought, NEW g, One(g) = With(S, sought)
    PROVE  {g} = IF \E x \in S : x.key = sought THEN {x \in S : x.key = sought} ELSE {NoItem}
  BY DEF One, With

\* The queries agree with the items in every state (btree_get, btree_ascend,
\* btree_descend, btree_min, btree_max): the iterators show the items from the
\* pivot on, or down from it, in order and each once; a search finds the item with
\* the key, if there is one; the ends are those of the walk.
THEOREM QueriesAreRight ==
    ASSUME "load_unsorted" \notin Client
    PROVE  Spec => []QueriesAgree
<1>1. TreeInv /\ OrderInv => QueriesAgree
  <2> SUFFICES ASSUME TreeInv, OrderInv, NEW sought \in Key
               PROVE  LET walk == node_scan[height][root]
                          up   == node_ascend[height][root][sought]
                          down == node_descend[height][root][sought]
                      IN  /\ {btree_get[height][root][sought]} =
                                IF \E x \in Items : x.key = sought
                                THEN {x \in Items : x.key = sought} ELSE {NoItem}
                          /\ ToSet(up) = {x \in Items : x.key >= sought} /\ Ascends(up)
                          /\ ToSet(down) = {x \in Items : x.key <= sought} /\ Ascends(Reverse(down))
                          /\ root # NoTree => btree_min = Head(walk) /\ btree_max = Last(walk)
    BY DEF QueriesAgree
  <2> DEFINE w == ItemWalk
             u == node_ascend[height][root][sought]
             d == node_descend[height][root][sought]
             g == btree_get[height][root][sought]
  <2>1. height \in Nat /\ root \in Tree[height] /\ w \in Seq(Item) /\ Items = ToSet(w)
    BY ItemWalkShows
  <2>2. Sorted(w) /\ w = Walk(height, root) /\ w = node_scan[height][root]
    BY DEF OrderInv, Sheltered, ItemWalk, Walk
  <2>3. Whole(height, root)
    BY DEF TreeInv, Kept
  <2>4. sought \in Int /\ MaxItems - 2 \in Int
    BY TreeAssumption
  <2>5. Answers(height, root, sought, u, d, g)
    <3>1. CASE height = 0
      <4>1. IsLeaf(root)
        BY <2>1, <3>1, NoBranchAtZero
      <4> QED
        BY <2>1, <3>1, <4>1, LeafAnswers
    <3>2. CASE height # 0
      <4>1. height >= 1 /\ root \in Good(height, 1, MaxItems - 2)
        BY <2>3, <3>2, WholeParts
      <4>2. root \in Good(height, 0, MaxItems - 2)
        BY <2>4, <4>1, GoodWithin
      <4> QED
        BY <2>1, <4>1, <4>2, TreeAnswers DEF AnswersAll
    <3> QED
      BY <3>1, <3>2
  <2>6. WalksUp(w, sought, u) /\ WalksDown(w, sought, d) /\ Meets(w, sought, g)
    BY <2>2, <2>5 DEF Answers
  <2>7. root # NoTree => EndsWell(height, root)
    BY <2>3, WholeParts, TreeEnds
  <2> HIDE DEF w, u, d, g
  <2>8. ToSet(u) = {x \in Items : x.key >= sought} /\ Ascends(u)
    BY <2>1, <2>2, <2>4, <2>6, UpShows
  <2>9. ToSet(d) = {x \in Items : x.key <= sought} /\ Ascends(Reverse(d))
    BY <2>1, <2>2, <2>4, <2>6, DownShows
  <2>10. {g} = IF \E x \in Items : x.key = sought THEN {x \in Items : x.key = sought} ELSE {NoItem}
    BY <2>1, <2>6, GetShows DEF Meets
  <2>11. root # NoTree => btree_min = Head(w) /\ btree_max = Last(w)
    BY <2>2, <2>7 DEF EndsWell, btree_min, btree_max
  <2> QED
    BY <2>2, <2>8, <2>9, <2>10, <2>11 DEF u, d, g
<1> QED
  BY <1>1, OrderInvAlways, PTL

-----------------------------------------------------------------------------
(* The search within a node, as NodeFind takes it.                           *)

\* What the search knows: everything below low is smaller than the key, and
\* everything above high is greater.
SearchSplits ==
    /\ low <= high + 1
    /\ \A i \in Places : i < low => items[i] < key
    /\ \A i \in Places : i > high => items[i] > key

SearchBegins == pc = "hint" => low = 0 /\ high = num_items - 1

SearchInv == SearchTypeOK /\ SearchBegins /\ (pc # "done" => SearchSplits) /\ Correct

\* A byte of the hint that is looked at names a place, or one beyond.
LEMMA HintIsNat ==
    ASSUME SearchTypeOK, hint # NoHint, hint # 0
    PROVE  Hinted \in Places /\ hint \in Nat
  BY HintAssumption, LenAssumption DEF SearchTypeOK, Hinted, Places

(* Keys are numbers. *)
LEMMA SearchedKeysAreInt ==
    ASSUME SearchTypeOK
    PROVE  key \in Int /\ \A i \in Places : items[i] \in Int
  BY KeysAssumption DEF SearchTypeOK

(* The middle is in the node, between the bounds. *)
LEMMA MidIsBetween ==
    ASSUME SearchTypeOK, low <= high
    PROVE  mid \in Places /\ low <= mid /\ mid <= high
  BY LenAssumption DEF SearchTypeOK, mid, Places

(* A search begins with the whole node. *)
LEMMA SearchInitInv == SearchInit => SearchInv
<1> SUFFICES ASSUME SearchInit PROVE SearchInv
  OBVIOUS
<1>1. num_items \in Nat \ {0} /\ low = 0 /\ high = num_items - 1 /\ pc = "hint" /\ index = 0
  BY LenAssumption DEF SearchInit
<1>2. SearchTypeOK
  <2>1. low \in 0 .. num_items /\ high \in -1 .. num_items - 1 /\ index \in 0 .. num_items
    BY <1>1
  <2>2. found \in BOOLEAN /\ pc \in {"hint", "loop", "done"}
    BY DEF SearchInit
  <2> QED
    BY <2>1, <2>2, Zenon DEF SearchInit, SearchTypeOK
<1>3. SearchSplits
  BY <1>1 DEF SearchSplits, Places
<1> QED
  BY <1>1, <1>2, <1>3 DEF SearchInv, SearchBegins, Correct

(* The hint left is a byte. *)
LEMMA LeftByte ==
    ASSUME SearchTypeOK, NEW i \in Nat, Leave(i)
    PROVE  hint' \in 0 .. HintValues - 1 \cup {NoHint}
  BY HintAssumption DEF SearchTypeOK, Leave

(* Every step of a search keeps what it knows. *)
LEMMA SearchNextInv == ASSUME SearchInv, [SearchNext]_search PROVE SearchInv'
<1> USE DEF args
<1>0. SearchTypeOK /\ SearchBegins /\ (pc # "done" => SearchSplits) /\ Correct
  BY DEF SearchInv
<1>1. CASE NoUsableHint
  BY <1>0, <1>1 DEF NoUsableHint, SearchInv, SearchTypeOK, SearchBegins, SearchSplits, Correct, Places, KeysAscend
<1>2. CASE HintHits
  <2>1. Hinted \in Places
    BY <1>0, <1>2, HintIsNat DEF HintHits
  <2>2. SearchTypeOK' /\ SearchBegins'
    BY <1>0, <1>2, <2>1, LenAssumption DEF HintHits, SearchTypeOK, SearchBegins, Places, KeysAscend
  <2>3. Correct' /\ pc' = "done"
    BY <1>2, <2>1 DEF HintHits, Correct, Places
  <2> QED
    BY <2>2, <2>3 DEF SearchInv
<1>3. CASE HintNarrows
  <2>1. Hinted \in Places /\ pc = "hint"
    BY <1>0, <1>3, HintIsNat DEF HintNarrows
  <2>2. key \in Int /\ \A i \in Places : items[i] \in Int
    BY <1>0, SearchedKeysAreInt
  <2>3. low = 0 /\ high = num_items - 1 /\ num_items \in Nat \ {0}
    BY <1>0, <2>1, LenAssumption DEF SearchBegins, SearchTypeOK
  <2>4. UNCHANGED <<num_items, items, key, hint, index, found>> /\ pc' = "loop"
    BY <1>3 DEF HintNarrows
  <2>5. CASE key > items[Hinted]
    <3>1. low' = Hinted + 1 /\ high' = high
      BY <1>3, <2>5 DEF HintNarrows
    <3>2. \A i \in Places : i < Hinted + 1 => items[i] < key
      <4>1. SUFFICES ASSUME NEW i \in Places, i < Hinted + 1 PROVE items[i] < key
        OBVIOUS
      <4>2. i = Hinted \/ i < Hinted
        BY <2>1, <4>1 DEF Places
      <4>3. items[i] = items[Hinted] \/ items[i] < items[Hinted]
        BY <1>0, <2>1, <4>2 DEF SearchTypeOK, KeysAscend
      <4> QED
        BY <2>1, <2>2, <2>5, <4>3
    <3>3. SearchSplits'
      BY <2>1, <2>3, <2>4, <3>1, <3>2 DEF SearchSplits, Places
    <3> QED
      BY <1>0, <2>1, <2>3, <2>4, <3>1, <3>3 DEF SearchInv, SearchTypeOK, SearchBegins, Correct, Places, KeysAscend
  <2>6. CASE ~(key > items[Hinted])
    <3>1. low' = low /\ high' = Hinted - 1 /\ key < items[Hinted]
      <4>1. key # items[Hinted]
        BY <1>3 DEF HintNarrows
      <4>2. items[Hinted] \in Int /\ key \in Int
        BY <2>1, <2>2
      <4> QED
        BY <1>3, <2>6, <4>1, <4>2 DEF HintNarrows
    <3>2. \A i \in Places : i > Hinted - 1 => items[i] > key
      <4>1. SUFFICES ASSUME NEW i \in Places, i > Hinted - 1 PROVE items[i] > key
        OBVIOUS
      <4>2. i = Hinted \/ Hinted < i
        BY <2>1, <4>1 DEF Places
      <4>3. items[i] = items[Hinted] \/ items[Hinted] < items[i]
        BY <1>0, <2>1, <4>2 DEF SearchTypeOK, KeysAscend
      <4> QED
        BY <2>1, <2>2, <3>1, <4>3
    <3>3. SearchSplits'
      BY <2>1, <2>3, <2>4, <3>1, <3>2 DEF SearchSplits, Places
    <3> QED
      BY <1>0, <2>1, <2>3, <2>4, <3>1, <3>3 DEF SearchInv, SearchTypeOK, SearchBegins, Correct, Places, KeysAscend
  <2> QED
    BY <2>5, <2>6
<1>4. CASE MidHits
  <2>1. mid \in Places
    BY <1>0, <1>4, MidIsBetween DEF MidHits
  <2>2. Leave(mid) /\ mid \in Nat
    BY <1>4, <2>1 DEF MidHits, Places
  <2>3. hint' \in 0 .. HintValues - 1 \cup {NoHint}
    BY <1>0, <2>2, LeftByte
  <2>4. SearchTypeOK' /\ SearchBegins' /\ Correct' /\ pc' = "done"
    BY <1>0, <1>4, <2>1, <2>3, LenAssumption DEF MidHits, SearchTypeOK, SearchBegins, Correct, Places, KeysAscend
  <2> QED
    BY <2>4 DEF SearchInv
<1>5. CASE GoLeft
  <2>1. mid \in Places /\ low <= mid /\ mid <= high /\ pc = "loop"
    BY <1>0, <1>5, MidIsBetween DEF GoLeft
  <2>2. key \in Int /\ \A i \in Places : items[i] \in Int
    BY <1>0, SearchedKeysAreInt
  <2>3. \A i \in Places : i > mid - 1 => items[i] > key
    <3>1. SUFFICES ASSUME NEW i \in Places, i > mid - 1 PROVE items[i] > key
      OBVIOUS
    <3>2. i = mid \/ mid < i
      BY <2>1, <3>1 DEF Places
    <3>3. items[i] = items[mid] \/ items[mid] < items[i]
      BY <1>0, <2>1, <3>2 DEF SearchTypeOK, KeysAscend
    <3>4. key < items[mid] /\ items[mid] \in Int
      BY <1>5, <2>1, <2>2 DEF GoLeft
    <3> QED
      BY <2>2, <3>3, <3>4
  <2>4. SearchSplits'
    BY <1>0, <1>5, <2>1, <2>3 DEF GoLeft, SearchSplits, Places, SearchTypeOK
  <2> QED
    BY <1>0, <1>5, <2>1, <2>4, LenAssumption
    DEF GoLeft, SearchInv, SearchTypeOK, SearchBegins, Correct, Places, KeysAscend
<1>6. CASE GoRight
  <2>1. mid \in Places /\ low <= mid /\ mid <= high /\ pc = "loop"
    BY <1>0, <1>6, MidIsBetween DEF GoRight
  <2>2. key \in Int /\ \A i \in Places : items[i] \in Int
    BY <1>0, SearchedKeysAreInt
  <2>3. \A i \in Places : i < mid + 1 => items[i] < key
    <3>1. SUFFICES ASSUME NEW i \in Places, i < mid + 1 PROVE items[i] < key
      OBVIOUS
    <3>2. i = mid \/ i < mid
      BY <2>1, <3>1 DEF Places
    <3>3. items[i] = items[mid] \/ items[i] < items[mid]
      BY <1>0, <2>1, <3>2 DEF SearchTypeOK, KeysAscend
    <3>4. key > items[mid] /\ items[mid] \in Int
      BY <1>6, <2>1, <2>2 DEF GoRight
    <3> QED
      BY <2>1, <2>2, <3>3, <3>4
  <2>4. SearchSplits'
    BY <1>0, <1>6, <2>1, <2>3 DEF GoRight, SearchSplits, Places, SearchTypeOK
  <2> QED
    BY <1>0, <1>6, <2>1, <2>4, LenAssumption
    DEF GoRight, SearchInv, SearchTypeOK, SearchBegins, Correct, Places, KeysAscend
<1>7. CASE NotThere
  <2>1. Leave(low) /\ low \in Nat /\ pc = "loop" /\ low = high + 1
    BY <1>0, <1>7, LenAssumption DEF NotThere, SearchTypeOK, SearchSplits
  <2>2. hint' \in 0 .. HintValues - 1 \cup {NoHint}
    BY <1>0, <2>1, LeftByte
  <2>3. key \in Int /\ \A i \in Places : items[i] \in Int
    BY <1>0, SearchedKeysAreInt
  <2>4. \A i \in Places : IF i < low THEN items[i] < key ELSE items[i] > key
    BY <1>0, <2>1 DEF SearchSplits, Places, SearchTypeOK
  <2>5. \A i \in Places : items[i] # key /\ (items[i] < key <=> i < low)
    BY <2>3, <2>4
  <2>6. Correct'
    BY <1>7, <2>5 DEF NotThere, Correct, Places
  <2>7. index' = low /\ found' = FALSE /\ pc' = "done" /\ UNCHANGED <<num_items, items, key, low, high>>
    BY <1>7 DEF NotThere
  <2>8. /\ index' \in 0 .. num_items /\ num_items' = num_items /\ items' = items /\ key' = key
        /\ low' = low /\ high' = high
    BY <1>0, <2>7 DEF SearchTypeOK
  <2>9. SearchTypeOK'
    <3>1. Places' = Places /\ (KeysAscend' <=> KeysAscend)
      BY <2>7 DEF Places, KeysAscend
    <3>2. found' \in BOOLEAN /\ pc' \in {"hint", "loop", "done"}
      BY <2>7
    <3> QED
      BY <1>0, <2>2, <2>8, <3>1, <3>2 DEF SearchTypeOK
  <2> QED
    BY <2>6, <2>7, <2>9 DEF SearchInv, SearchBegins
<1>8. CASE UNCHANGED search
  BY <1>8 DEF search, SearchInv, SearchTypeOK, SearchBegins, SearchSplits, Correct, Places, KeysAscend
<1> QED
  BY <1>1, <1>2, <1>3, <1>4, <1>5, <1>6, <1>7, <1>8 DEF SearchNext

(* So it holds throughout. *)
LEMMA SearchInvAlways == SearchSpec => []SearchInv
<1>1. SearchInit => SearchInv
  BY SearchInitInv
<1>2. SearchInv /\ [SearchNext]_search => SearchInv'
  BY SearchNextInv
<1> QED
  BY <1>1, <1>2, PTL DEF SearchSpec

\* node_find returns the place of the key, or where it would go, for every
\* node, key and hint (btree.c:375-421).
THEOREM SearchIsCorrect == SearchSpec => []Correct
<1>1. SearchInv => Correct
  BY DEF SearchInv
<1> QED
  BY <1>1, SearchInvAlways, PTL

\* The state of the search keeps its type; no bound leaves the node.
THEOREM SearchTypeCorrect == SearchSpec => []SearchTypeOK
<1>1. SearchInv => SearchTypeOK
  BY DEF SearchInv
<1> QED
  BY <1>1, SearchInvAlways, PTL

\* Neither a hint, however stale, nor the middle of the range makes node_find
\* look at an item the node does not have (btree.c:381-396).
THEOREM SearchStaysInNode == SearchSpec => []InNode
<1>1. SearchInv => InNode
  BY HintIsNat, MidIsBetween DEF SearchInv, InNode
<1> QED
  BY <1>1, SearchInvAlways, PTL

\* The node the search looks at, as the tree has it.
Searched == [items |-> [i \in 1 .. num_items |-> [key |-> items[i - 1]]]]

\* A search that is over has found what node_find is in the tree.
SearchFinds ==
    pc = "done" => /\ index + 1 = node_find(Searched, key)
                   /\ found <=> HasAt(Searched, index + 1, key)

(* Keys ascend: the keys smaller than the one at an index are those before it. *)
LEMMA SearchFindsPlace ==
    ASSUME SearchTypeOK, Correct, pc = "done"
    PROVE  SearchFinds
<1> DEFINE n == num_items
           q == Searched.items
<1>1. n \in Nat /\ key \in Int /\ index \in 0 .. n /\ \A i \in 0 .. n - 1 : items[i] \in Int
  <2>1. n \in 1 .. MaxLen /\ items \in [0 .. n - 1 -> Keys] /\ key \in Keys /\ index \in 0 .. n
    BY DEF SearchTypeOK, Places
  <2> HIDE DEF n
  <2>2. n \in Nat
    BY <2>1, LenAssumption, KeysAssumption
  <2>3. \A i \in 0 .. n - 1 : items[i] \in Int
    BY <2>1, LenAssumption, KeysAssumption
  <2> QED
    BY <2>1, <2>2, <2>3, LenAssumption, KeysAssumption
<1>2. Len(q) = n /\ DOMAIN q = 1 .. n /\ \A i \in 1 .. n : q[i].key = items[i - 1]
  BY <1>1 DEF Searched
<1>3. Places = 0 .. n - 1
  BY DEF Places
<1>s. \A i, j \in 0 .. n - 1 : i < j => items[i] < items[j]
  BY <1>3 DEF SearchTypeOK, KeysAscend
<1>c. IF found THEN index \in 0 .. n - 1 /\ items[index] = key
      ELSE /\ \A i \in 0 .. n - 1 : items[i] # key
           /\ \A i \in 0 .. n - 1 : items[i] < key <=> i < index
  BY <1>3 DEF Correct
<1> HIDE DEF n, q
<1>4. \A i \in 0 .. n - 1 : items[i] < key <=> i < index
  <2>1. CASE found
    <3> SUFFICES ASSUME NEW i \in 0 .. n - 1 PROVE items[i] < key <=> i < index
      OBVIOUS
    <3>1. index \in 0 .. n - 1 /\ items[index] = key
      BY <1>c, <2>1
    <3>2. items[i] \in Int /\ items[index] \in Int
      BY <1>1, <3>1
    <3>3. i < index => items[i] < items[index]
      BY <1>s, <3>1
    <3>4. index < i => items[index] < items[i]
      BY <1>s, <3>1
    <3>5. i < index \/ i = index \/ index < i
      BY <1>1
    <3> QED
      BY <1>1, <3>1, <3>2, <3>3, <3>4, <3>5
  <2> QED
    BY <1>c, <2>1
<1>5. {i \in DOMAIN q : q[i].key < key} = 1 .. index
  <2>1. ASSUME NEW i \in 1 .. n PROVE q[i].key < key <=> i <= index
    <3>1. i - 1 \in 0 .. n - 1
      BY <1>1
    <3>2. q[i].key < key <=> i - 1 < index
      BY <1>2, <1>4, <3>1
    <3> QED
      BY <1>1, <3>2
  <2>2. \A i \in 1 .. index : i \in 1 .. n
    BY <1>1
  <2>3. \A i \in 1 .. index : i <= index
    BY <1>1
  <2>4. \A i \in 1 .. n : i <= index => i \in 1 .. index
    BY <1>1
  <2> QED
    BY <1>2, <2>1, <2>2, <2>3, <2>4
<1>6. Cardinality(1 .. index) = index
  BY <1>1, FS_Interval
<1>7. node_find(Searched, key) = 1 + index
  <2>1. node_find(Searched, key) = 1 + Cardinality({i \in DOMAIN q : q[i].key < key})
    BY DEF node_find, q
  <2> QED
    BY <1>5, <1>6, <2>1
<1>e. index + 1 = 1 + index /\ index \in Nat /\ n \in Nat
  BY <1>1
<1>8. HasAt(Searched, index + 1, key) = (index + 1 <= n /\ q[index + 1].key = key)
  BY <1>2 DEF HasAt, q
<1>9. index + 1 <= n => q[index + 1].key = items[index] /\ index \in 0 .. n - 1
  <2>1. index + 1 <= n => index + 1 \in 1 .. n /\ index \in 0 .. n - 1 /\ (index + 1) - 1 = index
    BY <1>1
  <2> QED
    BY <1>2, <2>1
<1>10. found => HasAt(Searched, index + 1, key)
  <2>1. found => index \in 0 .. n - 1 /\ items[index] = key
    BY <1>c
  <2>2. found => index + 1 <= n
    BY <1>e, <2>1
  <2> QED
    BY <1>8, <1>9, <2>1, <2>2, Zenon
<1>11. ~found => ~HasAt(Searched, index + 1, key)
  <2>1. ~found => \A i \in 0 .. n - 1 : items[i] # key
    BY <1>c
  <2> QED
    BY <1>8, <1>9, <2>1, Zenon
<1> QED
  BY <1>7, <1>e, <1>10, <1>11, Zenon DEF SearchFinds

\* What the tree computes with node_find is what the search of btree.c:375-421
\* returns, found or not.
THEOREM SearchIsNodeFind == SearchSpec => []SearchFinds
<1>1. SearchInv => SearchFinds
  BY SearchFindsPlace DEF SearchInv, SearchFinds
<1> QED
  BY <1>1, SearchInvAlways, PTL

===============================================================================
