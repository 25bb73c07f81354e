----------------------------- MODULE Day18Proofs ------------------------------
(***************************************************************************)
(* Theorems about Day18, for any lines, any depth at which pairs explode   *)
(* and any least digit to split: fast_reduce on its two buffers follows    *)
(* the rules of Snailfish, stays inside the buffers, and leaves a number   *)
(* of which magnitude keeps one digit.  First the numbers: that their      *)
(* digits fill the places of a binary tree, whatever rule is applied.      *)
(***************************************************************************)
EXTENDS Day18, SequenceTheorems, WellFoundedInduction, TLAPS

(* A set of numbers that is not empty has a least one. *)
LEMMA LeastNumber ==
    ASSUME NEW S \in SUBSET Nat, S # {}
    PROVE  \E n \in S : \A m \in S : n <= m
<1>1. PICK n \in S : \A m \in S : <<m, n>> \notin OpToRel(<, Nat)
  BY NatLessThanWellFounded, WFMin
<1>2. \A m \in S : ~ (m < n)
  BY <1>1 DEF OpToRel
<1> QED
  BY <1>2

-----------------------------------------------------------------------------
(* Recursion: an equation that gives each value of a function from the one   *)
(* before it has a solution.                                                 *)

(* The first values of such a function. *)
Begins(first, step, n, w) ==
    w = [k \in 0 .. n |-> IF k = 0 THEN first ELSE step[k][w[k - 1]]]

(* What the equation says at one place. *)
LEMMA BeginsAt ==
    ASSUME NEW first, NEW step, NEW n \in Nat, NEW w, Begins(first, step, n, w),
           NEW k \in 0 .. n
    PROVE  (k = 0 => w[k] = first) /\ (k # 0 => w[k] = step[k][w[k - 1]])
<1> DEFINE e(j) == IF j = 0 THEN first ELSE step[j][w[j - 1]]
<1>1. w = [j \in 0 .. n |-> e(j)]
  BY DEF Begins
<1> HIDE DEF e
<1>2. w[k] = e(k)
  BY <1>1
<1> QED
  BY <1>2 DEF e

(* Any number of values can be computed. *)
LEMMA BeginningsExist ==
    ASSUME NEW first, NEW step, NEW n \in Nat
    PROVE  \E w : Begins(first, step, n, w)
<1> DEFINE None == {k \in Nat : ~ \E w : Begins(first, step, k, w)}
<1>1. SUFFICES ASSUME None # {} PROVE FALSE
  OBVIOUS
<1>2. PICK k \in None : \A j \in None : k <= j
  BY <1>1, LeastNumber
<1>3. CASE k = 0
  <2>1. Begins(first, step, 0, [j \in 0 .. 0 |-> first])
    BY DEF Begins
  <2> QED
    BY <2>1, <1>3
<1>4. CASE k # 0
  <2>1. k - 1 \in Nat /\ k - 1 \notin None
    BY <1>2, <1>4
  <2>2. PICK w : Begins(first, step, k - 1, w)
    BY <2>1
  <2> DEFINE v == [j \in 0 .. k |-> IF j = k THEN step[k][w[k - 1]] ELSE w[j]]
  <2>3. \A j \in 0 .. k - 1 : v[j] = w[j]
    BY <2>1
  <2>4. ASSUME NEW j \in 0 .. k
        PROVE  (j = 0 => v[j] = first) /\ (j # 0 => v[j] = step[j][v[j - 1]])
    <3>1. CASE j = k
      <4>1. v[j] = step[k][w[k - 1]] /\ v[k - 1] = w[k - 1]
        BY <3>1, <2>1, <2>3
      <4> QED
        BY <4>1, <3>1, <1>4
    <3>2. CASE j # k
      <4>1. j \in 0 .. k - 1 /\ v[j] = w[j]
        BY <3>2, <2>1, <2>3
      <4>2. j # 0 => v[j - 1] = w[j - 1]
        BY <4>1, <2>3
      <4>3. (j = 0 => w[j] = first) /\ (j # 0 => w[j] = step[j][w[j - 1]])
        BY <4>1, <2>1, <2>2, BeginsAt
      <4> QED
        BY <4>1, <4>2, <4>3
    <3> QED
      BY <3>1, <3>2
  <2> HIDE DEF v
  <2>5. v = [j \in 0 .. k |-> v[j]]
    BY DEF v
  <2>6. Begins(first, step, k, v)
    BY <2>4, <2>5 DEF Begins
  <2> QED
    BY <2>6
<1> QED
  BY <1>3, <1>4

(* Shorter and longer beginnings agree. *)
LEMMA BeginningsAgree ==
    ASSUME NEW first, NEW step, NEW n \in Nat, NEW m \in Nat, NEW v, NEW w,
           Begins(first, step, n, v), Begins(first, step, m, w),
           NEW k \in Nat, k <= n, k <= m
    PROVE  v[k] = w[k]
<1> DEFINE Bad == {j \in Nat : j <= n /\ j <= m /\ v[j] # w[j]}
<1>1. SUFFICES ASSUME Bad # {} PROVE FALSE
  OBVIOUS
<1>2. PICK j \in Bad : \A l \in Bad : j <= l
  BY <1>1, LeastNumber
<1>3. /\ (j = 0 => v[j] = first) /\ (j # 0 => v[j] = step[j][v[j - 1]])
      /\ (j = 0 => w[j] = first) /\ (j # 0 => w[j] = step[j][w[j - 1]])
  <2>1. j \in 0 .. n /\ j \in 0 .. m
    BY <1>2
  <2>2. \A l \in 0 .. n : (l = 0 => v[l] = first) /\ (l # 0 => v[l] = step[l][v[l - 1]])
    BY BeginsAt
  <2>3. \A l \in 0 .. m : (l = 0 => w[l] = first) /\ (l # 0 => w[l] = step[l][w[l - 1]])
    BY BeginsAt
  <2> HIDE DEF Bad
  <2> QED
    BY <2>1, <2>2, <2>3
<1>4. j # 0 => v[j - 1] = w[j - 1]
  BY <1>2
<1> QED
  BY <1>2, <1>3, <1>4

(* All values at once. *)
Follows(first, step, f) ==
    /\ f = [k \in Nat |-> f[k]]
    /\ f[0] = first
    /\ \A k \in Nat \ {0} : f[k] = step[k][f[k - 1]]

(* The equation can be solved. *)
LEMMA Recursion ==
    ASSUME NEW first, NEW step
    PROVE  \E f : Follows(first, step, f)
<1> DEFINE part(n) == CHOOSE w : Begins(first, step, n, w)
           whole   == [n \in Nat |-> part(n)[n]]
<1>1. \A n \in Nat : Begins(first, step, n, part(n))
  BY BeginningsExist
<1> HIDE DEF part
<1>2. whole[0] = first
  <2>1. Begins(first, step, 0, part(0)) /\ 0 \in 0 .. 0
    BY <1>1
  <2>2. ASSUME NEW w, Begins(first, step, 0, w) PROVE w[0] = first
    BY <2>2, BeginsAt
  <2> QED
    BY <2>1, <2>2
<1>3. ASSUME NEW n \in Nat \ {0} PROVE whole[n] = step[n][whole[n - 1]]
  <2>1. Begins(first, step, n, part(n)) /\ Begins(first, step, n - 1, part(n - 1))
    BY <1>1
  <2>2. ASSUME NEW w, Begins(first, step, n, w) PROVE w[n] = step[n][w[n - 1]]
    <3>1. n \in 0 .. n
      OBVIOUS
    <3> QED
      BY <2>2, <3>1, BeginsAt
  <2>3. part(n)[n - 1] = part(n - 1)[n - 1]
    BY <2>1, BeginningsAgree
  <2> QED
    BY <2>1, <2>2, <2>3
<1>4. whole = [n \in Nat |-> whole[n]]
  OBVIOUS
<1> HIDE DEF whole
<1>5. Follows(first, step, whole)
  BY <1>2, <1>3, <1>4 DEF Follows
<1> QED
  BY <1>5

-----------------------------------------------------------------------------
(* The room of a digit.                                                      *)

(* Each level up has room for twice as many digits. *)
LEMMA SizeDoubles ==
    /\ F!Size[0] = 1
    /\ \A h \in Nat : F!Size[h + 1] = 2 * F!Size[h] /\ F!Size[h] \in Nat \ {0}
<1> DEFINE Solves(f) == f = [h \in Nat |-> IF h = 0 THEN 1 ELSE 2 * f[h - 1]]
           step == [k \in Nat |-> [v \in Nat |-> 2 * v]]
<1>1. PICK f : Follows(1, step, f)
  <2> HIDE DEF step
  <2> QED
    BY Recursion
<1>2. ASSUME NEW k \in Nat \ {0}, f[k - 1] \in Nat PROVE f[k] = 2 * f[k - 1]
  <2>1. step[k][f[k - 1]] = 2 * f[k - 1]
    BY <1>2
  <2> HIDE DEF step
  <2> QED
    BY <1>1, <2>1 DEF Follows
<1> HIDE DEF step
<1>3. \A k \in Nat : f[k] \in Nat
  <2> DEFINE Bad == {k \in Nat : f[k] \notin Nat}
  <2>1. SUFFICES ASSUME Bad # {} PROVE FALSE
    OBVIOUS
  <2>2. PICK k \in Bad : \A j \in Bad : k <= j
    BY <2>1, LeastNumber
  <2>3. k # 0
    BY <1>1, <2>2 DEF Follows
  <2>4. k \in Nat \ {0} /\ k - 1 \in Nat /\ f[k - 1] \in Nat
    BY <2>2, <2>3
  <2> QED
    BY <1>2, <2>2, <2>4
<1>4. \A k \in Nat : f[k] = IF k = 0 THEN 1 ELSE 2 * f[k - 1]
  <2>1. ASSUME NEW k \in Nat, k # 0 PROVE f[k] = 2 * f[k - 1]
    <3>1. k \in Nat \ {0} /\ f[k - 1] \in Nat
      BY <1>3, <2>1
    <3> QED
      BY <1>2, <3>1
  <2> QED
    BY <1>1, <2>1 DEF Follows
<1>5. Solves(f)
  <2>1. f = [k \in Nat |-> f[k]]
    BY <1>1 DEF Follows
  <2> QED
    BY <1>4, <2>1
<1>6. Solves(CHOOSE g : Solves(g))
  BY <1>5
<1>7. F!Size = CHOOSE g : Solves(g)
  BY DEF F!Size
<1>8. Solves(F!Size)
  BY <1>6, <1>7
<1>9. \A k \in Nat : F!Size[k] = IF k = 0 THEN 1 ELSE 2 * F!Size[k - 1]
  <2> DEFINE e(j) == IF j = 0 THEN 1 ELSE 2 * F!Size[j - 1]
  <2>1. F!Size = [j \in Nat |-> e(j)]
    BY <1>8
  <2> HIDE DEF e
  <2>2. \A k \in Nat : F!Size[k] = e(k)
    BY <2>1
  <2> QED
    BY <2>2 DEF e
<1>10. \A h \in Nat : F!Size[h] \in Nat \ {0}
  <2> DEFINE Bad == {k \in Nat : F!Size[k] \notin Nat \ {0}}
  <2>1. SUFFICES ASSUME Bad # {} PROVE FALSE
    OBVIOUS
  <2>2. PICK k \in Bad : \A j \in Bad : k <= j
    BY <2>1, LeastNumber
  <2>3. k # 0
    BY <1>9, <2>2
  <2>4. k - 1 \in Nat /\ F!Size[k - 1] \in Nat \ {0}
    BY <2>2, <2>3
  <2> QED
    BY <1>9, <2>2, <2>3, <2>4
<1>11. ASSUME NEW h \in Nat PROVE F!Size[h + 1] = 2 * F!Size[h]
  <2>1. h + 1 \in Nat /\ h + 1 # 0 /\ (h + 1) - 1 = h
    OBVIOUS
  <2> QED
    BY <1>9, <2>1
<1> QED
  BY <1>9, <1>10, <1>11

-----------------------------------------------------------------------------
(* The places of the digits.                                                 *)

Digits == [value : Nat, depth : 0 .. Nested]

(* How many of the deepest digits fit into the place of one at depth d. *)
Room(d) == F!Size[Nested - d]

(* An even multiple is no odd one. *)
LEMMA OddIsNotEven ==
    ASSUME NEW x \in Nat, NEW y \in Nat, NEW r \in Nat \ {0}
    PROVE  (2 * x + 1) * r # (2 * y) * r
<1>1. 2 * x + 1 # 2 * y
  OBVIOUS
<1>2. ASSUME NEW a \in Nat, NEW b \in Nat, a < b PROVE a * r # b * r
  <2>1. PICK c \in Nat : b = a + c + 1
    BY <1>2, b - a - 1 \in Nat, b = a + (b - a - 1) + 1
  <2>2. b * r = a * r + c * r + r /\ a * r \in Nat /\ c * r \in Nat
    BY <2>1
  <2> QED
    BY <2>2
<1>3. 2 * x + 1 \in Nat /\ 2 * y \in Nat
  OBVIOUS
<1> HIDE <1>1
<1>4. CASE 2 * x + 1 < 2 * y
  BY <1>2, <1>3, <1>4
<1>5. CASE 2 * y < 2 * x + 1
  BY <1>2, <1>3, <1>5
<1> QED
  BY <1>1, <1>3, <1>4, <1>5

(* A digit has twice the room of one that is a level deeper, and an even      *)
(* multiple of the room of any deeper one.                                   *)
LEMMA Rooms ==
    /\ Nested \in Nat /\ Nested > 1
    /\ Room(Nested) = 1 /\ Room(0) = F!Size[Nested]
    /\ \A d \in 0 .. Nested : Room(d) \in Nat \ {0}
    /\ \A d \in 0 .. Nested - 1 : Room(d) = 2 * Room(d + 1)
    /\ \A d, e \in 0 .. Nested :
          d < e => \E m \in Nat : Room(d) = (2 * m) * Room(e)
<1>1. Nested \in Nat /\ Nested > 1
  BY InputAssumption
<1>2. Room(Nested) = 1 /\ Room(0) = F!Size[Nested]
  BY <1>1, SizeDoubles DEF Room
<1>3. \A d \in 0 .. Nested : Room(d) \in Nat \ {0}
  BY <1>1, SizeDoubles DEF Room
<1>4. ASSUME NEW d \in 0 .. Nested - 1 PROVE Room(d) = 2 * Room(d + 1)
  <2>1. Nested - (d + 1) \in Nat /\ (Nested - (d + 1)) + 1 = Nested - d
    BY <1>1
  <2> QED
    BY <2>1, SizeDoubles DEF Room
<1>5. ASSUME NEW d \in 0 .. Nested, NEW e \in 0 .. Nested, d < e
      PROVE  \E m \in Nat : Room(d) = (2 * m) * Room(e)
  <2> DEFINE Bad == {c \in Nat : c <= Nested /\ d < c /\ ~ \E m \in Nat : Room(d) = (2 * m) * Room(c)}
  <2>1. SUFFICES Bad = {}
    BY <1>1, <1>5
  <2>2. SUFFICES ASSUME Bad # {} PROVE FALSE
    OBVIOUS
  <2>3. PICK c \in Bad : \A b \in Bad : c <= b
    <3>1. Bad \in SUBSET Nat
      OBVIOUS
    <3> HIDE DEF Bad
    <3> QED
      BY <2>2, <3>1, LeastNumber
  <2>4. c \in Nat /\ c <= Nested /\ d < c /\ ~ \E m \in Nat : Room(d) = (2 * m) * Room(c)
    BY <2>3
  <2>5. c - 1 \in 0 .. Nested - 1 /\ (c - 1) + 1 = c /\ c \in 0 .. Nested
    BY <1>1, <2>4
  <2>6. Room(c - 1) = 2 * Room(c) /\ Room(c) \in Nat
    BY <1>3, <1>4, <2>5
  <2>7. CASE d = c - 1
    <3>1. Room(d) = (2 * 1) * Room(c)
      BY <2>6, <2>7
    <3> QED
      BY <2>4, <3>1
  <2>8. CASE d # c - 1
    <3>1. c - 1 \in Nat /\ c - 1 <= Nested /\ d < c - 1 /\ ~ (c <= c - 1)
      BY <1>1, <2>4, <2>8
    <3>2. c - 1 \notin Bad
      BY <2>3, <3>1
    <3>3. PICK m \in Nat : Room(d) = (2 * m) * Room(c - 1)
      BY <3>1, <3>2
    <3>4. \A x, r \in Nat : (2 * x) * (2 * r) = (2 * (2 * x)) * r
      OBVIOUS
    <3>5. Room(d) = (2 * (2 * m)) * Room(c) /\ 2 * m \in Nat
      BY <2>6, <3>3, <3>4
    <3> QED
      BY <2>4, <3>5
  <2> QED
    BY <2>7, <2>8
<1> QED
  BY <1>1, <1>2, <1>3, <1>4, <1>5

(* pos[k] places are filled by the first k digits; each digit begins at a     *)
(* multiple of its room, and all of them fill the tree.                      *)
Placed(n, pos) ==
    /\ pos \in [0 .. Len(n) -> Nat]
    /\ pos[0] = 0
    /\ pos[Len(n)] = F!Size[Nested]
    /\ \A k \in 1 .. Len(n) : pos[k] = pos[k - 1] + Room(n[k].depth)
    /\ \A k \in 1 .. Len(n) : \E m \in Nat : pos[k - 1] = m * Room(n[k].depth)

Tree(n) == n \in Seq(Digits) /\ \E pos : Placed(n, pos)

(* Digits of a sequence. *)
LEMMA DigitsAre ==
    ASSUME NEW n \in Seq(Digits)
    PROVE  /\ Len(n) \in Nat
           /\ \A k \in 1 .. Len(n) : /\ n[k] \in Digits
                                     /\ n[k].value \in Nat
                                     /\ n[k].depth \in 0 .. Nested
                                     /\ Room(n[k].depth) \in Nat \ {0}
<1>1. Len(n) \in Nat /\ \A k \in 1 .. Len(n) : n[k] \in Digits
  BY ElementOfSeq, LenProperties
<1>2. \A x \in Digits : x.value \in Nat /\ x.depth \in 0 .. Nested
  BY DEF Digits
<1>3. \A d \in 0 .. Nested : Room(d) \in Nat \ {0}
  BY Rooms
<1> QED
  BY <1>1, <1>2, <1>3

(* Each digit fills a place at least. *)
LEMMA PlacesGrow ==
    ASSUME NEW n \in Seq(Digits), NEW pos, Placed(n, pos),
           NEW j \in 0 .. Len(n)
    PROVE  \A k \in j .. Len(n) : pos[j] + (k - j) <= pos[k]
<1> DEFINE Bad == {k \in Nat : j <= k /\ k <= Len(n) /\ ~ (pos[j] + (k - j) <= pos[k])}
<1>1. Len(n) \in Nat /\ \A k \in 0 .. Len(n) : pos[k] \in Nat
  BY DigitsAre DEF Placed
<1>2. SUFFICES ASSUME Bad # {} PROVE FALSE
  BY <1>1
<1>3. PICK k \in Bad : \A l \in Bad : k <= l
  <2>1. Bad \in SUBSET Nat
    OBVIOUS
  <2> HIDE DEF Bad
  <2> QED
    BY <1>2, <2>1, LeastNumber
<1>4. k \in Nat /\ j <= k /\ k <= Len(n) /\ ~ (pos[j] + (k - j) <= pos[k])
  BY <1>3
<1>5. k # j
  BY <1>1, <1>4
<1>6. k - 1 \in Nat /\ j <= k - 1 /\ k - 1 <= Len(n) /\ ~ (k <= k - 1) /\ k \in 1 .. Len(n)
  BY <1>1, <1>4, <1>5
<1>7. pos[j] + ((k - 1) - j) <= pos[k - 1]
  BY <1>3, <1>6
<1>8. pos[k] = pos[k - 1] + Room(n[k].depth) /\ Room(n[k].depth) \in Nat \ {0}
  BY <1>6, DigitsAre DEF Placed
<1>9. pos[k - 1] \in Nat /\ pos[j] \in Nat
  BY <1>1, <1>6
<1> HIDE DEF Bad
<1> QED
  BY <1>4, <1>6, <1>7, <1>8, <1>9

(* So there are not more digits than places, and one at least. *)
LEMMA DigitsFit ==
    ASSUME NEW n, Tree(n)
    PROVE  Len(n) \in 1 .. F!Size[Nested]
<1>1. PICK pos : n \in Seq(Digits) /\ Placed(n, pos)
  BY DEF Tree
<1>2. Len(n) \in Nat /\ 0 \in 0 .. Len(n) /\ Len(n) \in 0 .. Len(n)
  BY <1>1, DigitsAre
<1>3. pos[0] + (Len(n) - 0) <= pos[Len(n)]
  BY <1>1, <1>2, PlacesGrow
<1>4. pos[0] = 0 /\ pos[Len(n)] = F!Size[Nested]
  BY <1>1 DEF Placed
<1>5. F!Size[Nested] \in Nat \ {0}
  BY Rooms, SizeDoubles
<1> QED
  BY <1>2, <1>3, <1>4, <1>5

(* A digit begins at an even multiple of its room if the one before is not    *)
(* as deep: a first half, of a pair or of something deeper.                  *)
LEMMA EvenBefore ==
    ASSUME NEW n \in Seq(Digits), NEW pos, Placed(n, pos), NEW k \in 1 .. Len(n),
           k > 1 => n[k - 1].depth < n[k].depth
    PROVE  \E m \in Nat : pos[k - 1] = (2 * m) * Room(n[k].depth)
<1>1. Len(n) \in Nat /\ n[k].depth \in 0 .. Nested /\ Room(n[k].depth) \in Nat
  BY DigitsAre
<1>2. CASE k = 1
  <2>1. pos[k - 1] = (2 * 0) * Room(n[k].depth)
    BY <1>1, <1>2 DEF Placed
  <2> QED
    BY <2>1
<1>3. CASE k > 1
  <2> DEFINE j == k - 1
  <2>1. j \in 1 .. Len(n) /\ n[j].depth < n[k].depth
    BY <1>1, <1>3
  <2>2. n[j].depth \in 0 .. Nested /\ Room(n[j].depth) \in Nat
    BY <2>1, DigitsAre
  <2>3. PICK a \in Nat : Room(n[j].depth) = (2 * a) * Room(n[k].depth)
    BY <1>1, <2>1, <2>2, Rooms
  <2>4. PICK b \in Nat : pos[j - 1] = b * Room(n[j].depth)
    BY <2>1 DEF Placed
  <2>5. pos[j] = pos[j - 1] + Room(n[j].depth)
    BY <2>1 DEF Placed
  <2>6. \A c, d, r \in Nat : d * ((2 * c) * r) + (2 * c) * r = (2 * ((d + 1) * c)) * r
    OBVIOUS
  <2>7. pos[j] = (2 * ((b + 1) * a)) * Room(n[k].depth) /\ (b + 1) * a \in Nat
    <3> HIDE DEF j
    <3> QED
      BY <1>1, <2>3, <2>4, <2>5, <2>6
  <2> QED
    BY <2>7
<1> QED
  BY <1>1, <1>2, <1>3

(* What comes after a first half is at least as deep ... *)
LEMMA NextIsAsDeep ==
    ASSUME NEW n \in Seq(Digits), NEW pos, Placed(n, pos), NEW k \in 1 .. Len(n), k < Len(n),
           k > 1 => n[k - 1].depth < n[k].depth
    PROVE  n[k].depth <= n[k + 1].depth
<1>1. Len(n) \in Nat /\ k + 1 \in 1 .. Len(n)
  BY DigitsAre
<1>2. /\ n[k].depth \in 0 .. Nested /\ Room(n[k].depth) \in Nat \ {0}
      /\ n[k + 1].depth \in 0 .. Nested
  BY <1>1, DigitsAre
<1>3. SUFFICES ASSUME n[k + 1].depth < n[k].depth PROVE FALSE
  BY <1>2
<1>4. PICK a \in Nat : Room(n[k + 1].depth) = (2 * a) * Room(n[k].depth)
  BY <1>2, <1>3, Rooms
<1>5. PICK b \in Nat : pos[k] = b * Room(n[k + 1].depth)
  <2>1. \E b \in Nat : pos[(k + 1) - 1] = b * Room(n[k + 1].depth)
    BY <1>1 DEF Placed
  <2> QED
    BY <2>1, (k + 1) - 1 = k
<1>6. PICK m \in Nat : pos[k - 1] = (2 * m) * Room(n[k].depth)
  BY EvenBefore
<1>7. pos[k] = pos[k - 1] + Room(n[k].depth)
  BY DEF Placed
<1>8. \A x, r \in Nat : (2 * x) * r + r = (2 * x + 1) * r
  OBVIOUS
<1>9. \A c, d, r \in Nat : d * ((2 * c) * r) = (2 * (d * c)) * r
  OBVIOUS
<1>10. (2 * m + 1) * Room(n[k].depth) = (2 * (b * a)) * Room(n[k].depth) /\ b * a \in Nat
  BY <1>2, <1>4, <1>5, <1>6, <1>7, <1>8, <1>9
<1> QED
  BY <1>2, <1>10, OddIsNotEven

(* ... and nothing comes after it only if it is the whole number. *)
LEMMA LastIsSecond ==
    ASSUME NEW n \in Seq(Digits), NEW pos, Placed(n, pos), NEW k \in 1 .. Len(n), k = Len(n),
           k > 1 => n[k - 1].depth < n[k].depth
    PROVE  n[k].depth = 0
<1>1. n[k].depth \in 0 .. Nested /\ Room(n[k].depth) \in Nat \ {0}
  BY DigitsAre
<1>2. SUFFICES ASSUME 0 < n[k].depth PROVE FALSE
  BY <1>1
<1>3. PICK a \in Nat : Room(0) = (2 * a) * Room(n[k].depth)
  <2>1. 0 \in 0 .. Nested
    BY Rooms
  <2> QED
    BY <1>1, <1>2, <2>1, Rooms
<1>4. PICK m \in Nat : pos[k - 1] = (2 * m) * Room(n[k].depth)
  BY EvenBefore
<1>5. pos[k] = pos[k - 1] + Room(n[k].depth) /\ pos[k] = Room(0)
  BY Rooms DEF Placed
<1>6. \A x, r \in Nat : (2 * x) * r + r = (2 * x + 1) * r
  OBVIOUS
<1>7. (2 * m + 1) * Room(n[k].depth) = (2 * a) * Room(n[k].depth)
  BY <1>1, <1>3, <1>4, <1>5, <1>6
<1> QED
  BY <1>1, <1>7, OddIsNotEven

(* Only a number that is one digit has a digit outside of all pairs. *)
LEMMA NotInPairs ==
    ASSUME NEW n \in Seq(Digits), NEW pos, Placed(n, pos), NEW k \in 1 .. Len(n),
           n[k].depth = 0
    PROVE  Len(n) = 1
<1>1. Len(n) \in Nat /\ k - 1 \in 0 .. Len(n) /\ k \in 0 .. Len(n) /\ Len(n) \in 0 .. Len(n) /\ 0 \in 0 .. Len(n)
  BY DigitsAre
<1>2. /\ pos[0] + ((k - 1) - 0) <= pos[k - 1]
      /\ pos[k] + (Len(n) - k) <= pos[Len(n)]
  BY <1>1, PlacesGrow
<1>3. /\ pos[k] = pos[k - 1] + Room(0) /\ Room(0) \in Nat
      /\ pos[0] = 0 /\ pos[Len(n)] = Room(0)
      /\ pos[k] \in Nat /\ pos[k - 1] \in Nat
  <2>1. pos[k] = pos[k - 1] + Room(n[k].depth)
    BY DEF Placed
  <2>2. Room(n[k].depth) = Room(0)
    OBVIOUS
  <2>3. Room(0) \in Nat /\ Room(0) = F!Size[Nested]
    BY Rooms
  <2>4. pos[0] = 0 /\ pos[Len(n)] = F!Size[Nested] /\ pos[k] \in Nat /\ pos[k - 1] \in Nat
    BY <1>1 DEF Placed
  <2> QED
    BY <2>1, <2>2, <2>3, <2>4
<1>4. \A l, x, a, b, r \in Nat :
          x - 1 <= a /\ b + (l - x) <= r /\ b = a + r /\ x >= 1 /\ x <= l => l = 1
  OBVIOUS
<1>5. k \in Nat /\ k >= 1 /\ k <= Len(n)
  BY <1>1
<1>6. k - 1 <= pos[k - 1]
  BY <1>2, <1>3, <1>5
<1>7. pos[k] + (Len(n) - k) <= Room(0)
  BY <1>2, <1>3
<1> QED
  BY <1>1, <1>3, <1>4, <1>5, <1>6, <1>7

-----------------------------------------------------------------------------
(* What the rules do to the places.                                          *)

(* Two neighbours that are a pair may become one digit a level up. *)
LEMMA PairBecomesDigit ==
    ASSUME NEW n, Tree(n), NEW k \in 1 .. Len(n), k < Len(n),
           k > 1 => n[k - 1].depth < n[k].depth,
           n[k].depth > 0, n[k + 1].depth = n[k].depth,
           NEW r \in Seq(Digits), Len(r) = Len(n) - 1,
           \A j \in 1 .. k - 1 : r[j].depth = n[j].depth,
           r[k].depth = n[k].depth - 1,
           \A j \in k + 1 .. Len(r) : r[j].depth = n[j + 1].depth
    PROVE  Tree(r)
<1>1. PICK pos : n \in Seq(Digits) /\ Placed(n, pos)
  BY DEF Tree
<1> DEFINE L == Len(n)
           new == [j \in 0 .. L - 1 |-> IF j < k THEN pos[j] ELSE pos[j + 1]]
<1>2. L \in Nat /\ k \in Nat /\ k >= 1 /\ k + 1 <= L /\ Len(r) = L - 1
  BY <1>1, DigitsAre
<1>3. \A j \in 0 .. L : pos[j] \in Nat
  BY <1>1 DEF Placed
<1>4. pos[0] = 0 /\ pos[L] = F!Size[Nested]
  BY <1>1 DEF Placed
<1>5. \A j \in 1 .. L : /\ pos[j] = pos[j - 1] + Room(n[j].depth)
                        /\ \E m \in Nat : pos[j - 1] = m * Room(n[j].depth)
  BY <1>1 DEF Placed
<1>6. \A j \in 1 .. L : n[j].depth \in 0 .. Nested /\ Room(n[j].depth) \in Nat
  BY <1>1, DigitsAre
<1>7. /\ n[k].depth \in 1 .. Nested
      /\ Room(n[k].depth - 1) = 2 * Room(n[k].depth)
  <2>1. n[k].depth \in 1 .. Nested
    BY <1>2, <1>6
  <2>2. Nested \in Nat
    BY Rooms
  <2>3. \A d \in 1 .. Nested : d - 1 \in 0 .. Nested - 1 /\ (d - 1) + 1 = d
    BY <2>2
  <2>4. \A d \in 0 .. Nested - 1 : Room(d) = 2 * Room(d + 1)
    BY Rooms
  <2>5. \A d \in 1 .. Nested : Room(d - 1) = 2 * Room(d)
    BY <2>3, <2>4
  <2> QED
    BY <2>1, <2>5
<1>8. PICK m \in Nat : pos[k - 1] = (2 * m) * Room(n[k].depth)
  BY <1>1, EvenBefore
<1>9. /\ \A j \in 0 .. k - 1 : new[j] = pos[j]
      /\ \A j \in k .. L - 1 : new[j] = pos[j + 1]
      /\ new \in [0 .. L - 1 -> Nat]
  BY <1>2, <1>3
<1> HIDE DEF new
<1>10. /\ new[k] = new[k - 1] + Room(r[k].depth)
       /\ new[k - 1] = m * Room(r[k].depth)
  <2>1. new[k] = pos[k + 1] /\ new[k - 1] = pos[k - 1]
    BY <1>2, <1>9
  <2>2. pos[k + 1] = pos[k] + Room(n[k].depth) /\ pos[k] = pos[k - 1] + Room(n[k].depth)
    <3>1. k + 1 \in 1 .. L /\ (k + 1) - 1 = k /\ n[k + 1].depth = n[k].depth
      BY <1>2
    <3>2. pos[k + 1] = pos[(k + 1) - 1] + Room(n[k + 1].depth)
      BY <1>5, <3>1
    <3> QED
      BY <1>5, <3>1, <3>2
  <2>3. \A x, y \in Nat : (2 * x) * y = x * (2 * y) /\ y + y = 2 * y
    OBVIOUS
  <2>4. Room(r[k].depth) = 2 * Room(n[k].depth) /\ Room(n[k].depth) \in Nat
    BY <1>2, <1>6, <1>7
  <2>5. pos[k - 1] \in Nat
    BY <1>2, <1>3
  <2>6. pos[k + 1] = pos[k - 1] + 2 * Room(n[k].depth)
    BY <2>2, <2>4, <2>5
  <2>7. pos[k - 1] = m * (2 * Room(n[k].depth))
    BY <1>8, <2>3, <2>4
  <2> QED
    BY <2>1, <2>4, <2>6, <2>7
<1>11. ASSUME NEW j \in 1 .. L - 1
       PROVE  /\ new[j] = new[j - 1] + Room(r[j].depth)
              /\ \E a \in Nat : new[j - 1] = a * Room(r[j].depth)
  <2>1. CASE j < k
    <3>1. j \in 1 .. k - 1 /\ j \in 0 .. k - 1 /\ j - 1 \in 0 .. k - 1 /\ j \in 1 .. L
      BY <1>2, <2>1
    <3> QED
      BY <1>5, <1>9, <3>1
  <2>2. CASE j = k
    BY <1>10, <2>2
  <2>3. CASE j > k
    <3>1. j \in k .. L - 1 /\ j - 1 \in k .. L - 1 /\ j \in k + 1 .. Len(r)
      BY <1>2, <2>3
    <3>2. j + 1 \in 1 .. L /\ (j + 1) - 1 = j /\ (j - 1) + 1 = j
      BY <1>2
    <3>3. r[j].depth = n[j + 1].depth /\ new[j] = pos[j + 1] /\ new[j - 1] = pos[j]
      BY <1>9, <3>1, <3>2
    <3>4. /\ pos[j + 1] = pos[(j + 1) - 1] + Room(n[j + 1].depth)
          /\ \E a \in Nat : pos[(j + 1) - 1] = a * Room(n[j + 1].depth)
      BY <1>5, <3>2
    <3> QED
      BY <3>2, <3>3, <3>4
  <2> QED
    BY <1>2, <2>1, <2>2, <2>3
<1>12. new[0] = 0 /\ new[L - 1] = F!Size[Nested]
  BY <1>2, <1>4, <1>9
<1> HIDE DEF L
<1>13. Placed(r, new)
  BY <1>2, <1>9, <1>11, <1>12 DEF Placed
<1> QED
  BY <1>13 DEF Tree

(* A digit may become a pair a level down. *)
LEMMA DigitBecomesPair ==
    ASSUME NEW n, Tree(n), NEW k \in 1 .. Len(n), n[k].depth < Nested,
           NEW r \in Seq(Digits), Len(r) = Len(n) + 1,
           \A j \in 1 .. k - 1 : r[j].depth = n[j].depth,
           r[k].depth = n[k].depth + 1, r[k + 1].depth = n[k].depth + 1,
           \A j \in k + 2 .. Len(r) : r[j].depth = n[j - 1].depth
    PROVE  Tree(r)
<1>1. PICK pos : n \in Seq(Digits) /\ Placed(n, pos)
  BY DEF Tree
<1> DEFINE L == Len(n)
           half == Room(n[k].depth + 1)
           new == [j \in 0 .. L + 1 |-> IF j < k THEN pos[j]
                                        ELSE IF j = k THEN pos[k - 1] + half
                                        ELSE pos[j - 1]]
<1>2. L \in Nat /\ k \in Nat /\ k >= 1 /\ k <= L /\ Len(r) = L + 1
  BY <1>1, DigitsAre
<1>3. \A j \in 0 .. L : pos[j] \in Nat
  BY <1>1 DEF Placed
<1>4. pos[0] = 0 /\ pos[L] = F!Size[Nested]
  BY <1>1 DEF Placed
<1>5. \A j \in 1 .. L : /\ pos[j] = pos[j - 1] + Room(n[j].depth)
                        /\ \E m \in Nat : pos[j - 1] = m * Room(n[j].depth)
  BY <1>1 DEF Placed
<1>6. Room(n[k].depth) = 2 * half /\ half \in Nat
  <2>1. n[k].depth \in 0 .. Nested
    BY <1>1, DigitsAre
  <2>2. n[k].depth \in 0 .. Nested - 1 /\ n[k].depth + 1 \in 0 .. Nested
    <3>1. Nested \in Nat
      BY Rooms
    <3>2. \A d \in 0 .. Nested : d < Nested => d \in 0 .. Nested - 1 /\ d + 1 \in 0 .. Nested
      BY <3>1
    <3> QED
      BY <2>1, <3>2
  <2> QED
    BY <2>2, Rooms
<1> HIDE DEF half
<1>7. /\ \A j \in 0 .. k - 1 : new[j] = pos[j]
      /\ new[k] = pos[k - 1] + half
      /\ \A j \in k + 1 .. L + 1 : new[j] = pos[j - 1]
  BY <1>2
<1>8. new \in [0 .. L + 1 -> Nat]
  <2>1. ASSUME NEW j \in 0 .. L + 1
        PROVE  (IF j < k THEN pos[j] ELSE IF j = k THEN pos[k - 1] + half ELSE pos[j - 1]) \in Nat
    <3>1. k - 1 \in 0 .. L /\ (j < k => j \in 0 .. L) /\ (j > k => j - 1 \in 0 .. L)
      BY <1>2
    <3>2. pos[k - 1] + half \in Nat
      BY <1>3, <1>6, <3>1
    <3> QED
      BY <1>2, <1>3, <3>1, <3>2
  <2> QED
    BY <2>1
<1> HIDE DEF new
<1>9. PICK m \in Nat : pos[k - 1] = m * Room(n[k].depth)
  BY <1>5
<1>10. pos[k - 1] \in Nat /\ pos[k] = pos[k - 1] + 2 * half
  BY <1>2, <1>3, <1>5, <1>6
<1>11. \A x, y \in Nat : x * (2 * y) = (2 * x) * y /\ (2 * x) * y + y = (2 * x + 1) * y
  OBVIOUS
<1>12. /\ new[k] = new[k - 1] + half /\ new[k - 1] = (2 * m) * half
       /\ new[k + 1] = new[k] + half /\ new[k] = (2 * m + 1) * half
  <2>1. new[k - 1] = pos[k - 1] /\ new[k] = pos[k - 1] + half /\ new[k + 1] = pos[k]
    BY <1>2, <1>7
  <2>2. pos[k - 1] = (2 * m) * half
    BY <1>6, <1>9, <1>11
  <2> QED
    BY <1>6, <1>10, <1>11, <2>1, <2>2
<1>13. ASSUME NEW j \in 1 .. L + 1
       PROVE  /\ new[j] = new[j - 1] + Room(r[j].depth)
              /\ \E a \in Nat : new[j - 1] = a * Room(r[j].depth)
  <2>1. CASE j < k
    <3>1. j \in 1 .. k - 1 /\ j \in 0 .. k - 1 /\ j - 1 \in 0 .. k - 1 /\ j \in 1 .. L
      BY <1>2, <2>1
    <3> QED
      BY <1>5, <1>7, <3>1
  <2>2. CASE j = k
    <3>1. Room(r[j].depth) = half /\ 2 * m \in Nat
      BY <2>2 DEF half
    <3> QED
      BY <1>12, <2>2, <3>1
  <2>3. CASE j = k + 1
    <3>1. Room(r[j].depth) = half /\ 2 * m + 1 \in Nat /\ j - 1 = k
      BY <1>2, <2>3 DEF half
    <3> QED
      BY <1>12, <2>3, <3>1
  <2>4. CASE j > k + 1
    <3>1. j \in k + 1 .. L + 1 /\ j - 1 \in k + 1 .. L + 1 /\ j \in k + 2 .. Len(r) /\ j - 1 \in 1 .. L
      BY <1>2, <2>4
    <3>2. r[j].depth = n[j - 1].depth /\ new[j] = pos[j - 1] /\ new[j - 1] = pos[(j - 1) - 1]
      BY <1>7, <3>1
    <3>3. /\ pos[j - 1] = pos[(j - 1) - 1] + Room(n[j - 1].depth)
          /\ \E a \in Nat : pos[(j - 1) - 1] = a * Room(n[j - 1].depth)
      BY <1>5, <3>1
    <3> QED
      BY <3>2, <3>3
  <2> QED
    BY <1>2, <2>1, <2>2, <2>3, <2>4
<1>14. new[0] = 0 /\ new[L + 1] = F!Size[Nested]
  <2>1. 0 \in 0 .. k - 1 /\ L + 1 \in k + 1 .. L + 1 /\ (L + 1) - 1 = L
    BY <1>2
  <2> QED
    BY <1>4, <1>7, <2>1
<1> HIDE DEF L
<1>15. Placed(r, new)
  BY <1>2, <1>8, <1>13, <1>14 DEF Placed
<1> QED
  BY <1>15 DEF Tree

(* A number without too deep digits fills half of the places if it goes a     *)
(* level down.                                                               *)
Halved(n, half) ==
    /\ half \in [0 .. Len(n) -> Nat]
    /\ half[0] = 0
    /\ half[Len(n)] = Room(1)
    /\ \A k \in 1 .. Len(n) : half[k] = half[k - 1] + Room(n[k].depth + 1)
    /\ \A k \in 1 .. Len(n) : \E m \in Nat : half[k - 1] = m * Room(n[k].depth + 1)

(* An equation of even numbers is halved. *)
LEMMA HalfOfSum == \A x, y, z \in Nat : 2 * x = 2 * y + 2 * z => x = y + z
OBVIOUS

(* The places are halved. *)
LEMMA PlacesHalve ==
    ASSUME NEW n, Tree(n), \A k \in 1 .. Len(n) : n[k].depth < Nested
    PROVE  \E half : Halved(n, half)
<1>1. PICK pos : n \in Seq(Digits) /\ Placed(n, pos)
  BY DEF Tree
<1> DEFINE L == Len(n)
           down(k) == Room(n[k].depth + 1)
           half == [j \in 0 .. L |-> CHOOSE h \in Nat : pos[j] = 2 * h]
<1>2. L \in Nat /\ Nested \in Nat
  BY <1>1, DigitsAre, Rooms
<1>3. \A k \in 1 .. L : Room(n[k].depth) = 2 * down(k) /\ down(k) \in Nat
  <2>1. \A k \in 1 .. L : n[k].depth \in 0 .. Nested /\ n[k].depth < Nested
    BY <1>1, DigitsAre
  <2>2. \A d \in 0 .. Nested : d < Nested => d \in 0 .. Nested - 1 /\ d + 1 \in 0 .. Nested
    BY <1>2
  <2>3. \A d \in 0 .. Nested : d < Nested => Room(d) = 2 * Room(d + 1) /\ Room(d + 1) \in Nat
    BY <2>2, Rooms
  <2> QED
    BY <2>1, <2>3
<1> HIDE DEF down
<1>4. /\ \A j \in 0 .. L : pos[j] \in Nat
      /\ pos[0] = 0 /\ pos[L] = F!Size[Nested]
      /\ \A k \in 1 .. L : pos[k] = pos[k - 1] + Room(n[k].depth)
      /\ \A k \in 1 .. L : \E m \in Nat : pos[k - 1] = m * Room(n[k].depth)
  BY <1>1 DEF Placed
<1>5. ASSUME NEW j \in 0 .. L PROVE \E h \in Nat : pos[j] = 2 * h
  <2>1. CASE j = 0
    <3>1. pos[j] = 2 * 0
      BY <1>4, <2>1
    <3> QED
      BY <3>1
  <2>2. CASE j # 0
    <3>1. j \in 1 .. L
      BY <1>2, <2>2
    <3>2. PICK m \in Nat : pos[j - 1] = m * Room(n[j].depth)
      BY <1>4, <3>1
    <3>3. pos[j] = m * (2 * down(j)) + 2 * down(j)
      BY <1>3, <1>4, <3>1, <3>2
    <3>4. \A x, y \in Nat : x * (2 * y) + 2 * y = 2 * ((x + 1) * y) /\ (x + 1) * y \in Nat
      OBVIOUS
    <3>5. down(j) \in Nat
      BY <1>3, <3>1
    <3>6. pos[j] = 2 * ((m + 1) * down(j)) /\ (m + 1) * down(j) \in Nat
      BY <3>3, <3>4, <3>5
    <3> QED
      BY <3>6
  <2> QED
    BY <2>1, <2>2
<1>6. \A j \in 0 .. L : half[j] \in Nat /\ pos[j] = 2 * half[j]
  BY <1>5
<1>7. half \in [0 .. L -> Nat]
  BY <1>6
<1> HIDE DEF half
<1>8. half[0] = 0
  <2>1. 0 \in 0 .. L
    BY <1>2
  <2> QED
    BY <1>4, <1>6, <2>1
<1>9. half[L] = Room(1)
  <2>1. L \in 0 .. L
    BY <1>2
  <2>2. F!Size[Nested] = 2 * Room(1) /\ Room(1) \in Nat
    <3>1. 0 \in 0 .. Nested - 1 /\ 1 \in 0 .. Nested /\ 0 + 1 = 1
      BY InputAssumption
    <3>2. Room(0) = 2 * Room(0 + 1) /\ Room(0) = F!Size[Nested]
      BY <3>1, Rooms
    <3>3. Room(1) \in Nat
      BY <3>1, Rooms
    <3> QED
      BY <3>1, <3>2, <3>3
  <2> QED
    BY <1>4, <1>6, <2>1, <2>2
<1>10. ASSUME NEW k \in 1 .. L
       PROVE  half[k] = half[k - 1] + down(k) /\ \E m \in Nat : half[k - 1] = m * down(k)
  <2>1. k \in 0 .. L /\ k - 1 \in 0 .. L
    BY <1>2
  <2>2. PICK m \in Nat : pos[k - 1] = m * Room(n[k].depth)
    BY <1>4
  <2>3. /\ pos[k - 1] = m * (2 * down(k)) /\ down(k) \in Nat
        /\ pos[k] = pos[k - 1] + 2 * down(k)
    BY <1>3, <1>4, <2>2
  <2>4. \A x, y \in Nat : x * (2 * y) = 2 * (x * y) /\ x * y \in Nat
    OBVIOUS
  <2>5. /\ half[k] \in Nat /\ half[k - 1] \in Nat
        /\ 2 * half[k] = 2 * half[k - 1] + 2 * down(k)
        /\ 2 * half[k - 1] = 2 * (m * down(k))
    BY <1>6, <2>1, <2>3, <2>4
  <2>6. \A x, y \in Nat : 2 * x = 2 * y => x = y
    OBVIOUS
  <2>7. half[k] = half[k - 1] + down(k)
    <3>1. down(k) \in Nat /\ half[k] \in Nat /\ half[k - 1] \in Nat
      BY <2>3, <2>5
    <3>2. 2 * half[k] = 2 * half[k - 1] + 2 * down(k)
      BY <2>5
    <3> HIDE DEF half, down
    <3> QED
      BY <3>1, <3>2, HalfOfSum
  <2>8. half[k - 1] = m * down(k)
    <3>1. m * down(k) \in Nat /\ half[k - 1] \in Nat
      BY <2>3, <2>4, <2>5
    <3> QED
      BY <2>5, <2>6, <3>1
  <2> QED
    BY <2>7, <2>8
<1> HIDE DEF L
<1>11. Halved(n, half)
  BY <1>7, <1>8, <1>9, <1>10 DEF Halved, L, down
<1> QED
  BY <1>11

(* Two numbers without too deep digits may become a pair. *)
LEMMA TwoBecomePair ==
    ASSUME NEW a, Tree(a), \A k \in 1 .. Len(a) : a[k].depth < Nested,
           NEW b, Tree(b), \A k \in 1 .. Len(b) : b[k].depth < Nested,
           NEW r \in Seq(Digits), Len(r) = Len(a) + Len(b),
           \A j \in 1 .. Len(a) : r[j].depth = a[j].depth + 1,
           \A j \in Len(a) + 1 .. Len(r) : r[j].depth = b[j - Len(a)].depth + 1
    PROVE  Tree(r)
<1>1. PICK left : Halved(a, left)
  BY PlacesHalve
<1>2. PICK right : Halved(b, right)
  BY PlacesHalve
<1> DEFINE A == Len(a)
           B == Len(b)
           new == [j \in 0 .. A + B |-> IF j <= A THEN left[j] ELSE Room(1) + right[j - A]]
<1>3. a \in Seq(Digits) /\ b \in Seq(Digits) /\ A \in Nat /\ B \in Nat /\ Len(r) = A + B
  BY DigitsAre DEF Tree
<1>4. /\ \A j \in 0 .. A : left[j] \in Nat
      /\ left[0] = 0 /\ left[A] = Room(1)
      /\ \A k \in 1 .. A : left[k] = left[k - 1] + Room(a[k].depth + 1)
      /\ \A k \in 1 .. A : \E m \in Nat : left[k - 1] = m * Room(a[k].depth + 1)
  BY <1>1 DEF Halved
<1>5. /\ \A j \in 0 .. B : right[j] \in Nat
      /\ right[0] = 0 /\ right[B] = Room(1)
      /\ \A k \in 1 .. B : right[k] = right[k - 1] + Room(b[k].depth + 1)
      /\ \A k \in 1 .. B : \E m \in Nat : right[k - 1] = m * Room(b[k].depth + 1)
  BY <1>2 DEF Halved
<1>6. /\ 0 \in 0 .. Nested - 1 /\ 1 \in 0 .. Nested /\ 0 + 1 = 1
      /\ Room(1) \in Nat /\ F!Size[Nested] = 2 * Room(1)
  <2>1. 0 \in 0 .. Nested - 1 /\ 1 \in 0 .. Nested /\ 0 + 1 = 1
    BY InputAssumption
  <2>2. Room(0) = 2 * Room(0 + 1) /\ Room(0) = F!Size[Nested] /\ Room(1) \in Nat
    BY <2>1, Rooms
  <2> QED
    BY <2>1, <2>2
<1>7. /\ \A j \in 0 .. A : new[j] = left[j]
      /\ \A j \in A .. A + B : new[j] = Room(1) + right[j - A]
  <2>1. \A j \in 0 .. A : new[j] = left[j]
    BY <1>3
  <2>2. \A j \in A + 1 .. A + B : new[j] = Room(1) + right[j - A]
    BY <1>3
  <2>3. new[A] = Room(1) + right[A - A]
    BY <1>3, <1>4, <1>5, <1>6, <2>1
  <2>4. \A j \in A .. A + B : j = A \/ j \in A + 1 .. A + B
    BY <1>3
  <2> HIDE DEF new, A, B
  <2> QED
    BY <2>1, <2>2, <2>3, <2>4
<1>8. new \in [0 .. A + B -> Nat]
  <2>1. ASSUME NEW j \in 0 .. A + B
        PROVE  (IF j <= A THEN left[j] ELSE Room(1) + right[j - A]) \in Nat
    <3>1. CASE j <= A
      <4>1. j \in 0 .. A
        BY <1>3, <3>1
      <4> QED
        BY <1>4, <3>1, <4>1
    <3>2. CASE ~ (j <= A)
      <4>1. j - A \in 0 .. B
        BY <1>3, <3>2
      <4>2. right[j - A] \in Nat
        BY <1>5, <4>1
      <4> QED
        BY <1>6, <3>2, <4>2
    <3> QED
      BY <3>1, <3>2
  <2> QED
    BY <2>1
<1> HIDE DEF new
<1>9. \A k \in 1 .. B : \E m \in Nat : Room(1) + right[k - 1] = m * Room(b[k].depth + 1)
  <2> TAKE k \in 1 .. B
  <2> DEFINE d == b[k].depth + 1
  <2>1. PICK m \in Nat : right[k - 1] = m * Room(d)
    BY <1>5
  <2>2. d \in 1 .. Nested
    <3>1. b[k].depth \in 0 .. Nested /\ b[k].depth < Nested /\ Nested \in Nat
      BY <1>3, DigitsAre, Rooms
    <3>2. \A c \in 0 .. Nested : c < Nested => c + 1 \in 1 .. Nested
      BY <3>1
    <3> QED
      BY <3>1, <3>2
  <2>3. d \in 0 .. Nested /\ Room(d) \in Nat
    <3>1. \A c \in 1 .. Nested : c \in 0 .. Nested
      BY InputAssumption
    <3> HIDE DEF d
    <3> QED
      BY <2>2, <3>1, Rooms
  <2> HIDE DEF d
  <2>4. PICK x \in Nat : Room(1) = x * Room(d)
    <3>1. CASE d = 1
      <4>1. Room(1) = 1 * Room(d)
        BY <1>6, <3>1
      <4> QED
        BY <4>1
    <3>2. CASE d # 1
      <4>1. 1 < d
        BY <2>2, <3>2
      <4>2. PICK y \in Nat : Room(1) = (2 * y) * Room(d)
        BY <1>6, <2>3, <4>1, Rooms
      <4> QED
        BY <4>2, 2 * y \in Nat
    <3> QED
      BY <3>1, <3>2
  <2>5. \A u, v, w \in Nat : u * w + v * w = (u + v) * w
    OBVIOUS
  <2>6. Room(1) + right[k - 1] = (x + m) * Room(d)
    BY <2>1, <2>3, <2>4, <2>5
  <2> QED
    BY <2>6 DEF d
<1>10. ASSUME NEW j \in 1 .. A + B
       PROVE  /\ new[j] = new[j - 1] + Room(r[j].depth)
              /\ \E m \in Nat : new[j - 1] = m * Room(r[j].depth)
  <2>1. CASE j <= A
    <3>1. j \in 1 .. A /\ j \in 0 .. A /\ j - 1 \in 0 .. A
      BY <1>3, <2>1
    <3>2. new[j] = left[j] /\ new[j - 1] = left[j - 1] /\ r[j].depth = a[j].depth + 1
      BY <1>7, <3>1
    <3> QED
      BY <1>4, <3>1, <3>2
  <2>2. CASE j > A
    <3> DEFINE k == j - A
    <3>1. /\ k \in 1 .. B /\ j \in A .. A + B /\ j - 1 \in A .. A + B
          /\ j \in Len(a) + 1 .. Len(r) /\ (j - 1) - A = k - 1
      BY <1>3, <2>2
    <3>2. /\ new[j] = Room(1) + right[k]
          /\ new[j - 1] = Room(1) + right[k - 1]
          /\ r[j].depth = b[k].depth + 1
      BY <1>7, <3>1
    <3>3. /\ right[k] \in Nat /\ right[k - 1] \in Nat
          /\ right[k] = right[k - 1] + Room(b[k].depth + 1)
      <4>1. k \in 0 .. B /\ k - 1 \in 0 .. B
        BY <1>3, <3>1
      <4> HIDE DEF k
      <4> QED
        BY <1>5, <3>1, <4>1
    <3>4. Room(b[k].depth + 1) \in Nat
      <4>1. b[k].depth \in 0 .. Nested /\ b[k].depth < Nested /\ Nested \in Nat
        BY <1>3, <3>1, DigitsAre, Rooms
      <4>2. \A c \in 0 .. Nested : c < Nested => c + 1 \in 0 .. Nested
        BY <4>1
      <4> HIDE DEF k
      <4> QED
        BY <4>1, <4>2, Rooms
    <3> HIDE DEF k
    <3>5. new[j] = new[j - 1] + Room(r[j].depth)
      BY <1>6, <3>2, <3>3, <3>4
    <3>6. \E m \in Nat : new[j - 1] = m * Room(r[j].depth)
      BY <1>9, <3>1, <3>2
    <3> QED
      BY <3>5, <3>6
  <2> QED
    BY <1>3, <2>1, <2>2
<1>11. new[0] = 0 /\ new[A + B] = F!Size[Nested]
  <2>1. 0 \in 0 .. A /\ A + B \in A .. A + B /\ (A + B) - A = B
    BY <1>3
  <2> QED
    BY <1>4, <1>5, <1>6, <1>7, <2>1
<1> HIDE DEF A, B
<1>12. Placed(r, new)
  BY <1>3, <1>8, <1>10, <1>11 DEF Placed
<1> QED
  BY <1>12 DEF Tree

-----------------------------------------------------------------------------
(* The numbers of the input.                                                 *)

(* Filled is the function its equation describes. *)
LEMMA FilledUnfolds ==
    ASSUME NEW n \in Seq(Digits)
    PROVE  /\ F!Filled(n) = [k \in 0 .. Len(n) |-> F!Filled(n)[k]]
           /\ F!Filled(n)[0] = 0
           /\ \A k \in 1 .. Len(n) : F!Filled(n)[k] = F!Filled(n)[k - 1] + Room(n[k].depth)
<1> DEFINE L == Len(n)
           room(k) == F!Size[Nested - n[k].depth]
           Solves(f) == f = [k \in 0 .. L |-> IF k = 0 THEN 0 ELSE f[k - 1] + room(k)]
           step == [k \in Nat |-> [v \in Nat |-> v + IF k <= L THEN room(k) ELSE 0]]
<1>1. L \in Nat /\ \A k \in 1 .. L : room(k) = Room(n[k].depth) /\ room(k) \in Nat
  <2>1. \A k \in 1 .. L : room(k) = Room(n[k].depth)
    BY DEF Room
  <2>2. L \in Nat /\ \A k \in 1 .. L : Room(n[k].depth) \in Nat
    BY DigitsAre
  <2> HIDE DEF room, L
  <2> QED
    BY <2>1, <2>2
<1>2. F!Filled(n) = CHOOSE f : Solves(f)
  BY DEF F!Filled
<1> HIDE DEF room, L
<1>3. PICK f : Follows(0, step, f)
  <2> HIDE DEF step
  <2> QED
    BY Recursion
<1>4. ASSUME NEW k \in 1 .. L, f[k - 1] \in Nat PROVE f[k] = f[k - 1] + room(k)
  <2>1. k \in Nat \ {0} /\ k <= L
    BY <1>1
  <2>2. step[k][f[k - 1]] = f[k - 1] + room(k)
    BY <1>4, <2>1
  <2> HIDE DEF step
  <2> QED
    BY <1>3, <2>1, <2>2 DEF Follows
<1> HIDE DEF step
<1>5. \A k \in 0 .. L : f[k] \in Nat
  <2> DEFINE Bad == {k \in Nat : k <= L /\ f[k] \notin Nat}
  <2>1. SUFFICES ASSUME Bad # {} PROVE FALSE
    BY <1>1
  <2>2. PICK k \in Bad : \A j \in Bad : k <= j
    BY <2>1, LeastNumber
  <2>3. k # 0
    BY <1>3, <2>2 DEF Follows
  <2>4. k \in 1 .. L /\ f[k - 1] \in Nat
    BY <1>1, <2>2, <2>3
  <2> QED
    BY <1>1, <1>4, <2>2, <2>4
<1> DEFINE g == [k \in 0 .. L |-> f[k]]
<1>6. g[0] = 0 /\ \A k \in 1 .. L : g[k] = g[k - 1] + room(k)
  <2>1. f[0] = 0 /\ 0 \in 0 .. L
    BY <1>1, <1>3 DEF Follows
  <2>2. ASSUME NEW k \in 1 .. L PROVE g[k] = g[k - 1] + room(k)
    <3>1. k \in 0 .. L /\ k - 1 \in 0 .. L
      BY <1>1
    <3> QED
      BY <1>4, <1>5, <3>1
  <2> QED
    BY <2>1, <2>2
<1>7. g = [k \in 0 .. L |-> g[k]]
  OBVIOUS
<1> HIDE DEF g
<1>8. Solves(g)
  <2>1. \A k \in 0 .. L : g[k] = IF k = 0 THEN 0 ELSE g[k - 1] + room(k)
    <3>1. \A k \in 0 .. L : k = 0 \/ k \in 1 .. L
      BY <1>1
    <3> QED
      BY <1>6, <3>1
  <2> QED
    BY <1>7, <2>1
<1>9. Solves(CHOOSE h : Solves(h))
  BY <1>8
<1>10. Solves(F!Filled(n))
  BY <1>2, <1>9
<1> DEFINE h == F!Filled(n)
<1>11. /\ h = [k \in 0 .. L |-> h[k]]
       /\ h[0] = 0
       /\ \A k \in 1 .. L : h[k] = h[k - 1] + room(k)
  <2> DEFINE e(k) == IF k = 0 THEN 0 ELSE h[k - 1] + room(k)
  <2>1. h = [k \in 0 .. L |-> e(k)]
    BY <1>10
  <2> HIDE DEF e, h
  <2>2. \A k \in 0 .. L : h[k] = e(k)
    BY <2>1
  <2>3. 0 \in 0 .. L /\ \A k \in 1 .. L : k \in 0 .. L /\ k # 0
    BY <1>1
  <2> QED
    BY <2>1, <2>2, <2>3 DEF e
<1> QED
  BY <1>1, <1>11 DEF L

(* The digits of a number are placed as Filled says. *)
LEMMA NumberIsTree ==
    ASSUME NEW n, F!IsNumber(n)
    PROVE  Tree(n)
<1> DEFINE pos == F!Filled(n)
<1>1. /\ n \in Seq(Digits)
      /\ pos[Len(n)] = F!Size[Nested]
      /\ \A k \in 1 .. Len(n) :
            \E m \in 0 .. F!Size[n[k].depth] - 1 : pos[k - 1] = m * Room(n[k].depth)
  BY DEF F!IsNumber, Digits, Room
<1>2. /\ pos = [k \in 0 .. Len(n) |-> pos[k]]
      /\ pos[0] = 0
      /\ \A k \in 1 .. Len(n) : pos[k] = pos[k - 1] + Room(n[k].depth)
  BY <1>1, FilledUnfolds
<1> HIDE DEF pos
<1>3. Len(n) \in Nat
  BY <1>1, DigitsAre
<1>4. \A k \in 1 .. Len(n) : \E m \in Nat : pos[k - 1] = m * Room(n[k].depth)
  BY <1>1
<1>5. \A k \in 0 .. Len(n) : pos[k] \in Nat
  <2> DEFINE Bad == {k \in Nat : k <= Len(n) /\ pos[k] \notin Nat}
  <2>1. SUFFICES ASSUME Bad # {} PROVE FALSE
    BY <1>3
  <2>2. PICK k \in Bad : \A j \in Bad : k <= j
    BY <2>1, LeastNumber
  <2>3. k # 0
    BY <1>2, <2>2
  <2>4. k \in 1 .. Len(n) /\ pos[k - 1] \in Nat
    BY <1>3, <2>2, <2>3
  <2>5. Room(n[k].depth) \in Nat
    BY <1>1, <2>4, DigitsAre
  <2>6. pos[k] \in Nat
    BY <1>2, <2>4, <2>5
  <2> QED
    BY <2>2, <2>6
<1>6. pos \in [0 .. Len(n) -> Nat]
  BY <1>2, <1>5
<1>7. Placed(n, pos)
  BY <1>1, <1>2, <1>4, <1>6 DEF Placed
<1> QED
  BY <1>1, <1>7 DEF Tree

-----------------------------------------------------------------------------
(* The rules of Snailfish, digit by digit.                                   *)

(* A function on the first numbers is a sequence. *)
LEMMA IsSequence ==
    ASSUME NEW S, NEW l \in Nat, NEW s \in [1 .. l -> S]
    PROVE  s \in Seq(S) /\ Len(s) = l
<1>1. s \in Seq(S)
  BY SeqDef
<1>2. DOMAIN s = 1 .. Len(s) /\ Len(s) \in Nat
  BY <1>1, LenProperties
<1>3. DOMAIN s = 1 .. l
  OBVIOUS
<1>4. ASSUME NEW a \in Nat, NEW b \in Nat, 1 .. a = 1 .. b PROVE a = b
  <2>1. ~ (a < b) /\ ~ (b < a)
    <3>1. CASE a < b
      <4>1. b \in 1 .. b /\ b \notin 1 .. a
        BY <3>1
      <4> QED
        BY <1>4, <4>1
    <3>2. CASE b < a
      <4>1. a \in 1 .. a /\ a \notin 1 .. b
        BY <3>2
      <4> QED
        BY <1>4, <4>1
    <3> QED
      BY <3>1, <3>2
  <2> QED
    BY <2>1
<1> QED
  BY <1>1, <1>2, <1>3, <1>4

(* A digit and how it changes. *)
LEMMA DigitChanges ==
    /\ \A v \in Nat, d \in 0 .. Nested :
          /\ digit_t(v, d) \in Digits /\ digit_t(v, d) = F!Digit(v, d)
          /\ digit_t(v, d).value = v /\ digit_t(v, d).depth = d
    /\ \A x \in Digits, v \in Nat :
          /\ F!Plus(x, v) \in Digits
          /\ F!Plus(x, v).depth = x.depth /\ F!Plus(x, v).value = x.value + v
    /\ Zero \in Digits /\ Zero = F!Digit(0, Nested - 1) /\ Zero.depth = Nested - 1
<1>1. \A v \in Nat, d \in 0 .. Nested :
          /\ digit_t(v, d) \in Digits /\ digit_t(v, d) = F!Digit(v, d)
          /\ digit_t(v, d).value = v /\ digit_t(v, d).depth = d
  BY DEF Digits, digit_t, F!Digit
<1>2. ASSUME NEW x \in Digits, NEW v \in Nat
      PROVE  /\ F!Plus(x, v) \in Digits
             /\ F!Plus(x, v).depth = x.depth /\ F!Plus(x, v).value = x.value + v
  BY DEF Digits, F!Plus
<1>3. 0 \in Nat /\ Nested - 1 \in 0 .. Nested
  BY InputAssumption
<1> QED
  BY <1>1, <1>2, <1>3 DEF Zero

(* The leftmost is the one before which there is none. *)
LEMMA LeftmostIs ==
    ASSUME NEW S \in SUBSET Nat, NEW k \in S, \A l \in S : k <= l
    PROVE  F!Leftmost(S) = k
<1> DEFINE least(j) == j \in S /\ \A l \in S : j <= l
<1>1. least(k)
  OBVIOUS
<1>2. \A j : least(j) => j = k
  BY k \in Nat
<1>3. F!Leftmost(S) = CHOOSE j \in S : \A l \in S : j <= l
  BY DEF F!Leftmost
<1> QED
  BY <1>1, <1>2, <1>3

(* What an explosion leaves of each digit. *)
LEMMA ExplodedIs ==
    ASSUME NEW n \in Seq(Digits), NEW k \in 1 .. Len(n) - 1
    PROVE  LET r == F!ExplodedAt(n, k) IN
           /\ r \in Seq(Digits) /\ Len(r) = Len(n) - 1
           /\ \A j \in 1 .. k - 2 : r[j] = n[j]
           /\ k > 1 => r[k - 1] = F!Plus(n[k - 1], n[k].value)
           /\ r[k] = Zero
           /\ k + 1 < Len(n) => r[k + 1] = F!Plus(n[k + 2], n[k + 1].value)
           /\ \A j \in k + 2 .. Len(n) - 1 : r[j] = n[j + 1]
<1> DEFINE r == F!ExplodedAt(n, k)
           L == Len(n)
           e(j) == CASE j < k - 1 -> n[j]
                     [] j = k - 1 -> F!Plus(n[j], n[k].value)
                     [] j = k     -> F!Digit(0, Nested - 1)
                     [] j = k + 1 -> F!Plus(n[j + 1], n[k + 1].value)
                     [] j > k + 1 -> n[j + 1]
<1>1. r = [j \in 1 .. L - 1 |-> e(j)]
  BY DEF F!ExplodedAt
<1>2. L \in Nat /\ k \in Nat /\ k >= 1 /\ k + 1 <= L
  BY DigitsAre
<1>3. \A j \in 1 .. L : n[j] \in Digits /\ n[j].value \in Nat
  BY DigitsAre
<1>4. /\ \A j \in 1 .. k - 2 : e(j) = n[j]
      /\ k > 1 => e(k - 1) = F!Plus(n[k - 1], n[k].value)
      /\ e(k) = Zero
      /\ k + 1 < L => e(k + 1) = F!Plus(n[k + 2], n[k + 1].value)
      /\ \A j \in k + 2 .. L - 1 : e(j) = n[j + 1]
  <2>1. \A j \in 1 .. k - 2 : e(j) = n[j]
    BY <1>2
  <2>2. k > 1 => e(k - 1) = F!Plus(n[k - 1], n[k].value)
    BY <1>2
  <2>3. e(k) = Zero
    BY <1>2, DigitChanges
  <2>4. k + 1 < L => e(k + 1) = F!Plus(n[k + 2], n[k + 1].value)
    <3>1. e(k + 1) = F!Plus(n[(k + 1) + 1], n[k + 1].value)
      BY <1>2
    <3>2. (k + 1) + 1 = k + 2
      BY <1>2
    <3> QED
      BY <3>1, <3>2
  <2>5. \A j \in k + 2 .. L - 1 : e(j) = n[j + 1]
    BY <1>2
  <2> HIDE DEF e
  <2> QED
    BY <2>1, <2>2, <2>3, <2>4, <2>5
<1> HIDE DEF e
<1>5. ASSUME NEW j \in 1 .. L - 1 PROVE e(j) \in Digits
  <2>1. CASE j \in 1 .. k - 2
    <3>1. j \in 1 .. L
      BY <1>2
    <3> QED
      BY <1>3, <1>4, <2>1, <3>1
  <2>2. CASE j = k - 1
    <3>1. k - 1 \in 1 .. L /\ k \in 1 .. L /\ k > 1
      BY <1>2, <2>2
    <3>2. n[k - 1] \in Digits /\ n[k].value \in Nat
      BY <1>3, <3>1
    <3>3. F!Plus(n[k - 1], n[k].value) \in Digits
      BY <3>2, DigitChanges
    <3> QED
      BY <1>4, <2>2, <3>1, <3>3
  <2>3. CASE j = k
    BY <1>4, <2>3, DigitChanges
  <2>4. CASE j = k + 1
    <3>1. k + 2 \in 1 .. L /\ k + 1 \in 1 .. L /\ k + 1 < L
      BY <1>2, <2>4
    <3>2. n[k + 2] \in Digits /\ n[k + 1].value \in Nat
      BY <1>3, <3>1
    <3>3. F!Plus(n[k + 2], n[k + 1].value) \in Digits
      BY <3>2, DigitChanges
    <3> QED
      BY <1>4, <2>4, <3>1, <3>3
  <2>5. CASE j \in k + 2 .. L - 1
    <3>1. j + 1 \in 1 .. L
      BY <1>2
    <3> QED
      BY <1>3, <1>4, <2>5, <3>1
  <2> QED
    BY <1>2, <2>1, <2>2, <2>3, <2>4, <2>5
<1>6. r \in [1 .. L - 1 -> Digits] /\ L - 1 \in Nat
  BY <1>1, <1>2, <1>5
<1>7. r \in Seq(Digits) /\ Len(r) = L - 1
  BY <1>6, IsSequence
<1>8. \A j \in 1 .. L - 1 : r[j] = e(j)
  BY <1>1
<1> HIDE DEF r
<1>9. /\ \A j \in 1 .. k - 2 : r[j] = n[j]
      /\ k > 1 => r[k - 1] = F!Plus(n[k - 1], n[k].value)
      /\ r[k] = Zero
      /\ k + 1 < L => r[k + 1] = F!Plus(n[k + 2], n[k + 1].value)
      /\ \A j \in k + 2 .. L - 1 : r[j] = n[j + 1]
  <2>1. /\ \A j \in 1 .. k - 2 : j \in 1 .. L - 1
        /\ k > 1 => k - 1 \in 1 .. L - 1
        /\ k \in 1 .. L - 1
        /\ k + 1 < L => k + 1 \in 1 .. L - 1
        /\ \A j \in k + 2 .. L - 1 : j \in 1 .. L - 1
    BY <1>2
  <2> HIDE DEF L
  <2> QED
    BY <1>4, <1>8, <2>1
<1> QED
  BY <1>7, <1>9 DEF r, L

(* What a split leaves of each digit. *)
LEMMA SplitIs ==
    ASSUME NEW n \in Seq(Digits), NEW k \in 1 .. Len(n), n[k].depth < Nested
    PROVE  LET r == F!SplitAt(n, k)
               half == n[k].value \div 2
           IN
           /\ r \in Seq(Digits) /\ Len(r) = Len(n) + 1
           /\ half \in Nat /\ n[k].value - half \in Nat /\ n[k].depth + 1 \in 0 .. Nested
           /\ \A j \in 1 .. k - 1 : r[j] = n[j]
           /\ r[k] = digit_t(half, n[k].depth + 1)
           /\ r[k + 1] = digit_t(n[k].value - half, n[k].depth + 1)
           /\ \A j \in k + 2 .. Len(n) + 1 : r[j] = n[j - 1]
<1> DEFINE r == F!SplitAt(n, k)
           L == Len(n)
           half == n[k].value \div 2
           e(j) == CASE j < k     -> n[j]
                     [] j = k     -> F!Digit(half, n[k].depth + 1)
                     [] j = k + 1 -> F!Digit(n[k].value - half, n[k].depth + 1)
                     [] j > k + 1 -> n[j - 1]
<1>1. r = [j \in 1 .. L + 1 |-> e(j)]
  BY DEF F!SplitAt
<1>2. L \in Nat /\ k \in Nat /\ k >= 1 /\ k <= L
  BY DigitsAre
<1>3. \A j \in 1 .. L : n[j] \in Digits
  BY DigitsAre
<1>4. half \in Nat /\ n[k].value - half \in Nat /\ n[k].depth + 1 \in 0 .. Nested
  <2>1. n[k].value \in Nat /\ n[k].depth \in 0 .. Nested
    BY DigitsAre
  <2>2. \A v \in Nat : v \div 2 \in Nat /\ v - v \div 2 \in Nat
    OBVIOUS
  <2>3. \A d \in 0 .. Nested : d < Nested => d + 1 \in 0 .. Nested
    BY InputAssumption
  <2> QED
    BY <2>1, <2>2, <2>3
<1> HIDE DEF half
<1>5. /\ \A j \in 1 .. k - 1 : e(j) = n[j]
      /\ e(k) = digit_t(half, n[k].depth + 1)
      /\ e(k + 1) = digit_t(n[k].value - half, n[k].depth + 1)
      /\ \A j \in k + 2 .. L + 1 : e(j) = n[j - 1]
  <2>1. \A j \in 1 .. k - 1 : e(j) = n[j]
    BY <1>2
  <2>2. e(k) = digit_t(half, n[k].depth + 1)
    <3>1. ~ (k < k) /\ k # k + 1 /\ ~ (k > k + 1)
      BY <1>2
    <3>2. e(k) = F!Digit(half, n[k].depth + 1)
      BY <3>1
    <3> QED
      BY <3>2 DEF F!Digit, digit_t
  <2>3. e(k + 1) = digit_t(n[k].value - half, n[k].depth + 1)
    <3>1. ~ (k + 1 < k) /\ k + 1 # k /\ ~ (k + 1 > k + 1)
      BY <1>2
    <3>2. e(k + 1) = F!Digit(n[k].value - half, n[k].depth + 1)
      BY <3>1
    <3> QED
      BY <1>4, <3>2, DigitChanges
  <2>4. \A j \in k + 2 .. L + 1 : e(j) = n[j - 1]
    BY <1>2
  <2> HIDE DEF e
  <2> QED
    BY <2>1, <2>2, <2>3, <2>4
<1> HIDE DEF e
<1>6. ASSUME NEW j \in 1 .. L + 1 PROVE e(j) \in Digits
  <2>1. CASE j \in 1 .. k - 1
    <3>1. j \in 1 .. L
      BY <1>2, <2>1
    <3> QED
      BY <1>3, <1>5, <2>1, <3>1
  <2>5. /\ digit_t(half, n[k].depth + 1) \in Digits
        /\ digit_t(n[k].value - half, n[k].depth + 1) \in Digits
    <3> DEFINE rest == n[k].value - half
               deep == n[k].depth + 1
    <3>1. half \in Nat /\ rest \in Nat /\ deep \in 0 .. Nested
      BY <1>4
    <3> HIDE DEF rest, deep
    <3>2. digit_t(half, deep) \in Digits /\ digit_t(rest, deep) \in Digits
      BY <3>1, DigitChanges
    <3> QED
      BY <3>2 DEF rest, deep
  <2>2. CASE j = k
    BY <1>5, <2>2, <2>5
  <2>3. CASE j = k + 1
    BY <1>5, <2>3, <2>5
  <2>4. CASE j \in k + 2 .. L + 1
    <3>1. j - 1 \in 1 .. L
      BY <1>2, <2>4
    <3> QED
      BY <1>3, <1>5, <2>4, <3>1
  <2> QED
    BY <1>2, <2>1, <2>2, <2>3, <2>4
<1>7. r \in [1 .. L + 1 -> Digits] /\ L + 1 \in Nat
  BY <1>1, <1>2, <1>6
<1>8. r \in Seq(Digits) /\ Len(r) = L + 1
  BY <1>7, IsSequence
<1>9. \A j \in 1 .. L + 1 : r[j] = e(j)
  BY <1>1
<1> HIDE DEF r
<1>10. /\ \A j \in 1 .. k - 1 : r[j] = n[j]
       /\ r[k] = digit_t(half, n[k].depth + 1)
       /\ r[k + 1] = digit_t(n[k].value - half, n[k].depth + 1)
       /\ \A j \in k + 2 .. L + 1 : r[j] = n[j - 1]
  <2>1. /\ \A j \in 1 .. k - 1 : j \in 1 .. L + 1
        /\ k \in 1 .. L + 1 /\ k + 1 \in 1 .. L + 1
        /\ \A j \in k + 2 .. L + 1 : j \in 1 .. L + 1
    BY <1>2
  <2> HIDE DEF L
  <2> QED
    BY <1>5, <1>9, <2>1
<1> QED
  BY <1>4, <1>8, <1>10 DEF r, L, half

-----------------------------------------------------------------------------
(* The rules across the two buffers.                                         *)

(* The number that is in b and in d from i on. *)
Across(b, d, i0) == b \o SubSeq(d, i0, Len(d))

(* Its digits. *)
LEMMA AcrossIs ==
    ASSUME NEW b \in Seq(Digits), NEW d \in Seq(Digits), NEW j \in 1 .. Len(d) + 1
    PROVE  LET s == Across(b, d, j) IN
           /\ s \in Seq(Digits) /\ Len(b) \in Nat /\ Len(d) \in Nat
           /\ Len(s) = Len(b) + (Len(d) - j + 1)
           /\ \A k \in 1 .. Len(b) : s[k] = b[k]
           /\ \A k \in Len(b) + 1 .. Len(s) : /\ k - Len(b) + j - 1 \in j .. Len(d)
                                              /\ s[k] = d[k - Len(b) + j - 1]
<1> DEFINE B == Len(b)
           D == Len(d)
           t == SubSeq(d, j, D)
           s == b \o t
<1>1. B \in Nat /\ D \in Nat /\ j \in Nat /\ j >= 1 /\ j <= D + 1
  BY DigitsAre
<1>2. \A k \in j .. D : d[k] \in Digits
  <2>1. \A k \in 1 .. D : d[k] \in Digits
    BY DigitsAre
  <2> QED
    BY <1>1, <2>1
<1>3. /\ t \in Seq(Digits)
      /\ Len(t) = D - j + 1
      /\ \A k \in 1 .. D - j + 1 : t[k] = d[j + k - 1]
  <2>1. j \in Int /\ D \in Int
    BY <1>1
  <2> HIDE DEF D
  <2>2. /\ t \in Seq(Digits)
        /\ Len(t) = IF j <= D THEN D - j + 1 ELSE 0
        /\ \A k \in 1 .. D - j + 1 : t[k] = d[j + k - 1]
    BY <1>2, <2>1, SubSeqProperties
  <2> QED
    BY <1>1, <2>2
<1> HIDE DEF t
<1>4. /\ s \in Seq(Digits)
      /\ Len(s) = B + Len(t)
      /\ \A k \in 1 .. B + Len(t) : s[k] = IF k <= B THEN b[k] ELSE t[k - B]
  BY <1>3, ConcatProperties
<1> HIDE DEF s, B, D
<1>5. \A k \in 1 .. B : s[k] = b[k]
  BY <1>1, <1>3, <1>4
<1>6. ASSUME NEW k \in B + 1 .. Len(s)
      PROVE  k - B + j - 1 \in j .. D /\ s[k] = d[k - B + j - 1]
  <2>1. k - B \in 1 .. D - j + 1 /\ k \in 1 .. B + Len(t) /\ ~ (k <= B) /\ j + (k - B) - 1 = k - B + j - 1
    BY <1>1, <1>3, <1>4
  <2>2. s[k] = t[k - B]
    BY <1>4, <2>1
  <2>3. t[k - B] = d[j + (k - B) - 1]
    BY <1>3, <2>1
  <2> QED
    BY <1>1, <2>1, <2>2, <2>3
<1> QED
  BY <1>1, <1>3, <1>4, <1>5, <1>6 DEF Across, s, t, B, D

(* Adding to a digit. *)
LEMMA AddIs ==
    ASSUME NEW d \in Seq(Digits), NEW k \in Nat, NEW v \in Nat
    PROVE  /\ Add(d, k, v) \in Seq(Digits) /\ Len(Add(d, k, v)) = Len(d)
           /\ k \in 1 .. Len(d) => Add(d, k, v)[k] = F!Plus(d[k], v)
           /\ \A j \in 1 .. Len(d) : j # k => Add(d, k, v)[j] = d[j]
<1>1. DOMAIN d = 1 .. Len(d) /\ Len(d) \in Nat
  BY LenProperties
<1>2. CASE k \in 1 .. Len(d)
  <2>1. Add(d, k, v) = [d EXCEPT ![k] = F!Plus(d[k], v)]
    BY <1>1, <1>2 DEF Add, F!Plus
  <2>2. F!Plus(d[k], v) \in Digits
    BY <1>2, DigitsAre, DigitChanges
  <2>3. /\ [d EXCEPT ![k] = F!Plus(d[k], v)] \in Seq(Digits)
        /\ Len([d EXCEPT ![k] = F!Plus(d[k], v)]) = Len(d)
        /\ \A j \in 1 .. Len(d) : [d EXCEPT ![k] = F!Plus(d[k], v)][j] = IF j = k THEN F!Plus(d[k], v) ELSE d[j]
    BY <1>2, <2>2, ExceptSeq
  <2> QED
    BY <1>2, <2>1, <2>3
<1>3. CASE k \notin 1 .. Len(d)
  BY <1>1, <1>3 DEF Add
<1> QED
  BY <1>2, <1>3

(* The source after its digits i0 and i0 + 1 have exploded to the right. *)
Zeroed(d, i0) == Add([d EXCEPT ![i0 + 1] = Zero], i0 + 2, d[i0 + 1].value)

(* Its digits. *)
LEMMA ZeroedIs ==
    ASSUME NEW d \in Seq(Digits), NEW j \in 1 .. Len(d) - 1
    PROVE  LET z == Zeroed(d, j) IN
           /\ z \in Seq(Digits) /\ Len(z) = Len(d)
           /\ z[j + 1] = Zero
           /\ j + 2 <= Len(d) => z[j + 2] = F!Plus(d[j + 2], d[j + 1].value)
           /\ \A k \in 1 .. Len(d) : k # j + 1 /\ k # j + 2 => z[k] = d[k]
<1> DEFINE e == [d EXCEPT ![j + 1] = Zero]
           v == d[j + 1].value
<1>1. Len(d) \in Nat /\ j + 1 \in 1 .. Len(d) /\ j + 2 \in Nat
  BY DigitsAre
<1>2. v \in Nat
  BY <1>1, DigitsAre
<1>3. Zero \in Digits
  BY DigitChanges
<1>4. /\ e \in Seq(Digits) /\ Len(e) = Len(d)
      /\ \A k \in 1 .. Len(d) : e[k] = IF k = j + 1 THEN Zero ELSE d[k]
  BY <1>1, <1>3, ExceptSeq
<1> HIDE DEF e, v
<1>5. /\ Add(e, j + 2, v) \in Seq(Digits) /\ Len(Add(e, j + 2, v)) = Len(d)
      /\ j + 2 \in 1 .. Len(d) => Add(e, j + 2, v)[j + 2] = F!Plus(e[j + 2], v)
      /\ \A k \in 1 .. Len(d) : k # j + 2 => Add(e, j + 2, v)[k] = e[k]
  BY <1>1, <1>2, <1>4, AddIs
<1>6. Zeroed(d, j) = Add(e, j + 2, v)
  BY DEF Zeroed, e, v
<1>7. j + 2 <= Len(d) => j + 2 \in 1 .. Len(d) /\ e[j + 2] = d[j + 2]
  BY <1>1, <1>4
<1>8. j + 1 # j + 2 /\ e[j + 1] = Zero
  BY <1>1, <1>4
<1> HIDE DEF Zeroed
<1>9. Zeroed(d, j)[j + 1] = Zero
  BY <1>1, <1>5, <1>6, <1>8
<1>10. j + 2 <= Len(d) => Zeroed(d, j)[j + 2] = F!Plus(d[j + 2], v)
  BY <1>5, <1>6, <1>7
<1>11. \A k \in 1 .. Len(d) : k # j + 1 /\ k # j + 2 => Zeroed(d, j)[k] = d[k]
  BY <1>4, <1>5, <1>6
<1> QED
  BY <1>5, <1>6, <1>9, <1>10, <1>11 DEF v

(* A sequence that has the digits an explosion leaves is what it leaves. *)
LEMMA IsExploded ==
    ASSUME NEW n \in Seq(Digits), NEW k \in 1 .. Len(n) - 1,
           NEW s \in Seq(Digits), Len(s) = Len(n) - 1,
           \A j \in 1 .. k - 2 : s[j] = n[j],
           k > 1 => s[k - 1] = F!Plus(n[k - 1], n[k].value),
           s[k] = Zero,
           k + 1 < Len(n) => s[k + 1] = F!Plus(n[k + 2], n[k + 1].value),
           \A j \in k + 2 .. Len(n) - 1 : s[j] = n[j + 1]
    PROVE  s = F!ExplodedAt(n, k)
<1> DEFINE r == F!ExplodedAt(n, k)
<1>1. Len(n) \in Nat
  BY DigitsAre
<1>2. /\ r \in Seq(Digits) /\ Len(r) = Len(n) - 1
      /\ \A j \in 1 .. k - 2 : r[j] = n[j]
      /\ k > 1 => r[k - 1] = F!Plus(n[k - 1], n[k].value)
      /\ r[k] = Zero
      /\ k + 1 < Len(n) => r[k + 1] = F!Plus(n[k + 2], n[k + 1].value)
      /\ \A j \in k + 2 .. Len(n) - 1 : r[j] = n[j + 1]
  BY ExplodedIs
<1> HIDE DEF r
<1>3. ASSUME NEW j \in 1 .. Len(s) PROVE s[j] = r[j]
  <2>1. \/ j \in 1 .. k - 2
        \/ j = k - 1 /\ k > 1
        \/ j = k
        \/ j = k + 1 /\ k + 1 < Len(n)
        \/ j \in k + 2 .. Len(n) - 1
    BY <1>1
  <2> QED
    BY <1>2, <2>1
<1>4. s = r
  BY <1>2, <1>3, SeqEqual
<1> QED
  BY <1>4 DEF r

(* A sequence that has the digits a split leaves is what it leaves. *)
LEMMA IsSplit ==
    ASSUME NEW n \in Seq(Digits), NEW k \in 1 .. Len(n), n[k].depth < Nested,
           NEW s \in Seq(Digits), Len(s) = Len(n) + 1,
           \A j \in 1 .. k - 1 : s[j] = n[j],
           s[k] = digit_t(n[k].value \div 2, n[k].depth + 1),
           s[k + 1] = digit_t(n[k].value - n[k].value \div 2, n[k].depth + 1),
           \A j \in k + 2 .. Len(n) + 1 : s[j] = n[j - 1]
    PROVE  s = F!SplitAt(n, k)
<1> DEFINE r == F!SplitAt(n, k)
<1>1. Len(n) \in Nat
  BY DigitsAre
<1>2. /\ r \in Seq(Digits) /\ Len(r) = Len(n) + 1
      /\ \A j \in 1 .. k - 1 : r[j] = n[j]
      /\ r[k] = digit_t(n[k].value \div 2, n[k].depth + 1)
      /\ r[k + 1] = digit_t(n[k].value - n[k].value \div 2, n[k].depth + 1)
      /\ \A j \in k + 2 .. Len(n) + 1 : r[j] = n[j - 1]
  BY SplitIs
<1> HIDE DEF r
<1>3. ASSUME NEW j \in 1 .. Len(s) PROVE s[j] = r[j]
  <2>1. \/ j \in 1 .. k - 1
        \/ j = k
        \/ j = k + 1
        \/ j \in k + 2 .. Len(n) + 1
    BY <1>1
  <2> QED
    BY <1>2, <2>1
<1>4. s = r
  BY <1>2, <1>3, SeqEqual
<1> QED
  BY <1>4 DEF r

(* A sequence with what the three ways to explode a pair have in common. *)
LEMMA ExplodesAcross ==
    ASSUME NEW b \in Seq(Digits), NEW d \in Seq(Digits), NEW j \in 1 .. Len(d) - 1,
           NEW s \in Seq(Digits), Len(s) = Len(Across(b, d, j)) - 1,
           \A q \in 1 .. Len(b) - 1 : s[q] = b[q],
           Len(b) > 0 => s[Len(b)] = F!Plus(b[Len(b)], d[j].value),
           \A q \in Len(b) + 1 .. Len(s) : s[q] = Zeroed(d, j)[q - Len(b) + j]
    PROVE  s = F!ExplodedAt(Across(b, d, j), Len(b) + 1)
<1> DEFINE B == Len(b)
           D == Len(d)
           n == Across(b, d, j)
           z == Zeroed(d, j)
<1>1. B \in Nat /\ D \in Nat /\ j \in Nat /\ j >= 1 /\ j + 1 <= D /\ j \in 1 .. D + 1
  BY DigitsAre
<1>2. /\ n \in Seq(Digits) /\ Len(n) = B + (D - j + 1)
      /\ \A k \in 1 .. B : n[k] = b[k]
      /\ \A k \in B + 1 .. Len(n) : n[k] = d[k - B + j - 1]
  BY <1>1, AcrossIs
<1>3. /\ z[j + 1] = Zero
      /\ j + 2 <= D => z[j + 2] = F!Plus(d[j + 2], d[j + 1].value)
      /\ \A k \in 1 .. D : k # j + 1 /\ k # j + 2 => z[k] = d[k]
  BY ZeroedIs
<1>4. /\ \A q \in 1 .. B - 1 : s[q] = b[q]
      /\ B > 0 => s[B] = F!Plus(b[B], d[j].value)
      /\ \A q \in B + 1 .. Len(s) : s[q] = z[q - B + j]
      /\ Len(s) = Len(n) - 1
  OBVIOUS
<1> HIDE DEF B, D, n, z
<1>5. B + 1 \in 1 .. Len(n) - 1
  BY <1>1, <1>2
<1>6. n[B + 1] = d[j] /\ n[B + 2] = d[j + 1]
  <2>1. /\ B + 1 \in B + 1 .. Len(n) /\ (B + 1) - B + j - 1 = j
        /\ B + 2 \in B + 1 .. Len(n) /\ (B + 2) - B + j - 1 = j + 1
    BY <1>1, <1>2
  <2>2. n[B + 1] = d[(B + 1) - B + j - 1] /\ n[B + 2] = d[(B + 2) - B + j - 1]
    BY <1>2, <2>1
  <2> QED
    BY <2>1, <2>2
<1>7. \A q \in 1 .. (B + 1) - 2 : s[q] = n[q]
  <2>1. \A q \in 1 .. (B + 1) - 2 : q \in 1 .. B - 1 /\ q \in 1 .. B
    BY <1>1
  <2> QED
    BY <1>2, <1>4, <2>1
<1>8. B + 1 > 1 => s[(B + 1) - 1] = F!Plus(n[(B + 1) - 1], n[B + 1].value)
  <2>1. SUFFICES ASSUME B + 1 > 1
                 PROVE  s[(B + 1) - 1] = F!Plus(n[(B + 1) - 1], n[B + 1].value)
    OBVIOUS
  <2>2. B > 0 /\ (B + 1) - 1 = B /\ B \in 1 .. B
    BY <1>1, <2>1
  <2>3. s[B] = F!Plus(n[B], n[B + 1].value)
    BY <1>2, <1>4, <1>6, <2>2
  <2> QED
    BY <2>2, <2>3
<1>9. s[B + 1] = Zero
  <2>1. B + 1 \in B + 1 .. Len(s) /\ (B + 1) - B + j = j + 1
    BY <1>1, <1>2, <1>4
  <2>2. s[B + 1] = z[(B + 1) - B + j]
    BY <1>4, <2>1
  <2> QED
    BY <1>3, <2>1, <2>2
<1>10. (B + 1) + 1 < Len(n) => s[(B + 1) + 1] = F!Plus(n[(B + 1) + 2], n[(B + 1) + 1].value)
  <2>1. SUFFICES ASSUME (B + 1) + 1 < Len(n)
                 PROVE  s[(B + 1) + 1] = F!Plus(n[(B + 1) + 2], n[(B + 1) + 1].value)
    OBVIOUS
  <2>2. /\ (B + 1) + 1 = B + 2 /\ (B + 1) + 2 = B + 3
        /\ B + 2 \in B + 1 .. Len(s) /\ (B + 2) - B + j = j + 2
        /\ B + 3 \in B + 1 .. Len(n) /\ (B + 3) - B + j - 1 = j + 2
        /\ j + 2 <= D
    BY <1>1, <1>2, <1>4, <2>1
  <2>3. s[B + 2] = z[(B + 2) - B + j]
    BY <1>4, <2>2
  <2>4. n[B + 3] = d[(B + 3) - B + j - 1]
    BY <1>2, <2>2
  <2>5. s[B + 2] = F!Plus(n[B + 3], n[B + 2].value)
    BY <1>3, <1>6, <2>2, <2>3, <2>4
  <2> QED
    BY <2>2, <2>5
<1>11. ASSUME NEW q \in (B + 1) + 2 .. Len(n) - 1 PROVE s[q] = n[q + 1]
  <2>1. /\ q \in B + 1 .. Len(s) /\ q + 1 \in B + 1 .. Len(n)
        /\ (q + 1) - B + j - 1 = q - B + j
        /\ q - B + j \in 1 .. D /\ q - B + j # j + 1 /\ q - B + j # j + 2
    BY <1>1, <1>2, <1>4
  <2>2. s[q] = z[q - B + j]
    BY <1>4, <2>1
  <2>3. n[q + 1] = d[(q + 1) - B + j - 1]
    BY <1>2, <2>1
  <2>4. z[q - B + j] = d[q - B + j]
    BY <1>3, <2>1
  <2> QED
    BY <2>1, <2>2, <2>3, <2>4
<1>12. s = F!ExplodedAt(n, B + 1)
  <2> DEFINE K == B + 1
  <2>1. /\ K \in 1 .. Len(n) - 1
        /\ \A q \in 1 .. K - 2 : s[q] = n[q]
        /\ K > 1 => s[K - 1] = F!Plus(n[K - 1], n[K].value)
        /\ s[K] = Zero
        /\ K + 1 < Len(n) => s[K + 1] = F!Plus(n[K + 2], n[K + 1].value)
        /\ \A q \in K + 2 .. Len(n) - 1 : s[q] = n[q + 1]
    BY <1>5, <1>7, <1>8, <1>9, <1>10, <1>11
  <2> HIDE DEF K
  <2>2. s = F!ExplodedAt(n, K)
    BY <1>2, <1>4, <2>1, IsExploded
  <2> QED
    BY <2>2 DEF K
<1> QED
  BY <1>12 DEF B, n

(* The left value goes to the digit copied last. *)
LEMMA LeftIsCopied ==
    ASSUME NEW b \in Seq(Digits), Len(b) > 0, NEW d \in Seq(Digits), NEW j \in 1 .. Len(d) - 1
    PROVE  LET c == Add(b, Len(b), d[j].value) IN
           /\ c \in Seq(Digits) /\ Len(c) = Len(b)
           /\ \A k \in 1 .. Len(b) : c[k].depth = b[k].depth
           /\ Across(c, Zeroed(d, j), j + 1) = F!ExplodedAt(Across(b, d, j), Len(b) + 1)
<1> DEFINE B == Len(b)
           D == Len(d)
           c == Add(b, Len(b), d[j].value)
           z == Zeroed(d, j)
           s == Across(c, z, j + 1)
<1>1. B \in Nat /\ D \in Nat /\ j \in Nat /\ j >= 1 /\ j + 1 <= D /\ j \in 1 .. D /\ j \in 1 .. D + 1
  BY DigitsAre
<1>2. B > 0 /\ B \in 1 .. B /\ d[j].value \in Nat
  BY <1>1, DigitsAre
<1>3. /\ c \in Seq(Digits) /\ Len(c) = B
      /\ c[B] = F!Plus(b[B], d[j].value)
      /\ \A k \in 1 .. B : k # B => c[k] = b[k]
  BY <1>1, <1>2, AddIs
<1>4. z \in Seq(Digits) /\ Len(z) = D
  BY ZeroedIs
<1> HIDE DEF c, z
<1>5. j + 1 \in 1 .. Len(z) + 1
  BY <1>1, <1>4
<1>6. /\ s \in Seq(Digits)
      /\ Len(s) = Len(c) + (Len(z) - (j + 1) + 1)
      /\ \A k \in 1 .. Len(c) : s[k] = c[k]
      /\ \A k \in Len(c) + 1 .. Len(s) : s[k] = z[k - Len(c) + (j + 1) - 1]
  BY <1>3, <1>4, <1>5, AcrossIs
<1>7. Len(Across(b, d, j)) = B + (D - j + 1)
  BY <1>1, AcrossIs
<1> HIDE DEF s
<1>8. Len(s) = Len(Across(b, d, j)) - 1
  BY <1>1, <1>3, <1>4, <1>6, <1>7
<1>9. \A q \in 1 .. B - 1 : s[q] = b[q]
  <2>1. \A q \in 1 .. B - 1 : q \in 1 .. B /\ q # B
    BY <1>1
  <2> QED
    BY <1>3, <1>6, <2>1
<1>10. s[B] = F!Plus(b[B], d[j].value)
  BY <1>2, <1>3, <1>6
<1>11. ASSUME NEW q \in B + 1 .. Len(s) PROVE s[q] = z[q - B + j]
  <2>1. q - Len(c) + (j + 1) - 1 = q - B + j /\ q \in Len(c) + 1 .. Len(s)
    BY <1>1, <1>3
  <2>2. s[q] = z[q - Len(c) + (j + 1) - 1]
    BY <1>6, <2>1
  <2> QED
    BY <2>1, <2>2
<1>12. s = F!ExplodedAt(Across(b, d, j), Len(b) + 1)
  BY <1>6, <1>8, <1>9, <1>10, <1>11, ExplodesAcross DEF z, B
<1>13. ASSUME NEW k \in 1 .. B PROVE c[k].depth = b[k].depth
  <2>1. b[k] \in Digits
    BY DigitsAre
  <2>2. CASE k = B
    <3>1. F!Plus(b[k], d[j].value).depth = b[k].depth
      BY <1>2, <2>1, DigitChanges
    <3> QED
      BY <1>3, <2>2, <3>1
  <2>3. CASE k # B
    BY <1>3, <2>3
  <2> QED
    BY <2>2, <2>3
<1> QED
  BY <1>3, <1>12, <1>13 DEF s, c, z, B

(* What is left of a buffer without its last digit. *)
LEMMA FrontIs ==
    ASSUME NEW b \in Seq(Digits), Len(b) > 0
    PROVE  /\ Front(b) \in Seq(Digits) /\ Len(Front(b)) = Len(b) - 1
           /\ \A k \in 1 .. Len(b) - 1 : Front(b)[k] = b[k]
<1> DEFINE B == Len(b)
           f == Front(b)
<1>1. B \in Nat
  BY DigitsAre
<1>2. B > 0
  OBVIOUS
<1>3. /\ f \in Seq(Digits) /\ Len(f) = B - 1
      /\ \A k \in 1 .. B - 1 : f[k] = b[k]
  <2>1. \A k \in 1 .. B : b[k] \in Digits
    BY DigitsAre
  <2>2. 1 \in Int /\ B - 1 \in Int /\ (1 <= B - 1 \/ B - 1 = 0) /\ \A k \in 1 .. B - 1 : b[k] \in Digits
    <3>1. 1 \in Int /\ B - 1 \in Int /\ (1 <= B - 1 \/ B - 1 = 0)
      <4>1. B \in Nat /\ B > 0
        BY <1>1, <1>2
      <4> HIDE DEF B
      <4> QED
        BY <4>1
    <3>2. \A k \in 1 .. B - 1 : k \in 1 .. B
      BY <1>1
    <3> HIDE DEF B
    <3> QED
      BY <2>1, <3>1, <3>2
  <2>3. f = SubSeq(b, 1, B - 1)
    BY DEF Front
  <2> HIDE DEF B, f
  <2>4. /\ SubSeq(b, 1, B - 1) \in Seq(Digits)
        /\ Len(SubSeq(b, 1, B - 1)) = IF 1 <= B - 1 THEN (B - 1) - 1 + 1 ELSE 0
        /\ \A k \in 1 .. (B - 1) - 1 + 1 : SubSeq(b, 1, B - 1)[k] = b[1 + k - 1]
    BY <2>2, SubSeqProperties
  <2>5. \A k \in 1 .. B - 1 : k \in 1 .. (B - 1) - 1 + 1 /\ 1 + k - 1 = k
    BY <1>1
  <2>6. Len(f) = B - 1
    BY <1>1, <2>2, <2>3, <2>4
  <2> QED
    BY <2>3, <2>4, <2>5, <2>6
<1> QED
  BY <1>3 DEF f, B

(* It comes back with the digit copied last. *)
LEMMA LeftIsTakenBack ==
    ASSUME NEW b \in Seq(Digits), Len(b) > 0, NEW d \in Seq(Digits), NEW j \in 1 .. Len(d) - 1
    PROVE  LET e == [Zeroed(d, j) EXCEPT ![j] = F!Plus(b[Len(b)], d[j].value)] IN
           /\ Front(b) \in Seq(Digits) /\ Len(Front(b)) = Len(b) - 1
           /\ \A k \in 1 .. Len(b) - 1 : Front(b)[k] = b[k]
           /\ e \in Seq(Digits) /\ Len(e) = Len(d)
           /\ Across(Front(b), e, j) = F!ExplodedAt(Across(b, d, j), Len(b) + 1)
<1> DEFINE B == Len(b)
           D == Len(d)
           f == Front(b)
           z == Zeroed(d, j)
           x == F!Plus(b[B], d[j].value)
           e == [z EXCEPT ![j] = x]
           s == Across(f, e, j)
<1>1. B \in Nat /\ D \in Nat /\ j \in Nat /\ j >= 1 /\ j + 1 <= D /\ j \in 1 .. D /\ j \in 1 .. D + 1
  BY DigitsAre
<1>2. B > 0 /\ B \in 1 .. B /\ d[j].value \in Nat /\ b[B] \in Digits
  BY <1>1, DigitsAre
<1>3. /\ f \in Seq(Digits) /\ Len(f) = B - 1
      /\ \A k \in 1 .. B - 1 : f[k] = b[k]
  BY FrontIs
<1>4. z \in Seq(Digits) /\ Len(z) = D
  BY ZeroedIs
<1>5. x \in Digits
  BY <1>2, DigitChanges
<1> HIDE DEF f, z, x
<1>6. /\ e \in Seq(Digits) /\ Len(e) = D
      /\ \A k \in 1 .. D : e[k] = IF k = j THEN x ELSE z[k]
  BY <1>1, <1>4, <1>5, ExceptSeq
<1> HIDE DEF e
<1>7. /\ s \in Seq(Digits)
      /\ Len(s) = Len(f) + (Len(e) - j + 1)
      /\ \A k \in 1 .. Len(f) : s[k] = f[k]
      /\ \A k \in Len(f) + 1 .. Len(s) : s[k] = e[k - Len(f) + j - 1]
  <2>1. j \in 1 .. Len(e) + 1
    BY <1>1, <1>6
  <2> QED
    BY <1>3, <1>6, <2>1, AcrossIs
<1>8. Len(Across(b, d, j)) = B + (D - j + 1)
  BY <1>1, AcrossIs
<1> HIDE DEF s
<1>9. Len(s) = Len(Across(b, d, j)) - 1
  BY <1>1, <1>3, <1>6, <1>7, <1>8
<1>10. \A q \in 1 .. B - 1 : s[q] = b[q]
  BY <1>3, <1>7
<1>11. s[B] = x
  <2>1. B \in Len(f) + 1 .. Len(s) /\ B - Len(f) + j - 1 = j
    BY <1>1, <1>2, <1>3, <1>6, <1>7
  <2>2. s[B] = e[B - Len(f) + j - 1]
    BY <1>7, <2>1
  <2> QED
    BY <1>1, <1>6, <2>1, <2>2
<1>12. ASSUME NEW q \in B + 1 .. Len(s) PROVE s[q] = z[q - B + j]
  <2>1. /\ q - Len(f) + j - 1 = q - B + j /\ q \in Len(f) + 1 .. Len(s)
        /\ q - B + j \in 1 .. D /\ q - B + j # j
    BY <1>1, <1>3, <1>6, <1>7
  <2>2. s[q] = e[q - Len(f) + j - 1]
    BY <1>7, <2>1
  <2>3. e[q - B + j] = z[q - B + j]
    BY <1>6, <2>1
  <2> QED
    BY <2>1, <2>2, <2>3
<1>13. s = F!ExplodedAt(Across(b, d, j), Len(b) + 1)
  BY <1>7, <1>9, <1>10, <1>11, <1>12, ExplodesAcross DEF z, x, B
<1> QED
  BY <1>3, <1>6, <1>13 DEF s, e, x, z, f, B

(* There is no digit to the left. *)
LEMMA LeftIsDropped ==
    ASSUME NEW b \in Seq(Digits), Len(b) = 0, NEW d \in Seq(Digits), NEW j \in 1 .. Len(d) - 1
    PROVE  Across(b, Zeroed(d, j), j + 1) = F!ExplodedAt(Across(b, d, j), 1)
<1> DEFINE D == Len(d)
           z == Zeroed(d, j)
           s == Across(b, z, j + 1)
<1>1. b \in Seq(Digits) /\ Len(b) = 0
  OBVIOUS
<1>2. D \in Nat /\ j \in Nat /\ j >= 1 /\ j + 1 <= D /\ j \in 1 .. D + 1
  BY DigitsAre
<1>3. z \in Seq(Digits) /\ Len(z) = D
  BY ZeroedIs
<1> HIDE DEF z
<1>4. j + 1 \in 1 .. Len(z) + 1
  BY <1>2, <1>3
<1>5. /\ s \in Seq(Digits)
      /\ Len(s) = Len(b) + (Len(z) - (j + 1) + 1)
      /\ \A k \in 1 .. Len(b) : s[k] = b[k]
      /\ \A k \in Len(b) + 1 .. Len(s) : s[k] = z[k - Len(b) + (j + 1) - 1]
  BY <1>1, <1>3, <1>4, AcrossIs
<1>6. Len(Across(b, d, j)) = Len(b) + (D - j + 1)
  BY <1>1, <1>2, AcrossIs
<1> HIDE DEF s
<1>7. Len(s) = Len(Across(b, d, j)) - 1
  BY <1>1, <1>2, <1>3, <1>5, <1>6
<1>8. ASSUME NEW q \in Len(b) + 1 .. Len(s) PROVE s[q] = z[q - Len(b) + j]
  <2>1. q - Len(b) + (j + 1) - 1 = q - Len(b) + j
    BY <1>1, <1>2
  <2> QED
    BY <1>5, <2>1
<1>9. \A q \in 1 .. Len(b) - 1 : s[q] = b[q]
  BY <1>1
<1>10. ~ (Len(b) > 0)
  BY <1>1
<1>11. s = F!ExplodedAt(Across(b, d, j), Len(b) + 1)
  BY <1>1, <1>5, <1>7, <1>8, <1>9, <1>10, ExplodesAcross DEF z
<1>12. Len(b) + 1 = 1
  BY <1>1
<1> QED
  BY <1>11, <1>12 DEF s, z

(* The first pair explodes before the loop begins. *)
LEMMA FirstExplodes ==
    ASSUME NEW d \in Seq(Digits), 1 < Len(d)
    PROVE  LET e == IF Len(d) # 2 THEN Add(d, 3, d[2].value) ELSE d IN
           /\ e \in Seq(Digits) /\ Len(e) = Len(d)
           /\ <<Zero>> \in Seq(Digits) /\ Len(<<Zero>>) = 1
           /\ Across(<<Zero>>, e, 3) = F!ExplodedAt(d, 1)
<1> DEFINE D == Len(d)
           e == IF D # 2 THEN Add(d, 3, d[2].value) ELSE d
           b == <<Zero>>
           s == Across(b, e, 3)
<1>1. D \in Nat /\ D > 1 /\ 2 \in 1 .. D
  BY DigitsAre
<1>2. d[2].value \in Nat
  BY <1>1, DigitsAre
<1>3. /\ e \in Seq(Digits) /\ Len(e) = D
      /\ 3 <= D => e[3] = F!Plus(d[3], d[2].value)
      /\ \A k \in 1 .. D : k # 3 => e[k] = d[k]
  <2>1. /\ Add(d, 3, d[2].value) \in Seq(Digits) /\ Len(Add(d, 3, d[2].value)) = D
        /\ 3 \in 1 .. D => Add(d, 3, d[2].value)[3] = F!Plus(d[3], d[2].value)
        /\ \A k \in 1 .. D : k # 3 => Add(d, 3, d[2].value)[k] = d[k]
    BY <1>2, AddIs
  <2> QED
    BY <1>1, <2>1
<1>4. b \in Seq(Digits) /\ Len(b) = 1 /\ b[1] = Zero
  BY DigitChanges
<1> HIDE DEF e, b
<1>5. 3 \in 1 .. Len(e) + 1
  BY <1>1, <1>3
<1>6. /\ s \in Seq(Digits)
      /\ Len(s) = Len(b) + (Len(e) - 3 + 1)
      /\ \A k \in 1 .. Len(b) : s[k] = b[k]
      /\ \A k \in Len(b) + 1 .. Len(s) : s[k] = e[k - Len(b) + 3 - 1]
  BY <1>3, <1>4, <1>5, AcrossIs
<1> HIDE DEF s, D
<1>7. Len(s) = D - 1
  BY <1>1, <1>3, <1>4, <1>6
<1>8. s[1] = Zero
  BY <1>4, <1>6
<1>9. \A q \in 2 .. D - 1 : s[q] = e[q + 1]
  <2>1. \A q \in 2 .. D - 1 : q \in Len(b) + 1 .. Len(s) /\ q - Len(b) + 3 - 1 = q + 1
    BY <1>1, <1>4, <1>7
  <2> QED
    BY <1>6, <2>1
<1>10. s = F!ExplodedAt(d, 1)
  <2>1. 1 \in 1 .. Len(d) - 1 /\ ~ (1 > 1)
    BY <1>1 DEF D
  <2>2. \A q \in 1 .. 1 - 2 : s[q] = d[q]
    OBVIOUS
  <2>3. 1 + 1 < Len(d) => s[1 + 1] = F!Plus(d[1 + 2], d[1 + 1].value)
    <3>1. SUFFICES ASSUME 2 < D PROVE s[2] = F!Plus(d[3], d[2].value)
      BY DEF D
    <3>2. 2 \in 2 .. D - 1 /\ 3 <= D /\ 2 + 1 = 3
      BY <1>1, <3>1
    <3>3. s[2] = e[2 + 1]
      BY <1>9, <3>2
    <3> QED
      BY <1>3, <3>2, <3>3
  <2>4. \A q \in 1 + 2 .. Len(d) - 1 : s[q] = d[q + 1]
    <3>1. SUFFICES ASSUME NEW q \in 3 .. D - 1 PROVE s[q] = d[q + 1]
      BY DEF D
    <3>2. q \in 2 .. D - 1 /\ q + 1 \in 1 .. D /\ q + 1 # 3
      BY <1>1
    <3> QED
      BY <1>3, <1>9, <3>2
  <2>5. Len(s) = Len(d) - 1
    BY <1>7 DEF D
  <2> QED
    BY <1>6, <1>8, <2>1, <2>2, <2>3, <2>4, <2>5, IsExploded
<1> QED
  BY <1>3, <1>4, <1>10 DEF s, e, b, D

(* The halves of a digit. *)
HalvesOf(x) ==
    LET left == digit_t(x.value \div 2, x.depth + 1)
    IN  <<left, digit_t(x.value - left.value, left.depth)>>

(* They are digits a level deeper. *)
LEMMA HalvesAre ==
    ASSUME NEW x \in Digits, x.depth < Nested
    PROVE  /\ HalvesOf(x)[1] \in Digits /\ HalvesOf(x)[1].depth = x.depth + 1
           /\ HalvesOf(x)[2] \in Digits /\ HalvesOf(x)[2].depth = x.depth + 1
           /\ HalvesOf(x)[1] = digit_t(x.value \div 2, x.depth + 1)
           /\ HalvesOf(x)[2] = digit_t(x.value - x.value \div 2, x.depth + 1)
           /\ HalvesOf(x) = <<HalvesOf(x)[1], HalvesOf(x)[2]>>
<1> DEFINE half == x.value \div 2
           deep == x.depth + 1
<1>1. half \in Nat /\ x.value - half \in Nat /\ deep \in 0 .. Nested
  <2>1. x.value \in Nat /\ x.depth \in 0 .. Nested
    BY DEF Digits
  <2>2. \A v \in Nat : v \div 2 \in Nat /\ v - v \div 2 \in Nat
    OBVIOUS
  <2>3. \A d \in 0 .. Nested : d < Nested => d + 1 \in 0 .. Nested
    BY InputAssumption
  <2> QED
    BY <2>1, <2>2, <2>3
<1>2. HalvesOf(x) = <<digit_t(half, deep), digit_t(x.value - half, deep)>>
  <2>1. digit_t(half, deep).value = half /\ digit_t(half, deep).depth = deep
    BY <1>1, DigitChanges
  <2>2. HalvesOf(x) = <<digit_t(half, deep), digit_t(x.value - digit_t(half, deep).value, digit_t(half, deep).depth)>>
    BY DEF HalvesOf
  <2> HIDE DEF half, deep
  <2> QED
    BY <2>1, <2>2
<1>3. /\ digit_t(half, deep) \in Digits /\ digit_t(half, deep).depth = deep
      /\ digit_t(x.value - half, deep) \in Digits /\ digit_t(x.value - half, deep).depth = deep
  BY <1>1, DigitChanges
<1> HIDE DEF half, deep
<1>4. HalvesOf(x)[1] = digit_t(half, deep) /\ HalvesOf(x)[2] = digit_t(x.value - half, deep)
  BY <1>2
<1> QED
  BY <1>2, <1>3, <1>4 DEF half, deep

(* A sequence with what the two ways to split a digit have in common. *)
LEMMA SplitsAcross ==
    ASSUME NEW b \in Seq(Digits), NEW d \in Seq(Digits), NEW j \in 1 .. Len(d),
           d[j].depth < Nested,
           NEW s \in Seq(Digits), Len(s) = Len(Across(b, d, j)) + 1,
           \A q \in 1 .. Len(b) : s[q] = b[q],
           s[Len(b) + 1] = HalvesOf(d[j])[1],
           s[Len(b) + 2] = HalvesOf(d[j])[2],
           \A q \in Len(b) + 3 .. Len(s) : s[q] = d[q - Len(b) + j - 2]
    PROVE  s = F!SplitAt(Across(b, d, j), Len(b) + 1)
<1> DEFINE B == Len(b)
           D == Len(d)
           n == Across(b, d, j)
           K == B + 1
<1>1. B \in Nat /\ D \in Nat /\ j \in Nat /\ j >= 1 /\ j <= D /\ j \in 1 .. D + 1 /\ d[j] \in Digits
  BY DigitsAre
<1>2. /\ n \in Seq(Digits) /\ Len(n) = B + (D - j + 1)
      /\ \A k \in 1 .. B : n[k] = b[k]
      /\ \A k \in B + 1 .. Len(n) : n[k] = d[k - B + j - 1]
  BY <1>1, AcrossIs
<1>3. /\ s[K] = digit_t(d[j].value \div 2, d[j].depth + 1)
      /\ s[B + 2] = digit_t(d[j].value - d[j].value \div 2, d[j].depth + 1)
  BY <1>1, HalvesAre
<1>4. /\ \A q \in 1 .. B : s[q] = b[q]
      /\ \A q \in B + 3 .. Len(s) : s[q] = d[q - B + j - 2]
      /\ Len(s) = Len(n) + 1
  OBVIOUS
<1> HIDE DEF B, D, n
<1>5. K \in 1 .. Len(n) /\ K + 1 = B + 2
  BY <1>1, <1>2
<1>6. n[K] = d[j]
  <2>1. K \in B + 1 .. Len(n)
    BY <1>1, <1>2
  <2>2. K - B + j - 1 = j
    BY <1>1
  <2> HIDE DEF K
  <2>3. n[K] = d[K - B + j - 1]
    BY <1>2, <2>1
  <2> QED
    BY <2>2, <2>3
<1>7. \A q \in 1 .. K - 1 : s[q] = n[q]
  <2>1. \A q \in 1 .. K - 1 : q \in 1 .. B
    BY <1>1
  <2> QED
    BY <1>2, <1>4, <2>1
<1>8. ASSUME NEW q \in K + 2 .. Len(n) + 1 PROVE s[q] = n[q - 1]
  <2>1. q \in B + 3 .. Len(s) /\ q - 1 \in B + 1 .. Len(n) /\ (q - 1) - B + j - 1 = q - B + j - 2
    BY <1>1, <1>2, <1>4
  <2>2. s[q] = d[q - B + j - 2]
    BY <1>4, <2>1
  <2>3. n[q - 1] = d[(q - 1) - B + j - 1]
    BY <1>2, <2>1
  <2> QED
    BY <2>1, <2>2, <2>3
<1> HIDE DEF K
<1>9. /\ n[K].depth < Nested
      /\ s[K] = digit_t(n[K].value \div 2, n[K].depth + 1)
      /\ s[K + 1] = digit_t(n[K].value - n[K].value \div 2, n[K].depth + 1)
  BY <1>3, <1>5, <1>6
<1>10. s = F!SplitAt(n, K)
  BY <1>2, <1>4, <1>5, <1>7, <1>8, <1>9, IsSplit
<1> QED
  BY <1>10 DEF n, K, B

(* The source after digit j has been split into the digit before and itself. *)
SplitBack(d, j) == [d EXCEPT ![j - 1] = HalvesOf(d[j])[1], ![j] = HalvesOf(d[j])[2]]

(* The left half goes into the source, where the digit before was read from. *)
LEMMA SplitsBack ==
    ASSUME NEW b \in Seq(Digits), NEW d \in Seq(Digits), NEW j \in 1 .. Len(d), j # 1,
           d[j].depth < Nested
    PROVE  LET e == SplitBack(d, j) IN
           /\ e \in Seq(Digits) /\ Len(e) = Len(d)
           /\ e[j - 1].depth = d[j].depth + 1 /\ e[j].depth = d[j].depth + 1
           /\ \A k \in j + 1 .. Len(d) : e[k] = d[k]
           /\ Across(b, e, j - 1) = F!SplitAt(Across(b, d, j), Len(b) + 1)
<1> DEFINE B == Len(b)
           D == Len(d)
           h1 == HalvesOf(d[j])[1]
           h2 == HalvesOf(d[j])[2]
           f == [d EXCEPT ![j - 1] = h1]
           e == [f EXCEPT ![j] = h2]
           s == Across(b, e, j - 1)
<1>1. B \in Nat /\ D \in Nat /\ j \in Nat /\ j > 1 /\ j <= D /\ j - 1 \in 1 .. D /\ j \in 1 .. D + 1 /\ d[j] \in Digits
  BY DigitsAre
<1>2. /\ h1 \in Digits /\ h1.depth = d[j].depth + 1
      /\ h2 \in Digits /\ h2.depth = d[j].depth + 1
  BY <1>1, HalvesAre
<1> HIDE DEF h1, h2
<1>3. /\ f \in Seq(Digits) /\ Len(f) = D
      /\ \A k \in 1 .. D : f[k] = IF k = j - 1 THEN h1 ELSE d[k]
  BY <1>1, <1>2, ExceptSeq
<1> HIDE DEF f
<1>4. /\ e \in Seq(Digits) /\ Len(e) = D
      /\ \A k \in 1 .. D : e[k] = IF k = j THEN h2 ELSE f[k]
  <2>1. j \in 1 .. Len(f)
    BY <1>1, <1>3
  <2> QED
    BY <1>2, <1>3, <2>1, ExceptSeq
<1> HIDE DEF e
<1>5. /\ e[j - 1] = h1 /\ e[j] = h2
      /\ \A k \in j + 1 .. D : e[k] = d[k]
  <2>1. j - 1 # j /\ j \in 1 .. D /\ j # j - 1 /\ \A k \in j + 1 .. D : k \in 1 .. D /\ k # j /\ k # j - 1
    BY <1>1
  <2> QED
    BY <1>1, <1>3, <1>4, <2>1
<1>6. j - 1 \in 1 .. Len(e) + 1
  BY <1>1, <1>4
<1>7. /\ s \in Seq(Digits)
      /\ Len(s) = Len(b) + (Len(e) - (j - 1) + 1)
      /\ \A k \in 1 .. Len(b) : s[k] = b[k]
      /\ \A k \in Len(b) + 1 .. Len(s) : s[k] = e[k - Len(b) + (j - 1) - 1]
  BY <1>4, <1>6, AcrossIs
<1>8. Len(Across(b, d, j)) = B + (D - j + 1)
  BY <1>1, AcrossIs
<1> HIDE DEF s
<1>9. Len(s) = Len(Across(b, d, j)) + 1
  BY <1>1, <1>4, <1>7, <1>8
<1>10. \A q \in B + 1 .. Len(s) : s[q] = e[q - B + j - 2]
  <2>1. \A q \in B + 1 .. Len(s) : q - Len(b) + (j - 1) - 1 = q - B + j - 2
    BY <1>1
  <2> QED
    BY <1>7, <2>1
<1> HIDE DEF B, D
<1>11. s[B + 1] = h1 /\ s[B + 2] = h2
  <2>1. /\ B + 1 \in B + 1 .. Len(s) /\ (B + 1) - B + j - 2 = j - 1
        /\ B + 2 \in B + 1 .. Len(s) /\ (B + 2) - B + j - 2 = j
    BY <1>1, <1>8, <1>9
  <2>2. s[B + 1] = e[(B + 1) - B + j - 2] /\ s[B + 2] = e[(B + 2) - B + j - 2]
    BY <1>10, <2>1
  <2> QED
    BY <1>5, <2>1, <2>2
<1>12. ASSUME NEW q \in B + 3 .. Len(s) PROVE s[q] = d[q - B + j - 2]
  <2>1. q \in B + 1 .. Len(s) /\ q - B + j - 2 \in j + 1 .. D
    BY <1>1, <1>8, <1>9
  <2> QED
    BY <1>5, <1>10, <2>1
<1>13. s = F!SplitAt(Across(b, d, j), Len(b) + 1)
  BY <1>7, <1>9, <1>11, <1>12, SplitsAcross DEF h1, h2, B
<1>14. e = SplitBack(d, j)
  BY DEF e, f, h1, h2, SplitBack
<1>15. e[j - 1].depth = d[j].depth + 1 /\ e[j].depth = d[j].depth + 1
  BY <1>2, <1>5
<1> QED
  BY <1>4, <1>5, <1>13, <1>14, <1>15 DEF s, D

(* The first digit of the source makes room for its halves. *)
LEMMA SplitsFirst ==
    ASSUME NEW b \in Seq(Digits), NEW d \in Seq(Digits), Len(d) > 0, d[1].depth < Nested
    PROVE  LET e == HalvesOf(d[1]) \o Tail(d) IN
           /\ e \in Seq(Digits) /\ Len(e) = Len(d) + 1
           /\ e[1].depth = d[1].depth + 1 /\ e[2].depth = d[1].depth + 1
           /\ \A k \in 3 .. Len(e) : e[k] = d[k - 1]
           /\ Across(b, e, 1) = F!SplitAt(Across(b, d, 1), Len(b) + 1)
<1> DEFINE B == Len(b)
           D == Len(d)
           h == HalvesOf(d[1])
           t == Tail(d)
           e == h \o t
           s == Across(b, e, 1)
<1>1. B \in Nat /\ D \in Nat /\ D >= 1 /\ 1 \in 1 .. D /\ 1 \in 1 .. D + 1 /\ d[1] \in Digits
  BY DigitsAre
<1>2. /\ h[1] \in Digits /\ h[1].depth = d[1].depth + 1
      /\ h[2] \in Digits /\ h[2].depth = d[1].depth + 1
      /\ h = <<h[1], h[2]>>
  BY <1>1, HalvesAre
<1> HIDE DEF h
<1>3. h \in Seq(Digits) /\ Len(h) = 2
  <2>1. <<h[1], h[2]>> \in Seq(Digits) /\ Len(<<h[1], h[2]>>) = 2
    BY <1>2
  <2> QED
    BY <1>2, <2>1
<1>4. /\ t \in Seq(Digits) /\ Len(t) = D - 1
      /\ \A k \in 1 .. D - 1 : t[k] = d[k + 1]
  <2>1. d # <<>>
    BY <1>1
  <2> QED
    BY <2>1, HeadTailProperties
<1> HIDE DEF t
<1>5. /\ e \in Seq(Digits) /\ Len(e) = Len(h) + Len(t)
      /\ \A k \in 1 .. Len(h) + Len(t) : e[k] = IF k <= Len(h) THEN h[k] ELSE t[k - Len(h)]
  BY <1>3, <1>4, ConcatProperties
<1> HIDE DEF e, D
<1>6. Len(e) = D + 1
  BY <1>1, <1>3, <1>4, <1>5
<1>7. e[1] = h[1] /\ e[2] = h[2] /\ \A k \in 3 .. D + 1 : e[k] = d[k - 1]
  <2>1. /\ 1 \in 1 .. Len(h) + Len(t) /\ 1 <= Len(h)
        /\ 2 \in 1 .. Len(h) + Len(t) /\ 2 <= Len(h)
    BY <1>1, <1>3, <1>4
  <2>2. ASSUME NEW k \in 3 .. D + 1 PROVE e[k] = d[k - 1]
    <3>1. k \in 1 .. Len(h) + Len(t) /\ ~ (k <= Len(h)) /\ k - Len(h) = k - 2
      BY <1>1, <1>3, <1>4
    <3>2. k - 2 \in 1 .. D - 1 /\ (k - 2) + 1 = k - 1
      BY <1>1
    <3>3. e[k] = t[k - 2]
      BY <1>5, <3>1
    <3> QED
      BY <1>4, <3>2, <3>3
  <2> QED
    BY <1>5, <2>1, <2>2
<1>8. 1 \in 1 .. Len(e) + 1
  BY <1>1, <1>6
<1>9. /\ s \in Seq(Digits)
      /\ Len(s) = Len(b) + (Len(e) - 1 + 1)
      /\ \A k \in 1 .. Len(b) : s[k] = b[k]
      /\ \A k \in Len(b) + 1 .. Len(s) : s[k] = e[k - Len(b) + 1 - 1]
  BY <1>5, <1>8, AcrossIs
<1>10. Len(Across(b, d, 1)) = B + (D - 1 + 1)
  BY <1>1, AcrossIs DEF D
<1> HIDE DEF s
<1>11. Len(s) = Len(Across(b, d, 1)) + 1
  <2>1. Len(s) = B + (Len(e) - 1 + 1)
    BY <1>9
  <2> HIDE DEF B
  <2>2. B \in Nat /\ D \in Nat
    BY <1>1
  <2>3. Len(s) = B + D + 1
    BY <1>6, <2>1, <2>2
  <2>4. Len(Across(b, d, 1)) = B + D
    BY <1>10, <2>2
  <2> QED
    BY <2>2, <2>3, <2>4
<1>12. \A q \in B + 1 .. Len(s) : s[q] = e[q - B]
  <2>1. \A q \in B + 1 .. Len(s) : q - Len(b) + 1 - 1 = q - B
    BY <1>1
  <2> QED
    BY <1>9, <2>1
<1> HIDE DEF B
<1>13. s[B + 1] = h[1] /\ s[B + 2] = h[2]
  <2>1. /\ B + 1 \in B + 1 .. Len(s) /\ (B + 1) - B = 1
        /\ B + 2 \in B + 1 .. Len(s) /\ (B + 2) - B = 2
    BY <1>1, <1>10, <1>11
  <2>2. s[B + 1] = e[(B + 1) - B] /\ s[B + 2] = e[(B + 2) - B]
    BY <1>12, <2>1
  <2> QED
    BY <1>7, <2>1, <2>2
<1>14. ASSUME NEW q \in B + 3 .. Len(s) PROVE s[q] = d[q - B + 1 - 2]
  <2>1. q \in B + 1 .. Len(s) /\ q - B \in 3 .. D + 1 /\ (q - B) - 1 = q - B + 1 - 2
    BY <1>1, <1>10, <1>11
  <2>2. e[q - B] = d[(q - B) - 1]
    BY <1>7, <2>1
  <2> QED
    BY <1>12, <2>1, <2>2
<1>15. s = F!SplitAt(Across(b, d, 1), Len(b) + 1)
  <2>1. 1 \in 1 .. Len(d)
    BY <1>1 DEF D
  <2> QED
    BY <1>9, <1>11, <1>13, <1>14, <2>1, SplitsAcross DEF h, B
<1>16. e[1].depth = d[1].depth + 1 /\ e[2].depth = d[1].depth + 1
  BY <1>2, <1>7
<1> QED
  BY <1>5, <1>6, <1>7, <1>15, <1>16 DEF s, e, t, h, D

(* add puts the digits of both numbers a level deeper. *)
LEMMA PairedIs ==
    ASSUME NEW a \in Seq(Digits), \A k \in 1 .. Len(a) : a[k].depth < Nested,
           NEW b \in Seq(Digits), \A k \in 1 .. Len(b) : b[k].depth < Nested
    PROVE  LET r == Deeper(a \o b) IN
           /\ r = F!Paired(a, b)
           /\ r \in Seq(Digits) /\ Len(r) = Len(a) + Len(b)
           /\ \A j \in 1 .. Len(a) : r[j].depth = a[j].depth + 1
           /\ \A j \in Len(a) + 1 .. Len(r) : r[j].depth = b[j - Len(a)].depth + 1
<1> DEFINE A == Len(a)
           B == Len(b)
           c == a \o b
           r == Deeper(c)
<1>1. A \in Nat /\ B \in Nat
  BY DigitsAre
<1>2. /\ c \in Seq(Digits) /\ Len(c) = A + B
      /\ \A k \in 1 .. A + B : c[k] = IF k <= A THEN a[k] ELSE b[k - A]
  BY ConcatProperties
<1> HIDE DEF c
<1>3. DOMAIN c = 1 .. A + B
  BY <1>2, LenProperties
<1>4. r = [k \in 1 .. A + B |-> digit_t(c[k].value, c[k].depth + 1)]
  BY <1>3 DEF Deeper
<1>5. r = F!Paired(a, b)
  BY <1>4 DEF F!Paired, F!Digit, digit_t, c
<1>6. ASSUME NEW k \in 1 .. A + B
      PROVE  c[k].value \in Nat /\ c[k].depth + 1 \in 0 .. Nested
  <2>1. c[k].value \in Nat /\ c[k].depth \in 0 .. Nested
    BY <1>2, DigitsAre
  <2>2. c[k].depth < Nested
    <3>1. CASE k <= A
      BY <1>1, <1>2, <3>1
    <3>2. CASE ~ (k <= A)
      <4>1. k - A \in 1 .. B
        BY <1>1, <3>2
      <4> QED
        BY <1>2, <3>2, <4>1
    <3> QED
      BY <3>1, <3>2
  <2>3. \A x \in 0 .. Nested : x < Nested => x + 1 \in 0 .. Nested
    BY Rooms
  <2> QED
    BY <2>1, <2>2, <2>3
<1>7. ASSUME NEW k \in 1 .. A + B
      PROVE  /\ digit_t(c[k].value, c[k].depth + 1) \in Digits
             /\ digit_t(c[k].value, c[k].depth + 1).depth = c[k].depth + 1
  BY <1>6, DigitChanges
<1>8. r \in [1 .. A + B -> Digits] /\ A + B \in Nat
  BY <1>1, <1>4, <1>7
<1>9. r \in Seq(Digits) /\ Len(r) = A + B
  BY <1>8, IsSequence
<1>10. ASSUME NEW k \in 1 .. A + B PROVE r[k].depth = c[k].depth + 1
  BY <1>4, <1>7
<1> HIDE DEF r
<1>11. \A j \in 1 .. A : r[j].depth = a[j].depth + 1
  <2>1. \A j \in 1 .. A : j \in 1 .. A + B /\ j <= A
    BY <1>1
  <2> QED
    BY <1>2, <1>10, <2>1
<1>12. \A j \in A + 1 .. A + B : r[j].depth = b[j - A].depth + 1
  <2>1. \A j \in A + 1 .. A + B : j \in 1 .. A + B /\ ~ (j <= A)
    BY <1>1
  <2> QED
    BY <1>2, <1>10, <2>1
<1> QED
  BY <1>5, <1>9, <1>11, <1>12 DEF r, c, A, B

-----------------------------------------------------------------------------
(* What the rules do to a tree.                                              *)

(* The first of the too deep digits is followed by another one: both are a    *)
(* pair, which explodes.                                                     *)
LEMMA FirstDeep ==
    ASSUME NEW n, Tree(n), NEW k \in 1 .. Len(n), n[k].depth = Nested,
           \A j \in 1 .. k - 1 : n[j].depth # Nested
    PROVE  /\ k < Len(n) /\ n[k + 1].depth = Nested
           /\ F!TooDeep(n) # {} /\ F!Exploded(n) = F!ExplodedAt(n, k)
           /\ Tree(F!ExplodedAt(n, k))
<1> DEFINE L == Len(n)
           r == F!ExplodedAt(n, k)
<1>1. PICK pos : n \in Seq(Digits) /\ Placed(n, pos)
  BY DEF Tree
<1>2. L \in Nat /\ k \in Nat /\ k >= 1 /\ k <= L /\ Nested \in Nat /\ Nested > 1
  BY <1>1, DigitsAre, Rooms
<1>3. k > 1 => n[k - 1].depth < n[k].depth
  <2>1. SUFFICES ASSUME k > 1 PROVE n[k - 1].depth < n[k].depth
    OBVIOUS
  <2>2. k - 1 \in 1 .. k - 1 /\ k - 1 \in 1 .. L
    BY <1>2, <2>1
  <2>3. n[k - 1].depth # Nested /\ n[k - 1].depth \in 0 .. Nested
    BY <1>1, <2>2, DigitsAre
  <2> QED
    BY <1>2, <2>3
<1>4. k < L
  <2>1. ASSUME k = L PROVE FALSE
    <3>1. n[k].depth = 0
      BY <1>1, <1>3, <2>1, LastIsSecond
    <3> QED
      BY <1>2, <3>1
  <2> QED
    BY <1>2, <2>1
<1>5. k + 1 \in 1 .. L /\ k \in 1 .. L - 1
  BY <1>2, <1>4
<1>6. n[k + 1].depth = Nested
  <2>1. n[k].depth <= n[k + 1].depth
    BY <1>1, <1>3, <1>4, NextIsAsDeep
  <2>2. n[k + 1].depth \in 0 .. Nested
    BY <1>1, <1>5, DigitsAre
  <2> QED
    BY <1>2, <2>1, <2>2
<1>7. k \in F!TooDeep(n) /\ F!TooDeep(n) \in SUBSET Nat
  BY <1>2 DEF F!TooDeep
<1>8. \A l \in F!TooDeep(n) : k <= l
  <2>1. SUFFICES ASSUME NEW l \in F!TooDeep(n), ~ (k <= l) PROVE FALSE
    OBVIOUS
  <2>2. l \in 1 .. L /\ n[l].depth = Nested
    BY DEF F!TooDeep
  <2>3. l \in 1 .. k - 1
    BY <1>2, <2>1, <2>2
  <2> QED
    BY <2>2, <2>3
<1>9. F!Exploded(n) = r
  <2>1. F!Leftmost(F!TooDeep(n)) = k
    BY <1>7, <1>8, LeftmostIs
  <2> QED
    BY <2>1 DEF F!Exploded
<1>10. /\ r \in Seq(Digits) /\ Len(r) = L - 1
       /\ \A j \in 1 .. k - 2 : r[j] = n[j]
       /\ k > 1 => r[k - 1] = F!Plus(n[k - 1], n[k].value)
       /\ r[k] = Zero
       /\ k + 1 < L => r[k + 1] = F!Plus(n[k + 2], n[k + 1].value)
       /\ \A j \in k + 2 .. L - 1 : r[j] = n[j + 1]
  BY <1>1, <1>5, ExplodedIs
<1>11. n[k].value \in Nat /\ n[k + 1].value \in Nat
  BY <1>1, <1>5, DigitsAre
<1> HIDE DEF r
<1>12. ASSUME NEW j \in 1 .. k - 1 PROVE r[j].depth = n[j].depth
  <2>1. CASE j \in 1 .. k - 2
    BY <1>10, <2>1
  <2>2. CASE j = k - 1
    <3>1. k > 1 /\ k - 1 \in 1 .. L
      BY <1>2, <2>2
    <3>2. n[k - 1] \in Digits
      BY <1>1, <3>1, DigitsAre
    <3>3. F!Plus(n[k - 1], n[k].value).depth = n[k - 1].depth
      BY <1>11, <3>2, DigitChanges
    <3> QED
      BY <1>10, <2>2, <3>1, <3>3
  <2> QED
    BY <1>2, <2>1, <2>2
<1>13. ASSUME NEW j \in k + 1 .. L - 1 PROVE r[j].depth = n[j + 1].depth
  <2>1. CASE j \in k + 2 .. L - 1
    BY <1>10, <2>1
  <2>2. CASE j = k + 1
    <3>1. k + 1 < L /\ k + 2 \in 1 .. L /\ j + 1 = k + 2
      BY <1>2, <2>2
    <3>2. n[k + 2] \in Digits
      BY <1>1, <3>1, DigitsAre
    <3>3. F!Plus(n[k + 2], n[k + 1].value).depth = n[k + 2].depth
      BY <1>11, <3>2, DigitChanges
    <3> QED
      BY <1>10, <2>2, <3>1, <3>3
  <2> QED
    BY <1>2, <2>1, <2>2
<1>14. r[k].depth = n[k].depth - 1 /\ n[k].depth > 0 /\ n[k + 1].depth = n[k].depth
  BY <1>2, <1>6, <1>10, DigitChanges
<1>15. Tree(r)
  <2>1. \A j \in k + 1 .. Len(r) : r[j].depth = n[j + 1].depth
    BY <1>10, <1>13
  <2> QED
    BY <1>3, <1>4, <1>10, <1>12, <1>14, <2>1, PairBecomesDigit
<1> QED
  BY <1>4, <1>6, <1>7, <1>9, <1>15 DEF r

(* The first too large digit of a number without too deep ones is split. *)
LEMMA FirstLarge ==
    ASSUME NEW n, Tree(n), \A j \in 1 .. Len(n) : n[j].depth # Nested,
           NEW k \in 1 .. Len(n), n[k].value >= Ten,
           \A j \in 1 .. k - 1 : n[j].value < Ten
    PROVE  /\ F!TooDeep(n) = {} /\ F!TooLarge(n) # {}
           /\ F!Split(n) = F!SplitAt(n, k)
           /\ Tree(F!SplitAt(n, k))
<1> DEFINE L == Len(n)
           r == F!SplitAt(n, k)
<1>1. n \in Seq(Digits)
  BY DEF Tree
<1>2. L \in Nat /\ k \in Nat /\ k >= 1 /\ k <= L /\ Nested \in Nat /\ Ten \in Nat
  BY <1>1, DigitsAre, Rooms, InputAssumption
<1>3. n[k].depth < Nested
  <2>1. n[k].depth \in 0 .. Nested /\ n[k].depth # Nested
    BY <1>1, DigitsAre
  <2> QED
    BY <1>2, <2>1
<1>4. F!TooDeep(n) = {}
  BY DEF F!TooDeep
<1>5. k \in F!TooLarge(n) /\ F!TooLarge(n) \in SUBSET Nat
  BY <1>2 DEF F!TooLarge
<1>6. \A l \in F!TooLarge(n) : k <= l
  <2>1. SUFFICES ASSUME NEW l \in F!TooLarge(n), ~ (k <= l) PROVE FALSE
    OBVIOUS
  <2>2. l \in 1 .. L /\ n[l].value >= Ten
    BY DEF F!TooLarge
  <2>3. l \in 1 .. k - 1
    BY <1>2, <2>1, <2>2
  <2>4. n[l].value < Ten /\ n[l].value \in Nat
    BY <1>1, <2>2, <2>3, DigitsAre
  <2> QED
    BY <1>2, <2>2, <2>4
<1>7. F!Split(n) = r
  <2>1. F!Leftmost(F!TooLarge(n)) = k
    BY <1>5, <1>6, LeftmostIs
  <2> QED
    BY <2>1 DEF F!Split
<1>8. /\ r \in Seq(Digits) /\ Len(r) = L + 1
      /\ n[k].value \div 2 \in Nat /\ n[k].value - n[k].value \div 2 \in Nat
      /\ n[k].depth + 1 \in 0 .. Nested
      /\ \A j \in 1 .. k - 1 : r[j] = n[j]
      /\ r[k] = digit_t(n[k].value \div 2, n[k].depth + 1)
      /\ r[k + 1] = digit_t(n[k].value - n[k].value \div 2, n[k].depth + 1)
      /\ \A j \in k + 2 .. L + 1 : r[j] = n[j - 1]
  BY <1>1, <1>3, SplitIs
<1> HIDE DEF r
<1>9. r[k].depth = n[k].depth + 1 /\ r[k + 1].depth = n[k].depth + 1
  <2> DEFINE half == n[k].value \div 2
             rest == n[k].value - half
             deep == n[k].depth + 1
  <2>1. half \in Nat /\ rest \in Nat /\ deep \in 0 .. Nested /\ r[k] = digit_t(half, deep) /\ r[k + 1] = digit_t(rest, deep)
    BY <1>8
  <2> HIDE DEF half, rest
  <2>2. SUFFICES r[k].depth = deep /\ r[k + 1].depth = deep
    OBVIOUS
  <2> HIDE DEF deep
  <2>3. digit_t(half, deep).depth = deep /\ digit_t(rest, deep).depth = deep
    BY <2>1, DigitChanges
  <2> QED
    BY <2>1, <2>3
<1>10. Tree(r)
  BY <1>3, <1>8, <1>9, DigitBecomesPair
<1> QED
  BY <1>4, <1>5, <1>7, <1>10 DEF r

-----------------------------------------------------------------------------
(* The turns of fast_reduce.                                                 *)

(* What is left to read of the source is all of it, or nothing; or its next   *)
(* digit has been copied to the target.                                      *)
LEMMA AcrossAll ==
    ASSUME NEW b \in Seq(Digits), NEW d \in Seq(Digits)
    PROVE  /\ Len(b) = 0 => Across(b, d, 1) = d
           /\ Across(b, d, Len(d) + 1) = b
           /\ \A j \in 1 .. Len(d) :
                 /\ Append(b, d[j]) \in Seq(Digits)
                 /\ Len(Append(b, d[j])) = Len(b) + 1
                 /\ \A k \in 1 .. Len(b) : Append(b, d[j])[k] = b[k]
                 /\ Append(b, d[j])[Len(b) + 1] = d[j]
                 /\ Across(Append(b, d[j]), d, j + 1) = Across(b, d, j)
<1> DEFINE B == Len(b)
           D == Len(d)
<1>1. B \in Nat /\ D \in Nat
  BY DigitsAre
<1>2. ASSUME B = 0 PROVE Across(b, d, 1) = d
  <2> DEFINE s == Across(b, d, 1)
  <2>1. 1 \in 1 .. D + 1
    BY <1>1
  <2>2. /\ s \in Seq(Digits) /\ Len(s) = B + (D - 1 + 1)
        /\ \A k \in B + 1 .. Len(s) : s[k] = d[k - B + 1 - 1]
    BY <2>1, AcrossIs
  <2> HIDE DEF s
  <2>3. Len(s) = D
    BY <1>1, <1>2, <2>2
  <2>4. ASSUME NEW k \in 1 .. Len(s) PROVE s[k] = d[k]
    <3>1. k \in B + 1 .. Len(s) /\ k - B + 1 - 1 = k
      BY <1>2
    <3> QED
      BY <2>2, <3>1
  <2>5. s = d
    BY <2>2, <2>3, <2>4, SeqEqual
  <2> QED
    BY <2>5 DEF s
<1>3. Across(b, d, D + 1) = b
  <2> DEFINE s == Across(b, d, D + 1)
  <2>1. D + 1 \in 1 .. D + 1
    BY <1>1
  <2>2. /\ s \in Seq(Digits) /\ Len(s) = B + (D - (D + 1) + 1)
        /\ \A k \in 1 .. B : s[k] = b[k]
    BY <2>1, AcrossIs
  <2> HIDE DEF s
  <2>3. Len(s) = B
    BY <1>1, <2>2
  <2>4. s = b
    BY <2>2, <2>3, SeqEqual
  <2> QED
    BY <2>4 DEF s
<1>4. ASSUME NEW j \in 1 .. D
      PROVE  /\ Append(b, d[j]) \in Seq(Digits)
             /\ Len(Append(b, d[j])) = B + 1
             /\ \A k \in 1 .. B : Append(b, d[j])[k] = b[k]
             /\ Append(b, d[j])[B + 1] = d[j]
             /\ Across(Append(b, d[j]), d, j + 1) = Across(b, d, j)
  <2> DEFINE c == Append(b, d[j])
             s == Across(b, d, j)
             r == Across(c, d, j + 1)
  <2>1. d[j] \in Digits
    BY DigitsAre
  <2>2. /\ c \in Seq(Digits) /\ Len(c) = B + 1
        /\ \A k \in 1 .. B : c[k] = b[k]
        /\ c[B + 1] = d[j]
    BY <2>1, AppendProperties
  <2> HIDE DEF c
  <2>3. j \in 1 .. D + 1 /\ j + 1 \in 1 .. D + 1
    BY <1>1
  <2>4. /\ s \in Seq(Digits) /\ Len(s) = B + (D - j + 1)
        /\ \A k \in 1 .. B : s[k] = b[k]
        /\ \A k \in B + 1 .. Len(s) : s[k] = d[k - B + j - 1]
    BY <2>3, AcrossIs
  <2>5. /\ r \in Seq(Digits) /\ Len(r) = Len(c) + (D - (j + 1) + 1)
        /\ \A k \in 1 .. Len(c) : r[k] = c[k]
        /\ \A k \in Len(c) + 1 .. Len(r) : r[k] = d[k - Len(c) + (j + 1) - 1]
    BY <2>2, <2>3, AcrossIs
  <2> HIDE DEF r, s, B, D
  <2>6. Len(r) = Len(s) /\ Len(s) \in Nat
    BY <1>1, <2>2, <2>4, <2>5
  <2>7. ASSUME NEW k \in 1 .. Len(s) PROVE r[k] = s[k]
    <3>1. CASE k \in 1 .. B
      <4>1. k \in 1 .. Len(c)
        BY <1>1, <2>2, <3>1
      <4> QED
        BY <2>2, <2>4, <2>5, <3>1, <4>1
    <3>2. CASE k = B + 1
      <4>1. k \in 1 .. Len(c) /\ k \in B + 1 .. Len(s) /\ k - B + j - 1 = j
        BY <1>1, <2>2, <3>2
      <4> QED
        BY <2>2, <2>4, <2>5, <3>2, <4>1
    <3>3. CASE k > B + 1
      <4>1. k \in B + 1 .. Len(s) /\ k \in Len(c) + 1 .. Len(r)
        BY <1>1, <2>2, <2>6, <3>3
      <4>2. k - Len(c) + (j + 1) - 1 = k - B + j - 1
        BY <1>1, <2>2
      <4> QED
        BY <2>4, <2>5, <4>1, <4>2
    <3> QED
      BY <1>1, <3>1, <3>2, <3>3
  <2>8. r = s
    BY <2>4, <2>5, <2>6, <2>7, SeqEqual
  <2> QED
    BY <2>2, <2>8 DEF c, s, r, D
<1> QED
  BY <1>2, <1>3, <1>4

(* What fast_reduce has copied to the target b, and has left in the source d  *)
(* from j on: the target has no digit that is too deep and, in the second    *)
(* pass, none that is too large; in the source a pair explodes before        *)
(* anything else is read.                                                    *)
Scanned(b, d, j, only) ==
    /\ b \in Seq(Digits) /\ d \in Seq(Digits) /\ j \in 1 .. Len(d) + 1
    /\ Len(d) <= MAX_DIGITS
    /\ Tree(Across(b, d, j))
    /\ \A k \in 1 .. Len(b) : b[k].depth # Nested
    /\ only /\ Len(b) = 0 => j = 1 /\ d[1].depth # Nested
    /\ ~only => /\ \A k \in 1 .. Len(b) : b[k].value < Ten
                /\ \A k \in j .. Len(d) :
                      d[k].depth = Nested => d[j].depth = Nested /\ k <= j + 1

(* A buffer has room for a tree. *)
LEMMA SizeFits ==
    F!Size[Nested] \in Nat /\ MAX_DIGITS \in Nat /\ F!Size[Nested] <= MAX_DIGITS
<1>1. 0 \in 0 .. Nested
  BY Rooms
<1>2. F!Size[Nested] \in Nat
  BY <1>1, Rooms
<1>3. MAX_DIGITS \in Nat /\ MAX_DIGITS >= F!Size[Nested]
  BY InputAssumption
<1> QED
  BY <1>2, <1>3

(* The target has room, and the digit that is read next is the first of the   *)
(* number that the target does not have.                                     *)
LEMMA NextIsRead ==
    ASSUME NEW b, NEW d, NEW j, NEW only, Scanned(b, d, j, only)
    PROVE  /\ Len(b) \in Nat /\ Len(d) \in Nat /\ j \in 1 .. Len(d) + 1
           /\ Len(b) <= MAX_DIGITS
           /\ Across(b, d, j) \in Seq(Digits)
           /\ Len(Across(b, d, j)) = Len(b) + (Len(d) - j + 1)
           /\ \A k \in 1 .. Len(b) : Across(b, d, j)[k] = b[k]
           /\ \A k \in 1 .. (Len(b) + 1) - 1 : Across(b, d, j)[k].depth # Nested
           /\ j <= Len(d) => /\ Len(b) + 1 \in 1 .. Len(Across(b, d, j))
                             /\ Across(b, d, j)[Len(b) + 1] = d[j]
<1> DEFINE B == Len(b)
           D == Len(d)
           s == Across(b, d, j)
<1>1. b \in Seq(Digits) /\ d \in Seq(Digits) /\ j \in 1 .. D + 1 /\ Tree(s)
  BY DEF Scanned
<1>2. /\ s \in Seq(Digits) /\ B \in Nat /\ D \in Nat
      /\ Len(s) = B + (D - j + 1)
      /\ \A k \in 1 .. B : s[k] = b[k]
      /\ \A k \in B + 1 .. Len(s) : s[k] = d[k - B + j - 1]
  BY <1>1, AcrossIs
<1>3. Len(s) \in 1 .. F!Size[Nested]
  BY <1>1, DigitsFit
<1>4. F!Size[Nested] <= MAX_DIGITS /\ F!Size[Nested] \in Nat /\ MAX_DIGITS \in Nat
  BY SizeFits
<1> HIDE DEF s, B, D
<1>5. B <= MAX_DIGITS
  BY <1>1, <1>2, <1>3, <1>4
<1>6. \A k \in 1 .. (B + 1) - 1 : s[k].depth # Nested
  <2>1. \A k \in 1 .. (B + 1) - 1 : k \in 1 .. B
    BY <1>2
  <2>2. \A k \in 1 .. B : b[k].depth # Nested
    BY DEF Scanned, B
  <2> QED
    BY <1>2, <2>1, <2>2
<1>7. ASSUME j <= D PROVE B + 1 \in 1 .. Len(s) /\ s[B + 1] = d[j]
  <2>1. B + 1 \in 1 .. Len(s) /\ B + 1 \in B + 1 .. Len(s) /\ (B + 1) - B + j - 1 = j
    BY <1>1, <1>2, <1>7
  <2>2. s[B + 1] = d[(B + 1) - B + j - 1]
    BY <1>2, <2>1
  <2> QED
    BY <2>1, <2>2
<1> QED
  BY <1>1, <1>2, <1>5, <1>6, <1>7 DEF s, B, D

(* A digit that is read and too deep explodes with the one behind it. *)
LEMMA ReadExplodes ==
    ASSUME NEW b, NEW d, NEW j, NEW only, Scanned(b, d, j, only),
           j <= Len(d), d[j].depth = Nested
    PROVE  /\ b \in Seq(Digits) /\ d \in Seq(Digits) /\ j \in 1 .. Len(d) - 1
           /\ F!TooDeep(Across(b, d, j)) # {}
           /\ F!Exploded(Across(b, d, j)) = F!ExplodedAt(Across(b, d, j), Len(b) + 1)
           /\ Tree(F!ExplodedAt(Across(b, d, j), Len(b) + 1))
           /\ only => Len(b) > 0
<1> DEFINE B == Len(b)
           D == Len(d)
           s == Across(b, d, j)
<1>1. b \in Seq(Digits) /\ d \in Seq(Digits) /\ Tree(s)
  BY DEF Scanned
<1>2. /\ B \in Nat /\ D \in Nat /\ j \in 1 .. D + 1
      /\ Len(s) = B + (D - j + 1)
      /\ \A k \in 1 .. (B + 1) - 1 : s[k].depth # Nested
      /\ B + 1 \in 1 .. Len(s) /\ s[B + 1] = d[j]
  BY NextIsRead
<1> HIDE DEF s
<1>3. /\ B + 1 < Len(s)
      /\ F!TooDeep(s) # {} /\ F!Exploded(s) = F!ExplodedAt(s, B + 1)
      /\ Tree(F!ExplodedAt(s, B + 1))
  BY <1>1, <1>2, FirstDeep
<1>4. j \in 1 .. D - 1
  <2> HIDE DEF B, D
  <2> QED
    BY <1>2, <1>3
<1>5. only => B > 0
  <2>1. SUFFICES ASSUME only, B = 0 PROVE FALSE
    BY <1>2
  <2>2. j = 1 /\ d[1].depth # Nested
    BY <2>1 DEF Scanned
  <2> QED
    BY <2>2
<1> QED
  BY <1>1, <1>3, <1>4, <1>5 DEF s

(* explode_left_copied explodes. *)
LEMMA CopiedTurn ==
    ASSUME NEW b, NEW d, NEW j, Scanned(b, d, j, TRUE), j <= Len(d), d[j].depth = Nested
    PROVE  LET c == Add(b, Len(b), d[j].value) IN
           /\ Len(b) > 0 /\ j < Len(d) /\ Len(Zeroed(d, j)) = Len(d)
           /\ Scanned(c, Zeroed(d, j), j + 1, TRUE)
           /\ F!TooDeep(Across(b, d, j)) # {}
           /\ Across(c, Zeroed(d, j), j + 1) = F!Exploded(Across(b, d, j))
<1> DEFINE c == Add(b, Len(b), d[j].value)
           z == Zeroed(d, j)
<1>1. /\ b \in Seq(Digits) /\ d \in Seq(Digits) /\ j \in 1 .. Len(d) - 1
      /\ F!TooDeep(Across(b, d, j)) # {}
      /\ F!Exploded(Across(b, d, j)) = F!ExplodedAt(Across(b, d, j), Len(b) + 1)
      /\ Tree(F!ExplodedAt(Across(b, d, j), Len(b) + 1))
      /\ Len(b) > 0
  BY ReadExplodes
<1>2. Len(b) \in Nat /\ Len(d) \in Nat
  BY <1>1, DigitsAre
<1>3. /\ c \in Seq(Digits) /\ Len(c) = Len(b)
      /\ \A k \in 1 .. Len(b) : c[k].depth = b[k].depth
      /\ Across(c, z, j + 1) = F!ExplodedAt(Across(b, d, j), Len(b) + 1)
  BY <1>1, LeftIsCopied
<1>4. z \in Seq(Digits) /\ Len(z) = Len(d)
  BY <1>1, ZeroedIs
<1> HIDE DEF c, z
<1>5. Len(d) <= MAX_DIGITS /\ \A k \in 1 .. Len(b) : b[k].depth # Nested
  BY DEF Scanned
<1>6. Scanned(c, z, j + 1, TRUE)
  <2>1. j + 1 \in 1 .. Len(z) + 1
    BY <1>1, <1>2, <1>4
  <2>2. Tree(Across(c, z, j + 1))
    BY <1>1, <1>3
  <2>3. \A k \in 1 .. Len(c) : c[k].depth # Nested
    BY <1>3, <1>5
  <2>4. Len(c) # 0 /\ Len(z) <= MAX_DIGITS
    BY <1>1, <1>2, <1>3, <1>4, <1>5
  <2> QED
    BY <1>3, <1>4, <2>1, <2>2, <2>3, <2>4 DEF Scanned
<1>7. j < Len(d)
  BY <1>1, <1>2
<1> QED
  BY <1>1, <1>3, <1>4, <1>6, <1>7 DEF c, z

(* No too deep digit is left behind the pair that explodes in the second pass. *)
LEMMA NoneIsLeft ==
    ASSUME NEW b, NEW d, NEW j, Scanned(b, d, j, FALSE), j <= Len(d), d[j].depth = Nested
    PROVE  /\ Zeroed(d, j) \in Seq(Digits) /\ Len(Zeroed(d, j)) = Len(d)
           /\ \A k \in j + 1 .. Len(d) : Zeroed(d, j)[k].depth # Nested
<1> DEFINE D == Len(d)
           z == Zeroed(d, j)
<1>1. d \in Seq(Digits) /\ j \in 1 .. Len(d) - 1
  BY ReadExplodes
<1>2. D \in Nat /\ j \in Nat /\ j >= 1 /\ j + 1 <= D /\ j + 1 \in 1 .. D
  BY <1>1, DigitsAre
<1>3. /\ z \in Seq(Digits) /\ Len(z) = D
      /\ z[j + 1] = Zero
      /\ j + 2 <= D => z[j + 2] = F!Plus(d[j + 2], d[j + 1].value)
      /\ \A k \in 1 .. D : k # j + 1 /\ k # j + 2 => z[k] = d[k]
  BY <1>1, ZeroedIs
<1> HIDE DEF z
<1>4. \A k \in j .. D : d[k].depth = Nested => k <= j + 1
  BY DEF Scanned
<1> HIDE DEF D
<1>5. ASSUME NEW k \in j + 1 .. D PROVE z[k].depth # Nested
  <2>1. k \in j .. D /\ k \in 1 .. D /\ k \in Nat
    BY <1>2
  <2>2. CASE k = j + 1
    <3>1. Zero.depth = Nested - 1 /\ Nested \in Nat
      BY DigitChanges, Rooms
    <3> QED
      BY <1>3, <2>2, <3>1
  <2>3. CASE k # j + 1
    <3>1. d[k].depth # Nested
      <4>1. ~ (k <= j + 1)
        BY <1>2, <2>1, <2>3
      <4> QED
        BY <1>4, <2>1, <4>1
    <3>2. CASE k = j + 2
      <4>1. d[j + 2] \in Digits /\ d[j + 1].value \in Nat
        BY <1>1, <1>2, <2>1, <3>2, DigitsAre DEF D
      <4>2. F!Plus(d[j + 2], d[j + 1].value).depth = d[j + 2].depth
        BY <4>1, DigitChanges
      <4>3. j + 2 <= D
        BY <2>1, <3>2
      <4> QED
        BY <1>3, <3>1, <3>2, <4>2, <4>3
    <3>3. CASE k # j + 2
      BY <1>3, <2>1, <2>3, <3>1, <3>3
    <3> QED
      BY <3>2, <3>3
  <2> QED
    BY <2>2, <2>3
<1> QED
  BY <1>3, <1>5 DEF z, D

(* explode_takes_back explodes. *)
LEMMA TakesBackTurn ==
    ASSUME NEW b, NEW d, NEW j, Scanned(b, d, j, FALSE), j <= Len(d), d[j].depth = Nested,
           Len(b) > 0
    PROVE  LET e == [Zeroed(d, j) EXCEPT ![j] = F!Plus(b[Len(b)], d[j].value)] IN
           /\ j < Len(d) /\ Len(e) = Len(d)
           /\ Scanned(Front(b), e, j, FALSE)
           /\ F!TooDeep(Across(b, d, j)) # {}
           /\ Across(Front(b), e, j) = F!Exploded(Across(b, d, j))
<1> DEFINE z == Zeroed(d, j)
           x == F!Plus(b[Len(b)], d[j].value)
           e == [z EXCEPT ![j] = x]
           c == Front(b)
<1>1. /\ b \in Seq(Digits) /\ d \in Seq(Digits) /\ j \in 1 .. Len(d) - 1
      /\ F!TooDeep(Across(b, d, j)) # {}
      /\ F!Exploded(Across(b, d, j)) = F!ExplodedAt(Across(b, d, j), Len(b) + 1)
      /\ Tree(F!ExplodedAt(Across(b, d, j), Len(b) + 1))
  BY ReadExplodes
<1>2. Len(b) \in Nat /\ Len(d) \in Nat /\ j \in 1 .. Len(d) /\ Len(b) \in 1 .. Len(b)
  BY <1>1, DigitsAre
<1>3. /\ c \in Seq(Digits) /\ Len(c) = Len(b) - 1
      /\ \A k \in 1 .. Len(b) - 1 : c[k] = b[k]
      /\ e \in Seq(Digits) /\ Len(e) = Len(d)
      /\ Across(c, e, j) = F!ExplodedAt(Across(b, d, j), Len(b) + 1)
  BY <1>1, LeftIsTakenBack
<1>4. /\ z \in Seq(Digits) /\ Len(z) = Len(d)
      /\ \A k \in j + 1 .. Len(d) : z[k].depth # Nested
  BY NoneIsLeft
<1>5. /\ Len(d) <= MAX_DIGITS
      /\ \A k \in 1 .. Len(b) : b[k].depth # Nested /\ b[k].value < Ten
  BY DEF Scanned
<1>6. x \in Digits /\ x.depth # Nested
  <2>1. b[Len(b)] \in Digits /\ d[j].value \in Nat
    BY <1>1, <1>2, DigitsAre
  <2>2. x \in Digits /\ x.depth = b[Len(b)].depth
    BY <2>1, DigitChanges
  <2>3. b[Len(b)].depth # Nested
    BY <1>2, <1>5
  <2> QED
    BY <2>2, <2>3
<1> HIDE DEF x, z, c
<1>7. \A k \in 1 .. Len(d) : e[k] = IF k = j THEN x ELSE z[k]
  BY <1>2, <1>4, <1>6, ExceptSeq
<1> HIDE DEF e
<1>8. ASSUME NEW k \in j .. Len(d) PROVE e[k].depth # Nested
  <2>1. k \in 1 .. Len(d) /\ (k = j \/ (k \in j + 1 .. Len(d) /\ k # j))
    BY <1>2
  <2> QED
    BY <1>4, <1>6, <1>7, <2>1
<1>9. Scanned(c, e, j, FALSE)
  <2>1. \A k \in 1 .. Len(c) : k \in 1 .. Len(b) - 1 /\ k \in 1 .. Len(b)
    BY <1>2, <1>3
  <2>2. \A k \in 1 .. Len(c) : c[k].depth # Nested /\ c[k].value < Ten
    BY <1>3, <1>5, <2>1
  <2>3. \A k \in j .. Len(e) : e[k].depth # Nested
    BY <1>3, <1>8
  <2>4. Tree(Across(c, e, j)) /\ Len(e) <= MAX_DIGITS /\ j \in 1 .. Len(e) + 1
    BY <1>1, <1>2, <1>3, <1>5
  <2> QED
    BY <1>3, <2>2, <2>3, <2>4 DEF Scanned
<1>10. j < Len(d)
  BY <1>1, <1>2
<1> QED
  BY <1>1, <1>3, <1>9, <1>10 DEF c, e, x, z

(* explode_leftmost explodes. *)
LEMMA LeftmostTurn ==
    ASSUME NEW b, NEW d, NEW j, Scanned(b, d, j, FALSE), j <= Len(d), d[j].depth = Nested,
           Len(b) = 0
    PROVE  /\ j < Len(d) /\ Len(Zeroed(d, j)) = Len(d)
           /\ Scanned(b, Zeroed(d, j), j + 1, FALSE)
           /\ F!TooDeep(Across(b, d, j)) # {}
           /\ Across(b, Zeroed(d, j), j + 1) = F!Exploded(Across(b, d, j))
<1> DEFINE z == Zeroed(d, j)
<1>1. /\ b \in Seq(Digits) /\ d \in Seq(Digits) /\ j \in 1 .. Len(d) - 1
      /\ F!TooDeep(Across(b, d, j)) # {}
      /\ F!Exploded(Across(b, d, j)) = F!ExplodedAt(Across(b, d, j), Len(b) + 1)
      /\ Tree(F!ExplodedAt(Across(b, d, j), Len(b) + 1))
  BY ReadExplodes
<1>2. Len(d) \in Nat /\ Len(b) + 1 = 1
  BY <1>1, DigitsAre
<1>3. Across(b, z, j + 1) = F!ExplodedAt(Across(b, d, j), 1)
  BY <1>1, LeftIsDropped
<1>4. /\ z \in Seq(Digits) /\ Len(z) = Len(d)
      /\ \A k \in j + 1 .. Len(d) : z[k].depth # Nested
  BY NoneIsLeft
<1> HIDE DEF z
<1>5. /\ Len(d) <= MAX_DIGITS
      /\ \A k \in 1 .. Len(b) : b[k].depth # Nested /\ b[k].value < Ten
  BY DEF Scanned
<1>6. Scanned(b, z, j + 1, FALSE)
  <2>1. Tree(Across(b, z, j + 1))
    BY <1>1, <1>2, <1>3
  <2>2. j + 1 \in 1 .. Len(z) + 1 /\ Len(z) <= MAX_DIGITS
    BY <1>1, <1>2, <1>4, <1>5
  <2>3. \A k \in j + 1 .. Len(z) : z[k].depth # Nested
    BY <1>4
  <2> QED
    BY <1>1, <1>4, <1>5, <2>1, <2>2, <2>3 DEF Scanned
<1>7. j < Len(d)
  BY <1>1, <1>2
<1> QED
  BY <1>1, <1>2, <1>3, <1>4, <1>6, <1>7 DEF z

(* In the second pass a digit that is read, too large and not too deep is the *)
(* one to split.                                                             *)
LEMMA ReadSplits ==
    ASSUME NEW b, NEW d, NEW j, Scanned(b, d, j, FALSE),
           j <= Len(d), d[j].depth # Nested, d[j].value >= Ten
    PROVE  /\ b \in Seq(Digits) /\ d \in Seq(Digits) /\ j \in 1 .. Len(d)
           /\ d[j].depth < Nested
           /\ \A k \in j .. Len(d) : d[k].depth # Nested
           /\ F!TooDeep(Across(b, d, j)) = {} /\ F!TooLarge(Across(b, d, j)) # {}
           /\ F!Split(Across(b, d, j)) = F!SplitAt(Across(b, d, j), Len(b) + 1)
           /\ Tree(F!SplitAt(Across(b, d, j), Len(b) + 1))
<1> DEFINE B == Len(b)
           D == Len(d)
           s == Across(b, d, j)
           only == FALSE
<1>0. Scanned(b, d, j, only)
  OBVIOUS
<1>1. b \in Seq(Digits) /\ d \in Seq(Digits) /\ Tree(s)
  BY DEF Scanned
<1>2. /\ B \in Nat /\ D \in Nat /\ j \in 1 .. D + 1
      /\ \A k \in 1 .. B : s[k] = b[k]
      /\ B + 1 \in 1 .. Len(s) /\ s[B + 1] = d[j]
  <2> HIDE DEF only
  <2>1. /\ B \in Nat /\ D \in Nat /\ j \in 1 .. D + 1
        /\ \A k \in 1 .. B : s[k] = b[k]
    BY <1>0, NextIsRead
  <2>2. B + 1 \in 1 .. Len(s) /\ s[B + 1] = d[j]
    BY <1>0, NextIsRead
  <2> QED
    BY <2>1, <2>2
<1>3. /\ Len(s) = B + (D - j + 1)
      /\ \A k \in B + 1 .. Len(s) : k - B + j - 1 \in j .. D /\ s[k] = d[k - B + j - 1]
  BY <1>1, <1>2, AcrossIs
<1>4. /\ \A k \in 1 .. B : b[k].depth # Nested /\ b[k].value < Ten
      /\ \A k \in j .. D : d[k].depth # Nested
  BY DEF Scanned
<1> HIDE DEF s
<1>5. j \in 1 .. D
  BY <1>2
<1>6. d[j].depth < Nested
  <2>1. d[j].depth \in 0 .. Nested /\ Nested \in Nat
    BY <1>1, <1>5, DigitsAre, Rooms
  <2> QED
    BY <2>1
<1>7. ASSUME NEW k \in 1 .. Len(s) PROVE s[k].depth # Nested
  <2>1. CASE k \in 1 .. B
    BY <1>2, <1>4, <2>1
  <2>2. CASE k \in B + 1 .. Len(s)
    BY <1>3, <1>4, <2>2
  <2> HIDE DEF B, D
  <2> QED
    BY <1>2, <2>1, <2>2
<1>8. \A k \in 1 .. (B + 1) - 1 : s[k].value < Ten
  <2>1. \A k \in 1 .. (B + 1) - 1 : k \in 1 .. B
    BY <1>2
  <2> QED
    BY <1>2, <1>4, <2>1
<1>9. s[B + 1].value >= Ten
  BY <1>2
<1>10. /\ F!TooDeep(s) = {} /\ F!TooLarge(s) # {}
       /\ F!Split(s) = F!SplitAt(s, B + 1)
       /\ Tree(F!SplitAt(s, B + 1))
  BY <1>1, <1>2, <1>7, <1>8, <1>9, FirstLarge
<1> QED
  BY <1>1, <1>4, <1>5, <1>6, <1>10 DEF s

(* split splits. *)
LEMMA SplitTurn ==
    ASSUME NEW b, NEW d, NEW j, Scanned(b, d, j, FALSE),
           j <= Len(d), d[j].depth # Nested, d[j].value >= Ten, j # 1
    PROVE  LET e == SplitBack(d, j) IN
           /\ Len(e) = Len(d) /\ j - 1 \in 1 .. Len(d)
           /\ Scanned(b, e, j - 1, FALSE)
           /\ F!TooDeep(Across(b, d, j)) = {} /\ F!TooLarge(Across(b, d, j)) # {}
           /\ Across(b, e, j - 1) = F!Split(Across(b, d, j))
<1> DEFINE e == SplitBack(d, j)
           deep == d[j].depth + 1
<1>1. /\ b \in Seq(Digits) /\ d \in Seq(Digits) /\ j \in 1 .. Len(d)
      /\ d[j].depth < Nested
      /\ \A k \in j .. Len(d) : d[k].depth # Nested
      /\ F!TooDeep(Across(b, d, j)) = {} /\ F!TooLarge(Across(b, d, j)) # {}
      /\ F!Split(Across(b, d, j)) = F!SplitAt(Across(b, d, j), Len(b) + 1)
      /\ Tree(F!SplitAt(Across(b, d, j), Len(b) + 1))
  BY ReadSplits
<1>2. Len(d) \in Nat /\ j - 1 \in 1 .. Len(d) /\ (j - 1) + 1 = j
  BY <1>1, DigitsAre
<1>3. /\ e \in Seq(Digits) /\ Len(e) = Len(d)
      /\ e[j - 1].depth = deep /\ e[j].depth = deep
      /\ \A k \in j + 1 .. Len(d) : e[k] = d[k]
      /\ Across(b, e, j - 1) = F!SplitAt(Across(b, d, j), Len(b) + 1)
  BY <1>1, SplitsBack
<1> HIDE DEF e, deep
<1>4. /\ Len(d) <= MAX_DIGITS
      /\ \A k \in 1 .. Len(b) : b[k].depth # Nested /\ b[k].value < Ten
  BY DEF Scanned
<1>5. ASSUME NEW k \in j - 1 .. Len(e), e[k].depth = Nested
      PROVE  e[j - 1].depth = Nested /\ k <= (j - 1) + 1
  <2>1. k = j - 1 \/ k = j \/ k \in j + 1 .. Len(d)
    BY <1>2, <1>3
  <2>2. CASE k = j - 1
    BY <1>2, <1>5, <2>2
  <2>3. CASE k = j
    BY <1>2, <1>3, <1>5, <2>3
  <2>4. ASSUME k \in j + 1 .. Len(d) PROVE FALSE
    <3>1. k \in j .. Len(d)
      BY <1>2, <2>4
    <3> QED
      BY <1>1, <1>3, <1>5, <2>4, <3>1
  <2> QED
    BY <2>1, <2>2, <2>3, <2>4
<1>6. Scanned(b, e, j - 1, FALSE)
  <2>1. j - 1 \in 1 .. Len(e) + 1 /\ Len(e) <= MAX_DIGITS
    BY <1>2, <1>3, <1>4
  <2>2. Tree(Across(b, e, j - 1))
    BY <1>1, <1>3
  <2> QED
    BY <1>1, <1>3, <1>4, <1>5, <2>1, <2>2 DEF Scanned
<1> QED
  BY <1>1, <1>2, <1>3, <1>6 DEF e

(* split_first splits, and the source has room for one more digit. *)
LEMMA SplitFirstTurn ==
    ASSUME NEW b, NEW d, Scanned(b, d, 1, FALSE),
           1 <= Len(d), d[1].depth # Nested, d[1].value >= Ten
    PROVE  LET e == HalvesOf(d[1]) \o Tail(d) IN
           /\ Scanned(b, e, 1, FALSE)
           /\ F!TooDeep(Across(b, d, 1)) = {} /\ F!TooLarge(Across(b, d, 1)) # {}
           /\ Across(b, e, 1) = F!Split(Across(b, d, 1))
<1> DEFINE e == HalvesOf(d[1]) \o Tail(d)
           deep == d[1].depth + 1
<1>1. /\ b \in Seq(Digits) /\ d \in Seq(Digits) /\ 1 \in 1 .. Len(d)
      /\ d[1].depth < Nested
      /\ \A k \in 1 .. Len(d) : d[k].depth # Nested
      /\ F!TooDeep(Across(b, d, 1)) = {} /\ F!TooLarge(Across(b, d, 1)) # {}
      /\ F!Split(Across(b, d, 1)) = F!SplitAt(Across(b, d, 1), Len(b) + 1)
      /\ Tree(F!SplitAt(Across(b, d, 1), Len(b) + 1))
  BY ReadSplits
<1>2. Len(d) \in Nat /\ Len(b) \in Nat /\ Len(d) > 0
  BY <1>1, DigitsAre
<1>3. /\ e \in Seq(Digits) /\ Len(e) = Len(d) + 1
      /\ e[1].depth = deep /\ e[2].depth = deep
      /\ \A k \in 3 .. Len(e) : e[k] = d[k - 1]
      /\ Across(b, e, 1) = F!SplitAt(Across(b, d, 1), Len(b) + 1)
  BY <1>1, <1>2, SplitsFirst
<1> HIDE DEF e, deep
<1>4. \A k \in 1 .. Len(b) : b[k].depth # Nested /\ b[k].value < Ten
  BY DEF Scanned
<1>5. ASSUME NEW k \in 1 .. Len(e), e[k].depth = Nested
      PROVE  e[1].depth = Nested /\ k <= 1 + 1
  <2>1. k = 1 \/ k = 2 \/ k \in 3 .. Len(e)
    BY <1>2, <1>3
  <2>2. CASE k = 1
    BY <1>5, <2>2
  <2>3. CASE k = 2
    BY <1>3, <1>5, <2>3
  <2>4. ASSUME k \in 3 .. Len(e) PROVE FALSE
    <3>1. k - 1 \in 1 .. Len(d)
      BY <1>2, <1>3, <2>4
    <3> QED
      BY <1>1, <1>3, <1>5, <2>4, <3>1
  <2> QED
    BY <2>1, <2>2, <2>3, <2>4
<1>6. Tree(Across(b, e, 1))
  BY <1>1, <1>3
<1>7. 1 \in 1 .. Len(e) + 1 /\ Len(e) <= MAX_DIGITS
  <2>1. 1 \in 1 .. Len(e) + 1
    BY <1>2, <1>3
  <2>2. Len(Across(b, e, 1)) = Len(b) + (Len(e) - 1 + 1)
    BY <1>1, <1>3, <2>1, AcrossIs
  <2>3. Len(Across(b, e, 1)) \in 1 .. F!Size[Nested]
    BY <1>6, DigitsFit
  <2>4. F!Size[Nested] \in Nat /\ MAX_DIGITS \in Nat /\ F!Size[Nested] <= MAX_DIGITS
    BY SizeFits
  <2> QED
    BY <1>2, <1>3, <2>1, <2>2, <2>3, <2>4
<1>8. Scanned(b, e, 1, FALSE)
  BY <1>1, <1>3, <1>4, <1>5, <1>6, <1>7 DEF Scanned
<1> QED
  BY <1>1, <1>3, <1>8 DEF e

(* copy changes nothing. *)
LEMMA CopyTurn ==
    ASSUME NEW b, NEW d, NEW j, NEW only \in BOOLEAN, Scanned(b, d, j, only),
           j <= Len(d), d[j].depth # Nested, only \/ ~ (d[j].value >= Ten)
    PROVE  /\ j \in 1 .. Len(d)
           /\ Scanned(Append(b, d[j]), d, j + 1, only)
           /\ Across(Append(b, d[j]), d, j + 1) = Across(b, d, j)
<1> DEFINE c == Append(b, d[j])
<1>1. /\ b \in Seq(Digits) /\ d \in Seq(Digits) /\ j \in 1 .. Len(d) + 1
      /\ Len(d) <= MAX_DIGITS
      /\ Tree(Across(b, d, j))
      /\ \A k \in 1 .. Len(b) : b[k].depth # Nested
      /\ ~only => /\ \A k \in 1 .. Len(b) : b[k].value < Ten
                  /\ \A k \in j .. Len(d) :
                        d[k].depth = Nested => d[j].depth = Nested /\ k <= j + 1
  BY DEF Scanned
<1>2. Len(b) \in Nat /\ Len(d) \in Nat /\ j \in 1 .. Len(d) /\ j + 1 \in 1 .. Len(d) + 1
  BY <1>1, DigitsAre
<1>3. /\ c \in Seq(Digits) /\ Len(c) = Len(b) + 1
      /\ \A k \in 1 .. Len(b) : c[k] = b[k]
      /\ c[Len(b) + 1] = d[j]
      /\ Across(c, d, j + 1) = Across(b, d, j)
  BY <1>1, <1>2, AcrossAll
<1> HIDE DEF c
<1>4. \A k \in 1 .. Len(c) : k \in 1 .. Len(b) \/ k = Len(b) + 1
  BY <1>2, <1>3
<1>5. \A k \in 1 .. Len(c) : c[k].depth # Nested
  BY <1>1, <1>3, <1>4
<1>6. ASSUME ~only
      PROVE  /\ \A k \in 1 .. Len(c) : c[k].value < Ten
             /\ \A k \in j + 1 .. Len(d) : d[k].depth # Nested
  <2>1. d[j].value < Ten
    <3>1. d[j].value \in Nat /\ Ten \in Nat /\ ~ (d[j].value >= Ten)
      BY <1>1, <1>2, <1>6, DigitsAre, InputAssumption
    <3> QED
      BY <3>1
  <2>2. \A k \in 1 .. Len(c) : c[k].value < Ten
    BY <1>1, <1>3, <1>4, <1>6, <2>1
  <2>3. \A k \in j + 1 .. Len(d) : k \in j .. Len(d)
    BY <1>2
  <2> QED
    BY <1>1, <1>6, <2>2, <2>3
<1>7. Len(c) # 0
  BY <1>2, <1>3
<1>8. Tree(Across(c, d, j + 1))
  BY <1>1, <1>3
<1>9. Scanned(c, d, j + 1, only)
  BY <1>1, <1>2, <1>3, <1>5, <1>6, <1>7, <1>8 DEF Scanned
<1> QED
  BY <1>2, <1>3, <1>9 DEF c

(* The first pass begins with the first pair, if that is too deep. *)
LEMMA BeginsFirst ==
    ASSUME NEW d, Tree(d), Len(d) <= MAX_DIGITS, d[1].depth = Nested
    PROVE  LET e == IF Len(d) # 2 THEN Add(d, 3, d[2].value) ELSE d IN
           /\ Len(e) = Len(d)
           /\ Scanned(<<Zero>>, e, 3, TRUE)
           /\ F!TooDeep(d) # {}
           /\ Across(<<Zero>>, e, 3) = F!Exploded(d)
<1> DEFINE e == IF Len(d) # 2 THEN Add(d, 3, d[2].value) ELSE d
           b == <<Zero>>
<1>1. d \in Seq(Digits) /\ 1 \in 1 .. Len(d) /\ Len(d) \in Nat
  BY DigitsFit, DigitsAre DEF Tree
<1>2. /\ 1 < Len(d) /\ F!TooDeep(d) # {}
      /\ F!Exploded(d) = F!ExplodedAt(d, 1) /\ Tree(F!ExplodedAt(d, 1))
  BY <1>1, FirstDeep
<1>3. /\ e \in Seq(Digits) /\ Len(e) = Len(d)
      /\ b \in Seq(Digits) /\ Len(b) = 1
      /\ Across(b, e, 3) = F!ExplodedAt(d, 1)
  BY <1>1, <1>2, FirstExplodes
<1>4. b[1].depth # Nested
  <2>1. b[1] = Zero /\ Zero.depth = Nested - 1 /\ Nested \in Nat
    BY DigitChanges, Rooms
  <2> QED
    BY <2>1
<1> HIDE DEF e, b
<1>5. Scanned(b, e, 3, TRUE)
  <2>1. 3 \in 1 .. Len(e) + 1 /\ Len(e) <= MAX_DIGITS
    BY <1>1, <1>2, <1>3
  <2>2. \A k \in 1 .. Len(b) : k = 1
    BY <1>3
  <2>3. Tree(Across(b, e, 3)) /\ Len(b) # 0
    BY <1>2, <1>3
  <2> QED
    BY <1>3, <1>4, <2>1, <2>2, <2>3 DEF Scanned
<1> QED
  BY <1>2, <1>3, <1>5 DEF e, b

(* Otherwise a pass begins with an empty target. *)
LEMMA BeginsEmpty ==
    ASSUME NEW d, Tree(d), Len(d) <= MAX_DIGITS, NEW only \in BOOLEAN,
           ~ (only /\ d[1].depth = Nested), ~only => F!TooDeep(d) = {}
    PROVE  /\ Scanned(<<>>, d, 1, only)
           /\ Across(<<>>, d, 1) = d
<1> DEFINE b == <<>>
<1>1. d \in Seq(Digits) /\ b \in Seq(Digits) /\ Len(b) = 0 /\ Len(d) \in Nat
  BY DigitsAre DEF Tree
<1> HIDE DEF b
<1>2. Across(b, d, 1) = d
  BY <1>1, AcrossAll
<1>3. 1 \in 1 .. Len(d) + 1
  BY <1>1
<1>4. \A k \in 1 .. Len(b) : FALSE
  BY <1>1
<1>5. ~only => \A k \in 1 .. Len(d) : d[k].depth # Nested
  BY DEF F!TooDeep
<1>6. Scanned(b, d, 1, only)
  BY <1>1, <1>2, <1>3, <1>4, <1>5 DEF Scanned
<1> QED
  BY <1>2, <1>6 DEF b

(* A pass ends with the target holding all of the number. *)
LEMMA ScanEnds ==
    ASSUME NEW b, NEW d, NEW j, NEW only \in BOOLEAN, Scanned(b, d, j, only), ~ (j <= Len(d))
    PROVE  /\ Across(b, d, j) = b
           /\ Tree(b) /\ Len(b) <= MAX_DIGITS
           /\ F!TooDeep(b) = {}
           /\ ~only => F!IsReduced(b)
<1>1. /\ b \in Seq(Digits) /\ d \in Seq(Digits) /\ j \in 1 .. Len(d) + 1
      /\ Tree(Across(b, d, j))
      /\ \A k \in 1 .. Len(b) : b[k].depth # Nested
      /\ ~only => \A k \in 1 .. Len(b) : b[k].value < Ten
  BY DEF Scanned
<1>2. Len(d) \in Nat /\ Ten \in Nat
  BY <1>1, DigitsAre, InputAssumption
<1>3. j = Len(d) + 1
  BY <1>1, <1>2
<1>4. Across(b, d, j) = b
  <2>1. Across(b, d, Len(d) + 1) = b
    BY <1>1, AcrossAll
  <2> QED
    BY <1>3, <2>1
<1>5. Len(b) <= MAX_DIGITS
  BY NextIsRead
<1>6. F!TooDeep(b) = {}
  BY <1>1 DEF F!TooDeep
<1>7. ~only => F!TooLarge(b) = {}
  <2>1. SUFFICES ASSUME ~only, NEW k \in F!TooLarge(b) PROVE FALSE
    OBVIOUS
  <2>2. k \in 1 .. Len(b) /\ b[k].value >= Ten
    BY DEF F!TooLarge
  <2>3. b[k].value < Ten /\ b[k].value \in Nat
    BY <1>1, <2>1, <2>2, DigitsAre
  <2> QED
    BY <1>2, <2>2, <2>3
<1> QED
  BY <1>1, <1>4, <1>5, <1>6, <1>7 DEF F!IsReduced

-----------------------------------------------------------------------------
(* The turns of magnitude.                                                   *)

(* The stack s and the digits from j on are the tree with some of its pairs   *)
(* collapsed; a digit on the stack is deeper than the one below it, but the   *)
(* topmost may be its partner.                                               *)
Stacked(s, d, j) ==
    /\ s \in Seq(Digits) /\ d \in Seq(Digits) /\ j \in 1 .. Len(d) + 1
    /\ Tree(Across(s, d, j))
    /\ \A k \in 1 .. Len(s) - 1 :
          /\ s[k].depth <= s[k + 1].depth
          /\ k < Len(s) - 1 => s[k].depth < s[k + 1].depth

(* The two topmost digits are a pair. *)
OnePair(s) == Len(s) > 1 /\ s[Len(s) - 1].depth = s[Len(s)].depth

(* What the tree has of the stack and of the digits, and the room of the stack. *)
LEMMA StackFits ==
    ASSUME NEW s, NEW d, NEW j, Stacked(s, d, j)
    PROVE  /\ Len(s) \in Nat /\ Len(s) <= MAX_DIGITS /\ Len(d) \in Nat
           /\ Across(s, d, j) \in Seq(Digits)
           /\ Len(Across(s, d, j)) = Len(s) + (Len(d) - j + 1)
           /\ \A k \in 1 .. Len(s) : Across(s, d, j)[k] = s[k]
           /\ \A k \in Len(s) + 1 .. Len(Across(s, d, j)) :
                 Across(s, d, j)[k] = d[k - Len(s) + j - 1]
<1>1. s \in Seq(Digits) /\ d \in Seq(Digits) /\ j \in 1 .. Len(d) + 1 /\ Tree(Across(s, d, j))
  BY DEF Stacked
<1>2. /\ Len(s) \in Nat /\ Len(d) \in Nat
      /\ Across(s, d, j) \in Seq(Digits)
      /\ Len(Across(s, d, j)) = Len(s) + (Len(d) - j + 1)
      /\ \A k \in 1 .. Len(s) : Across(s, d, j)[k] = s[k]
      /\ \A k \in Len(s) + 1 .. Len(Across(s, d, j)) :
            Across(s, d, j)[k] = d[k - Len(s) + j - 1]
  BY <1>1, AcrossIs
<1>3. Len(Across(s, d, j)) \in 1 .. F!Size[Nested]
  BY <1>1, DigitsFit
<1>4. Len(s) <= MAX_DIGITS
  BY <1>1, <1>2, <1>3, SizeFits
<1> QED
  BY <1>2, <1>4

(* magnitude begins with an empty stack. *)
LEMMA StackBegins ==
    ASSUME NEW d, Tree(d)
    PROVE  Stacked(<<>>, d, 1)
<1> DEFINE s == <<>>
<1>1. d \in Seq(Digits) /\ s \in Seq(Digits) /\ Len(s) = 0 /\ Len(d) \in Nat
  BY DigitsAre DEF Tree
<1> HIDE DEF s
<1>2. Across(s, d, 1) = d
  BY <1>1, AcrossAll
<1>3. 1 \in 1 .. Len(d) + 1 /\ \A k \in 1 .. Len(s) - 1 : FALSE
  BY <1>1
<1>4. Stacked(s, d, 1)
  BY <1>1, <1>2, <1>3 DEF Stacked
<1> QED
  BY <1>4 DEF s

(* If its two topmost digits are no pair, each is deeper than the one below. *)
LEMMA StackDescends ==
    ASSUME NEW s, NEW d, NEW j, Stacked(s, d, j), ~OnePair(s)
    PROVE  \A k \in 1 .. Len(s) - 1 : s[k].depth < s[k + 1].depth
<1>1. Len(s) \in Nat /\ s \in Seq(Digits)
  BY StackFits DEF Stacked
<1>2. SUFFICES ASSUME NEW k \in 1 .. Len(s) - 1 PROVE s[k].depth < s[k + 1].depth
  OBVIOUS
<1>3. s[k].depth <= s[k + 1].depth /\ (k < Len(s) - 1 => s[k].depth < s[k + 1].depth)
  BY DEF Stacked
<1>4. CASE k < Len(s) - 1
  BY <1>3, <1>4
<1>5. CASE ~ (k < Len(s) - 1)
  <2>1. k = Len(s) - 1 /\ k + 1 = Len(s) /\ Len(s) > 1
    BY <1>1, <1>5
  <2>2. s[k].depth # s[k + 1].depth
    BY <2>1 DEF OnePair
  <2>3. s[k].depth \in Nat /\ s[k + 1].depth \in Nat
    <3>1. k \in 1 .. Len(s) /\ k + 1 \in 1 .. Len(s)
      BY <1>1
    <3> QED
      BY <1>1, <3>1, DigitsAre
  <2> QED
    BY <1>3, <2>2, <2>3
<1> QED
  BY <1>4, <1>5

(* push puts a digit on the stack that is at least as deep. *)
LEMMA PushTurn ==
    ASSUME NEW s, NEW d, NEW j, Stacked(s, d, j), ~OnePair(s), j <= Len(d)
    PROVE  Stacked(Append(s, d[j]), d, j + 1)
<1> DEFINE r == Append(s, d[j])
           n == Across(s, d, j)
           S == Len(s)
<1>1. s \in Seq(Digits) /\ d \in Seq(Digits) /\ j \in 1 .. Len(d) + 1 /\ Tree(n)
  BY DEF Stacked
<1>2. /\ S \in Nat /\ Len(d) \in Nat
      /\ n \in Seq(Digits) /\ Len(n) = S + (Len(d) - j + 1)
      /\ \A k \in 1 .. S : n[k] = s[k]
      /\ \A k \in S + 1 .. Len(n) : n[k] = d[k - S + j - 1]
  BY StackFits
<1>3. j \in 1 .. Len(d) /\ j + 1 \in 1 .. Len(d) + 1
  BY <1>1, <1>2
<1>4. /\ r \in Seq(Digits) /\ Len(r) = S + 1
      /\ \A k \in 1 .. S : r[k] = s[k]
      /\ r[S + 1] = d[j]
      /\ Across(r, d, j + 1) = n
  BY <1>1, <1>3, AcrossAll
<1> HIDE DEF r, n
<1>5. \A k \in 1 .. S - 1 : s[k].depth < s[k + 1].depth
  BY StackDescends
<1> HIDE DEF S
<1>6. n[S + 1] = d[j] /\ S + 1 \in 1 .. Len(n)
  <2>1. S + 1 \in S + 1 .. Len(n) /\ (S + 1) - S + j - 1 = j /\ S + 1 \in 1 .. Len(n)
    BY <1>2, <1>3
  <2>2. n[S + 1] = d[(S + 1) - S + j - 1]
    BY <1>2, <2>1
  <2> QED
    BY <2>1, <2>2
<1>7. ASSUME S > 0 PROVE s[S].depth <= d[j].depth
  <2>1. S \in 1 .. Len(n) /\ S < Len(n) /\ S \in 1 .. S
    BY <1>2, <1>6, <1>7
  <2>2. S > 1 => n[S - 1].depth < n[S].depth
    <3>1. SUFFICES ASSUME S > 1 PROVE n[S - 1].depth < n[S].depth
      OBVIOUS
    <3>2. S - 1 \in 1 .. S - 1 /\ S - 1 \in 1 .. S /\ (S - 1) + 1 = S
      BY <1>2, <3>1
    <3>3. s[S - 1].depth < s[S].depth
      BY <1>5, <3>2
    <3> QED
      BY <1>2, <2>1, <3>2, <3>3
  <2>3. PICK pos : Placed(n, pos)
    BY <1>1 DEF Tree
  <2>4. n[S].depth <= n[S + 1].depth
    BY <1>2, <2>1, <2>2, <2>3, NextIsAsDeep
  <2> QED
    BY <1>2, <1>6, <2>1, <2>4
<1>8. ASSUME NEW k \in 1 .. Len(r) - 1
      PROVE  /\ r[k].depth <= r[k + 1].depth
             /\ k < Len(r) - 1 => r[k].depth < r[k + 1].depth
  <2>1. k \in 1 .. S /\ k \in Nat
    BY <1>2, <1>4
  <2>2. CASE k = S
    <3>1. S > 0 /\ ~ (k < Len(r) - 1)
      BY <1>2, <1>4, <2>1, <2>2
    <3> QED
      BY <1>4, <1>7, <2>1, <2>2, <3>1
  <2>3. CASE k # S
    <3>1. k \in 1 .. S - 1 /\ k + 1 \in 1 .. S
      BY <1>2, <2>1, <2>3
    <3>2. r[k].depth < r[k + 1].depth
      BY <1>4, <1>5, <2>1, <3>1
    <3>3. r[k].depth \in Nat /\ r[k + 1].depth \in Nat
      <4>1. r[k] = s[k] /\ r[k + 1] = s[k + 1]
        BY <1>4, <2>1, <3>1
      <4>2. s[k].depth \in Nat /\ s[k + 1].depth \in Nat
        BY <1>1, <2>1, <3>1, DigitsAre DEF S
      <4> QED
        BY <4>1, <4>2
    <3> QED
      BY <3>2, <3>3
  <2> QED
    BY <2>2, <2>3
<1>9. Stacked(r, d, j + 1)
  BY <1>1, <1>3, <1>4, <1>8 DEF Stacked
<1> QED
  BY <1>9 DEF r

(* What collapse leaves on the stack. *)
Collapsed(s) ==
    Append(Front(Front(s)),
           digit_t(s[Len(s) - 1].value * 3 + s[Len(s)].value * 2, s[Len(s) - 1].depth - 1))

(* collapse replaces a pair by a digit. *)
LEMMA CollapseTurn ==
    ASSUME NEW s, NEW d, NEW j, Stacked(s, d, j), OnePair(s)
    PROVE  Stacked(Collapsed(s), d, j)
<1> DEFINE S == Len(s)
           K == S - 1
           n == Across(s, d, j)
           f == Front(Front(s))
           x == digit_t(s[K].value * 3 + s[S].value * 2, s[K].depth - 1)
           r == Append(f, x)
           t == Across(r, d, j)
<1>1. /\ s \in Seq(Digits) /\ d \in Seq(Digits) /\ j \in 1 .. Len(d) + 1 /\ Tree(n)
      /\ S > 1 /\ s[K].depth = s[S].depth
  BY DEF Stacked, OnePair
<1>2. /\ S \in Nat /\ Len(d) \in Nat
      /\ n \in Seq(Digits) /\ Len(n) = S + (Len(d) - j + 1)
      /\ \A k \in 1 .. S : n[k] = s[k]
      /\ \A k \in S + 1 .. Len(n) : n[k] = d[k - S + j - 1]
  BY StackFits
<1>3. \A k \in 1 .. K : k < K => s[k].depth < s[k + 1].depth
  BY DEF Stacked
<1>4. f \in Seq(Digits) /\ Len(f) = S - 2 /\ \A k \in 1 .. S - 2 : f[k] = s[k]
  <2> DEFINE g == Front(s)
  <2>1. g \in Seq(Digits) /\ Len(g) = S - 1 /\ \A k \in 1 .. S - 1 : g[k] = s[k]
    BY <1>1, <1>2, FrontIs
  <2>2. f = Front(g)
    OBVIOUS
  <2> HIDE DEF g, f, S
  <2>3. Len(g) > 0
    BY <1>1, <1>2, <2>1
  <2>4. f \in Seq(Digits) /\ Len(f) = Len(g) - 1 /\ \A k \in 1 .. Len(g) - 1 : f[k] = g[k]
    BY <2>1, <2>2, <2>3, FrontIs
  <2>5. Len(g) - 1 = S - 2 /\ \A k \in 1 .. S - 2 : k \in 1 .. Len(g) - 1 /\ k \in 1 .. S - 1
    BY <1>2, <2>1
  <2> QED
    BY <2>1, <2>4, <2>5
<1> HIDE DEF n, f
<1>5. K \in 1 .. S /\ K \in 1 .. Len(n) /\ S \in 1 .. S /\ K + 1 = S /\ K < Len(n) /\ K \in Nat
  <2> HIDE DEF S
  <2> QED
    BY <1>1, <1>2
<1>6. n[K] = s[K] /\ n[K + 1] = s[S]
  BY <1>2, <1>5
<1> HIDE DEF S, K
<1>7. s[K].depth # 0
  <2>1. SUFFICES ASSUME n[K].depth = 0 PROVE FALSE
    BY <1>6
  <2>2. PICK pos : Placed(n, pos)
    BY <1>1 DEF Tree
  <2>3. Len(n) = 1
    BY <1>2, <1>5, <2>1, <2>2, NotInPairs
  <2> QED
    BY <1>5, <2>3
<1>8. x \in Digits /\ x.depth = s[K].depth - 1 /\ s[K].depth > 0
  <2> DEFINE v == s[K].value * 3 + s[S].value * 2
             h == s[K].depth - 1
  <2>1. s[K].value \in Nat /\ s[S].value \in Nat /\ s[K].depth \in 0 .. Nested
    BY <1>1, <1>5, DigitsAre DEF S
  <2>2. v \in Nat /\ h \in 0 .. Nested /\ s[K].depth > 0
    <3>1. \A a, b \in Nat : a * 3 + b * 2 \in Nat
      OBVIOUS
    <3>2. \A a \in 0 .. Nested : a # 0 => a - 1 \in 0 .. Nested /\ a > 0
      BY Rooms
    <3> QED
      BY <1>7, <2>1, <3>1, <3>2
  <2> HIDE DEF v, h
  <2>3. digit_t(v, h) \in Digits /\ digit_t(v, h).depth = h
    BY <2>2, DigitChanges
  <2> QED
    BY <2>2, <2>3 DEF v, h
<1> HIDE DEF x
<1>9. /\ r \in Seq(Digits) /\ Len(r) = K
      /\ \A k \in 1 .. K - 1 : r[k] = s[k]
      /\ r[K] = x
  <2>1. /\ r \in Seq(Digits) /\ Len(r) = Len(f) + 1
        /\ \A k \in 1 .. Len(f) : r[k] = f[k]
        /\ r[Len(f) + 1] = x
    BY <1>4, <1>8, AppendProperties
  <2> HIDE DEF r
  <2>2. Len(f) + 1 = K /\ \A k \in 1 .. K - 1 : k \in 1 .. Len(f) /\ k \in 1 .. S - 2
    BY <1>2, <1>4, <1>5
  <2> QED
    BY <1>4, <2>1, <2>2
<1> HIDE DEF r
<1>10. /\ t \in Seq(Digits)
       /\ Len(t) = Len(r) + (Len(d) - j + 1)
       /\ \A k \in 1 .. Len(r) : t[k] = r[k]
       /\ \A k \in Len(r) + 1 .. Len(t) : t[k] = d[k - Len(r) + j - 1]
  <2>1. j \in 1 .. Len(d) + 1
    BY <1>1
  <2> QED
    BY <1>1, <1>9, <2>1, AcrossIs
<1> HIDE DEF t
<1>11. Len(t) = Len(n) - 1
  <2> DEFINE rest == Len(d) - j + 1
  <2>1. rest \in Int
    BY <1>1, <1>2
  <2>2. Len(t) = K + rest /\ Len(n) = S + rest
    BY <1>2, <1>9, <1>10
  <2> HIDE DEF rest
  <2> QED
    BY <1>2, <1>5, <2>1, <2>2
<1>12. \A k \in 1 .. K - 1 : t[k].depth = n[k].depth
  <2>1. \A k \in 1 .. K - 1 : k \in 1 .. Len(r) /\ k \in 1 .. S
    BY <1>2, <1>5, <1>9
  <2> QED
    BY <1>2, <1>9, <1>10, <2>1
<1>13. t[K].depth = n[K].depth - 1
  <2>1. K \in 1 .. Len(r)
    BY <1>5, <1>9
  <2> QED
    BY <1>6, <1>8, <1>9, <1>10, <2>1
<1>14. ASSUME NEW k \in K + 1 .. Len(t) PROVE t[k].depth = n[k + 1].depth
  <2>1. k \in Len(r) + 1 .. Len(t) /\ k + 1 \in S + 1 .. Len(n)
    BY <1>2, <1>5, <1>9, <1>11
  <2>2. k - Len(r) + j - 1 = (k + 1) - S + j - 1
    BY <1>1, <1>2, <1>5, <1>9
  <2>3. t[k] = d[k - Len(r) + j - 1] /\ n[k + 1] = d[(k + 1) - S + j - 1]
    BY <1>2, <1>10, <2>1
  <2> QED
    BY <2>2, <2>3
<1>15. K > 1 => n[K - 1].depth < n[K].depth
  <2>1. SUFFICES ASSUME K > 1 PROVE n[K - 1].depth < n[K].depth
    OBVIOUS
  <2>2. K - 1 \in 1 .. K /\ K - 1 < K /\ (K - 1) + 1 = K /\ K - 1 \in 1 .. S
    BY <1>2, <1>5, <2>1
  <2>3. s[K - 1].depth < s[K].depth
    BY <1>3, <2>2
  <2> QED
    BY <1>2, <1>6, <2>2, <2>3
<1>16. Tree(t)
  <2>1. n[K].depth > 0 /\ n[K + 1].depth = n[K].depth
    BY <1>1, <1>6, <1>8
  <2> QED
    BY <1>1, <1>5, <1>10, <1>11, <1>12, <1>13, <1>14, <1>15, <2>1, PairBecomesDigit
<1>17. ASSUME NEW k \in 1 .. Len(r) - 1
       PROVE  /\ r[k].depth <= r[k + 1].depth
              /\ k < Len(r) - 1 => r[k].depth < r[k + 1].depth
  <2>1. k \in 1 .. K - 1 /\ k \in 1 .. K /\ k < K /\ k \in 1 .. S /\ k + 1 \in 1 .. S /\ k \in Nat
    BY <1>2, <1>5, <1>9
  <2>2. s[k].depth < s[k + 1].depth /\ s[k].depth \in Nat /\ s[k + 1].depth \in Nat
    <3>1. s[k].depth < s[k + 1].depth
      BY <1>3, <2>1
    <3> QED
      BY <1>1, <2>1, <3>1, DigitsAre DEF S
  <2>3. CASE k = K - 1
    <3>1. r[k + 1].depth = s[k + 1].depth - 1 /\ r[k] = s[k] /\ ~ (k < Len(r) - 1)
      <4>1. k + 1 = K /\ ~ (k < Len(r) - 1)
        BY <1>5, <1>9, <2>3
      <4> QED
        BY <1>8, <1>9, <2>1, <4>1
    <3> QED
      BY <2>2, <3>1
  <2>4. CASE k # K - 1
    <3>1. k + 1 \in 1 .. K - 1
      BY <1>5, <2>1, <2>4
    <3>2. r[k] = s[k] /\ r[k + 1] = s[k + 1]
      BY <1>9, <2>1, <3>1
    <3> QED
      BY <2>2, <3>2
  <2> QED
    BY <2>3, <2>4
<1>18. Stacked(r, d, j)
  BY <1>1, <1>9, <1>16, <1>17 DEF Stacked, t
<1>19. r = Collapsed(s)
  BY DEF r, f, x, K, S, Collapsed
<1> QED
  BY <1>18, <1>19

(* In the end there is one digit on the stack. *)
LEMMA StackEnds ==
    ASSUME NEW s, NEW d, NEW j, Stacked(s, d, j), ~OnePair(s), ~ (j <= Len(d))
    PROVE  Len(s) = 1 /\ s[1].value \in Nat
<1> DEFINE S == Len(s)
<1>1. s \in Seq(Digits) /\ d \in Seq(Digits) /\ j \in 1 .. Len(d) + 1 /\ Tree(Across(s, d, j))
  BY DEF Stacked
<1>2. S \in Nat /\ Len(d) \in Nat
  BY StackFits
<1>3. Tree(s)
  <2>1. j = Len(d) + 1
    BY <1>1, <1>2
  <2>2. Across(s, d, Len(d) + 1) = s
    BY <1>1, AcrossAll
  <2> QED
    BY <1>1, <2>1, <2>2
<1>4. PICK pos : Placed(s, pos)
  BY <1>3 DEF Tree
<1>5. S \in 1 .. S
  <2>1. S \in 1 .. F!Size[Nested]
    BY <1>3, DigitsFit
  <2> HIDE DEF S
  <2> QED
    BY <2>1, SizeFits
<1>6. S > 1 => s[S - 1].depth < s[S].depth
  <2>1. SUFFICES ASSUME S > 1 PROVE s[S - 1].depth < s[S].depth
    OBVIOUS
  <2>2. \A k \in 1 .. S - 1 : s[k].depth < s[k + 1].depth
    BY StackDescends
  <2> HIDE DEF S
  <2>3. S - 1 \in 1 .. S - 1 /\ (S - 1) + 1 = S
    BY <1>2, <2>1
  <2>4. s[S - 1].depth < s[(S - 1) + 1].depth
    BY <2>2, <2>3
  <2> QED
    BY <2>3, <2>4
<1>7. s[S].depth = 0
  BY <1>1, <1>4, <1>5, <1>6, LastIsSecond
<1>8. S = 1
  BY <1>1, <1>4, <1>5, <1>7, NotInPairs
<1>9. s[S].value \in Nat
  BY <1>1, <1>5, DigitsAre
<1> QED
  BY <1>8, <1>9

-----------------------------------------------------------------------------
(* The inductive invariant.                                                  *)

(* The buffers hold a tree: read across both while fast_reduce runs, in       *)
(* digits otherwise.                                                         *)
BuffersHoldTree ==
    /\ phase = "scan" => Scanned(copy_buf, digits, i, explode_only)
    /\ phase # "scan" => Tree(digits) /\ copy_buf = <<>>
    /\ Len(digits) <= MAX_DIGITS

(* So do the stack and what magnitude has not read.                          *)
StackHoldsTree ==
    /\ phase = "magnitude" => Stacked(stack, digits, i)
    /\ phase # "magnitude" => stack = <<>>
    /\ phase \notin {"scan", "magnitude"} => i = 1

(* What the passes of reduce achieve. *)
PassesReduce ==
    /\ phase \in {"pair", "add", "magnitude"} => F!IsReduced(digits)
    /\ phase = "begin" /\ ~explode_only => F!TooDeep(digits) = {}

(* day18 is in one of its loops. *)
InLoops ==
    /\ lines \in Inputs
    /\ phase \in {"pair", "add", "begin", "scan", "magnitude", "done"}
    /\ row \in 0 .. Len(lines) + 1 /\ col \in 1 .. Len(lines)
    /\ phase = "pair" => row > 0
    /\ phase \notin {"pair", "done"} => row <= Len(lines)
    /\ row = 0 /\ phase = "magnitude" => col = Len(lines)
    /\ explode_only \in BOOLEAN
    /\ p1 \in Nat /\ max_magnitude \in {INT_MIN} \cup Nat

SumInv == BuffersHoldTree /\ StackHoldsTree /\ PassesReduce /\ InLoops

(* What is read across both buffers. *)
LEMMA SumIs ==
    /\ phase = "scan" => sum = Across(copy_buf, digits, i)
    /\ phase # "scan" => sum = digits
    /\ phase' = "scan" => sum' = Across(copy_buf', digits', i')
    /\ phase' # "scan" => sum' = digits'
BY DEF sum, Across

(* A line of the input is a reduced tree. *)
LEMMA LineIs ==
    ASSUME lines \in Inputs, NEW k \in 1 .. Len(lines)
    PROVE  /\ nums(k) \in {parsed[line] : line \in Line}
           /\ Tree(nums(k)) /\ Len(nums(k)) <= MAX_DIGITS
           /\ F!IsReduced(nums(k))
<1>1. lines \in Seq(Line) \ {<<>>}
  BY InputAssumption
<1>2. lines[k] \in Line
  BY <1>1, LenProperties
<1>3. F!IsNumber(nums(k)) /\ F!IsReduced(nums(k))
  BY <1>2, InputAssumption DEF nums
<1>4. nums(k) \in {parsed[line] : line \in Line}
  BY <1>2 DEF nums
<1>5. Tree(nums(k))
  BY <1>3, NumberIsTree
<1>6. Len(nums(k)) <= MAX_DIGITS
  BY <1>5, DigitsFit, SizeFits
<1> QED
  BY <1>3, <1>4, <1>5, <1>6

(* An input has a line. *)
LEMMA SomeLine ==
    ASSUME lines \in Inputs
    PROVE  Len(lines) \in Nat /\ Len(lines) >= 1
<1>1. lines \in Seq(Line) \ {<<>>}
  BY InputAssumption
<1>2. lines \in Seq(Line) /\ lines # <<>>
  BY <1>1
<1> QED
  BY <1>2, EmptySeq, LenProperties

(* The digits of a reduced tree are not too deep. *)
LEMMA ReducedIsShallow ==
    ASSUME NEW n, Tree(n), F!IsReduced(n)
    PROVE  n \in Seq(Digits) /\ \A k \in 1 .. Len(n) : n[k].depth < Nested
<1>1. n \in Seq(Digits)
  BY DEF Tree
<1>2. \A k \in 1 .. Len(n) : n[k].depth # Nested
  BY DEF F!IsReduced, F!TooDeep
<1>3. \A k \in 1 .. Len(n) : n[k].depth \in 0 .. Nested
  BY <1>1, DigitsAre
<1>4. \A x \in 0 .. Nested : x # Nested => x < Nested
  BY Rooms
<1> QED
  BY <1>1, <1>2, <1>3, <1>4

(* The first number is the first line. *)
LEMMA InitIsFirst ==
    ASSUME Init
    PROVE  SumInv /\ F!Init
<1>1. /\ lines \in Inputs
      /\ phase = "add" /\ row = 0 /\ col = 1
      /\ digits = nums(1) /\ copy_buf = <<>>
      /\ explode_only = TRUE /\ i = 1
      /\ stack = <<>>
      /\ p1 = 0 /\ max_magnitude = INT_MIN
  BY DEF Init
<1>2. Len(lines) \in Nat /\ Len(lines) >= 1
  BY <1>1, SomeLine
<1>3. /\ digits \in {parsed[line] : line \in Line}
      /\ Tree(digits) /\ Len(digits) <= MAX_DIGITS
      /\ F!IsReduced(digits)
  <2>1. 1 \in 1 .. Len(lines)
    BY <1>2
  <2> QED
    BY <1>1, <2>1, LineIs
<1>4. BuffersHoldTree
  BY <1>1, <1>3 DEF BuffersHoldTree
<1>5. StackHoldsTree /\ PassesReduce
  BY <1>1, <1>3 DEF StackHoldsTree, PassesReduce
<1>6. InLoops
  <2>1. row \in 0 .. Len(lines) + 1 /\ col \in 1 .. Len(lines) /\ row <= Len(lines)
    BY <1>1, <1>2
  <2> QED
    BY <1>1, <2>1 DEF InLoops
<1>7. F!Init
  <2>1. sum = digits
    BY <1>1, SumIs
  <2> QED
    BY <1>3, <2>1 DEF F!Init
<1> QED
  BY <1>4, <1>5, <1>6, <1>7 DEF SumInv

(* add is Add of the rules. *)
LEMMA AddStep ==
    ASSUME SumInv, add
    PROVE  SumInv' /\ F!Add
<1>1. /\ phase = "add"
      /\ digits' = Deeper(digits \o nums(col))
      /\ explode_only' = TRUE
      /\ phase' = "begin"
      /\ UNCHANGED <<lines, row, col, copy_buf, i, stack, p1, max_magnitude>>
  BY DEF add
<1>2. /\ Tree(digits) /\ copy_buf = <<>> /\ stack = <<>> /\ i = 1
      /\ F!IsReduced(digits)
      /\ lines \in Inputs /\ col \in 1 .. Len(lines)
      /\ row \in 0 .. Len(lines) + 1 /\ row <= Len(lines)
      /\ p1 \in Nat /\ max_magnitude \in {INT_MIN} \cup Nat
  BY <1>1 DEF SumInv, BuffersHoldTree, StackHoldsTree, PassesReduce, InLoops
<1> DEFINE b == nums(col)
<1>3. b \in {parsed[line] : line \in Line} /\ Tree(b) /\ F!IsReduced(b)
  BY <1>2, LineIs
<1> HIDE DEF b
<1>4. digits \in Seq(Digits) /\ \A k \in 1 .. Len(digits) : digits[k].depth < Nested
  BY <1>2, ReducedIsShallow
<1>5. b \in Seq(Digits) /\ \A k \in 1 .. Len(b) : b[k].depth < Nested
  BY <1>3, ReducedIsShallow
<1> DEFINE r == Deeper(digits \o b)
<1>6. /\ r = F!Paired(digits, b)
      /\ r \in Seq(Digits) /\ Len(r) = Len(digits) + Len(b)
      /\ \A j \in 1 .. Len(digits) : r[j].depth = digits[j].depth + 1
      /\ \A j \in Len(digits) + 1 .. Len(r) : r[j].depth = b[j - Len(digits)].depth + 1
  BY <1>4, <1>5, PairedIs
<1>7. digits' = r
  BY <1>1 DEF b
<1> HIDE DEF r
<1>8. Tree(r)
  BY <1>2, <1>3, <1>4, <1>5, <1>6, TwoBecomePair
<1>9. Tree(digits') /\ Len(digits') <= MAX_DIGITS
  <2>1. Len(r) <= MAX_DIGITS
    BY <1>8, DigitsFit, SizeFits
  <2> QED
    BY <1>7, <1>8, <2>1
<1>10. SumInv'
  <2>1. BuffersHoldTree'
    BY <1>1, <1>2, <1>9 DEF BuffersHoldTree
  <2>2. StackHoldsTree' /\ PassesReduce'
    BY <1>1, <1>2 DEF StackHoldsTree, PassesReduce
  <2>3. InLoops'
    BY <1>1, <1>2 DEF InLoops
  <2> QED
    BY <2>1, <2>2, <2>3 DEF SumInv
<1>11. F!Add
  <2>1. sum = digits /\ sum' = digits'
    BY <1>1, SumIs
  <2>2. sum' = F!Paired(sum, b)
    BY <1>6, <1>7, <2>1
  <2> QED
    BY <1>2, <1>3, <2>1, <2>2 DEF F!Add
<1> QED
  BY <1>10, <1>11

(* What stays true while fast_reduce runs. *)
LEMMA ScanGoesOn ==
    ASSUME SumInv, phase \in {"begin", "scan"}, phase' = "scan",
           Scanned(copy_buf', digits', i', explode_only'),
           UNCHANGED <<lines, row, col, explode_only, stack, p1, max_magnitude>>
    PROVE  SumInv'
<1>1. Len(digits') <= MAX_DIGITS
  BY DEF Scanned
<1>2. BuffersHoldTree'
  BY <1>1 DEF BuffersHoldTree
<1>3. stack = <<>>
  BY DEF SumInv, StackHoldsTree
<1>4. StackHoldsTree' /\ PassesReduce'
  BY <1>3 DEF StackHoldsTree, PassesReduce
<1>5. InLoops'
  BY DEF SumInv, InLoops
<1> QED
  BY <1>2, <1>4, <1>5 DEF SumInv

(* begin_explodes is Explode of the rules. *)
LEMMA BeginExplodesStep ==
    ASSUME SumInv, begin_explodes
    PROVE  SumInv' /\ F!Explode
<1> DEFINE e == IF Len(digits) # 2 THEN Add(digits, 3, digits[2].value) ELSE digits
           b == <<Zero>>
<1>1. /\ phase = "begin" /\ explode_only = TRUE /\ digits[1].depth = Nested
      /\ digits' = e /\ copy_buf' = b /\ i' = 3 /\ phase' = "scan"
      /\ UNCHANGED <<lines, row, col, explode_only, stack, p1, max_magnitude>>
  <2>1. explode_only \in BOOLEAN
    BY DEF SumInv, InLoops
  <2> QED
    BY <2>1 DEF begin_explodes, ExplodesFirst
<1>2. Tree(digits) /\ Len(digits) <= MAX_DIGITS
  BY <1>1 DEF SumInv, BuffersHoldTree
<1>3. /\ Scanned(b, e, 3, TRUE)
      /\ F!TooDeep(digits) # {}
      /\ Across(b, e, 3) = F!Exploded(digits)
  BY <1>1, <1>2, BeginsFirst
<1> HIDE DEF e, b
<1>4. SumInv'
  BY <1>1, <1>3, ScanGoesOn
<1>5. F!Explode
  <2>1. sum = digits /\ sum' = Across(b, e, 3)
    BY <1>1, SumIs
  <2> QED
    BY <1>3, <2>1 DEF F!Explode
<1> QED
  BY <1>4, <1>5

(* begin changes no number. *)
LEMMA BeginStep ==
    ASSUME SumInv, begin
    PROVE  SumInv' /\ sum' = sum
<1>1. /\ phase = "begin" /\ ~ (explode_only /\ digits[1].depth = Nested)
      /\ copy_buf' = <<>> /\ i' = 1 /\ phase' = "scan"
      /\ UNCHANGED <<lines, row, col, digits, explode_only, stack, p1, max_magnitude>>
  BY DEF begin, ExplodesFirst
<1>2. /\ Tree(digits) /\ Len(digits) <= MAX_DIGITS /\ explode_only \in BOOLEAN
      /\ ~explode_only => F!TooDeep(digits) = {}
  BY <1>1 DEF SumInv, BuffersHoldTree, PassesReduce, InLoops
<1>3. Scanned(<<>>, digits, 1, explode_only) /\ Across(<<>>, digits, 1) = digits
  BY <1>1, <1>2, BeginsEmpty
<1>4. SumInv'
  BY <1>1, <1>3, ScanGoesOn
<1>5. sum' = sum
  BY <1>1, <1>3, SumIs
<1> QED
  BY <1>4, <1>5

(* The state in which a digit is read. *)
LEMMA DigitIsRead ==
    ASSUME SumInv, Scanning
    PROVE  /\ phase = "scan" /\ i <= Len(digits)
           /\ Scanned(copy_buf, digits, i, explode_only)
           /\ explode_only \in BOOLEAN
           /\ sum = Across(copy_buf, digits, i)
<1>1. phase = "scan" /\ i <= Len(digits)
  BY DEF Scanning
<1> QED
  BY <1>1, SumIs DEF SumInv, BuffersHoldTree, InLoops

(* explode_left_copied is Explode of the rules. *)
LEMMA LeftCopiedStep ==
    ASSUME SumInv, explode_left_copied
    PROVE  SumInv' /\ F!Explode
<1> DEFINE c == Add(copy_buf, Len(copy_buf), digits[i].value)
           z == Zeroed(digits, i)
<1>1. /\ Scanning /\ digits[i].depth = Nested /\ explode_only
      /\ copy_buf' = c /\ digits' = z /\ i' = i + 1
      /\ UNCHANGED <<lines, phase, row, col, explode_only, stack, p1, max_magnitude>>
  BY DEF explode_left_copied, AtPair, PairToZero, Zeroed
<1>2. /\ phase = "scan" /\ i <= Len(digits)
      /\ Scanned(copy_buf, digits, i, explode_only)
      /\ explode_only = TRUE
      /\ sum = Across(copy_buf, digits, i)
  BY <1>1, DigitIsRead
<1>3. /\ Scanned(c, z, i + 1, TRUE)
      /\ F!TooDeep(Across(copy_buf, digits, i)) # {}
      /\ Across(c, z, i + 1) = F!Exploded(Across(copy_buf, digits, i))
  BY <1>1, <1>2, CopiedTurn
<1> HIDE DEF c, z
<1>4. SumInv'
  BY <1>1, <1>2, <1>3, ScanGoesOn
<1>5. F!Explode
  <2>1. sum' = Across(c, z, i + 1)
    BY <1>1, <1>2, SumIs
  <2> QED
    BY <1>2, <1>3, <2>1 DEF F!Explode
<1> QED
  BY <1>4, <1>5

(* explode_takes_back is Explode of the rules. *)
LEMMA TakesBackStep ==
    ASSUME SumInv, explode_takes_back
    PROVE  SumInv' /\ F!Explode
<1> DEFINE x == F!Plus(copy_buf[Len(copy_buf)], digits[i].value)
           e == [Zeroed(digits, i) EXCEPT ![i] = x]
           c == Front(copy_buf)
<1>1. /\ Scanning /\ digits[i].depth = Nested /\ explode_only = FALSE /\ copy_buf # <<>>
      /\ copy_buf' = c /\ digits' = e
      /\ UNCHANGED <<lines, phase, row, col, explode_only, i, stack, p1, max_magnitude>>
  <2>1. explode_only \in BOOLEAN
    BY DEF SumInv, InLoops
  <2>2. Last(copy_buf) = copy_buf[Len(copy_buf)]
    BY DEF Last
  <2>3. PairToZero = Zeroed(digits, i)
    BY DEF PairToZero, Zeroed
  <2>4. [Last(copy_buf) EXCEPT !.value = @ + digits[i].value] = x
    BY <2>2 DEF F!Plus
  <2> HIDE DEF x
  <2> QED
    BY <2>1, <2>3, <2>4 DEF explode_takes_back, AtPair
<1>2. /\ phase = "scan" /\ i <= Len(digits)
      /\ Scanned(copy_buf, digits, i, FALSE)
      /\ sum = Across(copy_buf, digits, i)
  <2>1. /\ phase = "scan" /\ i <= Len(digits)
        /\ Scanned(copy_buf, digits, i, explode_only)
        /\ sum = Across(copy_buf, digits, i)
    BY <1>1, DigitIsRead
  <2> QED
    BY <1>1, <2>1
<1>3. Len(copy_buf) > 0
  <2>1. copy_buf \in Seq(Digits)
    BY <1>2 DEF Scanned
  <2> QED
    BY <1>1, <2>1, EmptySeq, LenProperties
<1>4. /\ Scanned(c, e, i, FALSE)
      /\ F!TooDeep(Across(copy_buf, digits, i)) # {}
      /\ Across(c, e, i) = F!Exploded(Across(copy_buf, digits, i))
  BY <1>1, <1>2, <1>3, TakesBackTurn
<1> HIDE DEF c, e
<1>5. SumInv'
  BY <1>1, <1>2, <1>4, ScanGoesOn
<1>6. F!Explode
  <2>1. sum' = Across(c, e, i)
    BY <1>1, <1>2, SumIs
  <2> QED
    BY <1>2, <1>4, <2>1 DEF F!Explode
<1> QED
  BY <1>5, <1>6

(* explode_leftmost is Explode of the rules. *)
LEMMA LeftmostStep ==
    ASSUME SumInv, explode_leftmost
    PROVE  SumInv' /\ F!Explode
<1> DEFINE z == Zeroed(digits, i)
<1>1. /\ Scanning /\ digits[i].depth = Nested /\ explode_only = FALSE /\ copy_buf = <<>>
      /\ digits' = z /\ i' = i + 1
      /\ UNCHANGED <<lines, phase, row, col, copy_buf, explode_only, stack, p1, max_magnitude>>
  <2>1. explode_only \in BOOLEAN
    BY DEF SumInv, InLoops
  <2> QED
    BY <2>1 DEF explode_leftmost, AtPair, PairToZero, Zeroed
<1>2. /\ phase = "scan" /\ i <= Len(digits)
      /\ Scanned(copy_buf, digits, i, FALSE)
      /\ sum = Across(copy_buf, digits, i)
  <2>1. /\ phase = "scan" /\ i <= Len(digits)
        /\ Scanned(copy_buf, digits, i, explode_only)
        /\ sum = Across(copy_buf, digits, i)
    BY <1>1, DigitIsRead
  <2> QED
    BY <1>1, <2>1
<1>3. Len(copy_buf) = 0
  BY <1>1
<1>4. /\ Scanned(copy_buf, z, i + 1, FALSE)
      /\ F!TooDeep(Across(copy_buf, digits, i)) # {}
      /\ Across(copy_buf, z, i + 1) = F!Exploded(Across(copy_buf, digits, i))
  BY <1>1, <1>2, <1>3, LeftmostTurn
<1> HIDE DEF z
<1>5. SumInv'
  BY <1>1, <1>2, <1>4, ScanGoesOn
<1>6. F!Explode
  <2>1. sum' = Across(copy_buf, z, i + 1)
    BY <1>1, <1>2, SumIs
  <2> QED
    BY <1>2, <1>4, <2>1 DEF F!Explode
<1> QED
  BY <1>5, <1>6

(* The state in which a digit is split. *)
LEMMA DigitIsLarge ==
    ASSUME SumInv, AtLarge
    PROVE  /\ phase = "scan" /\ i <= Len(digits) /\ explode_only = FALSE
           /\ digits[i].depth # Nested /\ digits[i].value >= Ten
           /\ Scanned(copy_buf, digits, i, FALSE)
           /\ sum = Across(copy_buf, digits, i)
           /\ Halves = HalvesOf(digits[i])
<1>1. Scanning /\ digits[i].depth # Nested /\ ~explode_only /\ digits[i].value >= Ten
  BY DEF AtLarge, AtPair
<1>2. /\ phase = "scan" /\ i <= Len(digits)
      /\ Scanned(copy_buf, digits, i, explode_only)
      /\ explode_only \in BOOLEAN
      /\ sum = Across(copy_buf, digits, i)
  BY <1>1, DigitIsRead
<1>3. explode_only = FALSE
  BY <1>1, <1>2
<1>4. Halves = HalvesOf(digits[i])
  BY DEF Halves, HalvesOf
<1> QED
  BY <1>1, <1>2, <1>3, <1>4

(* split is SplitOne of the rules. *)
LEMMA SplitStep ==
    ASSUME SumInv, split
    PROVE  SumInv' /\ F!SplitOne
<1> DEFINE e == SplitBack(digits, i)
<1>1. /\ AtLarge /\ i # 1 /\ i' = i - 1
      /\ digits' = [digits EXCEPT ![i - 1] = Halves[1], ![i] = Halves[2]]
      /\ UNCHANGED <<lines, phase, row, col, copy_buf, explode_only, stack, p1, max_magnitude>>
  BY DEF split
<1>2. /\ phase = "scan" /\ i <= Len(digits) /\ explode_only = FALSE
      /\ digits[i].depth # Nested /\ digits[i].value >= Ten
      /\ Scanned(copy_buf, digits, i, FALSE)
      /\ sum = Across(copy_buf, digits, i)
      /\ Halves = HalvesOf(digits[i])
  BY <1>1, DigitIsLarge
<1>3. digits' = e
  BY <1>1, <1>2 DEF SplitBack
<1>4. /\ Scanned(copy_buf, e, i - 1, FALSE)
      /\ F!TooDeep(Across(copy_buf, digits, i)) = {} /\ F!TooLarge(Across(copy_buf, digits, i)) # {}
      /\ Across(copy_buf, e, i - 1) = F!Split(Across(copy_buf, digits, i))
  BY <1>1, <1>2, SplitTurn
<1> HIDE DEF e
<1>5. SumInv'
  BY <1>1, <1>2, <1>3, <1>4, ScanGoesOn
<1>6. F!SplitOne
  <2>1. sum' = Across(copy_buf, e, i - 1)
    BY <1>1, <1>2, <1>3, SumIs
  <2> QED
    BY <1>2, <1>4, <2>1 DEF F!SplitOne
<1> QED
  BY <1>5, <1>6

(* split_first is SplitOne of the rules. *)
LEMMA SplitFirstStep ==
    ASSUME SumInv, split_first
    PROVE  SumInv' /\ F!SplitOne
<1> DEFINE e == HalvesOf(digits[1]) \o Tail(digits)
<1>1. /\ AtLarge /\ i = 1
      /\ digits' = Halves \o Tail(digits)
      /\ UNCHANGED <<lines, phase, row, col, copy_buf, explode_only, i, stack, p1, max_magnitude>>
  BY DEF split_first
<1>2. /\ phase = "scan" /\ 1 <= Len(digits) /\ explode_only = FALSE
      /\ digits[1].depth # Nested /\ digits[1].value >= Ten
      /\ Scanned(copy_buf, digits, 1, FALSE)
      /\ sum = Across(copy_buf, digits, 1)
      /\ Halves = HalvesOf(digits[1])
  BY <1>1, DigitIsLarge
<1>3. digits' = e
  BY <1>1, <1>2
<1>4. /\ Scanned(copy_buf, e, 1, FALSE)
      /\ F!TooDeep(Across(copy_buf, digits, 1)) = {} /\ F!TooLarge(Across(copy_buf, digits, 1)) # {}
      /\ Across(copy_buf, e, 1) = F!Split(Across(copy_buf, digits, 1))
  BY <1>2, SplitFirstTurn
<1> HIDE DEF e
<1>5. SumInv'
  BY <1>1, <1>2, <1>3, <1>4, ScanGoesOn
<1>6. F!SplitOne
  <2>1. sum' = Across(copy_buf, e, 1)
    BY <1>1, <1>2, <1>3, SumIs
  <2> QED
    BY <1>2, <1>4, <2>1 DEF F!SplitOne
<1> QED
  BY <1>5, <1>6

(* copy changes no number. *)
LEMMA CopyStep ==
    ASSUME SumInv, copy
    PROVE  SumInv' /\ sum' = sum
<1> DEFINE c == Append(copy_buf, digits[i])
<1>1. /\ Scanning /\ digits[i].depth # Nested
      /\ explode_only \/ ~ (digits[i].value >= Ten)
      /\ copy_buf' = c /\ i' = i + 1
      /\ UNCHANGED <<lines, phase, row, col, digits, explode_only, stack, p1, max_magnitude>>
  BY DEF copy, AtPair, AtLarge
<1>2. /\ phase = "scan" /\ i <= Len(digits)
      /\ Scanned(copy_buf, digits, i, explode_only)
      /\ explode_only \in BOOLEAN
      /\ sum = Across(copy_buf, digits, i)
  BY <1>1, DigitIsRead
<1>3. /\ Scanned(c, digits, i + 1, explode_only)
      /\ Across(c, digits, i + 1) = Across(copy_buf, digits, i)
  BY <1>1, <1>2, CopyTurn
<1> HIDE DEF c
<1>4. SumInv'
  BY <1>1, <1>2, <1>3, ScanGoesOn
<1>5. sum' = sum
  BY <1>1, <1>2, <1>3, SumIs
<1> QED
  BY <1>4, <1>5

(* The state in which a pass has ended. *)
LEMMA PassHasEnded ==
    ASSUME SumInv, phase = "scan", ~Scanning
    PROVE  /\ sum = copy_buf
           /\ Tree(copy_buf) /\ Len(copy_buf) <= MAX_DIGITS
           /\ F!TooDeep(copy_buf) = {}
           /\ ~explode_only => F!IsReduced(copy_buf)
           /\ stack = <<>>
<1>1. /\ Scanned(copy_buf, digits, i, explode_only) /\ explode_only \in BOOLEAN
      /\ ~ (i <= Len(digits)) /\ stack = <<>>
  BY DEF SumInv, BuffersHoldTree, StackHoldsTree, InLoops, Scanning
<1>2. /\ Across(copy_buf, digits, i) = copy_buf
      /\ Tree(copy_buf) /\ Len(copy_buf) <= MAX_DIGITS
      /\ F!TooDeep(copy_buf) = {}
      /\ ~explode_only => F!IsReduced(copy_buf)
  BY <1>1, ScanEnds
<1> QED
  BY <1>1, <1>2, SumIs

(* The buffers change places without a change of the number. *)
LEMMA ExplosionsEndStep ==
    ASSUME SumInv, explosions_end
    PROVE  SumInv' /\ sum' = sum
<1>1. /\ phase = "scan" /\ ~Scanning /\ explode_only
      /\ digits' = copy_buf /\ copy_buf' = <<>> /\ i' = 1
      /\ explode_only' = FALSE
      /\ phase' = "begin"
      /\ UNCHANGED <<lines, row, col, stack, p1, max_magnitude>>
  BY DEF explosions_end
<1>2. /\ sum = copy_buf
      /\ Tree(copy_buf) /\ Len(copy_buf) <= MAX_DIGITS
      /\ F!TooDeep(copy_buf) = {}
      /\ stack = <<>>
  BY <1>1, PassHasEnded
<1>3. BuffersHoldTree' /\ StackHoldsTree' /\ PassesReduce'
  BY <1>1, <1>2 DEF BuffersHoldTree, StackHoldsTree, PassesReduce
<1>4. InLoops'
  BY <1>1 DEF SumInv, InLoops
<1> QED
  BY <1>1, <1>2, <1>3, <1>4, SumIs DEF SumInv

(* After the second pass the number is reduced. *)
LEMMA ReduceEndsStep ==
    ASSUME SumInv, reduce_ends
    PROVE  SumInv' /\ sum' = sum
<1>1. /\ phase = "scan" /\ ~Scanning /\ ~explode_only
      /\ digits' = copy_buf /\ copy_buf' = <<>>
      /\ i' = 1
      /\ IF row = 0 /\ col < Len(lines)
         THEN phase' = "add" /\ col' = col + 1
         ELSE phase' = "magnitude" /\ UNCHANGED col
      /\ UNCHANGED <<lines, row, explode_only, stack, p1, max_magnitude>>
  BY DEF reduce_ends
<1>2. /\ sum = copy_buf
      /\ Tree(copy_buf) /\ Len(copy_buf) <= MAX_DIGITS
      /\ F!IsReduced(copy_buf)
      /\ stack = <<>>
  BY <1>1, PassHasEnded
<1>3. phase' \in {"add", "magnitude"}
  BY <1>1
<1>4. BuffersHoldTree' /\ PassesReduce'
  BY <1>1, <1>2, <1>3 DEF BuffersHoldTree, PassesReduce
<1>5. StackHoldsTree'
  <2>1. Stacked(<<>>, copy_buf, 1)
    BY <1>2, StackBegins
  <2> QED
    BY <1>1, <1>2, <1>3, <2>1 DEF StackHoldsTree
<1>6. InLoops'
  <2>1. /\ lines \in Inputs /\ row \in 0 .. Len(lines) + 1 /\ col \in 1 .. Len(lines)
        /\ row <= Len(lines) /\ explode_only \in BOOLEAN
        /\ p1 \in Nat /\ max_magnitude \in {INT_MIN} \cup Nat
    BY <1>1 DEF SumInv, InLoops
  <2>2. Len(lines) \in Nat
    BY <2>1, SomeLine
  <2>3. CASE row = 0 /\ col < Len(lines)
    <3>1. col' \in 1 .. Len(lines) /\ phase' = "add"
      BY <1>1, <2>1, <2>2, <2>3
    <3> QED
      BY <1>1, <2>1, <3>1 DEF InLoops
  <2>4. CASE ~ (row = 0 /\ col < Len(lines))
    <3>1. phase' = "magnitude" /\ col' = col /\ (row = 0 => col = Len(lines))
      BY <1>1, <2>1, <2>2, <2>4
    <3> QED
      BY <1>1, <2>1, <3>1 DEF InLoops
  <2> QED
    BY <2>3, <2>4
<1>7. sum' = sum
  BY <1>1, <1>2, <1>3, SumIs
<1> QED
  BY <1>4, <1>5, <1>6, <1>7 DEF SumInv

-----------------------------------------------------------------------------
(* The steps of magnitude and of the loops of day18.                         *)

(* The state in which magnitude runs. *)
LEMMA MagnitudeRuns ==
    ASSUME SumInv, phase = "magnitude"
    PROVE  /\ Stacked(stack, digits, i) /\ Tree(digits) /\ F!IsReduced(digits)
           /\ copy_buf = <<>> /\ Len(digits) <= MAX_DIGITS
           /\ Collapsible <=> OnePair(stack)
<1>1. Collapsible <=> OnePair(stack)
  BY DEF Collapsible, OnePair
<1> QED
  BY <1>1 DEF SumInv, BuffersHoldTree, StackHoldsTree, PassesReduce

(* What stays true while magnitude runs. *)
LEMMA MagnitudeGoesOn ==
    ASSUME SumInv, phase = "magnitude", phase' = "magnitude",
           Stacked(stack', digits, i'),
           UNCHANGED <<lines, row, col, digits, copy_buf, explode_only, p1, max_magnitude>>
    PROVE  SumInv' /\ sum' = sum
<1>1. BuffersHoldTree' /\ PassesReduce'
  BY DEF SumInv, BuffersHoldTree, PassesReduce
<1>2. StackHoldsTree'
  BY DEF StackHoldsTree
<1>3. InLoops'
  BY DEF SumInv, InLoops
<1> QED
  BY <1>1, <1>2, <1>3, SumIs DEF SumInv

(* push keeps the tree. *)
LEMMA PushStep ==
    ASSUME SumInv, push
    PROVE  SumInv' /\ sum' = sum
<1>1. /\ phase = "magnitude" /\ ~Collapsible /\ i <= Len(digits)
      /\ stack' = Append(stack, digits[i])
      /\ i' = i + 1
      /\ UNCHANGED <<lines, phase, row, col, digits, copy_buf, explode_only, p1, max_magnitude>>
  BY DEF push
<1>2. Stacked(stack, digits, i) /\ ~OnePair(stack)
  BY <1>1, MagnitudeRuns
<1>3. Stacked(stack', digits, i')
  BY <1>1, <1>2, PushTurn
<1> QED
  BY <1>1, <1>3, MagnitudeGoesOn

(* collapse keeps a tree. *)
LEMMA CollapseStep ==
    ASSUME SumInv, collapse
    PROVE  SumInv' /\ sum' = sum
<1>1. /\ phase = "magnitude" /\ Collapsible
      /\ UNCHANGED <<lines, phase, row, col, digits, copy_buf, explode_only, i, p1, max_magnitude>>
  BY DEF collapse, number
<1>2. stack' = Collapsed(stack)
  BY DEF collapse, Collapsed, Last
<1>3. Stacked(stack, digits, i) /\ OnePair(stack)
  BY <1>1, MagnitudeRuns
<1>4. Stacked(stack', digits, i')
  BY <1>1, <1>2, <1>3, CollapseTurn
<1> QED
  BY <1>1, <1>4, MagnitudeGoesOn

(* The loops of day18 go on. *)
LEMMA Advances ==
    ASSUME lines \in Inputs, row \in 0 .. Len(lines), col \in 1 .. Len(lines), Advance
    PROVE  /\ row' \in 0 .. Len(lines) + 1 /\ col' \in 1 .. Len(lines)
           /\ row > 0 \/ col = Len(lines) => row' > 0
<1>1. Len(lines) \in Nat /\ Len(lines) >= 1
  BY SomeLine
<1>2. CASE col = Len(lines)
  <2>1. row' = row + 1 /\ col' = 1
    BY <1>2 DEF Advance
  <2> QED
    BY <1>1, <2>1
<1>3. CASE col # Len(lines)
  <2>1. row' = row /\ col' = col + 1
    BY <1>3 DEF Advance
  <2> QED
    BY <1>1, <1>3, <2>1
<1> QED
  BY <1>2, <1>3

(* magnitude returns the only digit on its stack. *)
LEMMA MagnitudeReturnsStep ==
    ASSUME SumInv, magnitude_returns
    PROVE  SumInv' /\ sum' = sum
<1>1. /\ phase = "magnitude" /\ ~Collapsible /\ i > Len(digits)
      /\ phase' = IF Len(stack) = 1 THEN "pair" ELSE "aborted"
      /\ IF row = 0
         THEN p1' = stack[1].value /\ UNCHANGED max_magnitude
         ELSE /\ max_magnitude' = IF stack[1].value > max_magnitude THEN stack[1].value ELSE max_magnitude
              /\ UNCHANGED p1
      /\ i' = 1 /\ stack' = <<>>
      /\ Advance
      /\ UNCHANGED <<lines, digits, copy_buf, explode_only>>
  BY DEF magnitude_returns
<1>2. /\ Stacked(stack, digits, i) /\ ~OnePair(stack)
      /\ Tree(digits) /\ F!IsReduced(digits) /\ copy_buf = <<>> /\ Len(digits) <= MAX_DIGITS
  BY <1>1, MagnitudeRuns
<1>3. Len(stack) = 1 /\ stack[1].value \in Nat
  <2>1. ~ (i <= Len(digits))
    <3>1. Len(digits) \in Nat /\ i \in Nat
      BY <1>2, StackFits DEF Stacked
    <3> QED
      BY <1>1, <3>1
  <2> QED
    BY <1>2, <2>1, StackEnds
<1>4. phase' = "pair"
  BY <1>1, <1>3
<1>5. /\ lines \in Inputs /\ row \in 0 .. Len(lines) + 1 /\ col \in 1 .. Len(lines)
      /\ row <= Len(lines) /\ explode_only \in BOOLEAN
      /\ row = 0 => col = Len(lines)
      /\ p1 \in Nat /\ max_magnitude \in {INT_MIN} \cup Nat
  BY <1>1 DEF SumInv, InLoops
<1>6. /\ row' \in 0 .. Len(lines) + 1 /\ col' \in 1 .. Len(lines)
      /\ row' > 0
  <2>1. row \in 0 .. Len(lines) /\ (row > 0 \/ col = Len(lines))
    BY <1>5, SomeLine
  <2> QED
    BY <1>1, <1>5, <2>1, Advances
<1>7. BuffersHoldTree' /\ StackHoldsTree' /\ PassesReduce'
  BY <1>1, <1>2, <1>4 DEF BuffersHoldTree, StackHoldsTree, PassesReduce
<1>8. p1' \in Nat /\ max_magnitude' \in {INT_MIN} \cup Nat
  BY <1>1, <1>3, <1>5
<1>9. InLoops'
  BY <1>1, <1>4, <1>5, <1>6, <1>8 DEF InLoops
<1> QED
  BY <1>1, <1>4, <1>7, <1>9, SumIs DEF SumInv

(* pair is Begin of the rules. *)
LEMMA PairStep ==
    ASSUME SumInv, pair
    PROVE  SumInv' /\ F!Begin
<1>1. /\ phase = "pair" /\ row <= Len(lines)
      /\ digits' = nums(row) /\ copy_buf' = <<>>
      /\ phase' = "add"
      /\ UNCHANGED <<lines, row, col, explode_only, i, stack, p1, max_magnitude>>
  BY DEF pair
<1>2. /\ F!IsReduced(digits) /\ stack = <<>> /\ i = 1
      /\ lines \in Inputs /\ row \in 0 .. Len(lines) + 1 /\ row > 0
  BY <1>1 DEF SumInv, StackHoldsTree, PassesReduce, InLoops
<1>3. row \in 1 .. Len(lines)
  BY <1>1, <1>2, SomeLine
<1>4. /\ nums(row) \in {parsed[line] : line \in Line}
      /\ Tree(nums(row)) /\ Len(nums(row)) <= MAX_DIGITS
      /\ F!IsReduced(nums(row))
  BY <1>2, <1>3, LineIs
<1>5. BuffersHoldTree' /\ StackHoldsTree' /\ PassesReduce'
  BY <1>1, <1>2, <1>4 DEF BuffersHoldTree, StackHoldsTree, PassesReduce
<1>6. InLoops'
  <2>1. row # 0
    BY <1>2
  <2> QED
    BY <1>1, <2>1 DEF SumInv, InLoops
<1>7. F!Begin
  <2>1. sum = digits /\ sum' = nums(row)
    BY <1>1, SumIs
  <2> QED
    BY <1>2, <1>4, <2>1 DEF F!Begin
<1> QED
  BY <1>5, <1>6, <1>7 DEF SumInv

(* A line is not added to itself. *)
LEMMA SameStep ==
    ASSUME SumInv, same
    PROVE  SumInv' /\ sum' = sum
<1>1. /\ phase = "pair" /\ phase' = "pair" /\ row <= Len(lines) /\ Advance
      /\ UNCHANGED <<lines, digits, copy_buf, explode_only, i, stack, p1, max_magnitude>>
  BY DEF same, number
<1>2. lines \in Inputs /\ row \in 0 .. Len(lines) + 1 /\ row > 0 /\ col \in 1 .. Len(lines)
  BY <1>1 DEF SumInv, InLoops
<1>3. row' \in 0 .. Len(lines) + 1 /\ col' \in 1 .. Len(lines) /\ row' > 0
  <2>1. row \in 0 .. Len(lines)
    BY <1>1, <1>2, SomeLine
  <2> QED
    BY <1>1, <1>2, <2>1, Advances
<1>4. BuffersHoldTree' /\ StackHoldsTree' /\ PassesReduce'
  BY <1>1 DEF SumInv, BuffersHoldTree, StackHoldsTree, PassesReduce
<1>5. InLoops'
  BY <1>1, <1>3 DEF SumInv, InLoops
<1> QED
  BY <1>1, <1>4, <1>5, SumIs DEF SumInv

(* day18 returns. *)
LEMMA ReturnsStep ==
    ASSUME SumInv, day18_returns
    PROVE  SumInv' /\ sum' = sum
<1>1. /\ phase = "pair" /\ phase' = "done"
      /\ UNCHANGED <<lines, row, col, digits, copy_buf, explode_only, i, stack, p1, max_magnitude>>
  BY DEF day18_returns, number
<1>2. BuffersHoldTree' /\ StackHoldsTree' /\ PassesReduce'
  BY <1>1 DEF SumInv, BuffersHoldTree, StackHoldsTree, PassesReduce
<1>3. InLoops'
  BY <1>1 DEF SumInv, InLoops
<1> QED
  BY <1>1, <1>2, <1>3, SumIs DEF SumInv

(* Nothing changes. *)
LEMMA StutterStep ==
    ASSUME SumInv, UNCHANGED vars
    PROVE  SumInv' /\ sum' = sum
<1>1. UNCHANGED <<lines, phase, row, col, digits, copy_buf, explode_only, i, stack, p1, max_magnitude>>
  BY DEF vars, number
<1>2. BuffersHoldTree' /\ StackHoldsTree' /\ PassesReduce'
  BY <1>1 DEF SumInv, BuffersHoldTree, StackHoldsTree, PassesReduce
<1>3. InLoops'
  BY <1>1 DEF SumInv, InLoops
<1> QED
  BY <1>1, <1>2, <1>3, SumIs DEF SumInv

(* Every step keeps the invariant, and is a step of the rules or no change of *)
(* the number.                                                               *)
LEMMA EveryStep ==
    ASSUME SumInv, [Next]_vars
    PROVE  SumInv' /\ [F!Next]_sum
<1>1. CASE add
  BY <1>1, AddStep DEF F!Next
<1>2. CASE begin_explodes
  BY <1>2, BeginExplodesStep DEF F!Next
<1>3. CASE begin
  BY <1>3, BeginStep
<1>4. CASE explode_left_copied
  BY <1>4, LeftCopiedStep DEF F!Next
<1>5. CASE explode_takes_back
  BY <1>5, TakesBackStep DEF F!Next
<1>6. CASE explode_leftmost
  BY <1>6, LeftmostStep DEF F!Next
<1>7. CASE split
  BY <1>7, SplitStep DEF F!Next
<1>8. CASE split_first
  BY <1>8, SplitFirstStep DEF F!Next
<1>9. CASE copy
  BY <1>9, CopyStep
<1>10. CASE explosions_end
  BY <1>10, ExplosionsEndStep
<1>11. CASE reduce_ends
  BY <1>11, ReduceEndsStep
<1>12. CASE push
  BY <1>12, PushStep
<1>13. CASE collapse
  BY <1>13, CollapseStep
<1>14. CASE magnitude_returns
  BY <1>14, MagnitudeReturnsStep
<1>15. CASE pair
  BY <1>15, PairStep DEF F!Next
<1>16. CASE same
  BY <1>16, SameStep
<1>17. CASE day18_returns
  BY <1>17, ReturnsStep
<1>18. CASE UNCHANGED vars
  BY <1>18, StutterStep
<1> QED
  BY <1>1, <1>2, <1>3, <1>4, <1>5, <1>6, <1>7, <1>8, <1>9, <1>10, <1>11, <1>12, <1>13,
     <1>14, <1>15, <1>16, <1>17, <1>18 DEF Next

(* The invariant has the type invariant: a pair that explodes is complete,    *)
(* its left value has a digit to go to, and the buffers and the stack have   *)
(* room.                                                                     *)
LEMMA SumIsTyped ==
    ASSUME SumInv
    PROVE  TypeOK
<1>1. /\ lines \in Inputs
      /\ phase \in {"pair", "add", "begin", "scan", "magnitude", "done"}
      /\ row \in 0 .. Len(lines) + 1 /\ col \in 1 .. Len(lines)
      /\ explode_only \in BOOLEAN
      /\ p1 \in Nat /\ max_magnitude \in {INT_MIN} \cup Nat
      /\ Len(digits) <= MAX_DIGITS
  BY DEF SumInv, InLoops, BuffersHoldTree
<1>2. <<>> \in Seq(Digits) /\ Len(<<>>) <= MAX_DIGITS
  <2>1. <<>> \in Seq(Digits) /\ Len(<<>>) = 0
    OBVIOUS
  <2>2. MAX_DIGITS \in Nat
    BY SizeFits
  <2> QED
    BY <2>1, <2>2
<1>3. /\ digits \in Seq(Digits)
      /\ copy_buf \in Seq(Digits) /\ Len(copy_buf) <= MAX_DIGITS
  <2>1. CASE phase = "scan"
    <3>1. Scanned(copy_buf, digits, i, explode_only)
      BY <2>1 DEF SumInv, BuffersHoldTree
    <3>2. Len(copy_buf) <= MAX_DIGITS
      BY <3>1, NextIsRead
    <3> QED
      BY <3>1, <3>2 DEF Scanned
  <2>2. CASE phase # "scan"
    BY <1>2, <2>2 DEF SumInv, BuffersHoldTree, Tree
  <2> QED
    BY <2>1, <2>2
<1>4. stack \in Seq(Digits) /\ Len(stack) <= MAX_DIGITS
  <2>1. CASE phase = "magnitude"
    <3>1. Stacked(stack, digits, i)
      BY <2>1 DEF SumInv, StackHoldsTree
    <3>2. Len(stack) <= MAX_DIGITS
      BY <3>1, StackFits
    <3> QED
      BY <3>1, <3>2 DEF Stacked
  <2>2. CASE phase # "magnitude"
    BY <1>2, <2>2 DEF SumInv, StackHoldsTree
  <2> QED
    BY <2>1, <2>2
<1>5. i \in 1 .. Len(digits) + 1
  <2>1. CASE phase = "scan"
    BY <2>1 DEF SumInv, BuffersHoldTree, Scanned
  <2>2. CASE phase = "magnitude"
    BY <2>2 DEF SumInv, StackHoldsTree, Stacked
  <2>3. CASE phase \notin {"scan", "magnitude"}
    <3>1. i = 1
      BY <2>3 DEF SumInv, StackHoldsTree
    <3>2. Len(digits) \in Nat
      BY <1>3, DigitsAre
    <3> QED
      BY <3>1, <3>2
  <2> QED
    BY <2>1, <2>2, <2>3
<1>6. AtPair => i < Len(digits) /\ (explode_only => copy_buf # <<>>)
  <2>1. SUFFICES ASSUME AtPair PROVE i < Len(digits) /\ (explode_only => copy_buf # <<>>)
    OBVIOUS
  <2>2. /\ i <= Len(digits) /\ digits[i].depth = Nested
        /\ Scanned(copy_buf, digits, i, explode_only)
    BY <2>1, DigitIsRead DEF AtPair
  <2>3. i \in 1 .. Len(digits) - 1 /\ (explode_only => Len(copy_buf) > 0)
    BY <2>2, ReadExplodes
  <2>4. Len(digits) \in Nat
    BY <1>3, DigitsAre
  <2>5. Len(<<>>) = 0
    OBVIOUS
  <2>6. explode_only => copy_buf # <<>>
    <3>1. ~ (0 > 0)
      OBVIOUS
    <3> QED
      BY <2>3, <2>5, <3>1
  <2>7. i < Len(digits)
    BY <2>3, <2>4
  <2> QED
    BY <2>6, <2>7
<1>7. digits \in DigitArray /\ copy_buf \in DigitArray /\ stack \in DigitArray
  BY <1>1, <1>3, <1>4 DEF DigitArray, Digits
<1>8. phase \in {"pair", "add", "begin", "scan", "magnitude", "done", "aborted"}
  BY <1>1
<1> QED
  BY <1>1, <1>5, <1>6, <1>7, <1>8 DEF TypeOK

-----------------------------------------------------------------------------

(* fast_reduce and magnitude stay inside their arrays, the pair that explodes *)
(* is complete, and the left value of an explosion finds a digit, for every  *)
(* input of reduced numbers, every depth Nested and every Ten.               *)
THEOREM TypeCorrect == Spec => []TypeOK
<1>1. Init => SumInv
  BY InitIsFirst
<1>2. SumInv /\ [Next]_vars => SumInv'
  BY EveryStep
<1>3. SumInv => TypeOK
  BY SumIsTyped
<1> QED
  BY <1>1, <1>2, <1>3, PTL DEF Spec

(* Read across both buffers, each turn of fast_reduce is one explosion or one *)
(* split as the rules order them, or no change: day 18 implements Snailfish. *)
THEOREM ReducesByTheRules == Spec => FollowsRules
<1>1. Init => SumInv /\ F!Init
  BY InitIsFirst
<1>2. SumInv /\ [Next]_vars => SumInv' /\ [F!Next]_sum
  BY EveryStep
<1> QED
  BY <1>1, <1>2, PTL DEF Spec, FollowsRules, F!Spec

(* assert(p == 1) of magnitude never fails, and only numbers that are reduced *)
(* get there.                                                                *)
THEOREM MagnitudeOfOne ==
    Spec => [](phase # "aborted" /\ (phase = "magnitude" => F!IsReduced(digits)))
<1>1. Init => SumInv
  BY InitIsFirst
<1>2. SumInv /\ [Next]_vars => SumInv'
  BY EveryStep
<1>3. SumInv => phase # "aborted" /\ (phase = "magnitude" => F!IsReduced(digits))
  BY DEF SumInv, InLoops, PassesReduce
<1> QED
  BY <1>1, <1>2, <1>3, PTL DEF Spec

=============================================================================
