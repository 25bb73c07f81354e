----------------------------- MODULE Day15Proofs ------------------------------
(***************************************************************************)
(* The A* search of day15 is right, for every map, every number of copies  *)
(* of it and any number of lost queue entries: what it returns is the      *)
(* length of a shortest path.  First the grid and the wave that defines    *)
(* that length, then the queue, then the invariant and the steps.          *)
(***************************************************************************)
EXTENDS Day15, FiniteSetTheorems, WellFoundedInduction, TLAPS

(* What edge_weight can be applied to. *)
Maps == [(0 .. Width - 1) \X (0 .. Height - 1) -> Risks]

(* The place one of the four steps away. *)
At(p, j) == <<p[1] + day15_deltas[j][1], p[2] + day15_deltas[j][2]>>

(* A set of numbers that is not empty has a least one. *)
LEMMA LeastNumber ==
    ASSUME NEW S \in SUBSET Nat, S # {}
    PROVE  \E n \in S : \A m \in S : n <= m
<1>1. PICK n \in S : \A m \in S : <<m, n>> \notin OpToRel(<, Nat)
  BY NatLessThanWellFounded, WFMin
<1>2. \A m \in S : ~ (m < n)
  BY <1>1 DEF OpToRel
<1> QED
  BY <1>2

-----------------------------------------------------------------------------
(* The grid.                                                                 *)

(* The map is not empty. *)
LEMMA Sizes ==
    /\ width \in Nat \ {0} /\ height \in Nat \ {0}
    /\ Latest \in Nat
    /\ Width \in Nat \ {0} /\ Height \in Nat \ {0}
<1>1. ASSUME NEW a \in Nat \ {0}, NEW b \in Nat \ {0} PROVE a * b \in Nat \ {0}
  OBVIOUS
<1>2. width \in Nat \ {0} /\ height \in Nat \ {0}
  BY <1>1, SizeAssumption DEF width, height
<1> QED
  BY <1>2, SizeAssumption DEF Latest

(* Places are pairs of coordinates within the map. *)
LEMMA PlaceIsPair ==
    /\ \A p \in Place : /\ p = <<p[1], p[2]>>
                        /\ p[1] \in Nat /\ p[1] < width
                        /\ p[2] \in Nat /\ p[2] < height
    /\ \A x \in Nat, y \in Nat : x < width /\ y < height => <<x, y>> \in Place
    /\ Start \in Place /\ Goal \in Place
<1>1. \A p \in Place : /\ p = <<p[1], p[2]>>
                       /\ p[1] \in 0 .. width - 1
                       /\ p[2] \in 0 .. height - 1
  BY DEF Place
<1>2. \A x \in 0 .. width - 1, y \in 0 .. height - 1 : <<x, y>> \in Place
  BY DEF Place
<1>3. Start \in Place /\ Goal \in Place
  BY <1>2, Sizes DEF Start, Goal
<1> QED
  BY <1>1, <1>2, <1>3, Sizes

(* There are width times height places. *)
LEMMA PlacesAreFinite ==
    IsFiniteSet(Place) /\ Cardinality(Place) = width * height
<1>1. IsFiniteSet(0 .. width - 1) /\ Cardinality(0 .. width - 1) = width
  BY FS_Interval, Sizes
<1>2. IsFiniteSet(0 .. height - 1) /\ Cardinality(0 .. height - 1) = height
  BY FS_Interval, Sizes
<1> DEFINE A == 0 .. width - 1
           B == 0 .. height - 1
<1> HIDE DEF A, B
<1>3. IsFiniteSet(A) /\ IsFiniteSet(B) /\ Cardinality(A) = width /\ Cardinality(B) = height
  BY <1>1, <1>2 DEF A, B
<1>4. IsFiniteSet(A \X B) /\ Cardinality(A \X B) = Cardinality(A) * Cardinality(B)
  BY <1>3, FS_Product
<1> QED
  BY <1>3, <1>4 DEF Place, A, B

(* The risk wraps round from 9 to 1 in the copies of the map. *)
LEMMA WeightIsADigit ==
    ASSUME NEW map \in Maps, NEW p \in Place
    PROVE  edge_weight(p, map) \in 1 .. 9
<1>1. p[1] \in Nat /\ p[2] \in Nat /\ Width \in Nat \ {0} /\ Height \in Nat \ {0}
  BY PlaceIsPair, Sizes
<1>2. p[1] % Width \in 0 .. Width - 1 /\ p[2] % Height \in 0 .. Height - 1
  BY <1>1
<1>3. p[1] \div Width \in Nat /\ p[2] \div Height \in Nat
  BY <1>1
<1>4. map[p[1] % Width, p[2] % Height] \in 1 .. 9
  BY <1>2, SizeAssumption DEF Maps
<1>5. ASSUME NEW risk \in 1 .. 9, NEW a \in Nat, NEW b \in Nat
      PROVE  ((risk + a + b - 1) % 9) + 1 \in 1 .. 9
  OBVIOUS
<1> QED
  BY <1>3, <1>4, <1>5 DEF edge_weight

(* day15_deltas spelt out. *)
LEMMA FourWays ==
    ASSUME NEW p \in Place
    PROVE  /\ At(p, 1) = <<p[1] - 1, p[2]>> /\ At(p, 2) = <<p[1] + 1, p[2]>>
           /\ At(p, 3) = <<p[1], p[2] + 1>> /\ At(p, 4) = <<p[1], p[2] - 1>>
           /\ Neighbours(p) = {At(p, j) : j \in 1 .. 4} \cap Place
<1>1. p[1] \in Nat /\ p[2] \in Nat
  BY PlaceIsPair
<1> QED
  BY <1>1 DEF At, day15_deltas, Neighbours

(* Steps can be taken back, and bring the goal at most one step nearer. *)
LEMMA NeighbourIsNear ==
    ASSUME NEW p \in Place, NEW q \in Neighbours(p)
    PROVE  /\ q \in Place /\ q # p /\ p \in Neighbours(q)
           /\ lower_bound_dist_to_goal(q) <= lower_bound_dist_to_goal(p) + 1
<1>1. q \in Place /\ \E j \in 1 .. 4 : q = At(p, j)
  BY FourWays
<1>2. \/ q = <<p[1] - 1, p[2]>> \/ q = <<p[1] + 1, p[2]>>
      \/ q = <<p[1], p[2] + 1>> \/ q = <<p[1], p[2] - 1>>
  BY <1>1, FourWays
<1>3. /\ p = <<p[1], p[2]>> /\ p[1] \in Nat /\ p[2] \in Nat
      /\ q = <<q[1], q[2]>> /\ q[1] \in Nat /\ q[2] \in Nat
  BY <1>1, PlaceIsPair
<1>4. q # p
  BY <1>2, <1>3
<1>5. \E j \in 1 .. 4 : p = At(q, j)
  <2>1. \/ p = <<q[1] - 1, q[2]>> \/ p = <<q[1] + 1, q[2]>>
        \/ p = <<q[1], q[2] + 1>> \/ p = <<q[1], q[2] - 1>>
    BY <1>2, <1>3
  <2> QED
    BY <2>1, <1>1, FourWays
<1>6. p \in Neighbours(q)
  BY <1>1, <1>5, FourWays
<1>7. lower_bound_dist_to_goal(q) <= lower_bound_dist_to_goal(p) + 1
  BY <1>2, <1>3, Sizes DEF lower_bound_dist_to_goal
<1> QED
  BY <1>1, <1>4, <1>6, <1>7

(* The heuristic, and the distance from the start, in steps. *)
LEMMA BoundIsDistance ==
    ASSUME NEW p \in Place
    PROVE  /\ lower_bound_dist_to_goal(p) \in Nat
           /\ lower_bound_dist_to_goal(p) <= width + height - 2
           /\ lower_bound_dist_to_goal(Goal) = 0
           /\ p[1] + p[2] \in Nat /\ p[1] + p[2] <= width + height - 2
BY PlaceIsPair, Sizes DEF lower_bound_dist_to_goal, Goal

(* From every place but the start a step leads back towards it. *)
LEMMA TowardsStart ==
    ASSUME NEW p \in Place, p # Start
    PROVE  \E q \in Neighbours(p) : q[1] + q[2] = p[1] + p[2] - 1
<1>1. p = <<p[1], p[2]>> /\ p[1] \in Nat /\ p[2] \in Nat /\ p[1] < width /\ p[2] < height
  BY PlaceIsPair
<1>2. CASE p[1] # 0
  <2>1. <<p[1] - 1, p[2]>> \in Place
    <3>1. p[1] - 1 \in Nat /\ p[1] - 1 < width
      BY <1>1, <1>2, Sizes
    <3> QED
      BY <1>1, <3>1, PlaceIsPair
  <2> QED
    BY <2>1, <1>1, FourWays
<1>3. CASE p[1] = 0
  <2>1. p[2] # 0
    BY <1>1, <1>3 DEF Start
  <2>2. <<p[1], p[2] - 1>> \in Place
    <3>1. p[2] - 1 \in Nat /\ p[2] - 1 < height
      BY <1>1, <2>1, Sizes
    <3> QED
      BY <1>1, <3>1, PlaceIsPair
  <2> QED
    BY <2>2, <1>1, FourWays
<1> QED
  BY <1>2, <1>3

-----------------------------------------------------------------------------
(* The wave.                                                                 *)

(* The first rounds of a wave. *)
Rounds(map, n, w) ==
    w = [k \in 0 .. n |-> IF k = 0 THEN {<<Start, 0>>} ELSE Reach(map, k, w[k - 1])]

(* One of the first rounds. *)
LEMMA RoundsAt ==
    ASSUME NEW map, NEW n \in Nat, NEW w, Rounds(map, n, w), NEW k \in 0 .. n
    PROVE  w[k] = IF k = 0 THEN {<<Start, 0>>} ELSE Reach(map, k, w[k - 1])
<1> DEFINE f == [j \in 0 .. n |-> IF j = 0 THEN {<<Start, 0>>} ELSE Reach(map, j, w[j - 1])]
<1>1. f[k] = IF k = 0 THEN {<<Start, 0>>} ELSE Reach(map, k, w[k - 1])
  OBVIOUS
<1>2. w = f
  BY DEF Rounds
<1> HIDE DEF f
<1> QED
  BY <1>1, <1>2

(* The first rounds are the same however many are computed. *)
LEMMA RoundsAgree ==
    ASSUME NEW map, NEW n \in Nat, NEW m \in Nat, n <= m,
           NEW v, NEW w, Rounds(map, n, v), Rounds(map, m, w)
    PROVE  \A k \in 0 .. n : v[k] = w[k]
<1> DEFINE Apart == {k \in 0 .. n : v[k] # w[k]}
<1>1. SUFFICES ASSUME Apart # {} PROVE FALSE
  OBVIOUS
<1>2. PICK k \in Apart : \A j \in Apart : k <= j
  <2>1. Apart \in SUBSET Nat
    OBVIOUS
  <2> HIDE DEF Apart
  <2> QED
    BY <1>1, <2>1, LeastNumber
<1>3. /\ v[k] = IF k = 0 THEN {<<Start, 0>>} ELSE Reach(map, k, v[k - 1])
      /\ w[k] = IF k = 0 THEN {<<Start, 0>>} ELSE Reach(map, k, w[k - 1])
  <2>1. k \in 0 .. n /\ k \in 0 .. m
    BY <1>2
  <2> HIDE DEF Apart
  <2>2. v[k] = IF k = 0 THEN {<<Start, 0>>} ELSE Reach(map, k, v[k - 1])
    BY <2>1, RoundsAt
  <2>3. w[k] = IF k = 0 THEN {<<Start, 0>>} ELSE Reach(map, k, w[k - 1])
    BY <2>1, RoundsAt
  <2> QED
    BY <2>2, <2>3
<1>4. k # 0 => v[k - 1] = w[k - 1]
  BY <1>2
<1> QED
  BY <1>3, <1>4

(* Any number of rounds can be computed. *)
LEMMA RoundsExist ==
    ASSUME NEW map, NEW n \in Nat
    PROVE  \E w : Rounds(map, n, w)
<1> DEFINE None == {k \in Nat : ~ \E w : Rounds(map, k, w)}
<1>1. SUFFICES ASSUME None # {} PROVE FALSE
  OBVIOUS
<1>2. PICK k \in None : \A j \in None : k <= j
  BY <1>1, LeastNumber
<1>3. CASE k = 0
  <2>1. Rounds(map, 0, [j \in 0 .. 0 |-> {<<Start, 0>>}])
    BY DEF Rounds
  <2> QED
    BY <2>1, <1>3
<1>4. CASE k # 0
  <2>1. k - 1 \in Nat /\ k - 1 \notin None
    BY <1>2, <1>4
  <2>2. PICK w : Rounds(map, k - 1, w)
    BY <2>1
  <2> DEFINE v == [j \in 0 .. k |-> IF j = k THEN Reach(map, k, w[k - 1]) ELSE w[j]]
  <2>3. \A j \in 0 .. k - 1 : v[j] = w[j]
    BY <2>1
  <2>4. \A j \in 0 .. k - 1 : w[j] = IF j = 0 THEN {<<Start, 0>>} ELSE Reach(map, j, w[j - 1])
    BY <2>1, <2>2, RoundsAt
  <2>5. ASSUME NEW j \in 0 .. k
        PROVE  v[j] = IF j = 0 THEN {<<Start, 0>>} ELSE Reach(map, j, v[j - 1])
    <3>1. CASE j = k
      <4>1. v[j] = Reach(map, k, w[k - 1]) /\ v[k - 1] = w[k - 1]
        BY <3>1, <2>1, <2>3
      <4> QED
        BY <4>1, <3>1, <1>4
    <3>2. CASE j # k
      <4>1. j \in 0 .. k - 1 /\ v[j] = w[j]
        BY <3>2, <2>1, <2>3
      <4>2. j # 0 => v[j - 1] = w[j - 1]
        BY <4>1, <2>3
      <4> QED
        BY <4>1, <4>2, <2>4
    <3> QED
      BY <3>1, <3>2
  <2> HIDE DEF v
  <2>6. v = [j \in 0 .. k |-> v[j]]
    BY DEF v
  <2>7. Rounds(map, k, v)
    BY <2>5, <2>6 DEF Rounds
  <2> QED
    BY <2>7
<1> QED
  BY <1>3, <1>4

(* The equation that defines the wave has a solution, which Wave is. *)
LEMMA WaveUnfolds ==
    ASSUME NEW map
    PROVE  /\ Wave(map)[0] = {<<Start, 0>>}
           /\ \A n \in Nat \ {0} : Wave(map)[n] = Reach(map, n, Wave(map)[n - 1])
<1> DEFINE Solves(w) ==
        w = [n \in Nat |-> IF n = 0 THEN {<<Start, 0>>} ELSE Reach(map, n, w[n - 1])]
      part(n) == CHOOSE w : Rounds(map, n, w)
      whole   == [n \in Nat |-> part(n)[n]]
<1>1. \A n \in Nat : Rounds(map, n, part(n))
  BY RoundsExist
<1> HIDE DEF part
<1>2. ASSUME NEW n \in Nat
      PROVE  whole[n] = IF n = 0 THEN {<<Start, 0>>} ELSE Reach(map, n, whole[n - 1])
  <2>1. part(n)[n] = IF n = 0 THEN {<<Start, 0>>} ELSE Reach(map, n, part(n)[n - 1])
    BY <1>1, RoundsAt
  <2>2. n # 0 => part(n)[n - 1] = part(n - 1)[n - 1]
    <3>1. SUFFICES ASSUME n # 0 PROVE part(n)[n - 1] = part(n - 1)[n - 1]
      OBVIOUS
    <3>2. n - 1 \in Nat /\ n - 1 <= n /\ n - 1 \in 0 .. n - 1
      BY <3>1
    <3>3. Rounds(map, n, part(n)) /\ Rounds(map, n - 1, part(n - 1))
      BY <1>1, <3>2
    <3> QED
      BY <3>2, <3>3, RoundsAgree
  <2> QED
    BY <2>1, <2>2
<1>3. whole = [n \in Nat |-> whole[n]]
  OBVIOUS
<1> HIDE DEF whole
<1>4. Solves(whole)
  BY <1>2, <1>3
<1>5. Solves(CHOOSE w : Solves(w))
  BY <1>4
<1>6. Wave(map) = CHOOSE w : Solves(w)
  BY DEF Wave
<1>7. Solves(Wave(map))
  BY <1>5, <1>6
<1> HIDE DEF part, whole
<1> QED
  BY <1>7

(* What is true of each round: who was reached and when, each place once, the *)
(* rounds before as parts of it, and each place but the first from a neighbour. *)
WaveOK(map, n) ==
    LET w == Wave(map)[n] IN
    /\ w \subseteq Place \X (0 .. n)
    /\ <<Start, 0>> \in w
    /\ \A m \in 0 .. n : Wave(map)[m] = {k \in w : k[2] <= m}
    /\ \A k, l \in w : k[1] = l[1] => k = l
    /\ \A k \in w : k[1] # Start =>
          \E q \in Neighbours(k[1]) : <<q, k[2] - edge_weight(k[1], map)>> \in w

(* What is true of a round is true of the next. *)
LEMMA WaveGoesOn ==
    ASSUME NEW map, NEW n \in Nat \ {0}, WaveOK(map, n - 1)
    PROVE  WaveOK(map, n)
<1> DEFINE old == Wave(map)[n - 1]
           new == Wave(map)[n]
           first == {<<p, n>> : p \in Fresh(map, n, old)}
<1>1. new = old \cup first
  BY WaveUnfolds DEF Reach
<1>2. /\ old \subseteq Place \X (0 .. n - 1)
      /\ <<Start, 0>> \in old
      /\ \A m \in 0 .. n - 1 : Wave(map)[m] = {k \in old : k[2] <= m}
      /\ \A k, l \in old : k[1] = l[1] => k = l
      /\ \A k \in old : k[1] # Start =>
            \E q \in Neighbours(k[1]) : <<q, k[2] - edge_weight(k[1], map)>> \in old
  BY DEF WaveOK
<1>3. \A p \in Fresh(map, n, old) :
        /\ p \in Place /\ \A k \in old : k[1] # p
        /\ \E q \in Neighbours(p) : <<q, n - edge_weight(p, map)>> \in old
  BY DEF Fresh
<1> HIDE DEF old
<1>4. \A k \in first : /\ k[1] \in Fresh(map, n, old) /\ k[2] = n /\ k = <<k[1], n>>
  OBVIOUS
<1> HIDE DEF first
<1>5. \A k \in old : k[2] \in 0 .. n - 1
  BY <1>2
<1>6. new \subseteq Place \X (0 .. n)
  <2>1. old \subseteq Place \X (0 .. n)
    BY <1>2
  <2>2. \A k \in first : k \in Place \X (0 .. n)
    BY <1>3, <1>4
  <2> QED
    BY <1>1, <2>1, <2>2
<1>7. ASSUME NEW m \in 0 .. n PROVE Wave(map)[m] = {k \in new : k[2] <= m}
  <2>1. CASE m = n
    <3>1. \A k \in new : k[2] <= n
      BY <1>1, <1>4, <1>5
    <3> QED
      BY <3>1, <2>1
  <2>2. CASE m # n
    <3>1. m \in 0 .. n - 1
      BY <2>2
    <3>2. \A k \in first : ~ (k[2] <= m)
      BY <1>4, <3>1
    <3> QED
      BY <1>1, <1>2, <3>1, <3>2
  <2> QED
    BY <2>1, <2>2
<1> HIDE DEF new
<1>8. \A k, l \in new : k[1] = l[1] => k = l
  <2>1. \A k \in old, l \in first : k[1] # l[1]
    BY <1>3, <1>4
  <2>2. \A k, l \in first : k[1] = l[1] => k = l
    BY <1>4
  <2> QED
    BY <1>1, <1>2, <2>1, <2>2
<1>9. ASSUME NEW k \in new, k[1] # Start
      PROVE  \E q \in Neighbours(k[1]) : <<q, k[2] - edge_weight(k[1], map)>> \in new
  <2>1. CASE k \in old
    BY <1>1, <1>2, <1>9, <2>1
  <2>2. CASE k \in first
    BY <1>1, <1>3, <1>4, <2>2
  <2> QED
    BY <1>1, <2>1, <2>2
<1> QED
  BY <1>1, <1>2, <1>6, <1>7, <1>8, <1>9 DEF WaveOK, new

(* By induction on the rounds. *)
LEMMA WaveIsOK ==
    ASSUME NEW map, NEW n \in Nat
    PROVE  WaveOK(map, n)
<1> DEFINE Not == {k \in Nat : ~WaveOK(map, k)}
<1>1. SUFFICES ASSUME Not # {} PROVE FALSE
  OBVIOUS
<1>2. PICK k \in Not : \A j \in Not : k <= j
  <2>1. Not \in SUBSET Nat
    OBVIOUS
  <2> HIDE DEF Not
  <2> QED
    BY <1>1, <2>1, LeastNumber
<1>3. CASE k = 0
  <2>1. Wave(map)[0] = {<<Start, 0>>}
    BY WaveUnfolds
  <2>2. Start \in Place
    BY PlaceIsPair
  <2>3. WaveOK(map, 0)
    BY <2>1, <2>2 DEF WaveOK
  <2> QED
    BY <2>3, <1>3
<1>4. CASE k # 0
  <2>1. k - 1 \in Nat /\ k - 1 \notin Not
    BY <1>2, <1>4
  <2>2. WaveOK(map, k - 1)
    BY <2>1
  <2> QED
    BY <2>2, <1>4, WaveGoesOn
<1> QED
  BY <1>3, <1>4

(* A place is reached no later than by way of a neighbour. *)
LEMMA WaveReachesNeighbours ==
    ASSUME NEW map \in Maps, NEW n \in Nat, NEW q \in Place, NEW e \in Nat,
           <<q, e>> \in Wave(map)[n], NEW p \in Neighbours(q),
           e + edge_weight(p, map) <= n
    PROVE  \E d \in Nat : d <= e + edge_weight(p, map) /\ <<p, d>> \in Wave(map)[n]
<1> DEFINE m == e + edge_weight(p, map)
<1>1. p \in Place /\ q \in Neighbours(p) /\ edge_weight(p, map) \in 1 .. 9
  BY NeighbourIsNear, WeightIsADigit
<1>2. m \in Nat \ {0} /\ m - 1 \in 0 .. n /\ m \in 0 .. n /\ e <= m - 1 /\ m - edge_weight(p, map) = e
  BY <1>1
<1> HIDE DEF m
<1>3. /\ Wave(map)[m - 1] = {k \in Wave(map)[n] : k[2] <= m - 1}
      /\ Wave(map)[m] = {k \in Wave(map)[n] : k[2] <= m}
      /\ Wave(map)[m - 1] \subseteq Place \X (0 .. m - 1)
  BY <1>2, WaveIsOK DEF WaveOK
<1>4. <<q, e>> \in Wave(map)[m - 1]
  BY <1>2, <1>3
<1>5. Wave(map)[m] = Wave(map)[m - 1] \cup {<<r, m>> : r \in Fresh(map, m, Wave(map)[m - 1])}
  BY <1>2, WaveUnfolds DEF Reach
<1>6. CASE p \in {k[1] : k \in Wave(map)[m - 1]}
  <2>1. PICK k \in Wave(map)[m - 1] : k[1] = p
    BY <1>6
  <2>2. k = <<p, k[2]>> /\ k[2] \in Nat /\ k[2] <= m - 1
    BY <1>2, <1>3, <2>1
  <2>3. <<p, k[2]>> \in Wave(map)[n]
    BY <1>3, <2>2
  <2>4. k[2] <= m
    BY <1>2, <2>2
  <2> QED
    BY <2>2, <2>3, <2>4 DEF m
<1>7. CASE p \notin {k[1] : k \in Wave(map)[m - 1]}
  <2>1. p \in Fresh(map, m, Wave(map)[m - 1])
    BY <1>1, <1>2, <1>4, <1>7 DEF Fresh
  <2>2. <<p, m>> \in Wave(map)[n]
    BY <1>3, <1>5, <2>1
  <2> QED
    BY <1>2, <2>2 DEF m
<1> QED
  BY <1>6, <1>7

(* The wave reaches each place within nine times its distance in steps. *)
LEMMA WaveIsEverywhere ==
    ASSUME NEW map \in Maps, NEW p \in Place
    PROVE  \E d \in Nat : d <= 9 * (p[1] + p[2]) /\ <<p, d>> \in Wave(map)[Latest]
<1> DEFINE InTime(r) == \E d \in Nat : d <= 9 * (r[1] + r[2]) /\ <<r, d>> \in Wave(map)[Latest]
           Late == {r[1] + r[2] : r \in {s \in Place : ~InTime(s)}}
<1>1. SUFFICES ASSUME Late # {} PROVE FALSE
  OBVIOUS
<1>2. PICK n \in Late : \A j \in Late : n <= j
  <2>1. Late \in SUBSET Nat
    BY BoundIsDistance
  <2> HIDE DEF Late
  <2> QED
    BY <1>1, <2>1, LeastNumber
<1>3. PICK r \in Place : ~InTime(r) /\ n = r[1] + r[2]
  OBVIOUS
<1> HIDE DEF Late
<1>4. Latest \in Nat /\ n \in Nat /\ n <= width + height - 2 /\ Latest = 9 * (width + height - 2)
  BY <1>3, BoundIsDistance, Sizes DEF Latest
<1>5. r # Start
  <2>1. <<Start, 0>> \in Wave(map)[Latest]
    BY <1>4, WaveIsOK DEF WaveOK
  <2>2. InTime(Start)
    BY <2>1 DEF Start
  <2> QED
    BY <2>2, <1>3
<1>6. PICK q \in Neighbours(r) : q[1] + q[2] = n - 1
  <2> HIDE DEF InTime
  <2>1. PICK q \in Neighbours(r) : q[1] + q[2] = r[1] + r[2] - 1
    BY <1>5, TowardsStart
  <2>2. r[1] + r[2] = n
    BY <1>3
  <2>3. q[1] + q[2] = n - 1
    <3>1. /\ q[1] \in Nat /\ q[2] \in Nat /\ r[1] \in Nat /\ r[2] \in Nat
      BY NeighbourIsNear, PlaceIsPair
    <3> QED
      BY <2>1, <2>2, <3>1
  <2> QED
    BY <2>3
<1>7. q \in Place /\ r \in Neighbours(q) /\ edge_weight(r, map) \in 1 .. 9
  BY NeighbourIsNear, WeightIsADigit
<1>8. InTime(q)
  <2>1. n - 1 \notin Late
    BY <1>2, <1>4
  <2> USE DEF Late
  <2> QED
    BY <1>6, <1>7, <2>1
<1>9. PICK e \in Nat : e <= 9 * (n - 1) /\ <<q, e>> \in Wave(map)[Latest]
  BY <1>6, <1>8
<1>10. e + edge_weight(r, map) <= 9 * n /\ e + edge_weight(r, map) <= Latest
  BY <1>4, <1>7, <1>9, Sizes
<1>11. PICK d \in Nat : d <= e + edge_weight(r, map) /\ <<r, d>> \in Wave(map)[Latest]
  BY <1>4, <1>7, <1>9, <1>10, WaveReachesNeighbours
<1>12. d <= 9 * n
  BY <1>4, <1>7, <1>10, <1>11
<1> QED
  BY <1>3, <1>11, <1>12

(* When the wave reaches p. *)
Distance(map, p) == CHOOSE d \in 0 .. Latest : <<p, d>> \in Wave(map)[Latest]

(* The equations of shortest paths. *)
LEMMA DistanceIsShortest ==
    ASSUME NEW map \in Maps, NEW p \in Place
    PROVE  /\ Distance(map, p) \in Nat /\ Distance(map, p) <= 9 * (p[1] + p[2])
           /\ Distance(map, Start) = 0
           /\ \A q \in Neighbours(p) : Distance(map, p) <= Distance(map, q) + edge_weight(p, map)
           /\ p # Start =>
                \E q \in Neighbours(p) : Distance(map, p) = Distance(map, q) + edge_weight(p, map)
           /\ Distance(map, Goal) = Shortest(map)
<1> DEFINE w == Wave(map)[Latest]
<1>1. /\ w \subseteq Place \X (0 .. Latest)
      /\ <<Start, 0>> \in w
      /\ \A k, l \in w : k[1] = l[1] => k = l
      /\ \A k \in w : k[1] # Start =>
            \E q \in Neighbours(k[1]) : <<q, k[2] - edge_weight(k[1], map)>> \in w
  BY WaveIsOK, Sizes DEF WaveOK
<1>2. ASSUME NEW r \in Place
      PROVE  \E d \in Nat : d <= 9 * (r[1] + r[2]) /\ <<r, d>> \in w
  BY WaveIsEverywhere
<1>3. ASSUME NEW q \in Place, NEW e \in Nat, <<q, e>> \in w, NEW r \in Neighbours(q),
             e + edge_weight(r, map) <= Latest
      PROVE  \E d \in Nat : d <= e + edge_weight(r, map) /\ <<r, d>> \in w
  BY <1>3, Sizes, WaveReachesNeighbours
<1>4. \A r : Distance(map, r) = CHOOSE d \in 0 .. Latest : <<r, d>> \in w
  BY DEF Distance
<1> HIDE DEF w
<1>5. ASSUME NEW r \in Place
      PROVE  /\ Distance(map, r) \in Nat /\ Distance(map, r) <= Latest
             /\ <<r, Distance(map, r)>> \in w
             /\ Distance(map, r) <= 9 * (r[1] + r[2])
  <2>1. PICK d \in Nat : d <= 9 * (r[1] + r[2]) /\ <<r, d>> \in w
    BY <1>2
  <2>2. d \in 0 .. Latest
    BY <1>1, <2>1
  <2>3. Distance(map, r) \in 0 .. Latest /\ <<r, Distance(map, r)>> \in w
    BY <1>4, <2>1, <2>2
  <2>4. <<r, Distance(map, r)>> = <<r, d>>
    BY <1>1, <2>1, <2>3
  <2> QED
    BY <2>1, <2>3, <2>4, Sizes
<1>6. ASSUME NEW r \in Place, NEW d, <<r, d>> \in w PROVE Distance(map, r) = d
  <2>1. <<r, Distance(map, r)>> = <<r, d>>
    BY <1>1, <1>5, <1>6
  <2> QED
    BY <2>1
<1>7. Distance(map, Start) = 0
  BY <1>1, <1>6, PlaceIsPair
<1>8. ASSUME NEW q \in Neighbours(p)
      PROVE  Distance(map, p) <= Distance(map, q) + edge_weight(p, map)
  <2>1. q \in Place /\ p \in Neighbours(q) /\ edge_weight(p, map) \in 1 .. 9
    BY NeighbourIsNear, WeightIsADigit
  <2>2. CASE Distance(map, q) + edge_weight(p, map) <= Latest
    <3>1. Distance(map, q) \in Nat /\ <<q, Distance(map, q)>> \in w
      BY <1>5, <2>1
    <3>2. PICK d \in Nat : d <= Distance(map, q) + edge_weight(p, map) /\ <<p, d>> \in w
      BY <1>3, <3>1, <2>1, <2>2
    <3>3. Distance(map, p) = d
      BY <1>6, <3>2
    <3> QED
      BY <3>2, <3>3
  <2>3. CASE ~(Distance(map, q) + edge_weight(p, map) <= Latest)
    <3>1. Distance(map, p) \in Nat /\ Distance(map, p) <= Latest /\ Distance(map, q) \in Nat
      BY <1>5, <2>1
    <3>2. Latest \in Nat
      BY Sizes
    <3> QED
      BY <3>1, <3>2, <2>1, <2>3
  <2> QED
    BY <2>2, <2>3
<1>9. ASSUME p # Start
      PROVE  \E q \in Neighbours(p) : Distance(map, p) = Distance(map, q) + edge_weight(p, map)
  <2> DEFINE k == <<p, Distance(map, p)>>
  <2>1. k \in w /\ k[1] = p /\ k[2] = Distance(map, p)
    BY <1>5
  <2>2. PICK q \in Neighbours(p) : <<q, Distance(map, p) - edge_weight(p, map)>> \in w
    BY <1>1, <1>9, <2>1
  <2>3. q \in Place /\ edge_weight(p, map) \in 1 .. 9
    BY NeighbourIsNear, WeightIsADigit
  <2>4. Distance(map, q) = Distance(map, p) - edge_weight(p, map)
    BY <1>6, <2>2, <2>3
  <2>5. Distance(map, p) \in Nat
    BY <1>5
  <2>6. Distance(map, p) = Distance(map, q) + edge_weight(p, map)
    BY <2>3, <2>4, <2>5
  <2> QED
    BY <2>2, <2>6
<1>10. Distance(map, Goal) = Shortest(map)
  BY DEF Distance, Shortest
<1> QED
  BY <1>5, <1>7, <1>8, <1>9, <1>10

-----------------------------------------------------------------------------
(* The queue.                                                                *)

(* Two-digit numbers to base h are ordered by their first digit, then the second. *)
LEMMA DigitsInOrder ==
    ASSUME NEW h \in Nat, NEW a \in Nat, NEW b \in Nat, NEW x \in Nat, NEW y \in Nat,
           x < h, y < h, a * h + x <= b * h + y
    PROVE  a <= b /\ (a = b => x <= y)
<1>1. a * h \in Nat /\ b * h \in Nat
  OBVIOUS
<1>2. ASSUME ~ (a <= b) PROVE FALSE
  <2>1. PICK k \in Nat : a = b + 1 + k
    <3>1. a - b - 1 \in Nat /\ a = b + 1 + (a - b - 1)
      BY <1>2
    <3> QED
      BY <3>1
  <2>2. a * h = b * h + h + k * h /\ k * h \in Nat
    BY <2>1
  <2> QED
    BY <1>1, <2>2
<1>3. a = b => x <= y
  BY <1>1
<1> QED
  BY <1>2, <1>3

(* An entry is the packed number of its distance and its place. *)
LEMMA EntryIs ==
    /\ \A e \in Entry : /\ e.dist \in Nat /\ e.dist < Wrap /\ e.place \in Place
                        /\ e = queue_entry(e.dist, e.place)
                        /\ e.key = (e.dist * width + e.place[1]) * height + e.place[2]
                        /\ e.key \in Nat
    /\ \A d \in Nat, p \in Place :
          /\ d < Wrap => queue_entry(d, p) \in Entry
          /\ queue_entry(d, p).dist = d /\ queue_entry(d, p).place = p
<1>1. ASSUME NEW e \in Entry
      PROVE  /\ e.dist \in 0 .. Wrap - 1 /\ e.place \in Place
             /\ e = queue_entry(e.dist, e.place)
             /\ e.key = (e.dist * width + e.place[1]) * height + e.place[2]
  BY DEF Entry, queue_entry
<1>2. ASSUME NEW e \in Entry PROVE e.key \in Nat
  <2>1. e.dist \in Nat /\ width \in Nat /\ height \in Nat /\ e.place[1] \in Nat /\ e.place[2] \in Nat
    BY <1>1, PlaceIsPair, Sizes, SizeAssumption
  <2>2. \A a, b \in Nat : a * b \in Nat /\ a + b \in Nat
    OBVIOUS
  <2> QED
    BY <1>1, <2>1, <2>2
<1>3. ASSUME NEW d \in Nat, NEW p \in Place
      PROVE  /\ d < Wrap => queue_entry(d, p) \in Entry
             /\ queue_entry(d, p).dist = d /\ queue_entry(d, p).place = p
  <2>1. d < Wrap => d \in 0 .. Wrap - 1
    BY SizeAssumption
  <2> QED
    BY <2>1 DEF Entry, queue_entry
<1> QED
  BY <1>1, <1>2, <1>3, SizeAssumption

(* The packed numbers are ordered by dist first and tell the entries apart. *)
LEMMA KeysInOrder ==
    ASSUME NEW a \in Entry, NEW b \in Entry, a.key <= b.key
    PROVE  a.dist <= b.dist /\ (a.key = b.key => a = b)
<1> DEFINE m(e) == e.dist * width + e.place[1]
<1>1. \A e \in {a, b} : /\ e.dist \in Nat /\ e.place \in Place
                        /\ e.place[1] \in Nat /\ e.place[1] < width
                        /\ e.place[2] \in Nat /\ e.place[2] < height
                        /\ e.place = <<e.place[1], e.place[2]>>
                        /\ e = queue_entry(e.dist, e.place)
                        /\ e.key = m(e) * height + e.place[2] /\ e.key \in Nat
  BY EntryIs, PlaceIsPair
<1>2. width \in Nat /\ height \in Nat
  BY Sizes
<1>3. m(a) \in Nat /\ m(b) \in Nat
  <2>1. \A x, y, z \in Nat : x * y + z \in Nat
    OBVIOUS
  <2> QED
    BY <1>1, <1>2, <2>1
<1> HIDE DEF m
<1>4. ASSUME NEW e \in {a, b}, NEW f \in {a, b}, e.key <= f.key
      PROVE  m(e) <= m(f) /\ (m(e) = m(f) => e.place[2] <= f.place[2])
  BY <1>1, <1>2, <1>3, <1>4, DigitsInOrder
<1>5. ASSUME NEW e \in {a, b}, NEW f \in {a, b}, m(e) <= m(f)
      PROVE  e.dist <= f.dist /\ (e.dist = f.dist => e.place[1] <= f.place[1])
  BY <1>1, <1>2, <1>5, DigitsInOrder DEF m
<1>6. a.dist <= b.dist
  BY <1>4, <1>5
<1>7. ASSUME a.key = b.key PROVE a = b
  <2>1. b.key <= a.key
    BY <1>1, <1>7
  <2>2. m(a) <= m(b) /\ m(b) <= m(a)
    BY <1>4, <2>1
  <2>3. m(a) = m(b)
    BY <1>3, <2>2
  <2>4. a.place[2] <= b.place[2] /\ b.place[2] <= a.place[2]
    BY <1>4, <2>1, <2>3
  <2>5. a.dist <= b.dist /\ b.dist <= a.dist
    BY <1>5, <2>2
  <2>6. a.dist = b.dist
    BY <1>1, <2>5
  <2>7. a.place[1] <= b.place[1] /\ b.place[1] <= a.place[1]
    BY <1>5, <2>2, <2>6
  <2>8. a.place = b.place
    BY <1>1, <2>4, <2>7
  <2> QED
    BY <1>1, <2>6, <2>8
<1> QED
  BY <1>6, <1>7

(* No two entries have the same key, so that btree_set replaces none but itself. *)
LEMMA SetAddsEntry ==
    ASSUME queue \subseteq Entry, NEW e \in Entry, Q!Set(e)
    PROVE  queue' = queue \cup {e}
<1>1. queue' = (queue \ Q!WithKey(e.key)) \cup {e}
  BY DEF Q!Set
<1>2. ASSUME NEW f \in Q!WithKey(e.key) PROVE f = e
  <2>1. f \in Entry /\ f.key = e.key
    BY DEF Q!WithKey
  <2>2. f.key <= e.key
    BY <2>1, EntryIs
  <2> QED
    BY <2>1, <2>2, KeysInOrder
<1> QED
  BY <1>1, <1>2

(* btree_pop_min takes one entry out, of least distance. *)
LEMMA PopTakesLeast ==
    ASSUME queue \subseteq Entry, queue # {}, Q!PopMin
    PROVE  /\ ret' \in queue /\ queue' = queue \ {ret'}
           /\ \A f \in queue : ret'.dist <= f.dist
<1> DEFINE keys  == {f.key : f \in queue}
           least == Q!Least(queue)
<1>1. least = {e \in queue : \A f \in queue : e.key <= f.key}
  BY DEF Q!Least
<1>2. PICK k \in keys : \A j \in keys : k <= j
  <2>1. keys \in SUBSET Nat /\ keys # {}
    BY EntryIs
  <2> HIDE DEF keys
  <2> QED
    BY <2>1, LeastNumber
<1>3. least # {}
  BY <1>1, <1>2
<1>4. ret' = Q!OneOf(least) /\ queue' = queue \ least
  BY DEF Q!PopMin, Q!Take
<1>5. ret' \in least
  <2> HIDE DEF least
  <2>1. ret' = CHOOSE e \in least : TRUE
    BY <1>3, <1>4 DEF Q!OneOf
  <2> QED
    BY <1>3, <2>1
<1>6. \A f \in queue : ret'.dist <= f.dist
  BY <1>1, <1>5, KeysInOrder
<1>7. ASSUME NEW e \in least PROVE e = ret'
  <2>1. e \in Entry /\ ret' \in Entry /\ e.key <= ret'.key /\ ret'.key <= e.key
    BY <1>1, <1>5
  <2>2. e.key \in Nat /\ ret'.key \in Nat
    BY <2>1, EntryIs
  <2>3. e.key = ret'.key
    BY <2>1, <2>2
  <2> QED
    BY <2>1, <2>3, KeysInOrder
<1> QED
  BY <1>1, <1>4, <1>5, <1>6, <1>7

-----------------------------------------------------------------------------
(* The invariant.                                                            *)

StartEntry == queue_entry(lower_bound_dist_to_goal(Start), Start)
Scored     == {p \in Place : gs[p] # 0}
Stuck      == {p \in Scored : ~Waits(p) /\ ~PassedOn(p)}

Typed ==
    /\ input \in Maps /\ gs \in [Place -> Nat] /\ queue \subseteq Entry
    /\ lost \in Nat /\ lost <= MaxLost
    /\ i \in 1 .. 4
    /\ phase \in {"start", "pop", "relax", "done", "crash"}
    /\ phase = "relax" =>
          /\ current \in Entry /\ current.place # Goal
          /\ current.place = Start \/ gs[current.place] # 0

(* Nothing has happened but the first btree_set. *)
Untouched == phase = "start" => queue = {} /\ lost = 0 /\ \A p \in Place : gs[p] = 0
Began     == phase = "pop" /\ queue = {StartEntry} /\ \A p \in Place : gs[p] = 0

(* Scores are small: as long as nothing can be lost, because every place is   *)
(* left by a shortest path; otherwise, because each score is that of a        *)
(* neighbour and one digit, and a place gets its first score only once.       *)
Bounded ==
    IF MaxLost = 0 THEN \A p \in Place : gs[p] <= 9 * (width + height)
    ELSE \A p \in Place : gs[p] <= 9 * Cardinality(Scored)

(* The entries of a place never promise more than its score. *)
Queued ==
    \/ Began
    \/ \A e \in queue : gs[e.place] # 0 /\ gs[e.place] + lower_bound_dist_to_goal(e.place) <= e.dist

(* The start has score "none yet" when it is expanded first, so that it needs *)
(* clauses of its own.                                                       *)
StartPassed == Start # Goal /\ \A q \in Neighbours(Start) : gs[q] \in 1 .. edge_weight(q, input)
FirstSteps ==
    lost = 0 /\ phase \in {"pop", "relax"} =>
        \/ Began
        \/ StartPassed
        \/ phase = "relax" /\ current.place = Start /\ gs[Start] = 0

GoalWaits == lost = 0 /\ phase \in {"pop", "relax"} /\ gs[Goal] # 0 => Waits(Goal)

Frontier ==
    /\ phase = "pop" => Cardinality(Stuck) <= lost
    /\ phase = "relax" => Cardinality(Stuck \ {current.place}) <= lost

Relaxed(n) ==
    \A j \in 1 .. n : At(current.place, j) \in Place =>
        gs[At(current.place, j)] \in 1 .. gs[current.place] + edge_weight(At(current.place, j), input)
Progress == phase = "relax" => Relaxed(i - 1)

(* No score is less than the length of a shortest path; the place popped last *)
(* has that score.                                                           *)
Sound == \A p \in Place : gs[p] # 0 => Distance(input, p) <= gs[p]
Settled ==
    lost = 0 /\ phase = "relax" =>
        current.place = Start \/ gs[current.place] = Distance(input, current.place)

Found ==
    phase = "done" =>
        /\ Distance(input, Goal) <= current.dist
        /\ lost = 0 => current.dist = Distance(input, Goal)

RunsDry == phase = "crash" => lost > 0

SearchInv ==
    /\ Typed /\ Untouched /\ Bounded /\ Queued /\ FirstSteps /\ GoalWaits
    /\ Frontier /\ Progress /\ Sound /\ Settled /\ Found /\ RunsDry

-----------------------------------------------------------------------------
(* Numbers stay below 2^16.                                                  *)

(* At most every place has a score. *)
LEMMA ScoredIsFinite ==
    /\ IsFiniteSet(Scored) /\ Cardinality(Scored) \in Nat
    /\ Cardinality(Scored) <= width * height
BY PlacesAreFinite, FS_Subset, FS_CardinalityType DEF Scored

(* There is room in a uint16_t for a score, one more digit and the heuristic. *)
LEMMA Fits ==
    ASSUME Typed, Bounded, NEW p \in Place, NEW q \in Place
    PROVE  gs[p] + 9 + lower_bound_dist_to_goal(q) + 1 < Wrap
<1>1. gs[p] \in Nat /\ lower_bound_dist_to_goal(q) \in Nat
      /\ lower_bound_dist_to_goal(q) <= width + height - 2
  BY BoundIsDistance DEF Typed
<1>2. width \in Nat \ {0} /\ height \in Nat \ {0} /\ Wrap \in Nat /\ MaxLost \in Nat
  BY Sizes, SizeAssumption
<1>3. CASE MaxLost = 0
  <2>1. gs[p] <= 9 * (width + height) /\ Wrap > 20 * (width + height)
    BY <1>3, WrapAssumption DEF Bounded
  <2> QED
    BY <1>1, <1>2, <2>1
<1>4. CASE MaxLost # 0
  <2>1. gs[p] <= 9 * Cardinality(Scored) /\ Wrap > 20 * (width * height)
    BY <1>2, <1>4, WrapAssumption DEF Bounded
  <2>2. width * height \in Nat /\ width + height <= width * height + 1
    <3>1. (width - 1) * (height - 1) \in Nat
      BY <1>2
    <3>2. width * height = (width - 1) * (height - 1) + (width + height - 1)
      BY <1>2
    <3> QED
      BY <1>2, <3>1, <3>2
  <2> DEFINE size == width * height
  <2>3. size \in Nat /\ width + height <= size + 1 /\ gs[p] <= 9 * size /\ Wrap > 20 * size
    BY <2>1, <2>2, <1>1, ScoredIsFinite
  <2> HIDE DEF size
  <2> QED
    BY <1>1, <1>2, <2>3
<1> QED
  BY <1>3, <1>4

-----------------------------------------------------------------------------
(* What the search has found out when an entry is popped.                    *)

(* As long as none was lost, a place whose score is not yet the length of a   *)
(* shortest path has an entry before its own.                                *)
LEMMA Overdue ==
    ASSUME SearchInv, phase = "pop", lost = 0,
           NEW p \in Place, p # Start, gs[p] # Distance(input, p)
    PROVE  \E f \in queue : f.dist <= Distance(input, p) + lower_bound_dist_to_goal(p)
<1> DEFINE S(q)  == Distance(input, q)
           lb(q) == lower_bound_dist_to_goal(q)
           Off   == {q \in Place : q # Start /\ gs[q] # S(q) /\ S(q) + lb(q) <= S(p) + lb(p)}
           Ds    == {S(q) : q \in Off}
<1>1. input \in Maps /\ gs \in [Place -> Nat]
  BY DEF SearchInv, Typed
<1>2. \A q \in Place : /\ S(q) \in Nat /\ lb(q) \in Nat /\ S(Start) = 0
                       /\ \A r \in Neighbours(q) : r \in Place /\ lb(r) <= lb(q) + 1
                       /\ q # Start => \E r \in Neighbours(q) : S(q) = S(r) + edge_weight(q, input)
                       /\ edge_weight(q, input) \in 1 .. 9
  BY <1>1, DistanceIsShortest, BoundIsDistance, NeighbourIsNear, WeightIsADigit
<1> HIDE DEF S, lb
<1>3. PICK d \in Ds : \A c \in Ds : d <= c
  <2>1. p \in Off
    BY <1>2 DEF S
  <2>2. Ds \in SUBSET Nat /\ Ds # {}
    BY <1>2, <2>1
  <2> HIDE DEF Ds
  <2> QED
    BY <2>2, LeastNumber
<1>4. PICK q \in Off : S(q) = d
  BY <1>3
<1>5. PICK r \in Neighbours(q) : S(q) = S(r) + edge_weight(q, input)
  BY <1>2, <1>4
<1>6. /\ r \in Place /\ q \in Neighbours(r) /\ S(r) \in Nat /\ lb(r) \in Nat /\ lb(r) <= lb(q) + 1
      /\ edge_weight(q, input) \in 1 .. 9 /\ q \in Place /\ lb(q) \in Nat
      /\ S(p) \in Nat /\ lb(p) \in Nat
  BY <1>2, <1>5, NeighbourIsNear
<1>7. S(r) < S(q) /\ S(r) + lb(r) <= S(p) + lb(p)
  <2>1. S(q) + lb(q) <= S(p) + lb(p)
    OBVIOUS
  <2> QED
    BY <1>5, <1>6, <2>1
<1>8. r = Start \/ gs[r] = S(r)
  <2>1. r \notin Off
    <3>1. SUFFICES ASSUME r \in Off PROVE FALSE
      OBVIOUS
    <3>2. d <= S(r)
      BY <1>3, <3>1
    <3>3. S(q) \in Nat
      BY <1>2, <1>6
    <3> QED
      BY <3>2, <3>3, <1>4, <1>6, <1>7
  <2> QED
    BY <2>1, <1>6, <1>7
<1>9. ~ (gs[q] \in 1 .. S(q))
  <2>1. gs[q] # 0 => S(q) <= gs[q]
    BY <1>6 DEF SearchInv, Sound, S
  <2>2. gs[q] # S(q) /\ gs[q] \in Nat /\ S(q) \in Nat
    BY <1>1, <1>2, <1>6
  <2> QED
    BY <2>1, <2>2
<1>10. CASE r = Start
  <2>1. Began \/ StartPassed
    BY DEF SearchInv, FirstSteps
  <2>2. CASE Began
    <3>1. StartEntry \in queue /\ StartEntry.dist = lb(r)
      BY <2>2, <1>10, <1>6, EntryIs DEF Began, StartEntry, lb
    <3>2. lb(r) <= S(p) + lb(p)
      BY <1>6, <1>7
    <3> QED
      BY <3>1, <3>2 DEF S, lb
  <2>3. CASE StartPassed
    <3>1. gs[q] \in 1 .. edge_weight(q, input)
      BY <2>3, <1>6, <1>10 DEF StartPassed
    <3>2. S(q) = edge_weight(q, input)
      BY <1>2, <1>5, <1>6, <1>10
    <3> QED
      BY <3>1, <3>2, <1>9
  <2> QED
    BY <2>1, <2>2, <2>3
<1>11. CASE r # Start
  <2>1. gs[r] = S(r) /\ gs[r] # 0
    <3>1. PICK u \in Neighbours(r) : S(r) = S(u) + edge_weight(r, input)
      BY <1>2, <1>6, <1>11
    <3>2. S(u) \in Nat /\ edge_weight(r, input) \in 1 .. 9
      BY <1>2, <1>6, <3>1
    <3> QED
      BY <1>8, <1>11, <3>1, <3>2
  <2>2. r \notin Stuck
    <3>1. IsFiniteSet(Stuck) /\ Cardinality(Stuck) <= 0
      BY ScoredIsFinite, FS_Subset DEF SearchInv, Frontier, Stuck
    <3>2. Stuck = {}
      BY <3>1, FS_EmptySet, FS_CardinalityType
    <3> QED
      BY <3>2
  <2>3. Waits(r) \/ PassedOn(r)
    BY <2>1, <2>2, <1>6 DEF Stuck, Scored
  <2>4. CASE Waits(r)
    <3> DEFINE f == queue_entry(gs[r] + lower_bound_dist_to_goal(r), r)
    <3>1. f \in queue
      BY <2>4 DEF Waits
    <3>2. f.dist = S(r) + lb(r)
      BY <2>1, <1>6, EntryIs DEF lb
    <3> HIDE DEF f
    <3> QED
      BY <3>1, <3>2, <1>7 DEF S, lb
  <2>5. CASE PassedOn(r)
    <3>1. gs[q] \in 1 .. S(r) + edge_weight(q, input)
      BY <2>1, <2>5, <1>6 DEF PassedOn
    <3> QED
      BY <3>1, <1>5, <1>9
  <2> QED
    BY <2>3, <2>4, <2>5
<1> QED
  BY <1>10, <1>11

(* The place that is popped has the length of a shortest path for its score. *)
LEMMA PoppedIsSettled ==
    ASSUME SearchInv, phase = "pop", lost = 0,
           NEW e \in queue, \A f \in queue : e.dist <= f.dist, e.place # Start
    PROVE  gs[e.place] = Distance(input, e.place)
<1> DEFINE p == e.place
<1>1. /\ p \in Place /\ gs[p] \in Nat /\ e.dist \in Nat
      /\ Distance(input, p) \in Nat /\ lower_bound_dist_to_goal(p) \in Nat
  BY EntryIs, DistanceIsShortest, BoundIsDistance DEF SearchInv, Typed
<1>2. gs[p] # 0 /\ gs[p] + lower_bound_dist_to_goal(p) <= e.dist
  <2>1. ~Began
    BY EntryIs, BoundIsDistance, PlaceIsPair DEF Began, StartEntry
  <2> QED
    BY <2>1 DEF SearchInv, Queued
<1>3. Distance(input, p) <= gs[p]
  BY <1>1, <1>2 DEF SearchInv, Sound
<1>4. SUFFICES ASSUME gs[p] # Distance(input, p) PROVE FALSE
  OBVIOUS
<1>5. PICK f \in queue : f.dist <= Distance(input, p) + lower_bound_dist_to_goal(p)
  BY <1>1, <1>4, Overdue
<1>6. e.dist <= f.dist /\ f.dist \in Nat
  BY EntryIs DEF SearchInv, Typed
<1> HIDE DEF p
<1> QED
  BY <1>1, <1>2, <1>3, <1>4, <1>5, <1>6

(* The entries do not run out before the goal is popped. *)
LEMMA QueueNotEmpty ==
    ASSUME SearchInv, phase = "pop", lost = 0
    PROVE  queue # {}
<1> SUFFICES ASSUME queue = {} PROVE FALSE
  OBVIOUS
<1>1. StartPassed
  BY DEF SearchInv, FirstSteps, Began
<1>2. Goal \in Place /\ Goal # Start
  BY <1>1, PlaceIsPair DEF StartPassed
<1>3. gs[Goal] = Distance(input, Goal)
  BY <1>2, Overdue
<1>4. gs[Goal] # 0
  <2>1. input \in Maps
    BY DEF SearchInv, Typed
  <2>2. PICK q \in Neighbours(Goal) :
            Distance(input, Goal) = Distance(input, q) + edge_weight(Goal, input)
    BY <2>1, <1>2, DistanceIsShortest
  <2>3. Distance(input, q) \in Nat /\ edge_weight(Goal, input) \in 1 .. 9
    BY <2>1, <1>2, DistanceIsShortest, NeighbourIsNear, WeightIsADigit
  <2> QED
    BY <1>3, <2>2, <2>3
<1> QED
  BY <1>4 DEF SearchInv, GoalWaits, Waits

-----------------------------------------------------------------------------
(* The steps of the search.                                                  *)

(* btree_set adds the entry, or it is lost. *)
LEMMA PushAdds ==
    ASSUME queue \subseteq Entry, NEW e \in Entry, Push(e)
    PROVE  \/ queue' = queue \cup {e} /\ lost' = lost
           \/ queue' = queue /\ lost < MaxLost /\ lost' = lost + 1
BY SetAddsEntry DEF Push, Q!OutOfMemory

(* The first btree_set. *)
LEMMA StartStep ==
    ASSUME SearchInv, start
    PROVE  SearchInv'
<1>1. /\ phase = "start" /\ phase' = "pop" /\ UNCHANGED <<input, gs, current, i>>
      /\ queue = {} /\ lost = 0 /\ \A p \in Place : gs[p] = 0
  BY DEF SearchInv, Untouched, start
<1>2. StartEntry \in Entry
  <2>1. lower_bound_dist_to_goal(Start) \in Nat /\ lower_bound_dist_to_goal(Start) < Wrap
    <3>1. gs[Start] + 9 + lower_bound_dist_to_goal(Start) + 1 < Wrap /\ gs[Start] = 0
      BY <1>1, PlaceIsPair, Fits DEF SearchInv
    <3>2. lower_bound_dist_to_goal(Start) \in Nat
      BY PlaceIsPair, BoundIsDistance
    <3> QED
      BY <3>1, <3>2, SizeAssumption
  <2> QED
    BY <2>1, EntryIs, PlaceIsPair DEF StartEntry
<1>3. \/ queue' = {StartEntry} /\ lost' = 0
      \/ queue' = {} /\ lost < MaxLost /\ lost' = 1
  <2>1. Push(StartEntry) /\ queue \subseteq Entry
    BY DEF start, Start, StartEntry, SearchInv, Typed
  <2> QED
    BY <1>1, <1>2, <2>1, PushAdds
<1>4. Typed'
  BY <1>1, <1>2, <1>3, SizeAssumption DEF SearchInv, Typed
<1>5. Untouched' /\ Progress' /\ Settled' /\ Found' /\ RunsDry'
  BY <1>1 DEF Untouched, Progress, Settled, Found, RunsDry
<1>6. Bounded'
  BY <1>1 DEF SearchInv, Bounded, Scored
<1>7. Queued' /\ FirstSteps'
  BY <1>1, <1>3 DEF Queued, FirstSteps, Began
<1>8. GoalWaits' /\ Sound'
  BY <1>1, PlaceIsPair DEF GoalWaits, Sound
<1>9. Frontier'
  <2>1. Stuck' = {}
    BY <1>1 DEF Stuck, Scored
  <2>2. Cardinality(Stuck') = 0
    BY <2>1, FS_EmptySet
  <2> QED
    BY <1>1, <1>3, <2>2 DEF Frontier
<1> QED
  BY <1>4, <1>5, <1>6, <1>7, <1>8, <1>9 DEF SearchInv

(* btree_pop_min returns NULL only if entries were lost. *)
LEMMA PopNothingStep ==
    ASSUME SearchInv, pop_nothing
    PROVE  SearchInv'
<1>1. /\ phase = "pop" /\ queue = {} /\ phase' = "crash"
      /\ UNCHANGED <<input, gs, queue, lost, current, i>>
  BY DEF pop_nothing
<1>2. lost \in Nat /\ lost # 0
  BY <1>1, QueueNotEmpty DEF SearchInv, Typed
<1> QED
  BY <1>1, <1>2 DEF SearchInv, Typed, Untouched, Bounded, Scored, Queued, FirstSteps, GoalWaits,
     Frontier, Progress, Sound, Settled, Found, RunsDry

(* btree_pop_min takes an entry for the place to expand, or for the goal. *)
LEMMA PopStep ==
    ASSUME SearchInv, pop
    PROVE  SearchInv'
<1> DEFINE e == current'
<1>1. /\ phase = "pop" /\ UNCHANGED <<input, gs, lost>> /\ i' = 1
      /\ phase' = IF IsGoal(e.place) THEN "done" ELSE "relax"
      /\ e \in queue /\ queue' = queue \ {e} /\ \A f \in queue : e.dist <= f.dist
  BY PopTakesLeast DEF pop, SearchInv, Typed
<1>2. /\ e \in Entry /\ e.place \in Place /\ e.dist \in Nat /\ input \in Maps
      /\ e = queue_entry(e.dist, e.place)
      /\ gs \in [Place -> Nat] /\ lost \in Nat
  BY <1>1, EntryIs DEF SearchInv, Typed
<1>3. IsGoal(e.place) <=> e.place = Goal
  BY DEF IsGoal, Goal
<1>4. ASSUME NEW p \in Place, p # e.place, Waits(p) PROVE Waits(p)'
  <2> DEFINE f == queue_entry(gs[p] + lower_bound_dist_to_goal(p), p)
  <2>1. f \in queue /\ f.place = p
    BY <1>2, <1>4, EntryIs, BoundIsDistance DEF Waits
  <2>2. f \in queue'
    BY <1>1, <1>4, <2>1
  <2> QED
    BY <1>1, <2>2 DEF Waits, lower_bound_dist_to_goal
<1>5. Typed'
  <2>1. e.place = Start \/ gs[e.place] # 0
    BY <1>1, <1>2, EntryIs, BoundIsDistance, PlaceIsPair DEF SearchInv, Queued, Began, StartEntry
  <2> QED
    BY <1>1, <1>2, <1>3, <2>1 DEF SearchInv, Typed
<1>6. Untouched' /\ RunsDry'
  BY <1>1 DEF Untouched, RunsDry
<1>7. Bounded' /\ Sound'
  BY <1>1 DEF SearchInv, Bounded, Sound, Scored
<1>8. Queued'
  BY <1>1 DEF SearchInv, Queued, Began
<1>9. FirstSteps'
  <2>1. SUFFICES ASSUME lost = 0, phase' = "relax"
                 PROVE  StartPassed' \/ (e.place = Start /\ gs[Start] = 0)
    BY <1>1 DEF FirstSteps
  <2>2. StartPassed => StartPassed'
    BY <1>1 DEF StartPassed
  <2>3. Began => e.place = Start /\ gs[Start] = 0
    BY <1>1, EntryIs, BoundIsDistance, PlaceIsPair DEF Began, StartEntry
  <2> QED
    BY <1>1, <2>1, <2>2, <2>3 DEF SearchInv, FirstSteps
<1>10. GoalWaits'
  <2>1. SUFFICES ASSUME lost = 0, phase' = "relax", gs[Goal] # 0 PROVE Waits(Goal)'
    BY <1>1 DEF GoalWaits, Waits
  <2>2. Goal \in Place /\ Goal # e.place /\ Waits(Goal)
    BY <1>1, <1>3, <2>1, PlaceIsPair DEF SearchInv, GoalWaits
  <2> QED
    BY <1>4, <2>2
<1>11. Frontier'
  <2>1. SUFFICES ASSUME phase' = "relax" PROVE Cardinality(Stuck' \ {e.place}) <= lost
    BY <1>1 DEF Frontier
  <2>2. Stuck' \ {e.place} \subseteq Stuck
    BY <1>1, <1>4 DEF Stuck, Scored, PassedOn
  <2>3. IsFiniteSet(Stuck) /\ Cardinality(Stuck) <= lost
    BY <1>1, ScoredIsFinite, FS_Subset DEF Stuck, SearchInv, Frontier
  <2>4. Cardinality(Stuck' \ {e.place}) <= Cardinality(Stuck) /\ Cardinality(Stuck) \in Nat
        /\ Cardinality(Stuck' \ {e.place}) \in Nat
    BY <2>2, <2>3, FS_Subset, FS_CardinalityType
  <2> QED
    BY <1>2, <2>3, <2>4
<1>12. Progress'
  BY <1>1 DEF Progress, Relaxed
<1>13. Settled'
  <2>1. lost = 0 /\ e.place # Start => gs[e.place] = Distance(input, e.place)
    BY <1>1, PoppedIsSettled
  <2> QED
    BY <1>1, <2>1 DEF Settled
<1>14. Found'
  <2>1. SUFFICES ASSUME e.place = Goal
                 PROVE  /\ Distance(input, Goal) <= e.dist
                        /\ lost = 0 => e.dist = Distance(input, Goal)
    BY <1>1, <1>3 DEF Found
  <2>2. Distance(input, Goal) \in Nat /\ lower_bound_dist_to_goal(Goal) = 0 /\ Goal \in Place
    BY <1>2, PlaceIsPair, DistanceIsShortest, BoundIsDistance
  <2>3. CASE Goal = Start
    <3>1. Distance(input, Goal) = 0
      BY <1>2, <2>2, <2>3, DistanceIsShortest
    <3>2. lost = 0 => e = StartEntry
      BY <1>1, <2>3 DEF SearchInv, FirstSteps, StartPassed, Began
    <3>3. StartEntry.dist = 0
      BY <2>2, <2>3, EntryIs DEF StartEntry
    <3> QED
      BY <1>2, <3>1, <3>2, <3>3
  <2>4. CASE Goal # Start
    <3>1. ~Began
      BY <1>1, <2>1, <2>4, EntryIs, BoundIsDistance, PlaceIsPair DEF Began, StartEntry
    <3>2. gs[Goal] # 0 /\ gs[Goal] + 0 <= e.dist /\ gs[Goal] \in Nat
      BY <1>1, <1>2, <2>1, <2>2, <3>1 DEF SearchInv, Queued
    <3>3. Distance(input, Goal) <= gs[Goal]
      BY <2>2, <3>2 DEF SearchInv, Sound
    <3>4. ASSUME lost = 0 PROVE e.dist = Distance(input, Goal)
      <4>1. gs[Goal] = Distance(input, Goal)
        BY <1>1, <2>1, <2>4, <3>4, PoppedIsSettled
      <4> DEFINE f == queue_entry(gs[Goal] + 0, Goal)
      <4>2. f \in queue
        BY <1>1, <2>2, <3>2, <3>4 DEF SearchInv, GoalWaits, Waits
      <4>3. f.dist = gs[Goal]
        BY <2>2, <3>2, EntryIs
      <4> HIDE DEF f
      <4>4. e.dist <= gs[Goal]
        BY <1>1, <4>2, <4>3
      <4> QED
        BY <1>2, <3>2, <4>1, <4>4
    <3> QED
      BY <1>2, <2>2, <3>2, <3>3, <3>4
  <2> QED
    BY <2>3, <2>4
<1> QED
  BY <1>5, <1>6, <1>7, <1>8, <1>9, <1>10, <1>11, <1>12, <1>13, <1>14 DEF SearchInv

(* The neighbour that relax and skip look at. *)
LEMMA AtNeighbour ==
    ASSUME SearchInv, phase = "relax"
    PROVE  /\ current.place \in Place /\ Neighbour = At(current.place, i)
           /\ Neighbour \in Place =>
                /\ Neighbour \in Neighbours(current.place) /\ Neighbour # current.place
                /\ edge_weight(Neighbour, input) \in 1 .. 9
                /\ new_gscore = gs[current.place] + edge_weight(Neighbour, input)
                /\ new_gscore \in Nat \ {0}
                /\ new_gscore + lower_bound_dist_to_goal(Neighbour) \in Nat
                /\ new_gscore + lower_bound_dist_to_goal(Neighbour) + 1 < Wrap
<1>1. /\ current.place \in Place /\ i \in 1 .. 4 /\ input \in Maps
      /\ gs[current.place] \in Nat
  BY EntryIs DEF SearchInv, Typed
<1>2. Neighbour = At(current.place, i)
  BY DEF Neighbour, At
<1>3. ASSUME Neighbour \in Place
      PROVE  /\ Neighbour \in Neighbours(current.place) /\ Neighbour # current.place
             /\ edge_weight(Neighbour, input) \in 1 .. 9
             /\ new_gscore = gs[current.place] + edge_weight(Neighbour, input)
             /\ new_gscore \in Nat \ {0}
             /\ new_gscore + lower_bound_dist_to_goal(Neighbour) \in Nat
             /\ new_gscore + lower_bound_dist_to_goal(Neighbour) + 1 < Wrap
  <2> DEFINE w  == edge_weight(Neighbour, input)
             lb == lower_bound_dist_to_goal(Neighbour)
  <2>1. Neighbour \in Neighbours(current.place) /\ w \in 1 .. 9 /\ lb \in Nat
    BY <1>1, <1>2, <1>3, FourWays, WeightIsADigit, BoundIsDistance
  <2>2. Neighbour # current.place
    BY <1>1, <2>1, NeighbourIsNear
  <2>3. gs[current.place] + 9 + lb + 1 < Wrap /\ Wrap \in Nat
    BY <1>1, <1>3, Fits, SizeAssumption DEF SearchInv
  <2>4. new_gscore = (gs[current.place] + w) % Wrap
    BY DEF new_gscore
  <2> HIDE DEF w, lb
  <2>5. \A a, b \in Nat : a < b => a % b = a
    OBVIOUS
  <2>6. gs[current.place] + w \in Nat /\ gs[current.place] + w < Wrap
    BY <1>1, <2>1, <2>3
  <2>7. new_gscore = gs[current.place] + w
    BY <2>3, <2>4, <2>5, <2>6
  <2>8. new_gscore \in Nat \ {0} /\ new_gscore + lb \in Nat /\ new_gscore + lb + 1 < Wrap
    BY <1>1, <2>1, <2>3, <2>7
  <2> QED
    BY <2>1, <2>2, <2>7, <2>8 DEF w, lb
<1> QED
  BY <1>1, <1>2, <1>3

(* When all four neighbours have been looked at, the score is passed on. *)
LEMMA AllRelaxed ==
    ASSUME Relaxed(4), current.place \in Place
    PROVE  PassedOn(current.place)
BY FourWays DEF Relaxed, PassedOn

(* A neighbour off the map, or one whose score is no worse. *)
LEMMA SkipStep ==
    ASSUME SearchInv, skip
    PROVE  SearchInv'
<1> DEFINE c == current.place
<1>1. /\ phase = "relax" /\ UNCHANGED <<input, gs, queue, lost, current>>
      /\ Neighbour \in Place => ~Beats(Neighbour)
      /\ IF i = 4 THEN phase' = "pop" /\ i' = i ELSE i' = i + 1 /\ phase' = phase
  BY DEF skip, AfterNeighbour
<1>2. i \in 1 .. 4 /\ c \in Place /\ Neighbour = At(c, i) /\ gs \in [Place -> Nat] /\ lost \in Nat
  BY <1>1, AtNeighbour DEF SearchInv, Typed
<1>3. Relaxed(i)
  <2>1. Relaxed(i - 1)
    BY <1>1 DEF SearchInv, Progress
  <2>2. ASSUME At(c, i) \in Place
        PROVE  gs[At(c, i)] \in 1 .. gs[c] + edge_weight(At(c, i), input)
    <3>1. /\ ~ (new_gscore < IF gs[Neighbour] = 0 THEN Wrap - 1 ELSE gs[Neighbour])
          /\ new_gscore = gs[c] + edge_weight(Neighbour, input)
          /\ new_gscore \in Nat /\ gs[Neighbour] \in Nat /\ Wrap \in Nat
      BY <1>1, <1>2, <2>2, AtNeighbour, SizeAssumption DEF Beats
    <3>2. new_gscore < Wrap - 1
      <4>1. lower_bound_dist_to_goal(Neighbour) \in Nat
            /\ new_gscore + lower_bound_dist_to_goal(Neighbour) + 1 < Wrap
        BY <1>1, <1>2, <2>2, AtNeighbour, BoundIsDistance
      <4> QED
        BY <3>1, <4>1
    <3> QED
      BY <1>2, <3>1, <3>2
  <2> QED
    BY <1>2, <2>1, <2>2 DEF Relaxed
<1>4. phase' = "pop" => PassedOn(c)
  BY <1>1, <1>2, <1>3, AllRelaxed
<1>5. Typed'
  BY <1>1, <1>2 DEF SearchInv, Typed
<1>6. Untouched' /\ Found' /\ RunsDry'
  BY <1>1 DEF Untouched, Found, RunsDry
<1>7. Bounded' /\ Sound'
  BY <1>1 DEF SearchInv, Bounded, Sound, Scored
<1>8. Queued'
  BY <1>1 DEF SearchInv, Queued, Began
<1>9. FirstSteps'
  <2>1. SUFFICES ASSUME lost = 0, phase' \in {"pop", "relax"}
                 PROVE  StartPassed \/ (phase' = "relax" /\ c = Start /\ gs[Start] = 0)
    BY <1>1 DEF FirstSteps, StartPassed
  <2>2. StartPassed \/ (c = Start /\ gs[Start] = 0)
    BY <1>1, <2>1 DEF SearchInv, FirstSteps, Began
  <2>3. ASSUME phase' = "pop", c = Start, gs[Start] = 0 PROVE StartPassed
    <3>1. c # Goal
      BY <1>1 DEF SearchInv, Typed
    <3>2. \A q \in Neighbours(Start) : edge_weight(q, input) \in 1 .. 9
      BY PlaceIsPair, NeighbourIsNear, WeightIsADigit DEF SearchInv, Typed
    <3> QED
      BY <1>4, <2>3, <3>1, <3>2 DEF StartPassed, PassedOn
  <2> QED
    BY <2>1, <2>2, <2>3
<1>10. GoalWaits'
  BY <1>1 DEF SearchInv, GoalWaits, Waits
<1>11. Frontier'
  <2>1. Stuck' = Stuck
    BY <1>1 DEF Stuck, Scored, Waits, PassedOn
  <2>2. Cardinality(Stuck \ {c}) <= lost
    BY <1>1 DEF SearchInv, Frontier
  <2>3. phase' = "pop" => Stuck \ {c} = Stuck
    BY <1>4 DEF Stuck
  <2> QED
    BY <1>1, <2>1, <2>2, <2>3 DEF Frontier
<1>12. Progress'
  <2>1. phase' = "relax" => i' - 1 = i
    BY <1>1, <1>2
  <2> QED
    BY <1>1, <1>3, <2>1 DEF Progress, Relaxed
<1>13. Settled'
  BY <1>1 DEF SearchInv, Settled
<1> QED
  BY <1>5, <1>6, <1>7, <1>8, <1>9, <1>10, <1>11, <1>12, <1>13 DEF SearchInv

(* What relax does to the scores and to the queue. *)
LEMMA RelaxFacts ==
    ASSUME SearchInv, relax
    PROVE  LET c == current.place
               n == Neighbour
               e == queue_entry(new_gscore + lower_bound_dist_to_goal(n), n)
           IN  /\ phase = "relax" /\ UNCHANGED <<input, current>>
               /\ c \in Place /\ n \in Place /\ n # c /\ n \in Neighbours(c) /\ n = At(c, i)
               /\ i \in 1 .. 4 /\ gs \in [Place -> Nat] /\ lost \in Nat /\ input \in Maps
               /\ gs' = [gs EXCEPT ![n] = new_gscore]
               /\ gs' \in [Place -> Nat]
               /\ edge_weight(n, input) \in 1 .. 9
               /\ new_gscore = gs[c] + edge_weight(n, input) /\ new_gscore \in Nat \ {0}
               /\ gs[n] # 0 => new_gscore < gs[n]
               /\ e \in Entry /\ e.place = n
               /\ e.dist = new_gscore + lower_bound_dist_to_goal(n)
               /\ \/ queue' = queue \cup {e} /\ lost' = lost
                  \/ queue' = queue /\ lost < MaxLost /\ lost' = lost + 1
               /\ IF i = 4 THEN phase' = "pop" /\ i' = i ELSE i' = i + 1 /\ phase' = phase
<1> DEFINE c == current.place
           n == Neighbour
           lb == lower_bound_dist_to_goal(n)
           e == queue_entry(new_gscore + lb, n)
<1>1. /\ phase = "relax" /\ UNCHANGED <<input, current>>
      /\ n \in Place /\ Beats(n) /\ gs' = [gs EXCEPT ![n] = new_gscore]
      /\ Push(queue_entry((new_gscore + lb) % Wrap, n))
      /\ IF i = 4 THEN phase' = "pop" /\ i' = i ELSE i' = i + 1 /\ phase' = phase
  BY DEF relax, AfterNeighbour
<1>2. /\ i \in 1 .. 4 /\ gs \in [Place -> Nat] /\ lost \in Nat /\ input \in Maps /\ queue \subseteq Entry
  BY DEF SearchInv, Typed
<1>3. /\ c \in Place /\ n # c /\ n \in Neighbours(c) /\ n = At(c, i)
      /\ edge_weight(n, input) \in 1 .. 9
      /\ new_gscore = gs[c] + edge_weight(n, input) /\ new_gscore \in Nat \ {0}
      /\ new_gscore + lb \in Nat /\ new_gscore + lb + 1 < Wrap
  BY <1>1, AtNeighbour
<1>4. gs[n] # 0 => new_gscore < gs[n]
  BY <1>1 DEF Beats
<1> HIDE DEF n, lb
<1>5. (new_gscore + lb) % Wrap = new_gscore + lb
  <2>1. \A a, b \in Nat : a < b => a % b = a
    OBVIOUS
  <2>2. Wrap \in Nat /\ new_gscore + lb < Wrap
    BY <1>3, SizeAssumption
  <2> QED
    BY <1>3, <2>1, <2>2
<1>6. e \in Entry /\ e.place = n /\ e.dist = new_gscore + lb
  <2>1. new_gscore + lb < Wrap
    BY <1>3, SizeAssumption
  <2> QED
    BY <1>1, <1>3, <2>1, EntryIs
<1>7. \/ queue' = queue \cup {e} /\ lost' = lost
      \/ queue' = queue /\ lost < MaxLost /\ lost' = lost + 1
  <2>1. Push(e)
    BY <1>1, <1>5
  <2> QED
    BY <1>2, <1>6, <2>1, PushAdds
<1>8. gs' \in [Place -> Nat]
  BY <1>1, <1>2, <1>3
<1> QED
  BY <1>1, <1>2, <1>3, <1>4, <1>6, <1>7, <1>8 DEF n, lb

(* The other places keep what they have. *)
LEMMA OthersKeep ==
    ASSUME SearchInv, relax, NEW p \in Place, p # Neighbour
    PROVE  /\ gs'[p] = gs[p]
           /\ Waits(p) => Waits(p)'
           /\ PassedOn(p) => PassedOn(p)'
<1> DEFINE n == Neighbour
<1>1. /\ n \in Place /\ gs \in [Place -> Nat] /\ gs' = [gs EXCEPT ![n] = new_gscore]
      /\ new_gscore \in Nat \ {0}
      /\ gs[n] # 0 => new_gscore < gs[n]
      /\ queue \subseteq queue' /\ input' = input /\ input \in Maps
  BY RelaxFacts
<1> HIDE DEF n
<1>2. gs'[p] = gs[p]
  BY <1>1 DEF n
<1>3. Waits(p) => Waits(p)'
  BY <1>1, <1>2 DEF Waits
<1>4. ASSUME PassedOn(p), NEW q \in Neighbours(p)
      PROVE  gs'[q] \in 1 .. gs'[p] + edge_weight(q, input')
  <2>1. /\ gs[q] \in 1 .. gs[p] + edge_weight(q, input) /\ q \in Place
        /\ edge_weight(q, input) \in 1 .. 9 /\ gs[p] \in Nat /\ gs[q] \in Nat
    BY <1>1, <1>4, NeighbourIsNear, WeightIsADigit DEF PassedOn
  <2>2. gs'[q] \in Nat \ {0} /\ gs'[q] <= gs[q]
    <3>1. CASE q = n
      BY <1>1, <2>1, <3>1
    <3>2. CASE q # n
      BY <1>1, <2>1, <3>2
    <3> QED
      BY <3>1, <3>2
  <2> QED
    BY <1>1, <1>2, <2>1, <2>2
<1>5. PassedOn(p) => PassedOn(p)'
  BY <1>4 DEF PassedOn
<1> QED
  BY <1>2, <1>3, <1>5

(* The new score is small. *)
LEMMA RelaxBounded ==
    ASSUME SearchInv, relax
    PROVE  Bounded'
<1> DEFINE c == current.place
           n == Neighbour
           w == edge_weight(n, input)
<1>1. /\ c \in Place /\ n \in Place /\ gs \in [Place -> Nat] /\ gs' = [gs EXCEPT ![n] = new_gscore]
      /\ w \in 1 .. 9 /\ new_gscore = gs[c] + w /\ new_gscore \in Nat \ {0}
      /\ gs[n] # 0 => new_gscore < gs[n]
      /\ n \in Neighbours(c) /\ phase = "relax" /\ lost \in Nat /\ lost <= MaxLost /\ input \in Maps
  BY RelaxFacts DEF SearchInv, Typed
<1>2. \A p \in Place : gs'[p] = IF p = n THEN new_gscore ELSE gs[p]
  BY <1>1
<1>3. CASE MaxLost = 0
  <2>1. new_gscore <= 9 * (width + height)
    <3>1. lost = 0
      BY <1>1, <1>3, SizeAssumption
    <3>2. width \in Nat /\ height \in Nat /\ width + height >= 2
      BY Sizes
    <3>3. CASE c = Start
      <4>1. ~StartPassed
        <5>1. SUFFICES ASSUME StartPassed PROVE FALSE
          OBVIOUS
        <5>2. gs[n] \in 1 .. w
          BY <1>1, <3>3, <5>1 DEF StartPassed
        <5>3. gs[c] \in Nat
          BY <1>1
        <5> HIDE DEF n, w, c
        <5> QED
          BY <1>1, <5>2, <5>3
      <4>2. gs[c] = 0
        BY <1>1, <3>1, <3>3, <4>1 DEF SearchInv, FirstSteps, Began
      <4> HIDE DEF n, w, c
      <4> QED
        BY <1>1, <3>2, <4>2
    <3>4. CASE c # Start
      <4>1. gs[c] = Distance(input, c)
        BY <1>1, <3>1, <3>4 DEF SearchInv, Settled
      <4>2. Distance(input, c) <= 9 * (c[1] + c[2]) /\ Distance(input, c) \in Nat
        BY <1>1, DistanceIsShortest
      <4>3. c[1] + c[2] \in Nat /\ c[1] + c[2] <= width + height - 2
        BY <1>1, BoundIsDistance
      <4> DEFINE s == c[1] + c[2]
      <4>4. s \in Nat /\ s <= width + height - 2 /\ gs[c] <= 9 * s /\ gs[c] \in Nat
        BY <4>1, <4>2, <4>3
      <4> HIDE DEF n, w, c, s
      <4> QED
        BY <1>1, <3>2, <4>4
    <3> QED
      BY <3>3, <3>4
  <2> QED
    BY <1>2, <1>3, <2>1 DEF SearchInv, Bounded
<1>4. CASE MaxLost # 0
  <2>1. \A p \in Place : gs[p] \in Nat /\ gs[p] <= 9 * Cardinality(Scored)
    BY <1>1, <1>4 DEF SearchInv, Bounded
  <2>2. IsFiniteSet(Scored) /\ Cardinality(Scored) \in Nat
    BY ScoredIsFinite
  <2>3. Scored' = Scored \cup {n}
    BY <1>1, <1>2 DEF Scored
  <2>4. CASE gs[n] = 0
    <3>1. n \notin Scored
      BY <2>4 DEF Scored
    <3>2. Cardinality(Scored') = Cardinality(Scored) + 1
      BY <2>2, <2>3, <3>1, FS_AddElement
    <3>3. new_gscore <= 9 * Cardinality(Scored) + 9
      <4>1. gs[c] \in Nat /\ gs[c] <= 9 * Cardinality(Scored)
        BY <1>1, <2>1
      <4> HIDE DEF n, w, c
      <4> QED
        BY <1>1, <2>2, <4>1
    <3>4. \A p \in Place : gs'[p] <= 9 * Cardinality(Scored')
      BY <1>2, <2>1, <2>2, <3>2, <3>3
    <3> QED
      BY <1>4, <3>4 DEF Bounded
  <2>5. CASE gs[n] # 0
    <3>1. Scored' = Scored
      BY <1>1, <2>3, <2>5 DEF Scored
    <3>2. \A p \in Place : gs'[p] <= 9 * Cardinality(Scored)
      BY <1>1, <1>2, <2>1, <2>2, <2>5
    <3> QED
      BY <1>4, <3>1, <3>2 DEF Bounded
  <2> QED
    BY <2>4, <2>5
<1> QED
  BY <1>3, <1>4

(* The neighbours looked at so far have the score passed on. *)
LEMMA RelaxProgress ==
    ASSUME SearchInv, relax
    PROVE  /\ Progress'
           /\ phase' = "pop" => PassedOn(current.place)'
<1> DEFINE c == current.place
           n == Neighbour
           G(j) == At(c, j) \in Place =>
                      gs'[At(c, j)] \in 1 .. gs[c] + edge_weight(At(c, j), input)
<1>1. /\ c \in Place /\ n \in Place /\ gs \in [Place -> Nat] /\ gs' = [gs EXCEPT ![n] = new_gscore]
      /\ edge_weight(n, input) \in 1 .. 9
      /\ new_gscore = gs[c] + edge_weight(n, input) /\ new_gscore \in Nat \ {0}
      /\ gs[n] # 0 => new_gscore < gs[n]
      /\ n # c /\ n = At(c, i) /\ i \in 1 .. 4 /\ input' = input /\ current' = current
      /\ phase = "relax"
      /\ IF i = 4 THEN phase' = "pop" /\ i' = i ELSE i' = i + 1 /\ phase' = phase
  BY RelaxFacts
<1> HIDE DEF n
<1>2. gs'[c] = gs[c] /\ gs[c] \in Nat
  BY <1>1
<1>3. G(i)
  <2>1. gs'[n] = new_gscore
    BY <1>1
  <2> QED
    BY <1>1, <1>2, <2>1
<1>4. ASSUME NEW j \in 1 .. i - 1, At(c, j) \in Place PROVE G(j)
  <2> DEFINE q == At(c, j)
  <2>1. gs[q] \in 1 .. gs[c] + edge_weight(q, input)
    BY <1>1, <1>4 DEF SearchInv, Progress, Relaxed
  <2>2. q \in Place
    BY <1>4
  <2>3. q = n => G(j)
    BY <1>1, <1>3
  <2> HIDE DEF q
  <2>4. q # n => gs'[q] = gs[q]
    BY <1>1, <2>2
  <2> QED
    BY <2>1, <2>3, <2>4 DEF q
<1>5. \A j \in 1 .. i : G(j)
  BY <1>1, <1>3, <1>4
<1> HIDE DEF G
<1>6. i = 4 => Relaxed(4)'
  BY <1>1, <1>2, <1>5 DEF Relaxed, G
<1>7. phase' = "pop" => PassedOn(c)'
  <2>1. ASSUME Relaxed(4)' PROVE PassedOn(c)'
    BY <1>1, <2>1, FourWays DEF Relaxed, PassedOn
  <2> QED
    BY <1>1, <1>6, <2>1
<1>8. Progress'
  <2>1. phase' = "relax" => i' - 1 = i
    BY <1>1
  <2> QED
    BY <1>1, <1>2, <1>5, <2>1 DEF Progress, Relaxed, G
<1> QED
  BY <1>7, <1>8

(* No other score is forgotten, and the new one only if its entry is lost. *)
LEMMA RelaxFrontier ==
    ASSUME SearchInv, relax
    PROVE  Frontier'
<1> DEFINE c == current.place
           n == Neighbour
           lb == lower_bound_dist_to_goal(n)
           e == queue_entry(new_gscore + lb, n)
<1>1. /\ c \in Place /\ n \in Place /\ gs \in [Place -> Nat] /\ gs' = [gs EXCEPT ![n] = new_gscore]
      /\ n # c /\ phase = "relax" /\ lost \in Nat /\ current' = current
      /\ \/ queue' = queue \cup {e} /\ lost' = lost
         \/ queue' = queue /\ lost < MaxLost /\ lost' = lost + 1
      /\ phase' \in {"pop", "relax"}
  BY RelaxFacts
<1>2. IsFiniteSet(Stuck \ {c}) /\ Cardinality(Stuck \ {c}) <= lost
  BY <1>1, ScoredIsFinite, FS_Subset DEF Stuck, SearchInv, Frontier
<1>3. ASSUME NEW p \in Stuck' \ {c}, p # n PROVE p \in Stuck \ {c}
  <2>1. p \in Place /\ gs'[p] # 0 /\ ~Waits(p)' /\ ~PassedOn(p)'
    BY <1>3 DEF Stuck, Scored
  <2> QED
    BY <1>3, <2>1, OthersKeep DEF Stuck, Scored
<1>4. ASSUME NEW p \in Place, p = n, queue' = queue \cup {e} PROVE p \notin Stuck'
  <2>1. gs'[p] = new_gscore
    BY <1>1, <1>4
  <2>2. e = queue_entry(gs'[p] + lower_bound_dist_to_goal(p), p)
    BY <1>4, <2>1
  <2> HIDE DEF e
  <2>3. Waits(p)'
    BY <1>4, <2>2 DEF Waits
  <2> QED
    BY <2>3 DEF Stuck
<1> HIDE DEF c, n, e, lb
<1>5. Cardinality(Stuck' \ {c}) <= lost'
  <2>1. Cardinality(Stuck \ {c}) \in Nat
    BY <1>2, FS_CardinalityType
  <2>2. CASE queue' = queue \cup {e} /\ lost' = lost
    <3>1. Stuck' \ {c} \subseteq Stuck \ {c}
      BY <1>1, <1>3, <1>4, <2>2
    <3>2. Cardinality(Stuck' \ {c}) <= Cardinality(Stuck \ {c}) /\ Cardinality(Stuck' \ {c}) \in Nat
      BY <1>2, <3>1, FS_Subset, FS_CardinalityType
    <3> QED
      BY <1>1, <1>2, <2>1, <2>2, <3>2
  <2>3. CASE lost' = lost + 1
    <3> DEFINE more == (Stuck \ {c}) \cup {n}
    <3>1. Stuck' \ {c} \subseteq more
      BY <1>3
    <3>2. IsFiniteSet(more) /\ Cardinality(more) <= Cardinality(Stuck \ {c}) + 1
          /\ Cardinality(more) \in Nat
      <4>1. IsFiniteSet(more) /\ Cardinality(more) = IF n \in Stuck \ {c} THEN Cardinality(Stuck \ {c})
                                                    ELSE Cardinality(Stuck \ {c}) + 1
        BY <1>2, FS_AddElement
      <4> HIDE DEF more
      <4> QED
        BY <2>1, <4>1
    <3> HIDE DEF more
    <3>3. Cardinality(Stuck' \ {c}) <= Cardinality(more) /\ Cardinality(Stuck' \ {c}) \in Nat
      BY <3>1, <3>2, FS_Subset, FS_CardinalityType
    <3> QED
      BY <1>1, <1>2, <2>1, <2>3, <3>2, <3>3
  <2> QED
    BY <1>1, <2>2, <2>3
<1>6. phase' = "pop" => Stuck' \ {c} = Stuck'
  <2>1. phase' = "pop" => PassedOn(current.place)'
    BY RelaxProgress
  <2>2. ASSUME NEW p \in Place, p = c, phase' = "pop" PROVE p \notin Stuck'
    BY <1>1, <2>1, <2>2 DEF Stuck, PassedOn, c
  <2> QED
    BY <1>1, <2>2
<1> QED
  BY <1>1, <1>5, <1>6 DEF Frontier, c

(* A neighbour gets a better score. *)
LEMMA RelaxStep ==
    ASSUME SearchInv, relax
    PROVE  SearchInv'
<1> DEFINE c == current.place
           n == Neighbour
           lb == lower_bound_dist_to_goal(n)
           e == queue_entry(new_gscore + lb, n)
<1>1. /\ phase = "relax" /\ UNCHANGED <<input, current>>
      /\ c \in Place /\ n \in Place /\ n # c /\ n \in Neighbours(c)
      /\ i \in 1 .. 4 /\ gs \in [Place -> Nat] /\ lost \in Nat /\ input \in Maps
      /\ gs' = [gs EXCEPT ![n] = new_gscore] /\ gs' \in [Place -> Nat]
      /\ edge_weight(n, input) \in 1 .. 9
      /\ new_gscore = gs[c] + edge_weight(n, input) /\ new_gscore \in Nat \ {0}
      /\ gs[n] # 0 => new_gscore < gs[n]
      /\ e \in Entry /\ e.place = n /\ e.dist = new_gscore + lb
      /\ \/ queue' = queue \cup {e} /\ lost' = lost
         \/ queue' = queue /\ lost < MaxLost /\ lost' = lost + 1
      /\ IF i = 4 THEN phase' = "pop" /\ i' = i ELSE i' = i + 1 /\ phase' = phase
  BY RelaxFacts
<1>2. /\ \A p \in Place : gs'[p] = IF p = n THEN new_gscore ELSE gs[p]
      /\ queue \subseteq Entry /\ lost <= MaxLost /\ current \in Entry /\ c # Goal
      /\ c = Start \/ gs[c] # 0
      /\ phase' \in {"pop", "relax"}
  BY <1>1 DEF SearchInv, Typed
<1>3. lb \in Nat
  BY <1>1, BoundIsDistance
<1> HIDE DEF n, e, lb
<1>4. Typed'
  <2>1. queue' \subseteq Entry /\ lost' \in Nat /\ lost' <= MaxLost
    BY <1>1, <1>2, SizeAssumption
  <2>2. i' \in 1 .. 4
    BY <1>1
  <2>3. gs'[c] = gs[c]
    BY <1>1, <1>2
  <2> QED
    BY <1>1, <1>2, <2>1, <2>2, <2>3 DEF Typed
<1>5. Untouched' /\ Found' /\ RunsDry'
  BY <1>2 DEF Untouched, Found, RunsDry
<1>6. Bounded' /\ Frontier' /\ Progress'
  BY RelaxBounded, RelaxFrontier, RelaxProgress
<1>7. Queued'
  <2>1. \A f \in queue : gs[f.place] # 0 /\ gs[f.place] + lower_bound_dist_to_goal(f.place) <= f.dist
    BY <1>1 DEF SearchInv, Queued, Began
  <2>2. ASSUME NEW f \in queue
        PROVE  gs'[f.place] # 0 /\ gs'[f.place] + lower_bound_dist_to_goal(f.place) <= f.dist
    <3>1. /\ f.place \in Place /\ f.dist \in Nat /\ gs[f.place] \in Nat
          /\ lower_bound_dist_to_goal(f.place) \in Nat
      BY <1>1, <1>2, EntryIs, BoundIsDistance
    <3>2. gs'[f.place] # 0 /\ gs'[f.place] <= gs[f.place] /\ gs'[f.place] \in Nat
      BY <1>1, <1>2, <2>1, <3>1
    <3> QED
      BY <2>1, <3>1, <3>2
  <2>3. gs'[e.place] # 0 /\ gs'[e.place] + lower_bound_dist_to_goal(e.place) <= e.dist
    BY <1>1, <1>2, <1>3 DEF lb
  <2>4. \A f \in queue' :
            gs'[f.place] # 0 /\ gs'[f.place] + lower_bound_dist_to_goal(f.place) <= f.dist
    BY <1>1, <2>2, <2>3
  <2> QED
    BY <2>4 DEF Queued
<1>8. FirstSteps'
  <2>1. SUFFICES ASSUME lost' = 0
                 PROVE  StartPassed' \/ (phase' = "relax" /\ c = Start /\ gs'[Start] = 0)
    BY <1>1 DEF FirstSteps
  <2>2. lost = 0
    BY <1>1, <2>1
  <2>3. StartPassed \/ (c = Start /\ gs[Start] = 0)
    BY <1>1, <2>2 DEF SearchInv, FirstSteps, Began
  <2>4. CASE StartPassed
    <3>1. ASSUME NEW q \in Neighbours(Start) PROVE gs'[q] \in 1 .. edge_weight(q, input)
      <4>1. gs[q] \in 1 .. edge_weight(q, input) /\ q \in Place /\ edge_weight(q, input) \in 1 .. 9
        BY <1>1, <2>4, PlaceIsPair, NeighbourIsNear, WeightIsADigit DEF StartPassed
      <4>2. gs'[q] \in Nat \ {0} /\ gs'[q] <= gs[q] /\ gs[q] \in Nat
        BY <1>1, <1>2, <4>1
      <4> QED
        BY <4>1, <4>2
    <3> QED
      BY <1>1, <2>4, <3>1 DEF StartPassed
  <2>5. CASE c = Start /\ gs[Start] = 0
    <3>1. gs'[Start] = 0
      BY <1>1, <1>2, <2>5
    <3>2. ASSUME phase' = "pop" PROVE StartPassed'
      <4>1. PassedOn(c)'
        BY <3>2, RelaxProgress
      <4>2. \A q \in Neighbours(Start) : edge_weight(q, input) \in 1 .. 9
        BY <1>1, PlaceIsPair, NeighbourIsNear, WeightIsADigit
      <4> QED
        BY <1>1, <1>2, <2>5, <3>1, <4>1, <4>2 DEF StartPassed, PassedOn
    <3> QED
      BY <1>2, <2>5, <3>1, <3>2
  <2> QED
    BY <2>3, <2>4, <2>5
<1>9. GoalWaits'
  <2>1. SUFFICES ASSUME lost' = 0, gs'[Goal] # 0 PROVE Waits(Goal)'
    BY DEF GoalWaits
  <2>2. lost = 0 /\ queue' = queue \cup {e}
    BY <1>1, <2>1
  <2>3. CASE Goal = n
    <3>1. e \in queue' /\ gs'[n] = new_gscore
      BY <1>1, <1>2, <2>2
    <3> QED
      BY <2>3, <3>1 DEF Waits, e, lb
  <2>4. CASE Goal # n
    <3>1. Waits(Goal)
      BY <1>1, <1>2, <2>1, <2>2, <2>4, PlaceIsPair DEF SearchInv, GoalWaits
    <3> QED
      BY <2>4, <3>1, PlaceIsPair, OthersKeep DEF n
  <2> QED
    BY <2>3, <2>4
<1>10. Sound'
  <2>1. ASSUME NEW p \in Place, gs'[p] # 0 PROVE Distance(input, p) <= gs'[p]
    <3>1. CASE p = n
      <4>1. Distance(input, c) <= gs[c] /\ Distance(input, c) \in Nat /\ gs[c] \in Nat
        BY <1>1, <1>2, DistanceIsShortest DEF SearchInv, Sound
      <4>2. Distance(input, n) <= Distance(input, c) + edge_weight(n, input)
            /\ Distance(input, n) \in Nat
        BY <1>1, NeighbourIsNear, DistanceIsShortest
      <4> QED
        BY <1>1, <1>2, <3>1, <4>1, <4>2
    <3>2. CASE p # n
      BY <1>2, <2>1, <3>2 DEF SearchInv, Sound
    <3> QED
      BY <3>1, <3>2
  <2> QED
    BY <1>1, <2>1 DEF Sound
<1>11. Settled'
  BY <1>1, <1>2 DEF SearchInv, Settled
<1> QED
  BY <1>4, <1>5, <1>6, <1>7, <1>8, <1>9, <1>10, <1>11 DEF SearchInv

-----------------------------------------------------------------------------
(* The theorems.                                                             *)

(* The invariant holds at first ... *)
LEMMA SearchBegins ==
    ASSUME Init PROVE SearchInv
<1>1. /\ input \in Maps /\ gs = [p \in Place |-> 0] /\ queue = {} /\ lost = 0 /\ i = 1
      /\ phase = "start"
  BY DEF Init, Maps
<1>2. Typed
  BY <1>1, SizeAssumption DEF Typed
<1>3. Scored = {} /\ \A p \in Place : gs[p] = 0
  BY <1>1 DEF Scored
<1>4. Bounded
  <2>1. width \in Nat /\ height \in Nat /\ Cardinality(Scored) \in Nat
    BY Sizes, ScoredIsFinite
  <2> QED
    BY <1>3, <2>1 DEF Bounded
<1> QED
  BY <1>1, <1>2, <1>3, <1>4 DEF SearchInv, Untouched, Queued, FirstSteps, GoalWaits,
     Frontier, Progress, Sound, Settled, Found, RunsDry

(* ... is kept by every step ... *)
LEMMA SearchGoesOn ==
    ASSUME SearchInv, [Next]_vars
    PROVE  SearchInv'
<1>1. CASE start
  BY <1>1, StartStep
<1>2. CASE pop
  BY <1>2, PopStep
<1>3. CASE pop_nothing
  BY <1>3, PopNothingStep
<1>4. CASE skip
  BY <1>4, SkipStep
<1>5. CASE relax
  BY <1>5, RelaxStep
<1>6. CASE UNCHANGED vars
  BY <1>6 DEF vars, SearchInv, Typed, Untouched, Began, Bounded, Scored, Queued, FirstSteps,
     StartPassed, GoalWaits, Waits, Frontier, Stuck, PassedOn, Progress, Relaxed, Sound,
     Settled, Found, RunsDry
<1> QED
  BY <1>1, <1>2, <1>3, <1>4, <1>5, <1>6 DEF Next

(* ... and so holds always. *)
LEMMA SearchIsSound == Spec => []SearchInv
BY SearchBegins, SearchGoesOn, PTL DEF Spec

(* The A* search of day15_find finds shortest paths: as long as no btree_set *)
(* has failed, the goal is popped with the length of one; and never with less. *)
THEOREM FindsShortestPath == Spec => []FindsShortest
<1>1. SearchInv => FindsShortest
  <2>1. SUFFICES ASSUME SearchInv, phase = "done" PROVE FindsShortest
    BY DEF FindsShortest
  <2>2. Distance(input, Goal) = Shortest(input) /\ Distance(input, Goal) \in Nat
    <3>1. input \in Maps /\ Goal \in Place
      BY <2>1, PlaceIsPair DEF SearchInv, Typed
    <3> QED
      BY <3>1, DistanceIsShortest
  <2>3. current.dist >= Distance(input, Goal) /\ (lost = 0 => current.dist = Distance(input, Goal))
    BY <2>1, <2>2 DEF SearchInv, Found, Typed
  <2> QED
    BY <2>1, <2>2, <2>3 DEF FindsShortest
<1> QED
  BY <1>1, SearchIsSound, PTL

(* Between pops no score is forgotten: each waits in the queue, was passed on *)
(* to all four neighbours, or went with one of the entries that were lost.   *)
THEOREM NoScoreForgotten == Spec => []FrontierWaits
<1>1. SearchInv => FrontierWaits
  <2>1. Stuck = {p \in Place : gs[p] # 0 /\ ~Waits(p) /\ ~PassedOn(p)}
    BY DEF Stuck, Scored
  <2> QED
    BY <2>1 DEF SearchInv, Frontier, FrontierWaits
<1> QED
  BY <1>1, SearchIsSound, PTL

(* The NULL of btree_pop_min is followed only after a btree_set has failed.  *)
THEOREM NullIsNotFollowed == Spec => [](phase = "crash" => lost > 0)
<1>1. SearchInv => (phase = "crash" => lost > 0)
  BY DEF SearchInv, RunsDry
<1> QED
  BY <1>1, SearchIsSound, PTL

(* No score and no distance leaves its uint16_t: where relax reduces them    *)
(* modulo 2^16 there is nothing to reduce, and UINT16_MAX is beyond them all. *)
THEOREM NoScoreWraps ==
    Spec => [](phase = "relax" /\ Neighbour \in Place =>
                  /\ new_gscore = gs[current.place] + edge_weight(Neighbour, input)
                  /\ new_gscore + lower_bound_dist_to_goal(Neighbour) < Wrap - 1)
<1>1. SearchInv =>
        (phase = "relax" /\ Neighbour \in Place =>
            /\ new_gscore = gs[current.place] + edge_weight(Neighbour, input)
            /\ new_gscore + lower_bound_dist_to_goal(Neighbour) < Wrap - 1)
  BY AtNeighbour, SizeAssumption
<1> QED
  BY <1>1, SearchIsSound, PTL

===============================================================================
