------------------------------ MODULE Recursion ------------------------------
(***************************************************************************)
(* A function of the natural numbers whose value at n is computed from n   *)
(* and its value at n - 1 exists.  An instance of this module says so of   *)
(* one recursive definition f[n \in Nat] == Step(n, f[n - 1]).             *)
(***************************************************************************)
EXTENDS Naturals, WellFoundedInduction, TLAPS

CONSTANT Step(_, _)

(* A set of numbers that is not empty has a least one. *)
LEMMA LeastNumber ==
    ASSUME NEW S \in SUBSET Nat, S # {}
    PROVE  \E n \in S : \A m \in S : n <= m
<1>1. PICK n \in S : \A m \in S : <<m, n>> \notin OpToRel(<, Nat)
  BY NatLessThanWellFounded, WFMin
<1>2. \A m \in S : ~ (m < n)
  BY <1>1 DEF OpToRel
<1> QED
  BY <1>2

(* The values up to n. *)
Begins(n, w) == w = [k \in 0 .. n |-> Step(k, w[k - 1])]

(* What the equation says at one place. *)
LEMMA BeginsAt ==
    ASSUME NEW n \in Nat, NEW w, Begins(n, w), NEW k \in 0 .. n
    PROVE  w[k] = Step(k, w[k - 1])
<1> DEFINE e(j) == Step(j, w[j - 1])
<1>1. w = [j \in 0 .. n |-> e(j)]
  BY DEF Begins
<1> HIDE DEF e
<1>2. w[k] = e(k)
  BY <1>1
<1> QED
  BY <1>2 DEF e

(* Any number of values can be computed, and there is only one way to. *)
LEMMA BeginningsExist ==
    ASSUME \A x, y : Step(0, x) = Step(0, y), NEW n \in Nat
    PROVE  \E w : Begins(n, w)
<1> DEFINE None == {k \in Nat : ~ \E w : Begins(k, w)}
<1>1. SUFFICES ASSUME None # {} PROVE FALSE
  OBVIOUS
<1>2. PICK k \in None : \A j \in None : k <= j
  BY <1>1, LeastNumber
<1>3. ASSUME NEW v, v = [j \in 0 .. k |-> v[j]],
             \A j \in 0 .. k : v[j] = Step(j, v[j - 1])
      PROVE  FALSE
  <2>1. v = [j \in 0 .. k |-> Step(j, v[j - 1])]
    BY <1>3
  <2> QED
    BY <1>2, <2>1 DEF Begins
<1>4. CASE k = 0
  <2> DEFINE v == [j \in 0 .. 0 |-> Step(0, 0)]
  <2>1. v = [j \in 0 .. k |-> v[j]]
    BY <1>4
  <2>2. v[0] = Step(0, 0)
    OBVIOUS
  <2> HIDE DEF v
  <2>3. ASSUME NEW j \in 0 .. k PROVE v[j] = Step(j, v[j - 1])
    <3>1. j = 0
      BY <1>4
    <3> QED
      BY <3>1, <2>2
  <2> QED
    BY <1>3, <2>1, <2>3
<1>5. CASE k # 0
  <2>1. k - 1 \in Nat /\ k - 1 \notin None
    BY <1>2, <1>5
  <2>2. PICK w : Begins(k - 1, w)
    BY <2>1
  <2> DEFINE v == [j \in 0 .. k |-> IF j = k THEN Step(k, w[k - 1]) ELSE w[j]]
  <2>3. (\A j \in 0 .. k - 1 : v[j] = w[j]) /\ v[k] = Step(k, w[k - 1])
    BY <2>1
  <2>4. v = [j \in 0 .. k |-> v[j]]
    OBVIOUS
  <2> HIDE DEF v
  <2>5. ASSUME NEW j \in 0 .. k PROVE v[j] = Step(j, v[j - 1])
    <3>1. CASE j = k
      <4>1. v[k - 1] = w[k - 1]
        BY <2>1, <2>3
      <4> QED
        BY <3>1, <4>1, <2>3
    <3>2. CASE j # k
      <4>1. j \in 0 .. k - 1
        BY <3>2, <2>1
      <4>2. v[j] = Step(j, w[j - 1])
        BY <4>1, <2>1, <2>2, <2>3, BeginsAt
      <4>3. CASE j = 0
        <5>1. Step(0, w[j - 1]) = Step(0, v[j - 1])
          OBVIOUS
        <5> QED
          BY <4>2, <4>3, <5>1
      <4>4. CASE j # 0
        <5>1. v[j - 1] = w[j - 1]
          BY <4>1, <4>4, <2>3
        <5> QED
          BY <4>2, <5>1
      <4> QED
        BY <4>3, <4>4
    <3> QED
      BY <3>1, <3>2
  <2> QED
    BY <1>3, <2>4, <2>5
<1> QED
  BY <1>4, <1>5

LEMMA BeginningsAgree ==
    ASSUME \A x, y : Step(0, x) = Step(0, y),
           NEW n \in Nat, NEW m \in Nat, NEW v, NEW w, Begins(n, v), Begins(m, w),
           NEW k \in Nat, k <= n, k <= m
    PROVE  v[k] = w[k]
<1> DEFINE Bad == {j \in Nat : j <= n /\ j <= m /\ v[j] # w[j]}
<1>1. SUFFICES ASSUME Bad # {} PROVE FALSE
  OBVIOUS
<1>2. PICK j \in Bad : \A l \in Bad : j <= l
  BY <1>1, LeastNumber
<1>3. v[j] = Step(j, v[j - 1]) /\ w[j] = Step(j, w[j - 1])
  <2>1. j \in 0 .. n /\ j \in 0 .. m
    BY <1>2
  <2> QED
    BY <2>1, BeginsAt
<1>4. CASE j = 0
  <2>1. Step(0, v[j - 1]) = Step(0, w[j - 1])
    OBVIOUS
  <2> QED
    BY <1>2, <1>3, <1>4, <2>1
<1>5. CASE j # 0
  <2>1. v[j - 1] = w[j - 1]
    BY <1>2, <1>5
  <2> QED
    BY <1>2, <1>3, <2>1
<1> QED
  BY <1>4, <1>5

(* The equation has a solution, if it does not ask for a value before 0. *)
THEOREM Solvable ==
    ASSUME \A x, y : Step(0, x) = Step(0, y)
    PROVE  \E f : f = [n \in Nat |-> Step(n, f[n - 1])]
<1> DEFINE part(n) == CHOOSE w : Begins(n, w)
           whole   == [n \in Nat |-> part(n)[n]]
<1>1. \A n \in Nat : Begins(n, part(n))
  BY BeginningsExist
<1> HIDE DEF part
<1>2. ASSUME NEW n \in Nat PROVE whole[n] = Step(n, whole[n - 1])
  <2>1. part(n)[n] = Step(n, part(n)[n - 1])
    <3>1. n \in 0 .. n /\ Begins(n, part(n))
      BY <1>1
    <3>2. ASSUME NEW w, Begins(n, w) PROVE w[n] = Step(n, w[n - 1])
      BY <3>1, <3>2, BeginsAt
    <3> QED
      BY <3>1, <3>2
  <2>2. CASE n = 0
    <3>1. Step(0, part(n)[n - 1]) = Step(0, whole[n - 1])
      OBVIOUS
    <3> QED
      BY <2>1, <2>2, <3>1
  <2>3. CASE n # 0
    <3>1. n - 1 \in Nat /\ n - 1 <= n /\ Begins(n, part(n)) /\ Begins(n - 1, part(n - 1))
      BY <1>1, <2>3
    <3>2. ASSUME NEW v, NEW w, Begins(n, v), Begins(n - 1, w) PROVE v[n - 1] = w[n - 1]
      BY <3>1, <3>2, BeginningsAgree
    <3>3. part(n)[n - 1] = part(n - 1)[n - 1]
      BY <3>1, <3>2
    <3> QED
      BY <2>1, <3>1, <3>3
  <2> QED
    BY <2>2, <2>3
<1>3. whole = [n \in Nat |-> whole[n]]
  OBVIOUS
<1> HIDE DEF whole
<1>4. whole = [n \in Nat |-> Step(n, whole[n - 1])]
  BY <1>2, <1>3
<1> QED
  BY <1>4

==============================================================================
