------------------------------- MODULE Snailfish -------------------------------
(***************************************************************************)
(* What day 18 computes with: numbers that are pairs within pairs, written *)
(* as the sequence of their digits with the depth of each, are added and   *)
(* then reduced by one rule at a time until neither applies.  An explosion *)
(* goes before any split, and the leftmost digit before the others.        *)
(* Day18.tla is shown to implement this.                                   *)
(***************************************************************************)
EXTENDS Integers, Sequences

CONSTANTS
    Number,     \* the numbers that may be added
    Nested,     \* the depth of digits whose pair explodes
    Ten         \* the least digit that is split

VARIABLE number     \* the sum so far

Digit(v, d) == [value |-> v, depth |-> d]

Leftmost(S) == CHOOSE k \in S : \A l \in S : k <= l

TooDeep(n)  == {k \in 1 .. Len(n) : n[k].depth = Nested}
TooLarge(n) == {k \in 1 .. Len(n) : n[k].value >= Ten}
IsReduced(n) == TooDeep(n) = {} /\ TooLarge(n) = {}

Plus(digit, v) == [digit EXCEPT !.value = @ + v]

\* The digits left and right of the pair k, k + 1 receive its values.
ExplodedAt(n, k) ==
    [j \in 1 .. Len(n) - 1 |->
        CASE j < k - 1 -> n[j]
          [] j = k - 1 -> Plus(n[j], n[k].value)
          [] j = k     -> Digit(0, Nested - 1)
          [] j = k + 1 -> Plus(n[j + 1], n[k + 1].value)
          [] j > k + 1 -> n[j + 1]]

SplitAt(n, k) ==
    LET half == n[k].value \div 2 IN
    [j \in 1 .. Len(n) + 1 |->
        CASE j < k     -> n[j]
          [] j = k     -> Digit(half, n[k].depth + 1)
          [] j = k + 1 -> Digit(n[k].value - half, n[k].depth + 1)
          [] j > k + 1 -> n[j - 1]]

Exploded(n) == ExplodedAt(n, Leftmost(TooDeep(n)))
Split(n)    == SplitAt(n, Leftmost(TooLarge(n)))

Paired(a, b) == [j \in 1 .. Len(a) + Len(b) |-> LET c == (a \o b)[j] IN Digit(c.value, c.depth + 1)]

\* The digits that fit into what is h levels above the deepest.
Size[h \in Nat] == IF h = 0 THEN 1 ELSE 2 * Size[h - 1]

(* A digit at depth d fills one of Size[d] places, each of which has room    *)
(* for Size[Nested - d] of the deepest.                                      *)
Filled(n) ==
    LET filled[k \in 0 .. Len(n)] ==
            IF k = 0 THEN 0 ELSE filled[k - 1] + Size[Nested - n[k].depth]
    IN  filled

IsNumber(n) ==
    /\ n \in Seq([value : Nat, depth : 0 .. Nested])
    /\ Filled(n)[Len(n)] = Size[Nested]
    /\ \A k \in 1 .. Len(n) :
          \E m \in 0 .. Size[n[k].depth] - 1 :
              Filled(n)[k - 1] = m * Size[Nested - n[k].depth]

(* A half of a pair at depth d ends where its digits fill Size[Nested - d - 1]. *)
Magnitude(n) ==
    LET m[lo \in 1 .. Len(n), hi \in 1 .. Len(n), d \in 0 .. Nested] ==
            IF lo = hi THEN n[lo].value
            ELSE LET mid == CHOOSE k \in lo .. hi :
                                Filled(n)[k] - Filled(n)[lo - 1] = Size[Nested - d - 1]
                 IN  3 * m[lo, mid, d + 1] + 2 * m[mid + 1, hi, d + 1]
    IN  m[1, Len(n), 0]

Init == number \in Number

Begin == IsReduced(number) /\ number' \in Number

Add == IsReduced(number) /\ \E b \in Number : number' = Paired(number, b)

Explode == TooDeep(number) # {} /\ number' = Exploded(number)

SplitOne == TooDeep(number) = {} /\ TooLarge(number) # {} /\ number' = Split(number)

Next == Begin \/ Add \/ Explode \/ SplitOne

Spec == Init /\ [][Next]_number

===============================================================================
