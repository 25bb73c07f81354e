-------------------------------- MODULE MCDay18 --------------------------------
(***************************************************************************)
(* TLC instances of Day18: numbers of every shape up to three deep, whose  *)
(* sums explode from the fourth level on, of the largest digits; and the   *)
(* answers by reducing each sum with the rules of Snailfish.               *)
(***************************************************************************)
EXTENDS Day18

Pairs(S, T) == {<<Open>> \o s \o <<Comma>> \o t \o <<Close>> : s \in S, t \in T}

Flat    == Pairs({<<9>>}, {<<9>>})
Shallow == Pairs({<<9>>} \cup Flat, {<<9>>} \cup Flat)
MCLine  == Pairs({<<9>>} \cup Shallow, {<<9>>} \cup Shallow) \cup Pairs({<<1>>}, Flat)

MCInputs ==
    {<<l>> : l \in MCLine}
        \cup {<<l, m>> : l \in MCLine, m \in Pairs({<<9>>} \cup Flat, {<<9>>} \cup Shallow)}
        \cup {<<l, m, l>> : l \in Pairs({<<1>>}, Flat), m \in Shallow}

RECURSIVE Reduced(_)
Reduced(n) ==
    IF F!TooDeep(n) # {} THEN Reduced(F!Exploded(n))
    ELSE IF F!TooLarge(n) # {} THEN Reduced(F!Split(n))
    ELSE n

Sum(a, b) == Reduced(F!Paired(a, b))

Magnitudes(S) == {F!Magnitude(n) : n \in S}

Numbers(ls) == [k \in DOMAIN ls |-> parsed[ls[k]]]

\* The sum of all lines, to the first of which the first is added once more.
Answer1 == [ls \in MCInputs |->
    Max(Magnitudes({FoldLeft(Sum, parsed[ls[1]], Numbers(ls))}))]

Answer2 == [ls \in MCInputs |->
    LET OfTwo == {q \in (DOMAIN ls) \X (DOMAIN ls) : q[1] # q[2]} IN
    IF OfTwo = {} THEN INT_MIN
    ELSE Max(Magnitudes({Sum(parsed[ls[q[1]]], parsed[ls[q[2]]]) : q \in OfTwo}))]

===============================================================================
