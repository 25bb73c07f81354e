--------------------------------- MODULE Day8 ----------------------------------
(***************************************************************************)
(* src/src/2021/day8.c.  A pattern is the set of its wires; the mapping is *)
(* the set of pairs of a wire and a segment it may still stand for, wires  *)
(* and segments a .. g as 1 .. 7, and the mask of a wire its segments.     *)
(* The highest bit of a mask is never looked at.                           *)
(* For a pattern of six, deduce also looks at the NUL behind it and sets a *)
(* place outside of present (line 184), which is taken to have no effect.  *)
(***************************************************************************)
EXTENDS Integers, SequencesExt

Segment == 1 .. 7

Anything == {<<wire, segment>> : wire \in Segment, segment \in Segment}

mask(mapping, wire) == {q[2] : q \in {r \in mapping : r[1] = wire}}

IS_UNIQUE(segments) == Cardinality(segments) = 1

\* For all unique masks, in the order of the wires, remove them from the others.
prune_fixed[mapping \in SUBSET Anything] ==
    FoldLeft(LAMBDA m, k :
                 IF IS_UNIQUE(mask(m, k)) THEN {q \in m : q[1] = k \/ q[2] \notin mask(m, k)} ELSE m,
             mapping, [k \in Segment |-> k])

\* The segments of the digits 1, 7 and 4, the only ones with so few.
Lit(size) ==
    CASE size = 2 -> {3, 6}
      [] size = 3 -> {1, 3, 6}
      [] size = 4 -> {2, 3, 4, 6}

\* What one of 0, 6 and 9 leaves out.
MayBeOff == {3, 4, 5}

\* Mutant: a wire outside the pattern of 1, 7 or 4 keeps its mask.
NarrowInside(p, mapping) ==
    CASE Cardinality(p) \in 2 .. 4 -> {q \in mapping : q[1] \in p => q[2] \in Lit(Cardinality(p))}
      [] Cardinality(p) = 6 -> {q \in mapping : q[1] \in p \/ q[2] \in MayBeOff}
      [] OTHER -> mapping

Narrow(p, mapping) ==
    CASE Cardinality(p) \in 2 .. 4 -> {q \in mapping : q[1] \in p <=> q[2] \in Lit(Cardinality(p))}
      [] Cardinality(p) = 6 -> {q \in mapping : q[1] \in p \/ q[2] \in MayBeOff}
      [] OTHER -> mapping

deduce(display) ==
    FoldLeft(LAMBDA m, p : prune_fixed[Narrow(p, m)], Anything, display.lhs)

\* The segments that are lit for each digit.
Shape == << {1, 2, 3, 5, 6, 7}, {3, 6}, {1, 3, 4, 5, 7}, {1, 3, 4, 6, 7}, {2, 3, 4, 6},
            {1, 2, 4, 6, 7}, {1, 2, 4, 5, 6, 7}, {1, 3, 6}, {1, 2, 3, 4, 5, 6, 7}, {1, 2, 3, 4, 6, 7} >>

\* The digits whose segments are those the wires are mapped to, each wire to one.
Digits(mapping, digit) ==
    {n \in 0 .. 9 :
        /\ \A w \in digit : IS_UNIQUE(mask(mapping, w))
        /\ UNION {mask(mapping, w) : w \in digit} = Shape[n + 1]
        /\ Cardinality(digit) = Cardinality(Shape[n + 1])}

\* segments_to_num asserts that there is one.
Readable(mapping, display) ==
    \A k \in DOMAIN display.rhs : Digits(mapping, display.rhs[k]) # {}

display_value(mapping, display) ==
    FoldLeft(LAMBDA value, p : 10 * value + Max(Digits(mapping, p)), 0, display.rhs)

IsEasy(p) == Cardinality(p) \in {2, 3, 4, 7}

Assertion == [p1 |-> -1, p2 |-> -1]     \* the program aborts

ShowDisplay(result, display) ==
    LET mapping == deduce(display) IN
    IF result = Assertion \/ ~Readable(mapping, display) THEN Assertion
    ELSE [p1 |-> result.p1 + Quantify(DOMAIN display.rhs, LAMBDA k : IsEasy(display.rhs[k])),
          p2 |-> result.p2 + display_value(mapping, display)]

day8(displays) == FoldLeft(ShowDisplay, [p1 |-> 0, p2 |-> 0], displays)

===============================================================================
