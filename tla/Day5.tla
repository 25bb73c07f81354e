--------------------------------- MODULE Day5 ----------------------------------
(***************************************************************************)
(* src/src/2021/day5.c.  An input is a sequence of lines, horizontal,      *)
(* vertical or at 45 degrees.  The two diagrams count the lines over each  *)
(* place in a char.                                                        *)
(***************************************************************************)
EXTENDS Integers, SequencesExt

CONSTANTS
    Width,          \* of the diagrams: 1000
    CHAR_VALUES     \* values of a char: 256

Places == (0 .. Width - 1) \X (0 .. Width - 1)

ascending(a, b) == IF a < b THEN a .. b ELSE b .. a

sign(x) == IF x < 0 THEN -1 ELSE 1
abs(x)  == x * sign(x)

countoverlaps(d, place) ==
    LET n == (d.p[place] + 1) % CHAR_VALUES
    IN  [p |-> [d.p EXCEPT ![place] = n], overlaps |-> d.overlaps + (IF n = 2 THEN 1 ELSE 0)]

IsStraight(l) == l.x0 = l.x1 \/ l.y0 = l.y1

\* The places a line visits; the code goes up along straight lines, and the
\* order in which places are counted makes no difference.
Covered(l) ==
    IF l.x0 = l.x1 THEN {<<l.x0, y>> : y \in ascending(l.y0, l.y1)}
    ELSE IF l.y0 = l.y1 THEN {<<x, l.y0>> : x \in ascending(l.x0, l.x1)}
    ELSE {<<l.x0 + k * sign(l.x1 - l.x0), l.y0 + k * sign(l.y1 - l.y0)>> :
             k \in 0 .. abs(l.x1 - l.x0)}

Diagram(lines) ==
    FoldLeft(LAMBDA d, l : FoldSet(LAMBDA place, e : countoverlaps(e, place), d, Covered(l)),
             [p |-> [place \in Places |-> 0], overlaps |-> 0], lines)

day5(lines) ==
    [p1 |-> Diagram(SelectSeq(lines, IsStraight)).overlaps, p2 |-> Diagram(lines).overlaps]

===============================================================================
