------------------------------- MODULE ShortDays -------------------------------
(***************************************************************************)
(* src/src/2021/day1.c, day2.c, day7.c and day17.c: a loop or two each.    *)
(***************************************************************************)
EXTENDS Integers, SequencesExt

CONSTANT INT_MAX    \* greater than any depth

(* Day 1: an input is a sequence of depths, none of them 0, which would end  *)
(* it.  win is a ring of the last four.                                      *)

Ring(win, k) == win[k % 4]

WindowGrows(win, k) ==
    Ring(win, k + 1) + Ring(win, k + 2) + Ring(win, k + 3)
        < Ring(win, k + 2) + Ring(win, k + 3) + Ring(win, k)

day1(input) ==
    LET Turn(s, a1) ==
            LET win == [s.win EXCEPT ![s.k % 4] = a1]
            IN  [k |-> s.k + 1, win |-> win, a0 |-> a1,
                 p1 |-> s.p1 + (IF a1 > s.a0 THEN 1 ELSE 0),
                 p2 |-> s.p2 + (IF s.k >= 3 /\ WindowGrows(win, s.k) THEN 1 ELSE 0)]
        end == FoldLeft(Turn, [k |-> 0, win |-> [k \in 0 .. 3 |-> 0], a0 |-> INT_MAX, p1 |-> 0, p2 |-> 0],
                        input)
    IN  [p1 |-> end.p1, p2 |-> end.p2]

(* Day 2: commands of a direction and a digit.                               *)

day2(input) ==
    LET Turn(s, c) ==
            CASE c.to = "forward" -> [s EXCEPT !.pos = @ + c.x, !.depth2 = @ + s.aim * c.x]
              [] c.to = "up"      -> [s EXCEPT !.aim = @ - c.x]
              [] c.to = "down"    -> [s EXCEPT !.aim = @ + c.x]
        end == FoldLeft(Turn, [pos |-> 0, aim |-> 0, depth2 |-> 0], input)
    IN  [p1 |-> end.aim * end.pos, p2 |-> end.depth2 * end.pos]

(* Day 7: the positions of the crabs; the code has the greatest as max.      *)

Distance(a, b) == IF a < b THEN b - a ELSE a - b

fuel1(crabs, pos) == FoldLeft(LAMBDA n, crab : n + Distance(pos, crab), 0, crabs)
fuel2(crabs, pos) ==
    FoldLeft(LAMBDA n, crab : n + (Distance(pos, crab) * (Distance(pos, crab) + 1)) \div 2, 0, crabs)

day7(crabs) ==
    LET Positions == 0 .. Max(Range(crabs))
    IN  [p1 |-> Min({fuel1(crabs, pos) : pos \in Positions}),
         p2 |-> Min({fuel2(crabs, pos) : pos \in Positions})]

(* Day 17: a target area, and the range of velocities that are tried.        *)

InTarget(t, x, y) == x \in t.xmin .. t.xmax /\ y \in t.ymin .. t.ymax

\* The greatest height of a probe that hits the target, or -INT_MAX - 1.
RECURSIVE Fly(_, _, _, _, _, _)
Fly(t, x, y, dx, dy, maxy) ==
    IF InTarget(t, x, y) THEN <<maxy>>
    ELSE IF y < t.ymin /\ dy < 0 THEN <<>>
    ELSE Fly(t, x + dx, y + dy, IF dx < 0 THEN dx + 1 ELSE IF dx > 0 THEN dx - 1 ELSE 0, dy - 1,
             Max({maxy, y + dy}))

day17(t) ==
    LET tries == t.range_x \X t.range_y
        fly   == [v \in tries |-> Fly(t, 0, 0, v[1], v[2], -INT_MAX - 1)]
        hits  == {v \in tries : fly[v] # <<>>}
    IN  [p1 |-> Max({-INT_MAX - 1} \cup {fly[v][1] : v \in hits}), p2 |-> Cardinality(hits)]

===============================================================================
