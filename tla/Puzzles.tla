-------------------------------- MODULE Puzzles --------------------------------
(***************************************************************************)
(* What the days of src/src/2021 promise: the answers to their puzzles, by *)
(* definitions that owe nothing to the way the code computes them.  Where  *)
(* the code settles what a puzzle leaves open, the comment says so; where  *)
(* the code computes something else than the puzzle, its answer is not     *)
(* taken over here.                                                        *)
(***************************************************************************)
EXTENDS Integers, SequencesExt

CONSTANTS
    Side, FirstDays, AllDays, Steps, FirstGenerations, generations,
    LENGTH_BITS, COUNT_BITS

Answer(p1, p2) == [p1 |-> p1, p2 |-> p2]

Total(f(_), S) == FoldSet(LAMBDA x, n : n + f(x), 0, S)

Magnitude(x) == IF x < 0 THEN -x ELSE x

\* Elements of a sequence of numbers, the greatest first.
Ranked(s) == SortSeq(s, >)

Power2[n \in 0 .. 30] == IF n = 0 THEN 1 ELSE 2 * Power2[n - 1]

-----------------------------------------------------------------------------
(* Days 1 and 2.                                                             *)

Increases(s) == Quantify(1 .. Len(s) - 1, LAMBDA k : s[k] < s[k + 1])

Windows(s) == [k \in 1 .. Len(s) - 2 |-> s[k] + s[k + 1] + s[k + 2]]

sonar(depths) == Answer(Increases(depths), Increases(Windows(depths)))

Moved(commands, to, n) ==
    Total(LAMBDA k : commands[k].x, {k \in 1 .. n : commands[k].to = to})

Aim(commands, n) == Moved(commands, "down", n) - Moved(commands, "up", n)

dive(commands) ==
    LET n        == Len(commands)
        Forwards == {k \in 1 .. n : commands[k].to = "forward"}
        pos      == Moved(commands, "forward", n)
    IN  Answer(Aim(commands, n) * pos,
               Total(LAMBDA k : Aim(commands, k) * commands[k].x, Forwards) * pos)

-----------------------------------------------------------------------------
(* Day 3.  A filter ends with one row, or with rows that are all the same.   *)
(* It may also drop all rows at once: then there is no rating.               *)

Ones(input, rows, pos) == Cardinality({r \in rows : input[r][pos] = 1})

Place(input, pos) == Power2[Len(input[1]) - pos]

Row(input, r) == Total(LAMBDA pos : input[r][pos] * Place(input, pos), DOMAIN input[r])

Kept(input, most, rows, pos) ==
    LET bit == IF (2 * Ones(input, rows, pos) >= Cardinality(rows)) = most THEN 1 ELSE 0
    IN  {r \in rows : input[r][pos] = bit}

RECURSIVE Remaining(_, _, _, _)
Remaining(input, most, rows, pos) ==
    IF Cardinality(rows) <= 1 \/ pos > Len(input[1]) THEN rows
    ELSE Remaining(input, most, Kept(input, most, rows, pos), pos + 1)

Left(input, most) == Remaining(input, most, DOMAIN input, 1)

HasRatings(input) == \A most \in BOOLEAN : Left(input, most) # {}

Rating(input, most) == Row(input, CHOOSE r \in Left(input, most) : TRUE)

diagnostic(input) ==
    LET rows == DOMAIN input
        More == {pos \in DOMAIN input[1] : 2 * Ones(input, rows, pos) > Len(input)}
        Less == {pos \in DOMAIN input[1] : 2 * Ones(input, rows, pos) < Len(input)}
    IN  Answer(Total(LAMBDA pos : Place(input, pos), More) * Total(LAMBDA pos : Place(input, pos), Less),
               Rating(input, TRUE) * Rating(input, FALSE))

-----------------------------------------------------------------------------
(* Day 4.  Of boards that win with the same number the first of the input    *)
(* comes first.                                                              *)

RowOf(cell)    == (cell - 1) \div Side
ColumnOf(cell) == (cell - 1) % Side

Lines(board) ==
    {{cell \in DOMAIN board : RowOf(cell) = a} : a \in 0 .. Side - 1}
        \cup {{cell \in DOMAIN board : ColumnOf(cell) = a} : a \in 0 .. Side - 1}

Drawn(numbers, n) == Min({k \in DOMAIN numbers : numbers[k] = n} \cup {Len(numbers) + 1})

WinsAt(numbers, board) ==
    Min({Max({Drawn(numbers, board[cell]) : cell \in line}) : line \in Lines(board)})

Score(numbers, board) ==
    LET k == WinsAt(numbers, board)
    IN  numbers[k] * Total(LAMBDA cell : board[cell],
                           {cell \in DOMAIN board : Drawn(numbers, board[cell]) > k})

Winners(input) ==
    {b \in DOMAIN input.boards : WinsAt(input.numbers, input.boards[b]) <= Len(input.numbers)}

\* The scores of the boards that win, in the order in which they do.
Scores(input) ==
    LET Before(a, b) ==
            LET s == WinsAt(input.numbers, input.boards[a])
                t == WinsAt(input.numbers, input.boards[b])
            IN  s < t \/ (s = t /\ a < b)
        order == SetToSortSeq(Winners(input), Before)
    IN  [k \in DOMAIN order |-> Score(input.numbers, input.boards[order[k]])]

bingo(input) == Answer(Head(Scores(input)), Last(Scores(input)))

-----------------------------------------------------------------------------
(* Days 5, 6 and 7.                                                          *)

Between(x, a, b) == (a <= x /\ x <= b) \/ (b <= x /\ x <= a)

Covers(l, x, y) ==
    /\ Between(x, l.x0, l.x1) /\ Between(y, l.y0, l.y1)
    /\ (x - l.x0) * (l.y1 - l.y0) = (y - l.y0) * (l.x1 - l.x0)

Dangerous(lines, Which, width) ==
    Cardinality({q \in (0 .. width - 1) \X (0 .. width - 1) :
                    Cardinality({k \in Which : Covers(lines[k], q[1], q[2])}) > 1})

vents(lines, width) ==
    LET Upright == {k \in DOMAIN lines : lines[k].x0 = lines[k].x1 \/ lines[k].y0 = lines[k].y1}
    IN  Answer(Dangerous(lines, Upright, width), Dangerous(lines, DOMAIN lines, width))

RECURSIVE School(_, _)
School(fish, days) ==
    IF days = 0 THEN fish
    ELSE School([k \in DOMAIN fish |-> IF fish[k] = 0 THEN 6 ELSE fish[k] - 1]
                    \o SelectSeq([k \in DOMAIN fish |-> fish[k] + 8], LAMBDA timer : timer = 8),
                days - 1)

lanternfish(fish) == Answer(Len(School(fish, FirstDays)), Len(School(fish, AllDays)))

\* The median is the best place for the first part, and one of the two whole
\* numbers about the mean for the second.
whales(crabs) ==
    LET n      == Len(crabs)
        Best   == {p \in {crabs[k] : k \in DOMAIN crabs} :
                      /\ 2 * Quantify(DOMAIN crabs, LAMBDA k : crabs[k] < p) <= n
                      /\ 2 * Quantify(DOMAIN crabs, LAMBDA k : crabs[k] > p) <= n}
        median == Min(Best)
        mean   == Total(LAMBDA k : crabs[k], DOMAIN crabs) \div n
        Steps1(p) == Total(LAMBDA k : Magnitude(crabs[k] - p), DOMAIN crabs)
        Square(x) == x * x
        Steps2(p) == (Steps1(p) + Total(LAMBDA k : Square(crabs[k] - p), DOMAIN crabs)) \div 2
    IN  Answer(Steps1(median), Min({Steps2(mean), Steps2(mean + 1)}))

-----------------------------------------------------------------------------
(* Day 8.  What a pattern shows is told by how often its wires occur in all  *)
(* ten patterns: the sums of the ten digits are all different.               *)

Sums == <<42, 17, 34, 39, 30, 37, 41, 25, 49, 45>>

Shown(display, p) ==
    LET often == Total(LAMBDA w : Quantify(DOMAIN display.lhs, LAMBDA k : w \in display.lhs[k]), p)
    IN  CHOOSE n \in 0 .. 9 : Sums[n + 1] = often

Value(display) ==
    FoldLeft(LAMBDA value, p : 10 * value + Shown(display, p), 0, display.rhs)

EasyDigits(display) == Quantify(DOMAIN display.rhs, LAMBDA k : Shown(display, display.rhs[k]) \in {1, 4, 7, 8})

displays_show(displays) ==
    Answer(Total(LAMBDA k : EasyDigits(displays[k]), DOMAIN displays),
           Total(LAMBDA k : Value(displays[k]), DOMAIN displays))

-----------------------------------------------------------------------------
(* Day 9.  Only a basin with a lowest place counts, once; a missing third    *)
(* one makes the product 0.                                                  *)

Beside(p, q) == Magnitude(p[1] - q[1]) + Magnitude(p[2] - q[2]) = 1

RECURSIVE Basin(_, _)
Basin(map, S) ==
    LET more == {p \in DOMAIN map : map[p] # 9 /\ \E q \in S : Beside(p, q)} \ S
    IN  IF more = {} THEN S ELSE Basin(map, S \cup more)

smoke(map) ==
    LET Low    == {p \in DOMAIN map : \A q \in DOMAIN map : Beside(p, q) => map[p] < map[q]}
        basins == SetToSeq({Basin(map, {p}) : p \in {q \in Low : map[q] # 9}})
        sizes  == Ranked([k \in DOMAIN basins |-> Cardinality(basins[k])])
    IN  Answer(Total(LAMBDA p : map[p] + 1, Low),
               IF Len(sizes) < 3 THEN 0 ELSE sizes[1] * sizes[2] * sizes[3])

-----------------------------------------------------------------------------
(* Day 10.  A line is corrupt if a closing bracket is left when brackets     *)
(* next to each other have cancelled out; of an even number of scores the    *)
(* code takes the upper one of the middle.                                   *)

RECURSIVE Cancelled(_)
Cancelled(line) ==
    LET Pair == {k \in 1 .. Len(line) - 1 : line[k] > 0 /\ line[k + 1] = -line[k]}
    IN  IF Pair = {} THEN line
        ELSE Cancelled(SubSeq(line, 1, Min(Pair) - 1) \o SubSeq(line, Min(Pair) + 2, Len(line)))

Corrupt(line) == \E k \in DOMAIN Cancelled(line) : Cancelled(line)[k] < 0

Illegal(line) == Head(SelectSeq(Cancelled(line), LAMBDA c : c < 0))

Points(c) == CASE c = -1 -> 3 [] c = -2 -> 57 [] c = -3 -> 1197 [] c = -4 -> 25137

RECURSIVE Completion(_)
Completion(open) == IF open = <<>> THEN 0 ELSE 5 * Completion(Tail(open)) + Head(open)

syntax(lines) ==
    LET Bad == {k \in DOMAIN lines : Corrupt(lines[k])}
        Fit == DOMAIN lines \ Bad
        score == [k \in Fit |-> Completion(Cancelled(lines[k]))]
        IsMiddle(n) ==
            /\ 2 * Cardinality({k \in Fit : score[k] < n}) <= Cardinality(Fit)
            /\ 2 * Cardinality({k \in Fit : score[k] <= n}) > Cardinality(Fit)
    IN  Answer(Total(LAMBDA k : Points(Illegal(lines[k])), Bad),
               CHOOSE n \in {score[k] : k \in Fit} : IsMiddle(n))

-----------------------------------------------------------------------------
(* Day 11.  Those flash that have more than 9 with the energy of the others  *)
(* that do.                                                                  *)

Near(p, q) == p # q /\ Magnitude(p[1] - q[1]) <= 1 /\ Magnitude(p[2] - q[2]) <= 1

Energy(grid, flash, p) == grid[p] + 1 + Cardinality({q \in flash : Near(p, q)})

RECURSIVE Flashing(_, _)
Flashing(grid, flash) ==
    LET more == {p \in DOMAIN grid : Energy(grid, flash, p) > 9}
    IN  IF more = flash THEN flash ELSE Flashing(grid, more)

Stepped(grid) ==
    LET flash == Flashing(grid, {})
    IN  [p \in DOMAIN grid |-> IF p \in flash THEN 0 ELSE Energy(grid, flash, p)]

RECURSIVE Flashes(_, _)
Flashes(grid, steps) ==
    IF steps = 0 THEN 0 ELSE Cardinality(Flashing(grid, {})) + Flashes(Stepped(grid), steps - 1)

\* The first step in which all flash, the one to come having this number.
RECURSIVE Sync(_, _)
Sync(grid, step) == IF Flashing(grid, {}) = DOMAIN grid THEN step ELSE Sync(Stepped(grid), step + 1)

octopuses(grid) == Answer(Flashes(grid, Steps), Sync(grid, 1))

-----------------------------------------------------------------------------
(* Day 12.  A walk is the sequence of its caves; small caves occur at most   *)
(* twice in those that are considered.                                       *)

Visits(walk, cave) == Quantify(DOMAIN walk, LAMBDA k : walk[k] = cave)

Small(graph) == 0 .. graph.last_small

RECURSIVE WalksFrom(_, _)
WalksFrom(graph, walk) ==
    IF Last(walk) = Max(DOMAIN graph.out) THEN {walk}
    ELSE UNION {WalksFrom(graph, Append(walk, cave)) :
                   cave \in {c \in Range(graph.out[Last(walk)]) : c \in Small(graph) => Visits(walk, c) < 2}}

caves(graph) ==
    LET walks == WalksFrom(graph, <<0>>)
        Twice(walk) == {c \in Small(graph) : Visits(walk, c) = 2}
    IN  Answer(Cardinality({walk \in walks : Twice(walk) = {}}),
               Cardinality({walk \in walks : Cardinality(Twice(walk)) <= 1}))

-----------------------------------------------------------------------------
(* Day 14.  The polymer itself.                                              *)

RECURSIVE Polymer(_, _, _)
Polymer(rules, s, n) ==
    LET Inserted(k) == IF k = Len(s) \/ rules[<<s[k], s[k + 1]>>] = 0 THEN <<s[k]>>
                       ELSE <<s[k], rules[<<s[k], s[k + 1]>>]>>
    IN  IF n = 0 THEN s
        ELSE Polymer(rules, FlattenSeq([k \in DOMAIN s |-> Inserted(k)]), n - 1)

Spread(s) ==
    LET counts == {Quantify(DOMAIN s, LAMBDA k : s[k] = a) : a \in Range(s)} IN Max(counts) - Min(counts)

polymers(input) ==
    Answer(Spread(Polymer(input.rules, input.root, FirstGenerations)),
           Spread(Polymer(input.rules, input.root, generations)))

-----------------------------------------------------------------------------
(* Day 16.  A packet is a literal, whose value has the given number of       *)
(* groups, or an operator over packets.                                      *)

ToBits(n, width) == [k \in 1 .. width |-> (n \div Power2[width - k]) % 2]

RECURSIVE Encoded(_)
Encoded(packet) ==
    LET header == ToBits(packet.version, 3) \o ToBits(packet.type, 3)
        value  == ToBits(packet.value, 4 * packet.groups)
        Group(g) == <<IF g < packet.groups THEN 1 ELSE 0>> \o SubSeq(value, 4 * g - 3, 4 * g)
        inner  == FlattenSeq([k \in DOMAIN packet.inner |-> Encoded(packet.inner[k])])
    IN  IF packet.type = 4 THEN header \o FlattenSeq([g \in 1 .. packet.groups |-> Group(g)])
        ELSE IF packet.counted THEN header \o <<1>> \o ToBits(Len(packet.inner), COUNT_BITS) \o inner
        ELSE header \o <<0>> \o ToBits(Len(inner), LENGTH_BITS) \o inner

\* Hexadecimal digits are read in twos.
Transmission(packet) ==
    LET bits == Encoded(packet) IN bits \o [k \in 1 .. (-Len(bits)) % 8 |-> 0]

RECURSIVE Versions(_)
Versions(packet) == packet.version + Total(LAMBDA k : Versions(packet.inner[k]), DOMAIN packet.inner)

RECURSIVE Evaluated(_)
Evaluated(packet) ==
    LET v == [k \in DOMAIN packet.inner |-> Evaluated(packet.inner[k])]
        Is(b) == IF b THEN 1 ELSE 0
    IN  CASE packet.type = 0 -> Total(LAMBDA k : v[k], DOMAIN v)
          [] packet.type = 1 -> FoldSet(LAMBDA k, product : product * v[k], 1, DOMAIN v)
          [] packet.type = 2 -> Min(Range(v))
          [] packet.type = 3 -> Max(Range(v))
          [] packet.type = 4 -> packet.value
          [] packet.type = 5 -> Is(v[1] > v[2])
          [] packet.type = 6 -> Is(v[1] < v[2])
          [] packet.type = 7 -> Is(v[1] = v[2])

decoded(packet) == Answer(Versions(packet), Evaluated(packet))

-----------------------------------------------------------------------------
(* Day 17.                                                                   *)

Triangle(n) == (n * (n + 1)) \div 2

\* Where a probe is after n steps.
X(v, n) == IF n >= v THEN Triangle(v) ELSE n * v - Triangle(n - 1)
Y(v, n) == n * v - Triangle(n - 1)

Hits(t, v, n) == X(v[1], n) \in t.xmin .. t.xmax /\ Y(v[2], n) \in t.ymin .. t.ymax

\* Faster probes are past the target after one step, or after 2v + 1 steps up
\* and down again.
trick_shot(t) ==
    LET far      == 1 - t.ymin
        Launched == (0 .. t.xmax + 1) \X (-far .. far)
        Ever     == {v \in Launched : \E n \in 1 .. 2 * far + 2 : Hits(t, v, n)}
        Height(v) == Max({Y(v[2], n) : n \in 0 .. Min({m \in 1 .. 2 * far + 2 : Hits(t, v, m)})})
    IN  Answer(Max({Height(v) : v \in Ever}), Cardinality(Ever))

===============================================================================
