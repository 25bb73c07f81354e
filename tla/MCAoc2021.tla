------------------------------ MODULE MCAoc2021 -------------------------------
(***************************************************************************)
(* The TLC instance of Aoc2021: for each day the examples it is given, and *)
(* the answers by Puzzles, for day 18 by the rules of Snailfish.           *)
(***************************************************************************)
EXTENDS MCDay18, Aoc2021

P == INSTANCE Puzzles

Tuples(S, n) == [1 .. n -> S]

Depths == Tuples({1, 2, 3}, 3) \cup Tuples({1, 3}, 6)

Commands ==
    Tuples([to : {"forward", "up", "down"}, x : {1, 3}], 3)

\* Reports of one to three rows of three bits.
Reports == UNION {Tuples(Tuples({0, 1}, 3), n) : n \in 1 .. 3}

\* Boards of two by two, among them one that is never won and one that wins
\* with the number 0.
Boards == { <<1, 2, 3, 4>>, <<3, 0, 1, 5>>, <<5, 4, 2, 6>>, <<9, 8, 7, 6>>, <<0, 2, 3, 1>> }

Bingos ==
    [numbers : {<<2, 3, 0, 4, 1, 5>>, <<5, 1, 0, 3, 2, 6>>, <<4, 3, 2, 1, 0>>, <<0, 2, 1, 5, 3>>},
     boards : Tuples(Boards, 3)]

Points == {<<0, 0>>, <<2, 0>>, <<1, 1>>, <<0, 2>>, <<3, 3>>, <<2, 1>>}

VentLines ==
    {[x0 |-> q[1], y0 |-> q[2], x1 |-> r[1], y1 |-> r[2]] : q \in Points, r \in Points}

IsVent(l) ==
    \/ l.x0 = l.x1 \/ l.y0 = l.y1
    \/ l.x1 - l.x0 \in {l.y1 - l.y0, l.y0 - l.y1}

VentMaps ==
    {<<l, [x0 |-> 0, y0 |-> 1, x1 |-> 3, y1 |-> 1], m>> :
        l \in {v \in VentLines : IsVent(v)}, m \in {v \in VentLines : IsVent(v)}}

Schools == UNION {Tuples(0 .. 6, n) : n \in 1 .. 3}

Crabs == Tuples({0, 1, 3, 6}, 4)

-----------------------------------------------------------------------------
(* Day 8: the ten patterns under a wiring, those with six wires and the      *)
(* three shortest, which deduce looks at, in any order.                      *)

Wiring      == <<1, 2, 3, 4, 5, 6, 7>>
OtherWiring == <<4, 7, 1, 6, 2, 3, 5>>

Pattern(wiring, n) == {wiring[segment] : segment \in D8!Shape[n + 1]}

Looked == <<1, 7, 4, 0, 6, 9>>

Orders == {order \in Tuples(1 .. 6, 6) : \A a, b \in 1 .. 6 : order[a] = order[b] => a = b}

Display(wiring, order) ==
    LET digit == [n \in 1 .. 10 |-> IF n <= 4 THEN <<2, 3, 5, 8>>[n] ELSE Looked[order[n - 4]]]
    IN  [lhs |-> [n \in 1 .. 10 |-> Pattern(wiring, digit[n])],
         rhs |-> [n \in 1 .. 4 |-> Pattern(wiring, <<5, 0, 1, 6>>[n])]]

AllShown(wiring) == [Display(wiring, <<1, 2, 3, 4, 5, 6>>) EXCEPT
                        !.rhs = [n \in 1 .. 4 |-> Pattern(wiring, <<2, 3, 7, 9>>[n])]]

Displays == {<<Display(wiring, order), AllShown(Wiring)>> : wiring \in {Wiring, OtherWiring}, order \in Orders}

-----------------------------------------------------------------------------
(* Days 9 and 11: maps of three by three, with 9 in the middle, and grids.   *)

Grid(corners, edges, middle) ==
    [place \in (0 .. 2) \X (0 .. 2) |->
        CASE place = <<1, 1>> -> middle
          [] place[1] # 1 /\ place[2] # 1 -> corners[1 + place[1] \div 2 + 2 * (place[2] \div 2)]
          [] OTHER -> edges[IF place[2] = 0 THEN 1 ELSE IF place[2] = 2 THEN 2
                            ELSE IF place[1] = 0 THEN 3 ELSE 4]]

Floors == {Grid(corners, edges, 9) : corners \in Tuples({1, 2, 9}, 4), edges \in Tuples({2, 9}, 4)}

RECURSIVE SyncsBy(_, _)
SyncsBy(grid, steps) ==
    steps > 0 /\ (P!Flashing(grid, {}) = DOMAIN grid \/ SyncsBy(P!Stepped(grid), steps - 1))

Octopuses ==
    {grid \in {Grid(corners, <<edge, 9, edge, 5>>, middle) :
                   corners \in Tuples({5, 9}, 4), edge \in {1, 5, 8, 9}, middle \in {5, 9}} :
        SyncsBy(grid, 20)}

-----------------------------------------------------------------------------
(* Day 12: two small caves and a big one between the ends, joined anyhow.    *)

Tunnels == {{0, 1}, {0, 2}, {0, 3}, {1, 2}, {1, 3}, {2, 3}, {1, 4}, {2, 4}, {3, 4}}

Ascending(S) == SetToSortSeq(S, <)

Graph(tunnels) ==
    [last_small |-> 2,
     out |-> [cave \in 0 .. 4 |->
                 IF cave = 4 THEN <<>> ELSE Ascending({next \in 1 .. 4 : {cave, next} \in tunnels})]]

Graphs == {Graph(tunnels) : tunnels \in SUBSET Tunnels}

-----------------------------------------------------------------------------
(* Days 10, 14 and 17.                                                       *)

Opened(line, k) == SelectSeq(SubSeq(line, 1, k), LAMBDA c : c > 0)

\* No more is closed than was opened.
BracketLines ==
    {line \in UNION {Tuples({1, 2, -1, -2}, n) : n \in 1 .. 5} :
        \A k \in DOMAIN line : 2 * Len(Opened(line, k)) >= k}

Programs == {<<line, <<1, 4>>, last, <<3>>>> : line \in BracketLines, last \in {<<1, -1, 2>>, <<3, -4>>}}

PolymerRules == [({1, 2}) \X ({1, 2}) -> {0, 1, 2}]

Polymers == [root : UNION {Tuples({1, 2}, n) : n \in 2 .. 3}, rules : PolymerRules]

\* The velocities tried are those of the code: from the slowest that gets so
\* far, and as fast downwards as upwards.
Target(x, width, y, height) ==
    [xmin |-> x, xmax |-> x + width, ymin |-> y - height, ymax |-> y,
     range_x |-> Min({v \in 1 .. x : v * (v + 1) >= 2 * x}) .. x + width,
     range_y |-> y - height .. height - y]

Targets == {Target(x, width, y, height) : x \in {3, 5, 6}, width \in 2 .. 4, y \in {-5, -2}, height \in 0 .. 2}

-----------------------------------------------------------------------------
(* Day 16: literals, operators over two of them, and operators over those.   *)

Lit(version, value, groups) ==
    [version |-> version, type |-> 4, value |-> value, groups |-> groups, counted |-> FALSE, inner |-> <<>>]

Lits == {Lit(6, 3, 1), Lit(1, 0, 2), Lit(7, INT_MAX + 7, 2)}

Operator(type, counted, inner) ==
    [version |-> 5, type |-> type, value |-> 0, groups |-> 0, counted |-> counted, inner |-> inner]

Types == {0, 1, 2, 3, 5, 6, 7}

Operators(Inner) == {Operator(type, counted, inner) : type \in Types, counted \in BOOLEAN, inner \in Inner}

Flats == Operators(Tuples(Lits, 2))

Singles == {Operator(type, counted, <<lit>>) : type \in 0 .. 3, counted \in BOOLEAN, lit \in Lits}

Deep ==
    {Operator(2, counted, <<flat, Lit(6, 3, 1)>>) : counted \in BOOLEAN, flat \in Flats}
        \cup {Operator(0, counted, <<Lit(6, 3, 1), flat, Lit(1, 0, 2)>>) : counted \in BOOLEAN, flat \in Singles}

Packets == Lits \cup Flats \cup Singles \cup Deep

\* Without its last bytes a transmission breaks an assertion.
Cut(bits) == SubSeq(bits, 1, Len(bits) - 16)

Transmissions == [packet : Packets, cut : {FALSE}] \cup [packet : Flats, cut : {TRUE}]

Decoded(sent) == IF sent.cut THEN Assertion ELSE P!decoded(sent.packet)

-----------------------------------------------------------------------------
(* Day 18: texts of lines, each with its newline or the last without.        *)

Text(ls) == FlattenSeq([n \in DOMAIN ls |-> Append(ls[n], Newline)])

-----------------------------------------------------------------------------
MCExamples(nr) ==
    CASE nr = 1  -> Depths
      [] nr = 2  -> Commands
      [] nr = 3  -> Reports
      [] nr = 4  -> Bingos
      [] nr = 5  -> VentMaps
      [] nr = 6  -> Schools
      [] nr = 7  -> Crabs
      [] nr = 8  -> Displays
      [] nr = 9  -> Floors
      [] nr = 10 -> Programs
      [] nr = 11 -> Octopuses
      [] nr = 12 -> Graphs
      [] nr = 14 -> Polymers
      [] nr = 16 -> Transmissions
      [] nr = 17 -> Targets
      [] nr = 18 -> MCInputs
      [] OTHER   -> {<<>>}

\* The one example of a day that is not under test.
MCExample(nr) ==
    CASE nr = 1  -> <<1, 3, 2, 3>>
      [] nr = 2  -> <<[to |-> "forward", x |-> 3], [to |-> "down", x |-> 1]>>
      [] nr = 3  -> << <<1, 0, 0>>, <<1, 1, 0>>, <<0, 1, 0>> >>
      [] nr = 4  -> [numbers |-> <<2, 3, 0, 4, 1, 5>>, boards |-> << <<1, 2, 3, 4>>, <<5, 4, 2, 6>> >>]
      [] nr = 5  -> << [x0 |-> 0, y0 |-> 0, x1 |-> 3, y1 |-> 3], [x0 |-> 0, y0 |-> 1, x1 |-> 3, y1 |-> 1] >>
      [] nr = 6  -> <<3, 0>>
      [] nr = 7  -> <<1, 3, 6>>
      [] nr = 8  -> <<AllShown(Wiring)>>
      [] nr = 9  -> Grid(<<1, 2, 1, 9>>, <<9, 9, 9, 9>>, 9)
      [] nr = 10 -> << <<1, 1, -1>>, <<1, -2>> >>
      [] nr = 11 -> Grid(<<5, 5, 5, 5>>, <<1, 9, 1, 5>>, 5)
      [] nr = 12 -> Graph(Tunnels)
      [] nr = 14 -> [root |-> <<1, 2>>, rules |-> [p \in ({1, 2}) \X ({1, 2}) |-> p[1]]]
      [] nr = 16 -> [packet |-> Lit(6, 3, 1), cut |-> FALSE]
      [] nr = 17 -> Target(3, 2, -2, 1)
      [] nr = 18 -> << <<Open, 9, Comma, 9, Close>> >>
      [] OTHER   -> <<>>

MCWritten(nr, x) ==
    CASE nr = 16 /\ x.cut       -> Cut(P!Transmission(x.packet))
      [] nr = 16 /\ ~x.cut      -> P!Transmission(x.packet)
      [] nr = 18 /\ Len(x) < 3  -> Text(x)
      [] nr = 18 /\ Len(x) >= 3 -> Front(Text(x))
      [] OTHER                  -> x

\* What the properties suppose of the inputs of days 3 (P!HasRatings), 4, 11
\* and 16.
\* Day 4: the code takes a first score of 0 for none, and a second answer only
\* from a second winner.
FirstIsSeen(input) == Len(P!Scores(input)) >= 2 /\ Head(P!Scores(input)) # 0

\* Day 11: the steps whose flashes are counted are over when all flash at once.
CountedOut(grid) == P!Sync(grid, 1) >= Steps

\* Day 16: no minimum is above the value from which the code starts.
RECURSIVE MinimaFit(_)
MinimaFit(packet) ==
    /\ packet.type = 2 => P!Evaluated(packet) <= INT_MAX
    /\ \A k \in DOMAIN packet.inner : MinimaFit(packet.inner[k])

\* The answer of the puzzle, or where there is none or the properties do not
\* suppose that the code gives it, that of the code, as in a table filled in
\* from a run.
MCExpected(nr, x) ==
    CASE nr = 1  -> P!sonar(x)
      [] nr = 2  -> P!dive(x)
      [] nr = 3  -> IF P!HasRatings(x) THEN P!diagnostic(x) ELSE D3!day3(x)
      [] nr = 4  -> IF FirstIsSeen(x) THEN P!bingo(x) ELSE D4!day4(x)
      [] nr = 5  -> P!vents(x, Width)
      [] nr = 6  -> P!lanternfish(x)
      [] nr = 7  -> P!whales(x)
      [] nr = 8  -> P!displays_show(x)
      [] nr = 9  -> P!smoke(x)
      [] nr = 10 -> P!syntax(x)
      [] nr = 11 -> IF CountedOut(x) THEN P!octopuses(x) ELSE D11!day11(x)
      [] nr = 12 -> P!caves(x)
      [] nr = 14 -> P!polymers(x)
      [] nr = 16 -> IF x.cut \/ MinimaFit(x.packet) THEN Decoded(x) ELSE D16!day16(MCWritten(16, x))
      [] nr = 17 -> P!trick_shot(x)
      [] nr = 18 -> P!Answer(Answer1[x], Answer2[x])
      [] OTHER   -> NoResult

MCMisprints(nr) == IF nr = 2 THEN BOOLEAN ELSE {FALSE}

MCMisprint == P!Answer(1000, 0)

MCArguments(nr) ==
    CASE nr = 2  -> {<<2>>, <<2, BenchmarkFlag>>, <<2, NoNumber>>}
      [] nr = 9  -> {<<9>>, <<BenchmarkFlag, 9>>}
      [] nr = 20 -> {<<>>, <<BenchmarkFlag>>, <<NoNumber>>, <<20>>, <<18, -1>>, <<BenchmarkFlag, 20, 18>>}
      [] OTHER   -> {<<nr>>}

-----------------------------------------------------------------------------
Returned(nr) == pc = "returned" /\ current = nr
Aborted(nr)  == pc = "aborted" /\ current = nr /\ reps > 0

\* A day that returns does so with the answer, and one that aborts has an input
\* that breaks one of its assertions, unless the table is wrong.
Solves(nr, answer) ==
    /\ Returned(nr) => result = answer
    /\ Aborted(nr) => answer = Assertion \/ misprinted

\* The same of inputs of which something is supposed.
SolvesIf(nr, supposed, answer) == Returned(nr) \/ Aborted(nr) => (supposed => Solves(nr, answer))

\* Day 8: whatever the order of the patterns of a display, deduce maps each wire
\* to one segment, and what is added up is what the displays show.
DecodesDisplays == Solves(8, P!displays_show(Input(8)))

\* Day 16: the versions and the value of the packet that was sent, which is that
\* of its tree, although the code finds the ends of subpackets by its own count
\* of the bits it has read; or the assertion, if the end of the transmission is
\* missing.  Supposed: no minimum of values that are all above INT_MAX, from which
\* minimum starts at day16.c:143.
ParsesPackets ==
    SolvesIf(16, Input(16).cut \/ MinimaFit(Input(16).packet), Decoded(Input(16)))

\* Days 6, 11 and 14: counters, a recursion in the middle of a loop and a copy of
\* the counts make each step a step of all fish, octopuses or pairs at once.
\* Supposed: octopuses do not all flash at once before those steps are over whose
\* flashes are counted, since the loop ends with them (day11.c:87).
StepsAtOnce ==
    /\ Solves(6, P!lanternfish(Input(6)))
    /\ SolvesIf(11, CountedOut(Input(11)), P!octopuses(Input(11)))
    /\ Solves(14, P!polymers(Input(14)))

\* Days 5, 9, 12 and 17: what the searches over places, walks and velocities
\* count is what there is, each once; day 9 also when it is called again, on the
\* map the first call has filled.
Explores ==
    /\ Solves(5, P!vents(Input(5), Width))
    /\ Solves(9, P!smoke(Input(9)))
    /\ Solves(12, P!caves(Input(12)))
    /\ Solves(17, P!trick_shot(Input(17)))

\* Days 1, 2, 3, 4, 7 and 10: the element a single pass over the input selects
\* or sums up is the one the puzzle defines from the whole input.  For day 4 these
\* are the scores of the first and of the last board to win, though boards go on
\* being looked at after the first.  Supposed: for day 3, that neither filter drops
\* all rows at once, when the puzzle defines nothing; for day 4, that two boards
\* win and the score of the first is not 0, which day4.c:109 takes for no winner
\* yet, against its comment ("first winner").
Selects ==
    /\ Solves(1, P!sonar(Input(1)))
    /\ Solves(2, P!dive(Input(2)))
    /\ SolvesIf(3, P!HasRatings(Input(3)), P!diagnostic(Input(3)))
    /\ SolvesIf(4, FirstIsSeen(Input(4)), P!bingo(Input(4)))
    /\ Solves(7, P!whales(Input(7)))
    /\ Solves(10, P!syntax(Input(10)))

\* The table is right, and the input of the day under test one the day can read.
TableHolds ==
    Selected \in {-1, under} =>
        ~misprinted /\ (under \in Implemented => days[under].expected # Assertion)

\* main returns after every day and repetition its arguments select, with every
\* assertion holding, unless an argument is no number or the table is wrong.
MainReturns ==
    <>(pc = IF NoNumber \notin {argv[a] : a \in DOMAIN argv} /\ TableHolds THEN "ended" ELSE "aborted")

===============================================================================
