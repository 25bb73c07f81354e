-------------------------------- MODULE Aoc2021 --------------------------------
(***************************************************************************)
(* The program of src/src/2021: its runner and its days.  A day is one     *)
(* step that returns what the day's module makes of its input, day 18 the  *)
(* steps of Day18; days 13, 15 and 25, which have modules and runs of      *)
(* their own, return what is expected, and so does day 19, which returns   *)
(* zeroes.  The input of one day is any of its examples, those of the      *)
(* other days are one example each.                                        *)
(***************************************************************************)
EXTENDS Day18, Runner

CONSTANTS
    Examples(_), Example(_),    \* inputs of a day, and the one if it is not under test
    Arguments(_),               \* argument lists when a day is under test
    Written(_, _),              \* the text of an input
    Expected(_, _),             \* the result in main's table for a day with an input
    Misprints(_), Misprint,     \* whether it may be, of the day under test, this one
    Newline, ARRAY_MIN_CAPACITY,
    Side, Width, CHAR_VALUES, FirstDays, AllDays, Steps,
    LETTERS, FirstGenerations, generations,
    INT_MAX, LENGTH_BITS, COUNT_BITS, MAX_SUBPACKETS

VARIABLES
    under, puzzle,              \* the day under test, its input
    misprinted,                 \* whether the table is wrong about it
    inputs,                     \* the texts of the inputs of the days
    days,                       \* the table of main
    ptr                         \* the map of day 9, empty before its first call

Arrays == INSTANCE Lines
Short  == INSTANCE ShortDays
D3     == INSTANCE Day3
D4     == INSTANCE Day4
D5     == INSTANCE Day5
D6     == INSTANCE Day6
D8     == INSTANCE Day8
D9     == INSTANCE Day9
D10    == INSTANCE Day10
D11    == INSTANCE Day11
D12    == INSTANCE Day12
D14    == INSTANCE Day14
D16    == INSTANCE Day16

table == <<under, puzzle, misprinted, inputs, days>>
avars == <<vars, mvars, table, ptr>>

Assertion == [p1 |-> -1, p2 |-> -1]     \* the day aborts

Result(nr, input) ==
    CASE nr = 1  -> Short!day1(input)
      [] nr = 2  -> Short!day2(input)
      [] nr = 3  -> D3!day3(input)
      [] nr = 4  -> D4!day4(input)
      [] nr = 5  -> D5!day5(input)
      [] nr = 6  -> D6!day6(input)
      [] nr = 7  -> Short!day7(input)
      [] nr = 8  -> D8!day8(input)
      [] nr = 10 -> D10!day10(input)
      [] nr = 11 -> D11!day11(input)
      [] nr = 12 -> D12!day12(input)
      [] nr = 14 -> D14!day14(input)
      [] nr = 16 -> D16!day16(input)
      [] nr = 17 -> Short!day17(input)
      [] OTHER   -> Expected(nr, input)

\* The function of a day with its input, which never changes: the result of a day
\* that is one step, that of day 9 for the map it copies, the lines of day 18.
Fun(nr, input) ==
    CASE nr = 9  -> [map \in {input, D9!day9(input).ptr} |-> D9!day9(map)]
      [] nr = 18 -> Arrays!split_input_to_lines(input)
      [] OTHER   -> Result(nr, input)

DayNumbers == SelectSeq(argv, LAMBDA a : a \notin {BenchmarkFlag, NoNumber})

\* The day that the arguments select, -1 for all.
Selected == IF DayNumbers = <<>> THEN -1 ELSE Last(DayNumbers)

Input(nr) == IF nr = under THEN puzzle ELSE Example(nr)

\* Only the rows that are selected are filled in.
Rows == IF Selected = -1 THEN Implemented ELSE Implemented \cap {Selected}

Table ==
    [nr \in Rows |->
        [fun |-> Fun(nr, inputs[nr]),
         expected |-> IF misprinted /\ nr = under THEN Misprint ELSE Expected(nr, Input(nr))]]

AocInit ==
    /\ under \in Days
    /\ puzzle \in Examples(under)
    /\ misprinted \in Misprints(under)
    /\ argv \in Arguments(under)
    /\ inputs = [nr \in Rows |-> Written(nr, Input(nr))]
    /\ days = Table
    /\ main
    /\ ptr = <<>>
    /\ lines = Arrays!split_input_to_lines(Written(18, Example(18))).elems
    /\ phase = "add" /\ row = 0 /\ col = 1
    /\ digits = nums(1) /\ copy_buf = <<>>
    /\ explode_only = TRUE /\ i = 1
    /\ stack = <<>>
    /\ p1 = 0 /\ max_magnitude = INT_MIN

-----------------------------------------------------------------------------
(* Days that are one step.                                                   *)

day_call ==
    /\ current # 18
    /\ call
    /\ UNCHANGED <<vars, table, ptr>>

day_returns ==
    /\ pc = "called" /\ current \notin {9, 18}
    /\ LET r == days[current].fun IN IF r = Assertion THEN day_aborts ELSE returns(r)
    /\ UNCHANGED <<vars, table, ptr>>

day9_returns ==
    /\ pc = "called" /\ current = 9
    /\ LET r == days[9].fun[D9!Copied(ptr, inputs[9])]
       IN  returns([p1 |-> r.p1, p2 |-> r.p2]) /\ ptr' = r.ptr
    /\ UNCHANGED <<vars, table>>

-----------------------------------------------------------------------------
(* Day 18, whose text is split first; an overrun of the array is taken to    *)
(* end the program.                                                          *)

day18_call ==
    /\ current = 18
    /\ call
    /\ lines' = days[18].fun.elems
    /\ phase' = IF days[18].fun.overrun THEN "aborted" ELSE "add"
    /\ row' = 0 /\ col' = 1
    /\ digits' = parsed[lines'[1]] /\ copy_buf' = <<>>
    /\ explode_only' = TRUE /\ i' = 1
    /\ stack' = <<>>
    /\ p1' = 0 /\ max_magnitude' = INT_MIN
    /\ UNCHANGED <<table, ptr>>

day18_turn ==
    /\ pc = "called" /\ current = 18
    /\ Next
    /\ UNCHANGED <<mvars, table, ptr>>

day18_end ==
    /\ pc = "called" /\ current = 18 /\ phase \in {"done", "aborted"}
    /\ IF phase = "aborted" THEN day_aborts ELSE returns([p1 |-> p1, p2 |-> max_magnitude])
    /\ UNCHANGED <<vars, table, ptr>>

-----------------------------------------------------------------------------
(* main.                                                                     *)

parse_arguments ==
    /\ argument_benchmark \/ argument_day \/ argument_invalid \/ arguments_end
    /\ UNCHANGED <<vars, table, ptr>>

run_day ==
    /\ \/ not_implemented
       \/ assert_fails(days[current].expected)
       \/ repeats(days[current].expected)
       \/ run_ends(days[current].expected)
    /\ UNCHANGED <<vars, table, ptr>>

AocNext ==
    \/ parse_arguments \/ run_day
    \/ day_call \/ day_returns \/ day9_returns
    \/ day18_call \/ day18_turn \/ day18_end

AocSpec == AocInit /\ [][AocNext]_avars /\ WF_avars(AocNext)

===============================================================================
