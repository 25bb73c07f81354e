--------------------------------- MODULE Day6 ----------------------------------
(***************************************************************************)
(* src/src/2021/day6.c.  An input is the sequence of the timers; buf[t]    *)
(* counts the lanternfish with timer t.                                    *)
(***************************************************************************)
EXTENDS Integers, SequencesExt

CONSTANTS FirstDays, AllDays    \* 80 and 256

BUFSIZE == 9

sum(buf) == FoldFunction(+, 0, buf)

Counted(input) == [t \in 0 .. BUFSIZE - 1 |-> Quantify(DOMAIN input, LAMBDA k : input[k] = t)]

Day(buf) ==
    [t \in 0 .. BUFSIZE - 1 |->
        CASE t = 8 -> buf[0]
          [] t = 6 -> buf[0] + buf[7]
          [] OTHER -> buf[t + 1]]

RECURSIVE After(_, _)
After(buf, days) == IF days = 0 THEN buf ELSE After(Day(buf), days - 1)

day6(input) ==
    LET first == After(Counted(input), FirstDays)
    IN  [p1 |-> sum(first), p2 |-> sum(After(first, AllDays - FirstDays))]

===============================================================================
