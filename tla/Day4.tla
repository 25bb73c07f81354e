--------------------------------- MODULE Day4 ----------------------------------
(***************************************************************************)
(* src/src/2021/day4.c.  An input has the numbers in the order in which    *)
(* they are played and the boards, each the sequence of its rows one after *)
(* another.  A result of 0 stands for no winner yet.                       *)
(***************************************************************************)
EXTENDS Integers, SequencesExt

CONSTANT Side   \* rows and columns of a board: 5

played(numbers, n, k) == \E j \in 1 .. k : numbers[j] = n

compute_result(numbers, k, board) ==
    numbers[k] * FoldLeft(LAMBDA sum, n : IF played(numbers, n, k) THEN sum ELSE sum + n, 0, board)

RowCell(a, b)    == (a - 1) * Side + b
ColumnCell(a, b) == (b - 1) * Side + a

is_winner(numbers, k, board) ==
    \E a \in 1 .. Side :
        \/ \A b \in 1 .. Side : played(numbers, board[RowCell(a, b)], k)
        \/ \A b \in 1 .. Side : played(numbers, board[ColumnCell(a, b)], k)

\* Mutant: winners go on playing.
PlaysAgain(input, k, s, j) ==
    IF ~is_winner(input.numbers, k, input.boards[j]) THEN s
    ELSE LET res == compute_result(input.numbers, k, input.boards[j])
         IN  [winners |-> s.winners \cup {j},
              p1 |-> IF s.p1 = 0 THEN res ELSE s.p1,
              p2 |-> IF s.p1 = 0 THEN s.p2 ELSE res]

\* Board j sees the kth number.
Play(input, k, s, j) ==
    IF j \in s.winners \/ ~is_winner(input.numbers, k, input.boards[j]) THEN s
    ELSE LET res == compute_result(input.numbers, k, input.boards[j])
         IN  [winners |-> s.winners \cup {j},
              p1 |-> IF s.p1 = 0 THEN res ELSE s.p1,
              p2 |-> IF s.p1 = 0 THEN s.p2 ELSE res]

day4(input) ==
    LET Turn(s, k) == FoldLeft(LAMBDA t, j : Play(input, k, t, j), s,
                               [j \in DOMAIN input.boards |-> j])
        end == FoldLeft(Turn, [winners |-> {}, p1 |-> 0, p2 |-> 0],
                        [k \in DOMAIN input.numbers |-> k])
    IN  [p1 |-> end.p1, p2 |-> end.p2]

===============================================================================
