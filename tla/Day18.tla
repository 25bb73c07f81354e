--------------------------------- MODULE Day18 ---------------------------------
(***************************************************************************)
(* src/src/2021/day18.c.  A number is the array of its digits, each with   *)
(* its depth.  fast_reduce copies it from one buffer to the other, once    *)
(* exploding and once more splitting, in which it takes digits back from   *)
(* the target and puts them into the source it has already read.  digits   *)
(* and copy_buf are the two buffers up to number.len and up to j; each     *)
(* turn of the loops of fast_reduce and magnitude is an action.            *)
(***************************************************************************)
EXTENDS Integers, SequencesExt

CONSTANTS
    Line,               \* lines of an input, as sequences of tokens
    Open, Close, Comma, \* the tokens that are not digits
    Inputs,             \* inputs, as sequences of lines
    Nested,             \* the depth of digits whose pair explodes: 5
    Ten,                \* the least digit that is split: 10
    MAX_DIGITS          \* room for digits: 100

VARIABLES
    lines,
    phase,      \* "pair", "add", "begin", "scan", "magnitude", "done", "aborted"
    row, col,   \* i and j of day18 from 1; row is 0 while p1 is computed
    digits, copy_buf,
    explode_only,
    i,          \* the next digit of the loop
    stack,      \* of magnitude
    p1, max_magnitude

number == <<digits, copy_buf, explode_only, i>>
vars   == <<lines, phase, row, col, number, stack, p1, max_magnitude>>

digit_t(v, d) == [value |-> v, depth |-> d]

parse_number(line) ==
    FoldLeft(LAMBDA n, c :
                 CASE c = Open  -> [n EXCEPT !.depth = @ + 1]
                   [] c = Close -> [n EXCEPT !.depth = @ - 1]
                   [] c = Comma -> n
                   [] OTHER     -> [n EXCEPT !.digits = Append(@, digit_t(c, n.depth))],
             [depth |-> 0, digits |-> <<>>], line).digits

parsed == [line \in Line |-> parse_number(line)]

\* The number that is reduced, read across both buffers.
sum ==
    IF phase = "scan" THEN copy_buf \o SubSeq(digits, i, Len(digits)) ELSE digits

F == INSTANCE Snailfish WITH
        Number <- {parsed[line] : line \in Line},
        number <- sum

\* A line is a reduced number of the puzzle, and a buffer has room for the sum of two.
ASSUME InputAssumption ==
    /\ Nested \in Nat \ {0, 1} /\ Ten \in Nat \ {0}
    /\ MAX_DIGITS \in Nat /\ MAX_DIGITS >= F!Size[Nested]
    /\ Inputs \subseteq Seq(Line) \ {<<>>}
    /\ \A line \in Line : F!IsNumber(parsed[line]) /\ F!IsReduced(parsed[line])

INT_MIN == -2147483647 - 1

nums(k) == parsed[lines[k]]

Init ==
    /\ lines \in Inputs
    /\ phase = "add" /\ row = 0 /\ col = 1
    /\ digits = nums(1) /\ copy_buf = <<>>
    /\ explode_only = TRUE /\ i = 1
    /\ stack = <<>>
    /\ p1 = 0 /\ max_magnitude = INT_MIN

Deeper(n) == [k \in DOMAIN n |-> digit_t(n[k].value, n[k].depth + 1)]

add ==
    /\ phase = "add"
    /\ digits' = Deeper(digits \o nums(col))
    /\ explode_only' = TRUE
    /\ phase' = "begin"
    /\ UNCHANGED <<lines, row, col, copy_buf, i, stack, p1, max_magnitude>>

-----------------------------------------------------------------------------
(* fast_reduce.                                                              *)

Zero == digit_t(0, Nested - 1)

Add(n, k, v) == IF k \in DOMAIN n THEN [n EXCEPT ![k].value = @ + v] ELSE n

\* Mutant: no special case for a pair with nothing to its left.
NeverFirst == FALSE

\* The pair to explode is the first, and there is no copy_buf[j - 1].
ExplodesFirst == explode_only /\ digits[1].depth = Nested

begin_explodes ==
    /\ phase = "begin" /\ ExplodesFirst
    /\ digits' = IF Len(digits) # 2 THEN Add(digits, 3, digits[2].value) ELSE digits
    /\ copy_buf' = <<Zero>>
    /\ i' = 3
    /\ phase' = "scan"
    /\ UNCHANGED <<lines, row, col, explode_only, stack, p1, max_magnitude>>

begin ==
    /\ phase = "begin" /\ ~ExplodesFirst
    /\ copy_buf' = <<>>
    /\ i' = 1
    /\ phase' = "scan"
    /\ UNCHANGED <<lines, row, col, digits, explode_only, stack, p1, max_magnitude>>

Scanning == phase = "scan" /\ i <= Len(digits)

AtPair == Scanning /\ digits[i].depth = Nested

\* The source after the right value has gone to the digit behind the pair.
PairToZero == Add([digits EXCEPT ![i + 1] = Zero], i + 2, digits[i + 1].value)

explode_left_copied ==
    /\ AtPair /\ explode_only
    /\ copy_buf' = Add(copy_buf, Len(copy_buf), digits[i].value)
    /\ digits' = PairToZero
    /\ i' = i + 1
    /\ UNCHANGED <<lines, phase, row, col, explode_only, stack, p1, max_magnitude>>

\* Mutant: the digit is added to where it is, and not looked at again.
explode_keeps_left ==
    /\ AtPair /\ ~explode_only /\ copy_buf # <<>>
    /\ copy_buf' = Add(copy_buf, Len(copy_buf), digits[i].value)
    /\ digits' = PairToZero
    /\ i' = i + 1
    /\ UNCHANGED <<lines, phase, row, col, explode_only, stack, p1, max_magnitude>>

\* The digit to the left may have become too large and is taken back.
explode_takes_back ==
    /\ AtPair /\ ~explode_only /\ copy_buf # <<>>
    /\ digits' = [PairToZero EXCEPT ![i] = [Last(copy_buf) EXCEPT !.value = @ + digits[i].value]]
    /\ copy_buf' = Front(copy_buf)
    /\ UNCHANGED <<lines, phase, row, col, explode_only, i, stack, p1, max_magnitude>>

explode_leftmost ==
    /\ AtPair /\ ~explode_only /\ copy_buf = <<>>
    /\ digits' = PairToZero
    /\ i' = i + 1
    /\ UNCHANGED <<lines, phase, row, col, copy_buf, explode_only, stack, p1, max_magnitude>>

AtLarge == Scanning /\ ~AtPair /\ ~explode_only /\ digits[i].value >= Ten

Halves ==
    LET left == digit_t(digits[i].value \div 2, digits[i].depth + 1)
    IN  <<left, digit_t(digits[i].value - left.value, left.depth)>>

split ==
    /\ AtLarge /\ i # 1
    /\ digits' = [digits EXCEPT ![i - 1] = Halves[1], ![i] = Halves[2]]
    /\ i' = i - 1
    /\ UNCHANGED <<lines, phase, row, col, copy_buf, explode_only, stack, p1, max_magnitude>>

split_first ==
    /\ AtLarge /\ i = 1
    /\ digits' = Halves \o Tail(digits)
    /\ UNCHANGED <<lines, phase, row, col, copy_buf, explode_only, i, stack, p1, max_magnitude>>

copy ==
    /\ Scanning /\ ~AtPair /\ ~AtLarge
    /\ copy_buf' = Append(copy_buf, digits[i])
    /\ i' = i + 1
    /\ UNCHANGED <<lines, phase, row, col, digits, explode_only, stack, p1, max_magnitude>>

\* The buffers change places; the second pass is done after the first.
explosions_end ==
    /\ phase = "scan" /\ ~Scanning /\ explode_only
    /\ digits' = copy_buf /\ copy_buf' = <<>> /\ i' = 1
    /\ explode_only' = FALSE
    /\ phase' = "begin"
    /\ UNCHANGED <<lines, row, col, stack, p1, max_magnitude>>

\* add_and_reduce returns; while p1 is computed the next line is added.
reduce_ends ==
    /\ phase = "scan" /\ ~Scanning /\ ~explode_only
    /\ digits' = copy_buf /\ copy_buf' = <<>>
    /\ i' = 1
    /\ IF row = 0 /\ col < Len(lines)
       THEN phase' = "add" /\ col' = col + 1
       ELSE phase' = "magnitude" /\ UNCHANGED col
    /\ UNCHANGED <<lines, row, explode_only, stack, p1, max_magnitude>>

-----------------------------------------------------------------------------
(* magnitude, and the two loops of day18.                                    *)

Collapsible ==
    /\ Len(stack) > 1
    /\ stack[Len(stack) - 1].depth = stack[Len(stack)].depth

push ==
    /\ phase = "magnitude" /\ ~Collapsible /\ i <= Len(digits)
    /\ stack' = Append(stack, digits[i])
    /\ i' = i + 1
    /\ UNCHANGED <<lines, phase, row, col, digits, copy_buf, explode_only, p1, max_magnitude>>

collapse ==
    /\ phase = "magnitude" /\ Collapsible
    /\ LET left  == stack[Len(stack) - 1]
           right == Last(stack)
       IN  stack' = Append(Front(Front(stack)),
                           digit_t(left.value * 3 + right.value * 2, left.depth - 1))
    /\ UNCHANGED <<lines, phase, row, col, number, p1, max_magnitude>>

Advance ==
    IF col = Len(lines) THEN row' = row + 1 /\ col' = 1 ELSE col' = col + 1 /\ UNCHANGED row

\* assert(p == 1) comes before the result is used.
magnitude_returns ==
    /\ phase = "magnitude" /\ ~Collapsible /\ i > Len(digits)
    /\ phase' = IF Len(stack) = 1 THEN "pair" ELSE "aborted"
    /\ IF row = 0
       THEN p1' = stack[1].value /\ UNCHANGED max_magnitude
       ELSE /\ max_magnitude' = IF stack[1].value > max_magnitude THEN stack[1].value ELSE max_magnitude
            /\ UNCHANGED p1
    /\ i' = 1 /\ stack' = <<>>
    /\ Advance
    /\ UNCHANGED <<lines, digits, copy_buf, explode_only>>

IsPair == row # col

pair ==
    /\ phase = "pair" /\ row <= Len(lines) /\ IsPair
    /\ digits' = nums(row) /\ copy_buf' = <<>>
    /\ phase' = "add"
    /\ UNCHANGED <<lines, row, col, explode_only, i, stack, p1, max_magnitude>>

same ==
    /\ phase = "pair" /\ row <= Len(lines) /\ ~IsPair
    /\ Advance
    /\ UNCHANGED <<lines, phase, number, stack, p1, max_magnitude>>

day18_returns ==
    /\ phase = "pair" /\ row > Len(lines)
    /\ phase' = "done"
    /\ UNCHANGED <<lines, row, col, number, stack, p1, max_magnitude>>

Next ==
    \/ add \/ begin_explodes \/ begin
    \/ explode_left_copied \/ explode_takes_back \/ explode_leftmost
    \/ split \/ split_first \/ copy
    \/ explosions_end \/ reduce_ends
    \/ push \/ collapse \/ magnitude_returns
    \/ pair \/ same \/ day18_returns

Spec == Init /\ [][Next]_vars

-----------------------------------------------------------------------------
DigitArray == {n \in Seq([value : Nat, depth : 0 .. Nested]) : Len(n) <= MAX_DIGITS}

\* Type invariant; no digit is read or written outside the buffers: an exploding
\* pair is complete, and its left value has a digit to go to if there is one.
TypeOK ==
    /\ lines \in Inputs
    /\ phase \in {"pair", "add", "begin", "scan", "magnitude", "done", "aborted"}
    /\ row \in 0 .. Len(lines) + 1 /\ col \in 1 .. Len(lines)
    /\ digits \in DigitArray /\ copy_buf \in DigitArray
    /\ explode_only \in BOOLEAN
    /\ i \in 1 .. Len(digits) + 1
    /\ stack \in DigitArray
    /\ p1 \in Nat /\ max_magnitude \in {INT_MIN} \cup Nat
    /\ AtPair => i < Len(digits) /\ (explode_only => copy_buf # <<>>)

\* Read across both buffers, every turn of fast_reduce is one explosion or one
\* split in the order of the rules, or no change, although the first pass makes
\* all explosions before it splits anything and the second goes back and forth.
FollowsRules == F!Spec

===============================================================================
