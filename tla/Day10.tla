--------------------------------- MODULE Day10 ---------------------------------
(***************************************************************************)
(* src/src/2021/day10.c.  The brackets (, [, { and < are 1 .. 4, and their *)
(* closing ones -1 .. -4.  No line closes a bracket with nothing open: the *)
(* code would read the byte before the stack.                              *)
(***************************************************************************)
EXTENDS Integers, SequencesExt

IS_OPEN(x) == x > 0
other(c)   == -c

TopIs(stack, c) == Last(stack) = c

\* The stack of what must still be closed, and the first illegal bracket or 0.
match_pairs(line) ==
    FoldLeft(LAMBDA s, c :
                 IF s.illegal # 0 THEN s
                 ELSE IF IS_OPEN(c) THEN [s EXCEPT !.stack = Append(@, other(c))]
                 ELSE IF TopIs(s.stack, c) THEN [s EXCEPT !.stack = Front(@)]
                 ELSE [s EXCEPT !.illegal = c],
             [stack |-> <<>>, illegal |-> 0], line)

syntax_score(c) == << 3, 57, 1197, 25137 >>[-c]

completion_value(c) == -c

score_completion(s) == FoldLeft(LAMBDA score, c : score * 5 + completion_value(c), 0, s)

\* The corrupt lines are scored, the others completed, the last opened first.
day10(lines) ==
    LET matched == [k \in DOMAIN lines |-> match_pairs(lines[k])]
        corrupt == SelectSeq(matched, LAMBDA m : m.illegal # 0)
        others  == SelectSeq(matched, LAMBDA m : m.illegal = 0)
        scores  == SortSeq([k \in DOMAIN others |-> score_completion(Reverse(others[k].stack))], <)
    IN  [p1 |-> FoldLeft(LAMBDA sum, m : sum + syntax_score(m.illegal), 0, corrupt),
         p2 |-> scores[Len(scores) \div 2 + 1]]

===============================================================================
