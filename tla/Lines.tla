--------------------------------- MODULE Lines ---------------------------------
(***************************************************************************)
(* src/src/utils/array.h and the line splitting of src/src/utils/utils.c.  *)
(* An array is its elements up to len and its capacity; a write past the   *)
(* capacity leaves it overrun.  A text is the sequence of its characters,  *)
(* with a NUL or a newline behind its last one: for a text that does not   *)
(* end in a newline it is the NUL the code hopes for.                      *)
(***************************************************************************)
EXTENDS Integers, SequencesExt

CONSTANTS
    Newline,
    ARRAY_MIN_CAPACITY  \* 8

NULL == [elems |-> <<>>, capacity |-> 0, overrun |-> FALSE]

\* Mutant: the array grows when it is past its end.
EnlargesLate(a) == Len(a.elems) > a.capacity

Enlarges(a) == a.capacity = 0 \/ Len(a.elems) + 1 >= a.capacity

ARRAY_MAYBE_ENLARGE(a) ==
    IF Enlarges(a) THEN [a EXCEPT !.capacity = Max({ARRAY_MIN_CAPACITY, 2 * @})] ELSE a

ARRAY_ADD(array, elem) ==
    LET a == ARRAY_MAYBE_ENLARGE(array)
    IN  [a EXCEPT !.elems = Append(@, elem), !.overrun = @ \/ Len(a.elems) >= a.capacity]

ARRAY_SHRINK(a) == [a EXCEPT !.capacity = Len(a.elems)]

\* strchr(p, '\n'): the first newline from p on, or 0.
strchr(input, p) ==
    LET later == {q \in p .. Len(input) : input[q] = Newline}
    IN  IF later = {} THEN 0 ELSE Min(later)

RECURSIVE SplitFrom(_, _, _)
SplitFrom(input, p, array) ==
    LET q == strchr(input, p) IN
    IF p > Len(input) THEN array
    ELSE IF q = 0 THEN ARRAY_ADD(array, SubSeq(input, p, Len(input)))
    ELSE SplitFrom(input, q + 1, ARRAY_ADD(array, SubSeq(input, p, q - 1)))

split_input_to_lines(input) == ARRAY_SHRINK(SplitFrom(input, 1, NULL))

===============================================================================
