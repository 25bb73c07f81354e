--------------------------------- MODULE Day14 ---------------------------------
(***************************************************************************)
(* src/src/2021/day14.c.  An input has the root, a sequence of letters,    *)
(* and for each pair of letters the letter its rule inserts, or 0.         *)
(***************************************************************************)
EXTENDS Integers, SequencesExt

CONSTANTS
    LETTERS,                        \* 1 .. 26
    FirstGenerations, generations   \* 10 and 40

Pairs == LETTERS \X LETTERS

PairSeq == SetToSeq(Pairs)

get_answer(letter_counts) ==
    LET counts == {letter_counts[a] : a \in LETTERS} \ {0} IN Max(counts) - Min(counts)

Add(counts, key, n) == [counts EXCEPT ![key] = @ + n]

LetterCounts(root) == [a \in LETTERS |-> Quantify(DOMAIN root, LAMBDA k : root[k] = a)]

PairCounts(root) ==
    [p \in Pairs |-> Quantify(1 .. Len(root) - 1, LAMBDA k : <<root[k], root[k + 1]>> = p)]

\* Mutant: the counts are read while they change.
CountNow(orig, s, pair) == s.pairs[pair]

CountBefore(orig, s, pair) == orig[pair]

\* One pair of the loop over all pairs.
Insert(rules, orig, s, pair) ==
    LET c == rules[pair]
        n == CountBefore(orig, s, pair)
    IN  IF c = 0 \/ n = 0 THEN s
        ELSE [pairs |-> Add(Add(Add(s.pairs, pair, -n), <<pair[1], c>>, n), <<c, pair[2]>>, n),
              letters |-> Add(s.letters, c, n)]

Generation(rules, s) ==
    FoldLeft(LAMBDA t, pair : Insert(rules, s.pairs, t, pair), s, PairSeq)

RECURSIVE After(_, _, _)
After(rules, s, n) == IF n = 0 THEN s ELSE After(rules, Generation(rules, s), n - 1)

day14(input) ==
    LET root  == [pairs |-> PairCounts(input.root), letters |-> LetterCounts(input.root)]
        first == After(input.rules, root, FirstGenerations)
        last  == After(input.rules, first, generations - FirstGenerations)
    IN  [p1 |-> get_answer(first.letters), p2 |-> get_answer(last.letters)]

===============================================================================
