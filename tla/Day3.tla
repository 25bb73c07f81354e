--------------------------------- MODULE Day3 ----------------------------------
(***************************************************************************)
(* src/src/2021/day3.c.  An input is a sequence of rows of bits; NUM_INTS  *)
(* and WIDTH are its own.  life_support_rating filters the array of the    *)
(* remaining rows in place, so that what it cut off stays behind it.       *)
(***************************************************************************)
EXTENDS Integers, SequencesExt

NUM_INTS(input) == Len(input)
WIDTH(input)    == Len(input[1])

READ_BIT(input, row, pos) == input[row][pos] = 1

Indices(n) == [k \in 1 .. n |-> k]

\* The number with these bits, the first the highest.
FromBits(bits) == FoldLeft(LAMBDA n, bit : 2 * n + bit, 0, bits)

make_freq(input, pos, rows) ==
    LET ones == Quantify(DOMAIN rows, LAMBDA k : READ_BIT(input, rows[k], pos))
    IN  [ones |-> ones, zeroes |-> Len(rows) - ones]

\* A tie sets the bit of neither number.
part1(input) ==
    LET freq    == [pos \in 1 .. WIDTH(input) |-> make_freq(input, pos, Indices(NUM_INTS(input)))]
        gamma   == [pos \in DOMAIN freq |-> IF freq[pos].ones > freq[pos].zeroes THEN 1 ELSE 0]
        epsilon == [pos \in DOMAIN freq |-> IF freq[pos].ones < freq[pos].zeroes THEN 1 ELSE 0]
    IN  FromBits(gamma) * FromBits(epsilon)

KeepsOnes(criteria, freq) ==
    IF criteria = "Oxygen" THEN freq.ones >= freq.zeroes ELSE freq.ones < freq.zeroes

\* One turn over the remaining rows: those that stay move to the front.
Filter(input, criteria, pos, s) ==
    LET rows == SubSeq(s.remaining, 1, s.num)
        keep == KeepsOnes(criteria, make_freq(input, pos, rows))
        kept == SelectSeq(rows, LAMBDA row : READ_BIT(input, row, pos) = keep)
    IN  [remaining |-> kept \o SubSeq(s.remaining, Len(kept) + 1, NUM_INTS(input)),
         num |-> Len(kept)]

life_support_rating(input, criteria) ==
    LET all == [remaining |-> Indices(NUM_INTS(input)), num |-> NUM_INTS(input)]
        end == FoldLeft(LAMBDA s, pos : IF pos > 1 /\ s.num = 1 THEN s ELSE Filter(input, criteria, pos, s),
                        all, Indices(WIDTH(input)))
    IN  FromBits(input[end.remaining[1]])

day3(input) ==
    [p1 |-> part1(input),
     p2 |-> life_support_rating(input, "Oxygen") * life_support_rating(input, "CO2")]

===============================================================================
