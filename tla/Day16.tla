--------------------------------- MODULE Day16 ---------------------------------
(***************************************************************************)
(* src/src/2021/day16.c.  An input is the sequence of its bits, those of   *)
(* the bytes init_bitreader makes of it.  at is the number of bits already *)
(* read; bit_length, which tells where subpackets end, is counted apart    *)
(* from it.  A packet that breaks an assertion of the code is Assertion,   *)
(* and so is every packet around it.                                       *)
(***************************************************************************)
EXTENDS Integers, SequencesExt

CONSTANTS
    INT_MAX,
    LENGTH_BITS, COUNT_BITS,    \* 15 and 11
    MAX_SUBPACKETS              \* 60

Sum == 0
Product == 1
Minimum == 2
Maximum == 3
Literal == 4
GreaterThan == 5
LessThan == 6
EqualTo == 7

TotalBitLength == 0
NumberOfSubPackets == 1

Assertion == [ok |-> FALSE]

\* bitreader_read_bits asserts CanRead.
CanRead(buf, at, n) == at + n <= Len(buf)
Bits(buf, at, n)    ==
    LET num[k \in 0 .. n] == IF k = 0 THEN 0 ELSE 2 * num[k - 1] + buf[at + k] IN num[n]

Packet(version_sum, value, bit_length, at) ==
    [ok |-> TRUE, version_sum |-> version_sum, packet_value |-> value,
     bit_length |-> bit_length, at |-> at]

RECURSIVE parse_literal(_, _, _, _, _)
parse_literal(buf, start, at, literal, bit_length) ==
    LET value == literal * 16 + Bits(buf, at + 1, 4) IN
    IF ~CanRead(buf, at, 5) THEN Assertion
    ELSE IF Bits(buf, at, 1) = 1 THEN parse_literal(buf, start, at + 5, value, bit_length + 5)
    ELSE Packet(Bits(buf, start, 3), value, bit_length + 5, at + 5)

SumOf(numbers) == FoldLeft(+, 0, numbers)

Values(infos) == [k \in DOMAIN infos |-> infos[k].packet_value]

\* Mutant: the headers of the subpackets are not counted.
BitsBehindHeaders(infos) == FoldLeft(LAMBDA n, info : n + info.bit_length - 6, 0, infos)

SubpacketBits(infos) == FoldLeft(LAMBDA n, info : n + info.bit_length, 0, infos)

\* The first subpacket of a given length is read without asking.
WantsMore(length_type_id, limit, infos) ==
    IF length_type_id = TotalBitLength THEN infos = <<>> \/ SubpacketBits(infos) < limit
    ELSE Len(infos) < limit

NeedsTwo(type) == type \in {GreaterThan, LessThan, EqualTo}

Truth(b) == IF b THEN 1 ELSE 0

\* minimum starts from INT_MAX although values have 64 bits.
PacketValue(type, v) ==
    CASE type = Sum         -> SumOf(v)
      [] type = Product     -> FoldLeft(LAMBDA product, n : product * n, 1, v)
      [] type = Minimum     -> Min({INT_MAX} \cup Range(v))
      [] type = Maximum     -> Max({-INT_MAX - 1} \cup Range(v))
      [] type = GreaterThan -> Truth(v[1] > v[2])
      [] type = LessThan    -> Truth(v[1] < v[2])
      [] type = EqualTo     -> Truth(v[1] = v[2])

\* 6 for the header, 1 for the kind of length, and the length.
LengthWidth(length_type_id) == IF length_type_id = TotalBitLength THEN LENGTH_BITS ELSE COUNT_BITS

RECURSIVE parse_packet(_, _), parse_operands(_, _, _, _, _, _)

parse_operands(buf, start, at, length_type_id, limit, infos) ==
    LET type == Bits(buf, start + 3, 3)
        info == parse_packet(buf, at)
    IN  IF WantsMore(length_type_id, limit, infos)
        THEN IF Len(infos) = MAX_SUBPACKETS \/ ~info.ok THEN Assertion
             ELSE parse_operands(buf, start, info.at, length_type_id, limit, Append(infos, info))
        ELSE IF NeedsTwo(type) /\ Len(infos) # 2 THEN Assertion
        ELSE Packet(Bits(buf, start, 3) + SumOf([k \in DOMAIN infos |-> infos[k].version_sum]),
                    PacketValue(type, Values(infos)),
                    7 + LengthWidth(length_type_id) + SubpacketBits(infos), at)

parse_packet(buf, at) ==
    LET length_type_id == Bits(buf, at + 6, 1)
        width == LengthWidth(length_type_id)
    IN  IF ~CanRead(buf, at, 6) THEN Assertion
        ELSE IF Bits(buf, at + 3, 3) = Literal THEN parse_literal(buf, at, at + 6, 0, 6)
        ELSE IF ~CanRead(buf, at + 6, 1) \/ ~CanRead(buf, at + 7, width) THEN Assertion
        ELSE parse_operands(buf, at, at + 7 + width, length_type_id,
                            Bits(buf, at + 7, width), <<>>)

day16(input) ==
    LET info == parse_packet(input, 0)
    IN  IF info.ok THEN [p1 |-> info.version_sum, p2 |-> info.packet_value]
        ELSE [p1 |-> -1, p2 |-> -1]

===============================================================================
