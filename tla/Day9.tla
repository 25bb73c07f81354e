--------------------------------- MODULE Day9 ----------------------------------
(***************************************************************************)
(* src/src/2021/day9.c.  A map has a height for each place of a square:    *)
(* the code uses WIDTH for both directions.  The map it fills is a global  *)
(* that outlives the call.                                                 *)
(***************************************************************************)
EXTENDS Integers, SequencesExt

Cleared == -16      \* ' ', read as a digit

WIDTH(map) == 1 + Max({place[1] : place \in DOMAIN map})

\* The places in the order of the two loops of day9, y first.
Places(map) ==
    LET w == WIDTH(map) IN [k \in 1 .. w * w |-> <<(k - 1) % w, (k - 1) \div w>>]

delta == << <<-1, 0>>, <<0, -1>>, <<1, 0>>, <<0, 1>> >>

Adjacent(map, place) ==
    SelectSeq([k \in DOMAIN delta |-> <<place[1] + delta[k][1], place[2] + delta[k][2]>>],
              LAMBDA adj : adj \in DOMAIN map)

\* The map after fill, and the size it returns.
RECURSIVE fill(_, _)
fill(map, place) ==
    IF map[place] \in {9, Cleared} THEN [map |-> map, size |-> 0]
    ELSE FoldLeft(LAMBDA s, adj : LET t == fill(s.map, adj)
                                  IN  [map |-> t.map, size |-> s.size + t.size],
                  [map |-> [map EXCEPT ![place] = Cleared], size |-> 1],
                  Adjacent(map, place))

is_low(map, place) == \A k \in DOMAIN Adjacent(map, place) : map[Adjacent(map, place)[k]] > map[place]

low_points(map) == SelectSeq(Places(map), LAMBDA place : is_low(map, place))

Descending(sizes) == SortSeq(sizes, >)

\* Mutant: the global is copied into only while it has no map.
CopiedOnce(ptr, input) == IF ptr = <<>> THEN input ELSE ptr

\* memcpy(ptr, orig_ptr, len).
Copied(ptr, input) == input

\* The results for the map that was copied, and the global map afterwards.
day9(map) ==
    LET lows  == low_points(map)
        end   == FoldLeft(LAMBDA s, place : LET t == fill(s.map, place)
                                            IN  [map |-> t.map, sizes |-> Append(s.sizes, t.size)],
                          [map |-> map, sizes |-> <<>>], lows)
        sizes == Descending(end.sizes \o <<0, 0, 0>>)
    IN  [p1 |-> FoldLeft(LAMBDA n, place : n + map[place] + 1, 0, lows),
         p2 |-> sizes[1] * sizes[2] * sizes[3],
         ptr |-> end.map]

===============================================================================
