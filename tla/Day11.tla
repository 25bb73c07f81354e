--------------------------------- MODULE Day11 ---------------------------------
(***************************************************************************)
(* src/src/2021/day11.c.  A grid has the energy of the octopus at each     *)
(* place of a square.  One flash sets off others by recursion, in the      *)
(* middle of the loop over its own neighbours.                             *)
(***************************************************************************)
EXTENDS Integers, SequencesExt

CONSTANT Steps      \* whose flashes are counted: 100

SET_FLASHED   == -1
IS_FLASHED(x) == x = SET_FLASHED

WIDTH(grid) == 1 + Max({place[1] : place \in DOMAIN grid})

Places(grid) ==
    LET w == WIDTH(grid) IN [k \in 1 .. w * w |-> <<(k - 1) % w, (k - 1) \div w>>]

deltas == << <<-1, -1>>, <<0, -1>>, <<1, -1>>, <<-1, 0>>, <<1, 0>>, <<-1, 1>>, <<0, 1>>, <<1, 1>> >>

Adjacent(grid, place) ==
    SelectSeq([k \in DOMAIN deltas |-> <<place[1] + deltas[k][1], place[2] + deltas[k][2]>>],
              LAMBDA adj : adj \in DOMAIN grid)

Gains(grid, adj) == ~IS_FLASHED(grid[adj])

RECURSIVE maybe_flash(_, _)
maybe_flash(grid, place) ==
    IF grid[place] < 10 THEN grid
    ELSE FoldLeft(LAMBDA g, adj : IF Gains(g, adj) THEN maybe_flash([g EXCEPT ![adj] = @ + 1], adj)
                                  ELSE g,
                  [grid EXCEPT ![place] = SET_FLASHED], Adjacent(grid, place))

\* The grid after all have flashed that will, before they are reset.
Flashed(grid) ==
    FoldLeft(LAMBDA g, place : maybe_flash(g, place), [place \in DOMAIN grid |-> grid[place] + 1],
             Places(grid))

do_one_iter(grid) ==
    LET flashed == Flashed(grid)
    IN  [grid |-> [place \in DOMAIN grid |-> IF IS_FLASHED(flashed[place]) THEN 0 ELSE flashed[place]],
         num_flashes |-> Quantify(DOMAIN grid, LAMBDA place : IS_FLASHED(flashed[place]))]

\* The turns from the stepth on: the loop ends when all flash at once, even if
\* that is before the flashes of all Steps are counted.
RECURSIVE Turns(_, _, _)
Turns(grid, step, p1) ==
    LET s       == do_one_iter(grid)
        counted == IF step <= Steps THEN p1 + s.num_flashes ELSE p1
    IN  IF s.num_flashes = Cardinality(DOMAIN grid) THEN [p1 |-> counted, p2 |-> step]
        ELSE Turns(s.grid, step + 1, counted)

day11(grid) == Turns(grid, 1, 0)

===============================================================================
