--------------------------------- MODULE Day12 ---------------------------------
(***************************************************************************)
(* src/src/2021/day12.c.  A graph has for each cave the caves one can go   *)
(* to; small caves have the least numbers, up to last_small, and the end   *)
(* the greatest.                                                           *)
(***************************************************************************)
EXTENDS Integers, SequencesExt

V_start == 0

V_end(graph)          == Max(DOMAIN graph.out)
IS_SMALL(graph, node) == node <= graph.last_small

mark_visited(path, node) == [path EXCEPT ![node] = @ + 1]

allow_small_cave_visit(path, node, part) ==
    \/ path[node] = 0
    \/ part = 2 /\ \A small \in DOMAIN path : path[small] < 2

RECURSIVE find_all_paths(_, _, _, _)
find_all_paths(graph, node, path, part) ==
    LET Continued(newpath) ==
            FoldLeft(LAMBDA n, next : n + find_all_paths(graph, next, newpath, part),
                     0, graph.out[node])
    IN  IF node = V_end(graph) THEN 1
        ELSE IF ~IS_SMALL(graph, node) THEN Continued(path)
        ELSE IF ~allow_small_cave_visit(path, node, part) THEN 0
        ELSE Continued(mark_visited(path, node))

day12(graph) ==
    LET ft == [small \in 0 .. graph.last_small |-> 0]
    IN  [p1 |-> find_all_paths(graph, V_start, ft, 1), p2 |-> find_all_paths(graph, V_start, ft, 2)]

===============================================================================
