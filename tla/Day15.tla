-------------------------------- MODULE Day15 --------------------------------
(***************************************************************************)
(* src/src/2021/day15.c: the A* search of day15_find over Tiles x Tiles    *)
(* copies of the map, with a B-tree for its queue.  The queue is that of   *)
(* OrderedSet, which BTree implements; an entry that cannot be allocated   *)
(* is lost, because nobody asks btree_oom().                               *)
(***************************************************************************)
EXTENDS Integers, FiniteSets

CONSTANTS Width, Height, Tiles,
          Risks,        \* the digits of the map: 1 .. 9 in the inputs
          Wrap,         \* values of a uint16_t
          MaxLost,      \* bounds the calls of btree_set that fail
          NoItem

ASSUME SizeAssumption ==
    /\ Width \in Nat \ {0} /\ Height \in Nat \ {0} /\ Tiles \in Nat \ {0}
    /\ Risks \subseteq 1 .. 9
    /\ Wrap \in Nat /\ MaxLost \in Nat

VARIABLES
    input,          \* the risk at each place of the map
    gs,             \* the scores; 0 is "none yet"
    queue, ret, oom,
    lost,           \* ghost: how many calls of btree_set have failed
    current,        \* the entry popped last
    i,              \* the next of the four neighbours
    phase           \* "start", "pop", "relax", "done", "crash"

vars == <<input, gs, queue, ret, oom, lost, current, i, phase>>

width  == Width * Tiles
height == Height * Tiles
Place  == (0 .. width - 1) \X (0 .. height - 1)

\* No score leaves a uint16_t: the search keeps to short paths, and when
\* entries can be lost to paths that visit no place twice.
ASSUME WrapAssumption ==
    /\ Wrap > 20 * (width + height)
    /\ MaxLost > 0 => Wrap > 20 * (width * height)

day15_deltas == <<<<-1, 0>>, <<1, 0>>, <<0, 1>>, <<0, -1>>>>

edge_weight(p, map) ==
    LET risk   == map[p[1] % Width, p[2] % Height]
        tile_x == p[1] \div Width
        tile_y == p[2] \div Height
    IN  ((risk + tile_x + tile_y - 1) % 9) + 1

\* Mutant: a bound that is not one.
twice_the_distance(p) == 2 * ((width - 1 - p[1]) + (height - 1 - p[2]))

lower_bound_dist_to_goal(p) == (width - 1 - p[1]) + (height - 1 - p[2])

\* The entries are compared as 64-bit numbers, of which dist is the upper part,
\* then x, then y.
queue_entry(dist, p) ==
    [key |-> (dist * width + p[1]) * height + p[2], dist |-> dist, place |-> p]

Entry == {queue_entry(d, p) : d \in 0 .. Wrap - 1, p \in Place}

Q == INSTANCE OrderedSet WITH Item <- Entry, items <- queue

IsGoal(p) == p = <<width - 1, height - 1>>

Init ==
    /\ input \in [(0 .. Width - 1) \X (0 .. Height - 1) -> Risks]
    /\ gs = [p \in Place |-> 0]
    /\ queue = {} /\ ret = NoItem /\ oom = FALSE /\ lost = 0
    /\ current = NoItem
    /\ i = 1
    /\ phase = "start"

\* btree_set, whose result nobody looks at.
Push(entry) ==
    \/ Q!Set(entry) /\ UNCHANGED lost
    \/ lost < MaxLost /\ Q!OutOfMemory /\ lost' = lost + 1

start ==
    /\ phase = "start"
    /\ Push(queue_entry(lower_bound_dist_to_goal(<<0, 0>>), <<0, 0>>))
    /\ phase' = "pop"
    /\ UNCHANGED <<input, gs, current, i>>

\* Mutant: btree_min instead of btree_pop_min.
pop_leaves ==
    /\ phase = "pop" /\ queue # {}
    /\ ret' = Q!OneOf(Q!Least(queue))
    /\ current' = ret'
    /\ phase' = IF IsGoal(ret'.place) THEN "done" ELSE "relax"
    /\ i' = 1
    /\ UNCHANGED <<input, gs, queue, oom, lost>>

pop ==
    /\ phase = "pop" /\ queue # {}
    /\ Q!PopMin
    /\ current' = ret'
    /\ phase' = IF IsGoal(ret'.place) THEN "done" ELSE "relax"
    /\ i' = 1
    /\ UNCHANGED <<input, gs, lost>>

\* The NULL of btree_pop_min is followed.
pop_nothing ==
    /\ phase = "pop" /\ queue = {}
    /\ phase' = "crash"
    /\ UNCHANGED <<input, gs, queue, ret, oom, lost, current, i>>

Neighbour == <<current.place[1] + day15_deltas[i][1], current.place[2] + day15_deltas[i][2]>>

new_gscore == (gs[current.place] + edge_weight(Neighbour, input)) % Wrap

\* Mutant: only the first path counts.
FirstPath(p) == gs[p] = 0

Beats(p) == new_gscore < IF gs[p] = 0 THEN Wrap - 1 ELSE gs[p]

AfterNeighbour == IF i = 4 THEN phase' = "pop" /\ UNCHANGED i ELSE i' = i + 1 /\ UNCHANGED phase

skip ==
    /\ phase = "relax"
    /\ IF Neighbour \in Place THEN ~Beats(Neighbour) ELSE TRUE
    /\ AfterNeighbour
    /\ UNCHANGED <<input, gs, queue, ret, oom, lost, current>>

relax ==
    /\ phase = "relax"
    /\ IF Neighbour \in Place THEN Beats(Neighbour) ELSE FALSE
    /\ gs' = [gs EXCEPT ![Neighbour] = new_gscore]
    /\ Push(queue_entry((new_gscore + lower_bound_dist_to_goal(Neighbour)) % Wrap, Neighbour))
    /\ AfterNeighbour
    /\ UNCHANGED <<input, current>>

Next == start \/ pop \/ pop_nothing \/ skip \/ relax

Spec == Init /\ [][Next]_vars

FairSpec == Spec /\ WF_vars(Next)

-----------------------------------------------------------------------------
(* The lengths of the shortest paths: when a wave that starts at the upper   *)
(* left and takes the risk of a place to enter it reaches each place.        *)

Start == <<0, 0>>
Goal  == <<width - 1, height - 1>>

Neighbours(p) ==
    {<<p[1] + day15_deltas[d][1], p[2] + day15_deltas[d][2]>> : d \in 1 .. 4} \cap Place

\* The places the wave comes to at time n, given which it reached before, and when.
Fresh(map, n, before) ==
    {p \in Place \ {reached[1] : reached \in before} :
        \E q \in Neighbours(p) : <<q, n - edge_weight(p, map)>> \in before}

Reach(map, n, before) == before \cup {<<p, n>> : p \in Fresh(map, n, before)}

Wave(map) ==
    LET wave[n \in Nat] == IF n = 0 THEN {<<Start, 0>>} ELSE Reach(map, n, wave[n - 1])
    IN  wave

\* By then the wave is everywhere.
Latest == 9 * (width + height - 2)

Shortest(map) == CHOOSE d \in 0 .. Latest : <<Goal, d>> \in Wave(map)[Latest]

-----------------------------------------------------------------------------
\* The distance of the entry with which the goal is popped is the length of a
\* shortest path, although the score of the start is "none yet" and set again.
\* When an entry was lost it may be that of a longer path, but never less.
FindsShortest ==
    phase = "done" =>
        LET shortest == Shortest(input)
        IN  current.dist >= shortest /\ (lost = 0 => current.dist = shortest)

\* Every place with a score either waits in the queue with that score, or has
\* passed it on to all its neighbours, or was lost.
Waits(p)     == queue_entry(gs[p] + lower_bound_dist_to_goal(p), p) \in queue
PassedOn(p)  == \A q \in Neighbours(p) : gs[q] \in 1 .. gs[p] + edge_weight(q, input)
FrontierWaits ==
    phase = "pop" =>
        Cardinality({p \in Place : gs[p] # 0 /\ ~Waits(p) /\ ~PassedOn(p)}) <= lost

\* The search ends, and at the goal: unless one was lost it never runs out of
\* entries before, so that the NULL of btree_pop_min is not followed.
Terminates == <>(phase = "done" \/ (phase = "crash" /\ lost > 0))

===============================================================================
