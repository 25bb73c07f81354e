-------------------------------- MODULE Day25 --------------------------------
(***************************************************************************)
(* src/src/2021/day25.c: a herd moves in two loops over its array, one     *)
(* that looks at the map and collects the moves, one that carries them     *)
(* out.  An element of a herd's array is named by the place find_herd      *)
(* found it at; the loops take the elements in the order of the array.     *)
(*                                                                         *)
(* Line 95 adds the results of two calls of move_herd, and C leaves it to  *)
(* the compiler which of them is made first.                               *)
(***************************************************************************)
EXTENDS Integers, FiniteSets

CONSTANTS Width, Height,    \* 139 and 137; a coord_t holds them in bytes
          MaxSteps          \* bounds steps: some maps never come to rest

ASSUME SizeAssumption ==
    /\ Width \in 1 .. 256 /\ Height \in 1 .. 256
    /\ MaxSteps \in Nat \ {0}

VARIABLES
    buf,        \* the map
    herd,       \* the place of each element of either array
    first,      \* the operand of line 95 that is evaluated first
    turn,       \* the herd that move_herd was called with
    phase,      \* "scan", "move", "done"
    todo,       \* elements the running loop has not come to
    to_move,    \* the moves the first loop has collected
    moves, steps, p1,
    was         \* ghost: herd when move_herd was called

vars == <<buf, herd, first, turn, phase, todo, to_move, moves, steps, p1, was>>

Herd  == {">", "v"}
Place == (0 .. Width - 1) \X (0 .. Height - 1)
Cell  == Herd \cup {"."}

Other(c) == IF c = ">" THEN "v" ELSE ">"

\* move->to in can_move.
To(c, p) ==
    IF c = ">" THEN <<(p[1] + 1) % Width, p[2]>> ELSE <<p[1], (p[2] + 1) % Height>>

\* The array is filled column by column.
Before(p, q) == p[1] < q[1] \/ (p[1] = q[1] /\ p[2] < q[2])
First(S)     == {p \in S : \A q \in S : p = q \/ Before(p, q)}

find_herd(c) == [p \in {q \in Place : buf[q] = c} |-> p]

NoMoves == [e \in {} |-> <<0, 0>>]

Init ==
    /\ buf \in [Place -> Cell]
    /\ herd = [c \in Herd |-> find_herd(c)]
    /\ was = herd
    /\ first \in Herd /\ turn = first
    /\ phase = "scan"
    /\ todo = DOMAIN herd[turn]
    /\ to_move = NoMoves
    /\ moves = 0 /\ steps = 1 /\ p1 = 0

-----------------------------------------------------------------------------
Target(e) == To(turn, herd[turn][e])

\* Mutant: only cucumbers of the same herd are in the way.
LookAtHerdOnly(e) ==
    to_move' = IF buf[Target(e)] # turn
               THEN [f \in DOMAIN to_move \cup {e} |->
                       IF f = e THEN Target(e) ELSE to_move[f]]
               ELSE to_move

\* can_move, and the move it fills in.
Look(e) ==
    to_move' = IF buf[Target(e)] = "."
               THEN [f \in DOMAIN to_move \cup {e} |->
                       IF f = e THEN Target(e) ELSE to_move[f]]
               ELSE to_move

\* Mutant: the first loop moves a cucumber at once.
scan_and_move ==
    /\ phase = "scan"
    /\ \E e \in First(todo) :
          /\ buf' = IF buf[Target(e)] = "."
                    THEN [buf EXCEPT ![herd[turn][e]] = ".", ![Target(e)] = turn] ELSE buf
          /\ herd' = IF buf[Target(e)] = "."
                     THEN [herd EXCEPT ![turn] = [@ EXCEPT ![e] = Target(e)]] ELSE herd
          /\ todo' = todo \ {e}
          /\ Look(e)
    /\ UNCHANGED <<first, turn, phase, moves, steps, p1, was>>

\* One turn of the first loop of move_herd.
scan ==
    /\ phase = "scan"
    /\ \E e \in First(todo) :
          /\ Look(e)
          /\ todo' = todo \ {e}
    /\ UNCHANGED <<buf, herd, first, turn, phase, moves, steps, p1, was>>

scan_ends ==
    /\ phase = "scan" /\ todo = {}
    /\ phase' = "move"
    /\ todo' = DOMAIN to_move
    /\ UNCHANGED <<buf, herd, first, turn, to_move, moves, steps, p1, was>>

\* Mutant: the place that is left is not cleared.
CarryOutLeavingTrace(e) ==
    /\ buf' = [buf EXCEPT ![to_move[e]] = turn]
    /\ herd' = [herd EXCEPT ![turn] = [herd[turn] EXCEPT ![e] = to_move[e]]]

CarryOut(e) ==
    /\ buf' = [buf EXCEPT ![herd[turn][e]] = ".", ![to_move[e]] = turn]
    /\ herd' = [herd EXCEPT ![turn] = [herd[turn] EXCEPT ![e] = to_move[e]]]

\* One turn of the second loop.
move ==
    /\ phase = "move"
    /\ \E e \in First(todo) :
          /\ CarryOut(e)
          /\ todo' = todo \ {e}
    /\ UNCHANGED <<first, turn, phase, to_move, moves, steps, p1, was>>

\* Mutant: only the herd that moved last counts.
TotalOfLast == Cardinality(DOMAIN to_move)

\* The sum of line 95, as far as its operands have been evaluated.
Total == moves + Cardinality(DOMAIN to_move)

\* Mutant: a call goes through the array of the call before.
CallWithOldArray(c) ==
    /\ turn' = c
    /\ phase' = "scan"
    /\ todo' = DOMAIN herd[turn]
    /\ to_move' = NoMoves
    /\ was' = herd

\* The call of move_herd with herd c.
Call(c) ==
    /\ turn' = c
    /\ phase' = "scan"
    /\ todo' = DOMAIN herd[c]
    /\ to_move' = NoMoves
    /\ was' = herd

first_returns ==
    /\ phase = "move" /\ todo = {} /\ turn = first
    /\ moves' = Total
    /\ Call(Other(turn))
    /\ UNCHANGED <<buf, herd, first, steps, p1>>

second_returns ==
    /\ phase = "move" /\ todo = {} /\ turn # first
    /\ Total # 0 /\ steps < MaxSteps
    /\ steps' = steps + 1
    /\ moves' = 0
    /\ Call(first)
    /\ UNCHANGED <<buf, herd, first, p1>>

day25_returns ==
    /\ phase = "move" /\ todo = {} /\ turn # first
    /\ Total = 0
    /\ p1' = steps
    /\ phase' = "done"
    /\ was' = herd
    /\ UNCHANGED <<buf, herd, first, turn, todo, to_move, moves, steps>>

Next == scan \/ scan_ends \/ move \/ first_returns \/ second_returns \/ day25_returns

Spec == Init /\ [][Next]_vars

-----------------------------------------------------------------------------
\* Type invariant; the loops run over the array move_herd was called with.
TypeOK ==
    /\ buf \in [Place -> Cell]
    /\ DOMAIN herd = Herd /\ DOMAIN was = Herd
    /\ \A c \in Herd :
          /\ DOMAIN herd[c] \subseteq Place
          /\ herd[c] \in [DOMAIN herd[c] -> Place]
          /\ was[c] \in [DOMAIN herd[c] -> Place]
    /\ first \in Herd /\ turn \in Herd
    /\ phase \in {"scan", "move", "done"}
    /\ DOMAIN to_move \subseteq DOMAIN herd[turn]
    /\ to_move \in [DOMAIN to_move -> Place]
    /\ todo \subseteq IF phase = "scan" THEN DOMAIN herd[turn] ELSE DOMAIN to_move
    /\ moves \in Nat /\ steps \in 1 .. MaxSteps /\ p1 \in 0 .. MaxSteps

\* The two arrays and the map, which is written apart from them, show the same
\* cucumbers at every step, and no two at one place.
MapAgrees ==
    \A c \in Herd :
        /\ \A e, f \in DOMAIN herd[c] : herd[c][e] = herd[c][f] => e = f
        /\ \A p \in Place : buf[p] = c <=> \E e \in DOMAIN herd[c] : herd[c][e] = p

\* A move that was decided in the first loop can still be made when the second
\* loop comes to it, although others have been made in between.
MovesStayPossible == \A e \in DOMAIN to_move :
    phase = "scan" \/ e \in todo => buf[to_move[e]] = "."

\* day25 returns only when no cucumber of either herd can move.
EndsAtRest ==
    phase = "done" =>
        \A c \in Herd : \A e \in DOMAIN herd[c] : buf[To(c, herd[c][e])] # "."

\* The two loops amount to one step in which the whole herd moves at once.
Places(h) == [c \in Herd |-> {h[c][e] : e \in DOMAIN h[c]}]

S == INSTANCE SeaCucumbers WITH at <- Places(was), moved <- moves # 0

HerdMovesAtOnce == S!Spec

===============================================================================
