----------------------------- MODULE SeaCucumbers -----------------------------
(***************************************************************************)
(* What day25 computes: two herds take turns, and in its turn a herd moves *)
(* as one, every cucumber that had a free place ahead of it when the turn  *)
(* began.  The result is the first round in which none moves.              *)
(***************************************************************************)
EXTENDS Integers

CONSTANTS Width, Height

VARIABLES
    at,         \* the places of each herd
    first,      \* the herd that moves first in every round
    turn,       \* the herd that moves next
    moved,      \* a cucumber has moved in this round
    steps,      \* the number of this round
    p1          \* the result, 0 until there is one

Herd  == {">", "v"}
Place == (0 .. Width - 1) \X (0 .. Height - 1)

Other(c) == IF c = ">" THEN "v" ELSE ">"

Ahead(c, p) ==
    IF c = ">" THEN <<(p[1] + 1) % Width, p[2]>> ELSE <<p[1], (p[2] + 1) % Height>>

Blocked(a, c, p) == \E d \in Herd : Ahead(c, p) \in a[d]
Movers(a, c)     == {p \in a[c] : ~Blocked(a, c, p)}

Moved(a, c) ==
    [a EXCEPT ![c] = (a[c] \ Movers(a, c)) \cup {Ahead(c, p) : p \in Movers(a, c)}]

Init ==
    /\ at \in [Herd -> SUBSET Place] /\ at[">"] \cap at["v"] = {}
    /\ first \in Herd /\ turn = first
    /\ moved = FALSE
    /\ steps = 1
    /\ p1 = 0

SomeMove == moved \/ Movers(at, turn) # {}

FirstMoves ==
    /\ p1 = 0 /\ turn = first
    /\ at' = Moved(at, turn)
    /\ moved' = SomeMove
    /\ turn' = Other(turn)
    /\ UNCHANGED <<first, steps, p1>>

SecondMoves ==
    /\ p1 = 0 /\ turn # first
    /\ at' = Moved(at, turn)
    /\ moved' = FALSE
    /\ IF SomeMove THEN /\ turn' = first
                        /\ steps' = steps + 1
                        /\ UNCHANGED p1
       ELSE p1' = steps /\ UNCHANGED <<turn, steps>>
    /\ UNCHANGED first

Next == FirstMoves \/ SecondMoves

Spec == Init /\ [][Next]_<<at, first, turn, moved, steps, p1>>

===============================================================================
