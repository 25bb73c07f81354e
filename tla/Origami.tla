------------------------------- MODULE Origami -------------------------------
(***************************************************************************)
(* What day13 computes: a set of dots is folded along the lines of Folds,  *)
(* one after the other, and p1 is the number of dots after the first fold. *)
(***************************************************************************)
EXTENDS Integers, FiniteSets, Sequences

CONSTANTS Dot,      \* places <<x, y>> of the paper
          Folds,    \* the instructions: a direction and a position each
          MaxDots   \* most dots of an input

VARIABLES dots, folded, p1

Mirrored(d, f) ==
    CASE f.dir = "x" /\ d[1] > f.pos -> <<2 * f.pos - d[1], d[2]>>
      [] f.dir = "y" /\ d[2] > f.pos -> <<d[1], 2 * f.pos - d[2]>>
      [] OTHER -> d

Init ==
    /\ dots = {}
    /\ folded = 0
    /\ p1 = 0

Read(d) ==
    /\ folded = 0 /\ d \notin dots /\ Cardinality(dots) < MaxDots
    /\ dots' = dots \cup {d}
    /\ UNCHANGED <<folded, p1>>

Fold ==
    /\ dots # {} /\ folded < Len(Folds)
    /\ dots' = {Mirrored(d, Folds[folded + 1]) : d \in dots}
    /\ folded' = folded + 1
    /\ p1' = IF folded = 0 THEN Cardinality(dots') ELSE p1

Next == (\E d \in Dot : Read(d)) \/ Fold

Spec == Init /\ [][Next]_<<dots, folded, p1>>

===============================================================================
