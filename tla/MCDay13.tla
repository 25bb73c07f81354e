------------------------------- MODULE MCDay13 -------------------------------
(***************************************************************************)
(* TLC instances of Day13: inputs of up to four dots, in every order, on a *)
(* paper of 5 x 3 that is folded along x, along y and, in its left half,   *)
(* along x again, in a table of two buckets, that an insertion after a     *)
(* fold can find full.                                                     *)
(***************************************************************************)
EXTENDS Day13

MCInstrs == <<[dir |-> "x", pos |-> 2], [dir |-> "y", pos |-> 1], [dir |-> "x", pos |-> 1]>>
MCSheet  == <<(0 .. 4) \X (0 .. 2), (0 .. 2) \X (0 .. 2), (0 .. 2) \X (0 .. 1),
              (0 .. 1) \X (0 .. 1)>>
MCHash   == [k \in {PACK(d) : d \in Dot} |-> k \div 131072]
===============================================================================
