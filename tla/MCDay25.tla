------------------------------- MODULE MCDay25 -------------------------------
(***************************************************************************)
(* TLC instances of Day25: every map of 4 x 2 places, so that a herd of    *)
(* either kind can be blocked, blocked by a cucumber that itself moves     *)
(* away, or go round the edge.                                             *)
(***************************************************************************)
EXTENDS Day25
===============================================================================
