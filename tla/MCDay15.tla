------------------------------- MODULE MCDay15 -------------------------------
(***************************************************************************)
(* TLC instances of Day15: two by two copies of maps of 3 x 2 places, the  *)
(* risk going up by one from copy to copy and from 9 back to 1.            *)
(***************************************************************************)
EXTENDS Day15
===============================================================================
