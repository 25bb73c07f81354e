------------------------------- MODULE MCBTree -------------------------------
(***************************************************************************)
(* TLC instances of BTree.  With MaxItems = 4 a node holds one or two      *)
(* items between calls, so that seven keys build trees three levels high,  *)
(* every deletion rebalances, and finds nodes to merge and nodes to borrow *)
(* from; with MaxItems = 6 the minimum is two, and five keys build leaves  *)
(* that merge.                                                             *)
(***************************************************************************)
EXTENDS BTree
===============================================================================
