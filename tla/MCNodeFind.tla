------------------------------ MODULE MCNodeFind ------------------------------
(***************************************************************************)
(* TLC instances of NodeFind: nodes of up to five items under keys 1 .. 7, *)
(* hints of a byte that counts to 4, so that indices are truncated too.    *)
(***************************************************************************)
EXTENDS NodeFind
===============================================================================
