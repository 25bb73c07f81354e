----------------------------- MODULE MCHashTable -----------------------------
(***************************************************************************)
(* TLC instances of HashTable: keys 1, 2 and 3 share bucket 0, which has   *)
(* room for two of them, so that a put can find its bucket full; key 4     *)
(* lives in bucket 1 and a rekeyed entry can end up in the wrong one.      *)
(***************************************************************************)
EXTENDS HashTable

MCHash == [k \in Key |-> IF k = 4 THEN 7 ELSE 2 * k]
===============================================================================
