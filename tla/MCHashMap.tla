------------------------------ MODULE MCHashMap ------------------------------
(***************************************************************************)
(* Four keys, one more than the first table takes: a and b share a home at *)
(* every capacity, c has a negative hash whose home is the last slot, so   *)
(* that a search past it wraps round, and d shares the home of a and b     *)
(* until the table grows.  Only a is ever given a second value.            *)
(***************************************************************************)
EXTENDS HashMap, TLC

CONSTANTS a, b, c, d, v, w

MCHash == (a :> 0) @@ (b :> 8) @@ (c :> -1) @@ (d :> 4)
MCInserts == {<<a, w>>} \cup {a, b, c, d} \X {v}
===============================================================================
