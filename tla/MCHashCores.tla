-------------------------- MODULE MCHashCores --------------------------
(***************************************************************************)
(* Four keys of two bytes, the first of which the program sets, with the   *)
(* hash of the code.  In two buckets they collide in pairs, probing goes   *)
(* round the end, the table fills up, and the bytes of two half-copied     *)
(* keys can make up a third.                                               *)
(***************************************************************************)
EXTENDS HashCores

MCKeys == [1..2 -> {0, 1}]
MCHash == [k \in MCKeys |-> (31 * k[1] + k[2]) % NumBuckets]
MCZeroKey == <<0, 0>>
===========================================================================
