--------------------------- MODULE MCHashMap ---------------------------
(***************************************************************************)
(* A small instance of HashMap with keys of two bytes and the hash of the  *)
(* code.  With three buckets the last two keys meet in the last bucket, so *)
(* that probing goes round to the bucket of the first.                     *)
(***************************************************************************)
EXTENDS HashMap

\* The two turns of hash_func's loop; the product stays far below 2^32.
HashFunc(key) == (0 * 31 + key[1]) * 31 + key[2]

MCZeroKey == <<0, 0>>
MCKeys == {MCZeroKey, <<0, 2>>, <<1, 1>>}
MCHash == [key \in MCKeys |-> HashFunc(key) % NumBuckets]
===========================================================================
