--------------------------- MODULE HashProbe ---------------------------
(***************************************************************************)
(* How the hash map of xdp_progs/includes/hash_map.h searches: buckets are *)
(* tried one after the other from the hash of the key on, round the end of *)
(* the table.  A table t is a function from buckets to records that have a *)
(* filled mark and a key.                                                  *)
(***************************************************************************)
EXTENDS Integers

CONSTANTS
    NumBuckets,   \* map->num_buckets
    Keys,         \* byte strings of key_size bytes
    Hash          \* hash_func(key) % num_buckets

ASSUME BucketsAssumption == NumBuckets \in Nat \ {0}
ASSUME HashAssumption == Hash \in [Keys -> 0..(NumBuckets - 1)]

Buckets == 0..(NumBuckets - 1)

\* The bucket d turns of the loop after the first: (index + d) % num_buckets.
At(k, d) == IF Hash[k] + d < NumBuckets THEN Hash[k] + d ELSE Hash[k] + d - NumBuckets

Stops_EmptyOnly(t, k, d) == ~t[At(k, d)].filled

\* The loops of all three operations stop at turn d: the bucket is empty, or it
\* is filled and its key matches.
Stops(t, k, d) == ~t[At(k, d)].filled \/ t[At(k, d)].key = k

\* They have not stopped before.
StopsFirst(t, k, d) == Stops(t, k, d) /\ \A e \in Buckets : e < d => ~Stops(t, k, e)

\* Where the loop stops; NumBuckets when it came back to start_index.
Probe(t, k) ==
    IF \E d \in Buckets : StopsFirst(t, k, d)
    THEN At(k, CHOOSE d \in Buckets : StopsFirst(t, k, d))
    ELSE NumBuckets

\* elem_lookup: a bucket, or NumBuckets for the null pointer.
ElemLookup(t, k) ==
    LET b == Probe(t, k) IN IF b # NumBuckets /\ t[b].filled THEN b ELSE NumBuckets
===========================================================================
