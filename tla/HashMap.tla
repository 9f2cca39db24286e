---------------------------- MODULE HashMap ----------------------------
(***************************************************************************)
(* The open-addressing hash map that XDP programs compiled ahead of time   *)
(* keep in their own memory (xdp_progs/includes/hash_map.h): elem_lookup,  *)
(* elem_update, elem_delete and get_elem_count, called in any order, and   *)
(* the store a program makes through the pointer elem_lookup returned,     *)
(* with other calls in between.                                            *)
(*                                                                         *)
(* ref, ret and deleted are history: what the callers stored, the last     *)
(* call, and whether an element was ever deleted.                          *)
(***************************************************************************)
EXTENDS HashProbe, FiniteSets

CONSTANTS
    Values,              \* byte strings of value_size bytes
    ZeroKey, ZeroValue,  \* what a buffer of zeros reads as
    None                 \* no value

ASSUME ZeroAssumption == ZeroKey \in Keys /\ ZeroValue \in Values
ASSUME NoneAssumption == None \notin Values

VARIABLES
    table,    \* data_buffer: bucket -> filled mark, key, value
    ptr,      \* the pointer a caller holds, NumBuckets standing for NULL
    ref,      \* history: what was last stored under a key
    ret,      \* history: the last update or delete, its key, and whether it
              \* returned 1; Quiet after a lookup or a store
    deleted   \* history: some elem_delete returned 1

vars == <<table, ptr, ref, ret, deleted>>

Slot == [filled : BOOLEAN, key : Keys, value : Values]

Quiet == [op |-> "quiet", key |-> ZeroKey, ok |-> FALSE]

TypeOK ==
    /\ table \in [Buckets -> Slot]
    /\ ptr \in [key : Keys, bucket : Buckets \cup {NumBuckets}]
    /\ ref \in [Keys -> Values \cup {None}]
    /\ ret \in [op : {"quiet", "update", "delete"}, key : Keys, ok : BOOLEAN]
    /\ deleted \in BOOLEAN

Init ==
    /\ table = [b \in Buckets |-> [filled |-> FALSE, key |-> ZeroKey, value |-> ZeroValue]]
    /\ ptr = [key |-> ZeroKey, bucket |-> NumBuckets]
    /\ ref = [k \in Keys |-> None]
    /\ ret = Quiet
    /\ deleted = FALSE

---------------------------------------------------------------------------
ElemUpdate_NoKey(t, k, v) == [t EXCEPT ![Probe(t, k)] = [@ EXCEPT !.filled = TRUE, !.value = v]]
ElemUpdate_Home(t, k, v) == [t EXCEPT ![Hash[k]] = [filled |-> TRUE, key |-> k, value |-> v]]

\* elem_update where it does not return 0: the key, the value, set_filled.
ElemUpdate(t, k, v) == [t EXCEPT ![Probe(t, k)] = [filled |-> TRUE, key |-> k, value |-> v]]

ElemDelete_Late(t, k) == [t EXCEPT ![(Probe(t, k) + 1) % NumBuckets].filled = FALSE]

\* elem_delete where it does not return 0: set_empty, the bytes stay.
ElemDelete(t, k) == [t EXCEPT ![Probe(t, k)].filled = FALSE]

GetElemCount(t) == Cardinality({b \in Buckets : t[b].filled})

\* What a caller reads through the pointer elem_lookup returns.
ValueOf(t, k) ==
    IF ElemLookup(t, k) = NumBuckets THEN None ELSE t[ElemLookup(t, k)].value

---------------------------------------------------------------------------
Lookup(k) ==
    /\ ptr' = [key |-> k, bucket |-> ElemLookup(table, k)]
    /\ ret' = Quiet
    /\ UNCHANGED <<table, ref, deleted>>

\* A program writes through the pointer it holds, as the firewall counts.
Store(v) ==
    /\ ptr.bucket # NumBuckets
    /\ table' = [table EXCEPT ![ptr.bucket].value = v]
    /\ ref' = [ref EXCEPT ![ptr.key] = IF @ = None THEN None ELSE v]
    /\ ret' = Quiet
    /\ UNCHANGED <<ptr, deleted>>

Update(k, v) ==
    /\ IF Probe(table, k) = NumBuckets
       THEN UNCHANGED <<table, ref>>
       ELSE /\ table' = ElemUpdate(table, k, v)
            /\ ref' = [ref EXCEPT ![k] = v]
    /\ ret' = [op |-> "update", key |-> k, ok |-> Probe(table, k) # NumBuckets]
    /\ UNCHANGED <<ptr, deleted>>

Delete(k) ==
    /\ IF ElemLookup(table, k) = NumBuckets
       THEN UNCHANGED <<table, deleted>>
       ELSE table' = ElemDelete(table, k) /\ deleted' = TRUE
    /\ ref' = [ref EXCEPT ![k] = None]
    /\ ret' = [op |-> "delete", key |-> k, ok |-> ElemLookup(table, k) # NumBuckets]
    /\ UNCHANGED ptr

Next ==
    \/ \E k \in Keys : Lookup(k) \/ Delete(k)
    \/ \E v \in Values : Store(v)
    \/ \E k \in Keys, v \in Values : Update(k, v)

Spec == Init /\ [][Next]_vars

---------------------------------------------------------------------------
\* As long as nothing was deleted the map is a map: a lookup of any key finds
\* exactly what was last stored under it, by elem_update or through a pointer,
\* whatever collides with what.
FindsStored == ~deleted => \A k \in Keys : ValueOf(table, k) = ref[k]

\* As long as nothing was deleted elements do not move: a pointer returned
\* earlier still is what elem_lookup would return, however many elements were
\* added since.
PointersStay ==
    ~deleted /\ ptr.bucket # NumBuckets => ElemLookup(table, ptr.key) = ptr.bucket

\* As long as nothing was deleted get_elem_count is the number of keys stored:
\* no key occupies two buckets.
CountExact == ~deleted => GetElemCount(table) = Cardinality({k \in Keys : ref[k] # None})

\* Even when deletions have broken probe sequences: a caller that looks up the
\* key it has just updated finds the new value, and finds nothing under the
\* key it has just deleted.
SeesLastCall ==
    /\ ret.op = "update" /\ ret.ok => ValueOf(table, ret.key) = ref[ret.key]
    /\ ret.op = "delete" => ValueOf(table, ret.key) = None

\* elem_update says the map is full only when every bucket is filled, and none
\* of them with its key.
FullWhenFull ==
    ret.op = "update" /\ ~ret.ok =>
        \A b \in Buckets : table[b].filled /\ table[b].key # ret.key

\* What test_hash.c expects of elem_delete: after the deletion of one key the
\* others remain.
OthersRemain ==
    ret.op = "delete" => \A k \in Keys \ {ret.key} : ref[k] # None => ValueOf(table, k) = ref[k]
===========================================================================
