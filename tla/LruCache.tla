---------------------------- MODULE LruCache ----------------------------
(***************************************************************************)
(* The cache behind the LRU maps of the runtime (module/LRUCache11.hpp): a *)
(* list of entries, the one used last in front, and an index from keys to  *)
(* nodes of the list.  A cache is a record of the two; the index is the    *)
(* set of keys it has, its iterators being the nodes with these keys.      *)
(***************************************************************************)
EXTENDS Integers, Sequences, FiniteSets

CONSTANTS
    MaxSize,      \* maxSize_: the number of entries pruning leaves
    Elasticity    \* elasticity_: how many more there may be before

ASSUME SizeAssumption == MaxSize \in Nat \ {0} /\ Elasticity \in Nat

EmptyCache == [keys_ |-> <<>>, cache_ |-> {}]

Node(k, v) == [key |-> k, value |-> v]

Contains(c, k) == k \in c.cache_

\* iter->second: where in the list the entry of a key is.
NodeOf(c, k) == CHOOSE i \in DOMAIN c.keys_ : c.keys_[i].key = k

ValueIn(c, k) == c.keys_[NodeOf(c, k)].value

\* keys_.splice(keys_.begin(), keys_, node i)
Splice(s, i) == [j \in DOMAIN s |-> IF j = 1 THEN s[i] ELSE IF j <= i THEN s[j - 1] ELSE s[j]]

Prune_ListOnly(c) ==
    IF Cardinality(c.cache_) < MaxSize + Elasticity THEN c
    ELSE [c EXCEPT !.keys_ = SubSeq(@, 1, MaxSize)]

\* prune: from the hard limit on entries are popped off the back of the list,
\* and out of the index, until maxSize_ are left.
Prune(c) ==
    IF Cardinality(c.cache_) < MaxSize + Elasticity THEN c
    ELSE [keys_ |-> SubSeq(c.keys_, 1, MaxSize),
          cache_ |-> c.cache_ \ {c.keys_[i].key : i \in MaxSize + 1..Len(c.keys_)}]

\* tryGetRef on a key that is there: its entry goes to the front.
TryGetRef(c, k) == [c EXCEPT !.keys_ = Splice(@, NodeOf(c, k))]

Assign(c, k, v) == [c EXCEPT !.keys_[NodeOf(c, k)].value = v]

Insert(c, k, v) ==
    IF Contains(c, k) THEN TryGetRef(Assign(c, k, v), k)
    ELSE Prune([keys_ |-> <<Node(k, v)>> \o c.keys_, cache_ |-> c.cache_ \cup {k}])

\* The index has exactly the keys of the list, none of which is there twice:
\* an iterator never points to a node that was popped.
InStep(c) ==
    /\ c.cache_ = {c.keys_[i].key : i \in DOMAIN c.keys_}
    /\ \A i, j \in DOMAIN c.keys_ : c.keys_[i].key = c.keys_[j].key => i = j
===========================================================================
