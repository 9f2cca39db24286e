--------------------------- MODULE HashCores ---------------------------
(***************************************************************************)
(* The program xdp-maps on several cores at once (the lcores of the DPDK   *)
(* build all run it): each packet is counted under its size by a lookup    *)
(* and an update of one hash map (xdp_progs/includes/hash_map.h), which    *)
(* takes no lock.  The loops of elem_lookup and elem_update are modelled   *)
(* memory access by memory access: the test of the filled mark, each byte  *)
(* compared, each byte copied and the store of set_filled are steps.       *)
(*                                                                         *)
(* The map is declared with keys longer than the integer the program       *)
(* passes, so a call also hashes, compares and copies what lies behind it: *)
(* those bytes may be anything, and may differ between two calls.          *)
(*                                                                         *)
(* Values are left out.  They are copied byte by byte too, so two cores    *)
(* that store at once may leave any mixture of their counts behind.        *)
(***************************************************************************)
EXTENDS HashProbe

CONSTANTS
    Cores,
    Bytes,     \* the values of a byte of a key
    KeySize,   \* map->key_size
    SizeLen,   \* how many of these bytes the program sets: sizeof(pkt_sz)
    ZeroKey    \* what a buffer of zeros reads as

Key == [1..KeySize -> Bytes]

ASSUME KeyAssumption == KeySize \in Nat \ {0} /\ SizeLen \in 0..KeySize /\ Keys = Key
ASSUME ZeroAssumption == ZeroKey \in Keys

VARIABLES
    table,     \* data_buffer: bucket -> filled mark, key
    core,      \* what each core is doing
    settled    \* history: the table when last no core was handling a packet

vars == <<table, core, settled>>

Slot == [filled : BOOLEAN, key : Keys]

(***************************************************************************)
(* The state of a core: where it is, in which call, the key it passes, the *)
(* turn of the loop (so that index = At(key, turn)), and the byte it is at.*)
(* fresh says that the last lookup returned 0, so that count is 0.         *)
(***************************************************************************)
Core == [pc : {"idle", "test", "match", "copy", "fill"},
         call : {"lookup", "update"}, key : Keys,
         turn : Buckets, byte : 1..KeySize, fresh : BOOLEAN]

TypeOK ==
    /\ table \in [Buckets -> Slot]
    /\ core \in [Cores -> Core]
    /\ settled \in [Buckets -> Slot]

EmptyTable == [b \in Buckets |-> [filled |-> FALSE, key |-> ZeroKey]]

Start(call, k, fresh) ==
    [pc |-> "test", call |-> call, key |-> k, turn |-> 0, byte |-> 1, fresh |-> fresh]

Idle == [Start("lookup", ZeroKey, FALSE) EXCEPT !.pc = "idle"]

Init ==
    /\ table = EmptyTable
    /\ core = [c \in Cores |-> Idle]
    /\ settled = EmptyTable

---------------------------------------------------------------------------
Index(c) == At(core[c].key, core[c].turn)

\* Two keys the program may pass for packets of one size.
SameSize(k, l) == \A i \in 1..SizeLen : k[i] = l[i]

Go(c, st) == core' = [core EXCEPT ![c] = st]

\* xdp_pass is entered with a packet; the lookup starts at the home bucket.
Receive(c) ==
    /\ core[c].pc = "idle"
    /\ \E k \in Keys : Go(c, Start("lookup", k, FALSE))
    /\ UNCHANGED <<table, settled>>

\* elem_lookup returns: the program goes on to bpf_map_update_elem.
LookupReturns(c, null) ==
    /\ \E k \in Keys : SameSize(k, core[c].key) /\ Go(c, Start("update", k, null))
    /\ UNCHANGED <<table, settled>>

\* elem_update returns and the packet is done; settled is the table as it is
\* now if no other core is handling a packet.
UpdateReturns(c) ==
    /\ Go(c, Idle)
    /\ settled' = IF \A o \in Cores \ {c} : core[o].pc = "idle" THEN table' ELSE settled

BeginCopy(c) ==
    /\ Go(c, [core[c] EXCEPT !.pc = "copy", !.byte = 1])
    /\ UNCHANGED <<table, settled>>

\* is_empty(map, index)
TestEmpty(c) ==
    /\ core[c].pc = "test"
    /\ ~table[Index(c)].filled
    /\ \/ core[c].call = "lookup" /\ LookupReturns(c, TRUE)
       \/ core[c].call = "update" /\ BeginCopy(c)

TestFilled(c) ==
    /\ core[c].pc = "test"
    /\ table[Index(c)].filled
    /\ Go(c, [core[c] EXCEPT !.pc = "match", !.byte = 1])
    /\ UNCHANGED <<table, settled>>

MatchByte_First(c) ==
    /\ core[c].pc = "match"
    /\ table[Index(c)].key[core[c].byte] = core[c].key[core[c].byte]
    /\ \/ core[c].call = "lookup" /\ LookupReturns(c, FALSE)
       \/ core[c].call = "update" /\ BeginCopy(c)

\* elem_key[i] == key[i]; after the last byte the key matches.
MatchByte(c) ==
    /\ core[c].pc = "match"
    /\ table[Index(c)].key[core[c].byte] = core[c].key[core[c].byte]
    /\ \/ /\ core[c].byte < KeySize
          /\ Go(c, [core[c] EXCEPT !.byte = @ + 1])
          /\ UNCHANGED <<table, settled>>
       \/ /\ core[c].byte = KeySize
          /\ \/ core[c].call = "lookup" /\ LookupReturns(c, FALSE)
             \/ core[c].call = "update" /\ BeginCopy(c)

Mismatch(c) ==
    /\ core[c].pc = "match"
    /\ table[Index(c)].key[core[c].byte] # core[c].key[core[c].byte]

MismatchByte_NoProbe(c) ==
    /\ Mismatch(c)
    /\ \/ core[c].call = "lookup" /\ LookupReturns(c, TRUE)
       \/ /\ core[c].call = "update"
          /\ \/ /\ core[c].turn + 1 < NumBuckets
                /\ Go(c, [core[c] EXCEPT !.pc = "test", !.byte = 1, !.turn = @ + 1])
                /\ UNCHANGED <<table, settled>>
             \/ core[c].turn + 1 = NumBuckets /\ UNCHANGED table /\ UpdateReturns(c)

MismatchByte_Twice(c) ==
    /\ Mismatch(c)
    /\ \/ /\ core[c].turn + 2 < NumBuckets
          /\ Go(c, [core[c] EXCEPT !.pc = "test", !.byte = 1, !.turn = @ + 2])
          /\ UNCHANGED <<table, settled>>
       \/ /\ core[c].turn + 2 >= NumBuckets
          /\ \/ core[c].call = "lookup" /\ LookupReturns(c, TRUE)
             \/ core[c].call = "update" /\ UNCHANGED table /\ UpdateReturns(c)

\* elem_key[i] != key[i]: the next bucket, unless it is start_index again.
MismatchByte(c) ==
    /\ Mismatch(c)
    /\ \/ /\ core[c].turn + 1 < NumBuckets
          /\ Go(c, [core[c] EXCEPT !.pc = "test", !.byte = 1, !.turn = @ + 1])
          /\ UNCHANGED <<table, settled>>
       \/ /\ core[c].turn + 1 = NumBuckets
          /\ \/ core[c].call = "lookup" /\ LookupReturns(c, TRUE)
             \/ core[c].call = "update" /\ UNCHANGED table /\ UpdateReturns(c)

\* elem_key[i] = key[i]
CopyByte(c) ==
    /\ core[c].pc = "copy"
    /\ table' = [table EXCEPT ![Index(c)].key[core[c].byte] = core[c].key[core[c].byte]]
    /\ \/ core[c].byte < KeySize /\ Go(c, [core[c] EXCEPT !.byte = @ + 1])
       \/ core[c].byte = KeySize /\ Go(c, [core[c] EXCEPT !.pc = "fill"])
    /\ UNCHANGED settled

\* The value is copied; set_filled(map, index).
SetFilled(c) ==
    /\ core[c].pc = "fill"
    /\ table' = [table EXCEPT ![Index(c)].filled = TRUE]
    /\ UpdateReturns(c)

Step(c) ==
    \/ TestEmpty(c) \/ TestFilled(c) \/ MatchByte(c) \/ MismatchByte(c)
    \/ CopyByte(c) \/ SetFilled(c)

Next == \E c \in Cores : Receive(c) \/ Step(c)

Spec == Init /\ [][Next]_vars

---------------------------------------------------------------------------
\* A key that elem_lookup would find when no core was handling a packet is
\* found in the same bucket ever after, whatever the cores overwrite of each
\* other's insertions: elem_update never touches a settled bucket with another
\* key, not even by the bytes of a half-copied one.
SettledStay ==
    \A k \in Keys : ElemLookup(settled, k) # NumBuckets =>
        ElemLookup(table, k) = ElemLookup(settled, k)

\* elem_lookup, which looks at one bucket after the other while other cores
\* write, does not miss a settled key: its count is not started again at 0.
SettledNotMissed ==
    [][\A c \in Cores :
         core[c].call = "lookup" /\ core[c].pc # "idle"
         /\ core'[c].call = "update" /\ core'[c].fresh
         => ElemLookup(settled, core[c].key) = NumBuckets]_vars

\* elem_update gives a key up only if every bucket is filled, although it saw
\* them one by one.
GivesUpWhenFull ==
    [][\A c \in Cores :
         core[c].pc = "match" /\ core'[c].pc = "idle" => \A b \in Buckets : table[b].filled]_vars
===========================================================================
