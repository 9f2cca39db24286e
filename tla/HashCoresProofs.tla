------------------------ MODULE HashCoresProofs ------------------------
(***************************************************************************)
(* Proofs about HashCores, for any number of cores and buckets, any length *)
(* of keys and any hash.                                                   *)
(***************************************************************************)
EXTENDS HashCores, TLAPS

Table == [Buckets -> Slot]

-----------------------------------------------------------------------------
(* What the search of HashProbe finds. *)

\* The bucket a loop looks at exists.
LEMMA AtBucket ==
    ASSUME NEW k \in Keys, NEW d \in Buckets
    PROVE  At(k, d) \in Buckets
BY BucketsAssumption, HashAssumption DEF At, Buckets

\* A loop that is not stopped looks at every bucket.
LEMMA AtOnto ==
    ASSUME NEW k \in Keys, NEW b \in Buckets
    PROVE  \E d \in Buckets : At(k, d) = b
<1>1. Hash[k] \in Nat /\ Hash[k] < NumBuckets /\ b \in Nat /\ b < NumBuckets /\ NumBuckets \in Nat
  BY BucketsAssumption, HashAssumption DEF Buckets
<1>2. CASE Hash[k] <= b
  <2>1. b - Hash[k] \in Buckets /\ At(k, b - Hash[k]) = b
    BY <1>1, <1>2 DEF At, Buckets
  <2> QED BY <2>1
<1>3. CASE b < Hash[k]
  <2>1. b - Hash[k] + NumBuckets \in Buckets /\ At(k, b - Hash[k] + NumBuckets) = b
    BY <1>1, <1>3 DEF At, Buckets
  <2> QED BY <2>1
<1> QED BY <1>1, <1>2, <1>3

\* What stopping says about the bucket and the ones before it.
LEMMA ProbeProps ==
    ASSUME NEW t, NEW k \in Keys, Probe(t, k) # NumBuckets
    PROVE  \E d \in Buckets :
              /\ Probe(t, k) = At(k, d)
              /\ ~t[At(k, d)].filled \/ t[At(k, d)].key = k
              /\ \A e \in Buckets : e < d => t[At(k, e)].filled /\ t[At(k, e)].key # k
<1> DEFINE d == CHOOSE d \in Buckets : StopsFirst(t, k, d)
<1>1. Probe(t, k) = At(k, d) /\ d \in Buckets /\ StopsFirst(t, k, d)
  BY DEF Probe
<1> HIDE DEF d
<1> QED BY <1>1, Zenon DEF StopsFirst, Stops

\* The converse: where a loop stops is determined by these facts.
LEMMA ProbeIs ==
    ASSUME NEW t, NEW k \in Keys, NEW d \in Buckets,
           ~t[At(k, d)].filled \/ t[At(k, d)].key = k,
           \A e \in Buckets : e < d => t[At(k, e)].filled /\ t[At(k, e)].key # k
    PROVE  Probe(t, k) = At(k, d)
<1>1. StopsFirst(t, k, d)
  BY Zenon DEF StopsFirst, Stops
<1>2. ASSUME NEW c \in Buckets, StopsFirst(t, k, c)
      PROVE  c = d
  <2>1. Stops(t, k, c) /\ Stops(t, k, d)
    BY <1>1, <1>2, Zenon DEF StopsFirst
  <2>2. ~(c < d) /\ ~(d < c)
    BY <1>1, <1>2, <2>1, Zenon DEF StopsFirst
  <2>3. c \in Int /\ d \in Int
    BY <1>2, BucketsAssumption DEF Buckets
  <2> QED BY ONLY <2>2, <2>3
<1>3. (CHOOSE c \in Buckets : StopsFirst(t, k, c)) = d
  BY <1>1, <1>2, Zenon
<1> QED BY <1>1, <1>3, Zenon DEF Probe

-----------------------------------------------------------------------------
(* What holds between the steps of the cores. *)

\* A settled bucket still is what it was.
SettledKept == \A b \in Buckets : settled[b].filled => table[b] = settled[b]

\* A core copies over a settled bucket only the key that is there.
OwnsBucket(c) ==
    core[c].pc \in {"copy", "fill"} /\ settled[Index(c)].filled =>
        settled[Index(c)].key = core[c].key

\* What the bytes compared so far say about a settled bucket, and that a key is
\* only compared with that of a filled bucket.
Comparing(c) ==
    core[c].pc = "match" =>
        /\ table[Index(c)].filled
        /\ settled[Index(c)].filled =>
              \A i \in 1..KeySize : i < core[c].byte => settled[Index(c)].key[i] = core[c].key[i]

\* The buckets a loop has passed are filled, and settled ones with other keys.
Passed(c) ==
    core[c].pc \in {"test", "match"} =>
        \A e \in Buckets : e < core[c].turn =>
            /\ table[At(core[c].key, e)].filled
            /\ settled[At(core[c].key, e)].filled => settled[At(core[c].key, e)].key # core[c].key

CoreOK(c) == OwnsBucket(c) /\ Comparing(c) /\ Passed(c)

CoresInv == TypeOK /\ SettledKept /\ \A c \in Cores : CoreOK(c)

---------------------------------------------------------------------------
LEMMA FirstOnes == 0 \in Buckets /\ 1 \in 1..KeySize
BY BucketsAssumption, KeyAssumption DEF Buckets

LEMMA KeysEqual ==
    ASSUME NEW k \in Key, NEW l \in Key, \A i \in 1..KeySize : k[i] = l[i]
    PROVE  k = l
<1>1. k = [i \in 1..KeySize |-> k[i]] /\ l = [i \in 1..KeySize |-> l[i]]
  BY DEF Key
<1>2. [i \in 1..KeySize |-> k[i]] = [i \in 1..KeySize |-> l[i]]
  BY Zenon
<1> QED BY ONLY <1>1, <1>2

LEMMA StartType ==
    ASSUME NEW call \in {"lookup", "update"}, NEW k \in Keys, NEW fresh \in BOOLEAN
    PROVE  Start(call, k, fresh) \in Core
BY FirstOnes DEF Start, Core

LEMMA IdleType == Idle \in Core /\ Idle.pc = "idle"
<1>1. Start("lookup", ZeroKey, FALSE) \in Core
  BY StartType, ZeroAssumption
<1> QED BY <1>1 DEF Idle, Core

LEMMA InitCores == Init => CoresInv
<1> SUFFICES ASSUME Init PROVE CoresInv
  OBVIOUS
<1>1. \A c \in Cores : core[c] = Idle /\ core[c].pc = "idle"
  BY IdleType DEF Init
<1>2. \A c \in Cores : CoreOK(c)
  BY <1>1 DEF CoreOK, OwnsBucket, Comparing, Passed
<1>3. TypeOK
  BY IdleType, ZeroAssumption DEF Init, TypeOK, EmptyTable, Slot
<1>4. SettledKept
  BY DEF Init, SettledKept
<1> QED BY <1>2, <1>3, <1>4 DEF CoresInv

\* What a step of one core must show for the invariant to hold afterwards, when
\* it does not change settled.
LEMMA StepKeeps ==
    ASSUME CoresInv, NEW c \in Cores, NEW st \in Core, core' = [core EXCEPT ![c] = st],
           settled' = settled, table' \in Table, SettledKept', CoreOK(c)',
           \A b \in Buckets : table[b].filled => table'[b].filled
    PROVE  CoresInv'
<1>1. TypeOK'
  BY DEF CoresInv, TypeOK, Table
<1>2. ASSUME NEW o \in Cores, o # c PROVE CoreOK(o)'
  <2>1. core'[o] = core[o] /\ CoreOK(o) /\ core[o] \in Core
    BY <1>2 DEF CoresInv, TypeOK
  <2>2. \A e \in Buckets : At(core[o].key, e) \in Buckets
    BY <2>1, AtBucket DEF Core
  <2>3. Index(o) \in Buckets /\ Index(o)' = Index(o)
    BY <2>1, <2>2 DEF Index, Core
  <2>4. OwnsBucket(o)'
    BY <2>1, <2>3 DEF CoreOK, OwnsBucket
  <2>5. Comparing(o)'
    BY <2>1, <2>3 DEF CoreOK, Comparing
  <2>6. Passed(o)'
    BY <2>1, <2>2 DEF CoreOK, Passed
  <2> QED BY <2>4, <2>5, <2>6 DEF CoreOK
<1> QED BY <1>1, <1>2 DEF CoresInv

\* A step that leaves the table alone.
LEMMA QuietStep ==
    ASSUME CoresInv, NEW c \in Cores, NEW st \in Core, core' = [core EXCEPT ![c] = st],
           UNCHANGED <<table, settled>>, CoreOK(c)'
    PROVE  CoresInv'
<1>1. table' \in Table /\ SettledKept'
  BY DEF CoresInv, TypeOK, Table, SettledKept
<1> QED BY <1>1, StepKeeps

\* A call that starts has passed nothing yet.
LEMMA StartStep ==
    ASSUME CoresInv, NEW c \in Cores, NEW call \in {"lookup", "update"}, NEW k \in Keys,
           NEW fresh \in BOOLEAN, Go(c, Start(call, k, fresh)), UNCHANGED <<table, settled>>
    PROVE  CoresInv'
<1>1. core' = [core EXCEPT ![c] = Start(call, k, fresh)]
  BY DEF Go
<1>2. core'[c] = Start(call, k, fresh)
  BY <1>1 DEF CoresInv, TypeOK
<1>3. core'[c].pc = "test" /\ core'[c].turn = 0
  BY <1>2 DEF Start
<1>4. CoreOK(c)'
  BY <1>3 DEF CoreOK, OwnsBucket, Comparing, Passed, Buckets
<1>5. Start(call, k, fresh) \in Core
  BY StartType
<1> QED BY <1>1, <1>4, <1>5, QuietStep

\* The end of a packet: either settled stays or no core is at work.
LEMMA DoneStep ==
    ASSUME CoresInv, NEW c \in Cores, UpdateReturns(c), table' \in Table,
           \A b \in Buckets : settled[b].filled => table'[b] = settled[b],
           \A b \in Buckets : table[b].filled => table'[b].filled
    PROVE  CoresInv'
<1>1. core' = [core EXCEPT ![c] = Idle] /\ core'[c].pc = "idle"
  BY IdleType DEF UpdateReturns, Go, CoresInv, TypeOK
<1>2. CoreOK(c)'
  BY <1>1 DEF CoreOK, OwnsBucket, Comparing, Passed
<1>3. CASE settled' = settled
  <2>1. SettledKept'
    BY <1>3 DEF SettledKept
  <2> QED BY <1>1, <1>2, <1>3, <2>1, IdleType, StepKeeps
<1>4. CASE settled' = table' /\ \A o \in Cores \ {c} : core[o].pc = "idle"
  <2>1. \A o \in Cores : core'[o].pc = "idle"
    BY <1>1, <1>4 DEF CoresInv, TypeOK
  <2>2. \A o \in Cores : CoreOK(o)'
    BY <2>1 DEF CoreOK, OwnsBucket, Comparing, Passed
  <2>3. TypeOK' /\ SettledKept'
    BY <1>1, <1>4, IdleType DEF CoresInv, TypeOK, SettledKept, Table
  <2> QED BY <2>2, <2>3 DEF CoresInv
<1> QED BY <1>3, <1>4 DEF UpdateReturns

---------------------------------------------------------------------------
LEMMA IndexType ==
    ASSUME CoresInv, NEW c \in Cores
    PROVE  /\ core[c] \in Core
           /\ Index(c) \in Buckets
           /\ table[Index(c)] \in Slot /\ settled[Index(c)] \in Slot
<1>1. core[c] \in Core
  BY DEF CoresInv, TypeOK
<1>2. Index(c) \in Buckets
  BY <1>1, AtBucket DEF Index, Core
<1> QED BY <1>1, <1>2 DEF CoresInv, TypeOK

LEMMA BeginCopyInv ==
    ASSUME CoresInv, NEW c \in Cores, BeginCopy(c),
           settled[Index(c)].filled => settled[Index(c)].key = core[c].key
    PROVE  CoresInv'
<1> DEFINE st == [core[c] EXCEPT !.pc = "copy", !.byte = 1]
<1>1. core[c] \in Core /\ Index(c) \in Buckets
  BY IndexType
<1>2. st \in Core
  BY <1>1, FirstOnes DEF Core
<1>3. core' = [core EXCEPT ![c] = st] /\ core'[c] = st
  BY DEF BeginCopy, Go, CoresInv, TypeOK
<1>4. st.pc = "copy" /\ st.key = core[c].key /\ st.turn = core[c].turn
  BY <1>1 DEF Core
<1>5. Index(c)' = Index(c)
  BY <1>3, <1>4 DEF Index
<1> HIDE DEF st
<1>6. CoreOK(c)'
  BY <1>3, <1>4, <1>5 DEF CoreOK, OwnsBucket, Comparing, Passed, BeginCopy
<1> QED BY <1>2, <1>3, <1>6, QuietStep DEF BeginCopy

LEMMA TestEmptyInv ==
    ASSUME CoresInv, NEW c \in Cores, TestEmpty(c)
    PROVE  CoresInv'
<1>1. Index(c) \in Buckets /\ table[Index(c)] \in Slot /\ settled[Index(c)] \in Slot
  BY IndexType
<1>2. ~settled[Index(c)].filled
  BY <1>1 DEF TestEmpty, CoresInv, SettledKept
<1>3. CASE LookupReturns(c, TRUE)
  BY <1>3, StartStep DEF LookupReturns
<1>4. CASE BeginCopy(c)
  BY <1>2, <1>4, BeginCopyInv
<1> QED BY <1>3, <1>4 DEF TestEmpty

LEMMA TestFilledInv ==
    ASSUME CoresInv, NEW c \in Cores, TestFilled(c)
    PROVE  CoresInv'
<1> DEFINE st == [core[c] EXCEPT !.pc = "match", !.byte = 1]
<1>1. core[c] \in Core /\ Index(c) \in Buckets
  BY IndexType
<1>2. st \in Core
  BY <1>1, FirstOnes DEF Core
<1>3. core' = [core EXCEPT ![c] = st] /\ core'[c] = st
  BY DEF TestFilled, Go, CoresInv, TypeOK
<1>4. st.pc = "match" /\ st.byte = 1 /\ st.key = core[c].key /\ st.turn = core[c].turn
  BY <1>1 DEF Core
<1>5. Index(c)' = Index(c)
  BY <1>3, <1>4 DEF Index
<1> HIDE DEF st
<1>6. Comparing(c)' /\ OwnsBucket(c)'
  BY <1>3, <1>4, <1>5, KeyAssumption DEF Comparing, OwnsBucket, TestFilled
<1>7. Passed(c) /\ core[c].pc = "test"
  BY DEF CoresInv, CoreOK, TestFilled
<1>8. Passed(c)'
  BY <1>3, <1>4, <1>7 DEF Passed, TestFilled
<1>9. CoreOK(c)'
  BY <1>6, <1>8 DEF CoreOK
<1> QED BY <1>2, <1>3, <1>9, QuietStep DEF TestFilled

\* All bytes are equal: so are the keys.
LEMMA MatchByteInv ==
    ASSUME CoresInv, NEW c \in Cores, MatchByte(c)
    PROVE  CoresInv'
<1>1. core[c] \in Core /\ Index(c) \in Buckets /\ settled[Index(c)] \in Slot
  BY IndexType
<1>2. core[c].pc = "match" /\ Comparing(c) /\ Passed(c)
      /\ table[Index(c)].key[core[c].byte] = core[c].key[core[c].byte]
  BY DEF MatchByte, CoresInv, CoreOK
<1>3. settled[Index(c)].filled =>
        \A i \in 1..KeySize : i <= core[c].byte => settled[Index(c)].key[i] = core[c].key[i]
  <2> SUFFICES ASSUME settled[Index(c)].filled, NEW i \in 1..KeySize, i <= core[c].byte
               PROVE  settled[Index(c)].key[i] = core[c].key[i]
    OBVIOUS
  <2>1. table[Index(c)] = settled[Index(c)]
    BY <1>1 DEF CoresInv, SettledKept
  <2>2. core[c].byte \in Int /\ i \in Int
    BY <1>1, KeyAssumption DEF Core
  <2>3. CASE i < core[c].byte
    BY <1>2, <2>3 DEF Comparing
  <2>4. CASE i = core[c].byte
    BY <1>2, <2>1, <2>4
  <2> QED BY <2>2, <2>3, <2>4
<1>4. CASE core[c].byte < KeySize /\ Go(c, [core[c] EXCEPT !.byte = @ + 1])
           /\ UNCHANGED <<table, settled>>
  <2> DEFINE st == [core[c] EXCEPT !.byte = @ + 1]
  <2>1. st \in Core /\ st.pc = "match" /\ st.key = core[c].key /\ st.turn = core[c].turn
        /\ st.byte = core[c].byte + 1
    BY <1>1, <1>2, <1>4, KeyAssumption DEF Core
  <2>2. core' = [core EXCEPT ![c] = st] /\ core'[c] = st
    BY <1>4 DEF Go, CoresInv, TypeOK
  <2> HIDE DEF st
  <2>3. Index(c)' = Index(c)
    BY <2>1, <2>2 DEF Index
  <2>4. \A i \in 1..KeySize : i < core[c].byte + 1 => i <= core[c].byte
    BY <1>1, KeyAssumption DEF Core
  <2>5. Comparing(c)'
    BY <1>2, <1>3, <1>4, <2>1, <2>2, <2>3, <2>4 DEF Comparing
  <2>6. OwnsBucket(c)' /\ Passed(c)'
    BY <1>2, <1>4, <2>1, <2>2 DEF OwnsBucket, Passed
  <2>7. CoreOK(c)'
    BY <2>5, <2>6 DEF CoreOK
  <2> QED BY <1>4, <2>1, <2>2, <2>7, QuietStep
<1>5. CASE LookupReturns(c, FALSE)
  BY <1>5, StartStep DEF LookupReturns
<1>6. CASE core[c].byte = KeySize /\ BeginCopy(c)
  <2>1. settled[Index(c)].filled => settled[Index(c)].key = core[c].key
    <3> SUFFICES ASSUME settled[Index(c)].filled PROVE settled[Index(c)].key = core[c].key
      OBVIOUS
    <3>1. \A i \in 1..KeySize : settled[Index(c)].key[i] = core[c].key[i]
      BY <1>3, <1>6, KeyAssumption
    <3>2. settled[Index(c)].key \in Key /\ core[c].key \in Key
      BY <1>1, KeyAssumption DEF Core, Slot
    <3> QED BY ONLY <3>1, <3>2, KeysEqual
  <2> QED BY <1>6, <2>1, BeginCopyInv
<1> QED BY <1>4, <1>5, <1>6 DEF MatchByte

\* The bucket compared is filled, and if it is settled its key is another.
LEMMA MismatchProps ==
    ASSUME CoresInv, NEW c \in Cores, Mismatch(c)
    PROVE  \A e \in Buckets : e < core[c].turn + 1 =>
              /\ table[At(core[c].key, e)].filled
              /\ settled[At(core[c].key, e)].filled => settled[At(core[c].key, e)].key # core[c].key
<1> SUFFICES ASSUME NEW e \in Buckets, e < core[c].turn + 1
             PROVE  /\ table[At(core[c].key, e)].filled
                    /\ settled[At(core[c].key, e)].filled =>
                          settled[At(core[c].key, e)].key # core[c].key
  OBVIOUS
<1>1. core[c] \in Core /\ Index(c) \in Buckets
  BY IndexType
<1>2. core[c].pc = "match" /\ Comparing(c) /\ Passed(c)
  BY DEF Mismatch, CoresInv, CoreOK
<1>3. CASE e < core[c].turn
  BY <1>2, <1>3 DEF Passed
<1>4. CASE e = core[c].turn
  <2>1. At(core[c].key, e) = Index(c)
    BY <1>4 DEF Index
  <2>2. settled[Index(c)].filled => table[Index(c)] = settled[Index(c)]
    BY <1>1 DEF CoresInv, SettledKept
  <2> QED BY <1>2, <2>1, <2>2 DEF Comparing, Mismatch
<1>5. e \in Int /\ core[c].turn \in Int
  BY <1>1, BucketsAssumption DEF Core, Buckets
<1> QED BY <1>3, <1>4, <1>5

LEMMA MismatchByteInv ==
    ASSUME CoresInv, NEW c \in Cores, MismatchByte(c)
    PROVE  CoresInv'
<1>1. core[c] \in Core
  BY IndexType
<1>2. CASE core[c].turn + 1 < NumBuckets
           /\ Go(c, [core[c] EXCEPT !.pc = "test", !.byte = 1, !.turn = @ + 1])
           /\ UNCHANGED <<table, settled>>
  <2> DEFINE st == [core[c] EXCEPT !.pc = "test", !.byte = 1, !.turn = @ + 1]
  <2>1. st \in Core /\ st.pc = "test" /\ st.key = core[c].key /\ st.turn = core[c].turn + 1
    <3>1. core[c].turn + 1 \in Buckets
      BY <1>1, <1>2, BucketsAssumption DEF Core, Buckets
    <3> QED BY <1>1, <3>1, FirstOnes DEF Core
  <2>2. core' = [core EXCEPT ![c] = st] /\ core'[c] = st
    BY <1>2 DEF Go, CoresInv, TypeOK
  <2> HIDE DEF st
  <2>3. Passed(c)'
    BY <1>2, <2>1, <2>2, MismatchProps DEF Passed, MismatchByte
  <2>4. CoreOK(c)'
    BY <2>1, <2>2, <2>3 DEF CoreOK, OwnsBucket, Comparing
  <2> QED BY <1>2, <2>1, <2>2, <2>4, QuietStep
<1>3. CASE LookupReturns(c, TRUE)
  BY <1>3, StartStep DEF LookupReturns
<1>4. CASE UNCHANGED table /\ UpdateReturns(c)
  BY <1>4, DoneStep DEF CoresInv, TypeOK, SettledKept, Table
<1> QED BY <1>2, <1>3, <1>4 DEF MismatchByte

LEMMA CopyByteInv ==
    ASSUME CoresInv, NEW c \in Cores, CopyByte(c)
    PROVE  CoresInv'
<1> DEFINE b == Index(c)
           i == core[c].byte
<1>1. core[c] \in Core /\ b \in Buckets /\ table[b] \in Slot /\ settled[b] \in Slot
  BY IndexType
<1>2. core[c].pc = "copy" /\ OwnsBucket(c)
  BY DEF CopyByte, CoresInv, CoreOK
<1>3. table' = [table EXCEPT ![b].key[i] = core[c].key[i]]
  BY DEF CopyByte
<1>4. i \in 1..KeySize /\ core[c].key \in Key /\ table[b].key \in Key
  BY <1>1, KeyAssumption DEF Core, Slot
<1>5. [table[b].key EXCEPT ![i] = core[c].key[i]] \in Key
  BY <1>4 DEF Key
<1>6. /\ table' \in Table
      /\ \A a \in Buckets : a # b => table'[a] = table[a]
      /\ table'[b].filled = table[b].filled
      /\ table'[b] = [filled |-> table[b].filled, key |-> [table[b].key EXCEPT ![i] = core[c].key[i]]]
  BY <1>1, <1>3, <1>5, KeyAssumption DEF CoresInv, TypeOK, Table, Slot
<1>7. settled[b].filled => table'[b] = settled[b]
  <2> SUFFICES ASSUME settled[b].filled PROVE table'[b] = settled[b]
    OBVIOUS
  <2>1. table[b] = settled[b] /\ settled[b].key = core[c].key
    BY <1>1, <1>2 DEF CoresInv, SettledKept, OwnsBucket
  <2>2. [table[b].key EXCEPT ![i] = core[c].key[i]] = table[b].key
    BY <1>4, <2>1 DEF Key
  <2> QED BY <1>1, <1>6, <2>1, <2>2 DEF Slot
<1>8. settled' = settled
  BY DEF CopyByte
<1>9. SettledKept'
  BY <1>6, <1>7, <1>8 DEF CoresInv, SettledKept
<1>10. PICK st \in Core : /\ core' = [core EXCEPT ![c] = st]
                          /\ st.pc \in {"copy", "fill"}
                          /\ st.key = core[c].key /\ st.turn = core[c].turn
  <2>1. CASE i < KeySize /\ Go(c, [core[c] EXCEPT !.byte = @ + 1])
    <3>1. [core[c] EXCEPT !.byte = @ + 1] \in Core
      BY <1>1, <2>1, KeyAssumption DEF Core
    <3> QED BY <1>1, <1>2, <2>1, <3>1 DEF Go, Core
  <2>2. CASE Go(c, [core[c] EXCEPT !.pc = "fill"])
    <3>1. [core[c] EXCEPT !.pc = "fill"] \in Core
      BY <1>1 DEF Core
    <3> QED BY <1>1, <1>2, <2>2, <3>1 DEF Go, Core
  <2> QED BY <2>1, <2>2 DEF CopyByte
<1>11. core'[c] = st
  BY <1>10 DEF CoresInv, TypeOK
<1>12. Index(c)' = Index(c)
  BY <1>10, <1>11 DEF Index
<1>13. CoreOK(c)'
  BY <1>2, <1>8, <1>10, <1>11, <1>12 DEF CoreOK, OwnsBucket, Comparing, Passed
<1>14. \A a \in Buckets : table[a].filled => table'[a].filled
  BY <1>6
<1> QED BY <1>6, <1>8, <1>9, <1>10, <1>13, <1>14, StepKeeps

LEMMA SetFilledInv ==
    ASSUME CoresInv, NEW c \in Cores, SetFilled(c)
    PROVE  CoresInv'
<1>1. Index(c) \in Buckets /\ table[Index(c)] \in Slot
  BY IndexType
<1>2. table' = [table EXCEPT ![Index(c)].filled = TRUE] /\ UpdateReturns(c)
  BY DEF SetFilled
<1>3. table' \in Table /\ \A b \in Buckets : table[b].filled => table'[b] = table[b]
  BY <1>1, <1>2 DEF CoresInv, TypeOK, Table, Slot
<1>4. \A b \in Buckets : table[b].filled => table'[b].filled
  BY <1>3
<1>5. \A b \in Buckets : settled[b].filled => table'[b] = settled[b]
  BY <1>3 DEF CoresInv, SettledKept
<1> QED BY <1>2, <1>3, <1>4, <1>5, DoneStep

\* The invariant is inductive.
THEOREM CoresInvariant == Spec => []CoresInv
<1>1. CoresInv /\ [Next]_vars => CoresInv'
  <2> SUFFICES ASSUME CoresInv, [Next]_vars PROVE CoresInv'
    OBVIOUS
  <2>1. CASE UNCHANGED vars
    BY <2>1 DEF vars, CoresInv, TypeOK, SettledKept, CoreOK, OwnsBucket, Comparing, Passed, Index
  <2>2. ASSUME NEW c \in Cores, Receive(c) PROVE CoresInv'
    BY <2>2, StartStep DEF Receive
  <2>3. ASSUME NEW c \in Cores, Step(c) PROVE CoresInv'
    BY <2>3, TestEmptyInv, TestFilledInv, MatchByteInv, MismatchByteInv, CopyByteInv, SetFilledInv
       DEF Step
  <2> QED BY <2>1, <2>2, <2>3 DEF Next
<1> QED BY <1>1, InitCores, PTL DEF Spec

---------------------------------------------------------------------------
\* Where a core is after a step.
LEMMA GoTo ==
    ASSUME TypeOK, NEW c \in Cores, NEW st, Go(c, st)
    PROVE  core'[c] = st
BY DEF Go, TypeOK

\* After a comparison that did not fail.
LEMMA MatchGoes ==
    ASSUME TypeOK, NEW c \in Cores, MatchByte(c)
    PROVE  /\ core'[c].pc # "idle"
           /\ core[c].call = "lookup" /\ core'[c].call = "update" => ~core'[c].fresh
<1>1. core[c] \in Core
  BY DEF TypeOK
<1>2. CASE Go(c, [core[c] EXCEPT !.byte = @ + 1])
  BY <1>1, <1>2, GoTo DEF MatchByte, Core
<1>3. CASE LookupReturns(c, FALSE)
  <2>1. PICK k \in Keys : Go(c, Start("update", k, FALSE))
    BY <1>3 DEF LookupReturns
  <2> QED BY <2>1, GoTo DEF Start
<1>4. CASE core[c].call = "update" /\ BeginCopy(c)
  BY <1>1, <1>4, GoTo DEF BeginCopy, Core
<1> QED BY <1>2, <1>3, <1>4 DEF MatchByte

\* A key that elem_lookup would find in the settled table: where, and what is
\* on the way.
LEMMA FoundProps ==
    ASSUME NEW k \in Keys, ElemLookup(settled, k) # NumBuckets
    PROVE  \E d \in Buckets :
              /\ ElemLookup(settled, k) = At(k, d)
              /\ settled[At(k, d)].filled /\ settled[At(k, d)].key = k
              /\ \A e \in Buckets : e < d => settled[At(k, e)].filled /\ settled[At(k, e)].key # k
<1>1. /\ Probe(settled, k) # NumBuckets
      /\ settled[Probe(settled, k)].filled
      /\ ElemLookup(settled, k) = Probe(settled, k)
  BY DEF ElemLookup
<1>2. PICK d \in Buckets :
        /\ Probe(settled, k) = At(k, d)
        /\ ~settled[At(k, d)].filled \/ settled[At(k, d)].key = k
        /\ \A e \in Buckets : e < d => settled[At(k, e)].filled /\ settled[At(k, e)].key # k
  BY <1>1, ProbeProps
<1> QED BY <1>1, <1>2, Zenon

\* Keys that were found when the cores were at rest stay where they are found,
\* for any number of cores, buckets and bytes in a key.
THEOREM SettledKeysStay == Spec => []SettledStay
<1>1. CoresInv => SettledStay
  <2> SUFFICES ASSUME CoresInv, NEW k \in Keys, ElemLookup(settled, k) # NumBuckets
               PROVE  ElemLookup(table, k) = ElemLookup(settled, k)
    BY DEF SettledStay
  <2>1. PICK d \in Buckets :
              /\ ElemLookup(settled, k) = At(k, d)
              /\ settled[At(k, d)].filled /\ settled[At(k, d)].key = k
              /\ \A e \in Buckets : e < d => settled[At(k, e)].filled /\ settled[At(k, e)].key # k
    BY FoundProps
  <2>2. \A e \in Buckets : settled[At(k, e)].filled => table[At(k, e)] = settled[At(k, e)]
    BY AtBucket DEF CoresInv, SettledKept
  <2>3. Probe(table, k) = At(k, d)
    BY <2>1, <2>2, ProbeIs
  <2>4. At(k, d) # NumBuckets
    BY AtBucket, BucketsAssumption DEF Buckets
  <2> QED BY <2>1, <2>2, <2>3, <2>4 DEF ElemLookup
<1> QED BY <1>1, CoresInvariant, PTL

\* A lookup on one core does not miss a settled key, whatever the others are
\* writing meanwhile.
THEOREM SettledKeysFound == Spec => SettledNotMissed
<1>1. CoresInv /\ [Next]_vars =>
        [\A c \in Cores :
           core[c].call = "lookup" /\ core[c].pc # "idle"
           /\ core'[c].call = "update" /\ core'[c].fresh
           => ElemLookup(settled, core[c].key) = NumBuckets]_vars
  <2> SUFFICES ASSUME CoresInv, Next, NEW c \in Cores,
                      core[c].call = "lookup", core[c].pc # "idle",
                      core'[c].call = "update", core'[c].fresh,
                      ElemLookup(settled, core[c].key) # NumBuckets
               PROVE  FALSE
    BY DEF vars
  <2> DEFINE k == core[c].key
  <2>1. core[c] \in Core /\ k \in Keys /\ core[c].turn \in Buckets
    BY DEF CoresInv, TypeOK, Core
  <2>2. PICK d \in Buckets :
              /\ settled[At(k, d)].filled /\ settled[At(k, d)].key = k
              /\ \A e \in Buckets : e < d => settled[At(k, e)].filled /\ settled[At(k, e)].key # k
    BY <2>1, FoundProps
  <2>3. d \in Int /\ core[c].turn \in Int /\ d < NumBuckets /\ NumBuckets \in Int
    BY <2>1, BucketsAssumption DEF Buckets
  <2>4. CASE TestEmpty(c)
    <3>1. Passed(c) /\ core[c].pc = "test" /\ ~table[At(k, core[c].turn)].filled
      BY <2>4 DEF TestEmpty, Index, CoresInv, CoreOK
    <3>2. \A e \in Buckets : settled[At(k, e)].filled => table[At(k, e)] = settled[At(k, e)]
      BY <2>1, AtBucket DEF CoresInv, SettledKept
    <3>3. ~(d < core[c].turn)
      BY <2>2, <3>1 DEF Passed
    <3>4. ~(core[c].turn < d)
      BY <2>1, <2>2, <3>1, <3>2
    <3>5. core[c].turn # d
      BY <2>2, <3>1, <3>2
    <3> QED BY <2>3, <3>3, <3>4, <3>5
  <2>5. CASE MismatchByte(c)
    <3>1. core[c].turn + 1 = NumBuckets
      BY <2>1, <2>5 DEF MismatchByte, Go, CoresInv, TypeOK, Core
    <3>2. d < core[c].turn + 1
      BY <2>3, <3>1
    <3> QED BY <2>2, <2>5, <3>2, MismatchProps DEF MismatchByte
  <2>6. CASE MatchByte(c)
    BY <2>6, MatchGoes DEF CoresInv
  <2>7. CASE Receive(c) \/ TestFilled(c) \/ CopyByte(c) \/ SetFilled(c)
    <3>1. CASE Receive(c)
      BY <3>1 DEF Receive
    <3>2. CASE TestFilled(c)
      BY <2>1, <3>2, GoTo DEF TestFilled, CoresInv, Core
    <3>3. CASE CopyByte(c)
      BY <2>1, <3>3, GoTo DEF CopyByte, CoresInv, Core
    <3>4. CASE SetFilled(c)
      BY <3>4, GoTo DEF SetFilled, UpdateReturns, CoresInv, Idle, Start
    <3> QED BY <2>7, <3>1, <3>2, <3>3, <3>4
  <2>8. ASSUME NEW o \in Cores, o # c, Receive(o) \/ Step(o) PROVE FALSE
    <3>1. core'[c] = core[c]
      BY <2>8 DEF Receive, Step, TestEmpty, TestFilled, MatchByte, MismatchByte, CopyByte,
           SetFilled, LookupReturns, UpdateReturns, BeginCopy, Go, CoresInv, TypeOK
    <3> QED BY <3>1
  <2> QED BY <2>4, <2>5, <2>6, <2>7, <2>8 DEF Next, Step
<1> QED BY <1>1, CoresInvariant, PTL DEF Spec, SettledNotMissed

\* An update that returns 0 has found every bucket filled, and they still are.
THEOREM RefusedWhenFull == Spec => GivesUpWhenFull
<1>1. CoresInv /\ [Next]_vars =>
        [\A c \in Cores :
           core[c].pc = "match" /\ core'[c].pc = "idle" => \A b \in Buckets : table[b].filled]_vars
  <2> SUFFICES ASSUME CoresInv, Next, NEW c \in Cores,
                      core[c].pc = "match", core'[c].pc = "idle", NEW b \in Buckets
               PROVE  table[b].filled
    BY DEF vars
  <2>1. core[c] \in Core /\ core[c].key \in Keys /\ core[c].turn \in Int
    BY BucketsAssumption DEF CoresInv, TypeOK, Core, Buckets
  <2>2. CASE MismatchByte(c)
    <3>1. core[c].turn + 1 = NumBuckets
      BY <2>1, <2>2 DEF MismatchByte, Go, CoresInv, TypeOK, Core
    <3>2. PICK d \in Buckets : At(core[c].key, d) = b
      BY <2>1, AtOnto
    <3>3. d < core[c].turn + 1
      BY <3>1, BucketsAssumption DEF Buckets
    <3> QED BY <2>2, <3>2, <3>3, MismatchProps DEF MismatchByte
  <2>3. CASE MatchByte(c)
    BY <2>3, MatchGoes DEF CoresInv
  <2>4. CASE Receive(c) \/ TestEmpty(c) \/ TestFilled(c) \/ CopyByte(c) \/ SetFilled(c)
    BY <2>4 DEF Receive, TestEmpty, TestFilled, CopyByte, SetFilled
  <2>5. ASSUME NEW o \in Cores, o # c, Receive(o) \/ Step(o) PROVE FALSE
    <3>1. core'[c] = core[c]
      BY <2>5 DEF Receive, Step, TestEmpty, TestFilled, MatchByte, MismatchByte, CopyByte,
           SetFilled, LookupReturns, UpdateReturns, BeginCopy, Go, CoresInv, TypeOK
    <3> QED BY <3>1
  <2> QED BY <2>2, <2>3, <2>4, <2>5 DEF Next, Step
<1> QED BY <1>1, CoresInvariant, PTL DEF Spec, GivesUpWhenFull
===========================================================================
