--------------------------- MODULE ScanOrderProofs ---------------------------
(***************************************************************************)
(* A scan shows user keys in strictly ascending order and never takes an   *)
(* error back, for every set of keys, values, levels and every bound.      *)
(***************************************************************************)
EXTENDS BitLSMIteratorProofs

------------------------------------------------------------------------------
(* The inductive invariant of OrderedOnce.                                 *)

\* Candidates and the rows of a batch ascend.
BatchesAscend ==
  /\ \A i, j \in DOMAIN cands : i < j => cands[i].key < cands[j].key
  /\ \A i, j \in DOMAIN batch : i < j => batch[i][1] < batch[j][1]

\* latest_user_key_added is the greatest key collected so far.
WithinLatest ==
  /\ \A i \in DOMAIN cands : cands[i].key <= latest_user_key_added
  /\ \A i \in DOMAIN batch : batch[i][1] <= latest_user_key_added
  /\ \A i \in DOMAIN out : out[i][1] <= latest_user_key_added

\* The merge has reached latest_user_key_added, unless nothing was collected and it
\* still is the empty string it starts as.
LatestReached ==
  \/ latest_user_key_added <= pos.key
  \/ DOMAIN cands = {} /\ DOMAIN batch = {} /\ DOMAIN out = {}

\* The client was shown the batch up to batch_cur_idx and nothing beyond it; when the
\* next batch is collected, everything shown is below its candidates.
ShownSoFar ==
  /\ pc \in {"collect", "fetch"} =>
       \A i \in DOMAIN out, j \in DOMAIN cands : out[i][1] < cands[j].key
  /\ pc = "valid" =>
       /\ batch_cur_idx \in DOMAIN batch
       /\ \A i \in DOMAIN out : out[i][1] <= batch[batch_cur_idx][1]

OrderInv == OrderedOnce /\ BatchesAscend /\ WithinLatest /\ LatestReached /\ ShownSoFar

------------------------------------------------------------------------------
(* Lemmas.                                                                 *)

\* Keys, and the positions of the rows that carry them, are numbers.
LEMMA KeyTypes ==
  ASSUME TypeOK
  PROVE  /\ latest_user_key_added \in Int /\ pos.key \in Int /\ pos.seq \in Int
         /\ DOMAIN cands = 1..Len(cands) /\ Len(cands) \in Nat
         /\ DOMAIN batch = 1..Len(batch) /\ Len(batch) \in Nat
         /\ DOMAIN out = 1..Len(out) /\ Len(out) \in Nat
         /\ \A i \in DOMAIN cands : cands[i].key \in Int
         /\ \A i \in DOMAIN batch : batch[i][1] \in Int
         /\ \A i \in DOMAIN out : out[i][1] \in Int
<1>1. Keys \subseteq Int
  BY StoreAssumption
<1>2. cands \in Seq(Candidate) /\ batch \in Seq(Row) /\ out \in Seq(Row)
  BY DEF TypeOK, RowsTypeOK
<1>3. latest_user_key_added \in Int /\ pos.key \in Int /\ pos.seq \in Int
  <2>1. latest_user_key_added \in Keys \cup {EmptyKey}
    BY DEF TypeOK
  <2>2. pos \in [key : Keys \cup {-1}, seq : Nat]
    BY DEF TypeOK
  <2>3. pos.key \in Keys \cup {-1} /\ pos.seq \in Nat
    BY <2>2
  <2>4. Keys \cup {-1} \subseteq Int
    BY <1>1
  <2>5. latest_user_key_added \in Int
    BY <1>1, <2>1 DEF EmptyKey
  <2> QED
    BY <2>3, <2>4, <2>5
<1>4. \A c \in Candidate : c.key \in Int
  BY <1>1 DEF Candidate
<1>5. \A r \in Row : r[1] \in Int
  BY <1>1 DEF Row
<1> QED
  BY <1>2, <1>3, <1>4, <1>5

\* What MultiGet returns for a candidate, and what the merge keeps of it, has its key.
LEMMA VerdictKey ==
  ASSUME NEW i \in DOMAIN cands, NEW r \in Verdict(i)
  PROVE  r[1] = cands[i].key
BY DEF Verdict, MultiGet

\* A step that only forgets rows, and shows none, keeps the order.
LEMMA ForgettingKeepsOrder ==
  ASSUME OrderInv,
         DOMAIN cands' = {} \/ cands' = cands,
         DOMAIN batch' = {} \/ batch' = batch,
         DOMAIN out' = {} \/ out' = out,
         \/ UNCHANGED <<latest_user_key_added, pos>>
         \/ DOMAIN cands' = {} /\ DOMAIN batch' = {} /\ DOMAIN out' = {},
         pc' # "valid" \/ UNCHANGED <<pc, batch, batch_cur_idx, out>>,
         pc' \in {"collect", "fetch"} => DOMAIN cands' = {} \/ pc \in {"collect", "fetch"}
  PROVE  OrderInv'
<1>1. OrderedOnce'
  BY DEF OrderInv, OrderedOnce
<1>2. BatchesAscend'
  BY DEF OrderInv, BatchesAscend
<1>3. WithinLatest'
  BY DEF OrderInv, WithinLatest
<1>4. LatestReached'
  BY DEF OrderInv, LatestReached
<1>5. ShownSoFar'
  BY DEF OrderInv, ShownSoFar
<1> QED
  BY <1>1, <1>2, <1>3, <1>4, <1>5 DEF OrderInv

\* Appending a row of a key above every key shown keeps the rows ascending.
LEMMA AppendAscends ==
  ASSUME NEW s \in Seq(Row), NEW r \in Row,
         \A i, j \in DOMAIN s : i < j => s[i][1] < s[j][1],
         \A i \in DOMAIN s : s[i][1] < r[1]
  PROVE  LET t == Append(s, r)
         IN  /\ \A i, j \in DOMAIN t : i < j => t[i][1] < t[j][1]
             /\ \A i \in DOMAIN t : (i \in DOMAIN s /\ t[i] = s[i]) \/ t[i] = r
<1> DEFINE t == Append(s, r)
<1>1. /\ DOMAIN s = 1..Len(s) /\ Len(s) \in Nat /\ DOMAIN t = 1..(Len(s) + 1)
      /\ \A i \in 1..Len(s) : t[i] = s[i]
      /\ t[Len(s) + 1] = r
  OBVIOUS
<1> HIDE DEF t
<1>2. \A i \in DOMAIN t : (i \in DOMAIN s /\ t[i] = s[i]) \/ (i = Len(s) + 1 /\ t[i] = r)
  BY <1>1
<1>3. \A i, j \in DOMAIN t : i < j => t[i][1] < t[j][1]
  BY <1>1, <1>2
<1> QED
  BY <1>2, <1>3 DEF t

\* A batch made of candidates in their order may be shown: everything shown before
\* lies below it.
LEMMA ShowKeepsOrder ==
  ASSUME TypeOK, OrderInv, pc \in {"collect", "fetch"},
         NEW b \in Seq(Row), b # <<>>, Show(b),
         \A i, j \in DOMAIN b : i < j => b[i][1] < b[j][1],
         \A i \in DOMAIN b : \E k \in DOMAIN cands : b[i][1] = cands[k].key,
         DOMAIN cands' = {}, UNCHANGED <<latest_user_key_added, pos>>
  PROVE  OrderInv'
<1>1. out \in Seq(Row) /\ 1 \in DOMAIN b /\ b[1] \in Row
  BY DEF TypeOK, RowsTypeOK
<1>2. batch' = b /\ batch_cur_idx' = 1 /\ out' = Append(out, b[1]) /\ pc' = "valid"
  BY DEF Show
<1>3. \A i \in DOMAIN out : out[i][1] < b[1][1]
  BY <1>1 DEF OrderInv, ShownSoFar
<1>4. \A i, j \in DOMAIN out : i < j => out[i][1] < out[j][1]
  BY DEF OrderInv, OrderedOnce
<1>5. /\ \A i, j \in DOMAIN out' : i < j => out'[i][1] < out'[j][1]
      /\ \A i \in DOMAIN out' : (i \in DOMAIN out /\ out'[i] = out[i]) \/ out'[i] = b[1]
  BY <1>1, <1>2, <1>3, <1>4, AppendAscends
<1>6. \A i \in DOMAIN b : b[i][1] <= latest_user_key_added
  BY DEF OrderInv, WithinLatest
<1>7. OrderedOnce' /\ BatchesAscend'
  BY <1>2, <1>5 DEF OrderedOnce, BatchesAscend
<1>8. WithinLatest'
  BY <1>1, <1>2, <1>5, <1>6 DEF OrderInv, WithinLatest
<1>9. LatestReached'
  BY <1>1 DEF OrderInv, LatestReached
<1>10. ShownSoFar'
  <2>1. b[1][1] \in Int /\ \A i \in DOMAIN out : out[i][1] \in Int
    BY <1>1, KeyTypes, StoreAssumption DEF Row
  <2>2. \A i \in DOMAIN out' : out'[i][1] <= b[1][1]
    BY <1>3, <1>5, <2>1
  <2> QED
    BY <1>1, <1>2, <2>2 DEF ShownSoFar
<1> QED
  BY <1>7, <1>8, <1>9, <1>10 DEF OrderInv

------------------------------------------------------------------------------
(* The theorems.                                                           *)

\* A step of FetchNextBatch's collection loop keeps the order: rows come in internal
\* key order, so a user key that is not the last one added is above all added.
LEMMA CollectKeepsOrder ==
  ASSUME TypeOK, OrderInv, Collect
  PROVE  OrderInv'
<1>1. PICK c \in Remaining :
        /\ pos' = [key |-> c.key, seq |-> c.seq]
        /\ \/ /\ c.key # latest_user_key_added
              /\ cands' = Append(cands, c)
              /\ latest_user_key_added' = c.key
           \/ /\ c.key = latest_user_key_added
              /\ UNCHANGED <<cands, latest_user_key_added>>
  BY DEF Collect
<1>2. UNCHANGED <<pc, batch, batch_cur_idx, out>> /\ pc = "collect"
  BY DEF Collect, viewVars
<1>3. c \in Candidate /\ c.key \in Int /\ pos.key <= c.key
  <2>1. c \in Candidate
    BY StreamType DEF Remaining
  <2>2. c.key \in Keys
    BY <2>1 DEF Candidate
  <2>3. c.key \in Int
    <3>1. \A k \in Keys : k \in Int
      BY StoreAssumption
    <3> QED
      BY <2>2, <3>1
  <2>4. pos.key < c.key \/ pos.key = c.key
    BY <1>1 DEF Remaining, Before
  <2> QED
    BY <2>1, <2>3, <2>4, KeyTypes
<1>4. pos'.key = c.key
  BY <1>1
<1>5. CASE c.key = latest_user_key_added
  <2>1. UNCHANGED <<cands, latest_user_key_added>>
    BY <1>1, <1>5
  <2>2. latest_user_key_added' <= pos'.key
    BY <1>3, <1>4, <1>5, <2>1
  <2> QED
    BY <1>2, <2>1, <2>2 DEF OrderInv, OrderedOnce, BatchesAscend, WithinLatest,
                            LatestReached, ShownSoFar
<1>6. CASE c.key # latest_user_key_added
  <2>1. cands' = Append(cands, c) /\ latest_user_key_added' = c.key
    BY <1>1, <1>6
  <2>2. /\ \A i \in DOMAIN cands : cands[i].key < c.key
        /\ \A i \in DOMAIN batch : batch[i][1] < c.key
        /\ \A i \in DOMAIN out : out[i][1] < c.key
    BY <1>3, <1>6, KeyTypes DEF OrderInv, WithinLatest, LatestReached
  <2>3. /\ DOMAIN cands' = 1..(Len(cands) + 1)
        /\ \A i \in 1..Len(cands) : cands'[i] = cands[i]
        /\ cands'[Len(cands) + 1] = c
    BY <2>1, <1>3 DEF TypeOK, RowsTypeOK
  <2>4. \A i \in DOMAIN cands' : \/ i \in DOMAIN cands /\ cands'[i] = cands[i]
                                 \/ i = Len(cands) + 1 /\ cands'[i] = c
    BY <2>3, KeyTypes
  <2>5. BatchesAscend'
    <3>1. \A i, j \in DOMAIN cands' : i < j => cands'[i].key < cands'[j].key
      BY <2>2, <2>3, <2>4, KeyTypes DEF OrderInv, BatchesAscend
    <3> QED
      BY <1>2, <3>1 DEF OrderInv, BatchesAscend
  <2>6. WithinLatest'
    <3>1. \A i \in DOMAIN cands' : cands'[i].key <= c.key
      BY <1>3, <2>2, <2>4, KeyTypes
    <3>2. /\ \A i \in DOMAIN batch : batch[i][1] <= c.key
          /\ \A i \in DOMAIN out : out[i][1] <= c.key
      BY <1>3, <2>2, KeyTypes
    <3> QED
      BY <1>2, <2>1, <3>1, <3>2 DEF WithinLatest
  <2>7. LatestReached'
    BY <1>3, <1>4, <2>1 DEF LatestReached
  <2>8. ShownSoFar'
    <3>1. \A i \in DOMAIN out, j \in DOMAIN cands' : out[i][1] < cands'[j].key
      BY <1>2, <2>2, <2>4 DEF OrderInv, ShownSoFar
    <3> QED
      BY <1>2, <3>1 DEF ShownSoFar
  <2> QED
    BY <1>2, <2>5, <2>6, <2>7, <2>8 DEF OrderInv, OrderedOnce
<1> QED
  BY <1>5, <1>6

\* The batch FetchNextBatch hands over as it is, and the one it merges from clean and
\* re-fetched rows, keep the order of the candidates.
LEMMA BatchKeepsOrder ==
  ASSUME TypeOK, OrderInv, HandOver \/ (FetchAndMerge /\ Survivors # {})
  PROVE  OrderInv'
<1>0. /\ cands \in Seq(Candidate)
      /\ \A i, j \in DOMAIN cands : i < j => cands[i].key < cands[j].key
  BY DEF TypeOK, RowsTypeOK, OrderInv, BatchesAscend
<1>1. CASE HandOver
  <2> DEFINE b == [i \in DOMAIN cands |->
                     <<cands[i].key, IF result_mode = "Candidate" THEN NoValue
                                                        ELSE cands[i].val>>]
  <2>1. cands # <<>> /\ Show(b) /\ pc = "collect"
    BY <1>1 DEF HandOver
  <2>2. \A i \in 1..Len(cands) : cands[i] \in Candidate
    BY <1>0
  <2>3. b \in Seq(Row) /\ b # <<>>
    BY <1>0, <2>1, <2>2 DEF Candidate, Row
  <2>4. DOMAIN b = DOMAIN cands /\ \A i \in DOMAIN b : b[i][1] = cands[i].key
    OBVIOUS
  <2>5. DOMAIN cands' = {} /\ UNCHANGED <<latest_user_key_added, pos>>
    BY <1>1 DEF HandOver, mergeVars
  <2> HIDE DEF b
  <2> QED
    BY <1>0, <2>1, <2>3, <2>4, <2>5, ShowKeepsOrder
<1>2. CASE FetchAndMerge /\ Survivors # {}
  <2>1. PICK kept \in InOrder(Survivors) :
          Show([j \in DOMAIN kept |-> CHOOSE r \in Verdict(kept[j]) : TRUE])
    BY <1>2 DEF FetchAndMerge
  <2> DEFINE n == Cardinality(Survivors)
             b == [j \in DOMAIN kept |-> CHOOSE r \in Verdict(kept[j]) : TRUE]
  <2>2. Survivors \in SUBSET (1..Len(cands)) /\ Len(cands) \in Nat
    BY <1>0 DEF Survivors
  <2>3. n \in Nat /\ n # 0
    BY <2>2, <1>2, PositionsFinite, FS_EmptySet
  <2>4. kept \in [1..n -> Survivors] /\ \A i, j \in 1..n : i < j => kept[i] < kept[j]
    BY DEF InOrder
  <2>5. \A j \in 1..n : b[j] \in Verdict(kept[j]) /\ kept[j] \in DOMAIN cands
    BY <2>4 DEF Survivors
  <2>6. \A j \in 1..n : b[j] \in Keys \X Values
    BY <2>5, VerdictType
  <2>7. \A j \in 1..n : b[j][1] = cands[kept[j]].key
    BY <2>5, VerdictKey
  <2>8. b = [j \in 1..n |-> b[j]]
    BY <2>4
  <2>9. Show(b) /\ pc = "fetch"
    BY <2>1, <1>2 DEF FetchAndMerge
  <2>10. DOMAIN cands' = {} /\ UNCHANGED <<latest_user_key_added, pos>>
    BY <1>2 DEF FetchAndMerge, mergeVars
  <2> HIDE DEF n, b
  <2>11. b \in Seq(Row) /\ b # <<>> /\ DOMAIN b = 1..n
    BY <2>3, <2>6, <2>8 DEF Row
  <2>12. \A i, j \in DOMAIN b : i < j => b[i][1] < b[j][1]
    BY <1>0, <2>4, <2>5, <2>7, <2>11
  <2> QED
    BY <2>5, <2>7, <2>9, <2>10, <2>11, <2>12, ShowKeepsOrder
<1> QED
  BY <1>1, <1>2

\* Next() shows the row after the one the client is at, or forgets the batch.
LEMMA NextKeepsOrder ==
  ASSUME TypeOK, OrderInv, Next_
  PROVE  OrderInv'
<1>0. UNCHANGED <<latest_user_key_added, pos>> /\ pc = "valid"
  BY DEF Next_, mergeVars
<1>1. CASE batch_cur_idx < Len(batch)
  <2> DEFINE k == batch_cur_idx
             r == batch[k + 1]
  <2>1. k \in DOMAIN batch /\ k + 1 \in DOMAIN batch /\ k < k + 1
    BY <1>0, <1>1, KeyTypes DEF OrderInv, ShownSoFar
  <2>2. /\ batch_cur_idx' = k + 1 /\ out' = Append(out, r)
        /\ UNCHANGED <<pc, batch, cands>>
    <3>1. ~(batch_cur_idx >= Len(batch))
      BY <1>1, KeyTypes DEF TypeOK
    <3> QED
      BY <3>1, Zenon DEF Next_
  <2>3. out \in Seq(Row) /\ r \in Row
    BY <2>1 DEF TypeOK, RowsTypeOK
  <2>4. batch[k][1] < r[1]
    BY <2>1 DEF OrderInv, BatchesAscend
  <2>5. \A i \in DOMAIN out : out[i][1] <= batch[k][1]
    BY <1>0 DEF OrderInv, ShownSoFar
  <2>6. \A i \in DOMAIN out : out[i][1] < r[1]
    BY <2>1, <2>4, <2>5, KeyTypes
  <2>7. \A i, j \in DOMAIN out : i < j => out[i][1] < out[j][1]
    BY DEF OrderInv, OrderedOnce
  <2>8. /\ \A i, j \in DOMAIN out' : i < j => out'[i][1] < out'[j][1]
        /\ \A i \in DOMAIN out' : (i \in DOMAIN out /\ out'[i] = out[i]) \/ out'[i] = r
    BY <2>2, <2>3, <2>6, <2>7, AppendAscends
  <2>9. OrderedOnce' /\ BatchesAscend' /\ LatestReached'
    BY <1>0, <2>1, <2>2, <2>8 DEF OrderInv, OrderedOnce, BatchesAscend, LatestReached
  <2>10. WithinLatest'
    BY <1>0, <2>1, <2>2, <2>8 DEF OrderInv, WithinLatest
  <2>11. ShownSoFar'
    <3>1. \A i \in DOMAIN out' : out'[i][1] <= r[1]
      BY <2>1, <2>6, <2>8, KeyTypes
    <3> QED
      BY <1>0, <2>1, <2>2, <3>1 DEF ShownSoFar
  <2> QED
    BY <2>9, <2>10, <2>11 DEF OrderInv
<1>2. CASE batch_cur_idx >= Len(batch)
  <2>1. ~(batch_cur_idx < Len(batch))
    BY <1>2, KeyTypes DEF TypeOK
  <2>2. cands' = <<>> /\ batch' = <<>> /\ out' = out /\ pc' = "collect"
    BY <2>1, Zenon DEF Next_
  <2>3. DOMAIN cands' = {} /\ DOMAIN batch' = {}
    BY <2>2
  <2> QED
    BY <1>0, <2>2, <2>3, ForgettingKeepsOrder
<1> QED
  BY <1>1, <1>2, KeyTypes DEF TypeOK

\* Whatever the batches, re-fetches, failures and restarts of a scan, and whatever is
\* written meanwhile, the rows it shows have strictly ascending user keys: no key is
\* shown twice (FetchNextBatch, latest_user_key_added_).
THEOREM RowsAscend == Spec => []OrderedOnce
<1>1. Init => OrderInv
  <2> SUFFICES ASSUME Init PROVE OrderInv
    OBVIOUS
  <2>1. DOMAIN cands = {} /\ DOMAIN batch = {} /\ DOMAIN out = {} /\ pc = "none"
    BY DEF Init, IterInit
  <2> QED
    BY <2>1 DEF OrderInv, OrderedOnce, BatchesAscend, WithinLatest, LatestReached,
                ShownSoFar
<1>2. TypeOK /\ OrderInv /\ [Next]_vars => OrderInv'
  <2> SUFFICES ASSUME TypeOK, OrderInv, [Next]_vars PROVE OrderInv'
    OBVIOUS
  <2>1. CASE UNCHANGED iterVars
    BY <2>1 DEF iterVars, mergeVars, fetchVars, viewVars, OrderInv, OrderedOnce,
                BatchesAscend, WithinLatest, LatestReached, ShownSoFar
  <2>2. CASE AcquireSnapshot \/ PinSuperVersion
    BY <2>2, ForgettingKeepsOrder DEF AcquireSnapshot, PinSuperVersion, mergeVars, fetchVars,
                viewVars
  <2>3. CASE SeekToFirst
    <3>1. cands' = <<>> /\ batch' = <<>> /\ out' = <<>> /\ pc' # "valid"
      BY <2>3 DEF SeekToFirst, MergeFailed
    <3>2. DOMAIN cands' = {} /\ DOMAIN batch' = {} /\ DOMAIN out' = {}
      BY <3>1
    <3> QED
      BY <3>1, <3>2, ForgettingKeepsOrder
  <2>4. CASE CollectFails \/ FetchFails
    <3>1. /\ cands' = <<>> /\ (batch' = <<>> \/ batch' = batch) /\ out' = out
          /\ pc' = "done" /\ UNCHANGED <<latest_user_key_added, pos>>
      BY <2>4 DEF CollectFails, FetchFails, MergeFailed, mergeVars
    <3>2. DOMAIN cands' = {} /\ (DOMAIN batch' = {} \/ batch' = batch)
      BY <3>1
    <3> QED
      BY <3>1, <3>2, ForgettingKeepsOrder
  <2>5. CASE NoCandidates
    BY <2>5, ForgettingKeepsOrder DEF NoCandidates, mergeVars, fetchVars, viewVars
  <2>6. CASE Judge
    <3>1. /\ UNCHANGED <<cands, batch, out, latest_user_key_added, pos>>
          /\ pc = "collect" /\ pc' = "fetch"
      BY <2>6 DEF Judge, mergeVars, viewVars
    <3> QED
      BY <3>1, ForgettingKeepsOrder
  <2>7. CASE FetchAndMerge /\ Survivors = {}
    <3>1. /\ cands' = <<>> /\ UNCHANGED <<batch, out, latest_user_key_added, pos>>
          /\ pc' # "valid"
      BY <2>7 DEF FetchAndMerge, mergeVars
    <3>2. DOMAIN cands' = {}
      BY <3>1
    <3> QED
      BY <3>1, <3>2, ForgettingKeepsOrder
  <2>8. CASE Destroy
    <3>1. cands' = <<>> /\ batch' = <<>> /\ out' = <<>> /\ pc' = "none"
      BY <2>8 DEF Destroy
    <3>2. DOMAIN cands' = {} /\ DOMAIN batch' = {} /\ DOMAIN out' = {}
      BY <3>1
    <3> QED
      BY <3>1, <3>2, ForgettingKeepsOrder
  <2> QED
    BY <2>1, <2>2, <2>3, <2>4, <2>5, <2>6, <2>7, <2>8, CollectKeepsOrder,
       BatchKeepsOrder, NextKeepsOrder DEF Next, Client, Fetching, vars
<1>3. OrderInv => OrderedOnce
  BY DEF OrderInv
<1> QED
  BY <1>1, <1>2, <1>3, TypeCorrect, PTL DEF Spec

\* No step of a scan but its destruction clears an error (status_): an early end is
\* never taken for "no more rows" later, SeekToFirst after a failure included.
THEOREM ErrorsStay == Spec => StatusSticky
<1>1. [Next]_vars => [(status = "error" /\ pc' # "none") => status' = "error"]_vars
  <2> SUFFICES ASSUME Next, status = "error", pc' # "none" PROVE status' = "error"
    OBVIOUS
  <2>1. CASE UNCHANGED iterVars
    BY <2>1 DEF iterVars, viewVars
  <2>2. CASE Client
    <3>1. CASE AcquireSnapshot \/ PinSuperVersion
      BY <3>1 DEF AcquireSnapshot, PinSuperVersion, viewVars
    <3>2. CASE SeekToFirst \/ Next_
      BY <3>2 DEF SeekToFirst, MergeFailed, Next_
    <3>3. CASE Destroy
      BY <3>3 DEF Destroy
    <3> QED
      BY <2>2, <3>1, <3>2, <3>3 DEF Client
  <2>3. CASE Fetching
    <3>1. CASE CollectFails \/ FetchFails
      BY <3>1 DEF CollectFails, FetchFails, MergeFailed
    <3>2. CASE Collect \/ NoCandidates \/ Judge
      BY <3>2 DEF Collect, NoCandidates, Judge, viewVars
    <3>3. CASE HandOver \/ FetchAndMerge
      BY <3>3 DEF HandOver, FetchAndMerge
    <3> QED
      BY <2>3, <3>1, <3>2, <3>3 DEF Fetching
  <2> QED
    BY <2>1, <2>2, <2>3 DEF Next
<1> QED
  BY <1>1, PTL DEF Spec, StatusSticky
==============================================================================
