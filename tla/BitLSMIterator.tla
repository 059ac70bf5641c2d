---------------------------- MODULE BitLSMIterator ----------------------------
(***************************************************************************)
(* One BitLSMIterator scanning a live BitLSMStore (bit_lsm_iterator.cpp,   *)
(* bit_lsm_merging_iterator.cpp, bit_lsm_level_iterator.cpp,               *)
(* bit_lsm_memtable_iterator.cpp, sabi_table_iterator.cpp,                 *)
(* bit_lsm_shadow_check.cpp).                                              *)
(*                                                                         *)
(* The scan holds a snapshot and a SuperVersion, merges the leaves' rows   *)
(* in internal key order into batches of candidates, decides for each      *)
(* candidate whether its scan row is already the answer, re-fetches the    *)
(* others with MultiGet from whatever SuperVersion is current by then, and *)
(* hands the surviving rows to the client.  Writes, flushes, compactions   *)
(* and other snapshots interleave with every one of these steps.           *)
(***************************************************************************)
EXTENDS BitLSMStore, Sequences

CONSTANTS
  Matching,              \* values the query accepts (CompiledQuery::Eval)
  BinHits,               \* values in the bins the query selects
  NoValue,               \* a Candidate-mode row carries no value
  BatchSize,             \* rows per batch (1024 in the code)
  CheckSampleKeys,       \* kCheckSampleKeys (4096)
  MinSkipRatePct,        \* kMinSkipRatePct (25)
  RestartInterval,       \* data block restart interval
  PlainValues,           \* whether the column family has neither a merge operator
                         \* nor blob files: the cases considered
  MaxCheckedKeys,        \* no new seek once this many keys were checked (bound)
  IOErrors,              \* whether reads may fail
  Modes                  \* the result modes clients use

ASSUME IteratorAssumption ==
  /\ Matching \subseteq BinHits
  /\ BinHits \subseteq Values
  /\ NoValue \notin Values
  /\ BatchSize \in Nat \ {0}
  /\ CheckSampleKeys \in Nat
  /\ MinSkipRatePct \in Nat
  /\ RestartInterval \in Nat \ {0}
  /\ MaxCheckedKeys \in Nat
  /\ PlainValues \subseteq BOOLEAN
  /\ IOErrors \in BOOLEAN
  /\ Modes \subseteq {"Verified", "Candidate"}

VARIABLES
  pc,             \* where the client and the scan are
  result_mode,
  snapshot,       \* sequence number of snapshot_
  snapshot_owned,
  sv,             \* the pinned SuperVersion
  authoritative_scan,
  check_enabled,
  checked_keys,
  skipped_keys,
  smi_ok,         \* the merging iterator's sticky status
  pos,            \* internal key the merge last passed
  latest_user_key_added,
  cands,          \* candidate_keys_, _values_, _seqnos_, ... as records
  dirty,          \* dirty_idx_
  batch,          \* batch_keys_ and batch_values_
  batch_cur_idx,
  status,         \* "ok" or "error"
  out             \* rows shown to the client since SeekToFirst (history)

ctorVars  == <<result_mode, snapshot, snapshot_owned, sv, authoritative_scan>>
checkVars == <<check_enabled, checked_keys, skipped_keys>>
mergeVars == <<smi_ok, pos, latest_user_key_added>>
fetchVars == <<cands, dirty>>
viewVars  == <<batch, batch_cur_idx, status, out>>
iterVars  == <<pc, ctorVars, checkVars, mergeVars, fetchVars, viewVars>>
vars      == <<storeVars, iterVars>>

EmptyKey == 0
AtStart  == [key |-> -1, seq |-> 0]
NoSV     == [mem |-> 1, imm |-> {}, l0 |-> {}, lv |-> [n \in Levels |-> {}]]

Idle == {"ready", "valid", "done"}     \* the client has control
Open == Idle \cup {"snapped", "collect", "fetch"}

\* Mutant: the iterator reads at a sequence number without holding a snapshot.
HeldSnapshots_NotOwn == callerSnaps

\* Sequence numbers some snapshot protects from flushes and compactions.
HeldSnapshots ==
  callerSnaps \cup IF pc \in Open /\ snapshot_owned THEN {snapshot} ELSE {}

------------------------------------------------------------------------------
(* Leaves: the rows each source contributes to the merge.                  *)

kMemtableSourceLevel == -1

LeafRow(e, level, file, newer) ==
  [key |-> e.key, seq |-> e.seq, val |-> e.val,
   level |-> level, file |-> file, newer |-> newer]

\* BitLSMMemTableIterator::FindNextValidEntry
MemtableRows(c) ==
  {LeafRow(e, kMemtableSourceLevel, NoEntries, FALSE) :
     e \in {d \in c.ents : /\ d.seq <= snapshot
                           /\ d.val # Tomb
                           /\ result_mode = "Verified" => d.val \in Matching}}

\* Mutant: the entry before e is never compared with it.
SourceHasNewerVersion_Unread(f, e) ==
  Cardinality({d \in f.ents :
    d.key < e.key \/ (d.key = e.key /\ d.seq > e.seq)}) % RestartInterval = 0

\* The entry before e in the file has e's user key, or e is at a restart point
\* so that the entry before it is not decoded.
SourceHasNewerVersion(f, e) ==
  \/ \E d \in f.ents : d.key = e.key /\ d.seq > e.seq
  \/ Cardinality({d \in f.ents :
       d.key < e.key \/ (d.key = e.key /\ d.seq > e.seq)}) % RestartInterval = 0

\* Mutant: off by one at the snapshot's own sequence number.
TableRows_Strict(f, level) ==
  {LeafRow(e, level, f, SourceHasNewerVersion(f, e)) :
     e \in {d \in f.ents : /\ d.seq < snapshot
                           /\ d.val # Tomb
                           /\ d.val \in BinHits
                           /\ result_mode = "Verified" => d.val \in Matching}}

\* SABITableIterator: rows whose bit the query bitmap has, filtered by sequence
\* number, by the tombstone bitmap and, when verifying, by the predicate.
TableRows(f, level) ==
  {LeafRow(e, level, f, SourceHasNewerVersion(f, e)) :
     e \in {d \in f.ents : /\ d.seq <= snapshot
                           /\ d.val # Tomb
                           /\ d.val \in BinHits
                           /\ result_mode = "Verified" => d.val \in Matching}}

\* BitLSMMergingIterator: one child per memtable, per L0 file and per level.
Stream ==
  (UNION {MemtableRows(c) : c \in MemComponents(sv)})
    \cup (UNION {TableRows(f, 0) : f \in sv.l0})
    \cup (UNION {UNION {TableRows(f, n) : f \in sv.lv[n]} : n \in Levels})

\* Internal key order: user key ascending, sequence number descending.
Before(a, b) == a.key < b.key \/ (a.key = b.key /\ a.seq > b.seq)

Remaining == {c \in Stream : Before(pos, c)}

------------------------------------------------------------------------------
(* ShadowChecker.                                                          *)

\* A memtable of the SuperVersion has a version of key, or a range tombstone
\* over it, newer than q and visible to the scan.
MemtablesHaveNewer(key, q) ==
  \E c \in MemComponents(sv) :
    \/ \E e \in c.ents : e.key = key /\ q < e.seq /\ e.seq <= snapshot
    \/ \E r \in c.rds : key \in r.keys /\ q < r.seq /\ r.seq <= snapshot

\* The bloom filter rules key out of f; a false positive (key in fp), an
\* unreadable table or a missing filter cannot.
FilterSaysNo(f, key, fp) == key \notin fp /\ \A e \in f.ents : e.key # key

\* The file FindFile lands on for key at the scan's sequence number: the
\* file's largest internal key is at or after it.
FindFile(f, key) ==
  /\ InKeyRange(f, key)
  /\ \/ \E k \in KeysOf(f) : k > key
     \/ \E r \in f.rds : key \in r.keys
     \/ \E e \in f.ents : e.key = key /\ e.seq <= snapshot

\* Mutant: only range tombstones are looked for, never the bloom filter's key.
FileMayHaveNewer_RangesOnly(f, key, q, src, fp) ==
  /\ LargestSeqAbove(f, q)
  /\ f # src
  /\ f.rds # {}

FileMayHaveNewer(f, key, q, src, fp) ==
  /\ LargestSeqAbove(f, q)
  /\ f # src
  /\ f.rds # {} \/ ~FilterSaysNo(f, key, fp)

MayHaveNewerVersion(c, fp) ==
  \/ MemtablesHaveNewer(c.key, c.seq)
  \/ /\ c.level # kMemtableSourceLevel
     /\ \/ \E f \in sv.l0 : /\ InKeyRange(f, c.key)
                            /\ FileMayHaveNewer(f, c.key, c.seq, c.file, fp)
        \/ \E n \in Levels : n <= c.level /\ \E f \in sv.lv[n] :
             /\ FindFile(f, c.key)
             /\ FileMayHaveNewer(f, c.key, c.seq, c.file, fp)

------------------------------------------------------------------------------
(* The client's calls and the scan's steps.                                *)

IterInit ==
  /\ pc = "none"
  /\ result_mode = "Verified"
  /\ snapshot = 0
  /\ snapshot_owned = FALSE
  /\ sv = NoSV
  /\ authoritative_scan = FALSE
  /\ check_enabled = FALSE
  /\ checked_keys = 0
  /\ skipped_keys = 0
  /\ smi_ok = TRUE
  /\ pos = AtStart
  /\ latest_user_key_added = EmptyKey
  /\ cands = <<>>
  /\ dirty = {}
  /\ batch = <<>>
  /\ batch_cur_idx = 1
  /\ status = "ok"
  /\ out = <<>>

\* Constructor, first half: take a snapshot, or adopt the caller's.  Candidate
\* mode is refused without one.
AcquireSnapshot ==
  /\ pc = "none"
  /\ pc' = "snapped"
  /\ \E mode \in Modes, injected \in BOOLEAN :
       /\ mode = "Candidate" => injected
       /\ result_mode' = mode
       /\ snapshot_owned' = ~injected
       /\ snapshot' \in IF injected THEN callerSnaps ELSE {lastSeq}
  /\ UNCHANGED <<storeVars, sv, authoritative_scan, checkVars, mergeVars,
                 fetchVars, viewVars>>

\* Mutant: files are not required to be seqno-zeroed.
WholeScanAuthority_AnySeqno(v) ==
  /\ memtable[v.mem] = NoEntries
  /\ v.imm = {}
  /\ v.l0 = {}
  /\ \E n \in Levels : /\ v.lv[n] # {}
                       /\ \A m \in Levels : m # n => v.lv[m] = {}

\* The LSM shape proves every row final: nothing above a single non-empty level
\* whose files all have sequence number 0.
WholeScanAuthority(v) ==
  /\ memtable[v.mem] = NoEntries
  /\ v.imm = {}
  /\ v.l0 = {}
  /\ \E n \in Levels :
       /\ v.lv[n] # {}
       /\ \A m \in Levels : m # n => v.lv[m] = {}
       /\ \A f \in v.lv[n] : ~LargestSeqAbove(f, 0)

\* Constructor, second half: pin the SuperVersion and choose how candidates
\* will be judged.
PinSuperVersion ==
  /\ pc = "snapped"
  /\ pc' = "ready"
  /\ sv' = SuperVersion
  /\ \E plain \in PlainValues :
       LET skippable == result_mode = "Verified" /\ plain
       IN  /\ authoritative_scan' = (skippable /\ WholeScanAuthority(SuperVersion))
           /\ check_enabled' = (skippable /\ ~WholeScanAuthority(SuperVersion))
  /\ UNCHANGED <<storeVars, result_mode, snapshot, snapshot_owned, checked_keys,
                 skipped_keys, mergeVars, fetchVars, viewVars>>

\* A leaf could not be opened or read: the merge stops for good, and
\* FetchNextBatch drops the batch and reports the error.
MergeFailed ==
  /\ smi_ok' = FALSE
  /\ status' = "error"
  /\ pc' = "done"
  /\ cands' = <<>>
  /\ batch' = <<>>
  /\ batch_cur_idx' = 1

\* Mutant: SeekToFirst keeps the last user key of the previous pass.
SeekToFirst_KeepsLatestKey ==
  /\ pc \in Idle
  /\ checked_keys <= MaxCheckedKeys
  /\ out' = <<>>
  /\ pc' = "collect"
  /\ pos' = AtStart
  /\ cands' = <<>>
  /\ batch' = <<>>
  /\ batch_cur_idx' = 1
  /\ UNCHANGED <<storeVars, ctorVars, checkVars, dirty, smi_ok, status,
                 latest_user_key_added>>

\* Mutant: SeekToFirst starts with a clean status.
SeekToFirst_ClearsStatus ==
  /\ pc \in Idle
  /\ checked_keys <= MaxCheckedKeys
  /\ latest_user_key_added' = EmptyKey
  /\ out' = <<>>
  /\ pc' = "collect"
  /\ pos' = AtStart
  /\ cands' = <<>>
  /\ batch' = <<>>
  /\ batch_cur_idx' = 1
  /\ status' = "ok"
  /\ UNCHANGED <<storeVars, ctorVars, checkVars, dirty, smi_ok>>

SeekToFirst ==
  /\ pc \in Idle
  /\ checked_keys <= MaxCheckedKeys
  /\ latest_user_key_added' = EmptyKey
  /\ out' = <<>>
  /\ \/ /\ smi_ok
        /\ pc' = "collect"
        /\ pos' = AtStart
        /\ cands' = <<>>
        /\ batch' = <<>>
        /\ batch_cur_idx' = 1
        /\ UNCHANGED <<smi_ok, status>>
     \/ /\ IOErrors \/ ~smi_ok
        /\ MergeFailed
        /\ UNCHANGED pos
  /\ UNCHANGED <<storeVars, ctorVars, checkVars, dirty>>

\* Mutant: every row of the merge becomes a candidate.
Collect_NoDedupe ==
  /\ pc = "collect"
  /\ Len(cands) < BatchSize
  /\ \E c \in Remaining :
       /\ \A d \in Remaining : ~Before(d, c)
       /\ pos' = [key |-> c.key, seq |-> c.seq]
       /\ cands' = Append(cands, c)
       /\ latest_user_key_added' = c.key
  /\ UNCHANGED <<storeVars, pc, ctorVars, checkVars, smi_ok, dirty, viewVars>>

\* FetchNextBatch step 4: one row of the merge becomes a candidate unless its
\* user key was the last one added.
Collect ==
  /\ pc = "collect"
  /\ Len(cands) < BatchSize
  /\ \E c \in Remaining :
       /\ \A d \in Remaining : ~Before(d, c)
       /\ pos' = [key |-> c.key, seq |-> c.seq]
       /\ \/ /\ c.key # latest_user_key_added
             /\ cands' = Append(cands, c)
             /\ latest_user_key_added' = c.key
          \/ /\ c.key = latest_user_key_added
             /\ UNCHANGED <<cands, latest_user_key_added>>
  /\ UNCHANGED <<storeVars, pc, ctorVars, checkVars, smi_ok, dirty, viewVars>>

\* Mutant: a read error ends the scan as if the leaves were exhausted.
CollectFails_Silent ==
  /\ pc = "collect"
  /\ IOErrors
  /\ pc' = "done"
  /\ cands' = <<>>
  /\ batch' = <<>>
  /\ batch_cur_idx' = 1
  /\ UNCHANGED <<storeVars, ctorVars, checkVars, mergeVars, dirty, status, out>>

CollectFails ==
  /\ pc = "collect"
  /\ IOErrors
  /\ MergeFailed
  /\ UNCHANGED <<storeVars, ctorVars, checkVars, pos, latest_user_key_added,
                 dirty, out>>

Collected == Remaining = {} \/ Len(cands) = BatchSize

\* No candidate left: the scan is over.
NoCandidates ==
  /\ pc = "collect"
  /\ Collected
  /\ cands = <<>>
  /\ pc' = "done"
  /\ UNCHANGED <<storeVars, ctorVars, checkVars, mergeVars, fetchVars, viewVars>>

\* Rows b become the batch and its first row is shown to the client.
Show(b) ==
  /\ batch' = b
  /\ batch_cur_idx' = 1
  /\ out' = Append(out, b[1])
  /\ pc' = "valid"

\* Candidate mode and authoritative scans hand the batch over as it is.
HandOver ==
  /\ pc = "collect"
  /\ Collected
  /\ cands # <<>>
  /\ result_mode = "Candidate" \/ authoritative_scan
  /\ Show([i \in DOMAIN cands |->
             <<cands[i].key,
               IF result_mode = "Candidate" THEN NoValue ELSE cands[i].val>>])
  /\ cands' = <<>>
  /\ UNCHANGED <<storeVars, ctorVars, checkVars, mergeVars, dirty, status>>

\* Mutant: with the check off nothing is re-fetched.
Unchecked_Clean == {}

\* What needs the re-fetch when the check is off: every candidate.
Unchecked == DOMAIN cands

\* FetchNextBatch step 5: the candidates that need the re-fetch.  Too few skips
\* switch the check off for the rest of the iterator.
Judge ==
  /\ pc = "collect"
  /\ Collected
  /\ cands # <<>>
  /\ result_mode = "Verified" /\ ~authoritative_scan
  /\ pc' = "fetch"
  /\ \/ /\ check_enabled
        /\ \E fp \in SUBSET Keys :
             dirty' = {i \in DOMAIN cands :
                         cands[i].newer \/ MayHaveNewerVersion(cands[i], fp)}
        /\ checked_keys' = checked_keys + Len(cands)
        /\ skipped_keys' = skipped_keys + Len(cands) - Cardinality(dirty')
        /\ check_enabled' =
             ~( /\ checked_keys' >= CheckSampleKeys
                /\ skipped_keys' * 100 < checked_keys' * MinSkipRatePct)
     \/ /\ ~check_enabled
        /\ dirty' = Unchecked
        /\ UNCHANGED checkVars
  /\ UNCHANGED <<storeVars, ctorVars, mergeVars, cands, viewVars>>

\* What the ordered merge keeps of candidate i: its scan row if it is clean,
\* otherwise the row MultiGet finds, if the predicate accepts it.
Verdict(i) ==
  IF i \in dirty
    THEN {r \in MultiGet(cands[i].key, snapshot) : r[2] \in Matching}
    ELSE {<<cands[i].key, cands[i].val>>}

Survivors == {i \in DOMAIN cands : Verdict(i) # {}}

\* The surviving candidates in candidate order.
InOrder(S) ==
  {k \in [1..Cardinality(S) -> S] :
     \A i, j \in 1..Cardinality(S) : i < j => k[i] < k[j]}

\* Mutant: a batch whose rows are all gone is not emptied before the loop goes on.
FetchAndMerge_Again ==
  /\ pc = "fetch"
  /\ \/ /\ Survivors # {}
        /\ \E kept \in InOrder(Survivors) :
             Show([j \in DOMAIN kept |->
                     CHOOSE r \in Verdict(kept[j]) : TRUE])
        /\ cands' = <<>>
     \/ /\ Survivors = {}
        /\ pc' = "collect"
        /\ UNCHANGED <<cands, batch, batch_cur_idx, out>>
  /\ dirty' = {}
  /\ UNCHANGED <<storeVars, ctorVars, checkVars, mergeVars, status>>

\* FetchNextBatch steps 6 and 7: MultiGet the dirty candidates and merge.  An
\* empty result goes round the loop again.
FetchAndMerge ==
  /\ pc = "fetch"
  /\ \/ /\ Survivors # {}
        /\ \E kept \in InOrder(Survivors) :
             Show([j \in DOMAIN kept |->
                     CHOOSE r \in Verdict(kept[j]) : TRUE])
     \/ /\ Survivors = {}
        /\ pc' = IF Remaining # {} THEN "collect" ELSE "done"
        /\ UNCHANGED <<batch, batch_cur_idx, out>>
  /\ cands' = <<>>
  /\ dirty' = {}
  /\ UNCHANGED <<storeVars, ctorVars, checkVars, mergeVars, status>>

\* MultiGet fails for a dirty key: the batch is dropped, the error reported.
FetchFails ==
  /\ pc = "fetch"
  /\ IOErrors
  /\ dirty # {}
  /\ status' = "error"
  /\ pc' = "done"
  /\ cands' = <<>>
  /\ dirty' = {}
  /\ UNCHANGED <<storeVars, ctorVars, checkVars, mergeVars, batch,
                 batch_cur_idx, out>>

Next_ ==
  /\ pc = "valid"
  /\ \/ /\ batch_cur_idx < Len(batch)
        /\ batch_cur_idx' = batch_cur_idx + 1
        /\ out' = Append(out, batch[batch_cur_idx + 1])
        /\ UNCHANGED <<pc, batch, cands>>
     \/ /\ batch_cur_idx >= Len(batch)
        /\ pc' = "collect"
        /\ batch' = <<>>
        /\ batch_cur_idx' = 1
        /\ cands' = <<>>
        /\ UNCHANGED out
  /\ UNCHANGED <<storeVars, ctorVars, checkVars, mergeVars, dirty, status>>

\* The destructor unpins the SuperVersion and releases an owned snapshot; the
\* client may then open another scan.
Destroy ==
  /\ pc \in Idle
  /\ pc' = "none"
  /\ result_mode' = "Verified"
  /\ snapshot' = 0
  /\ snapshot_owned' = FALSE
  /\ sv' = NoSV
  /\ authoritative_scan' = FALSE
  /\ check_enabled' = FALSE
  /\ checked_keys' = 0
  /\ skipped_keys' = 0
  /\ smi_ok' = TRUE
  /\ pos' = AtStart
  /\ latest_user_key_added' = EmptyKey
  /\ cands' = <<>>
  /\ dirty' = {}
  /\ batch' = <<>>
  /\ batch_cur_idx' = 1
  /\ status' = "ok"
  /\ out' = <<>>
  /\ UNCHANGED storeVars

------------------------------------------------------------------------------
(* Specification.                                                          *)

Writes ==
  \/ \E k \in Keys, v \in Values : Put(k, v)
  \/ \E k1, k2 \in Keys, v1, v2 \in Values : PutBatch(k1, v1, k2, v2)
  \/ \E k \in Keys : Delete(k)
  \/ \E ks \in RangeSets : DeleteRange(ks)

Background ==
  \/ SwitchMemtable
  \/ FlushMemtable(HeldSnapshots)
  \/ CompactL0(HeldSnapshots)
  \/ CompactLevel(HeldSnapshots)
  \/ TrivialMove

\* A caller keeps a snapshot it injected until the scan is destroyed.
Callers ==
  \/ CallerGetSnapshot
  \/ \E p \in callerSnaps :
       /\ ~(pc \in Open /\ ~snapshot_owned /\ p = snapshot)
       /\ CallerReleaseSnapshot(p)

\* The steps FetchNextBatch takes by itself once called.
Fetching ==
  \/ Collect
  \/ CollectFails
  \/ NoCandidates
  \/ HandOver
  \/ Judge
  \/ FetchAndMerge
  \/ FetchFails

Client ==
  \/ AcquireSnapshot
  \/ PinSuperVersion
  \/ SeekToFirst
  \/ Next_
  \/ Destroy

Next ==
  \/ (Writes \/ Background \/ Callers) /\ UNCHANGED iterVars
  \/ Client
  \/ Fetching

Init == StoreInit /\ IterInit

Spec == Init /\ [][Next]_vars

\* A call to SeekToFirst or Next runs to completion on its own thread.
FairSpec == Spec /\ WF_vars(Fetching)

------------------------------------------------------------------------------
(* Properties.                                                             *)

Row       == Keys \X (Values \cup {NoValue})
Candidate == [key : Keys, seq : Nat, val : Values,
              level : Levels \cup {0, kMemtableSourceLevel},
              file : Component, newer : BOOLEAN]
Version   == [mem : MemIds, imm : SUBSET MemIds, l0 : SUBSET Component,
              lv : [Levels -> SUBSET Component]]

StoreTypeOK ==
  /\ lastSeq \in Nat
  /\ hist \in Component
  /\ memtable \in [MemIds -> Component]
  /\ mem \in MemIds
  /\ imm \subseteq MemIds
  /\ l0 \subseteq Component
  /\ levels \in [Levels -> SUBSET Component]
  /\ callerSnaps \subseteq Nat

RowsTypeOK ==
  /\ cands \in Seq(Candidate)
  /\ batch \in Seq(Row)
  /\ out \in Seq(Row)

\* Every variable holds values of its C++ type.
TypeOK ==
  /\ StoreTypeOK
  /\ pc \in Open \cup {"none"}
  /\ result_mode \in {"Verified", "Candidate"}
  /\ snapshot \in Nat
  /\ snapshot_owned \in BOOLEAN
  /\ sv \in Version
  /\ authoritative_scan \in BOOLEAN
  /\ check_enabled \in BOOLEAN
  /\ checked_keys \in Nat
  /\ skipped_keys \in Nat
  /\ smi_ok \in BOOLEAN
  /\ pos \in [key : Keys \cup {-1}, seq : Nat]
  /\ latest_user_key_added \in Keys \cup {EmptyKey}
  /\ RowsTypeOK
  /\ dirty \subseteq Nat
  /\ batch_cur_idx \in Nat \ {0}
  /\ status \in {"ok", "error"}

\* The rows of the database at the scan's snapshot that the query accepts.
Answer == {r \in TrueRows(snapshot) : r[2] \in Matching}

Shown == {out[i] : i \in DOMAIN out}

\* A Verified scan shows only rows of its snapshot that match: never a stale
\* version, a deleted row or a row written after the snapshot was taken,
\* whatever is written, flushed or compacted meanwhile (FetchNextBatch).
RowsCorrect ==
  (pc \in Open /\ result_mode = "Verified") => Shown \subseteq Answer

\* A Verified scan that stops with an OK status has shown the whole answer
\* ("!Valid() alone means no more rows", bit_lsm_iterator.h:104).
ScanComplete ==
  (pc = "done" /\ status = "ok" /\ result_mode = "Verified")
    => Answer \subseteq Shown

\* A Candidate scan that stops with an OK status has shown the key of every
\* row of the answer (ResultMode::Candidate).
CandidateSuperset ==
  (pc = "done" /\ status = "ok" /\ result_mode = "Candidate")
    => \A r \in Answer : <<r[1], NoValue>> \in Shown

\* Rows come in user key order, each key at most once, across batches.
OrderedOnce ==
  \A i, j \in DOMAIN out : i < j => out[i][1] < out[j][1]

\* A candidate the check leaves clean is the newest visible version of its key
\* (ShadowChecker: "a wrong answer only costs a re-fetch").
ShadowCheckSound ==
  pc = "fetch" =>
    \A i \in DOMAIN cands : i \notin dirty =>
      <<cands[i].key, cands[i].val>> \in TrueRows(snapshot)

\* With range deletions too, a candidate left clean is the newest visible version
\* of its key unless its own file has range tombstones: what a memtable, another
\* file of L0 or a file of its level or above holds over it is always found.
SoundButForOwnRanges ==
  pc = "fetch" =>
    \A i \in DOMAIN cands : (i \notin dirty /\ cands[i].file.rds = {}) =>
      <<cands[i].key, cands[i].val>> \in TrueRows(snapshot)

\* For as long as an authoritative scan lives, every row its leaves offer is
\* the newest visible version of its key, although the pinned memtable keeps
\* receiving writes.
AuthorityHolds ==
  (pc \in Open /\ authoritative_scan) =>
    \A c \in Stream : <<c.key, c.val>> \in TrueRows(snapshot)

\* Whatever flushes and compactions do, a read at the iterator's snapshot, at any
\* held one or now returns what the database contained then; MultiGet depends on it.
SnapshotReadsStable ==
  \A p \in callerSnaps \cup {lastSeq} \cup (IF pc \in Open THEN {snapshot} ELSE {}) :
    Rows(Components(SuperVersion), p) = TrueRows(p)

\* An error status is never cleared while the iterator lives.
StatusSticky == [][(status = "error" /\ pc' # "none") => status' = "error"]_vars

\* Every SeekToFirst and Next returns.
FetchReturns == (pc \in {"collect", "fetch"}) ~> (pc \in Idle)

==============================================================================
