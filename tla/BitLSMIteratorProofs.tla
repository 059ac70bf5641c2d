------------------------ MODULE BitLSMIteratorProofs ------------------------
(***************************************************************************)
(* Theorems about a BitLSM scan, for every set of keys, values, levels and *)
(* every bound.                                                            *)
(***************************************************************************)
EXTENDS BitLSMIterator, FiniteSetTheorems, SequenceTheorems, TLAPS

------------------------------------------------------------------------------
(* Types of the store's operators.                                         *)

\* What components contribute to a merge are entries and range tombstones.
LEMMA UnionType ==
  ASSUME NEW C, C \subseteq Component
  PROVE  Ents(C) \subseteq Entry /\ Rds(C) \subseteq RangeDel
BY DEF Ents, Rds, Component

\* A flush or a compaction writes well-formed files.
LEMMA OutputFilesType ==
  ASSUME NEW C, C \subseteq Component, NEW snaps, NEW bottom \in BOOLEAN,
         NEW split \in BOOLEAN
  PROVE  OutputFiles(C, snaps, bottom, split) \subseteq Component
<1> DEFINE merged == [ents |-> MergedEnts(C, snaps, bottom),
                      rds  |-> MergedRds(C, snaps, bottom)]
<1>1. Kept(C, snaps) \subseteq Entry
  BY UnionType DEF Kept
<1>2. \A e \in Entry : Zeroed(snaps, e) \in Entry
  BY DEF Zeroed, Entry
<1>3. MergedEnts(C, snaps, bottom) \subseteq Entry
  BY <1>1, <1>2 DEF MergedEnts
<1>4. MergedRds(C, snaps, bottom) \subseteq RangeDel
  BY UnionType DEF MergedRds
<1>5. merged \in Component
  BY <1>3, <1>4 DEF Component
<1>6. \A k \in Keys : Cut(merged, {k}) \in Component
  <2> SUFFICES ASSUME NEW k \in Keys PROVE Cut(merged, {k}) \in Component
    OBVIOUS
  <2>1. merged.ents \subseteq Entry /\ merged.rds \subseteq RangeDel
    BY <1>3, <1>4
  <2>2. {e \in merged.ents : e.key \in {k}} \subseteq Entry
    BY <2>1
  <2>3. \A r \in merged.rds : [r EXCEPT !.keys = @ \cap {k}] \in RangeDel
    BY <2>1 DEF RangeDel
  <2> QED
    BY <2>2, <2>3 DEF Cut, Component
<1> QED
  BY <1>5, <1>6 DEF OutputFiles

\* The rows a read returns carry a value, never a tombstone.
LEMMA RowsType ==
  ASSUME NEW C, C \subseteq Component, NEW s
  PROVE  Rows(C, s) \subseteq Keys \X Values
BY UnionType DEF Rows, Live, Entry

------------------------------------------------------------------------------
(* Types of the scan's operators.                                          *)

\* A SuperVersion refers to memtables and files that exist.
LEMMA SuperVersionType ==
  StoreTypeOK => SuperVersion \in Version
BY DEF StoreTypeOK, SuperVersion, Version

\* The memtables and files of a SuperVersion hold entries and range tombstones.
LEMMA ComponentsType ==
  ASSUME StoreTypeOK, NEW v \in Version
  PROVE  /\ MemComponents(v) \subseteq Component
         /\ FileComponents(v) \subseteq Component
         /\ Components(v) \subseteq Component
<1>1. MemComponents(v) \subseteq Component
  BY DEF StoreTypeOK, Version, MemComponents
<1>2. FileComponents(v) \subseteq Component
  BY DEF Version, FileComponents
<1> QED
  BY <1>1, <1>2 DEF Components

\* MultiGet returns rows of the asked key.
LEMMA MultiGetType ==
  ASSUME StoreTypeOK, NEW k, NEW s
  PROVE  MultiGet(k, s) \subseteq Keys \X Values
BY SuperVersionType, ComponentsType, RowsType DEF MultiGet

\* The leaves offer well-formed candidates.
LEMMA StreamType ==
  ASSUME TypeOK
  PROVE  Stream \subseteq Candidate
<1>0. StoreTypeOK /\ sv \in Version
  BY DEF TypeOK
<1>1. ASSUME NEW c \in Component
      PROVE  MemtableRows(c) \subseteq Candidate
  <2>1. NoEntries \in Component
    BY DEF NoEntries, Component
  <2>2. \A e \in c.ents : e \in Entry
    BY DEF Component
  <2>3. \A e \in Entry : e.val # Tomb =>
          LeafRow(e, kMemtableSourceLevel, NoEntries, FALSE) \in Candidate
    BY <2>1 DEF LeafRow, Candidate, Entry
  <2> QED
    BY <2>2, <2>3 DEF MemtableRows
<1>2. ASSUME NEW f \in Component, NEW n \in Levels \cup {0}
      PROVE  TableRows(f, n) \subseteq Candidate
  <2>1. \A e : SourceHasNewerVersion(f, e) \in BOOLEAN
    BY DEF SourceHasNewerVersion
  <2>2. \A e \in f.ents : e \in Entry
    BY DEF Component
  <2>3. \A e \in Entry : e.val # Tomb =>
          LeafRow(e, n, f, SourceHasNewerVersion(f, e)) \in Candidate
    BY <2>1 DEF LeafRow, Candidate, Entry
  <2> QED
    BY <2>2, <2>3 DEF TableRows
<1>3. MemComponents(sv) \subseteq Component
  BY <1>0, ComponentsType
<1>4. sv.l0 \subseteq Component /\ \A n \in Levels : sv.lv[n] \subseteq Component
  BY <1>0 DEF Version
<1> QED
  BY <1>1, <1>2, <1>3, <1>4 DEF Stream

------------------------------------------------------------------------------
(* Type correctness.                                                       *)

\* Writes, flushes, compactions and callers' snapshots keep the store well
\* formed, whatever snapshots they respect.
LEMMA StoreStepType ==
  ASSUME StoreTypeOK, Writes \/ Background \/ Callers
  PROVE  StoreTypeOK'
<1> USE StoreAssumption
<1>0. NoEntries \in Component
  BY DEF NoEntries, Component
<1>1. ASSUME NEW es \in SUBSET Entry, NEW rs \in SUBSET RangeDel,
             NEW n \in Nat, Write(es, rs, n)
      PROVE  StoreTypeOK'
  <2>1. \A c \in Component : AddTo(c, es, rs) \in Component
    BY DEF AddTo, Component
  <2> QED
    BY <1>1, <2>1 DEF Write, StoreTypeOK
<1>2. CASE Writes
  <2>0. lastSeq + 1 \in Nat /\ lastSeq + 2 \in Nat
    BY DEF StoreTypeOK
  <2>1. ASSUME NEW k \in Keys, NEW v \in Values, Put(k, v)
        PROVE  StoreTypeOK'
    BY <2>0, <2>1, <1>1 DEF Put, Entry
  <2>2. ASSUME NEW k1 \in Keys, NEW k2 \in Keys, NEW v1 \in Values,
               NEW v2 \in Values, PutBatch(k1, v1, k2, v2)
        PROVE  StoreTypeOK'
    <3>1. {[key |-> k1, seq |-> lastSeq + 1, val |-> v1],
           [key |-> k2, seq |-> lastSeq + 2, val |-> v2]} \in SUBSET Entry
      BY <2>0 DEF Entry
    <3> QED
      BY <3>1, <2>2, <1>1 DEF PutBatch
  <2>3. ASSUME NEW k \in Keys, Delete(k)
        PROVE  StoreTypeOK'
    BY <2>0, <2>3, <1>1 DEF Delete, Entry
  <2>4. ASSUME NEW ks \in RangeSets, DeleteRange(ks)
        PROVE  StoreTypeOK'
    <3>1. {[keys |-> ks, seq |-> lastSeq + 1]} \in SUBSET RangeDel
      BY <2>0 DEF RangeDel
    <3> QED
      BY <3>1, <2>4, <1>1 DEF DeleteRange
  <2> QED
    BY <1>2, <2>1, <2>2, <2>3, <2>4 DEF Writes
<1>3. CASE SwitchMemtable
  BY <1>3 DEF SwitchMemtable, StoreTypeOK, MemIds
<1>4. CASE FlushMemtable(HeldSnapshots)
  <2>1. PICK m \in imm :
          /\ imm' = imm \ {m}
          /\ l0' = l0 \cup OutputFiles({memtable[m]}, HeldSnapshots, FALSE, FALSE)
          /\ UNCHANGED <<lastSeq, hist, memtable, mem, levels, callerSnaps>>
    BY <1>4 DEF FlushMemtable
  <2>2. {memtable[m]} \subseteq Component
    BY DEF StoreTypeOK
  <2>3. OutputFiles({memtable[m]}, HeldSnapshots, FALSE, FALSE) \subseteq Component
    BY <2>2, OutputFilesType
  <2> QED
    BY <2>1, <2>3 DEF StoreTypeOK
<1>5. ASSUME NEW n \in Levels, NEW in \in SUBSET Component, NEW snaps,
             NEW split \in BOOLEAN, CompactInto(n, in, snaps, split)
      PROVE  levels' \in [Levels -> SUBSET Component]
  <2> DEFINE below == {f \in levels[n] : Overlap(f, Union(in))}
             C     == in \cup below
             new   == OutputFiles(C, snaps, Bottommost(C, n), split)
  <2>1. \A m \in Levels : levels[m] \subseteq Component
    BY DEF StoreTypeOK
  <2>2. C \subseteq Component
    BY <2>1
  <2>3. Bottommost(C, n) \in BOOLEAN
    BY DEF Bottommost
  <2>4. new \subseteq Component
    BY <2>2, <2>3, OutputFilesType
  <2>5. levels' = [m \in Levels |->
                     CASE m = n     -> (levels[m] \ below) \cup new
                       [] m = n - 1 -> levels[m] \ in
                       [] OTHER     -> levels[m]]
    BY <1>5 DEF CompactInto
  <2> HIDE DEF new, below
  <2> QED
    BY <2>1, <2>4, <2>5
<1>6. CASE CompactL0(HeldSnapshots)
  <2>1. PICK in \in SUBSET l0, split \in BOOLEAN :
          /\ NumLevels >= 1
          /\ l0' = l0 \ in
          /\ CompactInto(1, in, HeldSnapshots, split)
          /\ UNCHANGED <<lastSeq, hist, memtable, mem, imm, callerSnaps>>
    BY <1>6 DEF CompactL0
  <2>2. 1 \in Levels /\ in \in SUBSET Component
    BY <2>1 DEF Levels, StoreTypeOK
  <2>3. levels' \in [Levels -> SUBSET Component]
    BY <2>1, <2>2, <1>5
  <2> QED
    BY <2>1, <2>3 DEF StoreTypeOK
<1>7. CASE CompactLevel(HeldSnapshots)
  <2>1. PICK n \in 2..NumLevels, split \in BOOLEAN : \E f \in levels[n - 1] :
          /\ CompactInto(n, {f}, HeldSnapshots, split)
          /\ UNCHANGED <<lastSeq, hist, memtable, mem, imm, l0, callerSnaps>>
    BY <1>7 DEF CompactLevel
  <2>2. n \in Levels /\ n - 1 \in Levels
    BY DEF Levels
  <2>3. levels[n - 1] \subseteq Component
    BY <2>2 DEF StoreTypeOK
  <2> QED
    BY <2>1, <2>2, <2>3, <1>5 DEF StoreTypeOK
<1>8. CASE TrivialMove
  <2>1. PICK n \in 2..NumLevels : \E f \in levels[n - 1] :
          /\ levels' = [levels EXCEPT ![n - 1] = @ \ {f}, ![n] = @ \cup {f}]
          /\ UNCHANGED <<lastSeq, hist, memtable, mem, imm, l0, callerSnaps>>
    BY <1>8 DEF TrivialMove
  <2>2. n \in Levels /\ n - 1 \in Levels
    BY DEF Levels
  <2> QED
    BY <2>1, <2>2 DEF StoreTypeOK
<1>9. CASE Callers
  BY <1>9 DEF Callers, CallerGetSnapshot, CallerReleaseSnapshot, StoreTypeOK
<1> QED
  BY <1>2, <1>3, <1>4, <1>6, <1>7, <1>8, <1>9 DEF Background

\* A set of positions of a sequence is finite and no larger than the sequence.
LEMMA PositionsFinite ==
  ASSUME NEW n \in Nat, NEW S \in SUBSET (1..n)
  PROVE  /\ IsFiniteSet(S)
         /\ Cardinality(S) \in Nat
         /\ Cardinality(S) <= n
<1>1. IsFiniteSet(1..n) /\ Cardinality(1..n) = n
  BY FS_Interval
<1> QED
  BY <1>1, FS_Subset, FS_CardinalityType

\* Clearing the batch, the candidates and the history keeps their types.
LEMMA ClearedRows ==
  ASSUME RowsTypeOK, cands' \in {cands, <<>>}, batch' \in {batch, <<>>},
         out' \in {out, <<>>}
  PROVE  RowsTypeOK'
<1>1. <<>> \in Seq(Candidate) /\ <<>> \in Seq(Row)
  OBVIOUS
<1> QED
  BY <1>1 DEF RowsTypeOK

\* Zero is a count and one the first index of a batch.
LEMMA FirstIndex == 0 \in Nat /\ 1 \in Nat \ {0}
OBVIOUS

\* A merge that stays or is rewound stands at a position.
LEMMA PosType ==
  ASSUME pos \in [key : Keys \cup {-1}, seq : Nat], pos' \in {pos, AtStart}
  PROVE  pos' \in [key : Keys \cup {-1}, seq : Nat]
<1>1. AtStart \in [key : Keys \cup {-1}, seq : Nat]
  BY DEF AtStart
<1> QED
  BY <1>1

\* What the ordered merge keeps of a candidate is a row.
LEMMA VerdictType ==
  ASSUME TypeOK, NEW i \in DOMAIN cands
  PROVE  Verdict(i) \subseteq Keys \X Values
<1>1. cands[i] \in Candidate
  BY DEF TypeOK, RowsTypeOK
<1>2. MultiGet(cands[i].key, snapshot) \subseteq Keys \X Values
  BY MultiGetType DEF TypeOK
<1> QED
  BY <1>1, <1>2 DEF Verdict, Candidate

\* Every variable of the scan and of the store keeps its type: in particular
\* FetchNextBatch's skip counter never goes below zero, and every row and
\* candidate is made of a key that was written and a value, never a tombstone.
THEOREM TypeCorrect == Spec => []TypeOK
<1>1. Init => TypeOK
  <2>1. NoEntries \in Component
    BY DEF NoEntries, Component
  <2>2. StoreInit => StoreTypeOK
    BY <2>1, StoreAssumption DEF StoreInit, StoreTypeOK, MemIds
  <2>3. NoSV \in Version
    BY StoreAssumption DEF NoSV, Version, MemIds
  <2>4. IterInit => RowsTypeOK
    BY DEF IterInit, RowsTypeOK
  <2>5. AtStart \in [key : Keys \cup {-1}, seq : Nat]
    BY DEF AtStart
  <2> QED
    BY <2>2, <2>3, <2>4, <2>5, FirstIndex DEF Init, IterInit, TypeOK, Open, Idle
<1>2. TypeOK /\ [Next]_vars => TypeOK'
  <2> SUFFICES ASSUME TypeOK, [Next]_vars PROVE TypeOK'
    OBVIOUS
  <2>1. CASE (Writes \/ Background \/ Callers) /\ UNCHANGED iterVars
    <3>1. StoreTypeOK'
      BY <2>1, StoreStepType DEF TypeOK
    <3> QED
      BY <2>1, <3>1 DEF TypeOK, RowsTypeOK, iterVars, ctorVars, checkVars,
                        mergeVars, fetchVars, viewVars
  <2>2. CASE AcquireSnapshot
    BY <2>2, IteratorAssumption
    DEF AcquireSnapshot, TypeOK, StoreTypeOK, RowsTypeOK, storeVars, checkVars,
        mergeVars, fetchVars, viewVars, Open, Idle
  <2>3. CASE PinSuperVersion
    <3>1. SuperVersion \in Version
      BY SuperVersionType DEF TypeOK
    <3>2. WholeScanAuthority(SuperVersion) \in BOOLEAN
      BY DEF WholeScanAuthority
    <3> QED
      BY <2>3, <3>1, <3>2
      DEF PinSuperVersion, TypeOK, StoreTypeOK, RowsTypeOK, storeVars, mergeVars,
          fetchVars, viewVars, Open, Idle
  <2>4. CASE SeekToFirst
    <3>1. RowsTypeOK'
      BY <2>4, ClearedRows DEF SeekToFirst, MergeFailed, TypeOK
    <3>2. pos' \in [key : Keys \cup {-1}, seq : Nat]
      BY <2>4, PosType DEF SeekToFirst, TypeOK
    <3> QED
      BY <2>4, <3>1, <3>2, FirstIndex DEF SeekToFirst, MergeFailed, TypeOK, StoreTypeOK,
                              storeVars, ctorVars, checkVars, Open, Idle
  <2>5. CASE Collect
    <3>1. PICK c \in Remaining :
            /\ pos' = [key |-> c.key, seq |-> c.seq]
            /\ \/ /\ cands' = Append(cands, c)
                  /\ latest_user_key_added' = c.key
               \/ UNCHANGED <<cands, latest_user_key_added>>
      BY <2>5 DEF Collect
    <3>2. c \in Candidate
      BY StreamType DEF Remaining
    <3>3. c.key \in Keys /\ c.seq \in Nat
      BY <3>2 DEF Candidate
    <3>4. RowsTypeOK'
      <4>1. RowsTypeOK /\ UNCHANGED <<batch, out>>
        BY <2>5 DEF Collect, viewVars, TypeOK
      <4>2. cands' \in {Append(cands, c), cands}
        BY <3>1
      <4>3. Append(cands, c) \in Seq(Candidate)
        BY <3>2, <4>1 DEF RowsTypeOK
      <4> QED
        BY <4>1, <4>2, <4>3 DEF RowsTypeOK
    <3>5. /\ pos' \in [key : Keys \cup {-1}, seq : Nat]
          /\ latest_user_key_added' \in Keys \cup {EmptyKey}
      BY <3>1, <3>3 DEF TypeOK
    <3> QED
      BY <2>5, <3>4, <3>5 DEF Collect, TypeOK, StoreTypeOK, storeVars, ctorVars,
                              checkVars, viewVars
  <2>6. CASE CollectFails
    <3>1. RowsTypeOK'
      BY <2>6, ClearedRows DEF CollectFails, MergeFailed, TypeOK
    <3> QED
      BY <2>6, <3>1, FirstIndex DEF CollectFails, MergeFailed, TypeOK, StoreTypeOK, storeVars,
                        ctorVars, checkVars, Open, Idle
  <2>7. CASE NoCandidates
    BY <2>7 DEF NoCandidates, TypeOK, StoreTypeOK, RowsTypeOK, storeVars, ctorVars,
                checkVars, mergeVars, fetchVars, viewVars, Open, Idle
  <2>8. ASSUME NEW b \in Seq(Row), b # <<>>, Show(b), cands' = <<>>
        PROVE  /\ RowsTypeOK'
               /\ batch_cur_idx' \in Nat \ {0}
               /\ pc' \in Open \cup {"none"}
    <3>1. out \in Seq(Row) /\ b[1] \in Row
      BY <2>8 DEF TypeOK, RowsTypeOK
    <3> QED
      BY <2>8, <3>1 DEF Show, RowsTypeOK, Open, Idle
  <2>9. CASE HandOver
    <3> DEFINE b == [i \in DOMAIN cands |->
                       <<cands[i].key, IF result_mode = "Candidate" THEN NoValue
                                                          ELSE cands[i].val>>]
    <3>1. cands \in Seq(Candidate) /\ cands # <<>>
      BY <2>9 DEF HandOver, TypeOK, RowsTypeOK
    <3>2. \A i \in 1..Len(cands) : cands[i] \in Candidate
      BY <3>1
    <3>3. b \in Seq(Row) /\ b # <<>>
      BY <3>1, <3>2 DEF Candidate, Row
    <3>4. Show(b) /\ cands' = <<>>
      BY <2>9 DEF HandOver
    <3> HIDE DEF b
    <3> QED
      BY <2>9, <2>8, <3>3, <3>4 DEF HandOver, TypeOK, StoreTypeOK, storeVars,
                                    ctorVars, checkVars, mergeVars
  <2>10. CASE Judge
    <3>0. cands \in Seq(Candidate) /\ Len(cands) \in Nat
          /\ DOMAIN cands = 1..Len(cands)
      BY DEF TypeOK, RowsTypeOK
    <3>1. /\ dirty' \subseteq Nat
          /\ checked_keys' \in Nat
          /\ skipped_keys' \in Nat
          /\ check_enabled' \in BOOLEAN
      <4>1. CASE check_enabled
        <5>1. PICK d \in SUBSET DOMAIN cands :
                /\ dirty' = d
                /\ checked_keys' = checked_keys + Len(cands)
                /\ skipped_keys' = skipped_keys + Len(cands) - Cardinality(d)
                /\ check_enabled' \in BOOLEAN
          BY <2>10, <4>1 DEF Judge
        <5>2. Cardinality(d) \in Nat /\ Cardinality(d) <= Len(cands)
          BY <3>0, PositionsFinite
        <5> QED
          BY <3>0, <5>1, <5>2 DEF TypeOK
      <4>2. CASE ~check_enabled
        BY <2>10, <4>2, <3>0 DEF Judge, Unchecked, checkVars, TypeOK
      <4> QED
        BY <4>1, <4>2
    <3> QED
      BY <2>10, <3>1 DEF Judge, TypeOK, StoreTypeOK, RowsTypeOK, storeVars, ctorVars,
                         mergeVars, viewVars, Open, Idle
  <2>11. CASE FetchAndMerge
    <3>1. CASE Survivors # {}
      <4>1. PICK kept \in InOrder(Survivors) :
              Show([j \in DOMAIN kept |-> CHOOSE r \in Verdict(kept[j]) : TRUE])
        BY <2>11, <3>1 DEF FetchAndMerge
      <4> DEFINE n == Cardinality(Survivors)
                 b == [j \in DOMAIN kept |-> CHOOSE r \in Verdict(kept[j]) : TRUE]
      <4>2. Survivors \in SUBSET (1..Len(cands)) /\ Len(cands) \in Nat
        BY DEF Survivors, TypeOK, RowsTypeOK
      <4>3. n \in Nat /\ n # 0
        BY <4>2, <3>1, PositionsFinite, FS_EmptySet
      <4>4. kept \in [1..n -> Survivors]
        BY DEF InOrder
      <4>5. \A j \in 1..n : b[j] \in Keys \X Values
        BY <4>4, VerdictType DEF Survivors
      <4>6. b = [j \in 1..n |-> b[j]]
        BY <4>4
      <4> HIDE DEF n, b
      <4>7. b \in Seq(Row) /\ b # <<>>
        BY <4>3, <4>5, <4>6 DEF Row
      <4>8. Show(b) /\ cands' = <<>>
        BY <2>11, <4>1 DEF FetchAndMerge, b
      <4> QED
        BY <2>11, <2>8, <4>7, <4>8 DEF FetchAndMerge, TypeOK, StoreTypeOK,
                            storeVars, ctorVars, checkVars, mergeVars
    <3>2. CASE Survivors = {}
      <4>1. RowsTypeOK'
        BY <2>11, <3>2 DEF FetchAndMerge, TypeOK, RowsTypeOK
      <4> QED
        BY <2>11, <3>2, <4>1 DEF FetchAndMerge, TypeOK, StoreTypeOK, storeVars,
                                 ctorVars, checkVars, mergeVars, Open, Idle
    <3> QED
      BY <3>1, <3>2
  <2>12. CASE FetchFails
    <3>1. RowsTypeOK'
      BY <2>12 DEF FetchFails, TypeOK, RowsTypeOK
    <3> QED
      BY <2>12, <3>1 DEF FetchFails, TypeOK, StoreTypeOK, storeVars, ctorVars,
                         checkVars, mergeVars, Open, Idle
  <2>13. CASE Next_
    <3>1. RowsTypeOK /\ batch_cur_idx \in Nat \ {0}
      BY DEF TypeOK
    <3>2. RowsTypeOK'
      <4>1. CASE batch_cur_idx < Len(batch)
        <5>1. batch[batch_cur_idx + 1] \in Row
          BY <3>1, <4>1 DEF RowsTypeOK
        <5>2. Append(out, batch[batch_cur_idx + 1]) \in Seq(Row)
          BY <3>1, <5>1 DEF RowsTypeOK
        <5>3. \/ UNCHANGED <<batch, cands>> /\ out' = Append(out, batch[batch_cur_idx + 1])
              \/ cands' = <<>> /\ batch' = <<>> /\ out' = out
          BY <2>13, Zenon DEF Next_
        <5> QED
          BY <3>1, <5>2, <5>3, ClearedRows DEF RowsTypeOK
      <4>2. CASE batch_cur_idx >= Len(batch)
        BY <2>13, <3>1, <4>2, ClearedRows DEF Next_
      <4>3. Len(batch) \in Nat
        BY <3>1 DEF RowsTypeOK
      <4> QED
        BY <3>1, <4>1, <4>2, <4>3
    <3> QED
      BY <2>13, <3>1, <3>2 DEF Next_, TypeOK, StoreTypeOK, storeVars, ctorVars,
                         checkVars, mergeVars, Open, Idle
  <2>14. CASE Destroy
    <3>1. NoSV \in Version
      BY StoreAssumption DEF NoSV, Version, MemIds
    <3>2. RowsTypeOK'
      BY <2>14, ClearedRows DEF Destroy, TypeOK
    <3>3. pos' \in [key : Keys \cup {-1}, seq : Nat]
      BY <2>14, PosType DEF Destroy, TypeOK
    <3> QED
      BY <2>14, <3>1, <3>2, <3>3, FirstIndex DEF Destroy, TypeOK, StoreTypeOK, storeVars
  <2>15. CASE UNCHANGED vars
    BY <2>15 DEF vars, storeVars, iterVars, ctorVars, checkVars, mergeVars,
                 fetchVars, viewVars, TypeOK, StoreTypeOK, RowsTypeOK
  <2> QED
    BY <2>1, <2>2, <2>3, <2>4, <2>5, <2>6, <2>7, <2>9, <2>10, <2>11, <2>12,
       <2>13, <2>14, <2>15 DEF Next, Client, Fetching
<1> QED
  BY <1>1, <1>2, PTL DEF Spec

==============================================================================
