----------------------------- MODULE BitLSMStore -----------------------------
(***************************************************************************)
(* The LSM tree a BitLSM scan reads, and the write operations BitLSM       *)
(* offers on it.                                                           *)
(*                                                                         *)
(* Put, PutBatch and Delete are BitLSM's own (bit_lsm.cpp).  Everything    *)
(* below them is RocksDB, modelled from how BitLSM uses it: sequence       *)
(* numbers, memtables, the flush of a memtable into an L0 file, compaction *)
(* into deeper levels, snapshots, and the SuperVersion a reader pins.      *)
(*                                                                         *)
(* A row's attributes and payload are one value, a member of Values; a     *)
(* memtable or a table file is a component: a set of point entries and a   *)
(* set of range tombstones.  User keys are natural numbers in bytewise     *)
(* order; 0 stands for the empty key.                                      *)
(***************************************************************************)
EXTENDS Integers, FiniteSets

CONSTANTS
  Keys,          \* the user keys written
  Values,        \* the encoded rows (attributes and payload)
  Tomb,          \* the value of a deletion entry
  RangeSets,     \* the key sets a DeleteRange may cover; {} when unused
  NumLevels,     \* sorted levels below L0
  NumMemtables,  \* memtables ever created (bound)
  MaxSeq,        \* sequence numbers handed out (bound)
  MaxSnapshots   \* snapshots callers hold at one time (bound)

ASSUME StoreAssumption ==
  /\ Keys \subseteq Nat
  /\ Tomb \notin Values
  /\ RangeSets \subseteq SUBSET Keys
  /\ NumLevels \in Nat
  /\ NumMemtables \in Nat \ {0}
  /\ MaxSeq \in Nat
  /\ MaxSnapshots \in Nat

VARIABLES
  lastSeq,      \* the last published sequence number
  hist,         \* every write ever made, as one component (history variable)
  memtable,     \* memtable id -> its component
  mem,          \* id of the active memtable
  imm,          \* ids of the sealed memtables not yet flushed
  l0,           \* files of level 0, which may overlap
  levels,       \* level -> its files, which do not overlap
  callerSnaps   \* sequence numbers of the snapshots callers hold

storeVars == <<lastSeq, hist, memtable, mem, imm, l0, levels, callerSnaps>>

Levels == 1..NumLevels
MemIds == 1..NumMemtables

Entry     == [key : Keys, seq : Nat, val : Values \cup {Tomb}]
RangeDel  == [keys : SUBSET Keys, seq : Nat]
Component == [ents : SUBSET Entry, rds : SUBSET RangeDel]

NoEntries == [ents |-> {}, rds |-> {}]

------------------------------------------------------------------------------
(* Reading a set of components at a sequence number.                       *)

Ents(C) == UNION {c.ents : c \in C}
Rds(C)  == UNION {c.rds : c \in C}
Union(C) == [ents |-> Ents(C), rds |-> Rds(C)]

\* e is the newest entry of its key that a read at s can see in C.
Newest(C, s, e) ==
  /\ e \in Ents(C)
  /\ e.seq <= s
  /\ \A d \in Ents(C) : (d.key = e.key /\ d.seq <= s) => d.seq <= e.seq

\* A range tombstone of C visible at s deletes entry e.
Covered(C, s, e) ==
  \E r \in Rds(C) : e.key \in r.keys /\ e.seq < r.seq /\ r.seq <= s

\* e is the entry a Get of its key at s returns from C.
Live(C, s, e) == Newest(C, s, e) /\ e.val # Tomb /\ ~Covered(C, s, e)

\* The table a Get or a MultiGet at s reads from C.
Rows(C, s) == {<<e.key, e.val>> : e \in {d \in Ents(C) : Live(C, s, d)}}

\* What the database contains at sequence number s: the truth every scan is
\* held to.
TrueRows(s) == Rows({hist}, s)

------------------------------------------------------------------------------
(* SuperVersions.                                                          *)

\* What GetReferencedSuperVersion pins.  Memtables are pinned by reference:
\* the active one keeps receiving writes.
SuperVersion == [mem |-> mem, imm |-> imm, l0 |-> l0, lv |-> levels]

MemComponents(v)  == {memtable[m] : m \in {v.mem} \cup v.imm}
FileComponents(v) == v.l0 \cup UNION {v.lv[n] : n \in Levels}
Components(v)     == MemComponents(v) \cup FileComponents(v)

\* db_->MultiGet reads the SuperVersion current at the time of the call.
MultiGet(k, s) == {r \in Rows(Components(SuperVersion), s) : r[1] = k}

------------------------------------------------------------------------------
(* Files: key range and sequence numbers, as kept in FileMetaData.         *)

KeysOf(c) == {e.key : e \in c.ents} \cup UNION {r.keys : r \in c.rds}
SeqsOf(c) == {e.seq : e \in c.ents} \cup {r.seq : r \in c.rds}

\* k lies between the smallest and the largest user key of c.
InKeyRange(c, k) ==
  /\ \E a \in KeysOf(c) : a <= k
  /\ \E b \in KeysOf(c) : k <= b

Overlap(a, b) ==
  /\ \E x \in KeysOf(a), y \in KeysOf(b) : x <= y
  /\ \E x \in KeysOf(a), y \in KeysOf(b) : y <= x

\* fd.largest_seqno > q
LargestSeqAbove(c, q) == \E x \in SeqsOf(c) : x > q

------------------------------------------------------------------------------
(* Writes.                                                                 *)

StoreInit ==
  /\ lastSeq = 0
  /\ hist = NoEntries
  /\ memtable = [m \in MemIds |-> NoEntries]
  /\ mem = 1
  /\ imm = {}
  /\ l0 = {}
  /\ levels = [n \in Levels |-> {}]
  /\ callerSnaps = {}

AddTo(c, es, rs) == [ents |-> c.ents \cup es, rds |-> c.rds \cup rs]

\* A write batch is applied to the active memtable and published as a whole.
Write(es, rs, n) ==
  /\ lastSeq + n <= MaxSeq
  /\ lastSeq' = lastSeq + n
  /\ hist' = AddTo(hist, es, rs)
  /\ memtable' = [memtable EXCEPT ![mem] = AddTo(@, es, rs)]
  /\ UNCHANGED <<mem, imm, l0, levels, callerSnaps>>

Put(k, v) == Write({[key |-> k, seq |-> lastSeq + 1, val |-> v]}, {}, 1)

\* Two rows in one WriteBatch; a repeated key gets two sequence numbers.
PutBatch(k1, v1, k2, v2) ==
  Write({[key |-> k1, seq |-> lastSeq + 1, val |-> v1],
         [key |-> k2, seq |-> lastSeq + 2, val |-> v2]}, {}, 2)

Delete(k) == Write({[key |-> k, seq |-> lastSeq + 1, val |-> Tomb]}, {}, 1)

\* BitLSM has no range delete; a caller reaches it through GetInternalDB().
DeleteRange(ks) == Write({}, {[keys |-> ks, seq |-> lastSeq + 1]}, 1)

------------------------------------------------------------------------------
(* Flush and compaction.                                                   *)

\* No snapshot separates an entry at sequence number a from a newer one at b.
SameStratum(snaps, a, b) == \A p \in snaps : ~(a <= p /\ p < b)

OldestStratum(snaps, a) == \A p \in snaps : a <= p

\* The versions of C a rewrite keeps: those some snapshot, or a reader of the
\* present, may still need.
Kept(C, snaps) ==
  {e \in Ents(C) :
    /\ \A d \in Ents(C) :
         (d.key = e.key /\ e.seq < d.seq) => ~SameStratum(snaps, e.seq, d.seq)
    /\ \A r \in Rds(C) :
         (e.key \in r.keys /\ e.seq < r.seq) => ~SameStratum(snaps, e.seq, r.seq)}

\* At the bottom of the tree, tombstones that hide nothing are dropped and
\* sequence numbers every snapshot can see are replaced by 0.
Zeroed(snaps, e) ==
  IF OldestStratum(snaps, e.seq) THEN [e EXCEPT !.seq = 0] ELSE e

MergedEnts(C, snaps, bottom) ==
  IF bottom
    THEN {Zeroed(snaps, e) :
            e \in {d \in Kept(C, snaps) :
                     ~(d.val = Tomb /\ OldestStratum(snaps, d.seq))}}
    ELSE Kept(C, snaps)

MergedRds(C, snaps, bottom) ==
  {r \in Rds(C) : ~(bottom /\ OldestStratum(snaps, r.seq))}

\* The merged entries of C as table files: one file, or one per user key.
Cut(c, ks) ==
  [ents |-> {e \in c.ents : e.key \in ks},
   rds  |-> {[r EXCEPT !.keys = @ \cap ks] :
               r \in {x \in c.rds : x.keys \cap ks # {}}}]

OutputFiles(C, snaps, bottom, split) ==
  LET out == [ents |-> MergedEnts(C, snaps, bottom),
              rds  |-> MergedRds(C, snaps, bottom)]
  IN  (IF split THEN {Cut(out, {k}) : k \in Keys} ELSE {out}) \ {NoEntries}

\* The active memtable is sealed (it is full, or BitLSM::Flush was called).
SwitchMemtable ==
  /\ memtable[mem] # NoEntries
  /\ mem < NumMemtables
  /\ mem' = mem + 1
  /\ imm' = imm \cup {mem}
  /\ UNCHANGED <<lastSeq, hist, memtable, l0, levels, callerSnaps>>

\* The oldest sealed memtable becomes an L0 file.
FlushMemtable(snaps) ==
  \E m \in imm :
    /\ \A x \in imm : m <= x
    /\ imm' = imm \ {m}
    /\ l0' = l0 \cup OutputFiles({memtable[m]}, snaps, FALSE, FALSE)
    /\ UNCHANGED <<lastSeq, hist, memtable, mem, levels, callerSnaps>>

\* No level below n holds a key in the key range of C.
Bottommost(C, n) ==
  \A m \in Levels : m > n => \A f \in levels[m] : ~Overlap(f, Union(C))

\* Files `in` of the level above, with the files of level n in their key
\* range, are rewritten into level n.
CompactInto(n, in, snaps, split) ==
  LET below == {f \in levels[n] : Overlap(f, Union(in))}
      C     == in \cup below
      new   == OutputFiles(C, snaps, Bottommost(C, n), split)
  IN  levels' = [m \in Levels |->
                   CASE m = n     -> (levels[m] \ below) \cup new
                     [] m = n - 1 -> levels[m] \ in
                     [] OTHER     -> levels[m]]

\* An L0 file is compacted with the older L0 files it overlaps.
CompactL0(snaps) ==
  \E in \in SUBSET l0, split \in BOOLEAN :
    /\ NumLevels >= 1
    /\ in # {}
    /\ \A f \in in, g \in l0 \ in :
         Overlap(f, g) => \A x \in SeqsOf(f), y \in SeqsOf(g) : x < y
    /\ l0' = l0 \ in
    /\ CompactInto(1, in, snaps, split)
    /\ UNCHANGED <<lastSeq, hist, memtable, mem, imm, callerSnaps>>

CompactLevel(snaps) ==
  \E n \in 2..NumLevels, split \in BOOLEAN :
    \E f \in levels[n - 1] :
      /\ CompactInto(n, {f}, snaps, split)
      /\ UNCHANGED <<lastSeq, hist, memtable, mem, imm, l0, callerSnaps>>

\* A file that overlaps nothing in the next level moves there unchanged,
\* sequence numbers included.
TrivialMove ==
  \E n \in 2..NumLevels : \E f \in levels[n - 1] :
    /\ \A g \in levels[n] : ~Overlap(f, g)
    /\ levels' = [levels EXCEPT ![n - 1] = @ \ {f}, ![n] = @ \cup {f}]
    /\ UNCHANGED <<lastSeq, hist, memtable, mem, imm, l0, callerSnaps>>

------------------------------------------------------------------------------
(* Snapshots held outside the iterator: by the application, for a          *)
(* Candidate-mode scan, or by other iterators.                             *)

CallerGetSnapshot ==
  /\ Cardinality(callerSnaps) < MaxSnapshots
  /\ lastSeq \notin callerSnaps
  /\ callerSnaps' = callerSnaps \cup {lastSeq}
  /\ UNCHANGED <<lastSeq, hist, memtable, mem, imm, l0, levels>>

CallerReleaseSnapshot(p) ==
  /\ p \in callerSnaps
  /\ callerSnaps' = callerSnaps \ {p}
  /\ UNCHANGED <<lastSeq, hist, memtable, mem, imm, l0, levels>>

==============================================================================
