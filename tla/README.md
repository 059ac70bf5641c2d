# BitLSM: a TLA+ verification project

BitLSM stores rows with attributes in RocksDB and answers attribute queries with
SABI, a bitmap index kept inside every SST file. This directory models the parts
of `src/include/` whose correctness depends on interleavings, failures or
boundary cases, checks them with TLC on small instances and proves some of the
properties with TLAPS for every value of the constants. Paths below are relative
to `src/include/`.

## 1. Inventory

| Component | State | Operations | Hard behaviour | What makes it correct |
|---|---|---|---|---|
| Store (`bit_lsm.cpp` over RocksDB) | memtables, L0 files, levels, sequence numbers, snapshots | Put, PutBatch, Delete, Flush; flush, compaction, trivial move | background work between any two steps of a reader | a read at a held snapshot never changes |
| Top-level iterator (`bit_lsm_iterator.*`) | snapshot, pinned SuperVersion, candidates, batch, skip counters, status | constructor, SeekToFirst, Next, FetchNextBatch, destructor | index hits are per file, so an old version can match while a newer one does not; MultiGet uses a newer SuperVersion; reads fail midway | exactly the matching rows of the snapshot, in order, once; an incomplete scan reports an error |
| Shadow check (`bit_lsm_shadow_check.*`) | none kept between candidates, apart from cached table handles | MayHaveNewerVersion | bloom filters, range tombstones, restart points, overlapping L0 | a clean row is the newest visible version |
| Merge (`bit_lsm_merging_iterator.cpp`, `bit_lsm_level_iterator.cpp`, `bit_lsm_memtable_iterator.cpp`) | heap of children, open table and handle of each level, status | constructor, SeekToFirst, Next, destructor | any open or read fails, scans restart | an ordered scan of all rows, never a partial one; handles balanced |
| Table iterator and prefetch (`sabi_table_iterator.cpp`, `block_prefetch_queue.*`) | target blocks, bitmap cursor, row buffer, prefetch slots | SeekToFirst, Next, LoadNextBlock, Prepare, TopUp, Submit, BufferFor | slot reuse, cache changes, re-seek | no row lost or repeated; a buffer holds the block it is handed out for |
| Rows and values (`bit_lsm_utils.h`, `bit_lsm_encoding.h`) | none | EncodeValue, DecodeAttr, DecodePayload, okeys and SABI bytes | NULLs among strings of variable length, narrow integers, negative numbers, both zeros, NaN | a row reads back as written; byte order is value order |
| Query (`bit_lsm_query.*`) | none | Validate, Eval, EncodeQuery | merging intervals, NULL | the encoded query means the query |
| SABI builder and reader (`sabi_builder.cpp`, `sabi_reader.cpp`, `bytes_list.h`) | buffered values, NULL and tombstone rows, policy, bitmaps | OnKeyAdded, Finish, QueryCanMatch, SelectBins | cursors over dense values and sparse row ids, bin edges, budget | no matching row missing from the bitmap |
| Bins on demand (`sabi_reader.cpp`, `sabi.h`, `sabi_table_iterator.cpp`) | block cache entries and handles, pins, prefetch slots, partial bitmaps | PlanAndSubmit, Bin, BinRange, ProbeBin, LoadRun, TryConsume, BuildQueryBitmap | other scans fill, replace and evict the shared cache; runs fail, fall short or were prefetched in another shape | the bitmap a resident reader gives, or an error; no bin under another's key; handles balanced |
| Estimation (`bit_lsm_estimator.*`) | published statistics | Rebuild, Estimate | bins of no width, files without SABI, truncated dictionaries, ends of the axis | no row's mass lost; an estimate of nothing is right |
| Estimator refresh (`bit_lsm_estimator.*`) | signal and processed counters, stop flag, built file set, published statistics | NotifyChange, WorkerLoop, Reconcile, TEST_Refresh, destructor | condition variable, signals during a pass, shutdown | no lost wake-up; statistics catch up; every wait ends |
| Families (`bit_lsm.*`, listener in `bit_lsm_estimator.h`) | registry, listener targets, estimators, handles | open, create, register, drop, close, Notify | two mutexes, teardown in several steps, RocksDB may refuse a drop | nothing used after destruction; torn down once; no deadlock |

How they interact: a family's handle owns its estimator; RocksDB threads call the
listener, which calls the estimator; a scan pins a SuperVersion, its merge pulls
rows from table iterators that read SABI bitmaps, and the top-level iterator
decides with the shadow check which rows to fetch again from the database. The
files a flush leaves are also what the estimator harvests.

## 2. Modules

| Module | Models | Notes |
|---|---|---|
| `BitLSMStore` | the store | BitLSM's writes are translated from `bit_lsm.cpp`; everything below is RocksDB, modelled from its use and marked external. `hist` keeps every write ever made, so `TrueRows(s)` is what the database contained at `s`. |
| `BitLSMIterator` | scan and shadow check over the live store (extends `BitLSMStore`) | `pc` is `none`, `snapped` (constructor between snapshot and SuperVersion), `ready`, `collect`, `fetch`, `valid`, `done`. `Collect` is one row of FetchNextBatch's step 4; `HandOver`, `Judge`, `FetchAndMerge` are steps 5 to 7; `CollectFails` and `FetchFails` are the error paths. Leaves are the sets of rows they show; their mechanics are in the three modules below. |
| `OrderedScan` | what an internal iterator promises | the abstract specification: rows are shown in order, none skipped; the end comes early only with a failure. |
| `TableScan` | one table's block loop with prefetch | implements `OrderedScan`. |
| `MergingScan` | merge and level iterators | implements `OrderedScan`; its tables' leaves are themselves ordered scans. |
| `RowEncoding` | row values and SABI bytes | pure operators. A word has `2 * Half` patterns, an integer is itself, a float its bit pattern, a string its length (all its bytes equal). A stored row is a function from byte positions to bytes that know which item they belong to, so that an overlap or a wrong offset reads back as `Torn`. |
| `SABIQuery` | validation, evaluation and encoding of queries (extends `RowEncoding`) | pure operators; `options` is the schema under test. |
| `SABIIndex` | builder, pruning, bin selection, query bitmap (extends `SABIQuery`) | one file is written row by row, each row through EncodeValue and DecodeAttr, then answers queries. |
| `Estimator` | Rebuild and Estimate (extends `SABIIndex`) | finished files go live (`Install`, with SABI or without), and `Rebuild` harvests any readable subset. Doubles are exact fractions. |
| `BinLoading` | one scan's bins in metadata mode | `pc` is `open`, `plan`, `submit` (the span prefetch), `select` (BuildQueryBitmap), `probe`, `load`, `insert`, `unwind` (BinRange and LoadRun), `scan`. A decoded bin is a memory cell holding the file offset its view starts at; a freed cell or a wrong offset shows as garbage. `OtherInsert` and `Evict` are other users of the block cache. |
| `StatsRefresh` | the estimator's worker and one family's listener | the condition variable is explicit: `asleep` are the sleeping threads, `owed` the notify_all calls still to come after an unlock. The destructor may start while TEST_Refresh waits; no call of TEST_Refresh begins once the worker has been joined. `unread` and `missed` are history: the tree changed since a pass last read it, and a call saw such a change that no pass has read since. |
| `ColumnFamilies` | registry and lifetimes | each teardown step of a drop is an action; `notifying` is the event that holds the listener's mutex. |
| `BitLSMIteratorProofs`, `ScanOrderProofs`, `StatsRefreshProofs`, `ColumnFamiliesProofs`, `TableScanProofs`, `MergingScanProofs`, `BinLoadingProofs`, `QueryProofs` | theorems | section 5. |
| `MC_*` | instances for TLC | |

`PROJECT.json` maps every definition to the lines it models. Definitions whose
comment begins with "Mutant" are wrong variants of the definition that follows
them; each shows that a property fails when the code is changed that way, and no
specification uses them.

## 3. Runs

Passing runs:

| Run | Bounds | Shows |
|---|---|---|
| `scan_versions` | 1 key, a matching value and one that only shares its bin, 3 writes, 3 memtables, 2 levels, 1 caller's snapshot, both result modes | RowsCorrect, SnapshotReadsStable, CandidateSuperset |
| `scan_batches` | 2 keys, DeleteRange over both, batches of 1 row, 3 writes, 3 memtables, 2 levels | ScanComplete, OrderedOnce, AuthorityHolds, SoundButForOwnRanges |
| `scan_faults` | 2 keys, a matching value and another, reads may fail, batches of 1 row, 3 writes, 2 memtables, 1 level, a sample of 1 key; with plain values and with values only MultiGet resolves | ShadowCheckSound, ScanComplete, StatusSticky, FetchReturns |
| `table_scan` | 2 and 4 blocks, window of 2, 2 seeks, failures | IsOrderedScan, BufferHoldsItsBlock, LoadNextBlockReturns |
| `merging_scan` | memtable, L0 and levels with empty tables, 3 seeks, failures | IsOrderedScan, ReadTablesPinned, NoHandleLeaked |
| `sabi_index` | six schemas with their own values and queries, see below; files of up to 2 to 5 rows, up to 2 live files | RowsReadBack, CandidatesCoverMatches, EncodingExact, RowsInTheirBins, OnlyEndBinsWaste, MassConserved, ZeroMeansAbsent |
| `bin_loading` | 3 bins and the tombstone bin, with and without tombstones, with and without a cache, up to 2 prefetch slots, 3 copies of a bin in memory; empty, single, range, AND and OR queries | CacheHoldsOwnBins, PinsMatchCache, SameAsResident, LoadingReturns |
| `stats_refresh` | 2 files below and above the drift threshold, 2 versions, 1 refresh | NoLostWakeup, RefreshSawCall, BuiltFromLastPass, StatsCatchUp, DestructorReturns, RefreshReturns |
| `families` | 2 threads, 2 names, 2 families beside the default, 2 events, drops may fail | ListenerCallsLive, WorkerHasHandle, RegisteredUsable, TornDownOnce, RegistryMatchesRocksDB, CallsReturn |

The schemas of `sabi_index`, on words of two bytes with four values each: *Mixed*
(a nullable narrow integer whose sign is extended, and an equality string; every
query of up to two conditions, and queries Validate refuses), *Strings* (variable,
fixed and nullable strings side by side), *Floats* (both zeros, a NaN, the least
positive and negative), *Binning* (five rows, four values, three bins), *Words* and
*Dictionary* (two files each, harvested and estimated; a dictionary beyond
`kMaxTrackedValues`). In the estimator's properties a file can be unreadable or
lack SABI.

Runs that end with a counterexample, each for a sentence of the code's comments
the code does not keep:

* `scan_own_range`: a range tombstone in the candidate's own file is overlooked,
  so a deleted row is served (`bit_lsm_shadow_check.h:16`). BitLSM has no
  DeleteRange; it takes the database from `GetInternalDB()`.
* `scan_empty_key`: the row with the empty key is never returned
  (`bit_lsm_iterator.h:104`), because the duplicate test starts from "".
* `stats_refresh_open`: an event between the worker's first pass and `Arm` is
  lost and the statistics stay stale until the next one (`bit_lsm_estimator.h:160`).

One more consequence of the code worth knowing: after RocksDB refuses a drop, the
family is gone from the registry and still exists in RocksDB, so its name cannot
be created again before the database is reopened. `RegistryMatchesRocksDB` states
the agreement with exactly this exception.

The estimator departs from its comments in more places; they shaped how its
properties are stated, and are recorded here:

* `End()` saturates when the axis spans every 64-bit word, so it does not lie past
  max (`bit_lsm_estimator.h:56`) and `EQUAL max` or `>= max` is estimated as
  nothing. `ZeroMeansAbsent` leaves a saturated axis out.
* `Estimate` skips an OR clause whose members were all empty as "trivially
  satisfiable" (`bit_lsm_estimator.cpp:412`) and does not look at `unsat`;
  `EncodeQuery` leaves such a clause for "satisfiable by nothing"
  (`bit_lsm_query.cpp:274`).
* For okeys the window is "the okey scaled by a power of two"
  (`bit_lsm_estimator.h:34`) only if the boundaries use all 256 byte values.
* Bytes outside the radix are clamped, so an open end can share the coordinate of
  a value inside it, and its window be empty.
* A value only in a file without SABI is "absent from an exact dictionary"
  (`bit_lsm_estimator.cpp:361`), and estimated as matching nothing.

And in the span prefetch: a buffer "is freed once fully consumed" (`sabi.h`), but a
run consumed in pieces leaves its padding gaps unaccounted, so the buffer stays
until the scan ends. No row depends on it.

Why the bounds suffice. Three writes are an old version, a newer one and one
after the snapshot; three memtables let each of them be flushed alone, and two
levels let them meet in every order in L0, L1 and L2. The constants 4096 (sample
size), 1024 (batch) and 16 (restart interval) are 1 or 2, 1, and 2, so that the
check is switched off, batches end and restart points occur within the bound. The
first entry of a file is at a restart point and always fetched again; a file can
only contribute a clean row at its second entry, which takes two keys. The shadow
check's soundness is therefore shown in two runs. In `scan_faults` a matching row
at index 1 of a file meets a newer version in the same file or in a memtable, and
a first batch without a skip switches the check off for the second; its two
memtables allow one flush. In `scan_batches` two flushes let the newer version lie
in another L0 file or a higher level; there range deletions are possible, so the
property leaves out the rows whose own file has some (`scan_own_range`). A
window of two slots over four blocks reuses each slot; two threads and two
ids allow a name to be dropped, created again and dropped through both handles.
Three bins of which the tombstone bin is a neighbour of the last give runs that
touch, stay apart or merge depending on what is cached; three copies of a bin are
the one in the cache, one the scan still borrows and one being inserted. The bound
`Copies` only stops further inserts by other scans: the scan itself always finds a
free copy, since `LoadingReturns` holds without any fairness for eviction. More
than two runs, and so runs dropped at the slot cap, do not occur.
`MaxCheckedKeys` stops re-seeks once keys were judged; without it the counters
would grow for ever. `MaxInstalls`, `MaxRefreshes`, `MaxEvents`, `MaxIds`,
`MaxSeeks`, `MaxSeq`, `MaxSnapshots` and `MaxRows` bound what their names say.

`stats_refresh` sets `ArmedFirst`, so that no version is installed before `Arm`;
`stats_refresh_open` is the case it excludes.

## 4. Fairness

* `WF(Fetching)` in the scan: FetchNextBatch runs on the caller's thread and
  never waits, so once called it goes on.
* `WF(Iterating)` in `TableScan`: likewise LoadNextBlock.
* `WF(Scan)` in `BinLoading`: the constructor runs on the caller's thread and its
  reads return, with an error or without; other scans and the cache are free to do
  nothing.
* `StatsRefresh`: RocksDB delivers an event after each install, a thread that has
  unlocked the mutex goes on to notify_all, RegisterColumnFamily goes on to Arm,
  and the worker and the refreshing client run when awake. Neither installs, nor
  calls of TEST_Refresh, nor the destructor are assumed to happen. The destructor
  and a waiting TEST_Refresh overlap freely; the model takes it that the mutex and
  the condition variable outlive a caller that `stop_` has released but that has
  not left TEST_Refresh yet when the worker is joined, which the code leaves to
  its callers.
* `ColumnFamilies`: a NotifyChange that began ends (it only raises a counter), and
  a create or drop that began takes its next step when it can. Mutexes are held
  for finite stretches; nothing is assumed about calls that have not begun.

## 5. Proofs

TLAPS checks every leaf.

* `TypeCorrect == Spec => []TypeOK` (`BitLSMIteratorProofs`), from
  `StoreAssumption` and `IteratorAssumption`. TypeOK is inductive as it stands. The
  store's half is one lemma for all background steps (`StoreStepType`); the scan's
  half needs that leaves offer well-formed candidates (`StreamType`), that MultiGet
  returns rows (`MultiGetType`) and, for the unsigned `skipped_keys_`, that no more
  candidates are dirty than there are (`PositionsFinite`).
* `RowsAscend == Spec => []OrderedOnce` (`ScanOrderProofs`), with TypeCorrect. The
  property speaks of the rows already shown; `OrderInv` adds why the next one is
  above them. Candidates and batch rows ascend (`BatchesAscend`), no key exceeds
  `latest_user_key_added_` (`WithinLatest`), the merge has reached that key or
  nothing was collected (`LatestReached`), and what was shown lies below the
  candidates, or at most at the row the client is at (`ShownSoFar`). A re-fetched
  row cannot disturb the order because MultiGet answers with the key it was asked
  for (`VerdictKey`). TLC found no violation of `OrderInv` on the constants of
  `scan_batches` and `scan_faults`.
* `ErrorsStay == Spec => StatusSticky` (`ScanOrderProofs`), action by action; it
  needs no invariant.
* `WakeupsKept == Spec => []NoLostWakeup` (`StatsRefreshProofs`). Inductive once
  the counters are known to be numbers and the client to sleep only while it waits
  (`WakeupInv`): a thread falls asleep only in
  the step that finds its predicate false, and whatever makes it true owes a
  notify_all.
* `RefreshSeesCall == Spec => []RefreshSawCall` (`StatsRefreshProofs`). The property
  speaks of a returned caller only, so `RefreshInv` adds `PassCoversCall`: while the
  caller waits, a pass whose target covers the caller's generation, running or
  finished, read the tree after the call; and `CountersOK` orders the counters.
* `StatsBuiltRight == Spec => []BuiltFromLastPass` (`StatsRefreshProofs`). The property
  speaks of an idle worker; `BuiltInv` adds the pass about to be recorded, which has
  rebuilt from the set it read or found the built set fresh enough.

* `ListenerSafe`, `WorkersSafe`, `RegistrySafe`, `OneTearsDown`, `RegistryAgrees`
  (`ColumnFamiliesProofs`): the five invariants of `families`, for any threads,
  names, ids and events. None is inductive alone. `IInv` follows one id through its
  life: `cf_mu_` is held exactly between the halves of a create (`LockHeld`), which
  knows a family the registry does not know yet (`Registering`); a family a drop
  moved out belongs to that call alone and is disarmed, dropped, joined and
  destroyed in this order (`Owning`); and every family RocksDB has and the registry
  has not is accounted for by a call or a refused drop (`Accounted`).
* `BuffersRight == Spec => []BufferHoldsItsBlock` (`TableScanProofs`), from
  `TableAssumption`. The property looks at the buffer handed out, the invariant at
  every slot: one whose submit went through holds the block of the target it notes,
  even a target of before a re-seek.
* `HandlesBalance == Spec => []NoHandleLeaked` and `TablesPinned == Spec =>
  []ReadTablesPinned` (`MergingScanProofs`), from `MergeAssumption`. The invariant
  counts: while the merge is open, the references to a table are those the
  destructors will give back (`Counted`), and a child on the heap stands in one of
  its tables, a level in the one it holds (`Placed`).
* `CacheCorrect == Spec => []CacheHoldsOwnBins` (`BinLoadingProofs`), from
  `BinAssumption` (padded starts do not overlap). What InsertBin enters depends on
  where the arena's bytes start, so `Arena` says that they start at the run's first
  bin, whether they were read or copied from a prefetch slot.
* `BytesOrder`, `IntersectExact`, `EmptySound`, `ConditionExact` (`QueryProofs`),
  about the operators themselves and for every word size: comparing SABI bytes is
  comparing values natively, NaNs apart; Intersect is intersection; what Empty
  reports holds nothing; and a condition's interval holds the bytes of exactly the
  values the condition accepts. With them the encoding of a query loses no row
  whatever its values are; `EncodingExact` checks the assembly of clauses.

Only model-checked: the other invariants, all liveness (fairness and ENABLED are
out of the prover's reach), the refinements of `OrderedScan`, and what the index
and the statistics compute, which for every input would need induction over data.

## 6. Abstractions and what is not modelled

* Keys, and values in the scan's modules, are numbers in byte order. In the index's
  modules they go through the encodings; strings consist of equal bytes, so that a
  number orders them, and floats have the width of a word (4-byte floats are
  widened on reading and are left out).
* Doubles of the estimator are exact fractions; rounding is not modelled. Estimates
  are asked for queries with closed ends. The memtable's entry count, which Estimate
  adds to its result and nothing else reads, is left out.
* `BinLoading` follows one scan; the others are arbitrary inserts and evictions of
  right bins, which is what `CacheHoldsOwnBins` says this scan contributes. A
  corrupted bin aborts by design (`bit_lsm_option.h:82-87`) and is not modelled.
  PlanAndSubmit's probes are one step. `MaxSlots` and the file's layout are
  constants.
* A leaf of `BitLSMIterator` sees one data block per file; a bloom filter may
  answer "maybe" for any key. The shadow check's own table handles are left out.
* A block or table either loads or fails; corruption discovered while a loaded
  block is walked is not modelled, nor byte offsets and their 32-bit width.
* The pacing interval of the worker is a step it may take at any time; clocks are
  not modelled.
* Concurrent clients of one handle after its drop are excluded, as the handle's
  documentation does.
* Not modelled: the byte layout of the SABI blob with its parsing and validation
  (stateless, and length checks over bytes), the factory (which builds readers and
  builders and checks a header), ValidateAttrSpecs (its result is an assumption),
  benchmark helpers. Hazards no property covers are listed in `PROJECT.json` with
  the reason.

## 7. Plan

Done: the modules above, in the order store and scan, refresh, families, index,
table scan, merge, encodings, bins on demand, estimation.

1. Next to model: the shadow check's handle cache; parsing and validation of a
   blob's layout; block offsets with their 32 bits.
2. Next to prove: `PinsMatchCache` and `SameAsResident`; that `MergingScan`
   implements `OrderedScan`; then `ShadowCheckSound` and `RowsCorrect` without range
   deletions, from an invariant that orders versions over memtables and levels.
