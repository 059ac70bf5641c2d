------------------------------ MODULE BinLoading ------------------------------
(***************************************************************************)
(* How one file's scan gets at its bitmap bins when the reader keeps only  *)
(* the metadata in memory: SABITableIterator's constructor and             *)
(* BuildQueryBitmap (sabi_table_iterator.cpp), SABIReader's Bin, BinRange  *)
(* and LoadRun and the SABISpanPrefetch that overlaps their reads          *)
(* (sabi_reader.cpp).                                                      *)
(*                                                                         *)
(* Bins count from 0 in flat order; the last one is the tombstone.  A      *)
(* decoded bin is a memory cell that holds the file offset its view starts *)
(* at: a view shows the bin stored there, so a wrong offset or a freed     *)
(* cell is seen.  One action makes at most one call of the shared block    *)
(* cache, which other scans fill, replace and evict between any two.       *)
(***************************************************************************)
EXTENDS Integers, FiniteSets, Sequences, SequencesExt, FiniteSetsExt

CONSTANTS
  Files,      \* per flat bin: start (padded), size, rows; and the rows of the file
  Queries,    \* CNF: clauses of conditions, each the BinSelection that SelectBins makes
  MaxSlots,   \* kMaxSlots
  Copies      \* cells per bin (bound)

ASSUME BinAssumption ==
  /\ \A f \in Files :
       /\ f.tombstone \in Nat
       /\ f.start \in [0 .. f.tombstone -> Nat]
       /\ f.size \in [0 .. f.tombstone -> Nat \ {0}]
       /\ \A b \in 0 .. f.tombstone - 1 : f.start[b] + f.size[b] <= f.start[b + 1]
  /\ \A q \in Queries, f \in Files : \A c \in DOMAIN q : \A s \in Range(q[c]) :
       s.first .. s.last \subseteq 0 .. f.tombstone - 1
  /\ MaxSlots \in Nat
  /\ Copies \in Nat \ {0}

VARIABLES
  file,
  cache_on,         \* BinCache() is not null
  async_unavailable,\* the process-wide flag
  entry,            \* the block cache: the cell of each bin's entry, 0 if none
  heap,             \* file offset each cell's view starts at, or Freed
  refs,             \* cache handles this scan holds on each cell
  query,
  pc,
  status,
  runs,             \* miss runs still to be submitted
  slots,            \* SABISpanPrefetch::slots_
  span,             \* the Bin or BinRange call in progress
  pinned_bins,
  tombstone,
  clause,           \* clause being evaluated; 0 while the tombstone is loaded
  conds,            \* bitmaps of its conditions so far
  acc,              \* AND of the clauses so far
  query_bitmap

planVars == <<async_unavailable, runs>>
cacheVars == <<entry, heap, refs>>
buildVars == <<tombstone, clause, conds, acc, query_bitmap>>
fixedVars == <<file, cache_on, query>>
vars == <<fixedVars, planVars, cacheVars, pc, status, slots, span, pinned_bins, buildVars>>

Bins == 0 .. file.tombstone
Cells == Bins \X (1 .. Copies)
Freed == -1
NoCell == <<-1, 0>>
NoPin == [cell |-> NoCell, handle |-> FALSE]

\* A bitmap: a view borrowed from a cell, or rows in bitmap_pool_.
View(c) == [cell |-> c, rows |-> {}]
Pooled(R) == [cell |-> NoCell, rows |-> R]
EmptyBitmap == Pooled({})

\* What a view that starts at an offset shows: a bin, or bytes that are none.
Garbage == {-1}
Shown(at) == UNION ({file.rows[b] : b \in {c \in Bins : file.start[c] = at}}
                      \cup (IF \E c \in Bins : file.start[c] = at THEN {} ELSE {Garbage}))
Rows(bm) == IF bm.cell = NoCell THEN bm.rows ELSE Shown(heap[bm.cell])

\* Padded start of a to the exact end of b: the alignment gaps ride along.
RunLen(a, b) == (file.start[b] - file.start[a]) + file.size[b]

\* Maximal contiguous runs of a set of bins.
Runs(S) == {r \in S \X S : /\ r[1] <= r[2]
                           /\ r[1] .. r[2] \subseteq S
                           /\ r[1] - 1 \notin S /\ r[2] + 1 \notin S}

\* They are handled in flat order.
IsFirst(run, R) == run \in R /\ \A other \in R : run[1] <= other[1]

------------------------------------------------------------------------------
(* The block cache, as a scan or another user of it changes it.            *)

\* The heap once bin b's entry has left the cache: a handle keeps the cell alive.
Erased(b) ==
  IF entry[b] # 0 /\ refs[<<b, entry[b]>>] = 0
    THEN [heap EXCEPT ![<<b, entry[b]>>] = Freed]
    ELSE heap

\* A cell for a new decoded bin; the bound is that one is free.
HasFreeCell(b) == \E k \in 1 .. Copies : heap[<<b, k>>] = Freed
FreeCell(b, at) == CHOOSE k \in 1 .. Copies : at[<<b, k>>] = Freed

\* Another scan loads the bin: a new entry, in place of the old one if there is one.
OtherInsert(b) ==
  /\ cache_on /\ HasFreeCell(b)
  /\ LET k == FreeCell(b, Erased(b))
     IN  /\ entry' = [entry EXCEPT ![b] = k]
         /\ heap' = [Erased(b) EXCEPT ![<<b, k>>] = file.start[b]]
  /\ UNCHANGED <<fixedVars, planVars, refs, pc, status, slots, span, pinned_bins,
                 buildVars>>

\* The cache evicts an entry nobody holds.
Evict(b) ==
  /\ entry[b] # 0 /\ refs[<<b, entry[b]>>] = 0
  /\ entry' = [entry EXCEPT ![b] = 0]
  /\ heap' = Erased(b)
  /\ UNCHANGED <<fixedVars, planVars, refs, pc, status, slots, span, pinned_bins,
                 buildVars>>

\* SABIPinnedBin::Release gives back the handle, or frees the bin the pin owns.
Release(p) ==
  /\ refs' = IF p.handle THEN [refs EXCEPT ![p.cell] = @ - 1] ELSE refs
  /\ heap' = IF refs'[p.cell] = 0 /\ entry[p.cell[1]] # p.cell[2]
               THEN [heap EXCEPT ![p.cell] = Freed]
               ELSE heap
  /\ UNCHANGED entry

------------------------------------------------------------------------------
(* SABISpanPrefetch.                                                       *)

\* The bins of every condition, and the tombstone unless it is known to be empty.
Selected == (UNION {UNION {s.first .. s.last : s \in Range(query[c])} : c \in DOMAIN query})
              \cup (IF file.rows[file.tombstone] = {} THEN {} ELSE {file.tombstone})

\* PlanAndSubmit, up to the runs to submit.  The probes are one step: whatever a sweep
\* interleaved with other scans can find, those scans can bring about before it.  A lone
\* run overlaps nothing, and runs past the slot cap are dropped.
PlanRuns ==
  /\ pc = "plan"
  /\ LET misses == Runs({b \in Selected : entry[b] = 0})
     IN  runs' = IF async_unavailable \/ Cardinality(misses) < 2
                   THEN {}
                   ELSE {r \in misses : Cardinality({o \in misses : o[1] < r[1]}) < MaxSlots}
  /\ pc' = IF runs' = {} THEN "select" ELSE "submit"
  /\ UNCHANGED <<fixedVars, async_unavailable, cacheVars, status, slots, span, pinned_bins,
                 buildVars>>

\* Submit of the next run.  PrefetchAsync starts the read, has the bytes already, fails,
\* or is not supported at all, which drops this run and the rest.
Submit(run) ==
  /\ pc = "submit" /\ IsFirst(run, runs)
  /\ \/ /\ ~async_unavailable
        /\ \E state \in {"kSubmitted", "kPopulated"} :
             slots' = Append(slots, [offset |-> file.start[run[1]],
                                     len |-> RunLen(run[1], run[2]),
                                     remaining |-> RunLen(run[1], run[2]),
                                     state |-> state])
        /\ UNCHANGED async_unavailable
     \/ UNCHANGED <<slots, async_unavailable>>
     \/ /\ async_unavailable' = TRUE
        /\ UNCHANGED slots
  /\ runs' = runs \ {run}
  /\ pc' = IF runs' = {} THEN "select" ELSE "submit"
  /\ UNCHANGED <<fixedVars, cacheVars, status, span, pinned_bins, buildVars>>

\* The slot that holds the whole range; runs are disjoint, so there is at most one.
Holding(offset, len) ==
  {i \in DOMAIN slots : /\ slots[i].offset <= offset
                        /\ offset + len <= slots[i].offset + slots[i].len}

\* Mutant: the copy starts at the run's first byte, not at the bin's.
CopiedFrom_RunStart(i, offset) == slots[i].offset

\* The bytes copied out of a buffer start at the wanted offset.
CopiedFrom(i, offset) == slots[i].offset + (offset - slots[i].offset)

\* Copying len bytes out of slot i; a drained buffer is freed.
Drained(i, len) ==
  LET left == IF len < slots[i].remaining THEN slots[i].remaining - len ELSE 0
  IN  [slots EXCEPT ![i] = [offset |-> @.offset, len |-> @.len, remaining |-> left,
                            state |-> IF left = 0 THEN "kDead" ELSE "kPopulated"]]

------------------------------------------------------------------------------
(* SABIReader::Bin and BinRange; Bin is a range of one bin.                *)

NoSpan == [first |-> 0, last |-> -1, pins |-> <<>>, next |-> 0, run |-> <<0, -1>>, from |-> 0]

Missing == {b \in span.first .. span.last : span.pins[b] = NoPin}

\* Hands the bitmap of the tombstone or of a condition to BuildQueryBitmap.
Deliver(bm) ==
  /\ IF clause = 0
       THEN /\ tombstone' = bm /\ clause' = 1
            /\ UNCHANGED conds
       ELSE /\ conds' = Append(conds, bm)
            /\ UNCHANGED <<tombstone, clause>>
  /\ pc' = "select"
  /\ span' = NoSpan

\* One probe after the other; a hit pins the entry.
ProbeBin ==
  /\ pc = "probe"
  /\ LET b == span.next
         c == <<b, entry[b]>>
     IN  /\ IF entry[b] # 0
              THEN /\ refs' = [refs EXCEPT ![c] = @ + 1]
                   /\ span' = [span EXCEPT !.next = b + 1,
                                           !.pins[b] = [cell |-> c, handle |-> TRUE]]
              ELSE /\ span' = [span EXCEPT !.next = b + 1]
                   /\ UNCHANGED refs
         /\ pc' = IF b = span.last THEN "load" ELSE "probe"
  /\ UNCHANGED <<fixedVars, planVars, entry, heap, status, slots, pinned_bins,
                 buildVars>>

\* The run's bytes are in the arena; its first one is file byte from.
Loaded(run, from) ==
  /\ span' = [span EXCEPT !.run = run, !.next = run[1], !.from = from]
  /\ pc' = "insert"

\* One read of the run, which can fail or come up short.
Read(run) ==
  \/ Loaded(run, file.start[run[1]])
  \/ pc' = "unwind" /\ UNCHANGED span

\* LoadRun, up to the bytes: a prefetched buffer if one holds the whole run, else one
\* read.  A run the prefetch lost (failed or short) is dead and read the ordinary way; a
\* failed or short read fails the call.
ReadRun(run) ==
  /\ pc = "load" /\ IsFirst(run, Runs(Missing))
  /\ LET offset == file.start[run[1]]
         len == RunLen(run[1], run[2])
         live == {i \in Holding(offset, len) : slots[i].state # "kDead"}
     IN  \/ /\ live = {}
            /\ Read(run)
            /\ UNCHANGED slots
         \/ \E i \in live :
              /\ Loaded(run, CopiedFrom(i, offset))
              /\ slots' = Drained(i, len)
         \/ \E i \in live :
              /\ slots[i].state = "kSubmitted"
              /\ Read(run)
              /\ slots' = [slots EXCEPT ![i].state = "kDead"]
  /\ UNCHANGED <<fixedVars, planVars, cacheVars, status, pinned_bins, buildVars>>

Pin(b, k, handle) ==
  span' = [span EXCEPT !.next = b + 1, !.pins[b] = [cell |-> <<b, k>>, handle |-> handle]]

\* LoadRun's loop over the run: decode the bin inside the arena and offer it to the
\* cache, which takes it (replacing what another scan entered) or refuses it; without a
\* cache, or refused, the pin owns the bin.
InsertBin ==
  /\ pc = "insert" /\ HasFreeCell(span.next)
  /\ LET b == span.next
         at == span.from + (file.start[b] - file.start[span.run[1]])
     IN  /\ \/ LET k == FreeCell(b, Erased(b))
               IN  /\ cache_on
                   /\ entry' = [entry EXCEPT ![b] = k]
                   /\ heap' = [Erased(b) EXCEPT ![<<b, k>>] = at]
                   /\ refs' = [refs EXCEPT ![<<b, k>>] = 1]
                   /\ Pin(b, k, TRUE)
            \/ LET k == FreeCell(b, heap)
               IN  /\ heap' = [heap EXCEPT ![<<b, k>>] = at]
                   /\ Pin(b, k, FALSE)
                   /\ UNCHANGED <<entry, refs>>
         /\ pc' = IF b = span.run[2] THEN "load" ELSE "insert"
  /\ UNCHANGED <<fixedVars, planVars, status, slots, pinned_bins, buildVars>>

\* Every bin is there: the pins move to pinned_bins_; one bin is borrowed, several are
\* united into the pool.
AppendPins ==
  /\ pc = "load" /\ Missing = {}
  /\ LET bins == span.first .. span.last
         views == [b \in bins |-> View(span.pins[b].cell)]
     IN  /\ pinned_bins' = pinned_bins \o [i \in 1 .. Cardinality(bins) |->
                                             span.pins[span.first + i - 1]]
         /\ Deliver(IF span.first = span.last
                      THEN views[span.first]
                      ELSE Pooled(UNION {Rows(views[b]) : b \in bins}))
  /\ UNCHANGED <<fixedVars, planVars, cacheVars, status, slots, acc, query_bitmap>>

\* Mutant: a failed load drops the pins it has without releasing them.
Unwind_NoRelease ==
  /\ pc = "unwind"
  /\ status' = "Corruption"
  /\ Deliver(EmptyBitmap)
  /\ UNCHANGED <<fixedVars, planVars, cacheVars, slots, pinned_bins, acc, query_bitmap>>

\* Mutant: a failed load leaves the status as it was.
Unwind_NoStatus ==
  /\ pc = "unwind"
  /\ LET held == {b \in DOMAIN span.pins : span.pins[b] # NoPin}
     IN  \/ /\ held # {}
            /\ Release(span.pins[Min(held)])
            /\ span' = [span EXCEPT !.pins[Min(held)] = NoPin]
            /\ UNCHANGED <<pc, tombstone, clause, conds>>
         \/ /\ held = {}
            /\ Deliver(EmptyBitmap)
            /\ UNCHANGED cacheVars
  /\ UNCHANGED <<fixedVars, planVars, status, slots, pinned_bins, acc, query_bitmap>>

\* Mutant: a failed load is tried again.
Unwind_Retries ==
  /\ pc = "unwind"
  /\ pc' = "load"
  /\ UNCHANGED <<fixedVars, planVars, cacheVars, status, slots, span, pinned_bins,
                 buildVars>>

\* A failed load releases its pins one by one and shows as the empty bitmap and an error.
Unwind ==
  /\ pc = "unwind"
  /\ LET held == {b \in DOMAIN span.pins : span.pins[b] # NoPin}
     IN  \/ /\ held # {}
            /\ Release(span.pins[Min(held)])
            /\ span' = [span EXCEPT !.pins[Min(held)] = NoPin]
            /\ UNCHANGED <<pc, status, tombstone, clause, conds>>
         \/ /\ held = {}
            /\ status' = "Corruption"
            /\ Deliver(EmptyBitmap)
            /\ UNCHANGED cacheVars
  /\ UNCHANGED <<fixedVars, planVars, slots, pinned_bins, acc, query_bitmap>>

------------------------------------------------------------------------------
(* SABITableIterator.                                                      *)

\* What the query selects when every bin is in memory (a resident reader).
Resident ==
  LET Cond(s) == UNION {file.rows[b] : b \in s.first .. s.last}
      Clause(c) == UNION {Cond(s) : s \in Range(query[c])}
  IN  {r \in file.all : /\ \A c \in DOMAIN query : r \in Clause(c)
                        /\ r \notin file.rows[file.tombstone]}

\* The constructor: pin the reader, which can fail; give up early on a query the
\* boundaries rule out; plan the prefetch.
Open ==
  /\ pc = "open"
  /\ \/ /\ status' = "NotFound" /\ pc' = "scan"
     \/ /\ Resident = {} /\ pc' = "scan"
        /\ UNCHANGED status
     \/ /\ pc' = "plan"
        /\ UNCHANGED status
  /\ UNCHANGED <<fixedVars, planVars, cacheVars, slots, span, pinned_bins, buildVars>>

\* The next bitmap BuildQueryBitmap asks for: the tombstone, unless its cardinality is
\* zero, then the conditions.  A condition without bins is the empty bitmap.
AskBins ==
  /\ pc = "select"
  /\ clause = 0 \/ (clause \in DOMAIN query /\ Len(conds) + 1 \in DOMAIN query[clause])
  /\ LET sel == IF clause # 0 THEN query[clause][Len(conds) + 1]
                ELSE [first |-> file.tombstone, last |-> file.tombstone]
         none == sel.last < sel.first \/ (clause = 0 /\ file.rows[file.tombstone] = {})
     IN  \/ /\ none
            /\ Deliver(EmptyBitmap)
         \/ /\ ~none
            /\ span' = [NoSpan EXCEPT !.first = sel.first, !.last = sel.last,
                                      !.next = sel.first,
                                      !.pins = [b \in sel.first .. sel.last |-> NoPin]]
            /\ pc' = "probe"
            /\ UNCHANGED <<tombstone, clause, conds>>
  /\ UNCHANGED <<fixedVars, planVars, cacheVars, status, slots, pinned_bins, acc,
                 query_bitmap>>

\* BuildQueryBitmap returns; its locals are gone.
Return(bm) ==
  /\ query_bitmap' = bm /\ pc' = "scan"
  /\ tombstone' = EmptyBitmap /\ clause' = 0 /\ conds' = <<>> /\ acc' = EmptyBitmap

\* Filters the tombstones out of the result, borrowing it where there are none.
Filtered(bm) == IF Rows(tombstone) = {} THEN bm ELSE Pooled(Rows(bm) \ Rows(tombstone))

\* An empty query is a full scan.
FullScan ==
  /\ pc = "select" /\ clause = 1 /\ query = <<>>
  /\ Return(Filtered(Pooled(file.all)))
  /\ UNCHANGED <<fixedVars, planVars, cacheVars, status, slots, span, pinned_bins>>

\* All conditions of a clause are there: OR them, AND the clause to the others, and stop
\* at an empty result.
EndClause ==
  /\ pc = "select" /\ clause \in DOMAIN query /\ Len(conds) = Len(query[clause])
  /\ LET this == CASE conds = <<>> -> EmptyBitmap
                   [] Len(conds) = 1 -> conds[1]
                   [] OTHER -> Pooled(UNION {Rows(conds[i]) : i \in DOMAIN conds})
         both == IF clause = 1 THEN this ELSE Pooled(Rows(acc) \cap Rows(this))
     IN  \/ /\ Rows(both) = {}
            /\ Return(EmptyBitmap)
         \/ /\ Rows(both) # {} /\ clause = Len(query)
            /\ Return(Filtered(both))
         \/ /\ Rows(both) # {} /\ clause < Len(query)
            /\ acc' = both /\ clause' = clause + 1 /\ conds' = <<>>
            /\ UNCHANGED <<tombstone, query_bitmap, pc>>
  /\ UNCHANGED <<fixedVars, planVars, cacheVars, status, slots, span, pinned_bins>>

\* The destructor, once the scan is over: the prefetch aborts its reads, the pins go.
Close ==
  /\ pc = "scan" /\ pinned_bins # <<>>
  /\ Release(Head(pinned_bins))
  /\ pinned_bins' = Tail(pinned_bins)
  /\ slots' = <<>> /\ query_bitmap' = EmptyBitmap /\ status' = "Closed"
  /\ UNCHANGED <<fixedVars, planVars, pc, span, tombstone, clause, conds, acc>>

------------------------------------------------------------------------------

Init ==
  /\ file \in Files /\ query \in Queries
  /\ cache_on \in BOOLEAN /\ async_unavailable \in BOOLEAN
  /\ \E hits \in SUBSET Selected :
       /\ ~cache_on => hits = {}
       /\ entry = [b \in Bins |-> IF b \in hits THEN 1 ELSE 0]
       /\ heap = [c \in Cells |-> IF c[1] \in hits /\ c[2] = 1 THEN file.start[c[1]] ELSE Freed]
  /\ refs = [c \in Cells |-> 0]
  /\ pc = "open" /\ status = "OK"
  /\ runs = {} /\ slots = <<>> /\ span = NoSpan /\ pinned_bins = <<>>
  /\ tombstone = EmptyBitmap /\ clause = 0 /\ conds = <<>>
  /\ acc = EmptyBitmap /\ query_bitmap = EmptyBitmap

\* The scan's own steps.
Scan == \/ Open \/ PlanRuns \/ AskBins \/ ProbeBin \/ InsertBin
        \/ (\E run \in runs : Submit(run)) \/ (\E run \in Runs(Missing) : ReadRun(run))
        \/ AppendPins \/ Unwind \/ FullScan \/ EndClause \/ Close

\* What becomes of bins the query does not select is no concern of this scan.
Next == Scan \/ \E b \in Selected : OtherInsert(b) \/ Evict(b)

\* A scan's thread runs and its reads return; nothing is assumed of the other scans.
Fairness == WF_vars(Scan)

Spec == Init /\ [][Next]_vars /\ Fairness

------------------------------------------------------------------------------
(* Properties.                                                             *)

\* Whatever order scans probe, read, insert and evict in, a bin's cache entry shows that
\* bin: LoadRun's arithmetic on a run that may start before the bin, in a buffer that may
\* start before the run, never enters other bytes under its key, where every later scan
\* would take them for the bin.
CacheHoldsOwnBins ==
  \A b \in Bins : entry[b] # 0 => heap[<<b, entry[b]>>] = file.start[b]

\* The handles the cache counts are exactly the pins of the scan, in pinned_bins_ or in a
\* BinRange call under way, and each of them still shows its bin: no failure, refusal or
\* replaced entry leaks a handle, gives one back twice or frees a bin that is in use.
PinsMatchCache ==
  LET Held(c) == Cardinality({i \in DOMAIN pinned_bins : pinned_bins[i] = [cell |-> c, handle |-> TRUE]})
               + Cardinality({b \in DOMAIN span.pins : span.pins[b] = [cell |-> c, handle |-> TRUE]})
      pins == Range(pinned_bins) \cup (Range(span.pins) \ {NoPin})
  IN  /\ \A c \in Cells : refs[c] = Held(c)
      /\ \A p \in pins : heap[p.cell] = file.start[p.cell[1]]

\* A scan that reports no error works on the bitmap a resident reader would have given
\* it, for as long as it runs: a bin that cannot be read, an evicted or replaced entry, a
\* prefetched run that fails or is drained never silently adds or drops a row.
SameAsResident == pc = "scan" /\ status = "OK" => Rows(query_bitmap) = Resident

\* BuildQueryBitmap returns: no combination of hits, misses and failed reads keeps a scan
\* loading for ever.
LoadingReturns == pc = "plan" ~> pc = "scan"
==============================================================================
