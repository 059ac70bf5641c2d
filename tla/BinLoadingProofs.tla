-------------------------- MODULE BinLoadingProofs ---------------------------
(***************************************************************************)
(* A bin's cache entry shows that bin, for every file layout, set of       *)
(* queries, slot cap and number of decoded copies.                         *)
(*                                                                         *)
(* CacheHoldsOwnBins is not inductive: what InsertBin enters depends on    *)
(* where the run's bytes start (Arena), which a prefetch slot may decide   *)
(* (Prefetched), on a run of the selected bins (Asked).                    *)
(***************************************************************************)
EXTENDS BinLoading, TLAPS

Slots == [offset : Int, len : Int, remaining : Int,
          state : {"kSubmitted", "kPopulated", "kDead"}]

Typed ==
  /\ file \in Files /\ query \in Queries
  /\ entry \in [Bins -> 0 .. Copies]
  /\ heap \in [Cells -> Int]

Prefetched ==
  /\ runs \subseteq Bins \X Bins
  /\ slots \in Seq(Slots)

Calling == {"probe", "load", "insert"}
Asked ==
  /\ span = [first |-> span.first, last |-> span.last, pins |-> span.pins,
             next |-> span.next, run |-> span.run, from |-> span.from]
  /\ pc \in Calling => span.first .. span.last \subseteq Bins

Arena ==
  pc = "insert" => span.run[1] \in Bins /\ span.from = file.start[span.run[1]]

IInv == Typed /\ Prefetched /\ Asked /\ Arena /\ CacheHoldsOwnBins

------------------------------------------------------------------------------
(* Layout and cells.                                                       *)

\* A file has a start and a size for each of its bins.
LEMMA Layout ==
  ASSUME file \in Files
  PROVE  /\ file.tombstone \in Nat
         /\ \A b \in Bins : file.start[b] \in Nat /\ file.size[b] \in Nat
BY BinAssumption DEF Bins

\* What a query selects are bins of the file.
LEMMA SelectedAreBins ==
  ASSUME file \in Files, query \in Queries
  PROVE  /\ \A c \in DOMAIN query : \A s \in Range(query[c]) : s.first .. s.last \subseteq Bins
         /\ Selected \subseteq Bins
<1>1. file.tombstone \in Nat /\ 0 .. file.tombstone - 1 \subseteq Bins /\ file.tombstone \in Bins
  BY Layout DEF Bins
<1>2. \A c \in DOMAIN query : \A s \in Range(query[c]) : s.first .. s.last \subseteq Bins
  BY <1>1, BinAssumption
<1>3. ASSUME NEW b \in Selected PROVE b \in Bins
  <2>1. CASE b \in UNION {UNION {s.first .. s.last : s \in Range(query[c])} : c \in DOMAIN query}
    BY <1>2, <2>1
  <2>2. CASE b \in (IF file.rows[file.tombstone] = {} THEN {} ELSE {file.tombstone})
    BY <1>1, <2>2
  <2> QED
    BY <2>1, <2>2, Zenon DEF Selected
<1> QED
  BY <1>2, <1>3

\* FreeCell picks a free one.
LEMMA FreeCellIsFree ==
  ASSUME NEW b, NEW at, \E k \in 1 .. Copies : at[<<b, k>>] = Freed
  PROVE  FreeCell(b, at) \in 1 .. Copies /\ at[<<b, FreeCell(b, at)>>] = Freed
BY DEF FreeCell

\* Dropping bin b's entry touches no cell but that entry's.
LEMMA ErasedKeeps ==
  ASSUME Typed, NEW b
  PROVE  /\ Erased(b) \in [Cells -> Int]
         /\ \A c \in Cells : Erased(b)[c] # heap[c] => c = <<b, entry[b]>>
         /\ \A c \in Cells : heap[c] = Freed => Erased(b)[c] = Freed
<1>1. heap \in [Cells -> Int] /\ Freed \in Int
  BY DEF Typed, Freed
<1> QED
  BY <1>1 DEF Erased

\* A new entry for bin b, that shows offset at, leaves the others as they are.
LEMMA EntryReplaced ==
  ASSUME Typed, CacheHoldsOwnBins, NEW b, NEW at \in Int,
         b \in Bins => at = file.start[b],
         HasFreeCell(b),
         entry' = [entry EXCEPT ![b] = FreeCell(b, Erased(b))],
         heap' = [Erased(b) EXCEPT ![<<b, FreeCell(b, Erased(b))>>] = at],
         UNCHANGED file
  PROVE  /\ entry' \in [Bins -> 0 .. Copies] /\ heap' \in [Cells -> Int]
         /\ CacheHoldsOwnBins'
<1> DEFINE k == FreeCell(b, Erased(b))
<1>0. /\ entry \in [Bins -> 0 .. Copies] /\ heap \in [Cells -> Int]
      /\ Copies \in Nat
  BY BinAssumption DEF Typed
<1>1. b \in Bins => k \in 1 .. Copies
  <2> SUFFICES ASSUME b \in Bins PROVE k \in 1 .. Copies
    OBVIOUS
  <2>1. \E j \in 1 .. Copies : Erased(b)[<<b, j>>] = Freed
    BY ErasedKeeps DEF HasFreeCell, Cells
  <2> QED
    BY <2>1, FreeCellIsFree
<1>2. entry' \in [Bins -> 0 .. Copies]
  <2>1. b \in Bins => k \in 0 .. Copies
    BY <1>0, <1>1
  <2> QED
    BY <1>0, <2>1
<1>3. heap' \in [Cells -> Int]
  BY ErasedKeeps
<1>4. ASSUME NEW c \in Bins, entry'[c] # 0
      PROVE  heap'[<<c, entry'[c]>>] = file.start[c]
  <2>1. CASE c = b
    <3>1. entry'[c] = k /\ k \in 1 .. Copies /\ <<b, k>> \in Cells
      BY <1>0, <1>1, <2>1 DEF Cells
    <3> QED
      BY <2>1, <3>1, ErasedKeeps
  <2>2. CASE c # b
    <3>1. entry'[c] = entry[c] /\ entry[c] \in 1 .. Copies
      BY <1>0, <1>4, <2>2
    <3>2. <<c, entry[c]>> \in Cells /\ heap[<<c, entry[c]>>] = file.start[c]
      BY <1>4, <3>1 DEF Cells, CacheHoldsOwnBins
    <3>3. Erased(b)[<<c, entry[c]>>] = heap[<<c, entry[c]>>]
      BY <2>2, <3>2, ErasedKeeps
    <3> QED
      BY <2>2, <3>1, <3>2, <3>3, ErasedKeeps
  <2> QED
    BY <2>1, <2>2
<1>5. Bins' = Bins
  BY DEF Bins
<1> QED
  BY <1>2, <1>3, <1>4, <1>5 DEF CacheHoldsOwnBins

\* Freeing or filling a cell that is no entry's leaves the entries as they are.
LEMMA OtherCell ==
  ASSUME Typed, CacheHoldsOwnBins, NEW cell, NEW at \in Int,
         \A b \in Bins : entry[b] # 0 => cell # <<b, entry[b]>>,
         UNCHANGED <<file, entry>>,
         heap' = [heap EXCEPT ![cell] = at]
  PROVE  heap' \in [Cells -> Int] /\ CacheHoldsOwnBins'
<1>0. /\ entry \in [Bins -> 0 .. Copies] /\ heap \in [Cells -> Int] /\ Copies \in Nat
  BY BinAssumption DEF Typed
<1>1. ASSUME NEW b \in Bins, entry[b] # 0
      PROVE  heap'[<<b, entry[b]>>] = file.start[b]
  <2>1. <<b, entry[b]>> \in Cells
    BY <1>0, <1>1 DEF Cells
  <2> QED
    BY <1>0, <1>1, <2>1 DEF CacheHoldsOwnBins
<1>2. Bins' = Bins
  BY DEF Bins
<1> QED
  BY <1>0, <1>1, <1>2 DEF CacheHoldsOwnBins

\* Release frees a cell only when it is no entry's.
LEMMA ReleaseKeeps ==
  ASSUME Typed, CacheHoldsOwnBins, NEW p, Release(p), UNCHANGED file
  PROVE  heap' \in [Cells -> Int] /\ entry' = entry /\ CacheHoldsOwnBins'
<1>1. entry' = entry
  BY DEF Release
<1>2. CASE heap' = heap
  BY <1>1, <1>2 DEF Typed, CacheHoldsOwnBins, Bins
<1>3. CASE heap' # heap
  <2>1. heap' = [heap EXCEPT ![p.cell] = Freed] /\ entry[p.cell[1]] # p.cell[2]
    BY <1>3 DEF Release
  <2>2. \A b \in Bins : entry[b] # 0 => p.cell # <<b, entry[b]>>
    BY <2>1
  <2>3. Freed \in Int
    BY DEF Freed
  <2> QED
    BY <1>1, <2>1, <2>2, <2>3, OtherCell
<1> QED
  BY <1>1, <1>2, <1>3

------------------------------------------------------------------------------

LEMMA InitHolds == Init => IInv
<1> SUFFICES ASSUME Init PROVE IInv
  OBVIOUS
<1>1. PICK hits \in SUBSET Selected :
        /\ entry = [b \in Bins |-> IF b \in hits THEN 1 ELSE 0]
        /\ heap = [c \in Cells |-> IF c[1] \in hits /\ c[2] = 1 THEN file.start[c[1]] ELSE Freed]
  BY DEF Init
<1>2. file \in Files /\ query \in Queries
  BY DEF Init
<1>3. Copies \in Nat \ {0}
  BY BinAssumption
<1>4. hits \subseteq Bins
  BY <1>1, <1>2, SelectedAreBins
<1>5. Typed
  <2>1. entry \in [Bins -> 0 .. Copies]
    BY <1>1, <1>3
  <2>2. ASSUME NEW c \in Cells
        PROVE  (IF c[1] \in hits /\ c[2] = 1 THEN file.start[c[1]] ELSE Freed) \in Int
    BY <1>2, <1>4, Layout DEF Freed
  <2>3. heap \in [Cells -> Int]
    BY <1>1, <2>2
  <2> QED
    BY <1>2, <2>1, <2>3 DEF Typed
<1>6. Prefetched /\ Asked /\ Arena
  BY DEF Init, Prefetched, Asked, Arena, NoSpan, Calling
<1>7. CacheHoldsOwnBins
  <2> SUFFICES ASSUME NEW b \in Bins, entry[b] # 0 PROVE heap[<<b, entry[b]>>] = file.start[b]
    BY DEF CacheHoldsOwnBins
  <2>1. b \in hits /\ entry[b] = 1
    BY <1>1
  <2>2. <<b, 1>> \in Cells
    BY <1>3 DEF Cells
  <2> QED
    BY <1>1, <2>1, <2>2
<1> QED
  BY <1>5, <1>6, <1>7 DEF IInv

------------------------------------------------------------------------------
(* The steps.                                                              *)

\* A step that leaves the cache alone keeps what is said of it.
LEMMA CacheUntouched ==
  ASSUME IInv, UNCHANGED <<fixedVars, entry, heap>>
  PROVE  Typed' /\ CacheHoldsOwnBins'
BY DEF IInv, Typed, CacheHoldsOwnBins, Bins, Cells, fixedVars

\* A step that leaves the prefetch alone keeps what is said of it.
LEMMA PrefetchUntouched ==
  ASSUME IInv, UNCHANGED <<file, runs, slots>>
  PROVE  Prefetched'
BY DEF IInv, Prefetched, Bins

\* Outside a Bin or BinRange call nothing is said of the span but its shape.
LEMMA NotCalling ==
  ASSUME IInv, span' = span \/ span' = NoSpan, pc' \notin Calling
  PROVE  Asked' /\ Arena'
<1>1. span' = [first |-> span'.first, last |-> span'.last, pins |-> span'.pins,
               next |-> span'.next, run |-> span'.run, from |-> span'.from]
  <2>1. CASE span' = span
    BY <2>1, Zenon DEF IInv, Asked
  <2>2. CASE span' = NoSpan
    BY <2>2 DEF NoSpan
  <2> QED
    BY <2>1, <2>2
<1>2. pc' # "insert"
  BY DEF Calling
<1> QED
  BY <1>1, <1>2, Zenon DEF Asked, Arena

\* Deliver ends the call.
LEMMA DeliverEnds ==
  ASSUME IInv, NEW bm, Deliver(bm)
  PROVE  Asked' /\ Arena'
<1>1. span' = NoSpan /\ pc' = "select"
  BY Zenon DEF Deliver
<1>2. pc' \notin Calling
  BY <1>1 DEF Calling
<1> QED
  BY <1>1, <1>2, NotCalling

\* Other scans.
LEMMA OthersStep ==
  ASSUME IInv, NEW b \in Selected, OtherInsert(b) \/ Evict(b)
  PROVE  IInv'
<1>0. Typed /\ CacheHoldsOwnBins
  BY DEF IInv
<1>1. UNCHANGED <<fixedVars, file, query, planVars, runs, pc, slots, span>>
  BY DEF OtherInsert, Evict, fixedVars, planVars
<1>2. Prefetched' /\ Asked' /\ Arena'
  BY <1>1 DEF IInv, Prefetched, Asked, Arena, Bins
<1>3. b \in Bins
  BY <1>0, SelectedAreBins DEF Typed
<1>4. CASE OtherInsert(b)
  <2>1. file.start[b] \in Int
    BY <1>0, <1>3, Layout DEF Typed
  <2>2. entry' \in [Bins -> 0 .. Copies] /\ heap' \in [Cells -> Int] /\ CacheHoldsOwnBins'
    <3>1. /\ HasFreeCell(b)
          /\ entry' = [entry EXCEPT ![b] = FreeCell(b, Erased(b))]
          /\ heap' = [Erased(b) EXCEPT ![<<b, FreeCell(b, Erased(b))>>] = file.start[b]]
      BY <1>4 DEF OtherInsert
    <3> QED
      BY <1>0, <1>1, <2>1, <3>1, EntryReplaced
  <2> QED
    BY <1>0, <1>1, <1>2, <2>2 DEF IInv, Typed, Bins, Cells
<1>5. CASE Evict(b)
  <2>1. /\ entry' = [entry EXCEPT ![b] = 0] /\ heap' = Erased(b) /\ entry[b] # 0
    BY <1>5 DEF Evict
  <2>2. /\ entry \in [Bins -> 0 .. Copies] /\ Copies \in Nat
    BY <1>0, BinAssumption DEF Typed
  <2>3. entry' \in [Bins -> 0 .. Copies] /\ heap' \in [Cells -> Int]
    <3>1. Erased(b) \in [Cells -> Int]
      BY <1>0, ErasedKeeps
    <3>2. 0 \in 0 .. Copies
      BY <2>2
    <3> QED
      BY <2>1, <2>2, <3>1, <3>2
  <2>4. ASSUME NEW c \in Bins, entry'[c] # 0
        PROVE  heap'[<<c, entry'[c]>>] = file.start[c]
    <3>1. c # b /\ entry'[c] = entry[c] /\ entry[c] \in 1 .. Copies
      BY <2>1, <2>2, <2>4
    <3>2. <<c, entry[c]>> \in Cells /\ heap[<<c, entry[c]>>] = file.start[c]
      BY <1>0, <2>4, <3>1 DEF Cells, CacheHoldsOwnBins
    <3> QED
      BY <1>0, <2>1, <3>1, <3>2, ErasedKeeps
  <2>5. CacheHoldsOwnBins'
    <3>1. Bins' = Bins /\ file' = file
      BY <1>1 DEF Bins
    <3> QED
      BY <2>4, <3>1 DEF CacheHoldsOwnBins
  <2> QED
    BY <1>0, <1>1, <1>2, <2>3, <2>5 DEF IInv, Typed, Bins, Cells
<1> QED
  BY <1>4, <1>5

\* The steps that neither load nor touch the cache.
LEMMA QuietStep ==
  ASSUME IInv, Open \/ FullScan \/ EndClause
  PROVE  IInv'
<1>1. UNCHANGED <<fixedVars, entry, heap, file, runs, slots, span>>
  BY DEF Open, FullScan, EndClause, fixedVars, planVars, cacheVars
<1>2. pc' \notin Calling
  BY DEF Open, FullScan, EndClause, Return, Calling
<1> QED
  BY <1>1, <1>2, CacheUntouched, PrefetchUntouched, NotCalling DEF IInv

\* Planning the prefetch: runs of selected bins.
LEMMA PlanStep ==
  ASSUME IInv, PlanRuns
  PROVE  IInv'
<1>0. file \in Files /\ query \in Queries
  BY DEF IInv, Typed
<1>1. UNCHANGED <<fixedVars, entry, heap, file, slots, span>>
  BY DEF PlanRuns, fixedVars, planVars, cacheVars
<1>2. pc' \notin Calling
  BY DEF PlanRuns, Calling
<1>3. runs' \subseteq Bins \X Bins
  <2>1. runs' \subseteq Runs({b \in Selected : entry[b] = 0})
    BY DEF PlanRuns
  <2>2. {b \in Selected : entry[b] = 0} \subseteq Bins
    BY <1>0, SelectedAreBins
  <2> QED
    BY <2>1, <2>2 DEF Runs
<1>4. Prefetched'
  BY <1>1, <1>3 DEF IInv, Prefetched, Bins
<1> QED
  BY <1>1, <1>2, <1>4, CacheUntouched, NotCalling DEF IInv

\* Submitting a run: its slot is at the run's first bin.
LEMMA SubmitStep ==
  ASSUME IInv, NEW run \in runs, Submit(run)
  PROVE  IInv'
<1>0. /\ file \in Files /\ slots \in Seq(Slots) /\ runs \subseteq Bins \X Bins
  BY DEF IInv, Typed, Prefetched
<1>1. UNCHANGED <<fixedVars, entry, heap, file, span>>
  BY DEF Submit, fixedVars, cacheVars
<1>2. pc' \notin Calling
  BY DEF Submit, Calling
<1>3. runs' \subseteq Bins \X Bins
  BY <1>0 DEF Submit
<1>4. slots' \in Seq(Slots)
  <2>1. run[1] \in Bins /\ run[2] \in Bins
    BY <1>0
  <2>2. file.start[run[1]] \in Int /\ RunLen(run[1], run[2]) \in Int
    BY <1>0, <2>1, Layout DEF RunLen
  <2>3. CASE slots' = slots
    BY <1>0, <2>3
  <2>4. CASE slots' # slots
    <3>1. PICK state \in {"kSubmitted", "kPopulated"} :
            slots' = Append(slots, [offset |-> file.start[run[1]],
                                    len |-> RunLen(run[1], run[2]),
                                    remaining |-> RunLen(run[1], run[2]),
                                    state |-> state])
      BY <2>4 DEF Submit
    <3>2. [offset |-> file.start[run[1]], len |-> RunLen(run[1], run[2]),
           remaining |-> RunLen(run[1], run[2]), state |-> state] \in Slots
      BY <2>2 DEF Slots
    <3> QED
      BY <1>0, <3>1, <3>2
  <2> QED
    BY <2>3, <2>4
<1>5. Prefetched'
  BY <1>1, <1>3, <1>4 DEF Prefetched, Bins
<1> QED
  BY <1>1, <1>2, <1>5, CacheUntouched, NotCalling DEF IInv

\* Asking for the bins of a selection starts a call within the bins.
LEMMA AskStep ==
  ASSUME IInv, AskBins
  PROVE  IInv'
<1>0. file \in Files /\ query \in Queries
  BY DEF IInv, Typed
<1>1. UNCHANGED <<fixedVars, entry, heap, file, runs, slots>>
  BY DEF AskBins, fixedVars, planVars, cacheVars
<1> DEFINE sel == IF clause # 0 THEN query[clause][Len(conds) + 1]
                  ELSE [first |-> file.tombstone, last |-> file.tombstone]
<1>2. sel.first .. sel.last \subseteq Bins
  <2>1. CASE clause = 0
    BY <1>0, <2>1, Layout DEF Bins
  <2>2. CASE clause # 0
    <3>1. clause \in DOMAIN query /\ Len(conds) + 1 \in DOMAIN query[clause]
      BY <2>2, Zenon DEF AskBins
    <3> QED
      BY <1>0, <2>2, <3>1, SelectedAreBins DEF Range
  <2> QED
    BY <2>1, <2>2
<1>3. Asked' /\ Arena'
  <2>1. CASE \E bm : Deliver(bm)
    BY <2>1, DeliverEnds
  <2>2. CASE ~\E bm : Deliver(bm)
    <3>1. /\ span' = [NoSpan EXCEPT !.first = sel.first, !.last = sel.last,
                                    !.next = sel.first,
                                    !.pins = [b \in sel.first .. sel.last |-> NoPin]]
          /\ pc' = "probe"
      BY <2>2, Zenon DEF AskBins
    <3> QED
      BY <1>1, <1>2, <3>1 DEF Asked, Arena, NoSpan, Bins
  <2> QED
    BY <2>1, <2>2
<1> QED
  BY <1>1, <1>3, CacheUntouched, PrefetchUntouched DEF IInv

\* Probing pins entries and goes on to the missing bins.
LEMMA ProbeStep ==
  ASSUME IInv, ProbeBin
  PROVE  IInv'
<1>1. UNCHANGED <<fixedVars, entry, heap, file, runs, slots>>
  BY DEF ProbeBin, fixedVars, planVars
<1>2. pc = "probe" /\ pc' \in Calling /\ pc' # "insert"
  BY DEF ProbeBin, Calling
<1>3. \/ span' = [span EXCEPT !.next = span.next + 1]
      \/ span' = [span EXCEPT !.next = span.next + 1,
                    !.pins[span.next] = [cell |-> <<span.next, entry[span.next]>>, handle |-> TRUE]]
  BY Zenon DEF ProbeBin
<1>4. Asked' /\ Arena'
  <2>1. /\ span = [first |-> span.first, last |-> span.last, pins |-> span.pins,
                   next |-> span.next, run |-> span.run, from |-> span.from]
        /\ span.first .. span.last \subseteq Bins
    BY <1>2, Zenon DEF IInv, Asked, Calling
  <2>2. /\ span' = [first |-> span'.first, last |-> span'.last, pins |-> span'.pins,
                    next |-> span'.next, run |-> span'.run, from |-> span'.from]
        /\ span'.first = span.first /\ span'.last = span.last
    BY <1>3, <2>1
  <2> QED
    BY <1>1, <1>2, <2>1, <2>2 DEF Asked, Arena, Bins
<1> QED
  BY <1>1, <1>4, CacheUntouched, PrefetchUntouched DEF IInv

\* A run that is read or copied starts, in the arena, with the run's first byte, wherever
\* the buffer it came from starts.
LEMMA ReadStep ==
  ASSUME IInv, NEW run \in Runs(Missing), ReadRun(run)
  PROVE  IInv'
<1> DEFINE offset == file.start[run[1]]
           len == RunLen(run[1], run[2])
           live == {i \in Holding(offset, len) : slots[i].state # "kDead"}
<1>0. /\ file \in Files /\ slots \in Seq(Slots) /\ pc = "load"
      /\ span = [first |-> span.first, last |-> span.last, pins |-> span.pins,
                 next |-> span.next, run |-> span.run, from |-> span.from]
      /\ span.first .. span.last \subseteq Bins
  BY Zenon DEF IInv, Typed, Prefetched, Asked, ReadRun, Calling
<1>1. UNCHANGED <<fixedVars, entry, heap, file, runs>>
  BY DEF ReadRun, fixedVars, planVars, cacheVars
<1>2. run[1] \in Bins /\ run[2] \in Bins
  BY <1>0 DEF Runs, Missing
<1>3. offset \in Int /\ len \in Int
  BY <1>0, <1>2, Layout DEF RunLen
<1>4. live \subseteq DOMAIN slots /\ \A i \in live : slots[i] \in Slots
  BY <1>0 DEF Holding
<1>5. \A i \in live : CopiedFrom(i, offset) = offset
  BY <1>3, <1>4 DEF CopiedFrom, Slots
<1>6. slots' \in Seq(Slots)
  <2>1. CASE slots' = slots
    BY <1>0, <2>1
  <2>2. ASSUME NEW i \in live, slots' = Drained(i, len)
        PROVE  slots' \in Seq(Slots)
    <3> DEFINE left == IF len < slots[i].remaining THEN slots[i].remaining - len ELSE 0
               slot == [offset |-> slots[i].offset, len |-> slots[i].len, remaining |-> left,
                        state |-> IF left = 0 THEN "kDead" ELSE "kPopulated"]
    <3>1. slots' = [slots EXCEPT ![i] = slot]
      BY <2>2, Zenon DEF Drained
    <3>2. slots[i] \in Slots /\ i \in DOMAIN slots
      BY <1>4
    <3>3. slots[i].remaining \in Int /\ slots[i].offset \in Int /\ slots[i].len \in Int
      BY <3>2 DEF Slots
    <3>4. left \in Int
      BY <1>3, <3>3
    <3>5. slot \in Slots
      <4> HIDE DEF left
      <4> QED
        BY <3>3, <3>4 DEF Slots
    <3> HIDE DEF slot
    <3> QED
      BY <1>0, <3>1, <3>2, <3>5
  <2>3. ASSUME NEW i \in live, slots' = [slots EXCEPT ![i].state = "kDead"]
        PROVE  slots' \in Seq(Slots)
    <3>1. slots[i] \in Slots /\ i \in DOMAIN slots
      BY <1>4
    <3>2. [slots[i] EXCEPT !.state = "kDead"] \in Slots
      BY <3>1 DEF Slots
    <3> QED
      BY <1>0, <2>3, <3>1, <3>2
  <2> QED
    BY <2>1, <2>2, <2>3, Zenon DEF ReadRun
<1>7. \/ Loaded(run, offset)
      \/ pc' = "unwind" /\ UNCHANGED span
  BY <1>5, Zenon DEF ReadRun, Read
<1>8. Asked' /\ Arena'
  <2>1. CASE pc' = "unwind" /\ UNCHANGED span
    BY <2>1, NotCalling DEF Calling
  <2>2. CASE Loaded(run, offset)
    <3>1. /\ span' = [span EXCEPT !.run = run, !.next = run[1], !.from = offset]
          /\ pc' = "insert"
      BY <2>2 DEF Loaded
    <3>2. span' = [first |-> span.first, last |-> span.last, pins |-> span.pins,
                   next |-> run[1], run |-> run, from |-> offset]
      BY <1>0, <3>1
    <3>3. /\ span' = [first |-> span'.first, last |-> span'.last, pins |-> span'.pins,
                      next |-> span'.next, run |-> span'.run, from |-> span'.from]
          /\ span'.first = span.first /\ span'.last = span.last
          /\ span'.run = run /\ span'.from = offset
      BY <3>2
    <3> QED
      BY <1>0, <1>1, <1>2, <3>1, <3>3 DEF Asked, Arena, Bins
  <2> QED
    BY <1>7, <2>1, <2>2
<1>9. Prefetched'
  BY <1>1, <1>6 DEF IInv, Prefetched, Bins
<1> QED
  BY <1>1, <1>8, <1>9, CacheUntouched DEF IInv

\* A bin decoded out of the arena starts where the file has it: as far behind the arena's
\* first byte as its start is behind that of the run's first bin.
LEMMA InsertStep ==
  ASSUME IInv, InsertBin
  PROVE  IInv'
<1> DEFINE b == span.next
           at == span.from + (file.start[b] - file.start[span.run[1]])
<1>0. /\ Typed /\ CacheHoldsOwnBins /\ pc = "insert" /\ HasFreeCell(b)
      /\ span.run[1] \in Bins /\ span.from = file.start[span.run[1]]
      /\ span = [first |-> span.first, last |-> span.last, pins |-> span.pins,
                 next |-> span.next, run |-> span.run, from |-> span.from]
      /\ span.first .. span.last \subseteq Bins
  BY Zenon DEF IInv, Asked, Arena, InsertBin, Calling
<1>1. UNCHANGED <<fixedVars, file, query, runs, slots>>
  BY DEF InsertBin, fixedVars, planVars
<1>2. file.start[span.run[1]] \in Nat
  BY <1>0, Layout DEF Typed
<1>3. PICK pin :
        /\ span' = [span EXCEPT !.next = b + 1, !.pins[b] = pin]
        /\ pc' = IF b = span.run[2] THEN "load" ELSE "insert"
  BY Zenon DEF InsertBin, Pin
<1>4. Asked' /\ Arena'
  <2>1. /\ span' = [first |-> span'.first, last |-> span'.last, pins |-> span'.pins,
                    next |-> span'.next, run |-> span'.run, from |-> span'.from]
        /\ span'.first = span.first /\ span'.last = span.last
        /\ span'.run = span.run /\ span'.from = span.from
    BY <1>0, <1>3
  <2> QED
    BY <1>0, <1>1, <2>1 DEF Asked, Arena, Bins
<1>5. Typed' /\ CacheHoldsOwnBins'
  <2>1. CASE b \in Bins
    <3>1. at \in Int /\ at = file.start[b]
      BY <1>0, <1>2, <2>1, Layout DEF Typed
    <3>2. CASE /\ entry' = [entry EXCEPT ![b] = FreeCell(b, Erased(b))]
               /\ heap' = [Erased(b) EXCEPT ![<<b, FreeCell(b, Erased(b))>>] = at]
      <4>1. entry' \in [Bins -> 0 .. Copies] /\ heap' \in [Cells -> Int] /\ CacheHoldsOwnBins'
        BY <1>0, <1>1, <3>1, <3>2, EntryReplaced
      <4> QED
        BY <1>0, <1>1, <4>1 DEF Typed, Bins, Cells
    <3>3. CASE entry' = entry /\ heap' = [heap EXCEPT ![<<b, FreeCell(b, heap)>>] = at]
      <4>1. heap[<<b, FreeCell(b, heap)>>] = Freed
        BY <1>0, FreeCellIsFree DEF HasFreeCell
      <4>2. entry[b] # 0 => entry[b] # FreeCell(b, heap)
        BY <1>0, <2>1, <4>1, Layout DEF CacheHoldsOwnBins, Typed, Freed
      <4>3. \A c \in Bins : entry[c] # 0 => <<b, FreeCell(b, heap)>> # <<c, entry[c]>>
        BY <4>2
      <4>4. heap' \in [Cells -> Int] /\ CacheHoldsOwnBins'
        BY <1>0, <1>1, <3>1, <3>3, <4>3, OtherCell
      <4> QED
        BY <1>0, <1>1, <3>3, <4>4 DEF Typed, Bins, Cells
    <3> QED
      BY <3>2, <3>3, Zenon DEF InsertBin
  <2>2. CASE b \notin Bins
    <3>1. \A k, x : [entry EXCEPT ![b] = k] = entry /\ [heap EXCEPT ![<<b, k>>] = x] = heap
      BY <1>0, <2>2 DEF Typed, Cells
    <3>2. Erased(b) = heap
      BY <3>1 DEF Erased
    <3>3. entry' = entry /\ heap' = heap
      <4>1. \/ \E k, x : entry' = [entry EXCEPT ![b] = k] /\ heap' = [Erased(b) EXCEPT ![<<b, k>>] = x]
            \/ \E k, x : entry' = entry /\ heap' = [heap EXCEPT ![<<b, k>>] = x]
        BY Zenon DEF InsertBin
      <4> QED
        BY <3>1, <3>2, <4>1, Zenon
    <3> QED
      BY <1>0, <1>1, <3>3 DEF Typed, CacheHoldsOwnBins, Bins, Cells
  <2> QED
    BY <2>1, <2>2
<1> QED
  BY <1>1, <1>4, <1>5, PrefetchUntouched DEF IInv

\* The end of a call, good or bad, and of the scan.
LEMMA EndStep ==
  ASSUME IInv, AppendPins \/ Unwind \/ Close
  PROVE  IInv'
<1>0. Typed /\ CacheHoldsOwnBins
  BY DEF IInv
<1>1. UNCHANGED <<fixedVars, file, query, runs>>
  BY DEF AppendPins, Unwind, Close, fixedVars, planVars
<1>2. Prefetched'
  <2>1. slots' = slots \/ slots' = <<>>
    BY Zenon DEF AppendPins, Unwind, Close
  <2>2. <<>> \in Seq(Slots)
    OBVIOUS
  <2> QED
    BY <1>1, <2>1, <2>2 DEF IInv, Prefetched, Bins
<1>3. Typed' /\ CacheHoldsOwnBins'
  <2>1. CASE UNCHANGED cacheVars
    BY <1>1, <2>1, CacheUntouched DEF cacheVars
  <2>2. CASE \E p : Release(p)
    BY <1>0, <1>1, <2>2, ReleaseKeeps DEF Typed, Bins, Cells
  <2> QED
    BY <2>1, <2>2, Zenon DEF AppendPins, Unwind, Close
<1>4. Asked' /\ Arena'
  <2>1. CASE \E bm : Deliver(bm)
    BY <2>1, DeliverEnds
  <2>2. CASE Close
    BY <2>2, NotCalling DEF Close, Calling
  <2>3. CASE Unwind /\ ~\E bm : Deliver(bm)
    <3>1. /\ pc' = "unwind"
          /\ span' = [span EXCEPT
               !.pins[Min({b \in DOMAIN span.pins : span.pins[b] # NoPin})] = NoPin]
      BY <2>3, Zenon DEF Unwind
    <3>2. span = [first |-> span.first, last |-> span.last, pins |-> span.pins,
                  next |-> span.next, run |-> span.run, from |-> span.from]
      BY Zenon DEF IInv, Asked
    <3>3. span' = [first |-> span'.first, last |-> span'.last, pins |-> span'.pins,
                   next |-> span'.next, run |-> span'.run, from |-> span'.from]
      BY <3>1, <3>2
    <3> QED
      BY <3>1, <3>3 DEF Asked, Arena, Calling
  <2> QED
    BY <2>1, <2>2, <2>3, Zenon DEF AppendPins
<1> QED
  BY <1>2, <1>3, <1>4 DEF IInv

\* Every step.
LEMMA Step == IInv /\ [Next]_vars => IInv'
<1> SUFFICES ASSUME IInv, [Next]_vars PROVE IInv'
  OBVIOUS
<1>1. CASE Scan
  <2>1. CASE Open \/ FullScan \/ EndClause
    BY <2>1, QuietStep
  <2>2. CASE AppendPins \/ Unwind \/ Close
    BY <2>2, EndStep
  <2> QED
    BY <1>1, <2>1, <2>2, PlanStep, SubmitStep, AskStep, ProbeStep, ReadStep, InsertStep, Zenon
       DEF Scan
<1>2. CASE \E b \in Selected : OtherInsert(b) \/ Evict(b)
  BY <1>2, OthersStep
<1>3. CASE UNCHANGED vars
  BY <1>3, Zenon DEF vars, fixedVars, planVars, cacheVars, IInv, Typed, Prefetched, Asked, Arena,
                    CacheHoldsOwnBins, Bins, Cells
<1> QED
  BY <1>1, <1>2, <1>3 DEF Next

\* Whatever scans share the cache, in whatever order they probe, prefetch, read, insert
\* and evict, a bin's cache entry shows that bin.
THEOREM CacheCorrect == Spec => []CacheHoldsOwnBins
<1>1. IInv => CacheHoldsOwnBins
  BY DEF IInv
<1> QED
  BY <1>1, InitHolds, Step, PTL DEF Spec
==============================================================================
