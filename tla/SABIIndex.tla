------------------------------ MODULE SABIIndex ------------------------------
(***************************************************************************)
(* The per-file index SABI: SABIBuilder (sabi_builder.cpp) while an SST    *)
(* file is written, then the bin selection and pruning of SABIReader       *)
(* (sabi_reader.cpp) and SABITableIterator::BuildQueryBitmap, which turn   *)
(* an encoded query into the bitmap of candidate rows.                     *)
(*                                                                         *)
(* A behaviour writes one file, row by row, and then answers queries.      *)
(* Row ids, bins and flat bin indexes count from 0 as in the code.         *)
(***************************************************************************)
EXTENDS SABIQuery, FiniteSetsExt

CONSTANTS
  PayloadSize,   \* bytes of payload in a row
  Tombstone      \* a deletion entry

\* An instance has the schema (attr_specs) and rho_num / rho_den of its options, the
\* values written to each attribute, the queries asked and max_rows (bound).
ASSUME IndexAssumption ==
  \A i \in DOMAIN Instances :
    LET o == Instances[i]
    IN  /\ \A a \in DOMAIN o.schema : Valid(o.schema[a])
        /\ o.rho_num \in Nat \ {0} /\ o.rho_den \in Nat /\ o.rho_num <= o.rho_den
        /\ o.max_rows \in Nat

VARIABLES
  stage,         \* "adding", "finished" or "answered"
  rows,          \* the entries added so far: as written, and as read back (history)
  attr_buf,      \* attribute -> its values' bytes, of the rows that have one
  attr_null_rows,\* attribute -> row ids
  tombstones,    \* row ids of the deletions
  index,         \* what Finish wrote: nums, policy, bitmaps
  query,
  query_bitmap

vars == <<instance, stage, rows, attr_buf, attr_null_rows, tombstones, index, query, query_bitmap>>
buildVars == <<instance, rows, attr_buf, attr_null_rows, tombstones>>

AttrNum == Len(options.schema)

\* The attribute vectors a Put is given: a NULL may reach any attribute.
Rows == {r \in [Attrs -> UNION {options.values[a] : a \in Attrs}] :
           \A a \in Attrs : r[a] \in options.values[a]}
Stored(r) == EncodeValue(options.schema, r, PayloadSize)
View(value) == [a \in Attrs |-> DecodeAttr(options.schema, value, a)]

\* ValueLayoutExtractor::ExtractAll.
ExtractAll(row) == [a \in Attrs |-> IF row[a] = Null THEN Null ELSE ToBytes(Physical(a), row[a])]

RowIds == 0 .. Len(rows) - 1
RowAt(j) == rows[j + 1].view
Live(j) == rows[j + 1].written # Tombstone
NoIndex == [nums |-> <<>>, policy |-> <<>>, bitmaps |-> <<>>]

Init ==
  /\ instance \in DOMAIN Instances
  /\ stage = "adding"
  /\ rows = <<>>
  /\ attr_buf = [a \in Attrs |-> <<>>]
  /\ attr_null_rows = [a \in Attrs |-> {}]
  /\ tombstones = {}
  /\ index = NoIndex
  /\ query = <<>>
  /\ query_bitmap = {}

------------------------------------------------------------------------------
(* SABIBuilder.                                                            *)

\* Mutant: a NULL is buffered as the empty string besides being recorded.
OnKeyAdded_BuffersNull(r) ==
  /\ stage = "adding" /\ Len(rows) < options.max_rows
  /\ LET view == IF r = Tombstone THEN [a \in Attrs |-> Null] ELSE View(Stored(r))
         out  == ExtractAll(view)
     IN  /\ rows' = Append(rows, [written |-> r, view |-> view])
         /\ attr_null_rows' = [a \in Attrs |-> IF r # Tombstone /\ out[a] = Null
                                 THEN attr_null_rows[a] \cup {Len(rows)} ELSE attr_null_rows[a]]
         /\ attr_buf' = [a \in Attrs |-> IF r = Tombstone THEN attr_buf[a]
                           ELSE Append(attr_buf[a], IF out[a] = Null THEN 0 ELSE out[a])]
  /\ tombstones' = IF r = Tombstone THEN tombstones \cup {Len(rows)} ELSE tombstones
  /\ UNCHANGED <<instance, stage, index, query, query_bitmap>>

\* NULLs and deletions go to their bitmaps and push nothing into the buffers.
OnKeyAdded(r) ==
  /\ stage = "adding" /\ Len(rows) < options.max_rows
  /\ LET view == IF r = Tombstone THEN [a \in Attrs |-> Null] ELSE View(Stored(r))
         out  == ExtractAll(view)
     IN  /\ rows' = Append(rows, [written |-> r, view |-> view])
         /\ attr_null_rows' = [a \in Attrs |-> IF r # Tombstone /\ out[a] = Null
                                 THEN attr_null_rows[a] \cup {Len(rows)} ELSE attr_null_rows[a]]
         /\ attr_buf' = [a \in Attrs |-> IF out[a] = Null THEN attr_buf[a]
                                         ELSE Append(attr_buf[a], out[a])]
  /\ tombstones' = IF r = Tombstone THEN tombstones \cup {Len(rows)} ELSE tombstones
  /\ UNCHANGED <<instance, stage, index, query, query_bitmap>>

CountOf(buf, v) == Cardinality({k \in DOMAIN buf : buf[k] = v})

\* The bitmaps to spend: attr_num / rho, truncated.
TargetBitmaps == (AttrNum * options.rho_den) \div options.rho_num

BinCap(a) ==
  LET distinct == Cardinality(ToSet(attr_buf[a]))
  IN  IF IndexType(a) = "kEquality" THEN distinct ELSE Min({distinct, TargetBitmaps})

\* One bin each, then one at a time to the attribute with the largest 1/(b(b+1)),
\* the higher index on a tie, while it has more distinct values than bins.
BitmapNums ==
  LET alloc[k \in Nat] ==
        IF k = 0 THEN [a \in Attrs |-> 1]
        ELSE LET had  == alloc[k - 1]
                 open == {a \in Attrs : BinCap(a) > had[a]}
                 best == CHOOSE a \in open : \A b \in open :
                           had[a] < had[b] \/ (had[a] = had[b] /\ a >= b)
             IN  IF open = {} THEN had ELSE [had EXCEPT ![best] = @ + 1]
  IN  alloc[Max({TargetBitmaps - AttrNum, 0})]

\* Values by falling count, each into the least loaded bin; std::sort leaves the
\* order of equal counts open: tie decides it.
EqualityPolicy(buf, bins, tie) ==
  LET before(u, v) == \/ CountOf(buf, u) > CountOf(buf, v)
                      \/ CountOf(buf, u) = CountOf(buf, v) /\ tie[u] < tie[v]
      sorted_ids == SetToSortSeq(ToSet(buf), before)
      least(load) == CHOOSE b \in DOMAIN load : \A c \in DOMAIN load :
                       load[b] < load[c] \/ (load[b] = load[c] /\ b <= c)
      place(acc, v) == [load |-> [acc.load EXCEPT ![least(acc.load)] = @ + CountOf(buf, v)],
                        bin  |-> (v :> least(acc.load)) @@ acc.bin]
  IN  FoldLeft(place, [load |-> [b \in 0 .. bins - 1 |-> 0], bin |-> <<>>], sorted_ids).bin

\* The distinct values in order: the runs of the sorted buffer.
Runs(buf) == SetToSortSeq(ToSet(buf), <)

Abs(n) == IF n < 0 THEN -n ELSE n

\* The runs at which bins open: the bin being filled is closed before a run that
\* fills a bin alone, or when closing here is at least as near the target.
BoundaryRuns(buf, bins) ==
  LET runs == Runs(buf)
      sweep(acc, r) ==
        LET run   == CountOf(buf, runs[r])
            \* both sides of each comparison with the target, times remaining bins
            close == /\ acc.cur > 0 /\ acc.bins > 1
                     /\ \/ run * acc.bins >= acc.mass
                        \/ Abs(acc.cur * acc.bins - acc.mass)
                             <= Abs((acc.cur + run) * acc.bins - acc.mass)
        IN  IF close THEN [at |-> Append(acc.at, r), mass |-> acc.mass - acc.cur,
                           bins |-> acc.bins - 1, cur |-> run]
                     ELSE [acc EXCEPT !.cur = @ + run]
      cut == FoldLeftDomain(sweep, [at |-> <<1>>, mass |-> Len(buf), bins |-> bins, cur |-> 0],
                            runs).at
  IN  cut \o [k \in 1 .. bins + 1 - Len(cut) |-> Len(runs)]

RangePolicy(buf, bins) ==
  IF buf = <<>> THEN [k \in 1 .. bins + 1 |-> 0]
  ELSE [k \in 1 .. bins + 1 |-> Runs(buf)[BoundaryRuns(buf, bins)[k]]]

\* Thresholds at or below the run, less one, at most the last bin.
BinOfRun(at, r, bins) ==
  LET passed == Cardinality({k \in DOMAIN at : at[k] <= r})
  IN  Min({IF passed = 0 THEN 0 ELSE passed - 1, bins - 1})

\* The bin of every buffered value of attribute a.
BinOfRow(a, nums, policy) ==
  LET buf  == attr_buf[a]
      runs == Runs(buf)
      at   == BoundaryRuns(buf, nums[a])
  IN  [k \in DOMAIN buf |->
         IF IndexType(a) = "kEquality" THEN policy[a][buf[k]]
         ELSE BinOfRun(at, CHOOSE r \in DOMAIN runs : runs[r] = buf[k], nums[a])]

AttrBinOffset(nums, a) == SumFunctionOnSet(nums, 1 .. a - 1)
TotalBins(nums) == SumFunction(nums)

\* The dense cursor k of the buffers against the row id j.
CalculateBitmapIndex(nums, policy) ==
  LET bins     == [a \in Attrs |-> BinOfRow(a, nums, policy)]
      excluded == [a \in Attrs |-> attr_null_rows[a] \cup tombstones]
      k(a, j)  == Cardinality({i \in 0 .. j : i \notin excluded[a]})
      held(a, b) == {j \in RowIds \ excluded[a] : bins[a][k(a, j)] = b}
  IN  [f \in 0 .. TotalBins(nums) - 1 |->
         UNION {held(a, f - AttrBinOffset(nums, a)) : a \in
                  {a \in Attrs : f - AttrBinOffset(nums, a) \in 0 .. nums[a] - 1}}]

\* Orders std::sort may give values of equal count; only kEquality bins see them.
Ties ==
  LET values == UNION {ToSet(attr_buf[a]) : a \in Attrs}
      orders == {t \in [values -> 1 .. Cardinality(values)] : IsInjective(t)}
  IN  IF \E a \in Attrs : IndexType(a) = "kEquality" THEN orders
      ELSE {CHOOSE t \in orders : TRUE}

Finish ==
  /\ stage = "adding" /\ rows # <<>>
  /\ stage' = "finished"
  /\ \E tie \in Ties :
       LET nums   == BitmapNums
           policy == [a \in Attrs |-> IF IndexType(a) = "kEquality"
                                      THEN EqualityPolicy(attr_buf[a], nums[a], tie)
                                      ELSE RangePolicy(attr_buf[a], nums[a])]
       IN  index' = [nums |-> nums, policy |-> policy,
                     bitmaps |-> CalculateBitmapIndex(nums, policy)]
  /\ UNCHANGED <<buildVars, query, query_bitmap>>

------------------------------------------------------------------------------
(* SABIReader and BuildQueryBitmap.                                        *)

UpperBound(bounds, v) == Cardinality({k \in DOMAIN bounds : bounds[k] <= v})
LowerBound(bounds, v) == Cardinality({k \in DOMAIN bounds : bounds[k] < v})

\* The bin of a bound; -1 below the leftmost boundary.
bin_of(bounds, last, v, open) ==
  LET i == IF open THEN LowerBound(bounds, v) ELSE UpperBound(bounds, v)
  IN  IF i >= Len(bounds) THEN last ELSE i - 1

\* Mutant: a strict upper bound on a threshold is treated as closed.
SelectBins_HiClosed(e) ==
  LET bounds == index.policy[e.attr]
      last   == index.nums[e.attr] - 1
      offset == AttrBinOffset(index.nums, e.attr)
      end    == IF e.win.hi_unbounded THEN last ELSE bin_of(bounds, last, e.win.hi, FALSE)
      start  == Max({0, bin_of(bounds, last, e.win.lo, FALSE)})
  IN  IF IndexType(e.attr) = "kEquality"
      THEN {offset + bounds[v] : v \in {e.bytes} \cap DOMAIN bounds}
      ELSE IF Empty(e.win) THEN {} ELSE offset + start .. offset + end

\* The flat bins of an encoded condition: one for a value the kEquality policy
\* lists, the bins from that of lo to that of hi for a kRange interval.
SelectBins(e) ==
  LET bounds == index.policy[e.attr]
      last   == index.nums[e.attr] - 1
      offset == AttrBinOffset(index.nums, e.attr)
      end    == IF e.win.hi_unbounded THEN last
                ELSE bin_of(bounds, last, e.win.hi, e.win.hi_open)
      start  == Max({0, bin_of(bounds, last, e.win.lo, FALSE)})
  IN  IF IndexType(e.attr) = "kEquality"
      THEN {offset + bounds[v] : v \in {e.bytes} \cap DOMAIN bounds}
      ELSE IF Empty(e.win) \/ end < 0 THEN {} ELSE offset + start .. offset + end

\* Disjoint from the file's [min, max], or a value the file does not hold.
ConditionImpossible(e) ==
  LET bounds == index.policy[e.attr]
      mn == bounds[1]
      mx == bounds[Len(bounds)]
  IN  IF IndexType(e.attr) = "kEquality" THEN e.bytes \notin DOMAIN bounds
      ELSE \/ Empty(e.win) \/ e.win.lo > mx \/ (e.win.lo = mx /\ e.win.lo_open)
           \/ /\ ~e.win.hi_unbounded
              /\ e.win.hi < mn \/ (e.win.hi = mn /\ e.win.hi_open)

QueryCanMatch(enc) ==
  \A clause \in ToSet(enc.groups) :
    clause # <<>> => \E e \in ToSet(clause) : ~ConditionImpossible(e)

ConditionBitmap(e) == UNION {index.bitmaps[f] : f \in SelectBins(e)}

\* AND of the clauses' unions, less the deletions; no clause at all is a full scan.
BuildQueryBitmap(enc) ==
  {j \in RowIds : \A clause \in ToSet(enc.groups) :
                    \E e \in ToSet(clause) : j \in ConditionBitmap(e)} \ tombstones

\* NewIterator, which refuses an invalid query, and the constructor of
\* SABITableIterator: a query that cannot match selects nothing.
Answer(q) ==
  /\ stage = "finished"
  /\ Validate(q)
  /\ stage' = "answered"
  /\ query' = SortClauses(q)
  /\ LET enc == EncodeQuery(SortClauses(q))
     IN  query_bitmap' = IF enc.unsat \/ ~QueryCanMatch(enc) THEN {}
                         ELSE BuildQueryBitmap(enc)
  /\ UNCHANGED <<buildVars, index>>

\* The iterator is destroyed; the reader serves the next query.
Release ==
  /\ stage = "answered"
  /\ stage' = "finished"
  /\ query' = <<>>
  /\ query_bitmap' = {}
  /\ UNCHANGED <<buildVars, index>>

Next ==
  \/ \E r \in Rows \cup {Tombstone} : OnKeyAdded(r)
  \/ Finish
  \/ \E q \in options.queries : Answer(q)
  \/ Release

Spec == Init /\ [][Next]_vars

------------------------------------------------------------------------------
(* Properties.                                                             *)

Built == stage = "finished"
FlatBins(a) == AttrBinOffset(index.nums, a) .. AttrBinOffset(index.nums, a) + index.nums[a] - 1
NoNaN(a, v) == v = Null \/ ~IsNaN(Physical(a), v)

\* A row read back from its value is the row that was written: the null bits, slots and
\* variable ends of EncodeValue agree with those of DecodeAttr and DecodePayload.  What
\* changes is documented: an integer keeps the low bytes its width has room for, and a
\* NULL in an attribute that is not nullable reads as zero or empty.
RowsReadBack ==
  \A j \in RowIds : Live(j) =>
    LET r == rows[j + 1].written
    IN  /\ \A a \in Attrs : LET m == ByteVals ^ options.schema[a].width IN
             CASE r[a] = Null -> RowAt(j)[a] = IF options.schema[a].nullable THEN Null ELSE 0
               [] Physical(a) = "kInt" -> /\ RowAt(j)[a] % m = r[a] % m
                                          /\ 2 * RowAt(j)[a] \in -m .. m - 1
               [] Physical(a) = "kUint" -> RowAt(j)[a] = r[a] % m
               [] OTHER -> RowAt(j)[a] = r[a]
        /\ DecodePayload(options.schema, Stored(r)) = PayloadSize

\* No row is lost to the index: every row the query holds for is a candidate, through
\* okeys, pruning (QueryCanMatch, unsat), bin selection and CNF evaluation, and no
\* deletion is.
CandidatesCoverMatches ==
  stage = "answered" =>
    /\ {j \in RowIds : Live(j) /\ Eval(query, RowAt(j))} \subseteq query_bitmap
    /\ query_bitmap \cap tombstones = {}

\* Going to bytes, merging the intervals of single conditions and dropping empty ones
\* changes no answer: the encoded query holds for the rows the query holds for.  NaNs,
\* which compare like numbers as bytes, may only add rows (re-verified afterwards).
EncodingExact ==
  stage = "answered" =>
    \A j \in RowIds : Live(j) =>
      LET enc   == EncodedEval(EncodeQuery(query), ExtractAll(RowAt(j)))
          plain == /\ \A a \in Attrs : NoNaN(a, RowAt(j)[a])
                   /\ \A clause \in ToSet(query) : \A c \in ToSet(clause) : NoNaN(c.attr, c.value)
      IN  /\ Eval(query, RowAt(j)) => enc
          /\ plain /\ enc => Eval(query, RowAt(j))

\* CalculateBitmapIndex's two cursors stay in lockstep: a row is in exactly one bin of
\* each attribute it has a value for, in no bin of the others, and that bin is the
\* one SelectBins gives an equality on its value.
RowsInTheirBins ==
  Built => \A a \in Attrs, j \in RowIds :
    LET in == {f \in FlatBins(a) : j \in index.bitmaps[f]}
    IN  IF Live(j) /\ RowAt(j)[a] # Null
        THEN in = SelectBins(EncodeCondition([attr |-> a, op |-> "EQUAL", value |-> RowAt(j)[a]]))
             /\ Cardinality(in) = 1
        ELSE in = {}

\* "Only a range query's two end bins can contribute rejected rows", and a strict bound
\* on a threshold leaves the threshold's own bin out (SetRangeBinningPolicy's comment).
\* NaNs aside, which are binned like numbers and always rejected.
OnlyEndBinsWaste ==
  Built => \A c \in UNION {ToSet(clause) : clause \in
                             UNION {ToSet(q) : q \in {q \in options.queries : Validate(q)}}} :
    IndexType(c.attr) = "kRange" /\ NoNaN(c.attr, c.value) =>
      LET sel == SelectBins(EncodeCondition(c))
          held(f) == {j \in index.bitmaps[f] : NoNaN(c.attr, RowAt(j)[c.attr])}
      IN  /\ \A f \in sel : (\E j \in held(f) : ~EvalCondition(c, RowAt(j)))
                              => f \in {Min(sel), Max(sel)}
          /\ c.op = "LESS" =>
               \A f \in sel : held(f) # {} /\ held(f) = index.bitmaps[f] =>
                              \E j \in held(f) : EvalCondition(c, RowAt(j))
==============================================================================
