------------------------------ MODULE Estimator ------------------------------
(***************************************************************************)
(* The estimates of CardinalityEstimator (bit_lsm_estimator.cpp): Rebuild  *)
(* harvests the histograms and value counts of the live files' indexes     *)
(* into global statistics, from which Estimate answers.  When Rebuild runs *)
(* is in StatsRefresh.                                                     *)
(*                                                                         *)
(* Composed with SABIIndex, which writes the files.  Masses, doubles in    *)
(* the code, are exact ratios here.                                        *)
(***************************************************************************)
EXTENDS SABIIndex

CONSTANTS
  GridCells,           \* estimator_grid_cells
  kMaxTrackedValues

ASSUME EstimatorAssumption == GridCells \in Nat \ {0} /\ kMaxTrackedValues \in Nat \ {0}

VARIABLES
  files,         \* the live files
  stats          \* cached_

estVars == <<vars, files, stats>>

------------------------------------------------------------------------------
(* Ratios.                                                                 *)

gcd[a \in Nat, b \in Nat] == IF b = 0 THEN a ELSE gcd[b, a % b]
Reduced(n, d, g) == <<n \div g, d \div g>>
Ratio(n, d) == Reduced(n, d, gcd[n, d])
Zero == <<0, 1>>
One == <<1, 1>>
Plus(x, y) == Ratio(x[1] * y[2] + y[1] * x[2], x[2] * y[2])
Less(x, y) == x[1] * y[2] < y[1] * x[2]
Minus(x, y) == IF Less(x, y) THEN Zero ELSE Ratio(x[1] * y[2] - y[1] * x[2], x[2] * y[2])
Times(x, y) == Ratio(x[1] * y[1], x[2] * y[2])
Over(x, y) == Ratio(x[1] * y[2], x[2] * y[1])
Larger(x, y) == IF Less(x, y) THEN y ELSE x
Smaller(x, y) == IF Less(x, y) THEN x ELSE y
Total(f) == FoldFunction(Plus, Zero, f)

------------------------------------------------------------------------------
(* ByteAxis.                                                               *)

MaxWord == 2 * Half - 1
SatAdd(a, b) == Min({a + b, MaxWord})

\* s[k, k+digits) as a number, bytes clamped into the radix, missing ones 0.
Digit(axis, s, pos) ==
  IF pos > Len(s) \/ s[pos] <= axis.lo_char THEN 0
  ELSE Min({s[pos] - axis.lo_char, axis.radix - 1})
WindowOf(axis, s) ==
  FoldLeft(LAMBDA acc, i : acc * axis.radix + Digit(axis, s, Len(axis.prefix) + i), 0,
           [i \in 1 .. axis.digits |-> i])

\* The bytes past the prefix give the radix, the radix the digits that fit in a word.  A
\* unit is a step in the last digit that the shortest boundary has.
Radix(past) == IF past = {} THEN 2 ELSE Max({2, Max(past) - Min(past) + 1})
Digits(radix) == Max({d \in 0 .. MaxWord : radix ^ d <= 2 * Half})
Unit(radix, digits, pad) == radix ^ Max({0, Min({pad, digits - 1})})

Scale(prefix, past, radix, digits, shortest) ==
  [prefix |-> prefix, lo_char |-> IF past = {} THEN 0 ELSE Min(past), radix |-> radix,
   digits |-> digits, unit |-> Unit(radix, digits, Len(prefix) + digits - shortest)]
From(axis, base, mx) == axis @@ [base |-> base, span |-> WindowOf(axis, mx) - base]
Anchor(axis, mn, mx) == From(axis, WindowOf(axis, mn), mx)

PastPrefix(k, boundaries) == UNION {{s[i] : i \in k + 1 .. Len(s)} : s \in boundaries}
FitDigits(prefix, past, radix, shortest) == Scale(prefix, past, radix, Digits(radix), shortest)
FitRadix(prefix, past, shortest) == FitDigits(prefix, past, Radix(past), shortest)
FitPrefix(prefix, boundaries) ==
  FitRadix(prefix, PastPrefix(Len(prefix), boundaries), Min({Len(s) : s \in boundaries}))

\* From the least and the greatest boundary, and all of them.
Fit(mn, mx, boundaries) ==
  Anchor(FitPrefix(LongestCommonPrefix({mn, mx}), boundaries), mn, mx)

End(axis) == SatAdd(axis.span, axis.unit)

\* The coordinate of a string from min to max, which has their prefix: Place settles the
\* others by their bytes.
RelWindow(axis, w) ==
  IF w < axis.base THEN 0 ELSE IF w - axis.base > axis.span THEN End(axis) ELSE w - axis.base
Rel(axis, s) == RelWindow(axis, WindowOf(axis, s))

------------------------------------------------------------------------------
(* GlobalRangeStats.                                                       *)

Coordinate(ord, a, v) == Rel(ord.axis, Bytes(Physical(a), v))

\* An interval on the axis, half open.
PlaceLo(ord, a, w) ==
  CASE w.lo < ord.min -> 0
    [] w.lo > ord.max -> End(ord.axis)
    [] OTHER -> SatAdd(Coordinate(ord, a, w.lo), IF w.lo_open THEN ord.axis.unit ELSE 0)
PlaceHi(ord, a, w) ==
  CASE w.hi_unbounded \/ w.hi > ord.max -> End(ord.axis)
    [] ~w.hi_unbounded /\ w.hi < ord.min -> 0
    [] OTHER -> SatAdd(Coordinate(ord, a, w.hi), IF w.hi_open THEN 0 ELSE ord.axis.unit)
Window(axis, lo, hi, from_min) ==
  [lo |-> lo, hi |-> hi, point |-> hi > lo /\ hi - lo <= axis.unit,
   in_span |-> from_min /\ lo <= axis.span]
Place(ord, a, w) == Window(ord.axis, PlaceLo(ord, a, w), PlaceHi(ord, a, w), w.lo >= ord.min)

\* The mass below a coordinate; within a cell it grows linearly.
Interpolate(below, upto, part) == Plus(below, Times(Minus(upto, below), part))
CumIn(ord, rel, cell) ==
  Interpolate(IF cell = 0 THEN Zero ELSE ord.cell_psum[cell - 1], ord.cell_psum[cell],
              Ratio(rel * GridCells - cell * ord.axis.span, ord.axis.span))
CumBelow(ord, rel) ==
  CASE rel = 0 -> Zero
    [] rel > ord.axis.span -> ord.total
    [] OTHER -> CumIn(ord, rel, Min({(rel * GridCells) \div ord.axis.span, GridCells - 1}))

RangeMass(ord, w) ==
  IF w.hi <= w.lo THEN Zero ELSE Minus(CumBelow(ord, w.hi), CumBelow(ord, w.lo))

\* Mutant: no floor of total / ndv under a point.
PointAwareRangeMass_NoFloor(ord, w) == Smaller(RangeMass(ord, w), ord.total)

\* A point inside the span is worth at least an even share.
PointAwareRangeMass(ord, w) ==
  Smaller(Larger(RangeMass(ord, w),
                 IF w.point /\ ord.ndv > 0 /\ w.in_span
                   THEN Over(ord.total, <<ord.ndv, 1>>) ELSE Zero),
          ord.total)

\* Per covering file its share of the matching mass, rounded out to whole bins.
Covers(s, w, end) == w.hi > s.lo /\ w.lo < end /\ s.total # Zero
Overlap(s, w, end, unit) ==
  IF Covers(s, w, end)
    THEN Times(s.total, Ratio(Min({w.hi, end}) - Max({w.lo, s.lo}), s.hi - s.lo + unit))
    ELSE Zero
Smear(s, w, end) ==
  IF w.point THEN Zero
  ELSE Times(Ratio((IF w.lo > s.lo THEN 1 ELSE 0) + (IF w.hi < end THEN 1 ELSE 0), 2), s.binmass)
Fetched(s, w, end, share) ==
  IF Covers(s, w, end)
    THEN Smaller(Larger(s.binmass, Plus(share, Smear(s, w, end))), s.total) ELSE Zero
FetchedAll(ord, w, match, overlap, all) ==
  Total([i \in DOMAIN ord.sst_bins |->
           Fetched(ord.sst_bins[i], w, SatAdd(ord.sst_bins[i].hi, ord.axis.unit),
                   IF all = Zero THEN Zero ELSE Over(Times(match, overlap[i]), all))])
FetchedFrom(ord, w, match, overlap) == FetchedAll(ord, w, match, overlap, Total(overlap))
CandidateMass(ord, w, match) ==
  IF w.hi <= w.lo THEN match
  ELSE Larger(match, FetchedFrom(ord, w, match,
         [i \in DOMAIN ord.sst_bins |->
            Overlap(ord.sst_bins[i], w, SatAdd(ord.sst_bins[i].hi, ord.axis.unit),
                    ord.axis.unit)]))

------------------------------------------------------------------------------
(* What a file's reader gives.                                             *)

BinCardinality(f, flat) == Cardinality(f.index.bitmaps[flat])
BinCounts(f, a) == [b \in 0 .. f.index.nums[a] - 1 |->
                      BinCardinality(f, AttrBinOffset(f.index.nums, a) + b)]

HasHistogram(f, a) == SumFunction(BinCounts(f, a)) > 0
RangeHistogram(f, a) ==
  [boundaries |-> f.index.policy[a], counts |-> BinCounts(f, a), distinct |-> f.distinct[a]]

\* Values that share a bin split its count.
EqualityValueCounts(f, a) ==
  LET bin_of_value == f.index.policy[a]
      sharing(b) == Cardinality({v \in DOMAIN bin_of_value : bin_of_value[v] = b})
  IN  [v \in DOMAIN bin_of_value |->
         Ratio(BinCounts(f, a)[bin_of_value[v]], sharing(bin_of_value[v]))]

------------------------------------------------------------------------------
(* Rebuild.                                                                *)

\* Mutant: a bin of no width is skipped.
Spread_SkipsPoints(s, e, span, c) ==
  IF e <= s THEN Zero
  ELSE Ratio(Max({0, Min({e * GridCells, (c + 1) * span}) - Max({s * GridCells, c * span})}),
             (e - s) * GridCells)

\* The part of a bin from s to e that falls into cell c: by length, or all of it into
\* one cell when the bin has no width.
Spread(s, e, span, c) ==
  IF e <= s
    THEN IF c = Min({(s * GridCells) \div span, GridCells - 1}) THEN One ELSE Zero
    ELSE Ratio(Max({0, Min({e * GridCells, (c + 1) * span}) - Max({s * GridCells, c * span})}),
               (e - s) * GridCells)

\* Bin b of a file's histogram, in cell c of the grid.
Part(h, axis, a, b, c) ==
  CASE h.counts[b] = 0 -> Zero
    [] axis.span = 0 -> IF c = 0 THEN <<h.counts[b], 1>> ELSE Zero
    [] OTHER -> Times(<<h.counts[b], 1>>,
                      Spread(Rel(axis, Bytes(Physical(a), h.boundaries[b + 1])),
                             Rel(axis, Bytes(Physical(a), h.boundaries[b + 2])), axis.span, c))
ProjectHistogram(h, axis, a, c) == Total([b \in DOMAIN h.counts |-> Part(h, axis, a, b, c)])

SSTBins(h, axis, a, total) ==
  [lo |-> Rel(axis, Bytes(Physical(a), h.boundaries[1])),
   hi |-> Rel(axis, Bytes(Physical(a), Last(h.boundaries))),
   total |-> <<total, 1>>, binmass |-> Ratio(total, Cardinality(DOMAIN h.counts))]

PrefixSums(cells) ==
  [c \in DOMAIN cells |-> FoldFunctionOnSet(Plus, Zero, cells, 0 .. c)]

RangeStatsOn(hists, a, mn, mx, axis, cell_psum) ==
  [min |-> mn, max |-> mx, axis |-> axis, ndv |-> Max({h.distinct : h \in Range(hists)}),
   sst_bins |-> [i \in DOMAIN hists |-> SSTBins(hists[i], axis, a, SumFunction(hists[i].counts))],
   cell_psum |-> cell_psum, total |-> cell_psum[GridCells - 1]]
RangeStatsOver(hists, a, mn, mx, axis) ==
  RangeStatsOn(hists, a, mn, mx, axis,
    PrefixSums([c \in 0 .. GridCells - 1 |->
                  Total([i \in DOMAIN hists |-> ProjectHistogram(hists[i], axis, a, c)])]))
RangeStatsIn(hists, a, mn, mx) ==
  RangeStatsOver(hists, a, mn, mx,
    Fit(Bytes(Physical(a), mn), Bytes(Physical(a), mx),
        UNION {{Bytes(Physical(a), v) : v \in ToSet(h.boundaries)} : h \in Range(hists)}))

\* One attribute's histograms on one grid between the least and the greatest boundary.
RangeStats(hists, a) ==
  RangeStatsIn(hists, a, Min({h.boundaries[1] : h \in Range(hists)}),
               Max({Last(h.boundaries) : h \in Range(hists)}))

\* The counts of all files; past kMaxTrackedValues only the most frequent are kept,
\* which of equals is nth_element's choice.
Tracked(sums, binmass_sum) ==
  {[value_counts |-> [v \in k |-> sums[v]], truncated |-> k # DOMAIN sums,
    total |-> Total(sums), binmass_sum |-> binmass_sum] :
   k \in {k \in SUBSET DOMAIN sums :
            /\ Cardinality(k) = Min({kMaxTrackedValues, Cardinality(DOMAIN sums)})
            /\ \A v \in k, u \in DOMAIN sums \ k : ~Less(sums[v], sums[u])}}
EqualityStats(harvest) ==
  Tracked([v \in UNION {DOMAIN h.counts : h \in Range(harvest)} |->
             Total([i \in {i \in DOMAIN harvest : v \in DOMAIN harvest[i].counts} |->
                      harvest[i].counts[v]])],
          Total([i \in DOMAIN harvest |->
                   Over(Total(harvest[i].counts), <<harvest[i].bins, 1>>)]))

NoStats == [live_sst_count |-> 0, physical_rows |-> 0, range |-> <<>>, equality |-> <<>>,
            harvested |-> {}]

\* What the files whose index bins the attribute give of it.
Binned(sabi, type) ==
  [a \in {a \in Attrs : IndexType(a) = type /\ \E f \in ToSet(sabi) : HasHistogram(f, a)} |->
     SelectSeq(sabi, LAMBDA f : HasHistogram(f, a))]
Histograms(fs, a) == [i \in DOMAIN fs |-> RangeHistogram(fs[i], a)]
ValueCounts(fs, a) ==
  [i \in DOMAIN fs |-> [counts |-> EqualityValueCounts(fs[i], a), bins |-> fs[i].index.nums[a]]]
PerAttr(S(_), D) == {e \in [D -> UNION {S(a) : a \in D}] : \A a \in D : e[a] \in S(a)}
RebuiltFrom(open, sabi, ranged, dictionaries) ==
  \E equality \in PerAttr(LAMBDA a : EqualityStats(ValueCounts(dictionaries[a], a)),
                          DOMAIN dictionaries) :
    stats' = [live_sst_count |-> Len(open), equality |-> equality,
              physical_rows |-> FoldLeft(LAMBDA n, f : n + f.num_entries - f.num_deletions, 0, open),
              range |-> [a \in DOMAIN ranged |-> RangeStats(Histograms(ranged[a], a), a)],
              harvested |-> {f.number : f \in ToSet(sabi)}]
Harvest(open, sabi) == RebuiltFrom(open, sabi, Binned(sabi, "kRange"), Binned(sabi, "kEquality"))
Open(open) == Harvest(open, SelectSeq(open, LAMBDA f : f.has_sabi))

\* From the files that could be opened.  One without SABI, or whose SABI does not parse,
\* adds its rows to physical_rows and nothing else.  Taken when all files are there: files
\* not yet written are like unreadable ones.
Rebuild(readable) ==
  /\ Len(files) = options.max_files
  /\ Open(SelectSeq(files, LAMBDA f : f.number \in readable))
  /\ UNCHANGED <<vars, files>>

------------------------------------------------------------------------------
(* Estimate.                                                               *)

Unestimatable == <<-1, 1>>
Rows1 == <<stats.physical_rows, 1>>

MassIn(ord, win) == IF win.hi <= win.lo THEN Zero ELSE PointAwareRangeMass(ord, win)
WindowMass(a, w) == MassIn(stats.range[a], Place(stats.range[a], a, w))

\* The part of the rows one condition matches.
ConditionSelectivity(e) ==
  IF IndexType(e.attr) = "kRange"
    THEN IF e.attr \notin DOMAIN stats.range THEN Unestimatable
         ELSE Over(WindowMass(e.attr, e.win), Rows1)
  ELSE CASE e.attr \notin DOMAIN stats.equality -> Unestimatable
         [] e.attr \in DOMAIN stats.equality /\ e.bytes \in DOMAIN stats.equality[e.attr].value_counts
              -> Over(stats.equality[e.attr].value_counts[e.bytes], Rows1)
         [] OTHER -> IF stats.equality[e.attr].truncated THEN Unestimatable ELSE Zero

\* The part it fetches.
CandidateIn(ord, win, match) ==
  IF win.hi <= win.lo THEN Zero ELSE Smaller(One, Over(CandidateMass(ord, win, match), Rows1))
WindowCandidate(a, w, match) == CandidateIn(stats.range[a], Place(stats.range[a], a, w), match)

ConditionCandidate(e, f) ==
  IF IndexType(e.attr) = "kRange" THEN WindowCandidate(e.attr, e.win, Times(f, Rows1))
  ELSE IF f = Zero THEN Zero
  ELSE Smaller(One, Larger(f, Over(stats.equality[e.attr].binmass_sum, Rows1)))

SingleRange(clause) == Len(clause) = 1 /\ IndexType(clause[1].attr) = "kRange"
Factor(match, cand, flags) == [match |-> match, cand |-> cand, flags |-> flags]

\* A clause's factors: the members' sums, at most 1; 1 if a member has no estimate.
MembersFactor(clause, f) ==
  IF \E i \in DOMAIN f : f[i] = Unestimatable
    THEN Factor(One, One, {clause[i].attr : i \in {i \in DOMAIN f : f[i] = Unestimatable}})
    ELSE Factor(Smaller(One, Total(f)),
                Smaller(One, Total([i \in DOMAIN f |-> ConditionCandidate(clause[i], f[i])])), {})
ClauseFactor(clause) ==
  IF clause = <<>> \/ SingleRange(clause) THEN Factor(One, One, {})
  ELSE MembersFactor(clause, [i \in DOMAIN clause |-> ConditionSelectivity(clause[i])])

\* The single conditions on an attribute, intersected.
IntervalFactor(a, w, match) == Factor(Over(match, Rows1), WindowCandidate(a, w, match), {})
MergedFactor(a, w) == IntervalFactor(a, w, WindowMass(a, w))
WindowFactor(a, clauses) ==
  IF a \notin DOMAIN stats.range THEN Factor(One, One, {a})
  ELSE MergedFactor(a, FoldLeft(LAMBDA w, clause : Intersect(w, clause[1].win), WholeDomain,
                                clauses))

Result(product, selectivity, candidates, flags) ==
  [product |-> product, selectivity |-> selectivity,
   candidate_selectivity |-> Smaller(One, Larger(candidates, selectivity)),
   fallback_attrs |-> flags]
Floored(product, candidates, flags) ==
  Result(product, Smaller(One, Larger(product, Ratio(1, stats.physical_rows))), candidates, flags)
Combine(factors) ==
  Floored(FoldLeft(LAMBDA x, f : Times(x, f.match), One, factors),
          FoldLeft(LAMBDA x, f : Times(x, f.cand), One, factors),
          UNION {f.flags : f \in ToSet(factors)})
Windows(enc) == {c[1].attr : c \in {c \in ToSet(enc.groups) : SingleRange(c)}}

\* product is the selectivity before its floor of one row.
Estimate(enc) ==
  IF stats.live_sst_count = 0 \/ stats.physical_rows = 0
    THEN Result(One, One, One, UNION {{e.attr : e \in ToSet(c)} : c \in ToSet(enc.groups)})
    ELSE Combine([i \in DOMAIN enc.groups |-> ClauseFactor(enc.groups[i])]
                   \o [i \in 1 .. AttrNum |->
                         IF i \notin Windows(enc) THEN Factor(One, One, {})
                         ELSE WindowFactor(i, SelectSeq(enc.groups, LAMBDA c :
                                                SingleRange(c) /\ c[1].attr = i))])

------------------------------------------------------------------------------

EstInit == Init /\ files = <<>> /\ stats = NoStats

\* The finished file goes live, its SABI block missing if the column family was not bound
\* when it was written; another builder starts.
Install(has_sabi) ==
  /\ stage = "finished" /\ Len(files) < options.max_files
  /\ files' = Append(files,
       [number |-> Len(files) + 1, has_sabi |-> has_sabi, index |-> index,
        distinct |-> [a \in Attrs |-> Cardinality(ToSet(attr_buf[a]))],
        num_entries |-> Len(rows), num_deletions |-> Cardinality(tombstones),
        rows |-> {RowAt(j) : j \in {j \in RowIds : Live(j)}}])
  /\ stage' = "adding" /\ rows' = <<>> /\ tombstones' = {} /\ index' = NoIndex
  /\ attr_buf' = [a \in Attrs |-> <<>>] /\ attr_null_rows' = [a \in Attrs |-> {}]
  /\ UNCHANGED <<instance, query, query_bitmap, stats>>

EstNext ==
  \/ Len(files) < options.max_files /\ Next /\ UNCHANGED <<files, stats>>
  \/ \E has_sabi \in BOOLEAN : Install(has_sabi)
  \/ \E readable \in SUBSET (1 .. Len(files)) : Rebuild(readable)

EstSpec == EstInit /\ [][EstNext]_estVars

------------------------------------------------------------------------------
(* Properties.                                                             *)

Harvested == {f \in ToSet(files) : f.number \in stats.harvested}
BinnedRows(a) == FoldSet(LAMBDA f, n : n + SumFunction(BinCounts(f, a)), 0, Harvested)
Saturated(a) == stats.range[a].axis.span + stats.range[a].axis.unit > MaxWord

Divides(ord, a, v) ==
  Plus(RangeMass(ord, Place(ord, a, FromOp("LESS", v))),
       RangeMass(ord, Place(ord, a, FromOp("GREATER_EQUAL", v)))) = ord.total
Between(match, cand, total) == ~Less(cand, match) /\ ~Less(total, cand)
RoundedOut(ord, win, match) == Between(match, CandidateMass(ord, win, match), ord.total)

\* "Mass is ... smeared, never lost": projecting the histograms onto the grid and merging
\* the dictionaries keeps every binned row of the harvested files, a cut at any comparand
\* divides the mass in two, and what a window fetches is at least what it matches and at
\* most what there is, so that no fraction needs its cap of 1.
MassConserved ==
  /\ \A a \in DOMAIN stats.equality :
       /\ stats.equality[a].total = <<BinnedRows(a), 1>>
       /\ stats.equality[a].truncated \/
            Total(stats.equality[a].value_counts) = stats.equality[a].total
  /\ \A a \in DOMAIN stats.range :
       /\ stats.range[a].total = <<BinnedRows(a), 1>>
       /\ BinnedRows(a) <= stats.physical_rows
       /\ \A v \in options.comparands[a] :
            /\ Divides(stats.range[a], a, v)
            /\ \A op \in CompareOps :
                 RoundedOut(stats.range[a], Place(stats.range[a], a, FromOp(op, v)),
                            WindowMass(a, FromOp(op, v)))

\* An estimate of nothing is right: when the product for a query of closed intervals and
\* equalities is 0, no row of the harvested files matches.  (Not on a saturated axis, where
\* End() does not lie past max; an open end may share the coordinate of a value inside; and
\* rows of files without SABI are not in the dictionaries.)
ZeroMeansAbsent ==
  stats.harvested # {} /\ (\A a \in DOMAIN stats.range : ~Saturated(a)) =>
    \A q \in options.estimated :
      Estimate(EncodeQuery(q)).product = Zero =>
        \A f \in Harvested : \A row \in f.rows : ~Eval(q, row)
==============================================================================
