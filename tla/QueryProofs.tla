----------------------------- MODULE QueryProofs -----------------------------
(***************************************************************************)
(* The index compares bytes where a row comparison compares native values. *)
(* For every word size, type and operator both say the same, and the       *)
(* interval algebra of ByteInterval neither loses nor adds a value.        *)
(***************************************************************************)
EXTENDS SABIQuery, TLAPS

PhysicalTypes == {"kInt", "kUint", "kFloat", "kBinary", "kVarBinary"}

\* The values of a physical type: words, patterns, or strings in their order.
Domain(type) ==
  CASE type = "kInt" -> -Half .. Half - 1
    [] type \in {"kUint", "kFloat"} -> 0 .. 2 * Half - 1
    [] type \in {"kBinary", "kVarBinary"} -> Nat

Intervals == [lo : Nat, lo_open : BOOLEAN, hi : Nat, hi_open : BOOLEAN, hi_unbounded : BOOLEAN]

------------------------------------------------------------------------------
(* The okeys.                                                              *)

\* I64ToOkey keeps the order of signed words.
LEMMA IntOrder ==
  ASSUME NEW x \in Domain("kInt"), NEW y \in Domain("kInt")
  PROVE  /\ I64ToOkey(x) \in Nat
         /\ I64ToOkey(x) < I64ToOkey(y) <=> x < y
         /\ I64ToOkey(x) = I64ToOkey(y) <=> x = y
<1>1. \A z \in Domain("kInt") : z \in Int /\ I64ToOkey(z) = z + Half
  BY WordAssumption DEF Domain, I64ToOkey, FlipSign, AsUnsigned
<1>2. x \in -Half .. Half - 1 /\ y \in -Half .. Half - 1
  BY DEF Domain
<1> QED
  BY <1>1, <1>2, WordAssumption

\* F64ToOkey orders bit patterns as the sign and magnitude they stand for, the two zeros
\* as one.
LEMMA FloatOrder ==
  ASSUME NEW x \in Domain("kFloat"), NEW y \in Domain("kFloat")
  PROVE  /\ F64ToOkey(x) \in Nat /\ Signed(x) \in Int /\ Signed(y) \in Int
         /\ Signed(x) < Signed(y) => F64ToOkey(x) < F64ToOkey(y)
         /\ Signed(x) = Signed(y) => F64ToOkey(x) = F64ToOkey(y)
<1>1. x \in 0 .. 2 * Half - 1 /\ y \in 0 .. 2 * Half - 1
  BY DEF Domain
<1>2. \A z \in 0 .. 2 * Half - 1 :
        /\ z < Half => F64ToOkey(z) = z + Half /\ Signed(z) = z
        /\ z >= Half => Signed(z) = Half - z
        /\ z = Half => F64ToOkey(z) = Half
        /\ z > Half => F64ToOkey(z) = 2 * Half - 1 - z
  BY WordAssumption DEF F64ToOkey, FlipSign, Signed, Magnitude
<1> QED
  BY <1>1, <1>2, WordAssumption

\* The bytes of numbers and strings.
LEMMA BytesOf ==
  ASSUME NEW v
  PROVE  /\ ToBytes("kInt", v) = I64ToOkey(v) + 1
         /\ ToBytes("kUint", v) = v + 1
         /\ ToBytes("kFloat", v) = F64ToOkey(v) + 1
         /\ ToBytes("kBinary", v) = v
         /\ ToBytes("kVarBinary", v) = v
<1>1. /\ NumericToOkey("kInt", v) = I64ToOkey(v)
      /\ NumericToOkey("kUint", v) = v
      /\ NumericToOkey("kFloat", v) = F64ToOkey(v)
  BY Zenon DEF NumericToOkey, U64ToOkey
<1> QED
  BY <1>1 DEF ToBytes

\* The order in which a row comparison of a type ranks its values.
Rank64(type, v) == IF type = "kFloat" THEN Signed(v) ELSE v

\* memcmp on SABI's bytes is the order of the native domain, the NaNs apart.
THEOREM BytesOrder ==
  ASSUME NEW type \in PhysicalTypes, NEW x \in Domain(type), NEW y \in Domain(type)
  PROVE  /\ ToBytes(type, x) \in Nat
         /\ Rank64(type, x) \in Int
         /\ ToBytes(type, x) < ToBytes(type, y) <=> Rank64(type, x) < Rank64(type, y)
         /\ ToBytes(type, x) = ToBytes(type, y) <=> Rank64(type, x) = Rank64(type, y)
<1>1. CASE type = "kInt"
  BY <1>1, IntOrder, BytesOf DEF Rank64, Domain
<1>2. CASE type = "kUint"
  <2>1. x \in 0 .. 2 * Half - 1 /\ y \in 0 .. 2 * Half - 1
    BY <1>2 DEF Domain
  <2> QED
    BY <1>2, <2>1, BytesOf, WordAssumption DEF Rank64
<1>3. CASE type = "kFloat"
  <2>1. x \in Domain("kFloat") /\ y \in Domain("kFloat")
    BY <1>3
  <2>2. /\ F64ToOkey(x) \in Nat /\ F64ToOkey(y) \in Nat
        /\ F64ToOkey(x) < F64ToOkey(y) <=> Signed(x) < Signed(y)
        /\ F64ToOkey(x) = F64ToOkey(y) <=> Signed(x) = Signed(y)
        /\ Signed(x) \in Int
    <3>1. /\ F64ToOkey(x) \in Nat /\ Signed(x) \in Int /\ Signed(y) \in Int
          /\ Signed(x) < Signed(y) => F64ToOkey(x) < F64ToOkey(y)
          /\ Signed(x) = Signed(y) => F64ToOkey(x) = F64ToOkey(y)
      BY <2>1, FloatOrder
    <3>2. F64ToOkey(y) \in Nat /\ (Signed(y) < Signed(x) => F64ToOkey(y) < F64ToOkey(x))
      BY <2>1, FloatOrder
    <3> QED
      BY <3>1, <3>2
  <2>3. ToBytes(type, x) = F64ToOkey(x) + 1 /\ ToBytes(type, y) = F64ToOkey(y) + 1
    BY <1>3, BytesOf
  <2>4. Rank64(type, x) = Signed(x) /\ Rank64(type, y) = Signed(y)
    BY <1>3 DEF Rank64
  <2> QED
    BY <2>2, <2>3, <2>4
<1>4. CASE type \in {"kBinary", "kVarBinary"}
  <2>1. x \in Nat /\ y \in Nat
    BY <1>4 DEF Domain
  <2> QED
    BY <1>4, <2>1, BytesOf DEF Rank64
<1> QED
  BY <1>1, <1>2, <1>3, <1>4 DEF PhysicalTypes

------------------------------------------------------------------------------
(* ByteInterval.                                                           *)

\* FromOp's intervals are intervals and hold the bytes that compare so.
LEMMA FromOpExact ==
  ASSUME NEW op \in CompareOps, NEW u \in Nat, NEW v \in Nat
  PROVE  /\ FromOp(op, v) \in Intervals
         /\ InInterval(u, FromOp(op, v)) <=> ApplyCompareOp(op, u, v)
<1>1. CASE op = "EQUAL"
  <2>1. FromOp(op, v) = Interval(v, FALSE, v, FALSE, FALSE) /\ (ApplyCompareOp(op, u, v) <=> u = v)
    BY <1>1, Zenon DEF FromOp, ApplyCompareOp
  <2> QED
    BY <2>1 DEF Interval, InInterval, Intervals
<1>2. CASE op = "GREATER_EQUAL"
  <2>1. FromOp(op, v) = Interval(v, FALSE, 0, FALSE, TRUE) /\ (ApplyCompareOp(op, u, v) <=> u >= v)
    BY <1>2, Zenon DEF FromOp, ApplyCompareOp
  <2> QED
    BY <2>1 DEF Interval, InInterval, Intervals
<1>3. CASE op = "GREATER"
  <2>1. FromOp(op, v) = Interval(v, TRUE, 0, FALSE, TRUE) /\ (ApplyCompareOp(op, u, v) <=> u > v)
    BY <1>3, Zenon DEF FromOp, ApplyCompareOp
  <2> QED
    BY <2>1 DEF Interval, InInterval, Intervals
<1>4. CASE op = "LESS_EQUAL"
  <2>1. FromOp(op, v) = Interval(0, FALSE, v, FALSE, FALSE) /\ (ApplyCompareOp(op, u, v) <=> u <= v)
    BY <1>4, Zenon DEF FromOp, ApplyCompareOp
  <2> QED
    BY <2>1 DEF Interval, InInterval, Intervals
<1>5. CASE op = "LESS"
  <2>1. FromOp(op, v) = Interval(0, FALSE, v, TRUE, FALSE) /\ (ApplyCompareOp(op, u, v) <=> u < v)
    BY <1>5, Zenon DEF FromOp, ApplyCompareOp
  <2> QED
    BY <2>1 DEF Interval, InInterval, Intervals
<1> QED
  BY <1>1, <1>2, <1>3, <1>4, <1>5 DEF CompareOps

\* The tighter lower end admits what both lower ends admit.
LEMMA TightLoExact ==
  ASSUME NEW w \in Intervals, NEW o \in Intervals, NEW v \in Nat
  PROVE  /\ TightLo(w, o).lo \in Nat /\ TightLo(w, o).lo_open \in BOOLEAN
         /\ (IF TightLo(w, o).lo_open THEN v > TightLo(w, o).lo ELSE v >= TightLo(w, o).lo)
              <=> /\ IF w.lo_open THEN v > w.lo ELSE v >= w.lo
                  /\ IF o.lo_open THEN v > o.lo ELSE v >= o.lo
<1>0. /\ w.lo \in Nat /\ o.lo \in Nat /\ w.lo_open \in BOOLEAN /\ o.lo_open \in BOOLEAN
  BY DEF Intervals
<1> QED
  BY <1>0 DEF TightLo

\* The tighter upper end admits what both upper ends admit.
LEMMA TightHiExact ==
  ASSUME NEW w \in Intervals, NEW o \in Intervals, NEW v \in Nat
  PROVE  /\ TightHi(w, o).hi \in Nat /\ TightHi(w, o).hi_open \in BOOLEAN
         /\ TightHi(w, o).hi_unbounded \in BOOLEAN
         /\ (\/ TightHi(w, o).hi_unbounded
             \/ IF TightHi(w, o).hi_open THEN v < TightHi(w, o).hi ELSE v <= TightHi(w, o).hi)
              <=> /\ w.hi_unbounded \/ (IF w.hi_open THEN v < w.hi ELSE v <= w.hi)
                  /\ o.hi_unbounded \/ (IF o.hi_open THEN v < o.hi ELSE v <= o.hi)
<1>0. /\ w.hi \in Nat /\ o.hi \in Nat /\ w.hi_open \in BOOLEAN /\ o.hi_open \in BOOLEAN
      /\ w.hi_unbounded \in BOOLEAN /\ o.hi_unbounded \in BOOLEAN
  BY DEF Intervals
<1>1. CASE o.hi_unbounded
  <2>1. TightHi(w, o) = [hi |-> w.hi, hi_open |-> w.hi_open, hi_unbounded |-> w.hi_unbounded]
    BY <1>1 DEF TightHi
  <2> QED
    BY <1>0, <1>1, <2>1
<1>2. CASE ~o.hi_unbounded /\ (w.hi_unbounded \/ o.hi < w.hi)
  <2>1. TightHi(w, o) = [hi |-> o.hi, hi_open |-> o.hi_open, hi_unbounded |-> FALSE]
    BY <1>2 DEF TightHi
  <2> QED
    BY <1>0, <1>2, <2>1
<1>3. CASE ~o.hi_unbounded /\ ~(w.hi_unbounded \/ o.hi < w.hi)
  <2>1. TightHi(w, o) = [hi |-> w.hi, hi_open |-> w.hi_open \/ (o.hi = w.hi /\ o.hi_open),
                         hi_unbounded |-> FALSE]
    BY <1>3 DEF TightHi
  <2>2. (w.hi_open \/ (o.hi = w.hi /\ o.hi_open)) \in BOOLEAN
    BY <1>0
  <2> QED
    BY <1>0, <1>3, <2>1, <2>2
<1> QED
  BY <1>1, <1>2, <1>3

\* Intersect is intersection, so merging the single conditions on an attribute into one
\* window keeps exactly what all of them match.
THEOREM IntersectExact ==
  ASSUME NEW w \in Intervals, NEW o \in Intervals, NEW v \in Nat
  PROVE  /\ Intersect(w, o) \in Intervals
         /\ InInterval(v, Intersect(w, o)) <=> InInterval(v, w) /\ InInterval(v, o)
<1> DEFINE l == TightLo(w, o)
           h == TightHi(w, o)
<1>1. Intersect(w, o) = Interval(l.lo, l.lo_open, h.hi, h.hi_open, h.hi_unbounded)
  BY DEF Intersect
<1>2. Interval(l.lo, l.lo_open, h.hi, h.hi_open, h.hi_unbounded) \in Intervals
  BY TightLoExact, TightHiExact, Zenon DEF Interval, Intervals
<1>3. InInterval(v, Intersect(w, o)) <=>
        /\ IF l.lo_open THEN v > l.lo ELSE v >= l.lo
        /\ h.hi_unbounded \/ (IF h.hi_open THEN v < h.hi ELSE v <= h.hi)
  BY <1>1 DEF InInterval, Interval
<1> QED
  BY <1>1, <1>2, <1>3, TightLoExact, TightHiExact, Zenon DEF InInterval

\* An interval Empty() reports holds nothing: EncodeQuery drops no clause member and
\* declares no query unsatisfiable that a row could match.
THEOREM EmptySound ==
  ASSUME NEW w \in Intervals, NEW v \in Nat, Empty(w)
  PROVE  ~InInterval(v, w)
<1>1. w.lo \in Nat /\ w.hi \in Nat
  BY DEF Intervals
<1> QED
  BY <1>1 DEF Empty, InInterval

------------------------------------------------------------------------------

\* A condition as the index sees it, an interval over bytes, is the condition as a row
\* comparison sees it, for every type, operator, value and comparand that are no NaN;
\* a NaN makes the row comparison false, so the index can only admit more.
THEOREM ConditionExact ==
  ASSUME NEW type \in PhysicalTypes, NEW op \in CompareOps,
         NEW x \in Domain(type), NEW y \in Domain(type)
  PROVE  /\ NativeCompare(type, op, x, y)
              => InInterval(ToBytes(type, x), FromOp(op, ToBytes(type, y)))
         /\ ~IsNaN(type, x) /\ ~IsNaN(type, y) =>
              (InInterval(ToBytes(type, x), FromOp(op, ToBytes(type, y)))
                 => NativeCompare(type, op, x, y))
<1> DEFINE bx == ToBytes(type, x)
           by == ToBytes(type, y)
           rx == Rank64(type, x)
           ry == Rank64(type, y)
<1>1. /\ bx \in Nat /\ by \in Nat /\ rx \in Int /\ ry \in Int
      /\ bx < by <=> rx < ry
      /\ bx = by <=> rx = ry
  BY BytesOrder
<1>2. InInterval(bx, FromOp(op, by)) <=> ApplyCompareOp(op, bx, by)
  BY <1>1, FromOpExact
<1>3. ApplyCompareOp(op, bx, by) <=> ApplyCompareOp(op, rx, ry)
  <2> HIDE DEF bx, by, rx, ry
  <2>1. /\ bx <= by <=> rx <= ry
        /\ bx > by <=> rx > ry
        /\ bx >= by <=> rx >= ry
    BY <1>1
  <2> QED
    BY <1>1, <2>1, Zenon DEF ApplyCompareOp, CompareOps
<1>4. NativeCompare(type, op, x, y) <=>
        /\ ~IsNaN(type, x) /\ ~IsNaN(type, y)
        /\ ApplyCompareOp(op, rx, ry)
  BY Zenon DEF NativeCompare, Rank64, IsNaN
<1> QED
  BY <1>2, <1>3, <1>4, Zenon
==============================================================================
