------------------------------ MODULE SABIQuery ------------------------------
(***************************************************************************)
(* Queries over indexed attributes (bit_lsm_query.h, bit_lsm_query.cpp):   *)
(* row evaluation (CheckCondition, CompiledQuery::Eval) and the encoding   *)
(* into intervals that the index answers (ByteInterval, EncodeQuery).      *)
(*                                                                         *)
(* A row is a function from attributes to values as DecodeAttr gives them; *)
(* the index sees them as bytes.                                           *)
(***************************************************************************)
EXTENDS RowEncoding

CONSTANTS Instances  \* what is configured, written and asked: see SABIIndex

VARIABLES instance   \* the one of this behaviour

options == Instances[instance]    \* BitLSMOptions
Attrs == DOMAIN options.schema
IndexType(a) == options.schema[a].index
Physical(a) == options.schema[a].physical

CompareOps == {"EQUAL", "LESS_EQUAL", "GREATER_EQUAL", "LESS", "GREATER"}

\* The variant alternative of a comparand with the given physical type.
Alternative(physical) ==
  CASE physical = "kInt" -> "int64" [] physical = "kUint" -> "uint64"
    [] physical = "kFloat" -> "double" [] OTHER -> "string"

\* No empty clause, known attributes, comparands of their type, only EQUAL on kEquality.
Validate(q) ==
  \A clause \in ToSet(q) :
    /\ clause # <<>>
    /\ \A c \in ToSet(clause) : /\ c.attr \in Attrs
                                /\ c.alt = Alternative(Physical(c.attr))
                                /\ IndexType(c.attr) = "kEquality" => c.op = "EQUAL"

\* NewIterator sorts each clause by attribute.
SortClauses(q) == [i \in DOMAIN q |-> SortSeq(q[i], LAMBDA c, d : c.attr < d.attr)]

\* A NULL attribute makes every comparison UNKNOWN: no match.
EvalCondition(c, row) ==
  row[c.attr] # Null /\ NativeCompare(Physical(c.attr), c.op, row[c.attr], c.value)

\* A query is a sequence of OR clauses, all of which must pass.
Eval(q, row) == \A clause \in ToSet(q) : \E c \in ToSet(clause) : EvalCondition(c, row)

------------------------------------------------------------------------------
(* ByteInterval.                                                           *)

Interval(lo, lo_open, hi, hi_open, hi_unbounded) ==
  [lo |-> lo, lo_open |-> lo_open, hi |-> hi, hi_open |-> hi_open, hi_unbounded |-> hi_unbounded]

WholeDomain == Interval(0, FALSE, 0, FALSE, TRUE)

Empty(w) ==
  /\ ~w.hi_unbounded
  /\ w.lo > w.hi \/ (w.lo = w.hi /\ (w.lo_open \/ w.hi_open))

\* Mutant: equal lower ends keep the flag of the first interval.
TightLo_First(w, o) ==
  IF o.lo > w.lo THEN [lo |-> o.lo, lo_open |-> o.lo_open]
                 ELSE [lo |-> w.lo, lo_open |-> w.lo_open]

\* The greater lower end; equal ends are open if either is.
TightLo(w, o) ==
  IF o.lo > w.lo THEN [lo |-> o.lo, lo_open |-> o.lo_open]
  ELSE [lo |-> w.lo, lo_open |-> w.lo_open \/ (o.lo = w.lo /\ o.lo_open)]

\* The lesser upper end; unbounded is above every other.
TightHi(w, o) ==
  IF o.hi_unbounded
    THEN [hi |-> w.hi, hi_open |-> w.hi_open, hi_unbounded |-> w.hi_unbounded]
  ELSE IF w.hi_unbounded \/ o.hi < w.hi
    THEN [hi |-> o.hi, hi_open |-> o.hi_open, hi_unbounded |-> FALSE]
  ELSE [hi |-> w.hi, hi_open |-> w.hi_open \/ (o.hi = w.hi /\ o.hi_open), hi_unbounded |-> FALSE]

Intersect(w, o) ==
  LET l == TightLo(w, o)
      h == TightHi(w, o)
  IN  Interval(l.lo, l.lo_open, h.hi, h.hi_open, h.hi_unbounded)

FromOp(op, v) ==
  CASE op = "EQUAL"         -> Interval(v, FALSE, v, FALSE, FALSE)
    [] op = "GREATER_EQUAL" -> Interval(v, FALSE, 0, FALSE, TRUE)
    [] op = "GREATER"       -> Interval(v, TRUE, 0, FALSE, TRUE)
    [] op = "LESS_EQUAL"    -> Interval(0, FALSE, v, FALSE, FALSE)
    [] op = "LESS"          -> Interval(0, FALSE, v, TRUE, FALSE)

\* The values an interval stands for.
InInterval(v, w) ==
  /\ IF w.lo_open THEN v > w.lo ELSE v >= w.lo
  /\ w.hi_unbounded \/ (IF w.hi_open THEN v < w.hi ELSE v <= w.hi)

------------------------------------------------------------------------------
(* EncodeQuery.  An encoded condition carries win when its attribute is    *)
(* kRange and bytes when it is kEquality.                                  *)

EncodeCondition(c) ==
  LET comparand == ToBytes(Physical(c.attr), c.value)
  IN  IF IndexType(c.attr) = "kRange"
      THEN [attr |-> c.attr, win |-> FromOp(c.op, comparand), bytes |-> 0]
      ELSE [attr |-> c.attr, win |-> WholeDomain, bytes |-> comparand]

SingletonOrdered(clause) == Len(clause) = 1 /\ IndexType(clause[1].attr) = "kRange"

Merged == [groups |-> <<>>, unsat |-> FALSE, merged_at |-> [a \in Attrs |-> 0]]

\* A single condition on a kRange attribute intersects the clause at merged_at.
EncodeSingleton(out, c) ==
  LET at  == out.merged_at[c.attr]
      enc == EncodeCondition(c)
      win == IF at = 0 THEN enc.win ELSE Intersect(out.groups[at][1].win, enc.win)
  IN  [groups    |-> IF at = 0 THEN Append(out.groups, <<enc>>)
                     ELSE [out.groups EXCEPT ![at][1].win = win],
       unsat     |-> out.unsat \/ Empty(win),
       merged_at |-> [out.merged_at EXCEPT ![c.attr] = IF at = 0 THEN Len(out.groups) + 1
                                                               ELSE at]]

\* Other clauses drop their empty members; one left with none matches nothing.
EncodeClause(out, clause) ==
  LET kept == SelectSeq([i \in DOMAIN clause |-> EncodeCondition(clause[i])],
                        LAMBDA e : ~Empty(e.win))
  IN  [out EXCEPT !.groups = Append(@, kept),
                  !.unsat = @ \/ (kept = <<>> /\ clause # <<>>)]

EncodeQuery(q) ==
  FoldLeft(LAMBDA out, clause : IF SingletonOrdered(clause)
                                THEN EncodeSingleton(out, clause[1])
                                ELSE EncodeClause(out, clause),
           Merged, q)

\* What an encoded query says of a row's bytes.
EncodedEval(enc, row) ==
  /\ ~enc.unsat
  /\ \A clause \in ToSet(enc.groups) : \E e \in ToSet(clause) :
       /\ row[e.attr] # Null
       /\ IF IndexType(e.attr) = "kRange" THEN InInterval(row[e.attr], e.win)
                                          ELSE row[e.attr] = e.bytes
==============================================================================
