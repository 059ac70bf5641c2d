---------------------------- MODULE MC_SABIIndex ----------------------------
(***************************************************************************)
(* Small files under six schemas, each with its values and queries: the    *)
(* two index types side by side, strings, floats, one attribute with more  *)
(* values than bins, and two whose files the estimator harvests.  A word   *)
(* has two bytes of four values.                                           *)
(***************************************************************************)
EXTENDS Estimator

Attr(type, physical, width, nullable) ==
  [index |-> type, physical |-> physical, width |-> width, nullable |-> nullable]

Conds(schema, comparands) ==
  UNION {[attr : {a}, alt : {Alternative(schema[a].physical)}, value : comparands[a],
          op : IF schema[a].index = "kEquality" THEN {"EQUAL"} ELSE CompareOps] :
         a \in DOMAIN schema}
Singles(C) == {<< <<c>> >> : c \in C}
Ands(C) == {<< <<c>>, <<d>> >> : c, d \in C}
Ors(C) == {<< <<c, d>> >> : c, d \in C}
Intervals(C) == {<< <<c>>, <<d>> >> : c \in {x \in C : x.op \in {"GREATER", "GREATER_EQUAL"}},
                                      d \in {x \in C : x.op \in {"LESS", "LESS_EQUAL"}}}

\* Queries Validate refuses: an empty clause, an unknown attribute, a comparand of
\* another type, a comparison on a kEquality attribute.
Invalid(schema) ==
  {<< <<>> >>} \cup
  ({<< <<[attr |-> a, op |-> op, alt |-> alt, value |-> 0]>> >> :
      a \in {2, 3}, op \in {"EQUAL", "LESS"}, alt \in {"double", "string"}}
     \ Singles(Conds(schema, [a \in DOMAIN schema |-> {0}])))

\* The estimator is asked the queries that have only closed ends.
Closed(C) == {c \in C : c.op \notin {"LESS", "GREATER"}}
Across(C) == {<<c, d>> \in C \X C : c.attr < d.attr}

Options(schema, values, comparands, rho_den, max_rows, queries) ==
  [schema |-> schema, values |-> values, rho_num |-> 1, rho_den |-> rho_den,
   max_rows |-> max_rows, queries |-> {<<>>} \cup queries, max_files |-> 1,
   comparands |-> [a \in DOMAIN schema |->
                     {ToBytes(schema[a].physical, v) : v \in comparands[a]}],
   estimated |-> Singles(Closed(Conds(schema, comparands)))]

\* A signed byte, in which 3 reads back as -1, and a string.
Mixed ==
  LET schema == <<Attr("kRange", "kInt", 1, TRUE), Attr("kEquality", "kVarBinary", 0, TRUE)>>
      comparands == <<{-1, 0}, {0, 1}>>
      C == Conds(schema, comparands)
  IN  Options(schema, <<{3, 0, Null}, {0, 1, Null}>>, comparands, 2, 2,
              Singles(C) \cup Ands(C) \cup Ors(C) \cup Invalid(schema))

\* Two strings of variable length around one of fixed length; a NULL may be put into
\* attributes that are not nullable.
Strings ==
  LET schema == <<Attr("kRange", "kVarBinary", 0, FALSE), Attr("kEquality", "kBinary", 2, FALSE),
                  Attr("kEquality", "kVarBinary", 0, TRUE)>>
      comparands == <<{0, 2}, {0, 1}, {0, 1}>>
  IN  Options(schema, <<{0, 2, Null}, {1, Null}, {0, 1, Null}>>, comparands, 1, 2,
              Singles(Conds(schema, comparands)))

\* +0, the least positive, a NaN, -0, the least negative.
Floats ==
  LET schema == <<Attr("kRange", "kFloat", WordBytes, FALSE)>>
      values == {0, 1, Inf + 1, Half, Half + 1}
      C == Conds(schema, <<values>>)
  IN  Options(schema, <<values>>, <<values>>, 2, 3, Singles(C) \cup Intervals(C))

\* More values than bins; 7 reads back as 3.
Binning ==
  LET schema == <<Attr("kRange", "kUint", 1, FALSE)>>
  IN  Options(schema, <<{0, 1, 2, 7}>>, <<0 .. 3>>, 3, 5, Singles(Conds(schema, <<0 .. 3>>)))

\* Two files of words, whose bytes span the radix or a part of it.
Words ==
  LET schema == <<Attr("kRange", "kUint", WordBytes, FALSE)>>
      comparands == <<{0, 5, 7, 9, 15}>>
      C == Closed(Conds(schema, comparands))
  IN  [Options(schema, <<{0, 5, 9, 15}>>, comparands, 2, 2, {}) EXCEPT
         !.max_files = 2, !.estimated = @ \cup Intervals(C)]

\* Two files with strings of several lengths, and a dictionary that is truncated.
Dictionary ==
  LET schema == <<Attr("kRange", "kVarBinary", 0, FALSE),
                  Attr("kEquality", "kVarBinary", 0, FALSE)>>
      comparands == <<{0, 1, 3}, 0 .. 2>>
      C == Across(Closed(Conds(schema, comparands)))
  IN  [Options(schema, <<{1, 3}, {0, 1}>>, comparands, 1, 2, {}) EXCEPT
         !.max_files = 2,
         !.estimated = @ \cup {<< <<p[1]>>, <<p[2]>> >> : p \in C} \cup {<<p>> : p \in C}]

MCInstances == <<Mixed, Strings, Floats, Binning, Words, Dictionary>>
==============================================================================
