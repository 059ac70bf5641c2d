----------------------------- MODULE RowEncoding -----------------------------
(***************************************************************************)
(* Attribute values on their way through the system: the row value format  *)
(* (ValueLayout, EncodeValue, DecodeAttr, DecodePayload in bit_lsm_utils.h)*)
(* and the bytes SABI orders by memcmp (bit_lsm_encoding.h).               *)
(*                                                                         *)
(* A 64-bit word has 2 * Half patterns.  An integer is itself, a float its *)
(* bit pattern.  A string is a number too, ordered like the strings: of    *)
(* kVarBinary that many equal bytes, 0 the empty one; of kBinary a string  *)
(* of the attribute's width (CheckFixedBinaryWidths refuses others).       *)
(* SABI's byte domain is Nat, with the okeys above the empty string.       *)
(***************************************************************************)
EXTENDS Integers, Sequences, FiniteSets, Functions, SequencesExt, TLC

CONSTANTS
  Half,          \* 2^63, the sign bit
  Inf,           \* the pattern of +infinity; a NaN has a greater magnitude
  WordBytes,     \* 8
  ByteVals,      \* 256
  BitsPerByte,   \* 8
  EndBytes,      \* sizeof(uint32_t)
  Null           \* the NULL attribute value

ASSUME WordAssumption == Half \in Nat \ {0} /\ Inf \in 0 .. Half - 1
ASSUME ByteAssumption ==
  /\ WordBytes \in Nat /\ ByteVals \in Nat /\ ByteVals ^ WordBytes = 2 * Half
  /\ BitsPerByte \in Nat \ {0} /\ EndBytes \in Nat \ {0}

------------------------------------------------------------------------------
(* native -> okey -> SABI bytes.                                           *)

\* static_cast<uint64_t>, and x ^ 0x8000000000000000.
AsUnsigned(x) == IF x < 0 THEN x + 2 * Half ELSE x
FlipSign(u) == IF u >= Half THEN u - Half ELSE u + Half

U64ToOkey(x) == x
I64ToOkey(x) == FlipSign(AsUnsigned(x))

\* Mutant: -0.0 is not canonicalized.
F64ToOkey_NegZero(p) == IF p >= Half THEN 2 * Half - 1 - p ELSE FlipSign(p)

\* -0.0 becomes +0.0; positives flip the sign bit, negatives flip all bits.
F64ToOkey(p) ==
  LET u == IF p = Half THEN 0 ELSE p
  IN  IF u >= Half THEN 2 * Half - 1 - u ELSE FlipSign(u)

NumericToOkey(type, v) ==
  CASE type = "kInt" -> I64ToOkey(v)
    [] type = "kUint" -> U64ToOkey(v)
    [] type = "kFloat" -> F64ToOkey(v)

\* ComparandBytes and ValueLayoutExtractor: numbers as big-endian okeys, strings as is.
ToBytes(type, v) ==
  IF type \in {"kInt", "kUint", "kFloat"} THEN NumericToOkey(type, v) + 1 ELSE v

\* The bytes themselves: a big-endian word, or equal bytes.
Bytes(type, b) ==
  IF type \in {"kInt", "kUint", "kFloat"}
    THEN [i \in 1 .. WordBytes |-> ((b - 1) \div ByteVals ^ (WordBytes - i)) % ByteVals]
    ELSE [i \in 1 .. b |-> 1]

------------------------------------------------------------------------------
(* Comparison in the native domain.                                        *)

ApplyCompareOp(op, lhs, rhs) ==
  CASE op = "EQUAL"         -> lhs = rhs
    [] op = "LESS"          -> lhs < rhs
    [] op = "LESS_EQUAL"    -> lhs <= rhs
    [] op = "GREATER"       -> lhs > rhs
    [] op = "GREATER_EQUAL" -> lhs >= rhs

\* A float's sign and magnitude; both zeros are 0.
Magnitude(p) == IF p >= Half THEN p - Half ELSE p
Signed(p) == IF p >= Half THEN -Magnitude(p) ELSE p
IsNaN(type, v) == type = "kFloat" /\ Magnitude(v) > Inf

\* A comparison with a NaN is false.
NativeCompare(type, op, x, y) ==
  IF type = "kFloat"
    THEN /\ ~IsNaN(type, x) /\ ~IsNaN(type, y)
         /\ ApplyCompareOp(op, Signed(x), Signed(y))
    ELSE ApplyCompareOp(op, x, y)

------------------------------------------------------------------------------
(* The row value format.  A schema is a sequence of AttrSpecs.             *)

IsFixed(spec) == spec.physical # "kVarBinary"

\* AttrSpec::Valid, for a word of WordBytes bytes; of the float widths, the word's.
Valid(spec) ==
  CASE spec.physical \in {"kInt", "kUint"} -> spec.width \in {1, 2, 4, 8} /\ spec.width <= WordBytes
    [] spec.physical = "kFloat" -> spec.width = WordBytes
    [] spec.physical = "kBinary" -> spec.width > 0
    [] spec.physical = "kVarBinary" -> spec.width = 0

CountBelow(schema, a, P(_)) == Cardinality({b \in 1 .. a - 1 : P(schema[b])})

NullBit(schema, a) == CountBelow(schema, a, LAMBDA s : s.nullable)
Rank(schema, a) == CountBelow(schema, a, LAMBDA s : ~IsFixed(s))

NullBytes(schema) ==
  (NullBit(schema, Len(schema) + 1) + BitsPerByte - 1) \div BitsPerByte

\* Where the fixed slot of attribute a starts; past the last one, variable_base.
Slot(schema, a) ==
  NullBytes(schema) + Rank(schema, Len(schema) + 1) * EndBytes
    + SumFunctionOnSet([b \in DOMAIN schema |-> schema[b].width], 1 .. a - 1)
VariableBase(schema) == Slot(schema, Len(schema) + 1)

\* The low bytes of the word, and the word they widen to.
EncodeFixed(spec, v) ==
  IF spec.physical \in {"kInt", "kUint"} THEN v % (ByteVals ^ spec.width) ELSE v
DecodeFixed(spec, raw) ==
  IF spec.physical = "kInt" /\ 2 * raw >= ByteVals ^ spec.width
    THEN raw - ByteVals ^ spec.width
    ELSE raw

\* Byte i of an item is <<item, i>>; a byte of the null bitmap is its set of bits.
Write(bytes, off, n, item) == [o \in off .. off + n - 1 |-> <<item, o - off>>] @@ bytes

\* Mutant: a NULL string ends at 0, not where the strings before it end.
EncodeAttr_SkipsNullEnd(schema, attrs, acc, a) ==
  LET is_null == attrs[a] = Null
      bit == NullBit(schema, a)
      byte == bit \div BitsPerByte
      marked == IF is_null /\ schema[a].nullable
                  THEN [acc.bytes EXCEPT ![byte] = @ \cup {bit % BitsPerByte}] ELSE acc.bytes
      size == IF is_null THEN 0 ELSE attrs[a]
  IN  IF IsFixed(schema[a])
        THEN [acc EXCEPT !.bytes = Write(marked, Slot(schema, a), schema[a].width,
                                         IF is_null THEN 0 ELSE EncodeFixed(schema[a], attrs[a]))]
        ELSE [bytes |-> Write(Write(marked, VariableBase(schema) + acc.var_end, size, a),
                              NullBytes(schema) + Rank(schema, a) * EndBytes, EndBytes,
                              IF is_null THEN 0 ELSE acc.var_end + size),
              var_end |-> acc.var_end + size]

\* One attribute: its null bit; then its slot, zeros for a NULL, or its bytes after the
\* variable bytes so far and, NULL or not, where they end.
EncodeAttr(schema, attrs, acc, a) ==
  LET is_null == attrs[a] = Null
      bit == NullBit(schema, a)
      byte == bit \div BitsPerByte
      marked == IF is_null /\ schema[a].nullable
                  THEN [acc.bytes EXCEPT ![byte] = @ \cup {bit % BitsPerByte}] ELSE acc.bytes
      size == IF is_null THEN 0 ELSE attrs[a]
  IN  IF IsFixed(schema[a])
        THEN [acc EXCEPT !.bytes = Write(marked, Slot(schema, a), schema[a].width,
                                         IF is_null THEN 0 ELSE EncodeFixed(schema[a], attrs[a]))]
        ELSE [bytes |-> Write(Write(marked, VariableBase(schema) + acc.var_end, size, a),
                              NullBytes(schema) + Rank(schema, a) * EndBytes, EndBytes,
                              acc.var_end + size),
              var_end |-> acc.var_end + size]

Payload == 0

\* The row value of an attribute vector and a payload of so many bytes.
EncodeValue(schema, attrs, payload) ==
  LET all == FoldLeft(LAMBDA acc, a : EncodeAttr(schema, attrs, acc, a),
                      [bytes |-> [o \in 0 .. NullBytes(schema) - 1 |-> {}], var_end |-> 0],
                      [a \in DOMAIN schema |-> a])
  IN  Write(all.bytes, VariableBase(schema) + all.var_end, payload, Payload)

\* The item whose n bytes are at off, or Torn.
Torn == -4 * Half
Item(bytes, off, n) ==
  IF \A i \in 0 .. n - 1 : bytes[off + i] = <<bytes[off][1], i>> THEN bytes[off][1] ELSE Torn

VarEnd(schema, bytes, rank) ==
  IF rank < 0 THEN 0 ELSE Item(bytes, NullBytes(schema) + rank * EndBytes, EndBytes)

DecodeAttr(schema, bytes, a) ==
  LET bit == NullBit(schema, a)
      start == VarEnd(schema, bytes, Rank(schema, a) - 1)
      size == VarEnd(schema, bytes, Rank(schema, a)) - start
  IN  IF schema[a].nullable /\ bit % BitsPerByte \in bytes[bit \div BitsPerByte] THEN Null
      ELSE IF IsFixed(schema[a])
             THEN DecodeFixed(schema[a], Item(bytes, Slot(schema, a), schema[a].width))
      ELSE IF size = 0 \/ Item(bytes, VariableBase(schema) + start, size) = a THEN size
      ELSE Torn

\* The payload's size, from the last variable end to the end of the value.
DecodePayload(schema, bytes) ==
  LET start == VariableBase(schema) + VarEnd(schema, bytes, Rank(schema, Len(schema) + 1) - 1)
      size == Cardinality(DOMAIN bytes) - start
  IN  IF size = 0 \/ Item(bytes, start, size) = Payload THEN size ELSE Torn
==============================================================================
