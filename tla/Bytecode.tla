------------------------------ MODULE Bytecode ------------------------------
(***************************************************************************)
(* Programs as bytes: package op, the encoders of items in package txvm,   *)
(* of package asm and of the builder in txvmutil.  A byte has 2 * VarBase  *)
(* values, the first SmallInts opcodes push themselves, and a pushdata     *)
(* instruction is MinPushdata plus the length, as a varint, and the data.  *)
(* Integers have the width of Checked.  OpNames has the instructions on    *)
(* plain data and those that end a quoted program.                         *)
(***************************************************************************)
EXTENDS SequencesExt, Checked

CONSTANTS SmallInts,   \* 32 in the code
          VarBase      \* 128 in the code

OpNames ==
  <<"int", "add", "neg", "mul", "div", "mod", "gt", "not", "and", "or", "roll", "bury", "reverse",
    "get", "put", "depth", "vmhash", "sha256", "sha3", "checksig", "verify", "jumpif", "exec",
    "yield", "wrap", "output", "contract", "contractprogram", "prv", "ext", "eq", "dup", "drop", "peek", "tuple",
    "untuple", "len", "field", "encode", "cat", "slice", "bitnot", "bitand", "bitor", "bitxor">>

MinPushdata == SmallInts + Len(OpNames)

code == [name \in ToSet(OpNames) |-> SmallInts - 1 + CHOOSE i \in DOMAIN OpNames : OpNames[i] = name]
nameOf(opcode) == OpNames[opcode - SmallInts + 1]

IsSmallInt(n) == 0 <= n /\ n < SmallInts
IsSmallIntOp(opcode) == opcode < SmallInts
IsPushdataOp(opcode) == opcode >= MinPushdata

\* encoding/binary: the lowest digit comes first, and every byte but the
\* last has its high bit set.  n <= 0 is an error.
RECURSIVE PutUvarint(_)
PutUvarint(x) == IF x < VarBase THEN <<x>> ELSE <<VarBase + (x % VarBase)>> \o PutUvarint(x \div VarBase)

MaxVarintLen == Len(PutUvarint(MaxUint(Half64)))

Uvarint(s) ==
  LET ends == {i \in DOMAIN s : s[i] < VarBase}
      k == Min(ends)
      v == FoldLeft(LAMBDA r, i : r + (s[i] % VarBase) * VarBase^(i - 1), 0, [i \in 1..k |-> i])
  IN  IF ends = {} THEN [v |-> 0, n |-> 0]
      ELSE IF k > MaxVarintLen \/ v > MaxUint(Half64) THEN [v |-> 0, n |-> -k]
      ELSE [v |-> v, n |-> k]

NoInst == [ok |-> FALSE, opcode |-> 0, data |-> <<>>, n |-> 0]

DecodeInst(prog) ==
  LET u == Uvarint(prog)
      l == u.v - MinPushdata
  IN  IF prog = <<>> \/ u.n <= 0 THEN NoInst
      ELSE IF u.v < MinPushdata THEN [ok |-> TRUE, opcode |-> u.v, data |-> <<>>, n |-> u.n]
      ELSE IF Len(prog) < u.n + l THEN NoInst
      ELSE [ok |-> TRUE, opcode |-> MinPushdata, data |-> SubSeq(prog, u.n + 1, u.n + l), n |-> u.n + l]

-----------------------------------------------------------------------------
\* The plain data items: Int, Bytes and Tuple.
IntItem(n) == <<"int", n>>
BytesItem(b) == <<"bytes", b>>
TupleItem(t) == <<"tuple", t>>
kindOf(item) == item[1]
valueOf(item) == item[2]

writePushdata(data) == PutUvarint(Len(data) + MinPushdata) \o data

pushVarint(n) == writePushdata(PutUvarint(uwrap(Half64, n))) \o <<code["int"]>>

\* In asm and in the builder.
writePushint64(num) ==
  IF IsSmallInt(num) THEN <<num>>
  ELSE IF num < 0 /\ num # MinInt(Half64)
  THEN (IF IsSmallInt(-num) THEN <<-num>> ELSE pushVarint(-num)) \o <<code["neg"]>>
  ELSE pushVarint(num)

\* Int.encode: a negative number as the varint of its two's complement.
encodeInt(n) == IF IsSmallInt(n) THEN <<n>> ELSE pushVarint(n)

RECURSIVE Encode(_)
Encode(v) ==
  CASE kindOf(v) = "int" -> encodeInt(valueOf(v))
    [] kindOf(v) = "bytes" -> writePushdata(valueOf(v))
    [] kindOf(v) = "tuple" -> FlattenSeq([i \in DOMAIN valueOf(v) |-> Encode(valueOf(v)[i])])
                                \o encodeInt(Len(valueOf(v))) \o <<code["tuple"]>>

\* What a Builder writes for the same item; a TupleBuilder counts its items.
RECURSIVE build(_)
build(v) ==
  CASE kindOf(v) = "int" -> writePushint64(valueOf(v))
    [] kindOf(v) = "bytes" -> writePushdata(valueOf(v))
    [] kindOf(v) = "tuple" -> FlattenSeq([i \in DOMAIN valueOf(v) |-> build(valueOf(v)[i])])
                                \o writePushint64(Len(valueOf(v))) \o <<code["tuple"]>>
=============================================================================
