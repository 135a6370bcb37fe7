----------------------------- MODULE BlockFormat ----------------------------
(***************************************************************************)
(* Package bc: hashes as words and as bytes, the hash of a block header,   *)
(* and blocks as bytes.  A hash has HashWords words of WordBytes bytes (4  *)
(* and 8 in the code).  VMHash is ideal, so a header's hash stands for the *)
(* bytes hashed.  The bytes of a block are the protobuf message they hold. *)
(* What NewTx makes of a transaction is in Outcome: "ok", "unfinalized",   *)
(* "error", or "panic" for a version below 3.                              *)
(***************************************************************************)
EXTENDS Bytecode

CONSTANTS HashWords, WordBytes,
          ByteStrings,        \* byte strings converted to hashes
          HexTexts,           \* texts converted to hashes: sequences of digits, -1 for any other character
          Headers,            \* headers hashed
          Outcome(_),         \* what NewTx makes of a raw transaction
          Blocks, Receivers   \* blocks to encode, and what they are decoded into

ByteValues == 2 * VarBase
HashSize == HashWords * WordBytes

\* encoding/binary's BigEndian, and encoding/hex on digits 0..15.
Uint64(b) == FoldLeft(LAMBDA v, x : v * ByteValues + x, 0, b)
PutUint64(v) == [i \in 1..WordBytes |-> (v \div ByteValues^(WordBytes - i)) % ByteValues]
hexEncode(b) == FlattenSeq([i \in DOMAIN b |-> <<b[i] \div 16, b[i] % 16>>])
\* Decoding stops at the first bad character; b has what was decoded, in n bytes.
hexDecode(n, v) ==
  LET bad == {i \in 1..n : v[2 * i - 1] < 0 \/ v[2 * i] < 0}
      stop == IF bad = {} THEN n + 1 ELSE Min(bad)
  IN  [ok |-> bad = {}, b |-> [i \in 1..n |-> IF i < stop THEN v[2 * i - 1] * 16 + v[2 * i] ELSE 0]]

word(b, k) == SubSeq(b, (k - 1) * WordBytes + 1, k * WordBytes)
NewHash(b32) == [k \in 1..HashWords |-> Uint64(word(b32, k))]

Byte32(h) == FlattenSeq([k \in 1..HashWords |-> PutUint64(h[k])])

zeroHash == [k \in 1..HashWords |-> 0]
fullSize(b) == [i \in 1..HashSize |-> IF i <= Len(b) THEN b[i] ELSE 0]
HashFromBytes(b) == NewHash(fullSize(b))

MarshalText(h) == hexEncode(Byte32(h))
\* The hash is overwritten even when a character is bad.
UnmarshalText(h, v) ==
  IF Len(v) # 2 * HashSize THEN [ok |-> FALSE, h |-> h]
  ELSE LET d == hexDecode(HashSize, v) IN [ok |-> d.ok, h |-> NewHash(d.b)]
\* Scan of a byte string, and ReadFrom of a reader that has the bytes b.
HashScan(h, b) == IF Len(b) # HashSize THEN [ok |-> FALSE, h |-> h] ELSE [ok |-> TRUE, h |-> NewHash(b)]
ReadFrom(h, b) == IF Len(b) < HashSize THEN [ok |-> FALSE, h |-> h] ELSE [ok |-> TRUE, h |-> NewHash(SubSeq(b, 1, HashSize))]

-----------------------------------------------------------------------------
\* A DataItem: the field that its type names counts, the others are ignored.
RECURSIVE asTxvm(_)
asTxvm(item) ==
  CASE item.type = "BYTES" -> BytesItem(item.bytes)
    [] item.type = "INT" -> IntItem(item.int)
    [] item.type = "TUPLE" -> TupleItem([i \in DOMAIN item.tuple |-> asTxvm(item.tuple[i])])

nilPointer == <<"nil">>
idBytes(h) == IF h = nilPointer THEN Byte32(zeroHash) ELSE Byte32(h)
asInt(u) == IntItem(wrap(Half64, u))

predicateFields(p) ==
  <<IntItem(p.version)>> \o
    IF p.version = 1 THEN <<IntItem(p.quorum)>> \o [i \in DOMAIN p.pubkeys |-> BytesItem(p.pubkeys[i])]
    ELSE [i \in DOMAIN p.other |-> asTxvm(p.other[i])]

headerFields(bh) ==
  <<asInt(bh.version), asInt(bh.height), BytesItem(idBytes(bh.prev)), asInt(bh.timestampMs),
    IntItem(bh.refsCount), IntItem(bh.runlimit), BytesItem(idBytes(bh.txRoot)),
    BytesItem(idBytes(bh.contractsRoot)), BytesItem(idBytes(bh.noncesRoot))>>

extraFields(bh) == [i \in DOMAIN bh.extra |-> asTxvm(bh.extra[i])]

HeaderHash(bh) ==
  Encode(TupleItem(headerFields(bh) \o <<TupleItem(predicateFields(bh.predicate))>> \o extraFields(bh)))

-----------------------------------------------------------------------------
\* An argument of a block is a []byte, an int64 or a []*DataItem; an argument
\* of another type is left out.
rawArgument(arg) ==
  CASE arg[1] = "bytes" -> <<[type |-> "BYTES", bytes |-> arg[2], int |-> 0, tuple |-> <<>>]>>
    [] arg[1] = "int64" -> <<[type |-> "INT", bytes |-> <<>>, int |-> arg[2], tuple |-> <<>>]>>
    [] arg[1] = "items" -> <<[type |-> "TUPLE", bytes |-> <<>>, int |-> 0, tuple |-> arg[2]]>>
    [] OTHER -> <<>>
argument(item) ==
  CASE item.type = "BYTES" -> <<"bytes", item.bytes>>
    [] item.type = "INT" -> <<"int64", item.int>>
    [] item.type = "TUPLE" -> <<"items", item.tuple>>

BlockBytes(b) == [header |-> b.header, txs |-> b.txs, args |-> FlattenSeq([i \in DOMAIN b.args |-> rawArgument(b.args[i])])]

(***************************************************************************)
(* FromBytes runs the transactions in goroutines of their own, which       *)
(* finish in any order.  The receiver b is written when all have finished, *)
(* and only if all were good.  NewTx panics on a version that Validate     *)
(* refuses (see TxRecord); nothing recovers in these goroutines, so the    *)
(* process dies.                                                           *)
(***************************************************************************)
FromBytesBegin(block, b) ==
  Begin("Block.FromBytes", [block |-> block, receiver |-> b],
        [raw |-> BlockBytes(block), txs |-> [i \in DOMAIN block.txs |-> nilPointer], err |-> FALSE, b |-> b, done |-> FALSE, died |-> FALSE],
        <<"parse">>)

txParsed(st, i) ==
  LET ok == Outcome(st.raw.txs[i]) = "ok"
  IN  [st EXCEPT !.txs[i] = IF ok THEN st.raw.txs[i] ELSE <<"failed">>, !.err = @ \/ ~ok,
                 !.died = Outcome(st.raw.txs[i]) = "panic"]

FromBytesTx ==
  /\ call.fn = "Block.FromBytes" /\ call.todo # <<>>
  /\ \E i \in DOMAIN call.st.txs :
       LET st == txParsed(call.st, i)
       IN  /\ call.st.txs[i] = nilPointer
           /\ call' = [call EXCEPT !.st = st, !.todo = IF st.died THEN <<>> ELSE @]

\* Fault: the receiver gets the transactions whatever became of them.
received_Unchecked(st) ==
  [st EXCEPT !.done = TRUE,
             !.b = [header |-> st.raw.header, txs |-> st.txs,
                    args |-> st.b.args \o [i \in DOMAIN st.raw.args |-> argument(st.raw.args[i])]]]

\* The arguments are appended to those the receiver has.
received(st) ==
  [st EXCEPT !.done = TRUE,
             !.b = IF st.err THEN @
                   ELSE [header |-> st.raw.header, txs |-> st.txs,
                         args |-> @.args \o [i \in DOMAIN st.raw.args |-> argument(st.raw.args[i])]]]

FromBytesWait ==
  /\ call.fn = "Block.FromBytes" /\ call.todo # <<>>
  /\ \A i \in DOMAIN call.st.txs : call.st.txs[i] # nilPointer
  /\ call' = [call EXCEPT !.st = received(@), !.todo = <<>>]

BlockFormatNext ==
  \/ Idle /\ \/ \E b \in ByteStrings : Eval("Hash", b, HashFromBytes(b))
             \/ \E v \in HexTexts : Eval("text", v, UnmarshalText(zeroHash, v))
             \/ \E bh1, bh2 \in Headers : Eval("headers", <<bh1, bh2>>, <<HeaderHash(bh1), HeaderHash(bh2)>>)
             \/ \E block \in Blocks, b \in Receivers : FromBytesBegin(block, b)
  \/ FromBytesTx \/ FromBytesWait

-----------------------------------------------------------------------------
(***************************************************************************)
(* A hash keeps the bytes it was made from, in their order, through its    *)
(* words, its text and the database.  HashFromBytes pads a shorter string  *)
(* and cuts a longer one, Scan refuses both, ReadFrom the shorter; who     *)
(* refuses leaves the hash alone.  A text is accepted only if it is of     *)
(* that length and all digits.                                             *)
(***************************************************************************)
HashesKeepBytes ==
  /\ After("Hash", LAMBDA b, h :
       /\ Byte32(h) = fullSize(b)
       /\ UnmarshalText(zeroHash, MarshalText(h)) = [ok |-> TRUE, h |-> h]
       /\ HashScan(zeroHash, b) = [ok |-> Len(b) = HashSize, h |-> IF Len(b) = HashSize THEN h ELSE zeroHash]
       /\ ReadFrom(zeroHash, b) = [ok |-> Len(b) >= HashSize, h |-> IF Len(b) >= HashSize THEN h ELSE zeroHash])
  /\ After("text", LAMBDA v, r :
       /\ r.ok = (Len(v) = 2 * HashSize /\ \A i \in DOMAIN v : v[i] >= 0)
       /\ r.ok => MarshalText(r.h) = v)

(***************************************************************************)
(* The hash of a header fixes all that the header says: two headers have   *)
(* one hash only if they agree in every field, an absent hash being the    *)
(* zero hash and a predicate having only the fields of its version.  No    *)
(* key, other field or extra field can be taken for one of another kind.   *)
(***************************************************************************)
Says(bh) ==
  LET id(h) == IF h = nilPointer THEN zeroHash ELSE h
      p == bh.predicate
      items(s) == [i \in DOMAIN s |-> asTxvm(s[i])]
  IN  <<bh.version, bh.height, id(bh.prev), bh.timestampMs, bh.refsCount, bh.runlimit,
        id(bh.txRoot), id(bh.contractsRoot), id(bh.noncesRoot), items(bh.extra), p.version,
        IF p.version = 1 THEN <<p.quorum, p.pubkeys>> ELSE <<items(p.other)>>>>

HeaderHashBinds == After("headers", LAMBDA x, r : (r[1] = r[2]) = (Says(x[1]) = Says(x[2])))

(***************************************************************************)
(* Whatever order its transactions finish in, a block decoded from its     *)
(* bytes is the block, its arguments after those the receiver had, if all  *)
(* of its transactions are good; if not, the receiver is left alone.  One  *)
(* transaction of a version below 3 always ends the process, where         *)
(* ErrVersion and the comments of NewTx and FromBytes suggest an error;    *)
(* nothing else does.                                                      *)
(***************************************************************************)
BlockSurvives ==
  During("Block.FromBytes", LAMBDA x, st :
    LET outcomes == {Outcome(x.block.txs[i]) : i \in DOMAIN x.block.txs}
        kept == SelectSeq(x.block.args, LAMBDA a : a[1] # "other")
    IN  /\ st.b = IF st.done /\ outcomes \subseteq {"ok"} THEN [x.block EXCEPT !.args = x.receiver.args \o kept]
                  ELSE x.receiver
        /\ st.died => "panic" \in outcomes
        /\ st.done => "panic" \notin outcomes)
=============================================================================
