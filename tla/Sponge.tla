------------------------------- MODULE Sponge -------------------------------
(***************************************************************************)
(* The hash objects of crypto/sha3: the sponge with its buffer into the    *)
(* fixed storage array, SHA-3, SHAKE, cSHAKE, TupleHash and KMAC over it,  *)
(* and the pool of crypto/sha3pool.  The permutation is free: the state of *)
(* a sponge is the sequence of blocks absorbed and the number of times it  *)
(* was permuted since, and its i-th byte is that state tagged with i.      *)
(***************************************************************************)
EXTENDS Integers, SequencesExt, Calls

CONSTANTS
  MaxRate,      \* the size of storage (168)
  Base,         \* the number of values of a byte (256)
  Kinds,        \* the objects made: [rate, outputLen, ds], ds the domain separator
  Chunks,       \* what one Write is given
  Reads,        \* how many bytes one Read asks for
  MaxMessage,   \* bound on the bytes an object is given
  MaxOutput,    \* bound on the bytes read from it
  Inputs        \* the inputs of the one-shot functions

ASSUME SpongeAssumption == \A k \in Kinds : k.rate \in 1..MaxRate

byte(n) == <<n>>               \* the byte n
outByte(a, i) == <<a, i>>      \* the i-th byte of the state a
zeros(n) == [i \in 1..n |-> byte(0)]
setTop(b) == byte(b[1] + 128)  \* b ^ 0x80, for a byte below 0x80

new(k) == [a |-> [in |-> <<>>, permuted |-> 0], storage |-> zeros(MaxRate), lo |-> 0, len |-> 0,
           rate |-> k.rate, outputLen |-> k.outputLen, ds |-> k.ds, absorbing |-> TRUE]

buf(d) == SubSeq(d.storage, d.lo + 1, d.lo + d.len)
cap(d) == MaxRate - d.lo

\* append(d.buf, p...), when it fits in storage.
append(d, p) == [d EXCEPT !.storage = [i \in 1..MaxRate |->
                            IF i - d.lo - d.len \in DOMAIN p THEN p[i - d.lo - d.len] ELSE @[i]],
                          !.len = @ + Len(p)]

copyOut(d) == [d EXCEPT !.lo = 0, !.len = d.rate,
                        !.storage = [i \in 1..MaxRate |->
                                       IF i <= d.rate THEN outByte(d.a, i) ELSE @[i]]]

xorIn(d, p) == [d EXCEPT !.a.in = Append(@, p)]    \* and keccakF1600

permute(d) == IF d.absorbing THEN [xorIn(d, buf(d)) EXCEPT !.lo = 0, !.len = 0]
              ELSE copyOut([d EXCEPT !.a.permuted = @ + 1])

\* Fault: padding leaves what storage already held before the last byte.
padStale(d, ds) ==
  LET e == append(d, <<byte(ds)>>)
      f == [e EXCEPT !.storage[d.rate] = IF e.len = d.rate THEN setTop(@) ELSE byte(128),
                     !.lo = 0, !.len = d.rate]
  IN  copyOut([permute(f) EXCEPT !.absorbing = FALSE])

padAndPermute(d, ds) ==
  LET e == append(d, <<byte(ds)>>)
      f == append(e, zeros(d.rate - e.len))
      g == [f EXCEPT !.storage[d.rate] = setTop(@), !.lo = 0, !.len = d.rate]
  IN  copyOut([permute(g) EXCEPT !.absorbing = FALSE])

RECURSIVE Write(_, _)
Write(d, p) ==
  IF p = <<>> THEN d
  ELSE IF d.len = 0 /\ Len(p) >= d.rate
  THEN Write(xorIn(d, SubSeq(p, 1, d.rate)), SubSeq(p, d.rate + 1, Len(p)))
  ELSE LET todo == IF d.rate - d.len > Len(p) THEN Len(p) ELSE d.rate - d.len
           e == append(d, SubSeq(p, 1, todo))
       IN  Write(IF e.len = d.rate THEN permute(e) ELSE e, SubSeq(p, todo + 1, Len(p)))

RECURSIVE squeeze(_, _, _)
squeeze(d, n, out) ==
  IF n = 0 THEN [d |-> d, out |-> out]
  ELSE LET k == IF n < d.len THEN n ELSE d.len
           e == [d EXCEPT !.lo = @ + k, !.len = @ - k]
       IN  squeeze(IF e.len = 0 THEN permute(e) ELSE e, n - k, out \o SubSeq(buf(d), 1, k))

Read(d, n) == squeeze(IF d.absorbing THEN padAndPermute(d, d.ds) ELSE d, n, <<>>)

Reset(d) == [d EXCEPT !.a = [in |-> <<>>, permuted |-> 0], !.absorbing = TRUE, !.lo = 0, !.len = 0]

\* The slice bounds of clone are right, or it panics.
cloneFits(d) == d.absorbing \/ d.rate - cap(d) >= 0

clone(d) == IF d.absorbing THEN [d EXCEPT !.lo = 0]
            ELSE [d EXCEPT !.lo = d.rate - cap(d), !.len = cap(d)]

Sum(d) == Read(clone(d), d.outputLen).out

-----------------------------------------------------------------------------
(***************************************************************************)
(* cSHAKE, TupleHash and KMAC: the same sponge behind an encoded prefix.   *)
(***************************************************************************)
RECURSIVE digits(_)
digits(n) == IF n < Base THEN <<byte(n)>> ELSE Append(digits(n \div Base), byte(n % Base))

leftEncode(n) == <<byte(Len(digits(n)))>> \o digits(n)
rightEncode(n) == Append(digits(n), byte(Len(digits(n))))
encodeString(s) == leftEncode(Len(s) * 8) \o s

bytepad(d, p) == Write(Write(d, p), zeros(d.rate - (Len(p) % d.rate)))

newCShake(rate, n, s) ==
  IF n = <<>> /\ s = <<>> THEN new([rate |-> rate, outputLen |-> 0, ds |-> 31])
  ELSE bytepad(new([rate |-> rate, outputLen |-> 0, ds |-> 4]),
               leftEncode(rate) \o encodeString(n) \o encodeString(s))

newTupleHash(rate, tuple, s) ==
  FoldLeft(LAMBDA d, item : Write(d, encodeString(item)), newCShake(rate, <<byte(84)>>, s), tuple)

newKMAC(rate, key, s) == bytepad(newCShake(rate, <<byte(75)>>, s), leftEncode(rate) \o encodeString(key))

\* Read of a thash or kmac h: the first writes the output length, and adds
\* the bytes of that to the count n it returns.
readTagged(h, n) ==
  LET tag == IF h.lengthEmitted THEN <<>> ELSE rightEncode(8 * h.outputLen)
      r == Read(Write(h.d, tag), n)
  IN  [h |-> [h EXCEPT !.d = r.d, !.lengthEmitted = TRUE], out |-> r.out, n |-> Len(tag) + Len(r.out)]

\* TupleHash, KMAC or cSHAKE of an input, ready to be read.
hasher(x) ==
  [d |-> CASE x.fn = "tuple" -> newTupleHash(x.rate, x.items, x.s)
           [] x.fn = "kmac"  -> FoldLeft(Write, newKMAC(x.rate, x.key, x.s), x.items)
           [] x.fn = "cshake" -> FoldLeft(Write, newCShake(x.rate, <<>>, x.s), x.items),
   outputLen |-> x.length, lengthEmitted |-> x.fn = "cshake"]

\* Two Reads of one byte.
digest(x) ==
  LET r1 == readTagged(hasher(x), 1)
      r2 == readTagged(r1.h, 1)
  IN  [out |-> r1.out \o r2.out, counts |-> <<r1.n, r2.n>>]

-----------------------------------------------------------------------------
(***************************************************************************)
(* The life of an object: msg and out are what it was given and what was   *)
(* read from it since it was made or reset, sum what the last operation,   *)
(* if it was a Sum, returned; cloned says that it is a clone of an object  *)
(* read from before, and ok that nothing has panicked.                     *)
(***************************************************************************)
use(s) == /\ call.fn = "hash"
          /\ call.st.ok
          /\ call' = [call EXCEPT !.st = s]

New == Idle /\ \E k \in Kinds :
         Eval("hash", k, [d |-> new(k), msg |-> <<>>, out |-> <<>>, sum |-> <<>>,
                         cloned |-> FALSE, ok |-> TRUE])

HashWrite == call.fn = "hash" /\ \E p \in Chunks :
  /\ Len(call.st.msg) + Len(p) <= MaxMessage
  /\ IF call.st.d.absorbing
     THEN use([call.st EXCEPT !.d = Write(@, p), !.msg = @ \o p, !.sum = <<>>])
     ELSE use([call.st EXCEPT !.ok = FALSE])

HashRead == call.fn = "hash" /\ \E n \in Reads :
  /\ Len(call.st.out) + n <= MaxOutput
  /\ LET r == Read(call.st.d, n)
     IN  use([call.st EXCEPT !.d = r.d, !.out = @ \o r.out, !.sum = <<>>])

HashSum == /\ call.fn = "hash"
           /\ IF cloneFits(call.st.d) THEN use([call.st EXCEPT !.sum = Sum(call.st.d)])
              ELSE use([call.st EXCEPT !.ok = FALSE])

\* The caller goes on with a Clone.
HashClone == /\ call.fn = "hash"
             /\ IF cloneFits(call.st.d) THEN use([call.st EXCEPT !.d = clone(@), !.sum = <<>>,
                                                                          !.cloned = @ \/ ~call.st.d.absorbing])
                ELSE use([call.st EXCEPT !.ok = FALSE])

\* Put256 and the Get256 that takes the same object out of the pool.
Put256 == call.fn = "hash" /\ use([call.st EXCEPT !.d = Reset(@), !.msg = <<>>, !.out = <<>>,
                                                  !.sum = <<>>, !.cloned = FALSE])

OneShot == Idle /\ \E x, y \in Inputs : Eval("digest", <<x, y>>, <<digest(x), digest(y)>>)

SpongeNext == New \/ HashWrite \/ HashRead \/ HashSum \/ HashClone \/ Put256 \/ OneShot

-----------------------------------------------------------------------------
\* The reference: pad the whole message, absorb it in blocks, squeeze byte by byte.
padded(msg, rate, ds) ==
  LET m == Append(msg, byte(ds))
      n == rate * ((Len(m) + rate - 1) \div rate)
  IN  [i \in 1..n |-> LET b == IF i <= Len(m) THEN m[i] ELSE byte(0) IN IF i = n THEN setTop(b) ELSE b]

blocks(m, rate) == [j \in 1..(Len(m) \div rate) |-> SubSeq(m, (j - 1) * rate + 1, j * rate)]

output(msg, k, n) ==
  LET in == blocks(padded(msg, k.rate, k.ds), k.rate)
  IN  [i \in 1..n |-> outByte([in |-> in, permuted |-> (i - 1) \div k.rate], ((i - 1) % k.rate) + 1)]

(***************************************************************************)
(* However a message is cut into Writes, whatever the buffer held before,  *)
(* however the output is cut into Reads, and whichever life of a pooled    *)
(* object this is: what is read is the sponge function of what was         *)
(* written.  A clone of an object that has been read from is excepted,     *)
(* unless its rate fills storage: clone points buf at the end of storage,  *)
(* where the unread output is not.                                         *)
(***************************************************************************)
SpongeFaithful ==
  During("hash", LAMBDA k, s : s.ok /\ (s.cloned => k.rate = MaxRate)
                                 => s.out = output(s.msg, k, Len(s.out)))

(***************************************************************************)
(* Sum of an object not yet read from returns the digest of the bytes      *)
(* written so far, and writing and summing can go on after it.             *)
(***************************************************************************)
SumIsDigest ==
  During("hash", LAMBDA k, s : s.sum # <<>> /\ s.d.absorbing => s.sum = output(s.msg, k, k.outputLen))

(***************************************************************************)
(* Different functions, keys, customisation strings, tuples or output      *)
(* lengths never reach the permutation as the same input, although all are *)
(* strings of bytes run together.                                          *)
(***************************************************************************)
InputsSeparated == After("digest", LAMBDA args, r : args[1] # args[2] => r[1].out # r[2].out)

(***************************************************************************)
(* A TupleHash or KMAC emits its length once: two Reads give what one Read *)
(* of as many bytes gives.  The count that a Read returns is that of the   *)
(* bytes read, but for the first Read of a TupleHash or KMAC, which also   *)
(* counts the encoded length, and so more bytes than out has room for.     *)
(***************************************************************************)
ReadsContinue ==
  After("digest", LAMBDA args, r :
    LET x == args[1]
        encoded == IF x.fn = "cshake" THEN 0 ELSE Len(rightEncode(8 * x.length))
    IN  r[1].out = readTagged(hasher(x), 2).out /\ r[1].counts = <<1 + encoded, 1>>)
=============================================================================
