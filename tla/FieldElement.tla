---------------------------- MODULE FieldElement ----------------------------
(***************************************************************************)
(* The field of ed25519: FieldElement of edwards25519.go.  An element is   *)
(* ten signed limbs, the even ones FeBits + 1 and the odd ones FeBits bits *)
(* wide (25 in the code), with at most half a unit of slack, so an element *)
(* has many representations.  The prime is 2^(5 (2 FeBits + 1)) - Pad (Pad *)
(* is 19 in the code): what limb 9 overflows by comes back to limb 0, Pad  *)
(* times.  A limb of a product is the sum the code writes out: i and j     *)
(* both odd count twice because the weights of the limbs are rounded up.   *)
(***************************************************************************)
EXTENDS TLC, Calls, BitStrings

CONSTANTS FeBits, Pad,
          FeFactor,   \* a factor of the prime's stand-in, small enough to compute with
          Elements,   \* the limbs tried, in tenths of the bound 1.1 * 2^(width - 1)
          FeStrings   \* the 32-byte strings tried

Fe == 0..9
width(i) == IF i % 2 = 0 THEN FeBits + 1 ELSE FeBits
offset(i) == (i * (2 * FeBits + 1) + 1) \div 2
PBits == offset(10)

bound(i) == (11 * 2^(width(i) - 1)) \div 10

-----------------------------------------------------------------------------
FeAdd(a, b) == [i \in Fe |-> a[i] + b[i]]
FeSub(a, b) == [i \in Fe |-> a[i] - b[i]]
FeNeg(f) == [i \in Fe |-> -f[i]]

carry(h, i, c) ==
  (i :> h[i] - c * 2^width(i))
  @@ (IF i = 9 THEN 0 :> h[0] + c * Pad ELSE i + 1 :> h[i + 1] + c) @@ h

feRound(h, i) == carry(h, i, (h[i] + 2^(width(i) - 1)) \div 2^width(i))

\* Fault: the second carry out of limb 0 is forgotten.
combineOnce == <<0, 4, 1, 5, 2, 6, 3, 7, 4, 8, 9>>
FeCombine == <<0, 4, 1, 5, 2, 6, 3, 7, 4, 8, 9, 0>>

-----------------------------------------------------------------------------
twice(b) == IF b THEN 2 ELSE 1
weight(i, j) == twice(i % 2 = 1 /\ j % 2 = 1) * (IF i + j >= 10 THEN Pad ELSE 1)

term(f, g, i, j) == f[i] * g[j] * weight(i, j)

product10(f, g) ==
  [k \in Fe |-> LET t(i) == term(f, g, i, (k - i) % 10)
                IN  t(0) + t(1) + t(2) + t(3) + t(4) + t(5) + t(6) + t(7) + t(8) + t(9)]

FeMul(f, g) == Begin("FeMul", <<f, g>>, product10(f, g), FeCombine)

\* The square adds each product of two different limbs once, doubled.
feSquare(f) ==
  [k \in Fe |-> LET t(i) == LET j == (k - i) % 10
                            IN  IF i > j THEN 0 ELSE term(f, f, i, j) * twice(i # j)
                IN  t(0) + t(1) + t(2) + t(3) + t(4) + t(5) + t(6) + t(7) + t(8) + t(9)]

FeSquare(f) == Begin("FeSquare", f, feSquare(f), FeCombine)

FeSquare2(f) == Begin("FeSquare2", f, [k \in Fe |-> 2 * feSquare(f)[k]], FeCombine)

-----------------------------------------------------------------------------
\* The chunk of bytes limb i is loaded from starts shift[i] bits after the limb.
shift == <<0, 6, 5, 3, 2, 0, 7, 5, 4, 2>>
chunk(i) == IF i = 10 THEN PBits ELSE offset(i) + shift[i + 1]

fromBytes(x) == [i \in Fe |-> number(x, chunk(i), chunk(i + 1) - chunk(i)) * 2^shift[i + 1]]

FeFromBytes(x) == Begin("FeFromBytes", x, fromBytes(x), FeCombine)

\* q = floor(h/p): what the limbs carry out of limb 9 if Pad q is added to limb 0.
quotient(h) ==
  LET q[i \in 0..10] ==
        IF i = 0 THEN (Pad * h[9] + 2^(width(9) - 1)) \div 2^width(9)
        ELSE (h[i - 1] + q[i - 1]) \div 2^width(i - 1)
  IN  q[10]

feFloor(h, i) == LET c == h[i] \div 2^width(i)
                 IN  IF i = 9 THEN (9 :> h[9] - c * 2^width(9)) @@ h ELSE carry(h, i, c)

toBytes(h) == (0 :> h[0] + Pad * quotient(h)) @@ h

FeToBytes == Then("FeToBytes", call.st, toBytes(call.st), <<0, 1, 2, 3, 4, 5, 6, 7, 8, 9>>)

bytesOf(h) == UNION {bitsAt(h[i], offset(i)) : i \in Fe}

-----------------------------------------------------------------------------
(***************************************************************************)
(* The powers z^(p-2) and z^((p-5)/8) at the code's size.  What a register *)
(* holds is known by its exponent, a bit string; sq is a squaring followed *)
(* by the loop's squarings, n in all.                                      *)
(***************************************************************************)
RECURSIVE addBits(_, _)
addBits(x, y) == IF y = {} THEN x ELSE addBits(xor(x, y), {b + 1 : b \in x \cap y})

sq(dst, src, n) == [op |-> "sq", dst |-> dst, src |-> src, n |-> n]
mul(dst, a, b) == [op |-> "mul", dst |-> dst, src |-> a, by |-> b]

powerStep(r, x) ==
  (x.dst :> IF x.op = "sq" THEN {b + x.n : b \in r[x.src]}
            ELSE addBits(r[x.src], r[x.by])) @@ r

FeInvert ==
  <<sq("t0", "z", 1), sq("t1", "t0", 2), mul("t1", "z", "t1"), mul("t0", "t0", "t1"),
    sq("t2", "t0", 1), mul("t1", "t1", "t2"), sq("t2", "t1", 5), mul("t1", "t2", "t1"),
    sq("t2", "t1", 10), mul("t2", "t2", "t1"), sq("t3", "t2", 20), mul("t2", "t3", "t2"),
    sq("t2", "t2", 10), mul("t1", "t2", "t1"), sq("t2", "t1", 50), mul("t2", "t2", "t1"),
    sq("t3", "t2", 100), mul("t2", "t3", "t2"), sq("t2", "t2", 50), mul("t1", "t2", "t1"),
    sq("t1", "t1", 5), mul("out", "t1", "t0")>>

fePow22523 ==
  <<sq("t0", "z", 1), sq("t1", "t0", 2), mul("t1", "z", "t1"), mul("t0", "t0", "t1"),
    sq("t0", "t0", 1), mul("t0", "t1", "t0"), sq("t1", "t0", 5), mul("t0", "t1", "t0"),
    sq("t1", "t0", 10), mul("t1", "t1", "t0"), sq("t2", "t1", 20), mul("t1", "t2", "t1"),
    sq("t1", "t1", 10), mul("t0", "t1", "t0"), sq("t1", "t0", 50), mul("t1", "t1", "t0"),
    sq("t2", "t1", 100), mul("t1", "t2", "t1"), sq("t1", "t1", 50), mul("t0", "t1", "t0"),
    sq("t0", "t0", 2), mul("out", "t0", "z")>>

Registers == ("z" :> {0}) @@ [r \in {"t0", "t1", "t2", "t3", "out"} |-> {}]

-----------------------------------------------------------------------------
Elem(e, n) == [i \in Fe |-> (n * e[i] * bound(i)) \div 10]

FieldElementNext ==
  \/ Idle /\ \/ \E e, f \in Elements :
                  LET a == Elem(e, 1)
                      b == Elem(f, 1)
                  IN  FeMul(Elem(e, 3), Elem(f, 3)) \/ FeMul(FeAdd(a, b), FeSub(a, b))
             \/ \E e \in Elements : \/ FeSquare(Elem(e, 2))
                                    \/ FeSquare2(Elem(e, 3))
                                    \/ Eval("limbs", e, Elem(e, 3))
                                    \/ Eval("limbs", e, FeNeg(Elem(e, 1)))
             \/ \E x \in FeStrings : FeFromBytes(x)
             \/ Begin("FeInvert", {}, Registers, FeInvert)
             \/ Begin("fePow22523", {}, Registers, fePow22523)
  \/ call.fn \in {"FeMul", "FeSquare", "FeSquare2", "FeFromBytes", "limbs"} /\ FeToBytes
  \/ \E fn \in {"FeMul", "FeSquare", "FeSquare2", "FeFromBytes"} : Step(fn, feRound)
  \/ Step("FeToBytes", feFloor)
  \/ \E fn \in {"FeInvert", "fePow22523"} : Step(fn, powerStep)

-----------------------------------------------------------------------------
\* The number the limbs stand for and the number a string holds, mod FeFactor.
RECURSIVE limbsMod10(_, _)
limbsMod10(h, i) ==
  IF i = 10 THEN 0 ELSE (h[i] + 2^width(i) * limbsMod10(h, i + 1)) % FeFactor

feMod(h) == limbsMod10(h, 0)
Prime == xor(0..(PBits - 1), bitsAt(Pad - 1, 0))

InBounds(h) == \A i \in Fe : h[i] \in -bound(i)..bound(i)

(***************************************************************************)
(* The carries of FeCombine keep the value: throughout a call of FeMul,    *)
(* FeSquare, FeSquare2 or FeFromBytes the limbs stand for the product, the *)
(* square, twice the square or the low 255 bits of the string.             *)
(***************************************************************************)
FeValue ==
  /\ During("FeMul", LAMBDA x, h : feMod(h) = (feMod(x[1]) * feMod(x[2])) % FeFactor)
  /\ During("FeSquare", LAMBDA f, h : feMod(h) = (feMod(f) * feMod(f)) % FeFactor)
  /\ During("FeSquare2", LAMBDA f, h :
              feMod(h) = (2 * ((feMod(f) * feMod(f)) % FeFactor)) % FeFactor)
  /\ During("FeFromBytes", LAMBDA x, h :
              feMod(h) = mod(x \cap (0..(PBits - 1)), FeFactor))

(***************************************************************************)
(* The twelve carries suffice: from limbs up to 1.65 * 2^26, which FeMul   *)
(* does get although its comment says 1.1 * 2^26 (see LimbsFit), and from  *)
(* any byte string, the result is back within 1.1 * 2^25, 1.1 * 2^24, ...  *)
(* as the postconditions say.                                              *)
(***************************************************************************)
FePostconditions ==
  \A fn \in {"FeMul", "FeSquare", "FeSquare2", "FeFromBytes"} :
     After(fn, LAMBDA x, h : InBounds(h))

(***************************************************************************)
(* FeToBytes is canonical: from limbs up to three times its documented     *)
(* 1.1 * 2^25, as FromBytes hands it, it returns the bytes of the          *)
(* element's one value below p.  FeIsNegative, FeIsNonZero and the         *)
(* comparison of encodings rely on it.                                     *)
(***************************************************************************)
BytesCanonical ==
  After("FeToBytes", LAMBDA x, h :
          /\ \A i \in Fe : h[i] \in 0..(2^width(i) - 1)
          /\ Less(bytesOf(h), Prime)
          /\ mod(bytesOf(h), FeFactor) = feMod(x))

(***************************************************************************)
(* FeInvert raises to p - 2 and fePow22523 to (p - 5) / 8, p = 2^255 - 19. *)
(***************************************************************************)
PowersRight ==
  /\ After("FeInvert", LAMBDA x, r : r["out"] = {0, 1, 3} \cup 5..254)
  /\ After("fePow22523", LAMBDA x, r : r["out"] = {0} \cup 2..251)
=============================================================================
