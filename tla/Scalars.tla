------------------------------ MODULE Scalars -------------------------------
(***************************************************************************)
(* Arithmetic modulo the order L of the ed25519 base point: ScMulAdd and   *)
(* ScReduce of edwards25519.go and the Scalar type of ecmath, which is     *)
(* built on them.  A byte string is the set of the positions of its 1      *)
(* bits; the code splits it into limbs of ScBits bits (21 in the code).    *)
(* L = Radix^12 - sum of M[k] Radix^(k-1), so Radix^12 is congruent to     *)
(* that sum and limb i >= 12 can be folded into limbs i-12 .. i-7 (M is    *)
(* <<666643, 470296, 654183, -997805, 136657, -683901>> in the code).      *)
(* Which limbs are carried, which are folded and in what order is the      *)
(* code's.                                                                 *)
(***************************************************************************)
EXTENDS TLC, Calls, BitStrings

CONSTANTS ScBits, M,
          ScFactor,    \* a prime factor of L, small enough to compute with
          Strings,   \* the 32-byte strings tried
          WideStrings

Radix == 2^ScBits
Limbs == 0..23

\* The limbs 0..top of a byte string; the last load of a string is not masked.
load(x, top) ==
  [i \in Limbs |-> IF i > top THEN 0
                   ELSE number(x, i * ScBits, IF i = top THEN 2 * ScBits ELSE ScBits)]

move(s, i, c) == (i :> s[i] - c * Radix) @@ (i + 1 :> s[i + 1] + c) @@ s

\* carry[i] = (s_i + (1 << 20)) >> 21: the limb left is in -2^20 .. 2^20 - 1.
round(s, i) == move(s, i, (s[i] + Radix \div 2) \div Radix)

\* carry[i] = s_i >> 21: the limb left is in 0 .. 2^21 - 1.
floor(s, i) == move(s, i, s[i] \div Radix)

fold(s, i) ==
  (i :> 0) @@ [k \in (i - 12)..(i - 7) |-> s[k] + s[i] * M[k - i + 13]] @@ s

\* The straight-line code is a sequence of such steps.
spread == each("round", <<0, 2, 4, 6, 8, 10, 12, 14, 16, 18, 20, 22,
                          1, 3, 5, 7, 9, 11, 13, 15, 17, 19, 21>>)

foldHigh == each("fold", <<23, 22, 21, 20, 19, 18>>)
            \o each("round", <<6, 8, 10, 12, 14, 16, 7, 9, 11, 13, 15>>)

foldLow == each("fold", <<17, 16, 15, 14, 13, 12>>)
           \o each("round", <<0, 2, 4, 6, 8, 10, 1, 3, 5, 7, 9, 11>>)

settle == each("fold", <<12>>) \o each("floor", <<0, 1, 2, 3, 4, 5, 6, 7, 8, 9, 10, 11>>)
          \o each("fold", <<12>>) \o each("floor", <<0, 1, 2, 3, 4, 5, 6, 7, 8, 9, 10>>)

limbStep(s, x) == CASE x[1] = "round" -> round(s, x[2])
                    [] x[1] = "floor" -> floor(s, x[2])
                    [] x[1] = "fold" -> fold(s, x[2])

\* s_k = c_k + the sum of a_i b_j with i + j = k
product(a, b, c) ==
  LET x == load(a, 11)
      y == load(b, 11)
      z == load(c, 11)
      term(k, i) == IF k - i \in 0..11 THEN x[i] * y[k - i] ELSE 0
  IN  [k \in Limbs |-> z[k] + term(k, 0) + term(k, 1) + term(k, 2) + term(k, 3)
                       + term(k, 4) + term(k, 5) + term(k, 6) + term(k, 7)
                       + term(k, 8) + term(k, 9) + term(k, 10) + term(k, 11)]

\* The bytes the limbs 0..11 are shifted and or-ed into.
pack(s) == UNION {bitsAt(s[i], i * ScBits) : i \in 0..11}

\* for: the operation of the scalar type that the call carries out
ScMulAdd(for, a, b, c) ==
  Begin("ScMulAdd", [a |-> a, b |-> b, c |-> c, for |-> for], product(a, b, c),
        spread \o foldHigh \o foldLow \o settle)

-----------------------------------------------------------------------------
\* ScReduce has its own copy of the schedule, without the spread.
reduceHigh == each("fold", <<23, 22, 21, 20, 19, 18>>)
              \o each("round", <<6, 8, 10, 12, 14, 16, 7, 9, 11, 13, 15>>)

reduceLow == each("fold", <<17, 16, 15, 14, 13, 12>>)
             \o each("round", <<0, 2, 4, 6, 8, 10, 1, 3, 5, 7, 9, 11>>)

reduceSettle ==
  each("fold", <<12>>) \o each("floor", <<0, 1, 2, 3, 4, 5, 6, 7, 8, 9, 10, 11>>)
  \o each("fold", <<12>>) \o each("floor", <<0, 1, 2, 3, 4, 5, 6, 7, 8, 9, 10>>)

ScReduce(x) == Begin("ScReduce", x, load(x, 23), reduceHigh \o reduceLow \o reduceSettle)

-----------------------------------------------------------------------------
\* The constants and operations of ecmath.Scalar.
borrow[k \in 0..6] == IF k = 0 THEN 0 ELSE (borrow[k - 1] - M[k]) \div Radix

LLimbs == [i \in 0..11 |-> IF i < 6 THEN (borrow[i] - M[i + 1]) % Radix
                           ELSE IF i = 11 THEN Radix ELSE 0]

ASSUME OrderAssumption == borrow[6] = 0

L == pack(LLimbs)
Zero == {}
One == {0}
NegOne == pack([LLimbs EXCEPT ![0] = @ - 1])

MulAdd(a, b, c) == ScMulAdd(<<"MulAdd", a, b, c>>, a, b, c)
ScAdd(x, y) == ScMulAdd(<<"Add", x, y>>, x, One, y)
ScMul(x, y) == ScMulAdd(<<"Mul", x, y>>, x, y, Zero)
ScSub(x, y) == ScMulAdd(<<"Sub", x, y>>, y, NegOne, x)
ScNeg(x) == ScMulAdd(<<"Neg", x>>, x, NegOne, Zero)

ScalarsNext ==
  \/ Idle /\ \/ \E a, b, c \in Strings : MulAdd(a, b, c)
             \/ \E x, y \in Strings : ScAdd(x, y) \/ ScMul(x, y) \/ ScSub(x, y)
             \/ \E x \in Strings : ScNeg(x)
             \/ \E x \in WideStrings : ScReduce(x)
  \/ Step("ScMulAdd", limbStep)
  \/ Step("ScReduce", limbStep)

-----------------------------------------------------------------------------
(***************************************************************************)
(* L does not fit TLC's integers.  Congruence modulo L is checked modulo   *)
(* ScFactor, a prime factor of L.                                          *)
(***************************************************************************)
RECURSIVE limbsMod(_, _)
limbsMod(s, i) ==
  IF i = 24 THEN 0 ELSE (s[i] + Radix * limbsMod(s, i + 1)) % ScFactor

scMod(x) == mod(x, ScFactor)

\* The limbs are digits: the bytes they are packed into do not overlap.
Digits(s) == /\ \A i \in 0..10 : s[i] \in 0..(Radix - 1)
             /\ \A i \in 12..23 : s[i] = 0
             /\ s[11] \in 0..Radix

(***************************************************************************)
(* No step of ScMulAdd, of the 14 folds and 69 carries it takes, changes   *)
(* the number its limbs stand for modulo L: throughout the call it is      *)
(* ab + c.                                                                 *)
(***************************************************************************)
MulAddKeepsValue ==
  During("ScMulAdd", LAMBDA x, s :
           limbsMod(s, 0) = (scMod(x.a) * scMod(x.b) + scMod(x.c)) % ScFactor)

(***************************************************************************)
(* The operations of the scalar type return what their comments say, fully *)
(* reduced, in bytes that do not overlap, whatever 32-byte strings they    *)
(* are given.                                                              *)
(***************************************************************************)
ScalarOps ==
  LET is(f, n) ==
        CASE f[1] = "MulAdd" -> n = (scMod(f[2]) * scMod(f[3]) + scMod(f[4])) % ScFactor
          [] f[1] = "Add" -> n = (scMod(f[2]) + scMod(f[3])) % ScFactor
          [] f[1] = "Mul" -> n = (scMod(f[2]) * scMod(f[3])) % ScFactor
          [] f[1] = "Sub" -> n = (scMod(f[2]) - scMod(f[3])) % ScFactor
          [] f[1] = "Neg" -> n = (0 - scMod(f[2])) % ScFactor
  IN  After("ScMulAdd", LAMBDA x, s :
              Digits(s) /\ Less(pack(s), L) /\ is(x.for, scMod(pack(s))))

(***************************************************************************)
(* ScReduce returns its 64-byte argument mod L, fully reduced, although    *)
(* it does not spread the limbs before it folds them.                      *)
(***************************************************************************)
ReduceReduces ==
  After("ScReduce", LAMBDA x, s :
          Digits(s) /\ Less(pack(s), L) /\ scMod(pack(s)) = scMod(x))
=============================================================================
