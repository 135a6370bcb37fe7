------------------------------ MODULE Edwards -------------------------------
(***************************************************************************)
(* The group of ed25519, -x^2 + y^2 = 1 + d x^2 y^2: the representations   *)
(* of its points and the additions, encodings and scalar multiplications   *)
(* of edwards25519.go, and the Point type of ecmath built on them.         *)
(*                                                                         *)
(* The field is a small one whose prime P = 2^FieldBits - 19 has the       *)
(* residue mod 8 that FromBytes relies on.  A field element is its value v *)
(* together with the bound b on its limbs, in hundredths of the 2^25 and   *)
(* 2^24 of the code's comments, and with over, the functions that were     *)
(* handed more than their comments allow while it was computed.  Sums and  *)
(* differences add bounds.  A product brings the bound back to 110 if its  *)
(* intermediate integers fit; FieldElement shows that the carries do it.   *)
(***************************************************************************)
EXTENDS TLC, Calls, Integers

CONSTANTS FieldBits, P, D, SqrtM1,
          Bx, By,       \* the base point
          Order,        \* the order of the base point
          NBits,        \* bits of a scalar (256 in the code)
          Multipliers,  \* the scalars GeScalarMultBase is tried on
          DoubleMults,  \* the <<a, A, b>> tried, A as an index into Few
          Few           \* the points tried as the second operand, a sequence

Field == 0..(P - 1)

\* The documented preconditions: 1.1 * 2^26, 1.65 * 2^26 and 1.1 * 2^25.
Documented == [FeMul |-> 220, FeSquare |-> 220, FeSquare2 |-> 330, FeToBytes |-> 110]
exceeds(fn, f) == IF f.b > Documented[fn] THEN {fn} ELSE {}

\* 19 g_i is an int32, and the sum of ten products an int64.
pad19Fits(g) == 19 * g.b < 100 * 2^6
sumFits(f, g) == 125 * f.b * g.b < 10000 * 2^13
Overflow == 10000
reduced(fits) == IF fits THEN 110 ELSE Overflow

fe(v) == [v |-> v % P, b |-> 100, over |-> {}]
fZero == [fe(0) EXCEPT !.b = 0]
fOne == [fe(1) EXCEPT !.b = 1]
fAdd(f, g) == [v |-> (f.v + g.v) % P, b |-> f.b + g.b, over |-> f.over \cup g.over]
fSub(f, g) == [v |-> (f.v - g.v) % P, b |-> f.b + g.b, over |-> f.over \cup g.over]
fNeg(f) == [f EXCEPT !.v = (-@) % P]
fMul(f, g) == [v |-> (f.v * g.v) % P, b |-> reduced(pad19Fits(g) /\ sumFits(f, g)),
               over |-> f.over \cup g.over \cup exceeds("FeMul", f) \cup exceeds("FeMul", g)]
fSq(f) == [v |-> (f.v * f.v) % P, b |-> reduced(sumFits(f, f)),
           over |-> f.over \cup exceeds("FeSquare", f)]
fSq2(f) == [v |-> (2 * f.v * f.v) % P, b |-> reduced(sumFits(f, fAdd(f, f))),
            over |-> f.over \cup exceeds("FeSquare2", f)]

RECURSIVE power(_, _)
power(v, n) == IF n = 0 THEN 1
               ELSE IF n % 2 = 1 THEN (v * power(v, n - 1)) % P
               ELSE power((v * v) % P, n \div 2)

Invert(f) == [fSq(f) EXCEPT !.v = power(f.v, P - 2)]
Pow22523(f) == [fSq(f) EXCEPT !.v = power(f.v, (P - 5) \div 8)]
IsNegative(f) == f.v % 2
IsNonZero(f) == f.v # 0

\* f and what FeToBytes was handed on the way to it.
handing(f, checks) ==
  [f EXCEPT !.over = @ \cup UNION {c.over \cup exceeds("FeToBytes", c) : c \in checks}]

d == fe(D)
d2 == fe(2 * D)

-----------------------------------------------------------------------------
ProjectiveZero == [X |-> fZero, Y |-> fOne, Z |-> fOne]
ExtendedZero == [X |-> fZero, Y |-> fOne, Z |-> fOne, T |-> fZero]
PreComputedZero == [yPlusX |-> fOne, yMinusX |-> fOne, xy2d |-> fZero]

Double(p) ==
  LET xx == fSq(p.X)
      yy == fSq(p.Y)
      zz2 == fSq2(p.Z)
      t0 == fSq(fAdd(p.X, p.Y))
      rY == fAdd(yy, xx)
      rZ == fSub(yy, xx)
  IN  [X |-> fSub(t0, rY), Y |-> rY, Z |-> rZ, T |-> fSub(zz2, rZ)]

ToProjective(c) ==
  [X |-> fMul(c.X, c.T), Y |-> fMul(c.Y, c.Z), Z |-> fMul(c.Z, c.T)]

ToExtended(c) ==
  [X |-> fMul(c.X, c.T), Y |-> fMul(c.Y, c.Z), Z |-> fMul(c.Z, c.T),
   T |-> fMul(c.X, c.Y)]

ExtendedToProjective(p) == [X |-> p.X, Y |-> p.Y, Z |-> p.Z]

ExtendedDouble(p) == Double(ExtendedToProjective(p))

ToCached(p) == [yPlusX |-> fAdd(p.Y, p.X), yMinusX |-> fSub(p.Y, p.X),
                Z |-> p.Z, T2d |-> fMul(p.T, d2)]

geAdd(p, q) ==
  LET z == fMul(fAdd(p.Y, p.X), q.yPlusX)
      y == fMul(fSub(p.Y, p.X), q.yMinusX)
      t == fMul(q.T2d, p.T)
      x == fMul(p.Z, q.Z)
      t0 == fAdd(x, x)
  IN  [X |-> fSub(z, y), Y |-> fAdd(z, y), Z |-> fAdd(t0, t), T |-> fSub(t0, t)]

geSub(p, q) ==
  LET z == fMul(fAdd(p.Y, p.X), q.yMinusX)
      y == fMul(fSub(p.Y, p.X), q.yPlusX)
      t == fMul(q.T2d, p.T)
      x == fMul(p.Z, q.Z)
      t0 == fAdd(x, x)
  IN  [X |-> fSub(z, y), Y |-> fAdd(z, y), Z |-> fSub(t0, t), T |-> fAdd(t0, t)]

geMixedAdd(p, q) ==
  LET z == fMul(fAdd(p.Y, p.X), q.yPlusX)
      y == fMul(fSub(p.Y, p.X), q.yMinusX)
      t == fMul(q.xy2d, p.T)
      t0 == fAdd(p.Z, p.Z)
  IN  [X |-> fSub(z, y), Y |-> fAdd(z, y), Z |-> fAdd(t0, t), T |-> fSub(t0, t)]

geMixedSub(p, q) ==
  LET z == fMul(fAdd(p.Y, p.X), q.yMinusX)
      y == fMul(fSub(p.Y, p.X), q.yPlusX)
      t == fMul(q.xy2d, p.T)
      t0 == fAdd(p.Z, p.Z)
  IN  [X |-> fSub(z, y), Y |-> fAdd(z, y), Z |-> fSub(t0, t), T |-> fAdd(t0, t)]

-----------------------------------------------------------------------------
\* Encodings: FieldBits bits of y, and the sign of x in the top bit.
ToBytes(p) ==
  LET recip == Invert(p.Z)
      x == fMul(p.X, recip)
      y == fMul(p.Y, recip)
  IN  y.v + IsNegative(x) * 2^FieldBits

Rejected == [ok |-> FALSE]

FromBytes(s) ==
  LET Y == [fe(s % 2^FieldBits) EXCEPT !.b = 110]
      yy == fSq(Y)
      u == fSub(yy, fOne)
      v == fAdd(fMul(yy, d), fOne)
      v3 == fMul(fSq(v), v)
      uv7 == fMul(fMul(fSq(v3), v), u)
      root == fMul(fMul(Pow22523(uv7), v3), u)
      vxx == fMul(fSq(root), v)
      minus == fSub(vxx, u)
      plus == fAdd(vxx, u)
      X0 == IF IsNonZero(minus) THEN handing(fMul(root, fe(SqrtM1)), {minus, plus})
            ELSE handing(root, {minus})
      X == IF IsNegative(X0) # s \div 2^FieldBits THEN fNeg(X0) ELSE X0
  IN  IF IsNonZero(minus) /\ IsNonZero(plus) THEN Rejected
      ELSE [X |-> X, Y |-> Y, Z |-> fOne, T |-> fMul(X, Y)]

-----------------------------------------------------------------------------
(***************************************************************************)
(* The group's law on affine points, the reference: the tables of const.go *)
(* and what the multiplications must compute are stated with it.           *)
(***************************************************************************)
inverse(v) == power(v % P, P - 2)

law(p, q) ==
  LET t == (((D * p[1] * q[1]) % P) * p[2] * q[2]) % P
  IN  <<((p[1] * q[2] + q[1] * p[2]) * inverse(1 + t)) % P,
        ((p[2] * q[2] + p[1] * q[1]) * inverse(1 - t)) % P>>

opposite(p) == <<(-p[1]) % P, p[2]>>

RECURSIVE multiple(_, _)
multiple(n, p) ==
  IF n = 0 THEN <<0, 1>>
  ELSE IF n % 2 = 1 THEN law(p, multiple(n - 1, p))
  ELSE multiple(n \div 2, law(p, p))

times(n, p) == IF n < 0 THEN multiple(-n, opposite(p)) ELSE multiple(n, p)

Points == {p \in Field \X Field :
             (p[2] * p[2] - p[1] * p[1] - 1 - ((D * p[1] * p[1]) % P) * p[2] * p[2]) % P = 0}

B == <<Bx, By>>

ASSUME CurveAssumption ==
  /\ P % 8 = 5
  /\ B \in Points
  /\ (SqrtM1 * SqrtM1 + 1) % P = 0
  /\ \A n \in 1..(Order - 1) : multiple(n, B) # <<0, 1>>
  /\ multiple(Order, B) = <<0, 1>>

affine(p) == <<(p.X.v * inverse(p.Z.v)) % P, (p.Y.v * inverse(p.Z.v)) % P>>

\* A point as the product of a computation, with limbs at their bounds.
extended(p, z) == LET f(v) == [fe(v) EXCEPT !.b = 110]
                  IN  [X |-> f(p[1] * z), Y |-> f(p[2] * z), Z |-> f(z), T |-> f(p[1] * p[2] * z)]

preComputed(p) == [yPlusX |-> fe(p[2] + p[1]), yMinusX |-> fe(p[2] - p[1]),
                   xy2d |-> fe(2 * ((D * p[1]) % P) * p[2])]

\* The tables: bi holds B, 3B, ... 15B, and base[pos] holds 256^pos (1..8) B.
bi(k) == preComputed(multiple(2 * k + 1, B))
base(pos, k) == preComputed(multiple((k + 1) * 256^pos, B))

-----------------------------------------------------------------------------
\* Fault: a digit made negative carries nothing.
dropCarry(r, k) == (k :> 0) @@ r

\* The signed digits of a scalar, from its bits: each is odd or zero.
carryFrom(r, k) ==
  LET free == {m \in k..(NBits - 1) : r[m] = 0}
      stop == IF free = {} THEN NBits ELSE CHOOSE m \in free : \A n \in free : m <= n
  IN  [m \in 0..(NBits - 1) |-> IF m < k \/ m > stop THEN r[m]
                                ELSE IF m = stop THEN 1 ELSE 0]

RECURSIVE slideFrom(_, _, _)
slideFrom(r, i, b) ==
  IF r[i] = 0 \/ b > 6 \/ i + b >= NBits THEN r
  ELSE IF r[i + b] = 0 THEN slideFrom(r, i, b + 1)
  ELSE IF r[i] + 2^b <= 15 THEN slideFrom((i :> r[i] + 2^b) @@ (i + b :> 0) @@ r, i, b + 1)
  ELSE IF r[i] - 2^b >= -15
       THEN slideFrom((i :> r[i] - 2^b) @@ carryFrom(r, i + b), i, b + 1)
  ELSE r

bit(a, i) == (a \div 2^i) % 2
bits(a) == [i \in 0..(NBits - 1) |-> bit(a, i)]

upTo(n) == [i \in 1..(n + 1) |-> i - 1]
downFrom(n) == [i \in 1..(n + 1) |-> n + 1 - i]

GeDoubleScalarMultVartime(a, A, b) ==
  Begin("GeDoubleScalarMultVartime", <<a, affine(A), b>>,
        [a |-> bits(a), b |-> bits(b), Ai |-> (0 :> ToCached(A)),
         A2 |-> ToExtended(ExtendedDouble(A)), r |-> ProjectiveZero],
        each("slide", upTo(NBits - 1)) \o each("table", upTo(6))
        \o each("mult", downFrom(NBits - 1)))

abs(n) == IF n < 0 THEN -n ELSE n

doubleMultStep(s, x) ==
  LET i == x[2]
      k(n) == abs(n) \div 2
      t1 == IF s.a[i] > 0 THEN geAdd(ToExtended(Double(s.r)), s.Ai[k(s.a[i])])
            ELSE IF s.a[i] < 0 THEN geSub(ToExtended(Double(s.r)), s.Ai[k(s.a[i])])
            ELSE Double(s.r)
      t2 == IF s.b[i] > 0 THEN geMixedAdd(ToExtended(t1), bi(k(s.b[i])))
            ELSE IF s.b[i] < 0 THEN geMixedSub(ToExtended(t1), bi(k(s.b[i])))
            ELSE t1
      leading == \A m \in i..(NBits - 1) : s.a[m] = 0 /\ s.b[m] = 0
  IN  CASE x[1] = "slide" -> [s EXCEPT !.a = slideFrom(@, i, 1), !.b = slideFrom(@, i, 1)]
        [] x[1] = "table" ->
             [s EXCEPT !.Ai = (i + 1 :> ToCached(ToExtended(geAdd(s.A2, s.Ai[i])))) @@ @]
        [] x[1] = "mult" -> IF leading THEN s ELSE [s EXCEPT !.r = ToProjective(t2)]

-----------------------------------------------------------------------------
selectPoint(pos, n) ==
  LET t == IF n = 0 THEN PreComputedZero ELSE base(pos, abs(n) - 1)
  IN  IF n < 0 THEN [yPlusX |-> t.yMinusX, yMinusX |-> t.yPlusX, xy2d |-> fNeg(t.xy2d)]
      ELSE t

Nibbles == NBits \div 4

GeScalarMultBase(a) ==
  Begin("GeScalarMultBase", a,
        [e |-> [i \in 0..(Nibbles - 1) |-> (a \div 16^i) % 16], carry |-> 0, h |-> ExtendedZero],
        each("recode", upTo(Nibbles - 1))
        \o each("add", [k \in 1..(Nibbles \div 2) |-> 2 * k - 1])
        \o each("times16", <<0>>)
        \o each("add", [k \in 1..(Nibbles \div 2) |-> 2 * k - 2]))

recode(s, i) ==
  LET n == s.e[i] + s.carry
      c == IF i = Nibbles - 1 THEN 0 ELSE (n + 8) \div 16
  IN  [s EXCEPT !.e[i] = n - 16 * c, !.carry = c]

times16(h) ==
  ToExtended(Double(ToProjective(Double(ToProjective(Double(ToProjective(ExtendedDouble(h))))))))

baseMultStep(s, x) ==
  CASE x[1] = "recode" -> recode(s, x[2])
    [] x[1] = "add" ->
         [s EXCEPT !.h = ToExtended(geMixedAdd(@, selectPoint(x[2] \div 2, s.e[x[2]])))]
    [] x[1] = "times16" -> [s EXCEPT !.h = times16(@)]

-----------------------------------------------------------------------------
\* ecmath.Point
PointAdd(x, y) == ToExtended(geAdd(x, ToCached(y)))
PointSub(x, y) == ToExtended(geSub(x, ToCached(y)))
ScMulCofactor(p) == ToExtended(Double(ToProjective(Double(ToProjective(ExtendedDouble(p))))))

EdwardsNext ==
  \/ Idle /\ \/ \E p \in Points, q \in {Few[i] : i \in DOMAIN Few}, z, w \in {1, 5} :
                  LET x == extended(p, z)
                      y == extended(q, w)
                  IN  \/ Eval("Add", <<p, q>>, PointAdd(x, y))
                      \/ Eval("Sub", <<p, q>>, PointSub(x, y))
                      \/ Eval("Add", <<p, q>>, ToExtended(geMixedAdd(x, preComputed(q))))
                      \/ Eval("Sub", <<p, q>>, ToExtended(geMixedSub(x, preComputed(q))))
             \/ \E p \in Points, z \in {1, 5} :
                  \/ Eval("ScMulCofactor", p, ScMulCofactor(extended(p, z)))
                  \/ Eval("ToBytes", p, ToBytes(extended(p, z)))
             \/ \E s \in 0..(2^(FieldBits + 1) - 1) : Eval("FromBytes", s, FromBytes(s))
             \/ \E m \in DoubleMults :
                  GeDoubleScalarMultVartime(m[1], extended(Few[m[2]], 5), m[3])
             \/ \E a \in Multipliers : GeScalarMultBase(a)
  \/ Step("GeDoubleScalarMultVartime", doubleMultStep)
  \/ Step("GeScalarMultBase", baseMultStep)

-----------------------------------------------------------------------------
Represents(h, p) == h.Z.v # 0 /\ affine(h) = p
OnQuadric(h) == (h.X.v * h.Y.v) % P = (h.Z.v * h.T.v) % P

(***************************************************************************)
(* The additions and doublings compute the group's law for every pair of   *)
(* points, the identity, equal, opposite and low-order points included, in *)
(* whatever coordinates the points are given, and keep XY = ZT.            *)
(***************************************************************************)
GroupLaw ==
  /\ After("Add", LAMBDA x, h : Represents(h, law(x[1], x[2])) /\ OnQuadric(h))
  /\ After("Sub", LAMBDA x, h : Represents(h, law(x[1], opposite(x[2]))) /\ OnQuadric(h))
  /\ After("ScMulCofactor", LAMBDA p, h : Represents(h, multiple(8, p)) /\ OnQuadric(h))

(***************************************************************************)
(* FromBytes accepts a string exactly when some point has that y, returns  *)
(* a point of the curve with the sign asked for, and decodes what ToBytes  *)
(* encodes.  Only strings with y >= p, or x = 0 and the sign set, decode   *)
(* to a point that ToBytes encodes otherwise.                              *)
(***************************************************************************)
Encodings ==
  /\ After("ToBytes", LAMBDA p, s : /\ FromBytes(s) # Rejected
                                    /\ Represents(FromBytes(s), p))
  /\ After("FromBytes", LAMBDA s, h :
       LET y == s % 2^FieldBits
           sign == s \div 2^FieldBits
       IN  IF h = Rejected THEN \A p \in Points : p[2] # y % P
           ELSE /\ affine(h) \in Points
                /\ affine(h)[2] = y % P
                /\ affine(h)[1] % 2 = sign \/ affine(h)[1] = 0
                /\ OnQuadric(h)
                /\ ToBytes(h) = s \/ y >= P \/ (affine(h)[1] = 0 /\ sign = 1))

digitSum(r, n) ==
  LET sum[i \in 0..n] == IF i = 0 THEN 0 ELSE sum[i - 1] + r[i - 1] * 2^(i - 1) IN sum[n]

TopBit(a) == bit(a, NBits - 1) = 1

(***************************************************************************)
(* GeDoubleScalarMultVartime computes aA + bB: at every step the digits    *)
(* stand for the scalars, and every digit indexes the tables of odd        *)
(* multiples.  A carry past the top is lost, so a scalar whose top bit is  *)
(* set may count as 2^256 less, of which the function's comment says       *)
(* nothing; a reduced scalar never does.                                   *)
(***************************************************************************)
DoubleMultRight ==
  LET stands(r, a) == digitSum(r, NBits) \in {a} \cup (IF TopBit(a) THEN {a - 2^NBits} ELSE {})
  IN  /\ During("GeDoubleScalarMultVartime", LAMBDA x, s : stands(s.a, x[1]) /\ stands(s.b, x[3]))
      /\ After("GeDoubleScalarMultVartime", LAMBDA x, s :
           /\ \A i \in 0..(NBits - 1) : \A n \in {s.a[i], s.b[i]} :
                n = 0 \/ (n % 2 = 1 /\ n \in -15..15)
           /\ Represents(s.r, law(times(digitSum(s.a, NBits), x[2]),
                                  times(digitSum(s.b, NBits), B))))

(***************************************************************************)
(* GeScalarMultBase computes aB for scalars whose top bit is clear, from   *)
(* digits within the table's -8..8.                                        *)
(***************************************************************************)
BaseMultRight ==
  After("GeScalarMultBase", LAMBDA a, s :
          /\ \A i \in 0..(Nibbles - 1) : s.e[i] \in -8..8
          /\ Represents(s.h, multiple(a, B)) /\ OnQuadric(s.h))

(***************************************************************************)
(* No sum is carried before it is multiplied, and still no formula hands a *)
(* product limbs whose 19 g_i leaves an int32 or whose sum leaves an int64.*)
(* The comments ask for less and are not kept to: every addition and       *)
(* doubling gives FeMul operands up to 1.65 * 2^26 (its comment:           *)
(* 1.1 * 2^26), and FromBytes gives FeToBytes differences beyond           *)
(* 1.1 * 2^25.  No other precondition is broken.                           *)
(***************************************************************************)
LimbsFit ==
  LET parts(h) == {h[c] : c \in {"X", "Y", "Z"}}
      fits(h) == \A f \in parts(h) : f.b <= 110
      over(h) == UNION {f.over : f \in parts(h)}
  IN  /\ \A fn \in {"Add", "Sub", "ScMulCofactor"} :
           After(fn, LAMBDA x, h : fits(h) /\ over(h) = {"FeMul"})
      /\ After("FromBytes", LAMBDA s, h : h = Rejected \/ (fits(h) /\ over(h) = {"FeToBytes"}))
      /\ During("GeDoubleScalarMultVartime", LAMBDA x, s : fits(s.r) /\ over(s.r) \subseteq {"FeMul"})
      /\ During("GeScalarMultBase", LAMBDA a, s : fits(s.h) /\ over(s.h) \subseteq {"FeMul"})

(***************************************************************************)
(* The group of edwards25519.go: additions, encodings and scalar           *)
(* multiplications compute the law of the group at every point and scalar, *)
(* and never hand the field more than it can multiply.                     *)
(***************************************************************************)
GroupExact == GroupLaw /\ Encodings /\ DoubleMultRight /\ BaseMultRight /\ LimbsFit
=============================================================================
