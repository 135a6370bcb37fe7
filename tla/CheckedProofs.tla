--------------------------- MODULE CheckedProofs ----------------------------
(***************************************************************************)
(* Package checked is exact for integers of every width.                   *)
(***************************************************************************)
EXTENDS Checked, TLAPS

\* A result r of operation name on type T is right.
Right(name, T, w, a, b, r) ==
  LET x == [T |-> T, w |-> w, a |-> a, b |-> b]
  IN  /\ r.ok \in BOOLEAN
      /\ r.ok <=> \E v \in T : Exact(x, name, v)
      /\ r.ok => r.v \in T /\ Exact(x, name, r.v)

-----------------------------------------------------------------------------
(***************************************************************************)
(* Wrapping, quotients and bounds.                                         *)
(***************************************************************************)
LEMMA SmallMod ==
  ASSUME NEW m \in Nat \ {0}, NEW n \in 0..(m - 1)
  PROVE  n % m = n
OBVIOUS

\* Wrapping leaves what fits alone.
LEMMA Wraps ==
  ASSUME NEW h \in Nat \ {0}
  PROVE  /\ \A x \in int(h) : wrap(h, x) = x
         /\ \A x \in uint(h) : uwrap(h, x) = x
<1>1. ASSUME NEW x \in int(h) PROVE wrap(h, x) = x
  <2>1. x + h \in 0..(2 * h - 1) /\ 2 * h \in Nat \ {0}
    BY DEF int
  <2>2. (x + h) % (2 * h) = x + h
    BY Zenon, <2>1, SmallMod
  <2> QED
    BY <2>2 DEF wrap, int
<1>2. ASSUME NEW x \in uint(h) PROVE uwrap(h, x) = x
  <2>1. x \in 0..(2 * h - 1) /\ 2 * h \in Nat \ {0}
    BY DEF uint
  <2> QED
    BY Zenon, <2>1, SmallMod DEF uwrap
<1> QED
  BY Zenon, <1>1, <1>2

\* Division with remainder by a positive number.
LEMMA DivMod ==
  ASSUME NEW m \in Int, NEW d \in Nat \ {0}
  PROVE  /\ m \div d \in Int /\ m % d \in 0..(d - 1)
         /\ m = d * (m \div d) + (m % d)
OBVIOUS

\* Multiplying by a natural number keeps the order.
LEMMA Mono ==
  ASSUME NEW x \in Int, NEW y \in Int, NEW z \in Nat, x <= y
  PROVE  x * z <= y * z
OBVIOUS

\* The test by division for a product above a bound.
LEMMA AboveQuotient ==
  ASSUME NEW m \in Int, NEW d \in Nat \ {0}, NEW a \in Int
  PROVE  a > m \div d <=> a * d > m
<1> DEFINE q == m \div d
<1>1. q \in Int /\ m % d \in 0..(d - 1) /\ m = d * q + (m % d)
  BY Zenon, DivMod
<1> HIDE DEF q
<1>2. CASE a > q
  <2>1. (q + 1) * d <= a * d
    BY <1>1, <1>2, Mono
  <2>2. (q + 1) * d = d * q + d
    BY <1>1
  <2> QED
    BY <1>1, <1>2, <2>1, <2>2 DEF q
<1>3. CASE ~(a > q)
  <2>1. a * d <= q * d
    BY <1>1, <1>3, Mono
  <2> QED
    BY <1>1, <1>3, <2>1 DEF q
<1> QED
  BY Zenon, <1>2, <1>3

\* Go's division is the quotient rounded to zero.
LEMMA QuoRight ==
  ASSUME NEW a \in Int, NEW b \in Int, b # 0
  PROVE  quo(a, b) \in Int /\ Quotient(a, b, quo(a, b))
<1> DEFINE A == magnitude(a)
           B == magnitude(b)
           q == A \div B
           r == A % B
<1>1. A \in Nat /\ A \in Int /\ B \in Nat \ {0}
  BY DEF magnitude
<1>2. q \in Int /\ r \in 0..(B - 1) /\ A = B * q + r
  BY <1>1, DivMod, Zenon
<1>3. quo(a, b) = IF (a < 0) = (b < 0) THEN q ELSE -q
  BY Zenon DEF quo
<1>4. a - b * quo(a, b) = IF a < 0 THEN -r ELSE r
  <2> HIDE DEF q, r
  <2>1. CASE a < 0 /\ b < 0
    BY <1>2, <1>3, <2>1 DEF magnitude
  <2>2. CASE a < 0 /\ b > 0
    BY <1>2, <1>3, <2>2 DEF magnitude
  <2>3. CASE a >= 0 /\ b < 0
    BY <1>2, <1>3, <2>3 DEF magnitude
  <2>4. CASE a >= 0 /\ b > 0
    BY <1>2, <1>3, <2>4 DEF magnitude
  <2> QED
    BY <2>1, <2>2, <2>3, <2>4
<1> HIDE DEF q, r
<1> QED
  BY <1>1, <1>2, <1>3, <1>4 DEF Quotient, magnitude

\* The quotient is a value of the type unless it is that of the minimum by -1.
LEMMA QuoFits ==
  ASSUME NEW h \in Nat \ {0}, NEW a \in int(h), NEW b \in int(h), b # 0,
         ~(a = -h /\ b = -1)
  PROVE  quo(a, b) \in int(h)
<1> DEFINE A == magnitude(a)
           B == magnitude(b)
           q == A \div B
           r == A % B
<1>1. A \in Nat /\ A \in Int /\ B \in Nat \ {0} /\ A <= h
  BY DEF magnitude, int
<1>2. q \in Int /\ r \in 0..(B - 1) /\ A = B * q + r
  BY <1>1, DivMod, Zenon
<1>3. quo(a, b) = IF (a < 0) = (b < 0) THEN q ELSE -q
  BY Zenon DEF quo
<1> HIDE DEF q, r
<1>4. q >= 0
  <2>1. CASE q < 0
    <3>1. q * B <= (-1) * B
      BY <1>1, <1>2, <2>1, Mono
    <3> QED
      BY <1>1, <1>2, <3>1
  <2> QED
    BY <1>2, <2>1
<1>5. q <= A
  <2>1. 1 * q <= B * q
    BY <1>1, <1>2, <1>4, Mono
  <2> QED
    BY <1>1, <1>2, <2>1
<1>6. CASE A < h
  BY <1>1, <1>2, <1>3, <1>4, <1>5, <1>6 DEF int
<1>7. CASE B = 1
  <2>1. q = A
    BY <1>1, <1>2, <1>7
  <2> QED
    BY <1>3, <1>7, <2>1 DEF int, magnitude
<1>8. CASE B >= 2
  <2>1. 2 * q <= B * q
    BY <1>1, <1>2, <1>4, <1>8, Mono
  <2>2. q < h
    BY <1>1, <1>2, <1>4, <2>1
  <2> QED
    BY <1>2, <1>3, <1>4, <2>2 DEF int
<1> QED
  BY <1>1, <1>7, <1>8

\* Only one number can be the quotient of the minimum by -1.
LEMMA MinByMinusOne ==
  ASSUME NEW h \in Nat \ {0}, NEW q \in int(h)
  PROVE  ~Quotient(-h, -1, q)
BY DEF Quotient, magnitude, int

-----------------------------------------------------------------------------
(***************************************************************************)
(* The operations.                                                         *)
(***************************************************************************)
LEMMA AddRight ==
  ASSUME NEW h \in Nat \ {0}, NEW w, NEW a \in int(h), NEW b \in int(h)
  PROVE  Right("+", int(h), w, a, b, iadd(h, a, b))
BY Wraps DEF Right, Exact, iadd, int, MaxInt, MinInt, Ok, Fail

\* Subtraction.
LEMMA SubRight ==
  ASSUME NEW h \in Nat \ {0}, NEW w, NEW a \in int(h), NEW b \in int(h)
  PROVE  Right("-", int(h), w, a, b, isub(h, a, b))
BY Wraps DEF Right, Exact, isub, int, MaxInt, MinInt, Ok, Fail

\* Negation.
LEMMA NegateRight ==
  ASSUME NEW h \in Nat \ {0}, NEW w, NEW a \in int(h), NEW b
  PROVE  Right("neg", int(h), w, a, b, ineg(h, a))
BY DEF Right, Exact, ineg, int, MinInt, Ok, Fail

\* Division.
LEMMA DivRight ==
  ASSUME NEW h \in Nat \ {0}, NEW w, NEW a \in int(h), NEW b \in int(h)
  PROVE  Right("/", int(h), w, a, b, idiv(h, a, b))
<1>1. CASE b = 0
  BY Zenon, <1>1 DEF Right, Exact, idiv, Quotient, Fail
<1>2. CASE a = -h /\ b = -1
  BY Zenon, <1>2, MinByMinusOne DEF Right, Exact, idiv, MinInt, Fail
<1>3. CASE b # 0 /\ ~(a = -h /\ b = -1)
  <2>1. quo(a, b) \in int(h)
    BY Zenon, <1>3, QuoFits
  <2>2. Quotient(a, b, quo(a, b))
    BY <1>3, QuoRight DEF int
  <2>3. idiv(h, a, b) = Ok(quo(a, b))
    BY Zenon, <1>3 DEF idiv, MinInt
  <2> QED
    BY <2>1, <2>2, <2>3 DEF Right, Exact, Ok
<1> QED
  BY Zenon, <1>1, <1>2, <1>3

\* Remainder.
LEMMA ModRight ==
  ASSUME NEW h \in Nat \ {0}, NEW w, NEW a \in int(h), NEW b \in int(h)
  PROVE  Right("%", int(h), w, a, b, imod(h, a, b))
<1>1. CASE b = 0
  BY Zenon, <1>1 DEF Right, Exact, imod, Quotient, Fail
<1>2. CASE a = -h /\ b = -1
  BY Zenon, <1>2, MinByMinusOne DEF Right, Exact, imod, MinInt, Fail
<1>3. CASE b # 0 /\ ~(a = -h /\ b = -1)
  <2>1. quo(a, b) \in int(h)
    BY Zenon, <1>3, QuoFits
  <2>2. Quotient(a, b, quo(a, b))
    BY <1>3, QuoRight DEF int
  <2>3. imod(h, a, b) = Ok(rem(a, b)) /\ rem(a, b) = a - b * quo(a, b)
    BY Zenon, <1>3 DEF imod, MinInt, rem
  <2>4. rem(a, b) \in int(h)
    <3> DEFINE r == a - b * quo(a, b)
    <3>1. /\ r \in Int
          /\ magnitude(r) < magnitude(b)
    BY <2>1, <2>2 DEF Quotient, int
    <3> HIDE DEF r
    <3>2. r \in int(h)
      BY <3>1 DEF magnitude, int
    <3> QED
      BY Zenon, <2>3, <3>2 DEF r
  <2> QED
    BY <2>1, <2>2, <2>3, <2>4 DEF Right, Exact, Ok
<1> QED
  BY Zenon, <1>1, <1>2, <1>3

\* Multiplication.
LEMMA MulRight ==
  ASSUME NEW h \in Nat \ {0}, NEW w, NEW a \in int(h), NEW b \in int(h)
  PROVE  Right("*", int(h), w, a, b, imul(h, a, b))
<1> DEFINE Over == \/ a > 0 /\ b > 0 /\ a > quo(MaxInt(h), b)
                   \/ a > 0 /\ b <= 0 /\ b < quo(MinInt(h), a)
                   \/ a <= 0 /\ b > 0 /\ a < quo(MinInt(h), b)
                   \/ a < 0 /\ b <= 0 /\ b < quo(MaxInt(h), a)
<1>1. a \in Int /\ b \in Int /\ a * b \in Int /\ h - 1 \in Nat
  BY DEF int
<1>2. Over <=> a * b \notin int(h)
  <2>1. CASE a > 0 /\ b > 0
    <3>1. quo(MaxInt(h), b) = (h - 1) \div b
      BY <1>1, <2>1 DEF quo, magnitude, MaxInt
    <3>2. a > (h - 1) \div b <=> a * b > h - 1
      BY <1>1, <2>1, AboveQuotient
    <3>3. a * b > 0
      BY <1>1, <2>1
    <3> QED
      BY <1>1, <2>1, <3>1, <3>2, <3>3 DEF int
  <2>2. CASE a > 0 /\ b <= 0
    <3>1. quo(MinInt(h), a) = -(h \div a)
      BY <1>1, <2>2 DEF quo, magnitude, MinInt
    <3>2. -b > h \div a <=> (-b) * a > h
      BY <1>1, <2>2, AboveQuotient
    <3>3. h \div a \in Int
      BY <1>1, <2>2, DivMod
    <3>4. a * b <= 0 /\ (-b) * a = -(a * b)
      BY <1>1, <2>2
    <3> QED
      BY <1>1, <2>2, <3>1, <3>2, <3>3, <3>4 DEF int
  <2>3. CASE a <= 0 /\ b > 0
    <3>1. quo(MinInt(h), b) = -(h \div b)
      BY <1>1, <2>3 DEF quo, magnitude, MinInt
    <3>2. -a > h \div b <=> (-a) * b > h
      BY <1>1, <2>3, AboveQuotient
    <3>3. h \div b \in Int
      BY <1>1, <2>3, DivMod
    <3>4. a * b <= 0 /\ (-a) * b = -(a * b)
      BY <1>1, <2>3
    <3> QED
      BY <1>1, <2>3, <3>1, <3>2, <3>3, <3>4 DEF int
  <2>4. CASE a < 0 /\ b <= 0
    <3>1. quo(MaxInt(h), a) = -((h - 1) \div (-a))
      BY <1>1, <2>4 DEF quo, magnitude, MaxInt
    <3>2. -b > (h - 1) \div (-a) <=> (-b) * (-a) > h - 1
      BY <1>1, <2>4, AboveQuotient
    <3>3. (h - 1) \div (-a) \in Int
      BY <1>1, <2>4, DivMod
    <3>4. a * b >= 0 /\ (-b) * (-a) = a * b
      BY <1>1, <2>4
    <3> QED
      BY <1>1, <2>4, <3>1, <3>2, <3>3, <3>4 DEF int
  <2>5. CASE a = 0 /\ b <= 0
    BY <2>5 DEF int
  <2> QED
    BY <1>1, <2>1, <2>2, <2>3, <2>4, <2>5
<1>3. imul(h, a, b) = IF Over THEN Fail ELSE Ok(wrap(h, a * b))
  BY Zenon DEF imul
<1> HIDE DEF Over
<1>4. Over \in BOOLEAN
  BY Zenon DEF Over
<1> QED
  BY <1>1, <1>2, <1>3, <1>4, Wraps DEF Right, Exact, Ok, Fail

\* Shift counts up to the width give powers that divide half the range.
Powers(h, w) == w \in Nat /\ \A b \in 0..(w - 1) : 2^b \in Nat \ {0} /\ h % 2^b = 0

\* What an exact shift is.
LEMMA ExactShift ==
  ASSUME NEW T, NEW w, NEW a, NEW b, NEW v
  PROVE  LET x == [T |-> T, w |-> w, a |-> a, b |-> b]
         IN  /\ Exact(x, "<<", v) <=> b \in 0..(w - 1) /\ v = a * 2^b
             /\ Exact(x, ">>", v) <=> b >= 0 /\ v = shr(w, a, b)
BY Zenon DEF Exact

\* Dividing the least value by a power of two.
LEMMA NegDiv ==
  ASSUME NEW h \in Nat, NEW p \in Nat \ {0}, h % p = 0
  PROVE  (-h) \div p = -(h \div p)
<1> DEFINE k == h \div p
           d == (-h) \div p
           e == (-h) % p
<1>1. k \in Int /\ h = p * k
  BY DivMod
<1>2. d \in Int /\ e \in 0..(p - 1) /\ -h = p * d + e
  BY DivMod
<1> HIDE DEF k, d, e
<1>3. (d + k) * p = -e
  BY <1>1, <1>2
<1>4. CASE d + k >= 1
  <2>1. 1 * p <= (d + k) * p
    BY <1>1, <1>2, <1>4, Mono
  <2> QED
    BY <1>2, <1>3, <2>1
<1>5. CASE d + k <= -1
  <2>1. (d + k) * p <= (-1) * p
    BY <1>1, <1>2, <1>5, Mono
  <2> QED
    BY <1>2, <1>3, <2>1
<1>6. d = -k
  BY <1>1, <1>2, <1>4, <1>5
<1> QED
  BY Zenon, <1>6 DEF d, k

\* Left shift.
LEMMA LshiftRight ==
  ASSUME NEW h \in Nat \ {0}, NEW w, Powers(h, w), NEW a \in int(h), NEW b \in int(h)
  PROVE  Right("<<", int(h), w, a, b, ilshift(h, w, a, b))
<1>1. a \in Int /\ b \in Int /\ h \in Nat /\ h - 1 \in Nat /\ w \in Nat
  BY DEF int, Powers
<1>2. CASE b < 0 \/ b >= w
  <2>1. ilshift(h, w, a, b) = Fail
    BY <1>2, Zenon DEF ilshift
  <2>2. b \notin 0..(w - 1)
    BY <1>1, <1>2
  <2> QED
    BY <2>1, <2>2, ExactShift DEF Right, Fail
<1>3. CASE b \in 0..(w - 1)
  <2> DEFINE p == 2^b
             Over == \/ a >= 0 /\ a > shr(w, MaxInt(h), b)
                     \/ a < 0 /\ a < shr(w, MinInt(h), b)
  <2>1. p \in Nat \ {0} /\ h % p = 0
    BY Zenon, <1>3 DEF Powers
  <2>2. /\ shr(w, MaxInt(h), b) = (h - 1) \div p
        /\ shr(w, MinInt(h), b) = (-h) \div p
    BY <1>1, <1>3 DEF shr, MaxInt, MinInt
  <2>3. ilshift(h, w, a, b) = IF Over THEN Fail ELSE Ok(wrap(h, a * p))
    BY <1>1, <1>3 DEF ilshift
  <2> HIDE DEF p
  <2>4. Over <=> a * p \notin int(h)
    <3>1. CASE a >= 0
      <4>1. a > (h - 1) \div p <=> a * p > h - 1
        BY <1>1, <2>1, AboveQuotient
      <4>2. 0 * p <= a * p
        BY <1>1, <2>1, <3>1, Mono
      <4> QED
        BY <1>1, <2>1, <2>2, <3>1, <4>1, <4>2 DEF int
    <3>2. CASE a < 0
      <4> h \in Int /\ -a \in Int
        BY <1>1
      <4>1. (-h) \div p = -(h \div p) /\ h \div p \in Int
        BY <1>1, <2>1, NegDiv, DivMod, Zenon
      <4>2. -a > h \div p <=> (-a) * p > h
        BY <1>1, <2>1, AboveQuotient, Zenon
      <4>3. a * p <= 0 * p /\ (-a) * p = -(a * p)
        BY <1>1, <2>1, <3>2, Mono
      <4> QED
        BY <1>1, <2>1, <2>2, <3>2, <4>1, <4>2, <4>3 DEF int
    <3> QED
      BY <1>1, <3>1, <3>2
  <2> HIDE DEF Over
  <2>5. Over \in BOOLEAN /\ b \in 0..(w - 1)
    BY Zenon, <1>3 DEF Over
  <2> QED
    BY <1>1, <2>1, <2>3, <2>4, <2>5, Wraps DEF Right, Exact, Ok, Fail, p
<1> QED
  BY <1>1, <1>2, <1>3

\* Right shift.
LEMMA RshiftRight ==
  ASSUME NEW h \in Nat \ {0}, NEW w, Powers(h, w), NEW a \in int(h), NEW b \in int(h)
  PROVE  Right(">>", int(h), w, a, b, IF b < 0 THEN Fail ELSE Ok(shr(w, a, b)))
<1>1. a \in Int /\ b \in Int /\ w \in Nat
  BY DEF int, Powers
<1>2. CASE b < 0
  BY <1>1, <1>2, ExactShift DEF Right, Fail
<1>3. CASE b >= 0
  <2>1. shr(w, a, b) \in int(h)
    <3>1. CASE b < w
      <4> DEFINE p == 2^b
                 q == a \div p
                 e == a % p
      <4>1. p \in Nat \ {0} /\ shr(w, a, b) = q
        BY <1>1, <1>3, <3>1 DEF Powers, shr
      <4> HIDE DEF p
      <4>2. q \in Int /\ e \in 0..(p - 1) /\ a = p * q + e
        BY Zenon, <1>1, <4>1, DivMod
      <4> HIDE DEF q, e
      <4>3. q <= h - 1
        <5>1. CASE q >= h
          <6>1. 1 * q <= p * q
            BY <4>1, <4>2, <5>1, Mono
          <6> QED
            BY <4>1, <4>2, <5>1, <6>1 DEF int
        <5> QED
          BY <4>2, <5>1
      <4>4. q >= -h
        <5>1. CASE q < -h
          <6>1. (q + 1) * p <= (-h) * p /\ h * 1 <= h * p
            BY <4>1, <4>2, <5>1, Mono
          <6> QED
            BY <4>1, <4>2, <5>1, <6>1 DEF int
        <5> QED
          BY <4>2, <5>1
      <4> QED
        BY <4>1, <4>2, <4>3, <4>4 DEF int
    <3>2. CASE b >= w
      BY <1>1, <3>2 DEF shr, int
    <3> QED
      BY <1>1, <3>1, <3>2
  <2> QED
    <3> DEFINE r == Ok(shr(w, a, b))
    <3>1. r.ok = TRUE /\ r.v = shr(w, a, b) /\ ~(b < 0)
      BY <1>1, <1>3 DEF Ok
    <3>2. (IF b < 0 THEN Fail ELSE Ok(shr(w, a, b))) = r
      BY Zenon, <3>1
    <3> HIDE DEF r
    <3>3. Right(">>", int(h), w, a, b, r)
      BY <1>1, <1>3, <2>1, <3>1, ExactShift, ZenonT(60) DEF Right
    <3> QED
      BY Zenon, <3>2, <3>3
<1> QED
  BY <1>1, <1>2, <1>3

\* Unsigned addition.
LEMMA UaddRight ==
  ASSUME NEW h \in Nat \ {0}, NEW w, NEW a \in uint(h), NEW b \in uint(h)
  PROVE  Right("+", uint(h), w, a, b, uadd(h, a, b))
BY Wraps DEF Right, Exact, uadd, uint, MaxUint, Ok, Fail

\* Unsigned subtraction.
LEMMA UsubRight ==
  ASSUME NEW h \in Nat \ {0}, NEW w, NEW a \in uint(h), NEW b \in uint(h)
  PROVE  Right("-", uint(h), w, a, b, usub(h, a, b))
BY Wraps DEF Right, Exact, usub, uint, Ok, Fail

\* Unsigned multiplication.
LEMMA UmulRight ==
  ASSUME NEW h \in Nat \ {0}, NEW w, NEW a \in uint(h), NEW b \in uint(h)
  PROVE  Right("*", uint(h), w, a, b, umul(h, a, b))
<1> DEFINE Over == b > 0 /\ a > MaxUint(h) \div b
<1>1. a \in Nat /\ b \in Nat /\ a * b \in Int /\ MaxUint(h) = 2 * h - 1
  BY DEF uint, MaxUint
<1>2. Over <=> a * b \notin uint(h)
  <2>1. CASE b > 0
    <3>1. a \in Int /\ b \in Nat \ {0} /\ MaxUint(h) \in Int
      BY <1>1, <2>1
    <3>2. a > MaxUint(h) \div b <=> a * b > MaxUint(h)
      BY <3>1, AboveQuotient, Zenon
    <3>3. 0 * b <= a * b
      BY <1>1, Mono
    <3> QED
      BY <1>1, <2>1, <3>2, <3>3 DEF uint
  <2>2. CASE b = 0
    BY <1>1, <2>2 DEF uint
  <2> QED
    BY <1>1, <2>1, <2>2
<1>3. umul(h, a, b) = IF Over THEN Fail ELSE Ok(uwrap(h, a * b))
  BY Zenon DEF umul
<1>4. Over \in BOOLEAN
  BY Zenon
<1> HIDE DEF Over
<1> QED
  BY <1>1, <1>2, <1>3, <1>4, Wraps DEF Right, Exact, Ok, Fail

\* Division of values of an unsigned type stays in it.
LEMMA UquoFits ==
  ASSUME NEW h \in Nat \ {0}, NEW a \in uint(h), NEW b \in uint(h), b # 0
  PROVE  /\ a \div b \in uint(h) /\ a % b \in uint(h)
         /\ Quotient(a, b, a \div b) /\ a % b = a - b * (a \div b)
<1> DEFINE q == a \div b
           r == a % b
<1>1. a \in Int /\ a >= 0 /\ b \in Nat \ {0} /\ a < 2 * h /\ b < 2 * h
  BY DEF uint
<1>2. q \in Int /\ r \in 0..(b - 1) /\ a = b * q + r
  BY <1>1, DivMod, Zenon
<1> HIDE DEF q, r
<1>3. q >= 0
  <2>1. CASE q < 0
    <3>1. q * b <= (-1) * b
      BY <1>1, <1>2, <2>1, Mono
    <3> QED
      BY <1>1, <1>2, <3>1
  <2> QED
    BY <1>2, <2>1
<1>4. q <= a
  <2>1. 1 * q <= b * q
    BY <1>1, <1>2, <1>3, Mono
  <2> QED
    BY <1>1, <1>2, <2>1
<1>5. q \in uint(h) /\ r \in uint(h) /\ r = a - b * q
  BY <1>1, <1>2, <1>3, <1>4 DEF uint
<1>6. Quotient(a, b, q)
  BY <1>1, <1>2, <1>5 DEF Quotient, magnitude
<1> QED
  BY Zenon, <1>5, <1>6 DEF q, r

\* Unsigned division and remainder.
LEMMA UdivRight ==
  ASSUME NEW h \in Nat \ {0}, NEW w, NEW a \in uint(h), NEW b \in uint(h)
  PROVE  /\ Right("/", uint(h), w, a, b, udiv(h, a, b))
         /\ Right("%", uint(h), w, a, b, umod(h, a, b))
<1>1. CASE b = 0
  BY Zenon, <1>1 DEF Right, Exact, udiv, umod, Quotient, Fail
<1>2. CASE b # 0
  BY <1>2, UquoFits DEF Right, Exact, udiv, umod, Ok
<1> QED
  BY Zenon, <1>1, <1>2

\* Unsigned left shift.
LEMMA UlshiftRight ==
  ASSUME NEW h \in Nat \ {0}, NEW w, Powers(h, w), NEW a \in uint(h), NEW b \in uint(h)
  PROVE  Right("<<", uint(h), w, a, b, ulshift(h, w, a, b))
<1>1. a \in Int /\ a >= 0 /\ b \in Nat /\ w \in Nat /\ MaxUint(h) = 2 * h - 1
  BY DEF uint, MaxUint, Powers
<1>2. CASE b >= w
  <2>1. ulshift(h, w, a, b) = Fail
    BY <1>2, Zenon DEF ulshift
  <2>2. b \notin 0..(w - 1)
    BY <1>1, <1>2
  <2> QED
    BY <2>1, <2>2, ExactShift DEF Right, Fail
<1>3. CASE b < w
  <2> DEFINE p == 2^b
             Over == a > shr(w, MaxUint(h), b)
  <2>1. p \in Nat \ {0} /\ b \in 0..(w - 1)
    BY <1>1, <1>3 DEF Powers
  <2>2. shr(w, MaxUint(h), b) = MaxUint(h) \div p
    BY Zenon, <1>3 DEF shr
  <2>3. ulshift(h, w, a, b) = IF Over THEN Fail ELSE Ok(uwrap(h, a * p))
    BY <1>1, <1>3 DEF ulshift
  <2> HIDE DEF p
  <2>4. Over <=> a * p \notin uint(h)
    <3>1. MaxUint(h) \in Int
      BY <1>1
    <3>2. a > MaxUint(h) \div p <=> a * p > MaxUint(h)
      BY <1>1, <2>1, <3>1, AboveQuotient, Zenon
    <3>3. 0 * p <= a * p
      BY <1>1, <2>1, Mono
    <3> QED
      BY <1>1, <2>1, <2>2, <3>2, <3>3 DEF uint
  <2>5. Over \in BOOLEAN
    OBVIOUS
  <2> HIDE DEF Over
  <2>6. (a * p \in uint(h)) => uwrap(h, a * p) = a * p
    BY Zenon, Wraps
  <2> QED
    BY <2>1, <2>3, <2>4, <2>5, <2>6 DEF Right, Exact, Ok, Fail, p
<1> QED
  BY <1>1, <1>2, <1>3

-----------------------------------------------------------------------------
\* A caller of package checked alone.
CheckedSpec == CallsInit /\ [][CheckedNext \/ Return]_call

\* A call that returns a right result makes CheckedExact true.
LEMMA OpExact ==
  ASSUME NEW name, NEW T, NEW w, NEW a, NEW b, NEW r,
         Right(name, T, w, a, b, r), op(name, T, w, a, b, r)
  PROVE  CheckedExact'
BY Zenon DEF Right, op, Eval, Begin, CheckedExact

\* Every step preserves CheckedExact.
LEMMA CheckedStep == [CheckedNext \/ Return]_call /\ CheckedExact => CheckedExact'
<1> SUFFICES ASSUME [CheckedNext \/ Return]_call, CheckedExact PROVE CheckedExact'
  BY Zenon
<1>1. CASE UNCHANGED call
  BY Zenon, <1>1 DEF CheckedExact
<1>2. CASE Return
  BY Zenon, <1>2 DEF Return, NoCall, CheckedExact, Operators
<1>3. /\ Half64 \in Nat \ {0} /\ Half32 \in Nat \ {0}
      /\ Powers(Half64, Width64) /\ Powers(Half32, Width32)
      /\ \A x \in Signed64 : x \in int(Half64)
      /\ \A x \in Unsigned64 : x \in uint(Half64)
  BY Zenon, CheckedAssumption DEF Powers
<1>4. ASSUME NEW h \in Nat \ {0}, NEW w, Powers(h, w),
             NEW a \in int(h), NEW b \in int(h), NEW name, NEW r,
             op(name, int(h), w, a, b, r),
             \/ name = "+" /\ r = iadd(h, a, b)
             \/ name = "-" /\ r = isub(h, a, b)
             \/ name = "*" /\ r = imul(h, a, b)
             \/ name = "/" /\ r = idiv(h, a, b)
             \/ name = "%" /\ r = imod(h, a, b)
             \/ name = "neg" /\ r = ineg(h, a)
             \/ name = "<<" /\ r = ilshift(h, w, a, b)
             \/ name = ">>" /\ r = IF b < 0 THEN Fail ELSE Ok(shr(w, a, b))
      PROVE  CheckedExact'
  <2>1. Right(name, int(h), w, a, b, r)
    BY Zenon, <1>4, AddRight, SubRight, MulRight, DivRight, ModRight, NegateRight, LshiftRight,
       RshiftRight, Zenon
  <2> QED
    BY Zenon, <1>4, <2>1, OpExact
<1>5. ASSUME NEW h \in Nat \ {0}, NEW w, Powers(h, w),
             NEW a \in uint(h), NEW b \in uint(h), NEW name, NEW r,
             op(name, uint(h), w, a, b, r),
             \/ name = "+" /\ r = uadd(h, a, b)
             \/ name = "-" /\ r = usub(h, a, b)
             \/ name = "*" /\ r = umul(h, a, b)
             \/ name = "/" /\ r = udiv(h, a, b)
             \/ name = "%" /\ r = umod(h, a, b)
             \/ name = "<<" /\ r = ulshift(h, w, a, b)
      PROVE  CheckedExact'
  <2>1. Right(name, uint(h), w, a, b, r)
    BY <1>5, UaddRight, UsubRight, UmulRight, UdivRight, UlshiftRight, Zenon
  <2> QED
    BY Zenon, <1>5, <2>1, OpExact
<1> DEFINE I64 == \E a, b \in Signed64 :
             LET f(name, r) == op(name, int(Half64), Width64, a, b, r)
             IN  \/ f("+", AddInt64(a, b)) \/ f("-", SubInt64(a, b)) \/ f("*", MulInt64(a, b))
                 \/ f("/", DivInt64(a, b)) \/ f("%", ModInt64(a, b)) \/ f("neg", NegateInt64(a))
                 \/ f("<<", LshiftInt64(a, b)) \/ f(">>", RshiftInt64(a, b))
           I32 == \E a, b \in int(Half32) :
             LET f(name, r) == op(name, int(Half32), Width32, a, b, r)
             IN  \/ f("+", AddInt32(a, b)) \/ f("-", SubInt32(a, b)) \/ f("*", MulInt32(a, b))
                 \/ f("/", DivInt32(a, b)) \/ f("%", ModInt32(a, b)) \/ f("neg", NegateInt32(a))
                 \/ f("<<", LshiftInt32(a, b))
           U64 == \E a, b \in Unsigned64 :
             LET f(name, r) == op(name, uint(Half64), Width64, a, b, r)
             IN  \/ f("+", AddUint64(a, b)) \/ f("-", SubUint64(a, b)) \/ f("*", MulUint64(a, b))
                 \/ f("/", DivUint64(a, b)) \/ f("%", ModUint64(a, b)) \/ f("<<", LshiftUint64(a, b))
           U32 == \E a, b \in uint(Half32) :
             LET f(name, r) == op(name, uint(Half32), Width32, a, b, r)
             IN  \/ f("+", AddUint32(a, b)) \/ f("-", SubUint32(a, b)) \/ f("*", MulUint32(a, b))
                 \/ f("/", DivUint32(a, b)) \/ f("%", ModUint32(a, b)) \/ f("<<", LshiftUint32(a, b))
<1>6. ASSUME I64 PROVE CheckedExact'
  BY <1>3, <1>4, <1>6, ZenonT(60)
  DEF AddInt64, SubInt64, MulInt64, DivInt64, ModInt64, NegateInt64, LshiftInt64, RshiftInt64
<1>7. ASSUME I32 PROVE CheckedExact'
  BY <1>3, <1>4, <1>7, Zenon
  DEF AddInt32, SubInt32, MulInt32, DivInt32, ModInt32, NegateInt32, LshiftInt32
<1>8. ASSUME U64 PROVE CheckedExact'
  BY <1>3, <1>5, <1>8, Zenon
  DEF AddUint64, SubUint64, MulUint64, DivUint64, ModUint64, LshiftUint64
<1>9. ASSUME U32 PROVE CheckedExact'
  BY <1>3, <1>5, <1>9, Zenon
  DEF AddUint32, SubUint32, MulUint32, DivUint32, ModUint32, LshiftUint32
<1>10. CheckedNext => I64 \/ I32 \/ U64 \/ U32
  BY Zenon DEF CheckedNext
<1> HIDE DEF I64, I32, U64, U32
<1> QED
  BY Zenon, <1>1, <1>2, <1>6, <1>7, <1>8, <1>9, <1>10

\* For integers of any width and all operands: every operation of package checked succeeds
\* exactly when the result fits its type, and then returns it.
THEOREM CheckedIsExact == CheckedSpec => []CheckedExact
<1>1. CallsInit => CheckedExact
  BY DEF CallsInit, NoCall, CheckedExact, Operators
<1> QED
  BY <1>1, CheckedStep, PTL DEF CheckedSpec
=============================================================================
