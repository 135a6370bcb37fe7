------------------------------ MODULE Checked -------------------------------
(***************************************************************************)
(* Package math/checked: arithmetic that says whether it overflowed.  An   *)
(* integer type is given by h, half the number of its values: the signed   *)
(* type is -h..h-1, the unsigned one 0..2h-1.  Machine arithmetic wraps.   *)
(***************************************************************************)
EXTENDS Integers, Calls

CONSTANTS Width64, Half64,   \* the 64-bit types: 64 and 2^63 in the code
          Width32, Half32,   \* the 32-bit types: 32 and 2^31
          Signed64, Unsigned64   \* the 64-bit operands that are tried

int(h) == (-h)..(h - 1)
uint(h) == 0..(2 * h - 1)

ASSUME CheckedAssumption ==
  /\ Width64 \in Nat \ {0} /\ Half64 \in Nat \ {0}
  /\ Width32 \in Nat \ {0} /\ Half32 \in Nat \ {0}
  /\ Signed64 \subseteq int(Half64) /\ Unsigned64 \subseteq uint(Half64)
  /\ \A b \in 0..(Width64 - 1) : 2^b \in Nat \ {0} /\ Half64 % 2^b = 0
  /\ \A b \in 0..(Width32 - 1) : 2^b \in Nat \ {0} /\ Half32 % 2^b = 0

MinInt(h) == -h
MaxInt(h) == h - 1
MaxUint(h) == 2 * h - 1

wrap(h, x) == ((x + h) % (2 * h)) - h
uwrap(h, x) == x % (2 * h)

\* Go's / and %: the quotient is rounded toward zero.
magnitude(x) == IF x < 0 THEN -x ELSE x
quo(a, b) == IF (a < 0) = (b < 0) THEN magnitude(a) \div magnitude(b) ELSE -(magnitude(a) \div magnitude(b))
rem(a, b) == a - b * quo(a, b)

\* Go's >> on a signed value: all bits shifted out leave the sign.
shr(w, a, b) == IF b < w THEN a \div 2^b ELSE IF a < 0 THEN -1 ELSE 0

Fail == [v |-> 0, ok |-> FALSE]
Ok(x) == [v |-> x, ok |-> TRUE]

-----------------------------------------------------------------------------
iadd(h, a, b) ==
  IF (b > 0 /\ a > MaxInt(h) - b) \/ (b < 0 /\ a < MinInt(h) - b) THEN Fail
  ELSE Ok(wrap(h, a + b))

isub(h, a, b) ==
  IF (b > 0 /\ a < MinInt(h) + b) \/ (b < 0 /\ a > MaxInt(h) + b) THEN Fail
  ELSE Ok(wrap(h, a - b))

\* Fault: the bound of a negative product is used for two negative operands.
mulOneBound(h, a, b) ==
  IF \/ a > 0 /\ b > 0 /\ a > quo(MaxInt(h), b)
     \/ a > 0 /\ b <= 0 /\ b < quo(MinInt(h), a)
     \/ a <= 0 /\ b > 0 /\ a < quo(MinInt(h), b)
     \/ a < 0 /\ b <= 0 /\ b < quo(MinInt(h), a)
  THEN Fail
  ELSE Ok(wrap(h, a * b))

imul(h, a, b) ==
  IF \/ a > 0 /\ b > 0 /\ a > quo(MaxInt(h), b)
     \/ a > 0 /\ b <= 0 /\ b < quo(MinInt(h), a)
     \/ a <= 0 /\ b > 0 /\ a < quo(MinInt(h), b)
     \/ a < 0 /\ b <= 0 /\ b < quo(MaxInt(h), a)
  THEN Fail
  ELSE Ok(wrap(h, a * b))

idiv(h, a, b) == IF b = 0 \/ (a = MinInt(h) /\ b = -1) THEN Fail ELSE Ok(quo(a, b))
imod(h, a, b) == IF b = 0 \/ (a = MinInt(h) /\ b = -1) THEN Fail ELSE Ok(rem(a, b))
ineg(h, a) == IF a = MinInt(h) THEN Fail ELSE Ok(-a)

ilshift(h, w, a, b) ==
  IF \/ b < 0 \/ b >= w
     \/ a >= 0 /\ a > shr(w, MaxInt(h), b)
     \/ a < 0 /\ a < shr(w, MinInt(h), b)
  THEN Fail
  ELSE Ok(wrap(h, a * 2^b))

uadd(h, a, b) == IF MaxUint(h) - a < b THEN Fail ELSE Ok(uwrap(h, a + b))
usub(h, a, b) == IF a < b THEN Fail ELSE Ok(uwrap(h, a - b))
umul(h, a, b) == IF b > 0 /\ a > MaxUint(h) \div b THEN Fail ELSE Ok(uwrap(h, a * b))
udiv(h, a, b) == IF b = 0 THEN Fail ELSE Ok(a \div b)
umod(h, a, b) == IF b = 0 THEN Fail ELSE Ok(a % b)
ulshift(h, w, a, b) ==
  IF b >= w \/ a > shr(w, MaxUint(h), b) THEN Fail ELSE Ok(uwrap(h, a * 2^b))

-----------------------------------------------------------------------------
AddInt64(a, b) == iadd(Half64, a, b)
SubInt64(a, b) == isub(Half64, a, b)
MulInt64(a, b) == imul(Half64, a, b)
DivInt64(a, b) == idiv(Half64, a, b)
ModInt64(a, b) == imod(Half64, a, b)
NegateInt64(a) == ineg(Half64, a)
LshiftInt64(a, b) == ilshift(Half64, Width64, a, b)
RshiftInt64(a, b) == IF b < 0 THEN Fail ELSE Ok(shr(Width64, a, b))

AddInt32(a, b) == iadd(Half32, a, b)
SubInt32(a, b) == isub(Half32, a, b)
MulInt32(a, b) == imul(Half32, a, b)
DivInt32(a, b) == idiv(Half32, a, b)
ModInt32(a, b) == imod(Half32, a, b)
NegateInt32(a) == ineg(Half32, a)
LshiftInt32(a, b) == ilshift(Half32, Width32, a, b)

AddUint64(a, b) == uadd(Half64, a, b)
SubUint64(a, b) == usub(Half64, a, b)
MulUint64(a, b) == umul(Half64, a, b)
DivUint64(a, b) == udiv(Half64, a, b)
ModUint64(a, b) == umod(Half64, a, b)
LshiftUint64(a, b) == ulshift(Half64, Width64, a, b)

AddUint32(a, b) == uadd(Half32, a, b)
SubUint32(a, b) == usub(Half32, a, b)
MulUint32(a, b) == umul(Half32, a, b)
DivUint32(a, b) == udiv(Half32, a, b)
ModUint32(a, b) == umod(Half32, a, b)
LshiftUint32(a, b) == ulshift(Half32, Width32, a, b)

-----------------------------------------------------------------------------
\* A call of op on type T with operands a and b.
op(name, T, w, a, b, r) == Eval(name, [T |-> T, w |-> w, a |-> a, b |-> b], r)

CheckedNext ==
  \/ Idle /\ \E a, b \in Signed64 :
       LET f(name, r) == op(name, int(Half64), Width64, a, b, r)
       IN  \/ f("+", AddInt64(a, b)) \/ f("-", SubInt64(a, b)) \/ f("*", MulInt64(a, b))
           \/ f("/", DivInt64(a, b)) \/ f("%", ModInt64(a, b)) \/ f("neg", NegateInt64(a))
           \/ f("<<", LshiftInt64(a, b)) \/ f(">>", RshiftInt64(a, b))
  \/ Idle /\ \E a, b \in int(Half32) :
       LET f(name, r) == op(name, int(Half32), Width32, a, b, r)
       IN  \/ f("+", AddInt32(a, b)) \/ f("-", SubInt32(a, b)) \/ f("*", MulInt32(a, b))
           \/ f("/", DivInt32(a, b)) \/ f("%", ModInt32(a, b)) \/ f("neg", NegateInt32(a))
           \/ f("<<", LshiftInt32(a, b))
  \/ Idle /\ \E a, b \in Unsigned64 :
       LET f(name, r) == op(name, uint(Half64), Width64, a, b, r)
       IN  \/ f("+", AddUint64(a, b)) \/ f("-", SubUint64(a, b)) \/ f("*", MulUint64(a, b))
           \/ f("/", DivUint64(a, b)) \/ f("%", ModUint64(a, b)) \/ f("<<", LshiftUint64(a, b))
  \/ Idle /\ \E a, b \in uint(Half32) :
       LET f(name, r) == op(name, uint(Half32), Width32, a, b, r)
       IN  \/ f("+", AddUint32(a, b)) \/ f("-", SubUint32(a, b)) \/ f("*", MulUint32(a, b))
           \/ f("/", DivUint32(a, b)) \/ f("%", ModUint32(a, b)) \/ f("<<", LshiftUint32(a, b))

-----------------------------------------------------------------------------
\* q is the quotient a / b rounded toward zero: what is left has the sign of
\* a and is smaller than b.
Quotient(a, b, q) ==
  /\ b # 0
  /\ magnitude(a - b * q) < magnitude(b)
  /\ a - b * q = 0 \/ (a - b * q < 0) = (a < 0)

\* v is what the operation means, over the integers.
Exact(x, name, v) ==
  CASE name = "+" -> v = x.a + x.b
    [] name = "-" -> v = x.a - x.b
    [] name = "*" -> v = x.a * x.b
    [] name = "neg" -> v = -x.a
    [] name = "/" -> Quotient(x.a, x.b, v)
    [] name = "%" -> \E q \in x.T : Quotient(x.a, x.b, q) /\ v = x.a - x.b * q
    [] name = "<<" -> x.b \in 0..(x.w - 1) /\ v = x.a * 2^x.b
    [] name = ">>" -> x.b >= 0 /\ v = shr(x.w, x.a, x.b)

Operators == {"+", "-", "*", "/", "%", "neg", "<<", ">>"}

(***************************************************************************)
(* An operation of package checked succeeds exactly when what it means is  *)
(* a value of its type, and then returns that value: no overflow passes    *)
(* and no result that fits is refused, at the minimum, at -1 and at 0 too. *)
(***************************************************************************)
CheckedExact ==
  call.fn \in Operators =>
    IF call.st.ok THEN call.st.v \in call.args.T /\ Exact(call.args, call.fn, call.st.v)
    ELSE \A v \in call.args.T : ~Exact(call.args, call.fn, v)
=============================================================================
