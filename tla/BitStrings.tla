----------------------------- MODULE BitStrings -----------------------------
(***************************************************************************)
(* A string of bytes is the set of the positions of its 1 bits, bit 8i + j *)
(* being bit j of byte i: or is union, xor is symmetric difference, and a  *)
(* number too large for TLC's integers can still be split and compared.    *)
(***************************************************************************)
EXTENDS Integers

\* The w bits x has from position at on, as a number.
RECURSIVE number(_, _, _)
number(x, at, w) ==
  IF w = 0 THEN 0 ELSE (IF at \in x THEN 1 ELSE 0) + 2 * number(x, at + 1, w - 1)

\* The bits of the number n, the first of them at position at.
bitsAt(n, at) == {at + b : b \in {c \in 0..30 : (n \div 2^c) % 2 = 1}}

xor(x, y) == (x \ y) \cup (y \ x)

\* x < y as little-endian numbers.
Less(x, y) == \E b \in xor(x, y) \cap y : \A c \in xor(x, y) : c <= b

\* x mod q, for q < 2^22.
RECURSIVE modFrom(_, _, _)
modFrom(x, at, q) ==
  IF \A c \in x : c < at THEN 0
  ELSE (number(x, at, 8) + 256 * modFrom(x, at + 8, q)) % q

mod(x, q) == modFrom(x, 0, q)
=============================================================================
