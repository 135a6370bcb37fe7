------------------------------- MODULE Keccak -------------------------------
(***************************************************************************)
(* The permutation Keccak-f[1600] as keccakf.go computes it: four rounds   *)
(* unrolled per loop iteration, in place, the lanes left in a different    *)
(* order by every round but the fourth.  A lane is the set of the          *)
(* positions of its 1 bits.  The reference is the definition by the steps  *)
(* theta, rho, pi, chi and iota, with computed offsets and constants.      *)
(***************************************************************************)
EXTENDS TLC, FiniteSets, Calls, BitStrings

CONSTANT Lanes    \* the states the permutation is applied to

Lane == 0..24
rotl(x, n) == {(b + n) % 64 : b \in x}

rc ==
  <<{0}, {1, 7, 15}, {1, 3, 7, 15, 63}, {15, 31, 63}, {0, 1, 3, 7, 15}, {0, 31},
    {0, 7, 15, 31, 63}, {0, 3, 15, 63}, {1, 3, 7}, {3, 7}, {0, 3, 15, 31}, {1, 3, 31},
    {0, 1, 3, 7, 15, 31}, {0, 1, 3, 7, 63}, {0, 3, 7, 15, 63}, {0, 1, 15, 63},
    {1, 15, 63}, {7, 63}, {1, 3, 15}, {1, 3, 31, 63}, {0, 7, 15, 31, 63}, {7, 15, 63},
    {0, 31}, {3, 15, 31, 63}>>

bc(a, x) == xor(xor(xor(xor(a[x], a[x + 5]), a[x + 10]), a[x + 15]), a[x + 20])
dd(a, x) == xor(bc(a, (x + 4) % 5), rotl(bc(a, (x + 1) % 5), 1))

(***************************************************************************)
(* A row of a round: lanes[x] is xored with d[x], rotated by rots[x] into  *)
(* bc[x + shift], and the five results replace the lanes.                  *)
(***************************************************************************)
row(a, lanes, rots, shift) ==
  LET b == [x \in 0..4 |-> LET k == (x - shift) % 5
                           IN  rotl(xor(a[lanes[k + 1]], dd(a, k)), rots[k + 1])]
      out(x) == xor(b[x], b[(x + 2) % 5] \ b[(x + 1) % 5])
  IN  (lanes[1] :> out(0)) @@ (lanes[2] :> out(1)) @@ (lanes[3] :> out(2))
      @@ (lanes[4] :> out(3)) @@ (lanes[5] :> out(4))

round5(a, c, r1, r2, r3, r4, r5) ==
  LET s == row(a, r1, <<0, 44, 43, 21, 14>>, 0) @@ row(a, r2, <<3, 45, 61, 28, 20>>, 2)
           @@ row(a, r3, <<18, 1, 6, 25, 8>>, 4) @@ row(a, r4, <<36, 10, 15, 56, 27>>, 1)
           @@ row(a, r5, <<41, 2, 62, 55, 39>>, 3)
  IN  (0 :> xor(s[0], c)) @@ s

round1(a, c) == round5(a, c, <<0, 6, 12, 18, 24>>, <<10, 16, 22, 3, 9>>, <<20, 1, 7, 13, 19>>,
                       <<5, 11, 17, 23, 4>>, <<15, 21, 2, 8, 14>>)
round2(a, c) == round5(a, c, <<0, 16, 7, 23, 14>>, <<20, 11, 2, 18, 9>>, <<15, 6, 22, 13, 4>>,
                       <<10, 1, 17, 8, 24>>, <<5, 21, 12, 3, 19>>)
round3(a, c) == round5(a, c, <<0, 11, 22, 8, 19>>, <<15, 1, 12, 23, 9>>, <<5, 16, 2, 13, 24>>,
                       <<20, 6, 17, 3, 14>>, <<10, 21, 7, 18, 4>>)
round4(a, c) == round5(a, c, <<0, 1, 2, 3, 4>>, <<5, 6, 7, 8, 9>>, <<10, 11, 12, 13, 14>>,
                       <<15, 16, 17, 18, 19>>, <<20, 21, 22, 23, 24>>)

-----------------------------------------------------------------------------
\* The reference round, on lanes x + 5y.
parity(a, x, b) == Cardinality({y \in 0..4 : (b % 64) \in a[(x % 5) + 5 * y]}) % 2
theta(a) == [l \in Lane |-> xor(a[l], {b \in 0..63 : parity(a, l + 4, b) # parity(a, l + 1, b + 63)})]

\* The rotation of the lane the walk (1,0) -> (y, 2x + 3y) visits at step t.
RECURSIVE walk(_, _, _, _)
walk(x, y, t, offsets) ==
  IF t = 24 THEN offsets
  ELSE walk(y, (2 * x + 3 * y) % 5, t + 1,
            (x + 5 * y :> (((t + 1) * (t + 2)) \div 2) % 64) @@ offsets)

rho == walk(1, 0, 0, 0 :> 0)

rhoPi(a) == [l \in Lane |->
               LET m == CHOOSE m \in Lane : /\ m \div 5 = l % 5
                                            /\ (2 * (m % 5) + 3 * (m \div 5)) % 5 = l \div 5
               IN  rotl(a[m], rho[m])]

chi(a) == [l \in Lane |-> LET at(x) == a[(l \div 5) * 5 + (x % 5)]
                          IN  xor(a[l], at(l + 2) \ at(l + 1))]

\* One step of the shift register that generates the round constants.
clock(r) == LET s == {b + 1 : b \in r} IN IF 8 \in s THEN xor(s, {0, 4, 5, 6, 8}) ELSE s

RECURSIVE constant(_, _)
constant(r, j) ==
  IF j = 7 THEN [bits |-> {}, reg |-> r]
  ELSE LET rest == constant(clock(r), j + 1)
       IN  [rest EXCEPT !.bits = @ \cup (IF 0 \in r THEN {2^j - 1} ELSE {})]

reference(s) == LET c == constant(s.reg, 0)
                    a == chi(rhoPi(theta(s.ref)))
                IN  [ref |-> (0 :> xor(a[0], c.bits)) @@ a, reg |-> c.reg]

-----------------------------------------------------------------------------
keccakF1600(a) == Begin("keccakF1600", a, [a |-> a, ref |-> a, reg |-> {0}],
                        [i \in 1..24 |-> i - 1])

keccakStep(s, i) ==
  LET c == rc[i + 1]
      r == reference(s)
      a == CASE i % 4 = 0 -> round1(s.a, c)
             [] i % 4 = 1 -> round2(s.a, c)
             [] i % 4 = 2 -> round3(s.a, c)
             [] i % 4 = 3 -> round4(s.a, c)
  IN  [a |-> a, ref |-> r.ref, reg |-> r.reg]

KeccakNext == (Idle /\ \E a \in Lanes : keccakF1600(a)) \/ Step("keccakF1600", keccakStep)

(***************************************************************************)
(* After every iteration of the unrolled loop the lanes are, in order,     *)
(* what four rounds of the reference make of them; so after 24 rounds.     *)
(***************************************************************************)
KeccakRight ==
  call.fn = "keccakF1600" /\ Len(call.todo) % 4 = 0 => call.st.a = call.st.ref
=============================================================================
