------------------------------ MODULE MCCrypto ------------------------------
(***************************************************************************)
(* The instance of the packages under crypto/ that MCPackages checks.      *)
(***************************************************************************)
EXTENDS Scalars, FieldElement, Signatures, Keccak, Sponge

MCM == <<80, 57, 80, -122, 17, -83>>
MCStrings == {Zero, One, 0..99, L, NegOne, {b \in 0..99 : b % 3 = 0}}
MCWideStrings ==
  {0..k : k \in {7, 96, 191, 199}} \cup {{b \in 0..199 : b % k # 1} : k \in 2..10}
  \cup {{b + 5 * i : b \in L} : i \in 0..20} \cup {{b + 7 * i : b \in NegOne} : i \in 0..14}

MCElements ==
  {[i \in Fe |-> n] : n \in {-10, 0, 9, 10}}
  \cup {[i \in Fe |-> IF i % k = 0 THEN 10 ELSE -10] : k \in 2..4}
  \cup {[i \in Fe |-> IF i = k THEN n ELSE 0] : k \in Fe, n \in {-10, 3}}
MCFeStrings == {{}, {0}, Prime, Prime \ {0}, 0..PBits, 0..(PBits - 1), Prime \cup {0, 1}}
  \cup {{b \in 0..PBits : b % k # 0} : k \in 2..7}

\* The curve over the field of 109 elements, whose base point has order 13.
MCFew == <<<<0, 1>>, <<0, P - 1>>, B, multiple(3, B), law(B, <<0, P - 1>>), <<SqrtM1, 0>>>>
MCMultipliers == {0, 1, 2, 3, 7, 8, 15, 16, 23, 2^14 - 1, 2^15 - 1, 2^15 - 8, 2^15 - 19,
                  21845, 10922, 31337}
MCDoubleMults ==
  {<<a, A, 31337>> : a \in {0, 7, 2^15 - 1, 2^15 - 19}, A \in 1..6}
  \cup {<<a, 4, b>> : a \in {1, 23, 21845}, b \in MCMultipliers \cup {2^16 - 1, 2^16 - 19, 54613}}

\* A digest that mixes up to four fields into two strings of 16 bits.
mix(h, x) == (((h * 31 + x * 17 + 7) % 65521) * 211 + 99) % 65536
MCDigest(s) == LET n(i) == IF i <= Len(s) THEN s[i] ELSE 5
                   h == mix(mix(mix(mix(1, n(1)), n(2)), n(3)), n(4))
               IN  <<h, mix(h, 3)>>
Selectors == [sel : 1..2, hardened : BOOLEAN]
MCPaths == UNION {[1..n -> Selectors] : n \in 0..3}

MCLanes == {[l \in Lane |-> {}], [l \in Lane |-> {l, 2 * l, 63}]}

string(p) == [i \in DOMAIN p |-> byte(p[i])]
strings(ps) == {string(p) : p \in ps}
tuples(ts) == {[j \in DOMAIN t |-> string(t[j])] : t \in ts}
MCKinds == {[rate |-> 3, outputLen |-> 2, ds |-> 31], [rate |-> 2, outputLen |-> 3, ds |-> 6]}
MCChunks == strings({<<>>, <<6>>, <<1, 0, 31, 6>>})
MCInputs ==
  [fn : {"tuple"}, rate : {3}, s : strings({<<>>, <<1>>}), length : {0, 2},
   items : tuples({<<>>, <<<<>>>>, <<<<1>>>>, <<<<>>, <<1>>>>, <<<<1>>, <<>>>>, <<<<1>>, <<1>>>>,
                   <<<<1, 8, 1, 1>>>>})]
  \cup [fn : {"kmac"}, rate : {3}, s : {<<>>}, length : {0, 2},
        key : strings({<<>>, <<1>>, <<0, 0>>}), items : tuples({<<>>, <<<<1, 8, 1, 1>>>>, <<<<1, 0>>>>})]
  \cup [fn : {"cshake"}, rate : {3}, length : {0}, s : strings({<<>>, <<1>>, <<1, 1, 0>>}),
        items : tuples({<<>>, <<<<1>>>>, <<<<0>>>>})]

CryptoNext ==
  ScalarsNext \/ FieldElementNext \/ EdwardsNext \/ SignaturesNext \/ KeccakNext \/ SpongeNext

(***************************************************************************)
(* Package sha3: the unrolled permutation is Keccak-f, a hash object       *)
(* computes the sponge function of what was written to it however it is    *)
(* used, cloned or pooled, no two inputs of the derived functions are run  *)
(* together alike, and a derived function emits its length once.           *)
(***************************************************************************)
HashesRight == KeccakRight /\ SpongeFaithful /\ SumIsDigest /\ InputsSeparated /\ ReadsContinue

(***************************************************************************)
(* The arithmetic under edwards25519.go. Scalars: no fold or carry of      *)
(* ScMulAdd and ScReduce changes the value, the result is reduced, and the *)
(* operations are those of the integers modulo L. Field elements: every    *)
(* operation computes its value and brings the limbs back within bounds,   *)
(* bytes are canonical, and the written-out powers have their exponents.   *)
(***************************************************************************)
ArithmeticExact ==
  /\ MulAddKeepsValue /\ ReduceReduces /\ ScalarOps
  /\ FeValue /\ FePostconditions /\ BytesCanonical /\ PowersRight
=============================================================================
