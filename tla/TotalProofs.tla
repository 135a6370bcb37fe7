---------------------------- MODULE TotalProofs -----------------------------
(***************************************************************************)
(* What the sums of module TxVMAccounts come to, over nested stacks.       *)
(***************************************************************************)
EXTENDS TxVMAccounts, WellFoundedInduction, TLAPS

(***************************************************************************)
(* Sums.                                                                   *)
(***************************************************************************)
\* Induction over the natural numbers, for sets.
LEMMA NatSets ==
  ASSUME NEW S, 0 \in S, \A n \in Nat : n \in S => n + 1 \in S
  PROVE  Nat \subseteq S
<1> DEFINE T == Nat \ S
           R == OpToRel(<, Nat)
<1>1. IsWellFoundedOn(R, Nat)
  BY Zenon, NatLessThanWellFounded
<1>2. \A k, n \in Nat : k < n => <<k, n>> \in R
  BY Zenon DEF OpToRel
<1> HIDE DEF R
<1>3. SUFFICES ASSUME T # {} PROVE FALSE
  BY Zenon
<1>4. PICK n \in T : \A k \in T : ~(<<k, n>> \in R)
  BY Zenon, <1>1, <1>3, WFMin
<1>5. n \in Nat /\ n \notin S /\ n # 0
  BY Zenon, <1>4
<1>6. n - 1 \in Nat /\ n - 1 < n /\ (n - 1) + 1 = n
  BY <1>5
<1>7. n - 1 \notin T
  BY Zenon, <1>2, <1>4, <1>5, <1>6
<1> QED
  BY Zenon, <1>5, <1>6, <1>7

\* The partial sums, up to the n-th.
SumsTo(f, w, n) == f = [k \in 0..n |-> IF k = 0 THEN 0 ELSE f[k - 1] + w[k]]

\* The recursion has a solution.
LEMMA SumsExist ==
  ASSUME NEW w, NEW n \in Nat
  PROVE  \E f : SumsTo(f, w, n)
<1> DEFINE K == {k \in Nat : \E f : SumsTo(f, w, k)}
<1>1. 0 \in K
  <2>1. SumsTo([k \in 0..0 |-> 0], w, 0)
    BY DEF SumsTo
  <2> QED
    BY <2>1
<1>2. ASSUME NEW k \in Nat, k \in K
      PROVE  k + 1 \in K
  <2>1. PICK f : SumsTo(f, w, k)
    BY Zenon, <1>2
  <2> DEFINE g == [i \in 0..(k + 1) |-> IF i = k + 1 THEN f[k] + w[k + 1] ELSE f[i]]
  <2>2. \A i \in 0..(k + 1) : g[i] = IF i = 0 THEN 0 ELSE g[i - 1] + w[i]
    BY <2>1 DEF SumsTo
  <2>3. SumsTo(g, w, k + 1)
    BY Zenon, <2>2 DEF SumsTo
  <2> QED
    BY <2>3
<1>3. n \in K
  <2> HIDE DEF K
  <2> QED
    BY <1>1, <1>2, NatSets
<1> QED
  BY Zenon, <1>3

\* f has the partial sums of w.
Sums(f, w) ==
  /\ f[0] = 0 /\ \A n \in 0..Len(w) : f[n] \in Int
  /\ \A n \in 1..Len(w) : f[n] = f[n - 1] + w[n]

\* What Sum computes is the last of some partial sums, by the first element
\* and by what each adds.
LEMMA SumHas ==
  ASSUME NEW w \in Seq(Int)
  PROVE  \E f : Sums(f, w) /\ f[Len(w)] = Sum(w)
<1> DEFINE f == CHOOSE h : SumsTo(h, w, Len(w))
           m == Len(w)
<1>1. m \in Nat
  OBVIOUS
<1>2. SumsTo(f, w, m)
  BY Zenon, <1>1, SumsExist
<1>3. Sum(w) = f[Len(w)]
  BY Zenon DEF Sum, SumsTo
<1> HIDE DEF f
<1>4. f[0] = 0 /\ \A n \in 1..m : f[n] = f[n - 1] + w[n]
  BY <1>1, <1>2 DEF SumsTo
<1>5. \A n \in 1..m : w[n] \in Int
  OBVIOUS
<1> DEFINE K == {n \in Nat : n <= m => f[n] \in Int}
<1>6. 0 \in K
  BY <1>4
<1>7. ASSUME NEW n \in Nat, n \in K
      PROVE  n + 1 \in K
  <2>1. CASE n + 1 <= m
    <3>1. n + 1 \in 1..m /\ (n + 1) - 1 = n /\ f[n] \in Int
      BY <1>1, <1>7, <2>1
    <3>2. f[n + 1] = f[n] + w[n + 1] /\ w[n + 1] \in Int
      BY Zenon, <1>4, <1>5, <3>1
    <3> QED
      BY <3>1, <3>2
  <2> QED
    BY <2>1
<1>8. Nat \subseteq K
  <2> HIDE DEF K
  <2> QED
    BY Zenon, <1>6, <1>7, NatSets
<1>9. \A n \in 0..m : f[n] \in Int
  BY <1>1, <1>8
<1> QED
  BY Zenon, <1>3, <1>4, <1>9 DEF Sums

\* The sum of integers is the last of any partial sums.
LEMMA SumIs ==
  ASSUME NEW w \in Seq(Int), NEW f, Sums(f, w)
  PROVE  Sum(w) = f[Len(w)]
<1> DEFINE m == Len(w)
<1>1. PICK g : Sums(g, w) /\ g[m] = Sum(w)
  BY Zenon, SumHas
<1>2. m \in Nat
  OBVIOUS
<1> DEFINE K == {n \in Nat : n <= m => g[n] = f[n]}
<1>3. 0 \in K
  BY <1>1 DEF Sums
<1>4. ASSUME NEW n \in Nat, n \in K
      PROVE  n + 1 \in K
  <2>1. CASE n + 1 <= m
    <3>1. n + 1 \in 1..m /\ (n + 1) - 1 = n /\ g[n] = f[n]
      BY <1>2, <1>4, <2>1
    <3>2. g[n + 1] = g[n] + w[n + 1] /\ f[n + 1] = f[n] + w[n + 1]
      BY Zenon, <1>1, <3>1 DEF Sums
    <3> QED
      BY <3>1, <3>2
  <2> QED
    BY <2>1
<1>5. Nat \subseteq K
  <2> HIDE DEF K
  <2> QED
    BY Zenon, <1>3, <1>4, NatSets
<1> QED
  BY <1>1, <1>2, <1>5

\* A sum of integers is one.
LEMMA SumType ==
  ASSUME NEW w \in Seq(Int)
  PROVE  Sum(w) \in Int
<1>1. PICK f : Sums(f, w) /\ f[Len(w)] = Sum(w)
  BY Zenon, SumHas
<1>2. Len(w) \in 0..Len(w)
  OBVIOUS
<1> QED
  BY Zenon, <1>1, <1>2 DEF Sums

\* Sums of no integer and of one.
LEMMA SumSmall ==
  /\ Sum(<<>>) = 0
  /\ \A x \in Int : Sum(<<x>>) = x
<1>1. Sum(<<>>) = 0
  <2>1. <<>> \in Seq(Int) /\ Len(<<>>) = 0
    OBVIOUS
  <2> DEFINE f == [n \in {0} |-> 0]
  <2>2. Sums(f, <<>>)
    BY <2>1 DEF Sums
  <2>3. f[0] = 0
    OBVIOUS
  <2> HIDE DEF f
  <2>4. Sum(<<>>) = f[Len(<<>>)]
    BY Zenon, <2>1, <2>2, SumIs
  <2> QED
    BY <2>1, <2>3, <2>4
<1>2. ASSUME NEW x \in Int
      PROVE  Sum(<<x>>) = x
  <2> DEFINE f == [n \in 0..1 |-> IF n = 0 THEN 0 ELSE x]
  <2>1. <<x>> \in Seq(Int) /\ Len(<<x>>) = 1 /\ <<x>>[1] = x
    OBVIOUS
  <2>3. f[0] = 0 /\ f[1] = x /\ \A n \in 0..1 : f[n] \in Int
    OBVIOUS
  <2> HIDE DEF f
  <2>2. Sums(f, <<x>>)
    <3>1. \A n \in 1..1 : f[n] = f[n - 1] + <<x>>[n]
      BY <2>1, <2>3
    <3> QED
      BY <2>1, <2>3, <3>1 DEF Sums
  <2>4. Sum(<<x>>) = f[Len(<<x>>)]
    BY Zenon, <2>1, <2>2, SumIs
  <2> QED
    BY <2>1, <2>3, <2>4
<1> QED
  BY <1>1, <1>2

\* The sum of a sequence followed by another.
LEMMA SumConcat ==
  ASSUME NEW w \in Seq(Int), NEW v \in Seq(Int)
  PROVE  w \o v \in Seq(Int) /\ Sum(w \o v) = Sum(w) + Sum(v)
<1> DEFINE a == Len(w)
           b == Len(v)
           u == w \o v
           S == Sum(w)
<1>1. PICK f : Sums(f, w) /\ f[a] = S
  BY Zenon, SumHas
<1>2. PICK g : Sums(g, v) /\ g[b] = Sum(v)
  BY Zenon, SumHas
<1> DEFINE h == [n \in 0..(a + b) |-> IF n <= a THEN f[n] ELSE S + g[n - a]]
<1>3. /\ u \in Seq(Int) /\ Len(u) = a + b /\ a \in Nat /\ b \in Nat
      /\ \A n \in 1..a : u[n] = w[n]
      /\ \A n \in 1..b : u[a + n] = v[n] /\ v[n] \in Int
  OBVIOUS
<1>4. S \in Int
  BY Zenon, SumType
<1> HIDE DEF u, S, a, b
<1>15. a \in Nat /\ b \in Nat /\ Len(u) = a + b
  BY Zenon, <1>3
<1>5. \A n \in 0..a : h[n] = f[n]
  BY <1>3
<1>6. \A n \in 0..b : h[a + n] = S + g[n]
  <2>1. g[0] = 0
    BY <1>2 DEF Sums
  <2>2. h[a + 0] = S + 0
    <3>1. a \in 0..a /\ a + 0 = a /\ S + 0 = S
      BY <1>15, <1>4
    <3> QED
      BY Zenon, <1>1, <1>5, <3>1
  <2>3. \A n \in 1..b : h[a + n] = S + g[n]
    <3>1. ASSUME NEW n \in 1..b
          PROVE  h[a + n] = S + g[n]
      <4>1. a + n \in 0..(a + b) /\ ~(a + n <= a) /\ (a + n) - a = n
        BY <1>15
      <4> QED
        BY Zenon, <4>1
    <3> QED
      BY <3>1
  <2>4. \A n \in 0..b : n = 0 \/ n \in 1..b
    BY <1>15
  <2> QED
    BY Zenon, <2>1, <2>2, <2>3, <2>4
<1> HIDE DEF h
<1>7. \A n \in 0..a : f[n] \in Int
  BY Zenon, <1>1 DEF Sums, a
<1>8. \A n \in 0..b : g[n] \in Int
  BY Zenon, <1>2 DEF Sums, b
<1>9. h[0] = 0
  BY <1>1, <1>3, <1>5 DEF Sums
<1>10. \A n \in 0..Len(u) : h[n] \in Int
  <2>1. ASSUME NEW n \in 0..Len(u)
        PROVE  h[n] \in Int
    <3>1. CASE n <= a
      <4>1. n \in 0..a
        BY <1>15, <3>1
      <4> QED
        BY Zenon, <1>5, <1>7, <4>1
    <3>2. CASE n > a
      <4>1. n - a \in 0..b /\ a + (n - a) = n
        BY <1>15, <3>2
      <4>2. h[a + (n - a)] = S + g[n - a] /\ g[n - a] \in Int
        BY Zenon, <1>6, <1>8, <4>1
      <4> QED
        BY <1>4, <4>1, <4>2
    <3> QED
      BY <1>15, <3>1, <3>2
  <2> QED
    BY <2>1
<1>11. ASSUME NEW n \in 1..Len(u)
       PROVE  h[n] = h[n - 1] + u[n]
  <2>1. CASE n <= a
    <3>1. n \in 1..a /\ n \in 0..a /\ n - 1 \in 0..a
      BY <1>15, <2>1
    <3> QED
      BY Zenon, <1>1, <1>3, <1>5, <3>1 DEF Sums, a
  <2>2. CASE n > a
    <3>1. PICK j \in 1..b : n = a + j
      <4>1. n - a \in 1..b /\ n = a + (n - a)
        BY <1>15, <2>2
      <4> QED
        BY Zenon, <4>1
    <3>2. j \in 0..b /\ j - 1 \in 0..b /\ n - 1 = a + (j - 1)
      BY <1>15, <3>1
    <3>3. h[n] = S + g[j] /\ h[n - 1] = S + g[j - 1] /\ u[n] = v[j] /\ v[j] \in Int
      BY Zenon, <1>3, <1>6, <3>1, <3>2
    <3>4. g[j] = g[j - 1] + v[j] /\ g[j - 1] \in Int
      BY Zenon, <1>2, <1>8, <3>1, <3>2 DEF Sums, b
    <3> QED
      BY <1>4, <3>3, <3>4
  <2> QED
    BY <1>15, <2>1, <2>2
<1>12. Sums(h, u)
  BY Zenon, <1>9, <1>10, <1>11 DEF Sums
<1>13. Sum(u) = h[a + b]
  BY Zenon, <1>3, <1>12, SumIs
<1>14. h[a + b] = S + Sum(v)
  BY <1>2, <1>15, <1>6
<1> QED
  BY Zenon, <1>3, <1>13, <1>14 DEF u, S

(***************************************************************************)
(* What a stack is worth, when R ranks the items on it and within it.      *)
(***************************************************************************)
\* The sets of items within a stack, level by level.
Levels(f, s, n) == f = [k \in 0..n |-> IF k = 0 THEN ItemsOn(s) ELSE With(f[k - 1])]

\* The recursion of ItemsWithin has a solution.
LEMMA LevelsExist ==
  ASSUME NEW s, NEW n \in Nat
  PROVE  \E f : Levels(f, s, n)
<1> DEFINE K == {k \in Nat : \E f : Levels(f, s, k)}
<1>1. 0 \in K
  <2>1. Levels([k \in 0..0 |-> ItemsOn(s)], s, 0)
    BY DEF Levels
  <2> QED
    BY <2>1
<1>2. ASSUME NEW k \in Nat, k \in K
      PROVE  k + 1 \in K
  <2>1. PICK f : Levels(f, s, k)
    BY Zenon, <1>2
  <2> DEFINE g == [i \in 0..(k + 1) |-> IF i = k + 1 THEN With(f[k]) ELSE f[i]]
  <2>2. \A i \in 0..(k + 1) : g[i] = IF i = 0 THEN ItemsOn(s) ELSE With(g[i - 1])
    BY <2>1 DEF Levels
  <2>3. Levels(g, s, k + 1)
    BY Zenon, <2>2 DEF Levels
  <2> QED
    BY <2>3
<1>3. n \in K
  <2> HIDE DEF K
  <2> QED
    BY <1>1, <1>2, NatSets
<1> QED
  BY Zenon, <1>3

\* A level more: what was there, and what its contracts hold.
LEMMA WithFacts ==
  ASSUME NEW P, NEW x
  PROVE  /\ P \subseteq With(P)
         /\ x \in P /\ IsContract(x) => ItemsOn(x.stack) \subseteq With(P)
         /\ x \in With(P) => x \in P \/ \E y \in P : IsContract(y) /\ x \in ItemsOn(y.stack)
BY Zenon DEF With

\* The items on a stack.
LEMMA OnFacts ==
  ASSUME NEW P, NEW s \in Seq(P)
  PROVE  /\ ItemsOn(s) \subseteq P
         /\ \A i \in DOMAIN s : s[i] \in ItemsOn(s)
BY DEF ItemsOn

\* All items within a stack of ranked items are reached.
LEMMA WithinFacts ==
  ASSUME NEW R, Ranked(R), NEW s \in Seq(DOMAIN R)
  PROVE  /\ ItemsOn(s) \subseteq ItemsWithin(s)
         /\ ItemsWithin(s) \subseteq DOMAIN R
         /\ \A x \in ItemsWithin(s) : IsContract(x) => ItemsOn(x.stack) \subseteq ItemsWithin(s)
<1> DEFINE N == MaxNesting
           D == DOMAIN R
           f == CHOOSE g : Levels(g, s, N)
<1>1. N \in Nat
  BY TxVMAssumptions
<1>2. Levels(f, s, N)
  BY Zenon, <1>1, LevelsExist
<1>3. ItemsWithin(s) = f[N]
  BY Zenon DEF ItemsWithin, Levels
<1> HIDE DEF f
<1>4. f[0] = ItemsOn(s) /\ \A k \in 1..N : f[k] = With(f[k - 1])
  BY <1>1, <1>2 DEF Levels
<1>5. \A x \in D : IsContract(x) => x.stack \in Seq(Below(R, R[x]))
  <2>1. \A x : ~(IsContract(x) /\ IsValue(x))
    BY DEF IsContract, IsValue
  <2> QED
    BY Zenon, <2>1 DEF Ranked, Whole
<1>6. \A x \in D : R[x] \in 0..N
  BY Zenon DEF Ranked
<1> DEFINE Reached(k) ==
             /\ ItemsOn(s) \subseteq f[k] /\ f[k] \subseteq D
             /\ \A x \in f[k] : IsContract(x) => ItemsOn(x.stack) \subseteq f[k] \/ R[x] <= N - k
           K == {k \in Nat : k <= N => Reached(k)}
<1>7. 0 \in K
  <2>1. ItemsOn(s) \subseteq D
    BY Zenon, OnFacts
  <2>2. \A x \in D : R[x] <= N - 0
    BY <1>1, <1>6
  <2> QED
    BY Zenon, <1>4, <2>1, <2>2
<1>8. ASSUME NEW k \in Nat, k \in K
      PROVE  k + 1 \in K
  <2>7. k + 1 \in Nat
    OBVIOUS
  <2> SUFFICES ASSUME k + 1 <= N
               PROVE  Reached(k + 1)
    BY Zenon, <2>7
  <2>1. k + 1 \in 1..N /\ (k + 1) - 1 = k /\ k <= N
    BY <1>1
  <2>2. Reached(k)
    BY Zenon, <1>8, <2>1
  <2>3. f[k + 1] = With(f[k])
    BY Zenon, <1>4, <2>1
  <2> DEFINE P == f[k]
  <2>4. \A y \in P : IsContract(y) =>
          \A x \in ItemsOn(y.stack) : x \in D /\ R[x] < R[y]
    <3>1. ASSUME NEW y \in P, IsContract(y), NEW x \in ItemsOn(y.stack)
          PROVE  x \in D /\ R[x] < R[y]
      <4>1. y.stack \in Seq(Below(R, R[y]))
        BY Zenon, <1>5, <2>2, <3>1
      <4>2. x \in Below(R, R[y])
        BY Zenon, <4>1, OnFacts
      <4> QED
        BY Zenon, <4>2 DEF Below
    <3> QED
      BY Zenon, <3>1
  <2>5. ItemsOn(s) \subseteq With(P) /\ With(P) \subseteq D
    BY Zenon, <2>2, <2>4, WithFacts
  <2>6. ASSUME NEW x \in With(P), IsContract(x)
        PROVE  ItemsOn(x.stack) \subseteq With(P) \/ R[x] <= N - (k + 1)
    <3>1. CASE x \in P
      BY Zenon, <2>6, <3>1, WithFacts
    <3>2. CASE x \notin P
      <4>1. PICK y \in P : IsContract(y) /\ x \in ItemsOn(y.stack)
        BY Zenon, <2>6, <3>2, WithFacts
      <4>2. ~(ItemsOn(y.stack) \subseteq P)
        BY Zenon, <3>2, <4>1
      <4>3. R[y] <= N - k /\ x \in D /\ y \in D /\ R[x] < R[y]
        BY Zenon, <2>2, <2>4, <4>1, <4>2
      <4>4. R[x] \in Int /\ R[y] \in Int
        BY <1>1, <1>6, <4>3
      <4> QED
        BY <1>1, <4>3, <4>4
    <3> QED
      BY Zenon, <3>1, <3>2
  <2> QED
    BY Zenon, <2>3, <2>5, <2>6
<1>9. Reached(N)
  <2>1. Nat \subseteq K
    <3> HIDE DEF K
    <3> QED
      BY Zenon, <1>7, <1>8, NatSets
  <2>2. N <= N
    BY <1>1
  <2> QED
    BY Zenon, <1>1, <2>1, <2>2
<1>10. ASSUME NEW x \in f[N], IsContract(x), R[x] <= N - N
       PROVE  ItemsOn(x.stack) = {}
  <2>1. x.stack \in Seq(Below(R, R[x])) /\ R[x] \in 0..N
    BY Zenon, <1>5, <1>6, <1>9, <1>10
  <2>2. R[x] = 0
    BY <1>1, <1>10, <2>1
  <2>3. Below(R, 0) = {}
    <3>1. \A y \in D : ~(R[y] < 0)
      BY <1>1, <1>6
    <3> QED
      BY Zenon, <3>1 DEF Below
  <2> QED
    BY Zenon, <2>1, <2>2, <2>3, OnFacts
<1>11. \A x \in f[N] : IsContract(x) => ItemsOn(x.stack) \subseteq f[N]
  BY Zenon, <1>9, <1>10
<1> QED
  BY Zenon, <1>3, <1>9, <1>11

\* What the items of a stack are worth, by a measure m of items.
W(m, s) == [i \in DOMAIN s |-> m[s[i]]]

Measures(m, P, q) ==
  \A x \in P : m[x] = IF IsContract(x) THEN Sum(W(m, x.stack)) ELSE Worth(x, q)

\* One weight per item.
LEMMA WeightsType ==
  ASSUME NEW P, NEW m, \A x \in P : m[x] \in Int, NEW s \in Seq(P)
  PROVE  W(m, s) \in Seq(Int) /\ Len(W(m, s)) = Len(s)
BY DEF W

\* The places of a sequence.
LEMMA Places ==
  ASSUME NEW S, NEW u \in Seq(S)
  PROVE  Len(u) \in Nat /\ DOMAIN u = 1..Len(u)
OBVIOUS

\* Sequences are equal that have the same length and elements.
LEMMA SameSequence ==
  ASSUME NEW S, NEW u \in Seq(S), NEW v \in Seq(S), Len(u) = Len(v),
         \A i \in 1..Len(u) : u[i] = v[i]
  PROVE  u = v
OBVIOUS

\* What a slice of a sequence is.
LEMMA Slice ==
  ASSUME NEW S, NEW s \in Seq(S), NEW m \in 1..(Len(s) + 1), NEW n \in (m - 1)..Len(s)
  PROVE  /\ SubSeq(s, m, n) \in Seq(S) /\ Len(SubSeq(s, m, n)) = n - m + 1
         /\ \A i \in 1..(n - m + 1) : SubSeq(s, m, n)[i] = s[m + i - 1]
OBVIOUS

\* A slice up to the end is the whole sequence, and adjacent slices join.
LEMMA Slices ==
  ASSUME NEW S, NEW s \in Seq(S)
  PROVE  /\ SubSeq(s, 1, Len(s)) = s
         /\ \A m \in 1..(Len(s) + 1) : \A k \in (m - 1)..Len(s) : \A n \in k..Len(s) :
              SubSeq(s, m, k) \o SubSeq(s, k + 1, n) = SubSeq(s, m, n)
         /\ \A m \in 1..Len(s) : \A n \in m..Len(s) :
              /\ SubSeq(s, m, n) = SubSeq(s, m, n - 1) \o <<s[n]>>
              /\ SubSeq(s, m, n) = <<s[m]>> \o SubSeq(s, m + 1, n)
OBVIOUS

\* Weights add up over two stacks, one on the other.
LEMMA WeightsConcat ==
  ASSUME NEW P, NEW m, \A x \in P : m[x] \in Int
  PROVE  \A s, t \in Seq(P) : Sum(W(m, s \o t)) = Sum(W(m, s)) + Sum(W(m, t))
<1> SUFFICES ASSUME NEW s \in Seq(P), NEW t \in Seq(P)
             PROVE  Sum(W(m, s \o t)) = Sum(W(m, s)) + Sum(W(m, t))
  OBVIOUS
<1>1. PICK st : st = s \o t
  BY Zenon
<1>2. PICK a : a = W(m, st)
  BY Zenon
<1>3. PICK u : u = W(m, s)
  BY Zenon
<1>4. PICK v : v = W(m, t)
  BY Zenon
<1>5. /\ st \in Seq(P) /\ Len(st) = Len(s) + Len(t) /\ Len(s) \in Nat /\ Len(t) \in Nat
      /\ DOMAIN s = 1..Len(s) /\ DOMAIN t = 1..Len(t) /\ DOMAIN st = 1..(Len(s) + Len(t))
      /\ \A i \in 1..Len(s) : st[i] = s[i]
      /\ \A i \in 1..Len(t) : st[Len(s) + i] = t[i]
  <2>1. /\ st \in Seq(P) /\ Len(st) = Len(s) + Len(t)
        /\ \A i \in 1..Len(s) : st[i] = s[i]
        /\ \A i \in 1..Len(t) : st[Len(s) + i] = t[i]
    BY SMTT(30), <1>1
  <2>2. Len(s) \in Nat /\ DOMAIN s = 1..Len(s) /\ Len(t) \in Nat /\ DOMAIN t = 1..Len(t)
    BY Zenon, Places
  <2>3. DOMAIN st = 1..Len(st)
    BY Zenon, <2>1, Places
  <2> QED
    BY Zenon, <2>1, <2>2, <2>3
<1>6. /\ u \in Seq(Int) /\ Len(u) = Len(s)
      /\ v \in Seq(Int) /\ Len(v) = Len(t)
      /\ a \in Seq(Int) /\ Len(a) = Len(st)
  <2>1. W(m, s) \in Seq(Int) /\ Len(W(m, s)) = Len(s)
    BY Zenon, WeightsType
  <2>2. W(m, t) \in Seq(Int) /\ Len(W(m, t)) = Len(t)
    BY Zenon, WeightsType
  <2>3. st \in Seq(P)
    BY Zenon, <1>5
  <2>4. W(m, st) \in Seq(Int) /\ Len(W(m, st)) = Len(st)
    BY Zenon, <2>3, WeightsType
  <2> QED
    BY Zenon, <1>2, <1>3, <1>4, <2>1, <2>2, <2>4
<1>8. PICK b : b = u \o v
  BY Zenon
<1>7. /\ b \in Seq(Int) /\ Len(b) = Len(u) + Len(v)
      /\ \A i \in 1..Len(u) : b[i] = u[i]
      /\ \A i \in 1..Len(v) : b[Len(u) + i] = v[i]
  <2>1. u \in Seq(Int) /\ v \in Seq(Int)
    BY Zenon, <1>6
  <2> QED
    BY SMTT(30), <1>8, <2>1
<1>9. ASSUME NEW i \in 1..(Len(s) + Len(t))
      PROVE  a[i] = b[i]
  <2>1. \A k \in DOMAIN st : a[k] = m[st[k]]
    BY Zenon, <1>2 DEF W
  <2>2. \A k \in DOMAIN s : u[k] = m[s[k]]
    BY Zenon, <1>3 DEF W
  <2>3. \A k \in DOMAIN t : v[k] = m[t[k]]
    BY Zenon, <1>4 DEF W
  <2>4. CASE i \in 1..Len(s)
    <3>1. st[i] = s[i] /\ i \in DOMAIN s /\ i \in DOMAIN st
      BY Zenon, <1>5, <2>4
    <3>2. b[i] = u[i]
      BY Zenon, <1>6, <1>7, <1>8, <2>4
    <3> QED
      BY Zenon, <2>1, <2>2, <3>1, <3>2
  <2>5. CASE i \notin 1..Len(s)
    <3>1. Len(s) \in Nat /\ Len(t) \in Nat
      BY Zenon, <1>5
    <3>2. i - Len(s) \in 1..Len(t) /\ Len(s) + (i - Len(s)) = i
      BY <2>5, <3>1
    <3>3. PICK j \in 1..Len(t) : i = Len(s) + j
      BY Zenon, <3>2
    <3>4. st[i] = t[j] /\ j \in DOMAIN t /\ i \in DOMAIN st
      BY Zenon, <1>5, <3>3
    <3>5. b[i] = v[j]
      BY Zenon, <1>6, <1>7, <1>8, <3>3
    <3> QED
      BY Zenon, <2>1, <2>3, <3>4, <3>5
  <2> QED
    BY Zenon, <2>4, <2>5
<1>10. a = b
  <2>1. b \in Seq(Int) /\ Len(b) = Len(s) + Len(t) /\ a \in Seq(Int) /\ Len(a) = Len(s) + Len(t)
    BY Zenon, <1>5, <1>6, <1>7, <1>8
  <2>2. Len(a) = Len(b) /\ \A i \in 1..Len(a) : a[i] = b[i]
    BY Zenon, <1>9, <2>1
  <2> QED
    BY Zenon, <2>1, <2>2, SameSequence
<1>11. Sum(u \o v) = Sum(u) + Sum(v)
  <2>1. u \in Seq(Int) /\ v \in Seq(Int)
    BY Zenon, <1>6
  <2> QED
    BY Zenon, <2>1, SumConcat
<1> QED
  BY Zenon, <1>1, <1>2, <1>3, <1>4, <1>8, <1>10, <1>11

\* What a value is worth is an integer.
LEMMA WorthType ==
  ASSUME NEW x, x.amount \in Int, NEW q
  PROVE  Worth(x, q) \in Int
BY DEF Worth

\* Ranked items have a measure: rank by rank.
LEMMA MeasureExists ==
  ASSUME NEW R, Ranked(R), NEW q
  PROVE  \E m : Measures(m, DOMAIN R, q) /\ \A x \in DOMAIN R : m[x] \in Int
<1> DEFINE N == MaxNesting
           D == DOMAIN R
           Good(m, k) == Measures(m, Below(R, k), q) /\ \A x \in Below(R, k) : m[x] \in Int
           K == {k \in Nat : \E m : Good(m, k)}
<1>1. N \in Nat
  BY TxVMAssumptions
<1>2. \A x \in D : R[x] \in 0..N
  BY Zenon DEF Ranked
<1>3. \A x \in D : \/ ~IsContract(x) /\ x.amount \in Int
                   \/ IsContract(x) /\ x.stack \in Seq(Below(R, R[x]))
  <2>1. \A x : ~(IsContract(x) /\ IsValue(x))
    BY DEF IsContract, IsValue
  <2> QED
    BY Zenon, <2>1 DEF Ranked, Whole
<1>4. 0 \in K
  <2>1. \A x \in D : ~(R[x] < 0)
    BY <1>1, <1>2
  <2>2. Below(R, 0) = {}
    BY Zenon, <2>1 DEF Below
  <2>3. Good(<<>>, 0)
    BY Zenon, <2>2 DEF Measures
  <2> QED
    BY <2>3
<1>5. ASSUME NEW k \in Nat, k \in K
      PROVE  k + 1 \in K
  <2>1. PICK m : Good(m, k)
    BY Zenon, <1>5
  <2> DEFINE new(x) == IF IsContract(x) THEN Sum(W(m, x.stack)) ELSE Worth(x, q)
             h == [x \in Below(R, k + 1) |-> new(x)]
  <2>2. \A x \in Below(R, k + 1) : x \in D /\ \A y \in Below(R, R[x]) : y \in Below(R, k)
    <3>1. ASSUME NEW x \in D, R[x] < k + 1, NEW y \in D, R[y] < R[x]
          PROVE  R[y] < k
      BY <1>1, <1>2, <3>1
    <3> QED
      BY Zenon, <3>1 DEF Below
  <2>3. \A x \in Below(R, k + 1) : IsContract(x) => x.stack \in Seq(Below(R, k))
    <3>1. ASSUME NEW x \in Below(R, k + 1), IsContract(x)
          PROVE  x.stack \in Seq(Below(R, k))
      <4>1. x.stack \in Seq(Below(R, R[x])) /\ Below(R, R[x]) \subseteq Below(R, k)
        BY Zenon, <1>3, <2>2, <3>1
      <4> QED
        BY <4>1
    <3> QED
      BY Zenon, <3>1
  <2>4. \A x \in Below(R, k + 1) : new(x) \in Int
    <3>1. ASSUME NEW x \in Below(R, k + 1), IsContract(x)
          PROVE  Sum(W(m, x.stack)) \in Int
      <4>1. W(m, x.stack) \in Seq(Int)
        BY Zenon, <2>1, <2>3, <3>1, WeightsType
      <4> QED
        BY Zenon, <4>1, SumType
    <3>2. ASSUME NEW x \in Below(R, k + 1), ~IsContract(x)
          PROVE  Worth(x, q) \in Int
      BY Zenon, <1>3, <2>2, <3>2, WorthType
    <3> QED
      BY Zenon, <3>1, <3>2
  <2>5. \A x \in Below(R, k) : x \in Below(R, k + 1) /\ h[x] = m[x]
    <3>1. ASSUME NEW x \in D, R[x] < k
          PROVE  R[x] < k + 1
      BY <1>1, <1>2, <3>1
    <3>2. \A x \in Below(R, k) : x \in Below(R, k + 1)
      BY Zenon, <3>1 DEF Below
    <3> QED
      BY Zenon, <2>1, <3>2 DEF Measures
  <2>6. \A x \in Below(R, k + 1) : IsContract(x) => W(h, x.stack) = W(m, x.stack)
    <3>1. ASSUME NEW x \in Below(R, k + 1), IsContract(x)
          PROVE  W(h, x.stack) = W(m, x.stack)
      <4>1. \A i \in DOMAIN x.stack : x.stack[i] \in Below(R, k)
        BY <2>3, <3>1
      <4> QED
        BY Zenon, <2>5, <4>1 DEF W
    <3> QED
      BY Zenon, <3>1
  <2>7. \A x \in Below(R, k + 1) : h[x] = new(x)
    BY Zenon
  <2> HIDE DEF h
  <2>8. Good(h, k + 1)
    BY Zenon, <2>4, <2>6, <2>7 DEF Measures
  <2>9. k + 1 \in Nat
    OBVIOUS
  <2> QED
    BY Zenon, <2>8, <2>9
<1>6. N + 1 \in K
  <2>1. Nat \subseteq K
    <3> HIDE DEF K
    <3> QED
      BY Zenon, <1>4, <1>5, NatSets
  <2>2. N + 1 \in Nat
    BY <1>1
  <2> QED
    BY Zenon, <2>1, <2>2
<1>7. D = Below(R, N + 1)
  <2>1. \A x \in D : R[x] < N + 1
    BY <1>1, <1>2
  <2> QED
    BY Zenon, <2>1 DEF Below
<1> QED
  BY Zenon, <1>6, <1>7

\* What a stack is worth does not depend on the measure: it is the sum of what
\* its items are worth.
LEMMA TotalIs ==
  ASSUME NEW R, Ranked(R), NEW q, NEW m, Measures(m, DOMAIN R, q), NEW s \in Seq(DOMAIN R)
  PROVE  Total(s, q) = Sum(W(m, s))
<1> DEFINE N == MaxNesting
           D == DOMAIN R
           Q == ItemsWithin(s)
           new(f, x) == IF IsContract(x) THEN Sum(W(f, x.stack)) ELSE Worth(x, q)
           Solves(f) == f = [x \in Q |-> new(f, x)]
           f0 == CHOOSE f : Solves(f)
<1>1. N \in Nat
  BY TxVMAssumptions
<1>2. \A x \in D : R[x] \in 0..N
  BY Zenon DEF Ranked
<1>3. \A x \in D : IsContract(x) => x.stack \in Seq(Below(R, R[x]))
  <2>1. \A x : ~(IsContract(x) /\ IsValue(x))
    BY DEF IsContract, IsValue
  <2> QED
    BY Zenon, <2>1 DEF Ranked, Whole
<1>4. /\ ItemsOn(s) \subseteq Q /\ Q \subseteq D
      /\ \A x \in Q : IsContract(x) => ItemsOn(x.stack) \subseteq Q
  BY Zenon, WithinFacts
<1>5. \A x \in Q : IsContract(x) => \A i \in DOMAIN x.stack : x.stack[i] \in Q /\ R[x.stack[i]] < R[x]
  <2>1. ASSUME NEW x \in Q, IsContract(x), NEW i \in DOMAIN x.stack
        PROVE  x.stack[i] \in Q /\ R[x.stack[i]] < R[x]
    <3>1. x.stack \in Seq(Below(R, R[x]))
      BY Zenon, <1>3, <1>4, <2>1
    <3>2. x.stack[i] \in ItemsOn(x.stack) /\ x.stack[i] \in Below(R, R[x])
      BY Zenon, <2>1, <3>1, OnFacts
    <3> QED
      BY Zenon, <1>4, <2>1, <3>2 DEF Below
  <2> QED
    BY Zenon, <2>1
<1>6. \A f, g : (\A y \in Q : f[y] = g[y]) =>
        \A x \in Q : IsContract(x) => W(f, x.stack) = W(g, x.stack)
  BY Zenon, <1>5 DEF W
<1> HIDE DEF Q
<1>7. Solves(f0)
  <2> DEFINE g == [x \in Q |-> m[x]]
  <2>1. \A y \in Q : g[y] = m[y]
    BY Zenon
  <2>2. \A x \in Q : IsContract(x) => W(g, x.stack) = W(m, x.stack)
    BY Zenon, <1>6, <2>1
  <2>3. \A x \in Q : m[x] = new(g, x)
    BY Zenon, <1>4, <2>2 DEF Measures
  <2>4. g = [x \in Q |-> new(g, x)]
    BY Zenon, <2>3
  <2> HIDE DEF g
  <2>5. Solves(g)
    BY Zenon, <2>4
  <2> QED
    BY Zenon, <2>5
<1>8. Total(s, q) = Sum(W(f0, s))
  BY Zenon DEF Total, W, Q
<1> HIDE DEF f0
<1>9. \A x \in Q : f0[x] = new(f0, x)
  BY Zenon, <1>7
<1> DEFINE K == {k \in Nat : \A x \in Q : R[x] < k => f0[x] = m[x]}
<1>10. 0 \in K
  <2>1. \A x \in Q : ~(R[x] < 0)
    BY <1>1, <1>2, <1>4
  <2> QED
    BY Zenon, <2>1, 0 \in Nat
<1>11. ASSUME NEW k \in Nat, k \in K
       PROVE  k + 1 \in K
  <2>1. ASSUME NEW x \in Q, R[x] < k + 1
        PROVE  f0[x] = m[x]
    <3>1. CASE IsContract(x)
      <4>1. ASSUME NEW i \in DOMAIN x.stack
            PROVE  f0[x.stack[i]] = m[x.stack[i]]
        <5>1. x.stack[i] \in Q /\ R[x.stack[i]] < R[x] /\ x \in D /\ x.stack[i] \in D
          BY Zenon, <1>4, <1>5, <3>1
        <5>2. R[x.stack[i]] \in Int /\ R[x] \in Int
          BY <1>1, <1>2, <5>1
        <5>3. R[x.stack[i]] < k
          BY <2>1, <5>1, <5>2
        <5> QED
          BY Zenon, <1>11, <5>1, <5>3
      <4>2. W(f0, x.stack) = W(m, x.stack)
        BY Zenon, <4>1 DEF W
      <4> QED
        BY Zenon, <1>4, <1>9, <3>1, <4>2 DEF Measures
    <3>2. CASE ~IsContract(x)
      BY Zenon, <1>4, <1>9, <3>2 DEF Measures
    <3> QED
      BY Zenon, <3>1, <3>2
  <2>2. k + 1 \in Nat
    OBVIOUS
  <2> QED
    BY Zenon, <2>1, <2>2
<1>12. Nat \subseteq K
  <2> HIDE DEF K
  <2> QED
    BY Zenon, <1>10, <1>11, NatSets
<1>13. \A x \in Q : f0[x] = m[x]
  <2>1. N + 1 \in Nat /\ \A x \in D : R[x] < N + 1
    BY <1>1, <1>2
  <2> QED
    BY Zenon, <1>4, <1>12, <2>1
<1>14. \A i \in DOMAIN s : s[i] \in Q
  BY Zenon, <1>4, OnFacts
<1>15. W(f0, s) = W(m, s)
  BY Zenon, <1>13, <1>14 DEF W
<1> QED
  BY Zenon, <1>8, <1>15

\* What stacks of ranked items are worth.
LEMMA Totals ==
  ASSUME NEW R, Ranked(R), NEW q
  PROVE  /\ \A s \in Seq(DOMAIN R) : Total(s, q) \in Int
         /\ Total(<<>>, q) = 0
         /\ \A s, t \in Seq(DOMAIN R) : Total(s \o t, q) = Total(s, q) + Total(t, q)
         /\ \A x \in DOMAIN R :
              Total(<<x>>, q) = IF IsContract(x) THEN Total(x.stack, q) ELSE Worth(x, q)
<1> DEFINE D == DOMAIN R
<1>1. PICK m : Measures(m, D, q) /\ \A x \in D : m[x] \in Int
  BY Zenon, MeasureExists
<1>2. \A s \in Seq(D) : Total(s, q) = Sum(W(m, s)) /\ W(m, s) \in Seq(Int)
  <2>1. ASSUME NEW s \in Seq(D)
        PROVE  Total(s, q) = Sum(W(m, s)) /\ W(m, s) \in Seq(Int)
    <3>1. Total(s, q) = Sum(W(m, s))
      BY Zenon, <1>1, TotalIs
    <3>2. W(m, s) \in Seq(Int)
      BY Zenon, <1>1, WeightsType
    <3> QED
      BY Zenon, <3>1, <3>2
  <2> QED
    BY Zenon, <2>1
<1>3. \A s \in Seq(D) : Total(s, q) \in Int
  BY Zenon, <1>2, SumType
<1>4. Total(<<>>, q) = 0
  <2>1. <<>> \in Seq(D) /\ W(m, <<>>) = <<>>
    BY DEF W
  <2> QED
    BY Zenon, <1>2, <2>1, SumSmall
<1>5. ASSUME NEW s \in Seq(D), NEW t \in Seq(D)
      PROVE  Total(s \o t, q) = Total(s, q) + Total(t, q)
  <2>1. s \o t \in Seq(D)
    OBVIOUS
  <2>2. \A x \in D : m[x] \in Int
    BY Zenon, <1>1
  <2>3. \A a, b \in Seq(D) : Sum(W(m, a \o b)) = Sum(W(m, a)) + Sum(W(m, b))
    BY Zenon, <2>2, WeightsConcat
  <2> QED
    BY Zenon, <1>2, <2>1, <2>3
<1>6. ASSUME NEW x \in D
      PROVE  Total(<<x>>, q) = IF IsContract(x) THEN Total(x.stack, q) ELSE Worth(x, q)
  <2>1. <<x>> \in Seq(D) /\ W(m, <<x>>) = <<m[x]>>
    BY DEF W
  <2>2. m[x] \in Int
    BY Zenon, <1>1
  <2>3. Total(<<x>>, q) = m[x]
    BY Zenon, <1>2, <2>1, <2>2, SumSmall
  <2>4. CASE IsContract(x)
    <3>1. x.stack \in Seq(Below(R, R[x]))
      <4>1. ~IsValue(x)
        BY <2>4 DEF IsContract, IsValue
      <4> QED
        BY Zenon, <2>4, <4>1 DEF Ranked, Whole
    <3>2. x.stack \in Seq(D)
      BY <3>1 DEF Below
    <3>3. m[x] = Sum(W(m, x.stack))
      BY Zenon, <1>1, <2>4 DEF Measures
    <3> QED
      BY Zenon, <1>2, <2>3, <2>4, <3>2, <3>3
  <2>5. CASE ~IsContract(x)
    BY Zenon, <1>1, <2>3, <2>5 DEF Measures
  <2> QED
    BY Zenon, <2>4, <2>5
<1> QED
  BY Zenon, <1>3, <1>4, <1>5, <1>6

(***************************************************************************)
(* Stacks: an instruction moves items, and what they are worth.            *)
(***************************************************************************)
\* The sequences over a larger set.
LEMMA SeqMono ==
  ASSUME NEW P, NEW Q, P \subseteq Q, NEW s \in Seq(P)
  PROVE  s \in Seq(Q)
OBVIOUS

\* What the stack operations make of items from P are items from P: popping,
LEMMA PopIn ==
  ASSUME NEW P, NEW s \in Seq(P), NEW n \in 0..Len(s)
  PROVE  Pop(s, n) \in Seq(P)
BY DEF Pop

\* peeking,
LEMMA PeekIn ==
  ASSUME NEW P, NEW s \in Seq(P), NEW n \in Nat, n < Len(s)
  PROVE  Peek(s, n) \in P
BY DEF Peek

\* a stack of one item,
LEMMA OneIn ==
  ASSUME NEW P, NEW x \in P
  PROVE  <<x>> \in Seq(P)
OBVIOUS

\* one stack on another,
LEMMA ConcatIn ==
  ASSUME NEW P, NEW s \in Seq(P), NEW t \in Seq(P)
  PROVE  s \o t \in Seq(P)
OBVIOUS

\* rolling,
LEMMA RollIn ==
  ASSUME NEW P, NEW s \in Seq(P), NEW n \in Nat, n < Len(s)
  PROVE  Roll(s, n) \in Seq(P)
<1> DEFINE i == Len(s) - n
<1>1. i \in 1..Len(s)
  OBVIOUS
<1> HIDE DEF i
<1>2. SubSeq(s, 1, i - 1) \in Seq(P) /\ SubSeq(s, i + 1, Len(s)) \in Seq(P) /\ s[i] \in P
  BY <1>1
<1>3. <<s[i]>> \in Seq(P)
  BY Zenon, <1>2, OneIn
<1>4. SubSeq(s, 1, i - 1) \o SubSeq(s, i + 1, Len(s)) \in Seq(P)
  BY Zenon, <1>2, ConcatIn
<1> QED
  BY Zenon, <1>3, <1>4, ConcatIn DEF Roll, i

\* burying,
LEMMA BuryIn ==
  ASSUME NEW P, NEW s \in Seq(P), NEW n \in Nat, n < Len(s)
  PROVE  Bury(s, n) \in Seq(P)
<1> DEFINE i == Len(s) - 1 - n
<1>1. i \in 0..(Len(s) - 1) /\ Len(s) \in Nat /\ 0 \in Nat /\ 0 < Len(s)
  OBVIOUS
<1> HIDE DEF i
<1>2. SubSeq(s, 1, i) \in Seq(P) /\ SubSeq(s, i + 1, Len(s) - 1) \in Seq(P)
  BY <1>1
<1>3. <<Peek(s, 0)>> \in Seq(P)
  BY Zenon, <1>1, PeekIn, OneIn
<1>4. SubSeq(s, 1, i) \o <<Peek(s, 0)>> \in Seq(P)
  BY Zenon, <1>2, <1>3, ConcatIn
<1> QED
  BY Zenon, <1>2, <1>4, ConcatIn DEF Bury, i

\* and reversing.
LEMMA ReverseIn ==
  ASSUME NEW P, NEW s \in Seq(P), NEW n \in Nat, n <= Len(s)
  PROVE  ReverseTop(s, n) \in Seq(P)
<1> DEFINE i == Len(s) - n
           top == [k \in 1..n |-> s[Len(s) + 1 - k]]
<1>1. i \in 0..Len(s) /\ \A k \in 1..n : Len(s) + 1 - k \in 1..Len(s)
  OBVIOUS
<1>2. SubSeq(s, 1, i) \in Seq(P)
  BY <1>1
<1>3. \A k \in 1..n : s[Len(s) + 1 - k] \in P
  BY <1>1
<1>4. top \in Seq(P)
  BY <1>3
<1> QED
  BY Zenon, <1>2, <1>4, ConcatIn DEF ReverseTop

\* A stack is what is under its top item, and that; or its top two.
LEMMA TotalPop ==
  ASSUME NEW R, Ranked(R), NEW q, NEW s \in Seq(DOMAIN R), Len(s) > 0
  PROVE  Total(s, q) = Total(Pop(s, 1), q) + Total(<<Peek(s, 0)>>, q)
<1> DEFINE D == DOMAIN R
<1>1. Len(s) \in Nat /\ 0 \in Nat /\ 0 < Len(s) /\ 1 \in 0..Len(s)
  OBVIOUS
<1>2. Pop(s, 1) \in Seq(D) /\ <<Peek(s, 0)>> \in Seq(D)
  BY Zenon, <1>1, PopIn, PeekIn, OneIn
<1>3. s = Pop(s, 1) \o <<Peek(s, 0)>>
  BY DEF Pop, Peek
<1> QED
  BY Zenon, <1>2, <1>3, Totals

\* A stack is worth its two topmost items and what is below.
LEMMA TotalPopTwo ==
  ASSUME NEW R, Ranked(R), NEW q, NEW s \in Seq(DOMAIN R), Len(s) > 1
  PROVE  Total(s, q) = Total(Pop(s, 2), q) + Total(<<Peek(s, 1)>>, q) + Total(<<Peek(s, 0)>>, q)
<1> DEFINE D == DOMAIN R
<1>1. /\ Len(s) \in Nat /\ 0 \in Nat /\ 0 < Len(s) /\ 1 \in 0..Len(s) /\ 1 \in Nat /\ 1 < Len(s)
      /\ Len(s) > 0
  OBVIOUS
<1>2. PICK t : t = Pop(s, 1)
  BY Zenon
<1>3. t \in Seq(D)
  BY Zenon, <1>1, <1>2, PopIn
<1>4. Len(t) > 0 /\ Pop(t, 1) = Pop(s, 2) /\ Peek(t, 0) = Peek(s, 1)
  BY <1>1, <1>2 DEF Pop, Peek
<1>5. Total(s, q) = Total(t, q) + Total(<<Peek(s, 0)>>, q)
  BY Zenon, <1>1, <1>2, TotalPop
<1>6. Total(t, q) = Total(Pop(t, 1), q) + Total(<<Peek(t, 0)>>, q)
  BY Zenon, <1>3, <1>4, TotalPop
<1> QED
  BY Zenon, <1>4, <1>5, <1>6

\* roll and bury move one item.
LEMMA TotalRoll ==
  ASSUME NEW R, Ranked(R), NEW q, NEW s \in Seq(DOMAIN R), NEW n \in Nat, n < Len(s)
  PROVE  Total(Roll(s, n), q) = Total(s, q)
<1> DEFINE D == DOMAIN R
           i == Len(s) - n
           a == SubSeq(s, 1, i - 1)
           b == SubSeq(s, i + 1, Len(s))
           x == <<s[i]>>
<1>1. i \in 1..Len(s)
  OBVIOUS
<1> HIDE DEF i
<1>2. a \in Seq(D) /\ b \in Seq(D) /\ s[i] \in D
  BY <1>1
<1>3. x \in Seq(D)
  BY Zenon, <1>2, OneIn
<1>4. s = (a \o x) \o b
  <2>1. /\ Len(s) \in Nat /\ 1 \in 1..Len(s) /\ i \in 1..Len(s)
        /\ 1 \in 1..(Len(s) + 1) /\ i \in (1 - 1)..Len(s) /\ Len(s) \in i..Len(s)
    BY <1>1
  <2>2. SubSeq(s, 1, i) = a \o x
    BY <2>1, Slices
  <2>3. SubSeq(s, 1, i) \o b = SubSeq(s, 1, Len(s))
    BY <2>1, Slices
  <2>4. SubSeq(s, 1, Len(s)) = s
    BY Slices
  <2> QED
    BY Zenon, <2>2, <2>3, <2>4
<1>5. Roll(s, n) = (a \o b) \o x
  BY Zenon DEF Roll, i
<1> HIDE DEF a, b, x
<1>6. a \o x \in Seq(D) /\ a \o b \in Seq(D)
  BY Zenon, <1>2, <1>3, ConcatIn
<1>7. /\ Total(s, q) = (Total(a, q) + Total(x, q)) + Total(b, q)
      /\ Total(Roll(s, n), q) = (Total(a, q) + Total(b, q)) + Total(x, q)
      /\ Total(a, q) \in Int /\ Total(b, q) \in Int /\ Total(x, q) \in Int
  <2>1. \A u \in Seq(D) : Total(u, q) \in Int
    BY Zenon, Totals
  <2>2. \A u, v \in Seq(D) : Total(u \o v, q) = Total(u, q) + Total(v, q)
    BY Zenon, Totals
  <2>3. Total(a \o x, q) = Total(a, q) + Total(x, q) /\ Total(a \o b, q) = Total(a, q) + Total(b, q)
    BY Zenon, <1>2, <1>3, <2>2
  <2>4. /\ Total((a \o x) \o b, q) = Total(a \o x, q) + Total(b, q)
        /\ Total((a \o b) \o x, q) = Total(a \o b, q) + Total(x, q)
    BY Zenon, <1>2, <1>3, <1>6, <2>2
  <2>5. Total(a, q) \in Int /\ Total(b, q) \in Int /\ Total(x, q) \in Int
    BY Zenon, <1>2, <1>3, <2>1
  <2> QED
    BY Zenon, <1>4, <1>5, <2>3, <2>4, <2>5
<1> QED
  BY <1>7

\* bury: the topmost item goes below n others.
LEMMA TotalBury ==
  ASSUME NEW R, Ranked(R), NEW q, NEW s \in Seq(DOMAIN R), NEW n \in Nat, n < Len(s)
  PROVE  Total(Bury(s, n), q) = Total(s, q)
<1> DEFINE D == DOMAIN R
           i == Len(s) - 1 - n
           a == SubSeq(s, 1, i)
           b == SubSeq(s, i + 1, Len(s) - 1)
           x == <<Peek(s, 0)>>
<1>1. i \in 0..(Len(s) - 1) /\ Len(s) \in Nat /\ 0 \in Nat /\ 0 < Len(s)
  OBVIOUS
<1> HIDE DEF i
<1>2. a \in Seq(D) /\ b \in Seq(D)
  BY <1>1
<1>3. x \in Seq(D)
  BY Zenon, <1>1, PeekIn, OneIn
<1>4. s = (a \o b) \o x
  <2>1. /\ Len(s) \in Nat /\ 1 \in 1..Len(s) /\ Len(s) \in 1..Len(s) /\ Len(s) - 1 \in i..Len(s)
        /\ 1 \in 1..(Len(s) + 1) /\ i \in (1 - 1)..Len(s)
    BY <1>1
  <2>2. SubSeq(s, 1, Len(s)) = SubSeq(s, 1, Len(s) - 1) \o x
    BY SMTT(30), <2>1, Slices DEF Peek
  <2>3. a \o b = SubSeq(s, 1, Len(s) - 1)
    BY <2>1, Slices
  <2>4. SubSeq(s, 1, Len(s)) = s
    BY Slices
  <2> QED
    BY Zenon, <2>2, <2>3, <2>4
<1>5. Bury(s, n) = (a \o x) \o b
  BY Zenon DEF Bury, i
<1> HIDE DEF a, b, x
<1>6. a \o x \in Seq(D) /\ a \o b \in Seq(D)
  BY Zenon, <1>2, <1>3, ConcatIn
<1>7. /\ Total(s, q) = (Total(a, q) + Total(b, q)) + Total(x, q)
      /\ Total(Bury(s, n), q) = (Total(a, q) + Total(x, q)) + Total(b, q)
      /\ Total(a, q) \in Int /\ Total(b, q) \in Int /\ Total(x, q) \in Int
  <2>1. \A u \in Seq(D) : Total(u, q) \in Int
    BY Zenon, Totals
  <2>2. \A u, v \in Seq(D) : Total(u \o v, q) = Total(u, q) + Total(v, q)
    BY Zenon, Totals
  <2>3. Total(a \o x, q) = Total(a, q) + Total(x, q) /\ Total(a \o b, q) = Total(a, q) + Total(b, q)
    BY Zenon, <1>2, <1>3, <2>2
  <2>4. /\ Total((a \o x) \o b, q) = Total(a \o x, q) + Total(b, q)
        /\ Total((a \o b) \o x, q) = Total(a \o b, q) + Total(x, q)
    BY Zenon, <1>2, <1>3, <1>6, <2>2
  <2>5. Total(a, q) \in Int /\ Total(b, q) \in Int /\ Total(x, q) \in Int
    BY Zenon, <1>2, <1>3, <2>1
  <2> QED
    BY Zenon, <1>4, <1>5, <2>3, <2>4, <2>5
<1> QED
  BY <1>7

\* reverse: item by item.
Reversed(s, n) == [k \in 1..n |-> s[Len(s) + 1 - k]]

\* The n topmost items from the top down, and one more.
LEMMA ReversedGrows ==
  ASSUME NEW P, NEW s \in Seq(P), NEW n \in Nat, n < Len(s)
  PROVE  /\ Reversed(s, n) \in Seq(P) /\ Reversed(s, n + 1) \in Seq(P)
         /\ Reversed(s, n + 1) = Reversed(s, n) \o <<s[Len(s) - n]>>
         /\ s[Len(s) - n] \in P
<1>1. \A k \in 1..(n + 1) : Len(s) + 1 - k \in 1..Len(s)
  OBVIOUS
<1>2. \A k \in 1..(n + 1) : s[Len(s) + 1 - k] \in P
  BY <1>1
<1>3. Reversed(s, n) \in Seq(P) /\ Len(Reversed(s, n)) = n
  BY <1>2 DEF Reversed
<1>4. Reversed(s, n + 1) \in Seq(P) /\ Len(Reversed(s, n + 1)) = n + 1
  BY <1>2 DEF Reversed
<1>5. s[Len(s) - n] \in P /\ Len(s) + 1 - (n + 1) = Len(s) - n
  OBVIOUS
<1> DEFINE a == Reversed(s, n + 1)
           b == Reversed(s, n)
           c == b \o <<s[Len(s) - n]>>
<1>6. \A k \in 1..n : a[k] = b[k]
  BY DEF Reversed
<1>7. a[n + 1] = s[Len(s) - n]
  BY <1>5 DEF Reversed
<1> HIDE DEF a, b
<1>8. c \in Seq(P) /\ Len(c) = n + 1 /\ c[n + 1] = s[Len(s) - n] /\ \A k \in 1..n : c[k] = b[k]
  BY <1>3, <1>5 DEF b
<1> HIDE DEF c
<1>9. a = c
  <2>1. \A k \in 1..(n + 1) : k \in 1..n \/ k = n + 1
    OBVIOUS
  <2>2. \A k \in 1..(n + 1) : a[k] = c[k]
    BY Zenon, <1>6, <1>7, <1>8, <2>1
  <2> QED
    BY Zenon, <1>4, <1>8, <2>2, SameSequence DEF a
<1> QED
  BY Zenon, <1>3, <1>4, <1>5, <1>9 DEF a, b, c

\* reverse, by induction over the number of items.
LEMMA TotalReverse ==
  ASSUME NEW R, Ranked(R), NEW q, NEW s \in Seq(DOMAIN R), NEW n \in Nat, n <= Len(s)
  PROVE  Total(ReverseTop(s, n), q) = Total(s, q)
<1> DEFINE D == DOMAIN R
           l == Len(s)
           Same(k) == Reversed(s, k) \in Seq(D) /\ Total(Reversed(s, k), q) = Total(SubSeq(s, l - k + 1, l), q)
           K == {k \in Nat : k <= l => Same(k)}
<1>1. l \in Nat
  OBVIOUS
<1>2. \A u \in Seq(D) : Total(u, q) \in Int
  BY Zenon, Totals
<1>3. \A u, v \in Seq(D) : Total(u \o v, q) = Total(u, q) + Total(v, q)
  BY Zenon, Totals
<1>4. 0 \in K
  <2>1. Reversed(s, 0) = <<>> /\ SubSeq(s, l - 0 + 1, l) = <<>> /\ <<>> \in Seq(D)
    BY <1>1 DEF Reversed
  <2> QED
    BY Zenon, <2>1, 0 \in Nat
<1>5. ASSUME NEW k \in Nat, k \in K
      PROVE  k + 1 \in K
  <2>1. k + 1 \in Nat
    OBVIOUS
  <2>2. ASSUME k + 1 <= l
        PROVE  Same(k + 1)
    <3>1. /\ k < l /\ k <= l /\ l - k \in 1..l /\ l \in (l - k)..l /\ l - (k + 1) + 1 = l - k
          /\ l - k + 1 \in 1..(l + 1)
      BY <1>1, <2>2
    <3> DEFINE x == <<s[l - k]>>
               b == SubSeq(s, l - k + 1, l)
    <3>2. /\ Reversed(s, k) \in Seq(D) /\ Reversed(s, k + 1) \in Seq(D)
          /\ Reversed(s, k + 1) = Reversed(s, k) \o x
          /\ s[l - k] \in D
      BY Zenon, <3>1, ReversedGrows
    <3>3. SubSeq(s, l - k, l) = x \o b
      BY <3>1, Slices
    <3>4. b \in Seq(D)
      BY <1>1, <3>1
    <3>5. x \in Seq(D)
      BY Zenon, <3>2, OneIn
    <3> HIDE DEF x, b
    <3>6. /\ Total(Reversed(s, k) \o x, q) = Total(Reversed(s, k), q) + Total(x, q)
          /\ Total(x \o b, q) = Total(x, q) + Total(b, q)
          /\ Total(x, q) \in Int /\ Total(b, q) \in Int
      BY Zenon, <1>2, <1>3, <3>2, <3>4, <3>5
    <3>7. Total(Reversed(s, k), q) = Total(b, q)
      BY Zenon, <1>5, <3>1 DEF b
    <3>8. Total(Reversed(s, k) \o x, q) = Total(x \o b, q)
      BY <3>6, <3>7
    <3> QED
      BY Zenon, <3>1, <3>2, <3>3, <3>8
  <2> QED
    BY Zenon, <2>1, <2>2
<1>6. n \in K
  <2> HIDE DEF K
  <2> QED
    BY Zenon, <1>4, <1>5, NatSets
<1>7. Same(n)
  BY Zenon, <1>6
<1> DEFINE a == SubSeq(s, 1, l - n)
           b == SubSeq(s, l - n + 1, l)
<1>8. a \o b = SubSeq(s, 1, l)
  <2>1. 1 \in 1..(l + 1) /\ l - n \in (1 - 1)..l /\ l \in (l - n)..l
    BY <1>1
  <2> QED
    BY <2>1, Slices
<1>9. SubSeq(s, 1, l) = s
  BY Slices
<1>10. a \in Seq(D) /\ b \in Seq(D)
  BY <1>1
<1>11. ReverseTop(s, n) = a \o Reversed(s, n)
  BY Zenon DEF ReverseTop, Reversed
<1> HIDE DEF a
<1>12. Total(a \o b, q) = Total(a, q) + Total(b, q) /\ Total(a \o Reversed(s, n), q) = Total(a, q) + Total(b, q)
  BY Zenon, <1>3, <1>7, <1>10
<1> QED
  BY Zenon, <1>8, <1>9, <1>11, <1>12


\* The weight of a stack of one item.
LEMMA WeightOne ==
  ASSUME NEW m, NEW x, m[x] \in Int
  PROVE  Sum(W(m, <<x>>)) = m[x]
<1>1. W(m, <<x>>) = <<m[x]>>
  BY DEF W
<1> QED
  BY Zenon, <1>1, SumSmall
=============================================================================
