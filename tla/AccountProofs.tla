--------------------------- MODULE AccountProofs ----------------------------
(***************************************************************************)
(* The theorems about module TxVMAccounts.                                 *)
(***************************************************************************)
EXTENDS TotalProofs, TxVMProofs

(***************************************************************************)
(* What the calls hold and what the log says, over a set D of items.       *)
(***************************************************************************)
\* A sequence of elements of P.
LEMMA SeqOf ==
  ASSUME NEW s, IsSeq(s), NEW P, \A i \in DOMAIN s : s[i] \in P
  PROVE  s \in Seq(P)
BY DEF IsSeq

CallsIn(D, c) == \A i \in DOMAIN c : c[i].con.stack \in Seq(D)
Frames(c, q) == [i \in DOMAIN c |-> Total(c[i].con.stack, q)]

\* One call more holds what its stack holds.
LEMMA FramesAppend ==
  ASSUME NEW R, Ranked(R), NEW q, NEW c, IsSeq(c), CallsIn(DOMAIN R, c),
         NEW f, f.con.stack \in Seq(DOMAIN R)
  PROVE  /\ Sum(Frames(c, q)) \in Int
         /\ Sum(Frames(Append(c, f), q)) = Sum(Frames(c, q)) + Total(f.con.stack, q)
<1>1. PICK S : c \in Seq(S)
  BY Zenon DEF IsSeq
<1> DEFINE D == DOMAIN R
           P == {x \in S \cup {f} : x.con.stack \in Seq(D)}
           m == [x \in P |-> Total(x.con.stack, q)]
<1>2. \A i \in DOMAIN c : c[i] \in S
  BY <1>1
<1>3. f \in P /\ \A i \in DOMAIN c : c[i] \in P
  BY Zenon, <1>2 DEF CallsIn
<1>4. \A x \in P : m[x] = Total(x.con.stack, q) /\ x.con.stack \in Seq(D)
  BY Zenon
<1>5. \A x \in P : m[x] \in Int
  BY Zenon, <1>4, Totals
<1> HIDE DEF P, m
<1>6. c \in Seq(P)
  BY Zenon, <1>3, SeqOf
<1>7. <<f>> \in Seq(P)
  BY Zenon, <1>3, OneIn
<1>8. Frames(c, q) = W(m, c)
  BY Zenon, <1>3, <1>4 DEF Frames, W
<1>9. PICK e : e = Append(c, f)
  BY Zenon
<1>10. e = c \o <<f>>
  BY Zenon, <1>9, ConcatFacts
<1>11. e \in Seq(P)
  BY Zenon, <1>6, <1>7, <1>10, ConcatIn
<1>12. \A i \in DOMAIN e : e[i] \in P
  BY <1>11
<1>13. Frames(e, q) = W(m, e)
  BY Zenon, <1>4, <1>12 DEF Frames, W
<1>14. \A s, t \in Seq(P) : Sum(W(m, s \o t)) = Sum(W(m, s)) + Sum(W(m, t))
  BY Zenon, <1>5, WeightsConcat
<1>15. Sum(W(m, e)) = Sum(W(m, c)) + Sum(W(m, <<f>>))
  BY Zenon, <1>6, <1>7, <1>10, <1>14
<1>16. Sum(W(m, <<f>>)) = Total(f.con.stack, q)
  BY Zenon, <1>3, <1>4, <1>5, WeightOne
<1>17. W(m, c) \in Seq(Int)
  BY Zenon, <1>5, <1>6, WeightsType
<1>18. Sum(W(m, c)) \in Int
  BY Zenon, <1>17, SumType
<1> QED
  BY Zenon, <1>8, <1>9, <1>13, <1>15, <1>16, <1>18

\* A log item, and what it adds to what came in less what went out.
Sound(D, x) ==
  /\ x.code \in {"I", "O"} => x.id[2].stack \in Seq(D)
  /\ x.code = "O" => stackPortable(x.id[2].stack)
  /\ x.code \in {"A", "X"} => x.amount \in Int

LogIn(D, l) == IsSeq(l) /\ \A i \in DOMAIN l : Sound(D, l[i])
Part(x, codes, q) == IF x.code \in codes THEN Entry(x, q) ELSE 0
Parts(l, codes, q) == [i \in DOMAIN l |-> Part(l[i], codes, q)]
InCodes == {"I", "A"}
OutCodes == {"O", "X"}

\* What an item of the log counts for is an integer.
LEMMA PartType ==
  ASSUME NEW R, Ranked(R), NEW q, NEW x, Sound(DOMAIN R, x), NEW codes \in {InCodes, OutCodes}
  PROVE  Part(x, codes, q) \in Int
<1>1. CASE x.code \in {"I", "O"}
  <2>1. Total(x.id[2].stack, q) \in Int
    BY Zenon, <1>1, Totals DEF Sound
  <2> QED
    BY <1>1, <2>1 DEF Part, Entry
<1>2. CASE x.code \in {"A", "X"}
  <2>1. Worth(x, q) \in Int
    BY Zenon, <1>2, WorthType DEF Sound
  <2>2. Entry(x, q) = Worth(x, q)
    BY <1>2 DEF Entry
  <2> QED
    BY <2>1, <2>2 DEF Part
<1>3. CASE x.code \notin {"I", "O", "A", "X"}
  BY <1>3 DEF Part, InCodes, OutCodes
<1> QED
  BY <1>1, <1>2, <1>3

\* One item more in the log counts for what it says.
LEMMA PartsAppend ==
  ASSUME NEW R, Ranked(R), NEW q, NEW l, LogIn(DOMAIN R, l), NEW x, Sound(DOMAIN R, x),
         NEW codes \in {InCodes, OutCodes}
  PROVE  /\ Sum(Parts(l, codes, q)) \in Int
         /\ Sum(Parts(Append(l, x), codes, q)) = Sum(Parts(l, codes, q)) + Part(x, codes, q)
<1>1. PICK S : l \in Seq(S)
  BY Zenon DEF IsSeq, LogIn
<1> DEFINE D == DOMAIN R
           P == {y \in S \cup {x} : Sound(D, y)}
           m == [y \in P |-> Part(y, codes, q)]
<1>2. \A i \in DOMAIN l : l[i] \in S
  BY <1>1
<1>3. x \in P /\ \A i \in DOMAIN l : l[i] \in P
  BY Zenon, <1>2 DEF LogIn
<1>4. \A y \in P : m[y] = Part(y, codes, q) /\ Sound(D, y)
  BY Zenon
<1>5. \A y \in P : m[y] \in Int
  BY Zenon, <1>4, PartType
<1> HIDE DEF P, m
<1>6. l \in Seq(P)
  BY Zenon, <1>3, SeqOf DEF LogIn
<1>7. <<x>> \in Seq(P)
  BY Zenon, <1>3, OneIn
<1>8. Parts(l, codes, q) = W(m, l)
  BY Zenon, <1>3, <1>4 DEF Parts, W
<1>9. PICK e : e = Append(l, x)
  BY Zenon
<1>10. e = l \o <<x>>
  BY Zenon, <1>9, ConcatFacts DEF LogIn
<1>11. e \in Seq(P)
  BY Zenon, <1>6, <1>7, <1>10, ConcatIn
<1>12. \A i \in DOMAIN e : e[i] \in P
  BY <1>11
<1>13. Parts(e, codes, q) = W(m, e)
  BY Zenon, <1>4, <1>12 DEF Parts, W
<1>14. \A s, t \in Seq(P) : Sum(W(m, s \o t)) = Sum(W(m, s)) + Sum(W(m, t))
  BY Zenon, <1>5, WeightsConcat
<1>15. Sum(W(m, e)) = Sum(W(m, l)) + Sum(W(m, <<x>>))
  BY Zenon, <1>6, <1>7, <1>10, <1>14
<1>16. Sum(W(m, <<x>>)) = Part(x, codes, q)
  BY Zenon, <1>3, <1>4, <1>5, WeightOne
<1>17. W(m, l) \in Seq(Int)
  BY Zenon, <1>5, <1>6, WeightsType
<1>18. Sum(W(m, l)) \in Int
  BY Zenon, <1>17, SumType
<1> QED
  BY Zenon, <1>8, <1>9, <1>13, <1>15, <1>16, <1>18

Net(l, q) == Sum(Parts(l, InCodes, q)) - Sum(Parts(l, OutCodes, q))
Gain(x, q) == Part(x, InCodes, q) - Part(x, OutCodes, q)

\* The same of what came in less what went out.
LEMMA NetAppend ==
  ASSUME NEW R, Ranked(R), NEW q, NEW l, LogIn(DOMAIN R, l), NEW x, Sound(DOMAIN R, x)
  PROVE  /\ Net(l, q) \in Int /\ Gain(x, q) \in Int
         /\ Net(Append(l, x), q) = Net(l, q) + Gain(x, q)
         /\ LogIn(DOMAIN R, Append(l, x))
<1>1. InCodes \in {InCodes, OutCodes} /\ OutCodes \in {InCodes, OutCodes}
  BY Zenon
<1>2. /\ Sum(Parts(l, InCodes, q)) \in Int /\ Part(x, InCodes, q) \in Int
      /\ Sum(Parts(Append(l, x), InCodes, q)) = Sum(Parts(l, InCodes, q)) + Part(x, InCodes, q)
  <2>1. Part(x, InCodes, q) \in Int
    BY Zenon, <1>1, PartType
  <2>2. /\ Sum(Parts(l, InCodes, q)) \in Int
        /\ Sum(Parts(Append(l, x), InCodes, q)) = Sum(Parts(l, InCodes, q)) + Part(x, InCodes, q)
    BY <1>1, PartsAppend
  <2> QED
    BY Zenon, <2>1, <2>2
<1>3. /\ Sum(Parts(l, OutCodes, q)) \in Int /\ Part(x, OutCodes, q) \in Int
      /\ Sum(Parts(Append(l, x), OutCodes, q)) = Sum(Parts(l, OutCodes, q)) + Part(x, OutCodes, q)
  <2>1. Part(x, OutCodes, q) \in Int
    BY Zenon, <1>1, PartType
  <2>2. /\ Sum(Parts(l, OutCodes, q)) \in Int
        /\ Sum(Parts(Append(l, x), OutCodes, q)) = Sum(Parts(l, OutCodes, q)) + Part(x, OutCodes, q)
    BY <1>1, PartsAppend
  <2> QED
    BY Zenon, <2>1, <2>2
<1>4. LogIn(DOMAIN R, Append(l, x))
  <2>1. PICK e : e = Append(l, x)
    BY Zenon
  <2>2. /\ IsSeq(e) /\ Len(e) = Len(l) + 1 /\ e[Len(l) + 1] = x
        /\ \A i \in 1..Len(l) : e[i] = l[i]
    BY Zenon, <2>1, AppendFacts DEF LogIn
  <2>3. Len(l) \in Nat /\ DOMAIN l = 1..Len(l) /\ DOMAIN e = 1..Len(e)
    BY Zenon, <2>2, SeqFacts DEF LogIn
  <2>4. \A i \in 1..(Len(l) + 1) : i \in 1..Len(l) \/ i = Len(l) + 1
    BY <2>3
  <2> QED
    BY Zenon, <2>1, <2>2, <2>3, <2>4 DEF LogIn
<1> QED
  BY <1>2, <1>3, <1>4 DEF Net, Gain

\* What an item adds.
LEMMA Gains ==
  ASSUME NEW x, NEW q, Entry(x, q) \in Int
  PROVE  /\ x.code \in InCodes => Gain(x, q) = Entry(x, q)
         /\ x.code \in OutCodes => Gain(x, q) = 0 - Entry(x, q)
         /\ x.code \notin InCodes \cup OutCodes => Gain(x, q) = 0
BY DEF Gain, Part, InCodes, OutCodes

\* Nonces, time ranges, plain log items and finalize move no value.
LEMMA NoGain ==
  ASSUME NEW x, NEW q, x.code \in {"N", "R", "L", "F"}
  PROVE  Gain(x, q) = 0
BY DEF Gain, Part, InCodes, OutCodes

-----------------------------------------------------------------------------
(***************************************************************************)
(* The calls: all but the last, and the last.                              *)
(***************************************************************************)
\* The calls but the last.
LEMMA PopOne ==
  ASSUME NEW T, NEW c \in Seq(T), Len(c) \in Nat, Len(c) > 0, NEW f, f = SubSeq(c, 1, Len(c) - 1)
  PROVE  /\ f \in Seq(T) /\ Len(f) = Len(c) - 1
         /\ \A i \in 1..(Len(c) - 1) : f[i] = c[i]
<1>1. 1 \in 1..(Len(c) + 1) /\ Len(c) - 1 \in (1 - 1)..Len(c) /\ (Len(c) - 1) - 1 + 1 = Len(c) - 1
  OBVIOUS
<1>2. \A i \in 1..(Len(c) - 1) : 1 + i - 1 = i
  OBVIOUS
<1>3. /\ SubSeq(c, 1, Len(c) - 1) \in Seq(T) /\ Len(SubSeq(c, 1, Len(c) - 1)) = (Len(c) - 1) - 1 + 1
      /\ \A i \in 1..((Len(c) - 1) - 1 + 1) : SubSeq(c, 1, Len(c) - 1)[i] = c[1 + i - 1]
  BY Zenon, <1>1, Slice
<1>4. /\ f \in Seq(T) /\ Len(f) = Len(c) - 1 /\ \A i \in 1..(Len(c) - 1) : f[i] = c[1 + i - 1]
  BY Zenon, <1>1, <1>3
<1>5. \A i \in 1..(Len(c) - 1) : f[i] = c[i]
  BY Zenon, <1>2, <1>4
<1> QED
  BY Zenon, <1>4, <1>5

\* The calls are the calls but the last, and the last.
LEMMA Front ==
  ASSUME NEW c, IsSeq(c), c # <<>>, NEW x
  PROVE  /\ IsSeq(Pop(c, 1)) /\ c = Append(Pop(c, 1), c[Len(c)])
         /\ [c EXCEPT ![Len(c)] = x] = Append(Pop(c, 1), x)
         /\ \A i \in DOMAIN Pop(c, 1) : i \in DOMAIN c /\ Pop(c, 1)[i] = c[i]
<1>1. PICK S : c \in Seq(S)
  BY Zenon DEF IsSeq
<1>2. c \in Seq(S \cup {x}) /\ x \in S \cup {x} /\ Len(c) \in Nat \ {0}
  BY <1>1
<1>3. PICK T : T = S \cup {x}
  BY Zenon
<1>4. c \in Seq(T) /\ x \in T
  BY Zenon, <1>2, <1>3
<1>5. PICK f : f = SubSeq(c, 1, Len(c) - 1)
  BY Zenon
<1>6. /\ f \in Seq(T) /\ Len(f) = Len(c) - 1 /\ DOMAIN f = 1..(Len(c) - 1) /\ DOMAIN c = 1..Len(c)
      /\ \A i \in 1..(Len(c) - 1) : f[i] = c[i] /\ i \in 1..Len(c)
  <2>1. Len(c) \in Nat /\ Len(c) > 0
    BY <1>2
  <2>2. f \in Seq(T) /\ Len(f) = Len(c) - 1
    BY Zenon, <1>4, <1>5, <2>1, PopOne
  <2>3. \A i \in 1..(Len(c) - 1) : f[i] = c[i]
    BY Zenon, <1>4, <1>5, <2>1, PopOne
  <2> QED
    BY <1>4, <2>1, <2>2, <2>3
<1> DEFINE n == Len(c)
<1>10. n \in Nat \ {0} /\ n \in 1..n /\ c[n] \in T /\ \A i \in 1..n : i \in 1..(n - 1) \/ i = n
  BY <1>2, <1>4
<1>11. \A y \in T : /\ Append(f, y) \in Seq(T) /\ Len(Append(f, y)) = n /\ Append(f, y)[n] = y
                    /\ \A i \in 1..(n - 1) : Append(f, y)[i] = c[i]
  BY <1>6, <1>10
<1>7. c = Append(f, c[n])
  <2>1. \A i \in 1..n : c[i] = Append(f, c[n])[i]
    BY Zenon, <1>10, <1>11
  <2>2. Append(f, c[n]) \in Seq(T) /\ Len(c) = Len(Append(f, c[n]))
    BY Zenon, <1>10, <1>11
  <2> QED
    BY Zenon, <1>4, <2>1, <2>2, SameSequence
<1>8. [c EXCEPT ![n] = x] = Append(f, x)
  <2>1. PICK d : d = [c EXCEPT ![n] = x]
    BY Zenon
  <2>2. d \in Seq(T) /\ Len(d) = n
    BY <1>4, <1>10, <2>1
  <2>3. d[n] = x /\ \A i \in 1..(n - 1) : d[i] = c[i]
    BY <1>4, <1>10, <2>1
  <2>4. \A i \in 1..n : d[i] = Append(f, x)[i]
    BY Zenon, <1>4, <1>10, <1>11, <2>3
  <2>5. Append(f, x) \in Seq(T) /\ Len(d) = Len(Append(f, x)) /\ \A i \in 1..Len(d) : d[i] = Append(f, x)[i]
    BY Zenon, <1>4, <1>11, <2>2, <2>4
  <2> QED
    BY Zenon, <2>1, <2>2, <2>5, SameSequence
<1>9. f = Pop(c, 1)
  BY Zenon, <1>5 DEF Pop
<1> QED
  BY Zenon, <1>6, <1>7, <1>8, <1>9 DEF IsSeq

\* The calls but the last of one more call.
LEMMA FrontOf ==
  ASSUME NEW f, IsSeq(f), NEW x
  PROVE  SubSeq(Append(f, x), 1, Len(Append(f, x)) - 1) = f /\ SubSeq(Append(f, x), 1, Len(Append(f, x))) = Append(f, x)
<1>1. PICK S : f \in Seq(S)
  BY Zenon DEF IsSeq
<1>2. f \in Seq(S \cup {x}) /\ x \in S \cup {x}
  BY <1>1
<1>3. PICK T : T = S \cup {x}
  BY Zenon
<1>4. f \in Seq(T) /\ x \in T
  BY Zenon, <1>2, <1>3
<1> QED
  BY <1>4

CalledOf(c, u) == SubSeq(c, 1, Len(c) - (IF u THEN 1 ELSE 0))
HeldAt(A, c, u, q) == Total(A, q) + Sum(Frames(CalledOf(c, u), q))

\* What is held when x is the current contract, and when x is on its way out.
LEMMA HeldTop ==
  ASSUME NEW R, Ranked(R), NEW q, NEW f, IsSeq(f), CallsIn(DOMAIN R, f),
         NEW x, x.con.stack \in Seq(DOMAIN R), NEW A
  PROVE  /\ Sum(Frames(f, q)) \in Int
         /\ HeldAt(A, Append(f, x), FALSE, q) = Total(A, q) + (Sum(Frames(f, q)) + Total(x.con.stack, q))
         /\ HeldAt(A, Append(f, x), TRUE, q) = Total(A, q) + Sum(Frames(f, q))
<1>1. Len(Append(f, x)) \in Nat
  BY AppendFacts, SeqFacts
<1>2. Len(Append(f, x)) - 0 = Len(Append(f, x))
  BY <1>1
<1>3. CalledOf(Append(f, x), TRUE) = f
  BY Zenon, FrontOf DEF CalledOf
<1>4. CalledOf(Append(f, x), FALSE) = Append(f, x)
  BY Zenon, <1>2, FrontOf DEF CalledOf
<1>5. /\ Sum(Frames(f, q)) \in Int
      /\ Sum(Frames(Append(f, x), q)) = Sum(Frames(f, q)) + Total(x.con.stack, q)
  BY Zenon, FramesAppend
<1> QED
  BY Zenon, <1>3, <1>4, <1>5 DEF HeldAt

-----------------------------------------------------------------------------
(***************************************************************************)
(* The invariant.  R ranks all items, and there is room above them for one *)
(* rank with every instruction that the run limit still pays.  What came   *)
(* in less what went out is held.                                          *)
(***************************************************************************)
Room(R, n) == n \in 0..MaxNesting /\ \A x \in DOMAIN R : R[x] <= MaxNesting - n

Placed(R, n, A, c, l) ==
  /\ Ranked(R) /\ Room(R, n)
  /\ \A con \in Snapshots : con \in DOMAIN R /\ IsContract(con)
  /\ A \in Seq(DOMAIN R) /\ CallsIn(DOMAIN R, c) /\ LogIn(DOMAIN R, l)

Balances(A, c, u, l) == \A a : Net(l, OfAsset(a)) = HeldAt(A, c, u, OfAsset(a))

AccountInv ==
  /\ \E R : Placed(R, runlimit, argstack, calls, log)
  /\ status # "failed" => Balances(argstack, calls, unwinding, log)

\* A value may join the items, and a contract made of some of them.
Joins(R, n, k, x) ==
  \/ IsValue(x) /\ x.amount \in Int
  \/ /\ k < n /\ IsContract(x) /\ x.stack \in Seq(DOMAIN R)
     /\ x.type = "W" => stackPortable(x.stack)

\* A new item that joins is ranked above all others.
LEMMA RankedMore ==
  ASSUME NEW R, Ranked(R), NEW n, Room(R, n), NEW k \in Nat, k <= n,
         NEW x, x \notin DOMAIN R, Joins(R, n, k, x)
  PROVE  \E Q : Ranked(Q) /\ Room(Q, k) /\ DOMAIN Q = DOMAIN R \cup {x}
<1> DEFINE N == MaxNesting
           D == DOMAIN R
           r == IF IsValue(x) THEN 0 ELSE N - k
           Q == [y \in D \cup {x} |-> IF y = x THEN r ELSE R[y]]
<1>1. N \in Nat /\ n \in 0..N /\ k \in 0..N /\ N - k \in 0..N /\ 0 \in 0..N /\ 0 <= N - k
  BY TxVMAssumptions DEF Room
<1>2. \A y \in D : R[y] \in 0..N /\ R[y] <= N - n
  BY Zenon DEF Ranked, Room
<1>3. \A y \in D : R[y] <= N - k /\ (k < n => R[y] < N - k)
  BY <1>1, <1>2
<1>4. r \in 0..N /\ r <= N - k
  <2>1. CASE IsValue(x)
    BY Zenon, <1>1, <2>1
  <2>2. CASE ~IsValue(x)
    BY <1>1, <2>2
  <2> QED
    BY Zenon, <2>1, <2>2
<1>5. DOMAIN Q = D \cup {x} /\ Q[x] = r /\ \A y \in D : Q[y] = R[y]
  BY Zenon
<1>6. ~IsValue(x) => r = N - k
  BY Zenon
<1> HIDE DEF r, Q
<1>7. \A y \in D \cup {x} : Q[y] \in 0..N /\ Q[y] <= N - k
  BY Zenon, <1>2, <1>3, <1>4, <1>5
<1>8. Q \in [DOMAIN Q -> 0..N]
  <2>1. Q = [y \in DOMAIN Q |-> Q[y]]
    BY Zenon DEF Q
  <2> QED
    BY Zenon, <1>5, <1>7, <2>1
<1>9. Room(Q, k)
  BY Zenon, <1>1, <1>5, <1>7 DEF Room
<1>10. ASSUME NEW y \in D
       PROVE  Whole(Q, y)
  <2>1. Whole(R, y)
    BY Zenon DEF Ranked
  <2>2. Below(R, R[y]) \subseteq Below(Q, Q[y])
    BY Zenon, <1>5 DEF Below
  <2>3. ASSUME y.stack \in Seq(Below(R, R[y]))
        PROVE  y.stack \in Seq(Below(Q, Q[y]))
    BY Zenon, <2>2, <2>3, SeqMono
  <2> QED
    BY Zenon, <2>1, <2>3 DEF Whole
<1>11. Whole(Q, x)
  <2>1. CASE IsValue(x) /\ x.amount \in Int
    BY Zenon, <2>1 DEF Whole
  <2>2. CASE ~(IsValue(x) /\ x.amount \in Int)
    <3>1. /\ k < n /\ IsContract(x) /\ x.stack \in Seq(D)
          /\ x.type = "W" => stackPortable(x.stack)
      BY Zenon, <2>2 DEF Joins
    <3>2. ~IsValue(x)
      BY <3>1 DEF IsContract, IsValue
    <3>3. \A y \in D : Q[y] < Q[x]
      BY Zenon, <1>3, <1>5, <1>6, <3>1, <3>2
    <3>4. D \subseteq Below(Q, Q[x])
      BY Zenon, <1>5, <3>3 DEF Below
    <3>5. x.stack \in Seq(Below(Q, Q[x]))
      BY Zenon, <3>1, <3>4, SeqMono
    <3> QED
      BY Zenon, <3>1, <3>5 DEF Whole
  <2> QED
    BY Zenon, <2>1, <2>2
<1>12. Ranked(Q)
  BY Zenon, <1>5, <1>8, <1>10, <1>11 DEF Ranked
<1> QED
  BY Zenon, <1>5, <1>9, <1>12

\* More items, or fewer instructions to come.
LEMMA PlacedMore ==
  ASSUME NEW R, NEW n, NEW A, NEW c, NEW l, Placed(R, n, A, c, l),
         NEW Q, NEW k, Ranked(Q), Room(Q, k), DOMAIN R \subseteq DOMAIN Q
  PROVE  Placed(Q, k, A, c, l)
<1>1. \A s \in Seq(DOMAIN R) : s \in Seq(DOMAIN Q)
  BY Zenon, SeqMono
<1>2. \A x : Sound(DOMAIN R, x) => Sound(DOMAIN Q, x)
  BY Zenon, <1>1 DEF Sound
<1> QED
  BY Zenon, <1>1, <1>2 DEF Placed, CallsIn, LogIn

\* A smaller run limit leaves more room.
LEMMA RoomLess ==
  ASSUME NEW R, Ranked(R), NEW n, Room(R, n), NEW k \in Nat, k <= n
  PROVE  Room(R, k)
<1>1. MaxNesting \in Nat /\ n \in 0..MaxNesting
  BY TxVMAssumptions DEF Room
<1>2. \A x \in DOMAIN R : R[x] \in 0..MaxNesting /\ R[x] <= MaxNesting - n
  BY Zenon DEF Ranked, Room
<1>3. \A x \in DOMAIN R : R[x] <= MaxNesting - k
  BY <1>1, <1>2
<1>4. k \in 0..MaxNesting
  BY <1>1
<1> QED
  BY Zenon, <1>3, <1>4 DEF Room

\* The ranking after an instruction that makes an item and uses run limit.
LEMMA PlacedNew ==
  ASSUME NEW R, NEW n, NEW A, NEW c, NEW l, Placed(R, n, A, c, l),
         NEW k \in Nat, k <= n, NEW x, Joins(R, n, k, x)
  PROVE  \E Q : Placed(Q, k, A, c, l) /\ x \in DOMAIN Q /\ DOMAIN R \subseteq DOMAIN Q
<1>1. Ranked(R) /\ Room(R, n)
  BY Zenon DEF Placed
<1>2. CASE x \in DOMAIN R
  <2>1. Room(R, k)
    BY Zenon, <1>1, RoomLess
  <2>2. Placed(R, k, A, c, l)
    BY Zenon, <2>1 DEF Placed
  <2> QED
    BY Zenon, <1>2, <2>2
<1>3. CASE x \notin DOMAIN R
  <2>1. PICK Q : Ranked(Q) /\ Room(Q, k) /\ DOMAIN Q = DOMAIN R \cup {x}
    BY <1>1, <1>3, RankedMore
  <2>2. DOMAIN R \subseteq DOMAIN Q /\ x \in DOMAIN Q
    BY Zenon, <2>1
  <2>3. Placed(Q, k, A, c, l)
    BY Zenon, <2>1, <2>2, PlacedMore
  <2> QED
    BY Zenon, <2>2, <2>3
<1> QED
  BY Zenon, <1>2, <1>3

-----------------------------------------------------------------------------
(***************************************************************************)
(* The ways in which an instruction changes the stacks.                    *)
(***************************************************************************)
NewTop(c, s) == \E f : f.con.stack = s /\ c = Append(Pop(calls, 1), f)

After ==
  /\ \E Q : Placed(Q, runlimit', argstack', calls', log')
  /\ Balances(argstack', calls', unwinding', log')

\* How the model rewrites the current contract is a new top of the calls.
LEMMA Tops ==
  ASSUME CallsInv(calls, unwinding)
  PROVE  /\ NewTop(calls, stack)
         /\ \A con, clr, n : NewTop(WithTop(Frame(con, clr, n)), con.stack)
         /\ \A con : NewTop(WithContract(con), con.stack)
         /\ \A s : NewTop(WithStack(s), s)
<1>1. IsSeq(calls) /\ calls # <<>>
  BY Zenon DEF CallsInv
<1>2. NewTop(calls, stack)
  BY Zenon, <1>1, Front DEF NewTop, stack, contract, Top
<1>3. ASSUME NEW con, NEW clr, NEW n
      PROVE  NewTop(WithTop(Frame(con, clr, n)), con.stack)
  <2>1. Frame(con, clr, n).con = con
    BY Zenon DEF Frame
  <2>2. WithTop(Frame(con, clr, n)) = Append(Pop(calls, 1), Frame(con, clr, n))
    BY Zenon, <1>1, Front DEF WithTop
  <2> QED
    BY Zenon, <2>1, <2>2 DEF NewTop
<1>4. \A con : NewTop(WithContract(con), con.stack)
  BY Zenon, <1>3 DEF WithContract
<1>5. ASSUME NEW s
      PROVE  NewTop(WithStack(s), s)
  <2>1. Contract(contract.type, contract.seed, contract.program, s).stack = s
    BY Zenon DEF Contract
  <2> QED
    BY Zenon, <1>4, <2>1 DEF WithStack
<1> QED
  BY Zenon, <1>2, <1>3, <1>4, <1>5

\* The calls but the last, and the current stack, hold items from D.
LEMMA FrontPlaced ==
  ASSUME CallsInv(calls, unwinding), NEW D, CallsIn(D, calls)
  PROVE  IsSeq(Pop(calls, 1)) /\ CallsIn(D, Pop(calls, 1)) /\ stack \in Seq(D)
<1>1. IsSeq(calls) /\ calls # <<>>
  BY Zenon DEF CallsInv
<1>2. Len(calls) \in DOMAIN calls
  BY <1>1, SeqFacts
<1>3. stack \in Seq(D)
  BY Zenon, <1>2 DEF CallsIn, stack, contract, Top
<1>4. IsSeq(Pop(calls, 1)) /\ \A i \in DOMAIN Pop(calls, 1) : i \in DOMAIN calls /\ Pop(calls, 1)[i] = calls[i]
  BY Zenon, <1>1, Front
<1> QED
  BY Zenon, <1>3, <1>4 DEF CallsIn

\* A call more with items from D.
LEMMA CallsInAppend ==
  ASSUME NEW D, NEW f, IsSeq(f), CallsIn(D, f), NEW x, x.con.stack \in Seq(D)
  PROVE  CallsIn(D, Append(f, x))
<1>1. PICK c : c = Append(f, x)
  BY Zenon
<1>2. /\ IsSeq(c) /\ Len(c) = Len(f) + 1 /\ c[Len(f) + 1] = x
      /\ \A i \in 1..Len(f) : c[i] = f[i]
  BY Zenon, <1>1, AppendFacts
<1>3. Len(f) \in Nat /\ DOMAIN f = 1..Len(f) /\ DOMAIN c = 1..(Len(f) + 1)
  BY Zenon, <1>2, SeqFacts
<1>4. \A i \in 1..(Len(f) + 1) : i \in 1..Len(f) \/ i = Len(f) + 1
  BY <1>3
<1> QED
  BY Zenon, <1>1, <1>2, <1>3, <1>4 DEF CallsIn

\* What came in less what went out is an integer.
LEMMA NetType ==
  ASSUME NEW R, Ranked(R), NEW q, NEW l, LogIn(DOMAIN R, l)
  PROVE  Net(l, q) \in Int
<1>1. [code |-> "L"].code = "L"
  BY Zenon
<1>2. Sound(DOMAIN R, [code |-> "L"])
  BY <1>1 DEF Sound
<1> QED
  BY Zenon, <1>2, NetAppend

\* What two stacks are worth, and what the log says, before and after.
SameWorth(A, s, l, A0, s0, l0) ==
  \A a : Total(A, OfAsset(a)) + Total(s, OfAsset(a)) - Net(l, OfAsset(a))
           = Total(A0, OfAsset(a)) + Total(s0, OfAsset(a)) - Net(l0, OfAsset(a))

\* It changes the current stack, the argument stack and the log.
LEMMA Exchange ==
  ASSUME CallsInv(calls, unwinding), unwinding = FALSE, Balances(argstack, calls, unwinding, log),
         NEW Q, Placed(Q, runlimit', argstack, calls, log),
         NEW s, s \in Seq(DOMAIN Q), NewTop(calls', s), unwinding' = FALSE,
         argstack' \in Seq(DOMAIN Q), LogIn(DOMAIN Q, log'),
         SameWorth(argstack', s, log', argstack, stack, log)
  PROVE  After
<1> DEFINE D == DOMAIN Q
           f == Pop(calls, 1)
<1>1. /\ Ranked(Q) /\ Room(Q, runlimit') /\ argstack \in Seq(D) /\ CallsIn(D, calls) /\ LogIn(D, log)
      /\ \A con \in Snapshots : con \in D /\ IsContract(con)
  BY Zenon DEF Placed
<1>2. IsSeq(f) /\ CallsIn(D, f) /\ stack \in Seq(D)
  BY Zenon, <1>1, FrontPlaced
<1>3. PICK x : x.con.stack = s /\ calls' = Append(f, x)
  BY Zenon DEF NewTop
<1>4. PICK y : y.con.stack = stack /\ calls = Append(f, y)
  BY Zenon, Tops DEF NewTop
<1> HIDE DEF f
<1>5. CallsIn(D, calls')
  BY Zenon, <1>2, <1>3, CallsInAppend
<1>6. Placed(Q, runlimit', argstack', calls', log')
  BY Zenon, <1>1, <1>5 DEF Placed
<1>7. ASSUME NEW a
      PROVE  Net(log', OfAsset(a)) = HeldAt(argstack', calls', unwinding', OfAsset(a))
  <2>1. PICK q : q = OfAsset(a)
    BY Zenon
  <2>2. /\ Sum(Frames(f, q)) \in Int
        /\ HeldAt(argstack', calls', FALSE, q) = Total(argstack', q) + (Sum(Frames(f, q)) + Total(s, q))
    BY Zenon, <1>1, <1>2, <1>3, HeldTop
  <2>3. HeldAt(argstack, calls, FALSE, q) = Total(argstack, q) + (Sum(Frames(f, q)) + Total(stack, q))
    BY Zenon, <1>1, <1>2, <1>4, HeldTop
  <2>4. /\ Total(argstack', q) \in Int /\ Total(s, q) \in Int /\ Total(argstack, q) \in Int
        /\ Total(stack, q) \in Int
    BY Zenon, <1>1, <1>2, Totals
  <2>5. Net(log, q) \in Int /\ Net(log', q) \in Int
    BY Zenon, <1>1, NetType
  <2>6. Net(log, q) = HeldAt(argstack, calls, FALSE, q)
    BY Zenon, <2>1 DEF Balances
  <2>7. Total(argstack', q) + Total(s, q) - Net(log', q) = Total(argstack, q) + Total(stack, q) - Net(log, q)
    BY Zenon, <2>1 DEF SameWorth
  <2>8. Net(log', q) = HeldAt(argstack', calls', FALSE, q)
    <3>1. PICK A, B, C, E, F, M, N :
            /\ A = Total(argstack', q) /\ B = Total(s, q) /\ C = Total(argstack, q) /\ E = Total(stack, q)
            /\ F = Sum(Frames(f, q)) /\ M = Net(log', q) /\ N = Net(log, q)
      BY Zenon
    <3>2. A \in Int /\ B \in Int /\ C \in Int /\ E \in Int /\ F \in Int /\ M \in Int /\ N \in Int
      BY Zenon, <2>2, <2>4, <2>5, <3>1
    <3>3. A + B - M = C + E - N /\ N = C + (F + E)
      BY Zenon, <2>3, <2>6, <2>7, <3>1
    <3>4. M = A + (F + B)
      BY <3>2, <3>3
    <3> QED
      BY Zenon, <2>2, <3>1, <3>4
  <2> QED
    BY Zenon, <2>1, <2>8
<1>8. Balances(argstack', calls', unwinding', log')
  BY Zenon, <1>7 DEF Balances
<1> QED
  BY Zenon, <1>6, <1>8 DEF After

\* The current contract leaves: it is output, or on the argument stack.
LEMMA Leave ==
  ASSUME CallsInv(calls, unwinding), unwinding = FALSE, Balances(argstack, calls, unwinding, log),
         NEW Q, Placed(Q, runlimit', argstack, calls, log),
         NEW s, s \in Seq(DOMAIN Q), NewTop(calls', s), unwinding' = TRUE,
         argstack' \in Seq(DOMAIN Q), LogIn(DOMAIN Q, log'),
         SameWorth(argstack', <<>>, log', argstack, stack, log)
  PROVE  After
<1> DEFINE D == DOMAIN Q
           f == Pop(calls, 1)
<1>1. /\ Ranked(Q) /\ Room(Q, runlimit') /\ argstack \in Seq(D) /\ CallsIn(D, calls) /\ LogIn(D, log)
      /\ \A con \in Snapshots : con \in D /\ IsContract(con)
  BY Zenon DEF Placed
<1>2. IsSeq(f) /\ CallsIn(D, f) /\ stack \in Seq(D)
  BY Zenon, <1>1, FrontPlaced
<1>3. PICK x : x.con.stack = s /\ calls' = Append(f, x)
  BY Zenon DEF NewTop
<1>4. PICK y : y.con.stack = stack /\ calls = Append(f, y)
  BY Zenon, Tops DEF NewTop
<1> HIDE DEF f
<1>5. CallsIn(D, calls')
  BY Zenon, <1>2, <1>3, CallsInAppend
<1>6. Placed(Q, runlimit', argstack', calls', log')
  BY Zenon, <1>1, <1>5 DEF Placed
<1>7. ASSUME NEW a
      PROVE  Net(log', OfAsset(a)) = HeldAt(argstack', calls', unwinding', OfAsset(a))
  <2>1. PICK q : q = OfAsset(a)
    BY Zenon
  <2>2. /\ Sum(Frames(f, q)) \in Int
        /\ HeldAt(argstack', calls', TRUE, q) = Total(argstack', q) + Sum(Frames(f, q))
    BY Zenon, <1>1, <1>2, <1>3, HeldTop
  <2>3. HeldAt(argstack, calls, FALSE, q) = Total(argstack, q) + (Sum(Frames(f, q)) + Total(stack, q))
    BY Zenon, <1>1, <1>2, <1>4, HeldTop
  <2>4. /\ Total(argstack', q) \in Int /\ Total(argstack, q) \in Int
        /\ Total(stack, q) \in Int
    BY Zenon, <1>1, <1>2, Totals
  <2>5. Net(log, q) \in Int /\ Net(log', q) \in Int
    BY Zenon, <1>1, NetType
  <2>6. Net(log, q) = HeldAt(argstack, calls, FALSE, q)
    BY Zenon, <2>1 DEF Balances
  <2>7. /\ Total(argstack', q) + Total(<<>>, q) - Net(log', q) = Total(argstack, q) + Total(stack, q) - Net(log, q)
        /\ Total(<<>>, q) = 0
    BY Zenon, <1>1, <2>1, Totals DEF SameWorth
  <2>8. Net(log', q) = HeldAt(argstack', calls', TRUE, q)
    <3>1. PICK A, B, C, E, F, M, N :
            /\ A = Total(argstack', q) /\ B = Total(<<>>, q) /\ C = Total(argstack, q) /\ E = Total(stack, q)
            /\ F = Sum(Frames(f, q)) /\ M = Net(log', q) /\ N = Net(log, q)
      BY Zenon
    <3>2. A \in Int /\ B = 0 /\ C \in Int /\ E \in Int /\ F \in Int /\ M \in Int /\ N \in Int
      BY Zenon, <2>2, <2>4, <2>5, <2>7, <3>1
    <3>3. A + B - M = C + E - N /\ N = C + (F + E)
      BY Zenon, <2>3, <2>6, <2>7, <3>1
    <3>4. M = A + F
      BY <3>2, <3>3
    <3> QED
      BY Zenon, <2>2, <3>1, <3>4
  <2> QED
    BY Zenon, <2>1, <2>8
<1>8. Balances(argstack', calls', unwinding', log')
  BY Zenon, <1>7 DEF Balances
<1> QED
  BY Zenon, <1>6, <1>8 DEF After

-----------------------------------------------------------------------------
(***************************************************************************)
(* The parts of instructions.                                              *)
(***************************************************************************)
LEMMA Pays ==
  ASSUME IInv, NEW cost \in Nat, Charge(cost), NEW R, Placed(R, runlimit, argstack, calls, log)
  PROVE  /\ CallsInv(calls, unwinding) /\ unwinding = FALSE
         /\ runlimit' \in Nat /\ runlimit' < runlimit /\ runlimit' <= runlimit
         /\ Placed(R, runlimit', argstack, calls, log) /\ Ranked(R)
         /\ stack \in Seq(DOMAIN R) /\ Depth \in Nat /\ Depth = Len(stack)
         /\ argstack \in Seq(DOMAIN R) /\ LogIn(DOMAIN R, log)
<1>1. /\ CallsInv(calls, unwinding) /\ ~unwinding /\ unwinding \in BOOLEAN /\ runlimit' \in 0..Runlimit
      /\ status = "running"
  BY Zenon, Charged
<1>2. runlimit \in 0..Runlimit /\ Runlimit \in Nat /\ runlimit' = runlimit - 1 - cost /\ runlimit >= 1 + cost
  BY Zenon, TxVMAssumptions DEF IInv, Charge
<1>3. runlimit' \in Nat /\ runlimit' < runlimit /\ runlimit' <= runlimit
  BY <1>2
<1>4. Ranked(R) /\ Room(R, runlimit) /\ CallsIn(DOMAIN R, calls)
  BY Zenon DEF Placed
<1>5. Room(R, runlimit')
  BY Zenon, <1>3, <1>4, RoomLess
<1>6. Placed(R, runlimit', argstack, calls, log)
  BY Zenon, <1>5 DEF Placed
<1>7. stack \in Seq(DOMAIN R)
  BY Zenon, <1>1, <1>4, FrontPlaced
<1>8. Depth \in Nat /\ Depth = Len(stack)
  BY <1>7 DEF Depth
<1> QED
  BY Zenon, <1>1, <1>3, <1>4, <1>6, <1>7, <1>8 DEF Placed

\* The fields of a value.
LEMMA ValueFacts ==
  ASSUME NEW m, NEW i, NEW c
  PROVE  /\ IsValue(Value(m, i, c)) /\ Value(m, i, c).amount = m /\ Value(m, i, c).assetID = i
BY DEF Value, IsValue

\* A value alone on a stack.
LEMMA ValueTotal ==
  ASSUME NEW R, Ranked(R), NEW x \in DOMAIN R, IsValue(x), NEW q
  PROVE  Total(<<x>>, q) = Worth(x, q) /\ x.amount \in Int /\ Worth(x, q) \in Int
<1>1. ~IsContract(x)
  BY DEF IsContract, IsValue
<1>2. x.amount \in Int
  BY Zenon, <1>1 DEF Ranked, Whole
<1>3. Total(<<x>>, q) = Worth(x, q)
  BY Zenon, <1>1, Totals
<1> QED
  BY Zenon, <1>2, <1>3, WorthType

\* A contract alone on a stack: what its own stack holds.
LEMMA ContractTotal ==
  ASSUME NEW R, Ranked(R), NEW x \in DOMAIN R, IsContract(x), NEW q
  PROVE  /\ Total(<<x>>, q) = Total(x.stack, q) /\ x.stack \in Seq(DOMAIN R)
         /\ x.type = "W" => stackPortable(x.stack)
<1>1. ~IsValue(x)
  BY DEF IsContract, IsValue
<1>2. x.stack \in Seq(Below(R, R[x])) /\ (x.type = "W" => stackPortable(x.stack))
  BY Zenon, <1>1 DEF Ranked, Whole
<1>3. Below(R, R[x]) \subseteq DOMAIN R
  BY Zenon DEF Below
<1>4. x.stack \in Seq(DOMAIN R)
  BY Zenon, <1>2, <1>3, SeqMono
<1>5. Total(<<x>>, q) = Total(x.stack, q)
  BY Zenon, Totals
<1> QED
  BY Zenon, <1>2, <1>4, <1>5

\* What a value is worth of an asset.
LEMMA AssetWorth ==
  ASSUME NEW v, NEW a
  PROVE  Worth(v, OfAsset(a)) = IF v.assetID = a THEN v.amount ELSE 0
BY DEF Worth, OfAsset

\* Replace: n items are popped, some are pushed.
LEMMA Push ==
  ASSUME CallsInv(calls, unwinding), NEW R, Ranked(R), stack \in Seq(DOMAIN R),
         NEW items \in Seq(DOMAIN R), Replace(0, items)
  PROVE  \E s : /\ s \in Seq(DOMAIN R) /\ NewTop(calls', s)
                /\ \A q : Total(s, q) = Total(stack, q) + Total(items, q)
<1>1. Pop(stack, 0) = stack
  BY DEF Pop
<1>2. stack \o items \in Seq(DOMAIN R)
  BY Zenon, ConcatIn
<1>3. NewTop(calls', stack \o items)
  BY Zenon, <1>1, Tops DEF Replace
<1>4. \A q : Total(stack \o items, q) = Total(stack, q) + Total(items, q)
  BY Zenon, Totals
<1> QED
  BY Zenon, <1>2, <1>3, <1>4

\* An instruction that pops one item and pushes some.
LEMMA Swap ==
  ASSUME CallsInv(calls, unwinding), NEW R, Ranked(R), stack \in Seq(DOMAIN R), Len(stack) > 0,
         NEW items \in Seq(DOMAIN R), Replace(1, items)
  PROVE  \E s : /\ s \in Seq(DOMAIN R) /\ NewTop(calls', s)
                /\ \A q : /\ Total(Pop(stack, 1), q) \in Int
                          /\ Total(s, q) = Total(Pop(stack, 1), q) + Total(items, q)
                          /\ Total(stack, q) = Total(Pop(stack, 1), q) + Total(<<Peek(stack, 0)>>, q)
<1>1. 1 \in 0..Len(stack)
  OBVIOUS
<1>2. Pop(stack, 1) \in Seq(DOMAIN R)
  BY Zenon, <1>1, PopIn
<1>3. Pop(stack, 1) \o items \in Seq(DOMAIN R)
  BY Zenon, <1>2, ConcatIn
<1>4. NewTop(calls', Pop(stack, 1) \o items)
  BY Zenon, Tops DEF Replace
<1>5. \A q : Total(Pop(stack, 1) \o items, q) = Total(Pop(stack, 1), q) + Total(items, q)
  BY Zenon, <1>2, Totals
<1>6. \A q : Total(Pop(stack, 1), q) \in Int
  BY Zenon, <1>2, Totals
<1>7. \A q : Total(stack, q) = Total(Pop(stack, 1), q) + Total(<<Peek(stack, 0)>>, q)
  BY Zenon, TotalPop
<1> QED
  BY Zenon, <1>3, <1>4, <1>5, <1>6, <1>7

\* An instruction that pops two items and pushes some.
LEMMA SwapTwo ==
  ASSUME CallsInv(calls, unwinding), NEW R, Ranked(R), stack \in Seq(DOMAIN R), Len(stack) > 1,
         NEW items \in Seq(DOMAIN R), Replace(2, items)
  PROVE  \E s : /\ s \in Seq(DOMAIN R) /\ NewTop(calls', s)
                /\ \A q : /\ Total(Pop(stack, 2), q) \in Int
                          /\ Total(s, q) = Total(Pop(stack, 2), q) + Total(items, q)
                          /\ Total(stack, q) = Total(Pop(stack, 2), q) + Total(<<Peek(stack, 1)>>, q)
                                                 + Total(<<Peek(stack, 0)>>, q)
<1>1. 2 \in 0..Len(stack)
  OBVIOUS
<1>2. Pop(stack, 2) \in Seq(DOMAIN R)
  BY Zenon, <1>1, PopIn
<1>3. Pop(stack, 2) \o items \in Seq(DOMAIN R)
  BY Zenon, <1>2, ConcatIn
<1>4. NewTop(calls', Pop(stack, 2) \o items)
  BY Zenon, Tops DEF Replace
<1>5. \A q : Total(Pop(stack, 2) \o items, q) = Total(Pop(stack, 2), q) + Total(items, q)
  BY Zenon, <1>2, Totals
<1>6. \A q : Total(Pop(stack, 2), q) \in Int
  BY Zenon, <1>2, Totals
<1>7. \A q : Total(stack, q) = Total(Pop(stack, 2), q) + Total(<<Peek(stack, 1)>>, q) + Total(<<Peek(stack, 0)>>, q)
  BY Zenon, TotalPopTwo
<1> QED
  BY Zenon, <1>3, <1>4, <1>5, <1>6, <1>7

\* Log, and no log.
LEMMA LogOne ==
  ASSUME NEW R, Ranked(R), LogIn(DOMAIN R, log), NEW x, Sound(DOMAIN R, x), Log(<<x>>)
  PROVE  /\ LogIn(DOMAIN R, log')
         /\ \A q : Net(log, q) \in Int /\ Gain(x, q) \in Int /\ Net(log', q) = Net(log, q) + Gain(x, q)
<1>1. log' = Append(log, x)
  BY Zenon, ConcatFacts DEF Log, LogIn
<1> QED
  BY Zenon, <1>1, NetAppend

\* Two items more are one more, twice.
LEMMA ConcatTwo ==
  ASSUME NEW l, IsSeq(l), NEW x, NEW y
  PROVE  l \o <<x, y>> = Append(Append(l, x), y)
BY DEF IsSeq

\* An instruction that logs two items.
LEMMA LogTwo ==
  ASSUME NEW R, Ranked(R), LogIn(DOMAIN R, log), NEW x, Sound(DOMAIN R, x), NEW y, Sound(DOMAIN R, y),
         Log(<<x, y>>)
  PROVE  /\ LogIn(DOMAIN R, log')
         /\ \A q : /\ Net(log, q) \in Int /\ Gain(x, q) \in Int /\ Gain(y, q) \in Int
                   /\ Net(log', q) = (Net(log, q) + Gain(x, q)) + Gain(y, q)
<1>1. log' = Append(Append(log, x), y)
  <2>1. IsSeq(log) /\ log' = log \o <<x, y>>
    BY Zenon DEF Log, LogIn
  <2>2. log \o <<x, y>> = Append(Append(log, x), y)
    BY <2>1, ConcatTwo
  <2> QED
    BY Zenon, <2>1, <2>2
<1>2. PICK l : l = Append(log, x)
  BY Zenon
<1>3. /\ LogIn(DOMAIN R, l)
      /\ \A q : Net(log, q) \in Int /\ Gain(x, q) \in Int /\ Net(l, q) = Net(log, q) + Gain(x, q)
  BY Zenon, <1>2, NetAppend
<1>4. /\ LogIn(DOMAIN R, Append(l, y))
      /\ \A q : Gain(y, q) \in Int /\ Net(Append(l, y), q) = Net(l, q) + Gain(y, q)
  <2>1. LogIn(DOMAIN R, l)
    BY Zenon, <1>3
  <2> QED
    BY <2>1, NetAppend
<1>5. log' = Append(l, y)
  BY Zenon, <1>1, <1>2
<1> QED
  BY Zenon, <1>3, <1>4, <1>5

Before(R) ==
  /\ IInv /\ Placed(R, runlimit, argstack, calls, log)
  /\ Balances(argstack, calls, unwinding, log)

\* What Placed says of the stacks and the log.
LEMMA PlacedFacts ==
  ASSUME CallsInv(calls, unwinding), NEW Q, NEW n, Placed(Q, n, argstack, calls, log)
  PROVE  /\ Ranked(Q) /\ stack \in Seq(DOMAIN Q) /\ argstack \in Seq(DOMAIN Q) /\ LogIn(DOMAIN Q, log)
         /\ \A q : Total(stack, q) \in Int /\ Total(argstack, q) \in Int /\ Net(log, q) \in Int
<1>1. Ranked(Q) /\ argstack \in Seq(DOMAIN Q) /\ LogIn(DOMAIN Q, log) /\ CallsIn(DOMAIN Q, calls)
  BY Zenon DEF Placed
<1>2. stack \in Seq(DOMAIN Q)
  BY Zenon, <1>1, FrontPlaced
<1>3. \A q : Total(stack, q) \in Int /\ Total(argstack, q) \in Int
  BY Zenon, <1>1, <1>2, Totals
<1>4. \A q : Net(log, q) \in Int
  BY Zenon, <1>1, NetType
<1> QED
  BY Zenon, <1>1, <1>2, <1>3, <1>4

\* The stack and the log change together.
LEMMA Even ==
  ASSUME \A q : Total(argstack, q) \in Int, UNCHANGED argstack, NEW s,
         \A a : /\ Total(s, OfAsset(a)) \in Int /\ Total(stack, OfAsset(a)) \in Int
                /\ Net(log', OfAsset(a)) \in Int /\ Net(log, OfAsset(a)) \in Int
                /\ Total(s, OfAsset(a)) - Net(log', OfAsset(a)) = Total(stack, OfAsset(a)) - Net(log, OfAsset(a))
  PROVE  SameWorth(argstack', s, log', argstack, stack, log)
<1>1. ASSUME NEW a
      PROVE  Total(argstack', OfAsset(a)) + Total(s, OfAsset(a)) - Net(log', OfAsset(a))
               = Total(argstack, OfAsset(a)) + Total(stack, OfAsset(a)) - Net(log, OfAsset(a))
  <2>1. PICK A, B, E, M, N :
          /\ A = Total(argstack, OfAsset(a)) /\ B = Total(s, OfAsset(a)) /\ E = Total(stack, OfAsset(a))
          /\ M = Net(log', OfAsset(a)) /\ N = Net(log, OfAsset(a))
    BY Zenon
  <2>2. A \in Int /\ B \in Int /\ E \in Int /\ M \in Int /\ N \in Int /\ B - M = E - N
    BY Zenon, <2>1
  <2>3. A + B - M = A + E - N
    BY <2>2
  <2> QED
    BY Zenon, <2>1, <2>3
<1> QED
  BY Zenon, <1>1 DEF SameWorth

\* opNonce: a value of amount zero, and two log items that move nothing.
LEMMA NonceAccount ==
  ASSUME NEW R, Before(R), NEW nonce, opNonce(nonce)
  PROVE  After
<1>1. PICK x : x = NonceTuple(caller, contract.seed, nonce)
  BY Zenon
<1>2. PICK y : y = logTimeRange(0, nonce[2])
  BY Zenon
<1>3. PICK v : v = Value(0, zeroAssetID, VMHash("Nonce", x))
  BY Zenon
<1>4. /\ Charge(2 * DataCost + EntryCost) /\ Log(<<x, y>>) /\ Replace(0, <<v>>)
      /\ UNCHANGED <<argstack, unwinding>>
  BY Zenon, <1>1, <1>2, <1>3 DEF opNonce
<1>5. 2 * DataCost + EntryCost \in Nat
  BY TxVMAssumptions
<1>6. /\ CallsInv(calls, unwinding) /\ unwinding = FALSE
      /\ runlimit' \in Nat /\ runlimit' <= runlimit
      /\ Placed(R, runlimit, argstack, calls, log)
  BY Zenon, <1>4, <1>5, Pays DEF Before
<1>7. IsValue(v) /\ v.amount = 0
  BY <1>3, ValueFacts
<1>8. Joins(R, runlimit, runlimit', v)
  BY <1>7 DEF Joins
<1>9. PICK Q : Placed(Q, runlimit', argstack, calls, log) /\ v \in DOMAIN Q
  BY Zenon, <1>6, <1>8, PlacedNew
<1>10. /\ Ranked(Q) /\ stack \in Seq(DOMAIN Q) /\ argstack \in Seq(DOMAIN Q) /\ LogIn(DOMAIN Q, log)
       /\ \A q : Total(stack, q) \in Int /\ Total(argstack, q) \in Int /\ Net(log, q) \in Int
  BY Zenon, <1>6, <1>9, PlacedFacts
<1>11. <<v>> \in Seq(DOMAIN Q)
  BY Zenon, <1>9, OneIn
<1>12. PICK s : /\ s \in Seq(DOMAIN Q) /\ NewTop(calls', s)
                /\ \A q : Total(s, q) = Total(stack, q) + Total(<<v>>, q)
  BY Zenon, <1>4, <1>6, <1>10, <1>11, Push
<1>13. x.code \in {"N", "R", "L", "F"} /\ y.code \in {"N", "R", "L", "F"}
  BY Zenon, <1>1, <1>2 DEF NonceTuple, logTimeRange
<1>14. Sound(DOMAIN Q, x) /\ Sound(DOMAIN Q, y)
  BY <1>13 DEF Sound
<1>15. /\ LogIn(DOMAIN Q, log')
       /\ \A q : Net(log', q) = (Net(log, q) + Gain(x, q)) + Gain(y, q)
  BY <1>4, <1>10, <1>14, LogTwo
<1>16. \A q : Gain(x, q) = 0 /\ Gain(y, q) = 0
  BY <1>13, NoGain
<1>17. \A a : Total(<<v>>, OfAsset(a)) = 0
  <2>1. \A a : Total(<<v>>, OfAsset(a)) = Worth(v, OfAsset(a))
    BY Zenon, <1>7, <1>9, <1>10, ValueTotal
  <2>2. \A a : Worth(v, OfAsset(a)) = 0
    BY <1>7, AssetWorth
  <2> QED
    BY Zenon, <2>1, <2>2
<1>18. ASSUME NEW a
       PROVE  /\ Total(s, OfAsset(a)) \in Int /\ Total(stack, OfAsset(a)) \in Int
              /\ Net(log', OfAsset(a)) \in Int /\ Net(log, OfAsset(a)) \in Int
              /\ Total(s, OfAsset(a)) - Net(log', OfAsset(a)) = Total(stack, OfAsset(a)) - Net(log, OfAsset(a))
  <2>1. PICK B, E, M, N :
          /\ B = Total(s, OfAsset(a)) /\ E = Total(stack, OfAsset(a))
          /\ M = Net(log', OfAsset(a)) /\ N = Net(log, OfAsset(a))
    BY Zenon
  <2>2. E \in Int /\ N \in Int /\ B = E + 0 /\ M = (N + 0) + 0
    BY Zenon, <1>10, <1>12, <1>15, <1>16, <1>17, <2>1
  <2>3. B \in Int /\ M \in Int /\ B - M = E - N
    BY <2>2
  <2> QED
    BY Zenon, <2>1, <2>2, <2>3
<1>19. SameWorth(argstack', s, log', argstack, stack, log)
  BY Zenon, <1>4, <1>10, <1>18, Even
<1> QED
  BY Zenon, <1>4, <1>6, <1>9, <1>10, <1>12, <1>15, <1>19, Exchange DEF Before

\* An instruction that leaves the argument stack alone: what the current stack
\* gains, the log says.
LEMMA StackStep ==
  ASSUME CallsInv(calls, unwinding), unwinding = FALSE, Balances(argstack, calls, unwinding, log),
         NEW Q, Placed(Q, runlimit', argstack, calls, log), UNCHANGED <<argstack, unwinding>>,
         NEW s, s \in Seq(DOMAIN Q), NewTop(calls', s), LogIn(DOMAIN Q, log'),
         \A a : /\ Total(s, OfAsset(a)) \in Int /\ Total(stack, OfAsset(a)) \in Int
                /\ Net(log', OfAsset(a)) \in Int /\ Net(log, OfAsset(a)) \in Int
                /\ Total(s, OfAsset(a)) - Net(log', OfAsset(a)) = Total(stack, OfAsset(a)) - Net(log, OfAsset(a))
  PROVE  After
<1>1. argstack \in Seq(DOMAIN Q) /\ \A q : Total(argstack, q) \in Int
  BY Zenon, PlacedFacts
<1>2. SameWorth(argstack', s, log', argstack, stack, log)
  BY <1>1, Even
<1>3. unwinding' = FALSE /\ argstack' \in Seq(DOMAIN Q)
  BY Zenon, <1>1
<1> QED
  BY Zenon, <1>2, <1>3, Exchange

\* The value on top of the stack.
LEMMA TopValue ==
  ASSUME NEW R, Ranked(R), stack \in Seq(DOMAIN R), ValueAt(0)
  PROVE  /\ Len(stack) > 0 /\ Peek(stack, 0) \in DOMAIN R /\ IsValue(Peek(stack, 0))
         /\ Peek(stack, 0).amount \in Int
         /\ \A q : Total(<<Peek(stack, 0)>>, q) = Worth(Peek(stack, 0), q) /\ Worth(Peek(stack, 0), q) \in Int
<1>1. Len(stack) > 0 /\ 0 < Len(stack) /\ 0 \in Nat
  BY DEF ValueAt, Depth
<1>2. Peek(stack, 0) \in DOMAIN R
  BY Zenon, <1>1, PeekIn
<1>3. IsValue(Peek(stack, 0))
  BY Zenon DEF ValueAt
<1> QED
  BY Zenon, <1>1, <1>2, <1>3, ValueTotal

\* Zero is worth nothing.
LEMMA ZeroWorth ==
  ASSUME NEW v, v.amount = 0, NEW a
  PROVE  Worth(v, OfAsset(a)) = 0
BY AssetWorth

\* An issuance brings in the value it makes, a retirement takes out its value.
LEMMA ValueGain ==
  ASSUME NEW x, x.code \in {"A", "X"}, x.amount \in Int,
         NEW v, v.amount = x.amount, v.assetID = x.assetID, NEW a
  PROVE  /\ x.code = "A" => Gain(x, OfAsset(a)) = Worth(v, OfAsset(a))
         /\ x.code = "X" => Gain(x, OfAsset(a)) = 0 - Worth(v, OfAsset(a))
<1>1. PICK q : q = OfAsset(a)
  BY Zenon
<1>2. Worth(x, q) = Worth(v, q)
  BY <1>1, AssetWorth
<1>3. Entry(x, q) = Worth(v, q)
  BY <1>2 DEF Entry
<1>4. Worth(x, q) \in Int
  BY Zenon, WorthType
<1>5. Entry(x, q) \in Int
  BY Zenon, <1>2, <1>3, <1>4
<1>6. x.code = "A" => x.code \in InCodes
  BY DEF InCodes
<1>7. x.code = "X" => x.code \in OutCodes
  BY DEF OutCodes
<1> QED
  BY Zenon, <1>1, <1>3, <1>5, <1>6, <1>7, Gains

\* An issuance brings in the value.
LEMMA IssueGain ==
  ASSUME NEW x, x.code = "A", x.amount \in Int, NEW v, v.amount = x.amount, v.assetID = x.assetID, NEW a
  PROVE  Gain(x, OfAsset(a)) = Worth(v, OfAsset(a))
BY ValueGain

\* A retirement takes it out.
LEMMA RetireGain ==
  ASSUME NEW x, x.code = "X", x.amount \in Int, NEW v, v.amount = x.amount, v.assetID = x.assetID, NEW a
  PROVE  Gain(x, OfAsset(a)) = 0 - Worth(v, OfAsset(a))
BY ValueGain

\* opIssue: a value of the amount, and the issuance in the log.
LEMMA IssueAccount ==
  ASSUME NEW R, Before(R), NEW tag, NEW amount \in Int, opIssue(tag, amount)
  PROVE  After
<1>1. PICK p : p = Peek(stack, 0)
  BY Zenon
<1>2. PICK x : x = [code |-> "A", caller |-> caller, amount |-> amount,
                    assetID |-> AssetID(contract.seed, tag), anchor |-> p.anchor]
  BY Zenon
<1>3. PICK v : v = Value(amount, AssetID(contract.seed, tag), p.anchor)
  BY Zenon
<1>4. /\ Charge(DataCost + EntryCost) /\ ValueAt(0) /\ p.amount = 0
      /\ Log(<<x>>) /\ Replace(1, <<v>>)
      /\ UNCHANGED <<argstack, unwinding>>
  BY Zenon, <1>1, <1>2, <1>3 DEF opIssue, isZero
<1>5. DataCost + EntryCost \in Nat
  BY TxVMAssumptions
<1>6. /\ CallsInv(calls, unwinding) /\ unwinding = FALSE
      /\ runlimit' \in Nat /\ runlimit' <= runlimit
      /\ Placed(R, runlimit, argstack, calls, log)
  BY Zenon, <1>4, <1>5, Pays DEF Before
<1>7. IsValue(v) /\ v.amount = amount /\ v.assetID = AssetID(contract.seed, tag)
  BY <1>3, ValueFacts
<1>8. Joins(R, runlimit, runlimit', v)
  BY Zenon, <1>7 DEF Joins
<1>9. PICK Q : Placed(Q, runlimit', argstack, calls, log) /\ v \in DOMAIN Q
  BY Zenon, <1>6, <1>8, PlacedNew
<1>10. /\ Ranked(Q) /\ stack \in Seq(DOMAIN Q) /\ argstack \in Seq(DOMAIN Q) /\ LogIn(DOMAIN Q, log)
       /\ \A q : Total(stack, q) \in Int /\ Total(argstack, q) \in Int /\ Net(log, q) \in Int
  BY Zenon, <1>6, <1>9, PlacedFacts
<1>11. <<v>> \in Seq(DOMAIN Q)
  BY Zenon, <1>9, OneIn
<1>12. Len(stack) > 0 /\ \A q : Total(<<p>>, q) = Worth(p, q)
  BY Zenon, <1>1, <1>4, <1>10, TopValue
<1>13. PICK s : /\ s \in Seq(DOMAIN Q) /\ NewTop(calls', s)
                /\ \A q : /\ Total(Pop(stack, 1), q) \in Int
                          /\ Total(s, q) = Total(Pop(stack, 1), q) + Total(<<v>>, q)
                          /\ Total(stack, q) = Total(Pop(stack, 1), q) + Total(<<Peek(stack, 0)>>, q)
  <2>1. CallsInv(calls, unwinding) /\ Ranked(Q) /\ stack \in Seq(DOMAIN Q) /\ Len(stack) > 0 /\ Replace(1, <<v>>)
    BY Zenon, <1>4, <1>6, <1>10, <1>12
  <2> QED
    BY ZenonT(30), <1>11, <2>1, Swap
<1>14. x.code = "A" /\ v.amount = x.amount /\ v.assetID = x.assetID /\ x.amount \in Int
  BY <1>2, <1>7
<1>15. Sound(DOMAIN Q, x)
  BY <1>14 DEF Sound
<1>16. /\ LogIn(DOMAIN Q, log')
       /\ \A q : Net(log', q) = Net(log, q) + Gain(x, q)
  BY Zenon, <1>4, <1>10, <1>15, LogOne
<1>17. ASSUME NEW a
       PROVE  /\ Total(s, OfAsset(a)) \in Int /\ Total(stack, OfAsset(a)) \in Int
              /\ Net(log', OfAsset(a)) \in Int /\ Net(log, OfAsset(a)) \in Int
              /\ Total(s, OfAsset(a)) - Net(log', OfAsset(a)) = Total(stack, OfAsset(a)) - Net(log, OfAsset(a))
  <2>1. PICK q : q = OfAsset(a)
    BY Zenon
  <2>2. PICK B, E, M, N, U, V :
          /\ B = Total(s, q) /\ E = Total(stack, q) /\ M = Net(log', q) /\ N = Net(log, q)
          /\ U = Total(Pop(stack, 1), q) /\ V = Worth(v, q)
    BY Zenon
  <2>3. Gain(x, q) = V
    <3>1. Gain(x, OfAsset(a)) = Worth(v, OfAsset(a))
      BY Zenon, <1>14, IssueGain
    <3> QED
      BY Zenon, <2>1, <2>2, <3>1
  <2>4. Worth(p, q) = 0
    BY Zenon, <1>4, <2>1, ZeroWorth
  <2>5. Total(<<v>>, q) = V /\ V \in Int
    BY Zenon, <1>7, <1>9, <1>10, <2>2, ValueTotal
  <2>6. B = U + V /\ E = U + 0 /\ U \in Int /\ N \in Int /\ M = N + V
    BY Zenon, <1>1, <1>10, <1>12, <1>13, <1>16, <2>2, <2>3, <2>4, <2>5
  <2>7. B \in Int /\ E \in Int /\ M \in Int /\ N \in Int /\ B - M = E - N
    BY <2>5, <2>6
  <2> QED
    BY Zenon, <2>1, <2>2, <2>7
<1> QED
  BY Zenon, <1>4, <1>6, <1>9, <1>13, <1>16, <1>17, StackStep DEF Before

\* opSplit: the parts have the amount of the whole.
LEMMA SplitAccount ==
  ASSUME NEW R, Before(R), NEW amount \in Int, opSplit(amount)
  PROVE  After
<1>1. PICK p : p = Peek(stack, 0)
  BY Zenon
<1>2. PICK v : v = Value(p.amount - amount, p.assetID, VMHash("Split1", p.anchor))
  BY Zenon
<1>3. PICK w : w = Value(amount, p.assetID, VMHash("Split2", p.anchor))
  BY Zenon
<1>4. /\ Charge(2 * EntryCost) /\ ValueAt(0) /\ Replace(1, <<v, w>>)
      /\ UNCHANGED <<argstack, unwinding>> /\ UNCHANGED log
  BY Zenon, <1>1, <1>2, <1>3 DEF opSplit, NoLog
<1>5. 2 * EntryCost \in Nat
  BY TxVMAssumptions
<1>6. /\ CallsInv(calls, unwinding) /\ unwinding = FALSE
      /\ runlimit' \in Nat /\ runlimit' <= runlimit /\ runlimit' <= runlimit'
      /\ Placed(R, runlimit, argstack, calls, log) /\ Ranked(R) /\ stack \in Seq(DOMAIN R)
  <2>1. /\ CallsInv(calls, unwinding) /\ unwinding = FALSE
        /\ runlimit' \in Nat /\ runlimit' <= runlimit
        /\ Placed(R, runlimit, argstack, calls, log) /\ Ranked(R) /\ stack \in Seq(DOMAIN R)
    BY Zenon, <1>4, <1>5, Pays DEF Before
  <2>2. runlimit' <= runlimit'
    BY <2>1
  <2> QED
    BY Zenon, <2>1, <2>2
<1>7. Len(stack) > 0 /\ p.amount \in Int /\ \A q : Total(<<p>>, q) = Worth(p, q)
  BY Zenon, <1>1, <1>4, <1>6, TopValue
<1>8. IsValue(v) /\ v.amount = p.amount - amount /\ v.assetID = p.assetID
  BY <1>2, ValueFacts
<1>9. IsValue(w) /\ w.amount = amount /\ w.assetID = p.assetID
  BY <1>3, ValueFacts
<1>10. p.amount - amount \in Int
  BY <1>7
<1>11. Joins(R, runlimit, runlimit', v)
  BY Zenon, <1>8, <1>10 DEF Joins
<1>12. PICK P : Placed(P, runlimit', argstack, calls, log) /\ v \in DOMAIN P
  BY Zenon, <1>6, <1>11, PlacedNew
<1>13. Joins(P, runlimit', runlimit', w)
  BY Zenon, <1>9 DEF Joins
<1>14. PICK Q : Placed(Q, runlimit', argstack, calls, log) /\ w \in DOMAIN Q /\ DOMAIN P \subseteq DOMAIN Q
  BY Zenon, <1>6, <1>12, <1>13, PlacedNew
<1>15. /\ Ranked(Q) /\ stack \in Seq(DOMAIN Q) /\ argstack \in Seq(DOMAIN Q) /\ LogIn(DOMAIN Q, log)
       /\ \A q : Total(stack, q) \in Int /\ Total(argstack, q) \in Int /\ Net(log, q) \in Int
  BY Zenon, <1>6, <1>14, PlacedFacts
<1>16. v \in DOMAIN Q /\ w \in DOMAIN Q
  BY Zenon, <1>12, <1>14
<1>17. <<v>> \in Seq(DOMAIN Q) /\ <<w>> \in Seq(DOMAIN Q)
  BY Zenon, <1>16, OneIn
<1>18. <<v, w>> \in Seq(DOMAIN Q) /\ <<v, w>> = <<v>> \o <<w>>
  BY <1>16
<1>19. PICK s : /\ s \in Seq(DOMAIN Q) /\ NewTop(calls', s)
                /\ \A q : /\ Total(Pop(stack, 1), q) \in Int
                          /\ Total(s, q) = Total(Pop(stack, 1), q) + Total(<<v, w>>, q)
                          /\ Total(stack, q) = Total(Pop(stack, 1), q) + Total(<<Peek(stack, 0)>>, q)
  <2>1. CallsInv(calls, unwinding) /\ Ranked(Q) /\ stack \in Seq(DOMAIN Q) /\ Len(stack) > 0 /\ Replace(1, <<v, w>>)
    BY Zenon, <1>4, <1>6, <1>7, <1>15
  <2> QED
    BY ZenonT(30), <1>18, <2>1, Swap
<1>20. \A q : Total(<<v, w>>, q) = Total(<<v>>, q) + Total(<<w>>, q)
  BY Zenon, <1>15, <1>17, <1>18, Totals
<1>21. ASSUME NEW a
       PROVE  /\ Total(s, OfAsset(a)) \in Int /\ Total(stack, OfAsset(a)) \in Int
              /\ Net(log', OfAsset(a)) \in Int /\ Net(log, OfAsset(a)) \in Int
              /\ Total(s, OfAsset(a)) - Net(log', OfAsset(a)) = Total(stack, OfAsset(a)) - Net(log, OfAsset(a))
  <2>1. PICK q : q = OfAsset(a)
    BY Zenon
  <2>2. PICK B, E, N, U, V, X, P0 :
          /\ B = Total(s, q) /\ E = Total(stack, q) /\ N = Net(log, q)
          /\ U = Total(Pop(stack, 1), q) /\ V = Worth(v, q) /\ X = Worth(w, q) /\ P0 = Worth(p, q)
    BY Zenon
  <2>3. Total(<<v>>, q) = V /\ V \in Int
    BY Zenon, <1>8, <1>15, <1>16, <2>2, ValueTotal
  <2>4. Total(<<w>>, q) = X /\ X \in Int
    BY Zenon, <1>9, <1>15, <1>16, <2>2, ValueTotal
  <2>5. V + X = P0
    <3>1. /\ V = IF p.assetID = a THEN p.amount - amount ELSE 0
          /\ X = IF p.assetID = a THEN amount ELSE 0
          /\ P0 = IF p.assetID = a THEN p.amount ELSE 0
      BY SMTT(30), <1>8, <1>9, <2>1, <2>2, AssetWorth
    <3> QED
      BY <1>7, <3>1
  <2>6. B = U + (V + X) /\ E = U + P0 /\ U \in Int /\ E \in Int /\ N \in Int
    BY Zenon, <1>1, <1>7, <1>15, <1>19, <1>20, <2>2, <2>3, <2>4
  <2>7. B = E
    BY Zenon, <2>5, <2>6
  <2>8. log' = log
    BY Zenon, <1>4
  <2> QED
    BY Zenon, <2>1, <2>2, <2>6, <2>7, <2>8
<1>22. LogIn(DOMAIN Q, log')
  BY Zenon, <1>4, <1>15
<1> QED
  BY Zenon, <1>4, <1>6, <1>14, <1>19, <1>21, <1>22, StackStep DEF Before

\* opMerge: the two values have one asset, and the sum is that of the amounts.
LEMMA MergeAccount ==
  ASSUME NEW R, Before(R), opMerge
  PROVE  After
<1>1. PICK p : p = Peek(stack, 0)
  BY Zenon
<1>2. PICK r : r = Peek(stack, 1)
  BY Zenon
<1>3. PICK v : v = Value(p.amount + r.amount, p.assetID, VMHash("Merge", <<p.anchor, r.anchor>>))
  BY Zenon
<1>4. /\ Charge(EntryCost) /\ ValueAt(0) /\ ValueAt(1) /\ p.assetID = r.assetID /\ Replace(2, <<v>>)
      /\ UNCHANGED <<argstack, unwinding>> /\ UNCHANGED log
  BY Zenon, <1>1, <1>2, <1>3 DEF opMerge, NoLog
<1>5. EntryCost \in Nat
  BY TxVMAssumptions
<1>6. /\ CallsInv(calls, unwinding) /\ unwinding = FALSE
      /\ runlimit' \in Nat /\ runlimit' <= runlimit
      /\ Placed(R, runlimit, argstack, calls, log) /\ Ranked(R) /\ stack \in Seq(DOMAIN R)
  BY Zenon, <1>4, <1>5, Pays DEF Before
<1>7. p.amount \in Int /\ \A q : Total(<<p>>, q) = Worth(p, q)
  BY Zenon, <1>1, <1>4, <1>6, TopValue
<1>8. Len(stack) > 1 /\ r.amount \in Int /\ \A q : Total(<<r>>, q) = Worth(r, q)
  <2>1. Len(stack) > 1 /\ 1 < Len(stack) /\ 1 \in Nat /\ IsValue(r)
    BY <1>2, <1>4, <1>6 DEF ValueAt, Depth
  <2>2. r \in DOMAIN R
    BY Zenon, <1>2, <1>6, <2>1, PeekIn
  <2> QED
    BY Zenon, <1>6, <2>1, <2>2, ValueTotal
<1>9. IsValue(v) /\ v.amount = p.amount + r.amount /\ v.assetID = p.assetID
  BY <1>3, ValueFacts
<1>10. p.amount + r.amount \in Int
  BY <1>7, <1>8
<1>11. Joins(R, runlimit, runlimit', v)
  BY Zenon, <1>9, <1>10 DEF Joins
<1>12. PICK Q : Placed(Q, runlimit', argstack, calls, log) /\ v \in DOMAIN Q
  BY Zenon, <1>6, <1>11, PlacedNew
<1>13. /\ Ranked(Q) /\ stack \in Seq(DOMAIN Q) /\ argstack \in Seq(DOMAIN Q) /\ LogIn(DOMAIN Q, log)
       /\ \A q : Total(stack, q) \in Int /\ Total(argstack, q) \in Int /\ Net(log, q) \in Int
  BY Zenon, <1>6, <1>12, PlacedFacts
<1>14. <<v>> \in Seq(DOMAIN Q)
  BY Zenon, <1>12, OneIn
<1>15. PICK s : /\ s \in Seq(DOMAIN Q) /\ NewTop(calls', s)
                /\ \A q : /\ Total(Pop(stack, 2), q) \in Int
                          /\ Total(s, q) = Total(Pop(stack, 2), q) + Total(<<v>>, q)
                          /\ Total(stack, q) = Total(Pop(stack, 2), q) + Total(<<Peek(stack, 1)>>, q)
                                                 + Total(<<Peek(stack, 0)>>, q)
  <2>1. CallsInv(calls, unwinding) /\ Ranked(Q) /\ stack \in Seq(DOMAIN Q) /\ Len(stack) > 1 /\ Replace(2, <<v>>)
    BY Zenon, <1>4, <1>6, <1>8, <1>13
  <2> QED
    BY Zenon, <1>14, <2>1, SwapTwo
<1>16. ASSUME NEW a
       PROVE  /\ Total(s, OfAsset(a)) \in Int /\ Total(stack, OfAsset(a)) \in Int
              /\ Net(log', OfAsset(a)) \in Int /\ Net(log, OfAsset(a)) \in Int
              /\ Total(s, OfAsset(a)) - Net(log', OfAsset(a)) = Total(stack, OfAsset(a)) - Net(log, OfAsset(a))
  <2>1. PICK q : q = OfAsset(a)
    BY Zenon
  <2>2. PICK B, E, N, U, V, X, Y :
          /\ B = Total(s, q) /\ E = Total(stack, q) /\ N = Net(log, q)
          /\ U = Total(Pop(stack, 2), q) /\ V = Worth(v, q) /\ X = Worth(r, q) /\ Y = Worth(p, q)
    BY Zenon
  <2>3. Total(<<v>>, q) = V
    BY Zenon, <1>9, <1>12, <1>13, <2>2, ValueTotal
  <2>4. X \in Int /\ Y \in Int /\ V = X + Y
    <3>1. /\ V = IF p.assetID = a THEN p.amount + r.amount ELSE 0
          /\ X = IF p.assetID = a THEN r.amount ELSE 0
          /\ Y = IF p.assetID = a THEN p.amount ELSE 0
      BY SMTT(30), <1>4, <1>9, <2>1, <2>2, AssetWorth
    <3> QED
      BY <1>7, <1>8, <3>1
  <2>5. B = U + V /\ E = U + X + Y /\ U \in Int /\ E \in Int /\ N \in Int
    BY Zenon, <1>1, <1>2, <1>7, <1>8, <1>13, <1>15, <2>2, <2>3
  <2>6. B = E
    BY <2>4, <2>5
  <2>7. log' = log
    BY Zenon, <1>4
  <2> QED
    BY Zenon, <2>1, <2>2, <2>5, <2>6, <2>7
<1>17. LogIn(DOMAIN Q, log')
  BY Zenon, <1>4, <1>13
<1> QED
  BY Zenon, <1>4, <1>6, <1>12, <1>15, <1>16, <1>17, StackStep DEF Before

\* An instruction uses up the value on top, and the log says so.
LEMMA Spends ==
  ASSUME NEW R, Before(R), NEW cost \in Nat, Charge(cost), ValueAt(0), Replace(1, <<>>),
         UNCHANGED <<argstack, unwinding>>, LogIn(DOMAIN R, log'),
         \A a : Net(log', OfAsset(a)) = Net(log, OfAsset(a)) + (0 - Worth(Peek(stack, 0), OfAsset(a)))
  PROVE  After
<1>1. /\ CallsInv(calls, unwinding) /\ unwinding = FALSE
      /\ Placed(R, runlimit', argstack, calls, log) /\ Ranked(R) /\ stack \in Seq(DOMAIN R)
  BY Zenon, Pays DEF Before
<1>2. PICK p : p = Peek(stack, 0)
  BY Zenon
<1>3. Len(stack) > 0 /\ \A q : Total(<<p>>, q) = Worth(p, q) /\ Worth(p, q) \in Int
  BY Zenon, <1>1, <1>2, TopValue
<1>4. <<>> \in Seq(DOMAIN R)
  OBVIOUS
<1>5. PICK s : /\ s \in Seq(DOMAIN R) /\ NewTop(calls', s)
               /\ \A q : /\ Total(Pop(stack, 1), q) \in Int
                         /\ Total(s, q) = Total(Pop(stack, 1), q) + Total(<<>>, q)
                         /\ Total(stack, q) = Total(Pop(stack, 1), q) + Total(<<Peek(stack, 0)>>, q)
  <2>1. CallsInv(calls, unwinding) /\ Ranked(R) /\ stack \in Seq(DOMAIN R) /\ Len(stack) > 0 /\ Replace(1, <<>>)
    BY Zenon, <1>1, <1>3
  <2> QED
    BY Zenon, <1>4, <2>1, Swap
<1>6. \A q : Net(log, q) \in Int /\ Total(<<>>, q) = 0
  BY Zenon, <1>1, PlacedFacts, Totals
<1>7. ASSUME NEW a
      PROVE  /\ Total(s, OfAsset(a)) \in Int /\ Total(stack, OfAsset(a)) \in Int
             /\ Net(log', OfAsset(a)) \in Int /\ Net(log, OfAsset(a)) \in Int
             /\ Total(s, OfAsset(a)) - Net(log', OfAsset(a)) = Total(stack, OfAsset(a)) - Net(log, OfAsset(a))
  <2>1. PICK q : q = OfAsset(a)
    BY Zenon
  <2>2. PICK B, E, M, N, U, V :
          /\ B = Total(s, q) /\ E = Total(stack, q) /\ M = Net(log', q) /\ N = Net(log, q)
          /\ U = Total(Pop(stack, 1), q) /\ V = Worth(p, q)
    BY Zenon
  <2>3. Net(log', q) = Net(log, q) + (0 - Worth(p, q))
    BY Zenon, <1>2, <2>1
  <2>4. B = U + 0 /\ E = U + V /\ M = N + (0 - V) /\ U \in Int /\ V \in Int /\ N \in Int
    BY Zenon, <1>2, <1>3, <1>5, <1>6, <2>2, <2>3
  <2>5. B \in Int /\ E \in Int /\ M \in Int /\ B - M = E - N
    BY <2>4
  <2> QED
    BY Zenon, <2>1, <2>2, <2>4, <2>5
<1> QED
  BY Zenon, <1>1, <1>5, <1>7, StackStep DEF Before

\* opRetire: the value goes, and the log says so.
LEMMA RetireAccount ==
  ASSUME NEW R, Before(R), opRetire
  PROVE  After
<1>1. PICK p : p = Peek(stack, 0)
  BY Zenon
<1>2. PICK x : x = [code |-> "X", seed |-> contract.seed, amount |-> p.amount,
                    assetID |-> p.assetID, anchor |-> p.anchor]
  BY Zenon
<1>3. /\ Charge(DataCost) /\ ValueAt(0) /\ Log(<<x>>) /\ Replace(1, <<>>) /\ UNCHANGED <<argstack, unwinding>>
  BY Zenon, <1>1, <1>2 DEF opRetire
<1>4. DataCost \in Nat
  BY TxVMAssumptions
<1>5. Ranked(R) /\ stack \in Seq(DOMAIN R) /\ LogIn(DOMAIN R, log)
  BY Zenon, <1>3, <1>4, Pays DEF Before
<1>6. p.amount \in Int
  BY Zenon, <1>1, <1>3, <1>5, TopValue
<1>7. x.code = "X" /\ x.amount \in Int /\ p.amount = x.amount /\ p.assetID = x.assetID
  BY <1>2, <1>6
<1>8. Sound(DOMAIN R, x)
  BY <1>7 DEF Sound
<1>9. LogIn(DOMAIN R, log') /\ \A q : Net(log', q) = Net(log, q) + Gain(x, q)
  BY Zenon, <1>3, <1>5, <1>8, LogOne
<1>10. ASSUME NEW a
       PROVE  Net(log', OfAsset(a)) = Net(log, OfAsset(a)) + (0 - Worth(Peek(stack, 0), OfAsset(a)))
  <2>1. Gain(x, OfAsset(a)) = 0 - Worth(p, OfAsset(a))
    BY Zenon, <1>7, RetireGain
  <2> QED
    BY Zenon, <1>1, <1>9, <2>1
<1> QED
  BY Zenon, <1>3, <1>4, <1>9, <1>10, Spends

\* Dropping a value of zero, or finalizing with it, changes no amount.
LEMMA ZeroSpent ==
  ASSUME NEW R, Before(R), NEW cost \in Nat, Charge(cost), ValueAt(0), isZero(Peek(stack, 0)), Replace(1, <<>>),
         UNCHANGED <<argstack, unwinding>>, LogIn(DOMAIN R, log'), \A q : Net(log', q) = Net(log, q)
  PROVE  After
<1>1. \A a : Worth(Peek(stack, 0), OfAsset(a)) = 0
  BY Zenon, ZeroWorth DEF isZero
<1>2. CallsInv(calls, unwinding) /\ Placed(R, runlimit', argstack, calls, log)
  BY Zenon, Pays DEF Before
<1>3. \A q : Net(log, q) \in Int
  BY Zenon, <1>2, PlacedFacts
<1>4. ASSUME NEW a
      PROVE  Net(log', OfAsset(a)) = Net(log, OfAsset(a)) + (0 - Worth(Peek(stack, 0), OfAsset(a)))
  <2>1. PICK N : N = Net(log, OfAsset(a))
    BY Zenon
  <2>2. N = N + (0 - 0)
    <3>1. N \in Int
      BY Zenon, <1>3, <2>1
    <3> QED
      BY <3>1
  <2> QED
    BY Zenon, <1>1, <2>1, <2>2
<1> QED
  BY Zenon, <1>4, Spends

\* opDrop: values only of amount zero.
LEMMA DropAccount ==
  ASSUME NEW R, Before(R), opDrop
  PROVE  After
<1>1. /\ Charge(0) /\ Depth > 0 /\ isZero(Peek(stack, 0)) /\ Replace(1, <<>>)
      /\ UNCHANGED <<argstack, unwinding>> /\ UNCHANGED log
  BY Zenon DEF opDrop, isDroppable, NoLog
<1>2. 0 \in Nat /\ ValueAt(0)
  BY <1>1 DEF ValueAt, isZero
<1>3. LogIn(DOMAIN R, log)
  BY Zenon, <1>1, <1>2, Pays DEF Before
<1>4. LogIn(DOMAIN R, log') /\ \A q : Net(log', q) = Net(log, q)
  BY Zenon, <1>1, <1>3
<1> QED
  BY Zenon, <1>1, <1>2, <1>4, ZeroSpent

\* An item that carries no value is logged.
LEMMA LogPlain ==
  ASSUME NEW R, Ranked(R), LogIn(DOMAIN R, log), NEW x, x.code \in {"N", "R", "L", "F"}, Log(<<x>>)
  PROVE  LogIn(DOMAIN R, log') /\ \A q : Net(log', q) = Net(log, q)
<1>1. Sound(DOMAIN R, x)
  BY DEF Sound
<1>2. LogIn(DOMAIN R, log') /\ \A q : Net(log, q) \in Int /\ Net(log', q) = Net(log, q) + Gain(x, q)
  BY Zenon, <1>1, LogOne
<1>3. ASSUME NEW q
      PROVE  Net(log', q) = Net(log, q)
  <2>1. Gain(x, q) = 0
    BY NoGain
  <2>2. PICK M, N : M = Net(log', q) /\ N = Net(log, q)
    BY Zenon
  <2>3. N \in Int /\ M = N + 0
    BY Zenon, <1>2, <2>1, <2>2
  <2> QED
    BY <2>2, <2>3
<1> QED
  BY Zenon, <1>2, <1>3

\* opFinalize: the anchor it uses up has amount zero.
LEMMA FinalizeAccount ==
  ASSUME NEW R, Before(R), opFinalize
  PROVE  After
<1>1. PICK x : x = [code |-> "F", seed |-> contract.seed, version |-> version,
                    anchor |-> Peek(stack, 0).anchor]
  BY Zenon
<1>2. /\ Charge(DataCost) /\ ValueAt(0) /\ isZero(Peek(stack, 0)) /\ Log(<<x>>) /\ Replace(1, <<>>)
      /\ UNCHANGED <<argstack, unwinding>>
  BY Zenon, <1>1 DEF opFinalize
<1>3. DataCost \in Nat
  BY TxVMAssumptions
<1>4. Ranked(R) /\ LogIn(DOMAIN R, log)
  BY Zenon, <1>2, <1>3, Pays DEF Before
<1>5. x.code \in {"N", "R", "L", "F"}
  BY Zenon, <1>1
<1>6. LogIn(DOMAIN R, log') /\ \A q : Net(log', q) = Net(log, q)
  BY <1>2, <1>4, <1>5, LogPlain
<1> QED
  BY Zenon, <1>2, <1>3, <1>6, ZeroSpent

\* An instruction that changes neither the argument stack nor the log, nor
\* what the current stack is worth.
LEMMA QuietStep ==
  ASSUME CallsInv(calls, unwinding), unwinding = FALSE, Balances(argstack, calls, unwinding, log),
         NEW Q, Placed(Q, runlimit', argstack, calls, log), UNCHANGED <<argstack, unwinding>>,
         LogIn(DOMAIN Q, log'), \A q : Net(log', q) = Net(log, q),
         NEW s, s \in Seq(DOMAIN Q), NewTop(calls', s), \A q : Total(s, q) = Total(stack, q)
  PROVE  After
<1>1. \A q : Total(stack, q) \in Int /\ Net(log, q) \in Int
  BY Zenon, PlacedFacts
<1>2. \A a : /\ Total(s, OfAsset(a)) \in Int /\ Total(stack, OfAsset(a)) \in Int
             /\ Net(log', OfAsset(a)) \in Int /\ Net(log, OfAsset(a)) \in Int
             /\ Total(s, OfAsset(a)) - Net(log', OfAsset(a)) = Total(stack, OfAsset(a)) - Net(log, OfAsset(a))
  BY Zenon, <1>1
<1> QED
  BY Zenon, <1>2, StackStep

\* The instructions that permute the stack,
LEMMA PermuteAccount ==
  ASSUME NEW R, Before(R), NEW n \in Nat, NEW s, Permute(n, s),
         Ranked(R) /\ stack \in Seq(DOMAIN R) => s \in Seq(DOMAIN R) /\ \A q : Total(s, q) = Total(stack, q)
  PROVE  After
<1>1. Charge(n) /\ calls' = WithStack(s) /\ UNCHANGED <<argstack, unwinding>> /\ UNCHANGED log
  BY Zenon DEF Permute, NoLog
<1>2. /\ CallsInv(calls, unwinding) /\ unwinding = FALSE
      /\ Placed(R, runlimit', argstack, calls, log) /\ Ranked(R) /\ stack \in Seq(DOMAIN R)
      /\ LogIn(DOMAIN R, log)
  BY Zenon, <1>1, Pays DEF Before
<1>3. s \in Seq(DOMAIN R) /\ \A q : Total(s, q) = Total(stack, q)
  BY Zenon, <1>2
<1>4. NewTop(calls', s)
  BY Zenon, <1>1, <1>2, Tops
<1>5. LogIn(DOMAIN R, log') /\ \A q : Net(log', q) = Net(log, q)
  BY Zenon, <1>1, <1>2
<1> QED
  BY Zenon, <1>1, <1>2, <1>3, <1>4, <1>5, QuietStep DEF Before

\* which are roll, bury and reverse.
LEMMA RollAccount ==
  ASSUME NEW R, Before(R), NEW n \in Nat, opRoll(n) \/ opBury(n) \/ opReverse(n)
  PROVE  After
<1>1. CASE opRoll(n)
  <2>1. n < Len(stack) /\ Permute(n, Roll(stack, n))
    BY Zenon, <1>1 DEF opRoll, Depth
  <2>2. ASSUME Ranked(R), stack \in Seq(DOMAIN R)
        PROVE  Roll(stack, n) \in Seq(DOMAIN R) /\ \A q : Total(Roll(stack, n), q) = Total(stack, q)
    BY Zenon, <2>1, <2>2, RollIn, TotalRoll
  <2> QED
    BY Zenon, <2>1, <2>2, PermuteAccount
<1>2. CASE opBury(n)
  <2>1. n < Len(stack) /\ Permute(n, Bury(stack, n))
    BY Zenon, <1>2 DEF opBury, Depth
  <2>2. ASSUME Ranked(R), stack \in Seq(DOMAIN R)
        PROVE  Bury(stack, n) \in Seq(DOMAIN R) /\ \A q : Total(Bury(stack, n), q) = Total(stack, q)
    BY Zenon, <2>1, <2>2, BuryIn, TotalBury
  <2> QED
    BY Zenon, <2>1, <2>2, PermuteAccount
<1>3. CASE opReverse(n)
  <2>1. n <= Len(stack) /\ Permute(n, ReverseTop(stack, n))
    BY Zenon, <1>3 DEF opReverse, Depth
  <2>2. ASSUME Ranked(R), stack \in Seq(DOMAIN R)
        PROVE  ReverseTop(stack, n) \in Seq(DOMAIN R) /\ \A q : Total(ReverseTop(stack, n), q) = Total(stack, q)
    BY Zenon, <2>1, <2>2, ReverseIn, TotalReverse
  <2> QED
    BY Zenon, <2>1, <2>2, PermuteAccount
<1> QED
  BY Zenon, <1>1, <1>2, <1>3

\* The stacks exchange an item.
LEMMA GetAccount ==
  ASSUME NEW R, Before(R), opGet
  PROVE  After
<1>1. PICK p : p = Peek(argstack, 0)
  BY Zenon
<1>2. /\ Charge(0) /\ argstack # <<>> /\ Replace(0, <<p>>) /\ argstack' = Pop(argstack, 1)
      /\ UNCHANGED unwinding /\ UNCHANGED log
  BY Zenon, <1>1 DEF opGet, NoLog
<1>3. 0 \in Nat
  OBVIOUS
<1>4. /\ CallsInv(calls, unwinding) /\ unwinding = FALSE
      /\ Placed(R, runlimit', argstack, calls, log) /\ Ranked(R) /\ stack \in Seq(DOMAIN R)
      /\ argstack \in Seq(DOMAIN R) /\ LogIn(DOMAIN R, log)
  BY Zenon, <1>2, <1>3, Pays DEF Before
<1>5. Len(argstack) > 0 /\ 0 < Len(argstack) /\ 1 \in 0..Len(argstack)
  BY <1>2, <1>4
<1>6. p \in DOMAIN R /\ argstack' \in Seq(DOMAIN R)
  BY Zenon, <1>1, <1>2, <1>3, <1>4, <1>5, PeekIn, PopIn
<1>7. <<p>> \in Seq(DOMAIN R)
  BY Zenon, <1>6, OneIn
<1>8. PICK s : /\ s \in Seq(DOMAIN R) /\ NewTop(calls', s)
               /\ \A q : Total(s, q) = Total(stack, q) + Total(<<p>>, q)
  BY Zenon, <1>2, <1>4, <1>7, Push
<1>9. \A q : Total(argstack, q) = Total(argstack', q) + Total(<<p>>, q)
  BY Zenon, <1>1, <1>2, <1>4, <1>5, TotalPop
<1>10. \A q : /\ Total(stack, q) \in Int /\ Total(<<p>>, q) \in Int /\ Total(argstack', q) \in Int
              /\ Net(log, q) \in Int
  BY Zenon, <1>4, <1>6, <1>7, Totals, NetType
<1>11. ASSUME NEW q
       PROVE  Total(argstack', q) + Total(s, q) - Net(log', q) = Total(argstack, q) + Total(stack, q) - Net(log, q)
  <2>1. PICK A, B, C, E, N, P : /\ A = Total(argstack', q) /\ B = Total(s, q) /\ C = Total(argstack, q)
                                /\ E = Total(stack, q) /\ N = Net(log, q) /\ P = Total(<<p>>, q)
    BY Zenon
  <2>2. B = E + P /\ C = A + P /\ A \in Int /\ E \in Int /\ N \in Int /\ P \in Int
    BY Zenon, <1>8, <1>9, <1>10, <2>1
  <2>3. A + B - N = C + E - N
    BY <2>2
  <2> QED
    BY Zenon, <1>2, <2>1, <2>3
<1>12. SameWorth(argstack', s, log', argstack, stack, log)
  BY Zenon, <1>11 DEF SameWorth
<1>13. LogIn(DOMAIN R, log') /\ unwinding' = FALSE
  BY Zenon, <1>2, <1>4
<1> QED
  BY Zenon, <1>4, <1>6, <1>8, <1>12, <1>13, Exchange DEF Before

\* opPut: an item goes to the argument stack.
LEMMA PutAccount ==
  ASSUME NEW R, Before(R), opPut
  PROVE  After
<1>1. PICK p : p = Peek(stack, 0)
  BY Zenon
<1>2. /\ Charge(0) /\ Depth > 0 /\ Replace(1, <<>>) /\ argstack' = Append(argstack, p)
      /\ UNCHANGED unwinding /\ UNCHANGED log
  BY Zenon, <1>1 DEF opPut, NoLog
<1>3. 0 \in Nat
  OBVIOUS
<1>4. /\ CallsInv(calls, unwinding) /\ unwinding = FALSE
      /\ Placed(R, runlimit', argstack, calls, log) /\ Ranked(R) /\ stack \in Seq(DOMAIN R)
      /\ argstack \in Seq(DOMAIN R) /\ LogIn(DOMAIN R, log)
  BY Zenon, <1>2, <1>3, Pays DEF Before
<1>5. Len(stack) > 0 /\ 0 < Len(stack)
  BY <1>2, <1>4 DEF Depth
<1>6. p \in DOMAIN R
  BY Zenon, <1>1, <1>3, <1>4, <1>5, PeekIn
<1>7. <<p>> \in Seq(DOMAIN R) /\ <<>> \in Seq(DOMAIN R)
  BY <1>6
<1>8. argstack' = argstack \o <<p>>
  BY <1>2, <1>4, <1>6
<1>9. argstack' \in Seq(DOMAIN R)
  BY Zenon, <1>4, <1>7, <1>8, ConcatIn
<1>10. PICK s : /\ s \in Seq(DOMAIN R) /\ NewTop(calls', s)
                /\ \A q : /\ Total(Pop(stack, 1), q) \in Int
                          /\ Total(s, q) = Total(Pop(stack, 1), q) + Total(<<>>, q)
                          /\ Total(stack, q) = Total(Pop(stack, 1), q) + Total(<<Peek(stack, 0)>>, q)
  <2>1. CallsInv(calls, unwinding) /\ Ranked(R) /\ stack \in Seq(DOMAIN R) /\ Len(stack) > 0 /\ Replace(1, <<>>)
    BY Zenon, <1>2, <1>4, <1>5
  <2> QED
    BY ZenonT(30), <1>7, <2>1, Swap
<1>11. \A q : Total(argstack', q) = Total(argstack, q) + Total(<<p>>, q)
  BY Zenon, <1>4, <1>7, <1>8, Totals
<1>12. \A q : /\ Total(argstack, q) \in Int /\ Total(<<p>>, q) \in Int /\ Total(<<>>, q) = 0
              /\ Net(log, q) \in Int
  BY Zenon, <1>4, <1>7, Totals, NetType
<1>13. ASSUME NEW q
       PROVE  Total(argstack', q) + Total(s, q) - Net(log', q) = Total(argstack, q) + Total(stack, q) - Net(log, q)
  <2>1. PICK A, B, C, E, N, P, U :
          /\ A = Total(argstack', q) /\ B = Total(s, q) /\ C = Total(argstack, q)
          /\ E = Total(stack, q) /\ N = Net(log, q) /\ P = Total(<<p>>, q) /\ U = Total(Pop(stack, 1), q)
    BY Zenon
  <2>2. B = U + 0 /\ E = U + P /\ A = C + P /\ C \in Int /\ U \in Int /\ N \in Int /\ P \in Int
    BY Zenon, <1>1, <1>10, <1>11, <1>12, <2>1
  <2>3. A + B - N = C + E - N
    BY <2>2
  <2> QED
    BY Zenon, <1>2, <2>1, <2>3
<1>14. SameWorth(argstack', s, log', argstack, stack, log)
  BY Zenon, <1>13 DEF SameWorth
<1>15. LogIn(DOMAIN R, log') /\ unwinding' = FALSE
  BY Zenon, <1>2, <1>4
<1> QED
  BY Zenon, <1>4, <1>9, <1>10, <1>14, <1>15, Exchange DEF Before

\* An instruction on data only, one that logs an item without value, and exec
\* leave the stacks alone.
LEMMA DataAccount ==
  ASSUME NEW R, Before(R), NEW cost, cost \in {0, DataCost}, DataInstruction(cost)
  PROVE  After
<1>1. Charge(cost) /\ UNCHANGED <<argstack, calls, unwinding>> /\ UNCHANGED log
  BY Zenon DEF DataInstruction, NoLog
<1>2. cost \in Nat
  BY TxVMAssumptions
<1>3. /\ CallsInv(calls, unwinding) /\ unwinding = FALSE
      /\ Placed(R, runlimit', argstack, calls, log) /\ stack \in Seq(DOMAIN R) /\ LogIn(DOMAIN R, log)
  BY Zenon, <1>1, <1>2, Pays DEF Before
<1>4. NewTop(calls', stack)
  BY Zenon, <1>1, <1>3, Tops
<1>5. LogIn(DOMAIN R, log') /\ \A q : Net(log', q) = Net(log, q)
  BY Zenon, <1>1, <1>3
<1> QED
  BY Zenon, <1>1, <1>3, <1>4, <1>5, QuietStep DEF Before

\* opExec: only the program changes.
LEMMA ExecAccount ==
  ASSUME NEW R, Before(R), opExec
  PROVE  After
<1>1. /\ Charge(0) /\ calls' = WithTop(Frame(contract, caller, Top.execs + 1))
      /\ UNCHANGED <<argstack, unwinding>> /\ UNCHANGED log
  BY Zenon DEF opExec, NoLog
<1>2. 0 \in Nat
  OBVIOUS
<1>3. /\ CallsInv(calls, unwinding) /\ unwinding = FALSE
      /\ Placed(R, runlimit', argstack, calls, log) /\ stack \in Seq(DOMAIN R) /\ LogIn(DOMAIN R, log)
  BY Zenon, <1>1, <1>2, Pays DEF Before
<1>4. NewTop(calls', stack)
  BY Zenon, <1>1, <1>3, Tops DEF stack
<1>5. LogIn(DOMAIN R, log') /\ \A q : Net(log', q) = Net(log, q)
  BY Zenon, <1>1, <1>3
<1> QED
  BY Zenon, <1>1, <1>3, <1>4, <1>5, QuietStep DEF Before

\* opLog and opTimeRange: a log item that moves nothing.
LEMMA LogAccount ==
  ASSUME NEW R, Before(R), Charge(DataCost), NEW x, x.code \in {"N", "R", "L", "F"}, Log(<<x>>),
         UNCHANGED <<argstack, calls, unwinding>>
  PROVE  After
<1>1. DataCost \in Nat
  BY TxVMAssumptions
<1>2. /\ CallsInv(calls, unwinding) /\ unwinding = FALSE /\ Ranked(R)
      /\ Placed(R, runlimit', argstack, calls, log) /\ stack \in Seq(DOMAIN R) /\ LogIn(DOMAIN R, log)
  BY Zenon, <1>1, Pays DEF Before
<1>3. NewTop(calls', stack)
  BY Zenon, <1>2, Tops
<1>4. LogIn(DOMAIN R, log') /\ \A q : Net(log', q) = Net(log, q)
  BY <1>2, LogPlain
<1> QED
  BY Zenon, <1>2, <1>3, <1>4, QuietStep DEF Before

\* A new contract holds nothing.
LEMMA ContractAccount ==
  ASSUME NEW R, Before(R), NEW prog, opContract(prog)
  PROVE  After
<1>1. PICK v : v = Contract("C", ContractSeed(prog), prog, <<>>)
  BY Zenon
<1>2. Charge(EntryCost) /\ Replace(0, <<v>>) /\ UNCHANGED <<argstack, unwinding>> /\ UNCHANGED log
  BY Zenon, <1>1 DEF opContract, NoLog
<1>3. EntryCost \in Nat
  BY TxVMAssumptions
<1>4. /\ CallsInv(calls, unwinding) /\ unwinding = FALSE
      /\ runlimit' \in Nat /\ runlimit' <= runlimit /\ runlimit' < runlimit
      /\ Placed(R, runlimit, argstack, calls, log)
  BY Zenon, <1>2, <1>3, Pays DEF Before
<1>5. v.type = "C" /\ v.stack = <<>>
  BY Zenon, <1>1 DEF Contract
<1>6. IsContract(v) /\ v.stack \in Seq(DOMAIN R) /\ (v.type = "W" => stackPortable(v.stack))
  BY <1>5 DEF IsContract
<1>7. Joins(R, runlimit, runlimit', v)
  BY Zenon, <1>4, <1>6 DEF Joins
<1>8. PICK Q : Placed(Q, runlimit', argstack, calls, log) /\ v \in DOMAIN Q
  BY Zenon, <1>4, <1>7, PlacedNew
<1>9. /\ Ranked(Q) /\ stack \in Seq(DOMAIN Q) /\ LogIn(DOMAIN Q, log)
      /\ \A q : Total(stack, q) \in Int
  BY Zenon, <1>4, <1>8, PlacedFacts
<1>10. <<v>> \in Seq(DOMAIN Q)
  BY Zenon, <1>8, OneIn
<1>11. PICK s : /\ s \in Seq(DOMAIN Q) /\ NewTop(calls', s)
                /\ \A q : Total(s, q) = Total(stack, q) + Total(<<v>>, q)
  BY Zenon, <1>2, <1>4, <1>9, <1>10, Push
<1>12. \A q : Total(<<v>>, q) = 0
  BY Zenon, <1>5, <1>6, <1>8, <1>9, ContractTotal, Totals
<1>13. ASSUME NEW q
       PROVE  Total(s, q) = Total(stack, q)
  <2>1. Total(s, q) = Total(stack, q) + 0 /\ Total(stack, q) \in Int
    BY Zenon, <1>9, <1>11, <1>12
  <2> QED
    BY <2>1
<1>14. LogIn(DOMAIN Q, log') /\ \A q : Net(log', q) = Net(log, q)
  BY Zenon, <1>2, <1>9
<1> QED
  BY Zenon, <1>2, <1>4, <1>8, <1>11, <1>13, <1>14, QuietStep DEF Before

\* A log item with a snapshot's ID brings in, or takes out, all that the
\* contract holds.
LEMMA SnapshotGain ==
  ASSUME NEW x, NEW con, x.id = SnapshotID(con), NEW q, Total(con.stack, q) \in Int
  PROVE  /\ x.code = "I" => Gain(x, q) = Total(con.stack, q)
         /\ x.code = "O" => Gain(x, q) = 0 - Total(con.stack, q)
<1>1. x.id[2] = con
  BY DEF SnapshotID, VMHash
<1>2. ASSUME x.code \in {"I", "O"}
      PROVE  Entry(x, q) = Total(con.stack, q)
  BY <1>1, <1>2 DEF Entry
<1>3. ASSUME x.code = "I"
      PROVE  x.code \in InCodes /\ x.code \in {"I", "O"}
  BY <1>3 DEF InCodes
<1>4. ASSUME x.code = "O"
      PROVE  x.code \in OutCodes /\ x.code \in {"I", "O"}
  BY <1>4 DEF OutCodes
<1> QED
  BY Zenon, <1>2, <1>3, <1>4, Gains

\* opInput: the contract on the stack and its snapshot ID in the log hold the
\* same values.
LEMMA InputAccount ==
  ASSUME NEW R, Before(R), NEW con \in Snapshots, opInput(con)
  PROVE  After
<1>1. PICK x : x = [code |-> "I", seed |-> contract.seed, id |-> SnapshotID(con)]
  BY Zenon
<1>2. Charge(DataCost + EntryCost) /\ Log(<<x>>) /\ Replace(0, <<con>>) /\ UNCHANGED <<argstack, unwinding>>
  BY Zenon, <1>1 DEF opInput
<1>3. DataCost + EntryCost \in Nat
  BY TxVMAssumptions
<1>4. /\ CallsInv(calls, unwinding) /\ unwinding = FALSE /\ Ranked(R)
      /\ Placed(R, runlimit', argstack, calls, log) /\ stack \in Seq(DOMAIN R) /\ LogIn(DOMAIN R, log)
  BY Zenon, <1>2, <1>3, Pays DEF Before
<1>5. con \in DOMAIN R /\ IsContract(con)
  BY Zenon, <1>4 DEF Placed
<1>6. con.stack \in Seq(DOMAIN R) /\ \A q : Total(<<con>>, q) = Total(con.stack, q)
  BY Zenon, <1>4, <1>5, ContractTotal
<1>7. <<con>> \in Seq(DOMAIN R)
  BY Zenon, <1>5, OneIn
<1>8. PICK s : /\ s \in Seq(DOMAIN R) /\ NewTop(calls', s)
               /\ \A q : Total(s, q) = Total(stack, q) + Total(<<con>>, q)
  BY Zenon, <1>2, <1>4, <1>7, Push
<1>9. x.code = "I" /\ x.id = SnapshotID(con)
  BY Zenon, <1>1
<1>10. Sound(DOMAIN R, x)
  <2>1. x.id[2].stack \in Seq(DOMAIN R)
    BY <1>6, <1>9 DEF SnapshotID, VMHash
  <2>2. x.code # "O" /\ x.code \notin {"A", "X"}
    BY <1>9
  <2> QED
    BY Zenon, <2>1, <2>2 DEF Sound
<1>11. LogIn(DOMAIN R, log') /\ \A q : Net(log', q) = Net(log, q) + Gain(x, q)
  BY Zenon, <1>2, <1>4, <1>10, LogOne
<1>12. \A q : Total(stack, q) \in Int /\ Net(log, q) \in Int /\ Total(con.stack, q) \in Int
  BY Zenon, <1>4, <1>6, PlacedFacts, Totals
<1>13. \A q : Gain(x, q) = Total(con.stack, q)
  BY Zenon, <1>9, <1>12, SnapshotGain
<1>14. ASSUME NEW q
       PROVE  /\ Total(s, q) \in Int /\ Total(stack, q) \in Int /\ Net(log', q) \in Int /\ Net(log, q) \in Int
              /\ Total(s, q) - Net(log', q) = Total(stack, q) - Net(log, q)
  <2>1. PICK B, E, M, N, C : /\ B = Total(s, q) /\ E = Total(stack, q) /\ M = Net(log', q) /\ N = Net(log, q)
                             /\ C = Total(con.stack, q)
    BY Zenon
  <2>2. B = E + C /\ M = N + C /\ E \in Int /\ N \in Int /\ C \in Int
    BY Zenon, <1>6, <1>8, <1>11, <1>12, <1>13, <2>1
  <2>3. B \in Int /\ M \in Int /\ B - M = E - N
    BY <2>2
  <2> QED
    BY Zenon, <2>1, <2>2, <2>3
<1> QED
  BY Zenon, <1>2, <1>4, <1>8, <1>11, <1>14, StackStep DEF Before

\* A called contract takes its stack from the caller's stack to its own.
LEMMA CallAccount ==
  ASSUME NEW R, Before(R), opCall
  PROVE  After
<1> DEFINE D == DOMAIN R
           f == Pop(calls, 1)
<1>1. PICK con : con = Peek(stack, 0)
  BY Zenon
<1>2. PICK z : z = Frame(Contract("C", con.seed, con.program, con.stack), contract.seed, 0)
  BY Zenon
<1>3. /\ Charge(0) /\ Depth > 0 /\ IsContract(con) /\ calls' = Append(WithStack(Pop(stack, 1)), z)
      /\ UNCHANGED <<argstack, unwinding>> /\ UNCHANGED log
  BY Zenon, <1>1, <1>2 DEF opCall, NoLog
<1>4. 0 \in Nat
  OBVIOUS
<1>5. /\ CallsInv(calls, unwinding) /\ unwinding = FALSE /\ Ranked(R)
      /\ Placed(R, runlimit', argstack, calls, log) /\ stack \in Seq(D)
  BY Zenon, <1>3, <1>4, Pays DEF Before
<1>6. Len(stack) > 0 /\ 0 < Len(stack) /\ 1 \in 0..Len(stack)
  BY <1>3, <1>5 DEF Depth
<1>7. con \in D /\ Pop(stack, 1) \in Seq(D)
  BY Zenon, <1>1, <1>4, <1>5, <1>6, PeekIn, PopIn
<1>8. con.stack \in Seq(D) /\ \A q : Total(<<con>>, q) = Total(con.stack, q)
  BY Zenon, <1>3, <1>5, <1>7, ContractTotal
<1>9. z.con.stack = con.stack
  BY Zenon, <1>2 DEF Frame, Contract
<1>10. PICK w : w = WithStack(Pop(stack, 1))
  BY Zenon
<1>11. PICK x : x.con.stack = Pop(stack, 1) /\ w = Append(f, x)
  BY Zenon, <1>5, <1>10, Tops DEF NewTop
<1>12. PICK y : y.con.stack = stack /\ calls = Append(f, y)
  BY Zenon, <1>5, Tops DEF NewTop
<1>13. /\ Room(R, runlimit') /\ argstack \in Seq(D) /\ CallsIn(D, calls) /\ LogIn(D, log)
       /\ \A c \in Snapshots : c \in D /\ IsContract(c)
  BY Zenon, <1>5 DEF Placed
<1>14. IsSeq(f) /\ CallsIn(D, f)
  BY Zenon, <1>5, <1>13, FrontPlaced
<1> HIDE DEF f
<1>15. IsSeq(w) /\ CallsIn(D, w)
  BY Zenon, <1>7, <1>11, <1>14, AppendFacts, CallsInAppend
<1>16. calls' = Append(w, z) /\ z.con.stack \in Seq(D)
  BY Zenon, <1>3, <1>8, <1>9, <1>10
<1>17. CallsIn(D, calls')
  BY Zenon, <1>15, <1>16, CallsInAppend
<1>18. Placed(R, runlimit', argstack', calls', log')
  BY Zenon, <1>3, <1>5, <1>13, <1>17 DEF Placed
<1>19. ASSUME NEW q
       PROVE  HeldAt(argstack, calls', FALSE, q) = HeldAt(argstack, calls, FALSE, q)
  <2>1. /\ Sum(Frames(f, q)) \in Int
        /\ HeldAt(argstack, calls, FALSE, q) = Total(argstack, q) + (Sum(Frames(f, q)) + Total(stack, q))
    BY Zenon, <1>5, <1>12, <1>14, HeldTop
  <2>2. HeldAt(argstack, calls', FALSE, q) = Total(argstack, q) + (Sum(Frames(w, q)) + Total(con.stack, q))
    BY ZenonT(30), <1>5, <1>9, <1>15, <1>16, HeldTop
  <2>3. Sum(Frames(w, q)) = Sum(Frames(f, q)) + Total(Pop(stack, 1), q)
    <3>1. x.con.stack \in Seq(D)
      BY Zenon, <1>7, <1>11
    <3>2. Sum(Frames(Append(f, x), q)) = Sum(Frames(f, q)) + Total(x.con.stack, q)
      BY Zenon, <1>5, <1>14, <3>1, FramesAppend
    <3> QED
      BY Zenon, <1>11, <3>2
  <2>4. Total(stack, q) = Total(Pop(stack, 1), q) + Total(con.stack, q)
    BY Zenon, <1>1, <1>5, <1>6, <1>8, TotalPop
  <2>5. Total(Pop(stack, 1), q) \in Int /\ Total(con.stack, q) \in Int
    BY Zenon, <1>5, <1>7, <1>8, Totals
  <2>6. PICK F, P, C : F = Sum(Frames(f, q)) /\ P = Total(Pop(stack, 1), q) /\ C = Total(con.stack, q)
    BY Zenon
  <2>7. F \in Int /\ P \in Int /\ C \in Int
    BY Zenon, <2>1, <2>5, <2>6
  <2>8. (F + P) + C = F + (P + C)
    BY <2>7
  <2> QED
    BY Zenon, <2>1, <2>2, <2>3, <2>4, <2>6, <2>8
<1>20. Balances(argstack', calls', unwinding', log')
  BY Zenon, <1>3, <1>5, <1>19 DEF Before, Balances
<1> QED
  BY Zenon, <1>18, <1>20 DEF After

\* A contract that is output takes what it holds out of the transaction.
LEMMA OutputAccount ==
  ASSUME NEW R, Before(R), NEW prog, opOutput(prog)
  PROVE  After
<1>1. PICK con : con = Contract(contract.type, contract.seed, prog, stack)
  BY Zenon
<1>2. PICK x : x = [code |-> "O", caller |-> caller, id |-> SnapshotID(con)]
  BY Zenon
<1>3. /\ Charge(2 * DataCost) /\ stackPortable(stack) /\ Log(<<x>>) /\ calls' = WithContract(con)
      /\ unwinding' = TRUE /\ UNCHANGED argstack
  BY Zenon, <1>1, <1>2 DEF opOutput
<1>4. 2 * DataCost \in Nat
  BY TxVMAssumptions
<1>5. /\ CallsInv(calls, unwinding) /\ unwinding = FALSE /\ Ranked(R)
      /\ Placed(R, runlimit', argstack, calls, log) /\ stack \in Seq(DOMAIN R) /\ LogIn(DOMAIN R, log)
      /\ argstack \in Seq(DOMAIN R)
  BY Zenon, <1>3, <1>4, Pays DEF Before
<1>6. con.stack = stack
  BY Zenon, <1>1 DEF Contract
<1>7. NewTop(calls', stack)
  BY Zenon, <1>3, <1>5, <1>6, Tops
<1>8. x.code = "O" /\ x.id = SnapshotID(con)
  BY Zenon, <1>2
<1>9. Sound(DOMAIN R, x)
  <2>1. x.id[2].stack = stack
    BY <1>6, <1>8 DEF SnapshotID, VMHash
  <2>2. x.code \notin {"A", "X"}
    BY <1>8
  <2> QED
    BY Zenon, <1>3, <1>5, <2>1, <2>2 DEF Sound
<1>10. LogIn(DOMAIN R, log') /\ \A q : Net(log', q) = Net(log, q) + Gain(x, q)
  BY Zenon, <1>3, <1>5, <1>9, LogOne
<1>11. \A q : /\ Total(stack, q) \in Int /\ Net(log, q) \in Int /\ Total(argstack, q) \in Int
              /\ Total(<<>>, q) = 0
  BY Zenon, <1>5, PlacedFacts, Totals
<1>12. \A q : Gain(x, q) = 0 - Total(stack, q)
  BY Zenon, <1>6, <1>8, <1>11, SnapshotGain
<1>13. ASSUME NEW q
       PROVE  Total(argstack', q) + Total(<<>>, q) - Net(log', q) = Total(argstack, q) + Total(stack, q) - Net(log, q)
  <2>1. PICK A, E, M, N : A = Total(argstack, q) /\ E = Total(stack, q) /\ M = Net(log', q) /\ N = Net(log, q)
    BY Zenon
  <2>2. M = N + (0 - E) /\ A \in Int /\ E \in Int /\ N \in Int
    BY Zenon, <1>10, <1>11, <1>12, <2>1
  <2>3. A + 0 - M = A + E - N
    BY <2>2
  <2> QED
    BY Zenon, <1>3, <1>11, <2>1, <2>3
<1>14. SameWorth(argstack', <<>>, log', argstack, stack, log)
  BY Zenon, <1>13 DEF SameWorth
<1>15. argstack' \in Seq(DOMAIN R)
  BY Zenon, <1>3, <1>5
<1> QED
  BY Zenon, <1>3, <1>5, <1>7, <1>10, <1>14, <1>15, Leave DEF Before

\* A contract that yields, or wraps itself, takes what it holds to the
\* argument stack.
LEMMA SuspendAccount ==
  ASSUME NEW R, Before(R), NEW con, IsContract(con), con.stack = stack,
         con.type = "W" => stackPortable(stack), Suspend(con)
  PROVE  After
<1>1. /\ Charge(0) /\ calls' = WithContract(con) /\ argstack' = Append(argstack, con) /\ unwinding' = TRUE
      /\ UNCHANGED log
  BY Zenon DEF Suspend, NoLog
<1>2. 0 \in Nat
  OBVIOUS
<1>3. /\ CallsInv(calls, unwinding) /\ unwinding = FALSE
      /\ runlimit' \in Nat /\ runlimit' <= runlimit /\ runlimit' < runlimit
      /\ Placed(R, runlimit, argstack, calls, log) /\ stack \in Seq(DOMAIN R)
  BY Zenon, <1>1, <1>2, Pays DEF Before
<1>4. Joins(R, runlimit, runlimit', con)
  BY Zenon, <1>3 DEF Joins
<1>5. PICK Q : Placed(Q, runlimit', argstack, calls, log) /\ con \in DOMAIN Q
  BY Zenon, <1>3, <1>4, PlacedNew
<1>6. /\ Ranked(Q) /\ stack \in Seq(DOMAIN Q) /\ LogIn(DOMAIN Q, log) /\ argstack \in Seq(DOMAIN Q)
      /\ \A q : Total(stack, q) \in Int /\ Total(argstack, q) \in Int /\ Net(log, q) \in Int
  BY Zenon, <1>3, <1>5, PlacedFacts
<1>7. <<con>> \in Seq(DOMAIN Q)
  BY Zenon, <1>5, OneIn
<1>8. argstack' = argstack \o <<con>>
  BY <1>1, <1>5, <1>6
<1>9. argstack' \in Seq(DOMAIN Q)
  BY Zenon, <1>6, <1>7, <1>8, ConcatIn
<1>10. NewTop(calls', stack)
  BY Zenon, <1>1, <1>3, Tops
<1>11. \A q : Total(argstack', q) = Total(argstack, q) + Total(<<con>>, q)
  BY Zenon, <1>6, <1>7, <1>8, Totals
<1>12. \A q : Total(<<con>>, q) = Total(stack, q) /\ Total(<<>>, q) = 0
  BY Zenon, <1>5, <1>6, ContractTotal, Totals
<1>13. ASSUME NEW q
       PROVE  Total(argstack', q) + Total(<<>>, q) - Net(log', q) = Total(argstack, q) + Total(stack, q) - Net(log, q)
  <2>1. PICK A, B, E, N : A = Total(argstack, q) /\ B = Total(argstack', q) /\ E = Total(stack, q) /\ N = Net(log, q)
    BY Zenon
  <2>2. B = A + E /\ A \in Int /\ E \in Int /\ N \in Int
    BY Zenon, <1>6, <1>11, <1>12, <2>1
  <2>3. B + 0 - N = A + E - N
    BY <2>2
  <2> QED
    BY Zenon, <1>1, <1>12, <2>1, <2>3
<1>14. SameWorth(argstack', <<>>, log', argstack, stack, log)
  BY Zenon, <1>13 DEF SameWorth
<1>15. LogIn(DOMAIN Q, log')
  BY Zenon, <1>1, <1>6
<1> QED
  BY Zenon, <1>1, <1>3, <1>5, <1>6, <1>9, <1>10, <1>14, <1>15, Leave DEF Before

-----------------------------------------------------------------------------
(***************************************************************************)
(* The other steps.                                                        *)
(***************************************************************************)
\* Nothing is called, or all of the calls count.
LEMMA HeldAll ==
  ASSUME NEW c, IsSeq(c), NEW A, NEW q
  PROVE  /\ HeldAt(A, c, FALSE, q) = Total(A, q) + Sum(Frames(c, q))
         /\ c = <<>> => HeldAt(A, c, TRUE, q) = Total(A, q) + Sum(Frames(<<>>, q))
<1>1. PICK S : c \in Seq(S)
  BY Zenon DEF IsSeq
<1>2. SubSeq(c, 1, Len(c) - 0) = c
  BY <1>1, Slices
<1>3. CalledOf(c, FALSE) = c
  BY Zenon, <1>2 DEF CalledOf
<1>4. SubSeq(<<>>, 1, Len(<<>>) - 1) = <<>>
  OBVIOUS
<1>5. CalledOf(<<>>, TRUE) = <<>>
  BY Zenon, <1>4 DEF CalledOf
<1> QED
  BY Zenon, <1>3, <1>5 DEF HeldAt

\* Nothing changes but the loop that the current contract is in.
LEMMA SameTop ==
  ASSUME CallsInv(calls, unwinding), unwinding \in BOOLEAN, NEW R,
         Placed(R, runlimit, argstack, calls, log), Balances(argstack, calls, unwinding, log),
         NewTop(calls', stack), UNCHANGED <<runlimit, argstack, unwinding, log>>
  PROVE  After
<1> DEFINE D == DOMAIN R
           f == Pop(calls, 1)
<1>1. /\ Ranked(R) /\ Room(R, runlimit) /\ argstack \in Seq(D) /\ CallsIn(D, calls) /\ LogIn(D, log)
      /\ \A con \in Snapshots : con \in D /\ IsContract(con)
  BY Zenon DEF Placed
<1>2. IsSeq(f) /\ CallsIn(D, f) /\ stack \in Seq(D)
  BY Zenon, <1>1, FrontPlaced
<1>3. PICK x : x.con.stack = stack /\ calls' = Append(f, x)
  BY Zenon DEF NewTop
<1>4. PICK y : y.con.stack = stack /\ calls = Append(f, y)
  BY Zenon, Tops DEF NewTop
<1> HIDE DEF f
<1>5. CallsIn(D, calls')
  BY Zenon, <1>2, <1>3, CallsInAppend
<1>6. Placed(R, runlimit', argstack', calls', log')
  BY Zenon, <1>1, <1>5 DEF Placed
<1>7. ASSUME NEW q, NEW z, z.con.stack = stack
      PROVE  /\ HeldAt(argstack, Append(f, z), FALSE, q) = Total(argstack, q) + (Sum(Frames(f, q)) + Total(stack, q))
             /\ HeldAt(argstack, Append(f, z), TRUE, q) = Total(argstack, q) + Sum(Frames(f, q))
  <2>1. z.con.stack \in Seq(D)
    BY Zenon, <1>2, <1>7
  <2>2. /\ HeldAt(argstack, Append(f, z), FALSE, q)
              = Total(argstack, q) + (Sum(Frames(f, q)) + Total(z.con.stack, q))
        /\ HeldAt(argstack, Append(f, z), TRUE, q) = Total(argstack, q) + Sum(Frames(f, q))
    BY ZenonT(30), <1>1, <1>2, <2>1, HeldTop
  <2> QED
    BY Zenon, <1>7, <2>2
<1>8. \A q : /\ HeldAt(argstack, calls', FALSE, q) = HeldAt(argstack, calls, FALSE, q)
             /\ HeldAt(argstack, calls', TRUE, q) = HeldAt(argstack, calls, TRUE, q)
  BY Zenon, <1>3, <1>4, <1>7
<1>9. \A q : HeldAt(argstack, calls', unwinding, q) = HeldAt(argstack, calls, unwinding, q)
  BY Zenon, <1>8
<1>10. Balances(argstack', calls', unwinding', log')
  BY Zenon, <1>9 DEF Balances
<1> QED
  BY Zenon, <1>6, <1>10 DEF After

\* A call returns: the contract is on its way out, or holds nothing.
LEMMA PopAccount ==
  ASSUME CallsInv(calls, unwinding), unwinding \in BOOLEAN, NEW R,
         Placed(R, runlimit, argstack, calls, log), Balances(argstack, calls, unwinding, log),
         unwinding \/ stack = <<>>,
         calls' = Pop(calls, 1), unwinding' = FALSE, UNCHANGED <<runlimit, argstack, log>>
  PROVE  After
<1> DEFINE D == DOMAIN R
           f == Pop(calls, 1)
<1>1. /\ Ranked(R) /\ Room(R, runlimit) /\ argstack \in Seq(D) /\ CallsIn(D, calls) /\ LogIn(D, log)
      /\ \A con \in Snapshots : con \in D /\ IsContract(con)
  BY Zenon DEF Placed
<1>2. IsSeq(f) /\ CallsIn(D, f) /\ stack \in Seq(D)
  BY Zenon, <1>1, FrontPlaced
<1>3. PICK y : y.con.stack = stack /\ calls = Append(f, y)
  BY Zenon, Tops DEF NewTop
<1>4. Placed(R, runlimit', argstack', calls', log')
  BY Zenon, <1>1, <1>2 DEF Placed
<1>5. calls' = f
  BY Zenon
<1> HIDE DEF f
<1>6. ASSUME NEW q
      PROVE  HeldAt(argstack, calls', FALSE, q) = HeldAt(argstack, calls, unwinding, q)
  <2>1. HeldAt(argstack, calls', FALSE, q) = Total(argstack, q) + Sum(Frames(f, q))
    <3>1. HeldAt(argstack, f, FALSE, q) = Total(argstack, q) + Sum(Frames(f, q))
      BY Zenon, <1>2, HeldAll
    <3> QED
      BY Zenon, <1>5, <3>1
  <2>2. /\ Sum(Frames(f, q)) \in Int
        /\ HeldAt(argstack, calls, FALSE, q) = Total(argstack, q) + (Sum(Frames(f, q)) + Total(stack, q))
        /\ HeldAt(argstack, calls, TRUE, q) = Total(argstack, q) + Sum(Frames(f, q))
    BY ZenonT(30), <1>1, <1>2, <1>3, HeldTop
  <2>3. CASE unwinding = TRUE
    BY Zenon, <2>1, <2>2, <2>3
  <2>4. CASE unwinding = FALSE
    <3>1. Total(stack, q) = 0
      BY Zenon, <1>1, <2>4, Totals
    <3>2. Sum(Frames(f, q)) + Total(stack, q) = Sum(Frames(f, q))
      <4>1. PICK F : F = Sum(Frames(f, q))
        BY Zenon
      <4>2. F \in Int
        BY Zenon, <2>2, <4>1
      <4>3. F + 0 = F
        BY <4>2
      <4> QED
        BY Zenon, <3>1, <4>1, <4>3
    <3> QED
      BY Zenon, <2>1, <2>2, <2>4, <3>2
  <2> QED
    BY Zenon, <2>3, <2>4
<1>7. Balances(argstack', calls', unwinding', log')
  BY Zenon, <1>6 DEF Balances
<1> QED
  BY Zenon, <1>4, <1>7 DEF After

\* Return from opExec, from opCall, whose callee has left nothing or is on its
\* way out, and from validate.
LEMMA ReturnAccount ==
  ASSUME IInv, AccountInv, Return
  PROVE  AccountInv'
<1>1. status = "running" /\ status # "failed" /\ status # "idle"
  BY DEF Return
<1>2. UNCHANGED <<runlimit, argstack>> /\ UNCHANGED log
  BY Zenon DEF Return, NoLog
<1>3. PICK R : Placed(R, runlimit, argstack, calls, log)
  BY Zenon DEF AccountInv
<1>4. Balances(argstack, calls, unwinding, log)
  BY Zenon, <1>1 DEF AccountInv
<1>5. CallsInv(calls, unwinding) /\ unwinding \in BOOLEAN
  BY Zenon, <1>1 DEF IInv
<1>6. ASSUME After
      PROVE  AccountInv'
  BY Zenon, <1>6 DEF After, AccountInv
<1>7. CASE Top.execs > 0
  <2>1. calls' = WithTop(Frame(contract, caller, Top.execs - 1)) /\ UNCHANGED unwinding
    BY Zenon, <1>7 DEF Return
  <2>2. NewTop(calls', stack)
    BY Zenon, <1>5, <2>1, Tops DEF stack
  <2> QED
    BY Zenon, <1>2, <1>3, <1>4, <1>5, <1>6, <2>1, <2>2, SameTop
<1>8. CASE UNCHANGED <<calls, unwinding>>
  BY Zenon, <1>2, <1>3, <1>4, <1>8 DEF AccountInv
<1>9. CASE ~(Top.execs > 0) /\ ~UNCHANGED <<calls, unwinding>>
  <2>1. (unwinding \/ stack = <<>>) /\ calls' = Pop(calls, 1) /\ unwinding' = FALSE
    BY Zenon, <1>9 DEF Return
  <2> QED
    BY Zenon, <1>2, <1>3, <1>4, <1>5, <1>6, <2>1, PopAccount
<1> QED
  BY Zenon, <1>7, <1>8, <1>9

\* A panic ends the execution; nothing is claimed of what is held then.
LEMMA PanicAccount ==
  ASSUME AccountInv, Panic
  PROVE  AccountInv'
<1>1. PICK R : Placed(R, runlimit, argstack, calls, log)
  BY Zenon DEF AccountInv
<1>2. status' = "failed" /\ UNCHANGED <<runlimit, argstack, calls>>
  BY Zenon DEF Panic
<1>3. Ranked(R) /\ LogIn(DOMAIN R, log)
  BY Zenon, <1>1 DEF Placed
<1>4. LogIn(DOMAIN R, log')
  <2>1. CASE UNCHANGED log
    BY Zenon, <1>3, <2>1
  <2>2. ASSUME NEW x, Sound(DOMAIN R, x), NEW l, LogIn(DOMAIN R, l)
        PROVE  LogIn(DOMAIN R, Append(l, x))
    BY Zenon, <1>3, <2>2, NetAppend
  <2>3. ASSUME NEW nonce, NEW x, x = NonceTuple(caller, contract.seed, nonce),
               NEW y, y = logTimeRange(0, nonce[2]),
               log' = log \o <<x>> \/ log' = log \o <<x, y>>
        PROVE  LogIn(DOMAIN R, log')
    <3>1. Sound(DOMAIN R, x) /\ Sound(DOMAIN R, y)
      <4>1. x.code = "N" /\ y.code = "R"
        BY Zenon, <2>3 DEF NonceTuple, logTimeRange
      <4> QED
        BY <4>1 DEF Sound
    <3>2. IsSeq(log)
      BY Zenon, <1>3 DEF LogIn
    <3>3. log \o <<x>> = Append(log, x)
      BY Zenon, <3>2, ConcatFacts
    <3>4. log \o <<x, y>> = Append(Append(log, x), y)
      BY <3>2, ConcatTwo
    <3>5. LogIn(DOMAIN R, Append(log, x))
      BY Zenon, <1>3, <2>2, <3>1
    <3>6. LogIn(DOMAIN R, Append(Append(log, x), y))
      BY Zenon, <2>2, <3>1, <3>5
    <3>7. CASE log' = log \o <<x>>
      BY Zenon, <3>3, <3>5, <3>7
    <3>8. CASE log' = log \o <<x, y>>
      BY Zenon, <3>4, <3>6, <3>8
    <3> QED
      BY Zenon, <2>3, <3>7, <3>8
  <2> QED
    BY Zenon, <2>1, <2>3 DEF Panic
<1>5. Placed(R, runlimit', argstack', calls', log')
  BY Zenon, <1>1, <1>2, <1>4 DEF Placed
<1>6. ~(status' # "failed")
  BY Zenon, <1>2
<1> QED
  BY Zenon, <1>5, <1>6 DEF AccountInv

\* Validate starts with empty stacks and an empty log.
LEMMA ValidateAccount ==
  ASSUME IInv, AccountInv, NEW v, NEW len, Validate(v, len)
  PROVE  AccountInv'
<1>1. PICK z : z = Frame(Contract("C", emptySeed, "tx", <<>>), emptySeed, 0)
  BY Zenon
<1>2. /\ status = "idle" /\ status # "failed" /\ calls' = <<z>>
      /\ UNCHANGED <<runlimit, argstack, unwinding, log>>
  BY <1>1 DEF Validate
<1>3. calls = <<>> /\ unwinding \in BOOLEAN
  BY Zenon, <1>2 DEF IInv
<1>4. PICK R : Placed(R, runlimit, argstack, calls, log)
  BY Zenon DEF AccountInv
<1>5. Balances(argstack, calls, unwinding, log)
  BY Zenon, <1>2 DEF AccountInv
<1>6. z.con.stack = <<>> /\ <<>> \in Seq(DOMAIN R)
  <2>1. z.con.stack = <<>>
    BY Zenon, <1>1 DEF Frame, Contract
  <2>2. <<>> \in Seq(DOMAIN R)
    OBVIOUS
  <2> QED
    BY Zenon, <2>1, <2>2
<1>7. IsSeq(<<>>) /\ CallsIn(DOMAIN R, <<>>) /\ <<z>> = Append(<<>>, z)
  <2>1. <<>> \in Seq({}) /\ <<z>> = Append(<<>>, z) /\ DOMAIN <<>> = {}
    OBVIOUS
  <2> QED
    BY Zenon, <2>1 DEF IsSeq, CallsIn
<1>8. CallsIn(DOMAIN R, calls')
  BY Zenon, <1>2, <1>6, <1>7, CallsInAppend
<1>9. Placed(R, runlimit', argstack', calls', log')
  BY Zenon, <1>2, <1>4, <1>8 DEF Placed
<1>10. Ranked(R)
  BY Zenon, <1>4 DEF Placed
<1>11. ASSUME NEW q
       PROVE  /\ HeldAt(argstack, calls', FALSE, q) = HeldAt(argstack, calls, FALSE, q)
              /\ HeldAt(argstack, calls', TRUE, q) = HeldAt(argstack, calls, TRUE, q)
  <2>1. /\ HeldAt(argstack, calls, FALSE, q) = Total(argstack, q) + Sum(Frames(<<>>, q))
        /\ HeldAt(argstack, calls, TRUE, q) = Total(argstack, q) + Sum(Frames(<<>>, q))
    BY Zenon, <1>3, <1>7, HeldAll
  <2>2. /\ Sum(Frames(<<>>, q)) \in Int
        /\ HeldAt(argstack, calls', FALSE, q) = Total(argstack, q) + (Sum(Frames(<<>>, q)) + Total(<<>>, q))
        /\ HeldAt(argstack, calls', TRUE, q) = Total(argstack, q) + Sum(Frames(<<>>, q))
    <3>1. /\ Sum(Frames(<<>>, q)) \in Int
          /\ HeldAt(argstack, Append(<<>>, z), FALSE, q)
               = Total(argstack, q) + (Sum(Frames(<<>>, q)) + Total(z.con.stack, q))
          /\ HeldAt(argstack, Append(<<>>, z), TRUE, q) = Total(argstack, q) + Sum(Frames(<<>>, q))
      <4>1. PICK e : e = <<>>
        BY Zenon
      <4>2. z.con.stack \in Seq(DOMAIN R) /\ IsSeq(e) /\ CallsIn(DOMAIN R, e)
        BY Zenon, <1>6, <1>7, <4>1
      <4>3. /\ Sum(Frames(e, q)) \in Int
            /\ HeldAt(argstack, Append(e, z), FALSE, q)
                 = Total(argstack, q) + (Sum(Frames(e, q)) + Total(z.con.stack, q))
            /\ HeldAt(argstack, Append(e, z), TRUE, q) = Total(argstack, q) + Sum(Frames(e, q))
        BY Zenon, <1>10, <4>2, HeldTop
      <4> QED
        BY Zenon, <4>1, <4>3
    <3> QED
      BY Zenon, <1>2, <1>6, <1>7, <3>1
  <2>3. Total(<<>>, q) = 0
    BY Zenon, <1>10, Totals
  <2>4. PICK F : F = Sum(Frames(<<>>, q))
    BY Zenon
  <2>5. F + 0 = F
    <3>1. F \in Int
      BY Zenon, <2>2, <2>4
    <3> QED
      BY <3>1
  <2> QED
    BY Zenon, <2>1, <2>2, <2>3, <2>4, <2>5
<1>12. \A q : HeldAt(argstack, calls', unwinding, q) = HeldAt(argstack, calls, unwinding, q)
  BY Zenon, <1>3, <1>11
<1>13. Balances(argstack', calls', unwinding', log')
  BY Zenon, <1>2, <1>5, <1>12 DEF Balances
<1> QED
  BY Zenon, <1>9, <1>13 DEF AccountInv

-----------------------------------------------------------------------------
(***************************************************************************)
(* The invariant is inductive.                                             *)
(***************************************************************************)
LEMMA ValueAccount ==
  ASSUME NEW R, Before(R), ValueInstruction
  PROVE  After
<1>1. Amounts \subseteq Int
  BY Zenon, TxVMAssumptions
<1> QED
  BY Zenon, <1>1, NonceAccount, IssueAccount, SplitAccount, MergeAccount, RetireAccount DEF ValueInstruction

\* The instructions that move items.
LEMMA StackAccount ==
  ASSUME NEW R, Before(R), StackInstruction, Stepping
  PROVE  After
<1>1. CASE \E n \in 0..Depth : opRoll(n) \/ opBury(n) \/ opReverse(n)
  <2>1. PICK n \in 0..Depth : opRoll(n) \/ opBury(n) \/ opReverse(n)
    BY Zenon, <1>1
  <2>2. n \in Nat
    OBVIOUS
  <2> QED
    BY Zenon, <2>1, <2>2, RollAccount
<1> QED
  BY Zenon, <1>1, DropAccount, GetAccount, PutAccount DEF StackInstruction

\* The instructions on contracts.
LEMMA ContractsAccount ==
  ASSUME NEW R, Before(R), ContractInstruction, Stepping
  PROVE  After
<1>1. status = "running" /\ ~unwinding
  BY Zenon DEF Stepping
<1>2. status # "idle"
  BY <1>1
<1>3. CallsInv(calls, unwinding)
  BY Zenon, <1>2 DEF Before, IInv
<1>4. contract.type = "C"
  BY Zenon, <1>1, <1>3, CurrentIsPlain
<1>5. ASSUME NEW prog, opYield(prog)
      PROVE  After
  <2>1. PICK con : con = Contract(contract.type, contract.seed, prog, stack)
    BY Zenon
  <2>2. Suspend(con)
    BY Zenon, <1>5, <2>1 DEF opYield
  <2>3. con.type = "C" /\ con.stack = stack
    BY Zenon, <1>4, <2>1 DEF Contract
  <2>4. IsContract(con) /\ con.type # "W"
    BY <2>3 DEF IsContract
  <2> QED
    BY Zenon, <2>2, <2>3, <2>4, SuspendAccount
<1>6. ASSUME NEW prog, opWrap(prog)
      PROVE  After
  <2>1. PICK con : con = Contract("W", contract.seed, prog, stack)
    BY Zenon
  <2>2. Suspend(con) /\ stackPortable(stack)
    BY Zenon, <1>6, <2>1 DEF opWrap
  <2>3. con.type = "W" /\ con.stack = stack
    BY Zenon, <2>1 DEF Contract
  <2>4. IsContract(con)
    BY <2>3 DEF IsContract
  <2> QED
    BY Zenon, <2>2, <2>3, <2>4, SuspendAccount
<1> QED
  BY Zenon, <1>5, <1>6, ContractAccount, OutputAccount, InputAccount, CallAccount, ExecAccount
  DEF ContractInstruction

\* The instructions that log.
LEMMA LogsAccount ==
  ASSUME NEW R, Before(R), LogInstruction
  PROVE  After
<1>1. CASE opLog
  <2>1. PICK x : x = [code |-> "L", seed |-> contract.seed]
    BY Zenon
  <2>2. Charge(DataCost) /\ Log(<<x>>) /\ UNCHANGED <<argstack, calls, unwinding>>
    BY Zenon, <1>1, <2>1 DEF opLog
  <2>3. x.code = "L"
    BY Zenon, <2>1
  <2>4. x.code \in {"N", "R", "L", "F"}
    BY SMTT(30), <2>3
  <2> QED
    BY <2>2, <2>4, LogAccount
<1>2. ASSUME NEW min, NEW max, opTimeRange(min, max)
      PROVE  After
  <2>1. PICK x : x = logTimeRange(min, max)
    BY Zenon
  <2>2. Charge(DataCost) /\ Log(<<x>>) /\ UNCHANGED <<argstack, calls, unwinding>>
    BY Zenon, <1>2, <2>1 DEF opTimeRange
  <2>3. x.code = "R"
    BY Zenon, <2>1 DEF logTimeRange
  <2>4. x.code \in {"N", "R", "L", "F"}
    BY <2>3
  <2> QED
    BY <2>2, <2>4, LogAccount
<1> QED
  BY Zenon, <1>1, <1>2, FinalizeAccount DEF LogInstruction

\* Every step keeps the accounts.
LEMMA NextAccount ==
  ASSUME IInv, AccountInv, [Next]_vars
  PROVE  AccountInv'
<1>1. CASE Step
  <2>1. Stepping /\ status = "running"
    BY Zenon, <1>1 DEF Step, Stepping
  <2>2. status # "failed"
    BY <2>1
  <2>3. PICK R : Placed(R, runlimit, argstack, calls, log)
    BY Zenon DEF AccountInv
  <2>4. Before(R)
    BY Zenon, <2>2, <2>3 DEF AccountInv, Before
  <2>5. After
    BY Zenon, <1>1, <2>1, <2>4, ValueAccount, StackAccount, ContractsAccount, LogsAccount, DataAccount DEF Step
  <2> QED
    BY Zenon, <2>5 DEF After, AccountInv
<1>2. CASE UNCHANGED vars
  BY Zenon, <1>2 DEF vars, AccountInv
<1> QED
  BY Zenon, <1>1, <1>2, ValidateAccount, ReturnAccount, PanicAccount DEF Next

\* Nothing is held and nothing is logged at the start.
LEMMA InitAccount ==
  ASSUME NEW R, Stored(R), Init
  PROVE  AccountInv
<1>1. /\ runlimit = Runlimit /\ argstack = <<>> /\ calls = <<>> /\ unwinding = FALSE /\ log = <<>>
  BY Zenon DEF Init
<1>2. /\ Ranked(R) /\ Runlimit <= MaxNesting
      /\ \A x \in DOMAIN R : R[x] + Runlimit <= MaxNesting
      /\ \A con \in Snapshots : con \in DOMAIN R /\ IsContract(con)
  BY Zenon DEF Stored
<1>3. \A x \in DOMAIN R : R[x] \in 0..MaxNesting
  BY Zenon, <1>2 DEF Ranked
<1>4. Room(R, Runlimit)
  BY <1>2, <1>3, TxVMAssumptions DEF Room
<1>5. PICK e : e = <<>>
  BY Zenon
<1>6. e \in Seq(DOMAIN R) /\ DOMAIN e = {} /\ e \in Seq({})
  BY <1>5
<1>7. IsSeq(e) /\ CallsIn(DOMAIN R, e) /\ LogIn(DOMAIN R, e)
  BY Zenon, <1>6 DEF IsSeq, CallsIn, LogIn
<1>8. Placed(R, runlimit, argstack, calls, log)
  BY Zenon, <1>1, <1>2, <1>4, <1>5, <1>6, <1>7 DEF Placed
<1>9. \A q : Total(e, q) = 0
  BY Zenon, <1>2, <1>5, Totals
<1>10. \A q, codes : Parts(e, codes, q) = <<>> /\ Frames(e, q) = <<>>
  BY SMTT(30), <1>5, <1>6 DEF Parts, Frames
<1>11. \A q : Net(e, q) = 0 - 0
  BY Zenon, <1>10, SumSmall DEF Net
<1>12. \A q : HeldAt(e, e, FALSE, q) = 0 + 0
  <2>1. \A q : HeldAt(e, e, FALSE, q) = Total(e, q) + Sum(Frames(e, q))
    BY <1>7, HeldAll
  <2> QED
    <3>1. ASSUME NEW q PROVE HeldAt(e, e, FALSE, q) = 0 + 0
      <4>1. HeldAt(e, e, FALSE, q) = Total(e, q) + Sum(Frames(e, q))
        BY Zenon, <2>1
      <4>2. Total(e, q) = 0 /\ Frames(e, q) = <<>>
        BY Zenon, <1>9, <1>10
      <4>3. Sum(Frames(e, q)) = 0
        BY <4>2, SumSmall
      <4> QED
        BY Zenon, <4>1, <4>2, <4>3
    <3> QED
      BY Zenon, <3>1
<1>13. 0 - 0 = 0 + 0
  OBVIOUS
<1>14. Balances(argstack, calls, unwinding, log)
  BY Zenon, <1>1, <1>5, <1>11, <1>12, <1>13 DEF Balances
<1> QED
  BY Zenon, <1>8, <1>14 DEF AccountInv

\* What is held somewhere is what came in less what went out, at every step,
\* and the items that hold others are finitely nested.
THEOREM AccountsHold ==
  ASSUME NEW CONSTANT R, Stored(R)
  PROVE  Spec => []AccountInv
<1>1. Init => AccountInv
  BY Zenon, InitAccount
<1>2. IInv /\ AccountInv /\ [Next]_vars => AccountInv'
  BY Zenon, NextAccount
<1> QED
  BY <1>1, <1>2, InvHolds, PTL DEF Spec

\* A stack that is portable is portable at any depth.
LEMMA PortableWithin ==
  ASSUME NEW R, Ranked(R), NEW s \in Seq(DOMAIN R), stackPortable(s)
  PROVE  \A x \in ItemsWithin(s) : isPortable(x)
<1> DEFINE P == {x \in DOMAIN R : isPortable(x)}
           Q == [x \in P |-> R[x]]
<1>1. s \in Seq(P)
  BY DEF stackPortable
<1>2. DOMAIN Q = P /\ P \subseteq DOMAIN R /\ \A x \in P : Q[x] = R[x] /\ Whole(R, x) /\ R[x] \in 0..MaxNesting
  BY Zenon DEF Ranked
<1>3. Q \in [DOMAIN Q -> 0..MaxNesting]
  BY Zenon, <1>2
<1>4. ASSUME NEW x \in P
      PROVE  Whole(Q, x)
  <2>1. CASE IsValue(x) /\ x.amount \in Int
    BY Zenon, <2>1 DEF Whole
  <2>2. CASE ~(IsValue(x) /\ x.amount \in Int)
    <3>1. IsContract(x) /\ x.stack \in Seq(Below(R, R[x])) /\ (x.type = "W" => stackPortable(x.stack))
      BY Zenon, <1>2, <2>2 DEF Whole
    <3>2. x.type = "W"
      BY <3>1 DEF isPortable, IsContract
    <3>3. \A y \in Below(R, R[x]) : isPortable(y) => y \in Below(Q, Q[x])
      BY Zenon, <1>2 DEF Below
    <3>4. PICK t : t = x.stack
      BY Zenon
    <3>5. PICK U, V : U = Below(R, R[x]) /\ V = Below(Q, Q[x])
      BY Zenon
    <3>6. t \in Seq(U) /\ \A i \in DOMAIN t : isPortable(t[i])
      BY Zenon, <3>1, <3>2, <3>4, <3>5 DEF stackPortable
    <3>7. \A i \in DOMAIN t : t[i] \in U
      BY <3>6
    <3>8. \A i \in DOMAIN t : t[i] \in V
      BY Zenon, <3>3, <3>5, <3>6, <3>7
    <3>9. IsSeq(t)
      BY Zenon, <3>6 DEF IsSeq
    <3>10. t \in Seq(V)
      BY Zenon, <3>8, <3>9, SeqOf
    <3> QED
      BY Zenon, <3>1, <3>2, <3>4, <3>5, <3>10 DEF Whole
  <2> QED
    BY Zenon, <2>1, <2>2
<1>5. Ranked(Q)
  BY Zenon, <1>2, <1>3, <1>4 DEF Ranked
<1>6. s \in Seq(DOMAIN Q)
  BY Zenon, <1>1, <1>2
<1> HIDE DEF Q
<1>7. ItemsWithin(s) \subseteq DOMAIN Q
  BY Zenon, <1>5, <1>6, WithinFacts
<1> QED
  BY Zenon, <1>2, <1>7

\* Only what is portable leaves a transaction, at any depth: output refuses a
\* contract that holds a plain one, and so does wrap, whatever the wrapped
\* contract did before and wherever it went.
THEOREM Portable ==
  ASSUME NEW CONSTANT R, Stored(R)
  PROVE  Spec => []OutputsPortable
<1>1. ASSUME AccountInv PROVE OutputsPortable
  <2>1. PICK Q : Placed(Q, runlimit, argstack, calls, log)
    BY Zenon, <1>1 DEF AccountInv
  <2>2. Ranked(Q) /\ \A i \in DOMAIN log : Sound(DOMAIN Q, log[i])
    BY Zenon, <2>1 DEF Placed, LogIn
  <2>3. ASSUME NEW i \in DOMAIN log, log[i].code = "O"
        PROVE  \A x \in ItemsWithin(log[i].id[2].stack) : isPortable(x)
    <3>1. log[i].code \in {"I", "O"}
      BY <2>3
    <3>2. log[i].id[2].stack \in Seq(DOMAIN Q) /\ stackPortable(log[i].id[2].stack)
      BY Zenon, <2>2, <2>3, <3>1 DEF Sound
    <3> QED
      BY Zenon, <2>2, <3>2, PortableWithin
  <2> QED
    BY Zenon, <2>3 DEF OutputsPortable
<1>2. AccountInv => OutputsPortable
  BY Zenon, <1>1
<1> QED
  BY <1>2, AccountsHold, PTL

\* What the log says came in and went out, and what is held.
LEMMA LoggedFacts ==
  ASSUME NEW R, Placed(R, runlimit, argstack, calls, log), NEW q
  PROVE  /\ Logged({"I", "A"}, q) \in Int /\ Logged({"O", "X"}, q) \in Int
         /\ Net(log, q) = Logged({"I", "A"}, q) - Logged({"O", "X"}, q)
         /\ Held(q) = HeldAt(argstack, calls, unwinding, q)
<1>1. Ranked(R) /\ LogIn(DOMAIN R, log)
  BY Zenon DEF Placed
<1>2. Logged(InCodes, q) = Sum(Parts(log, InCodes, q)) /\ Logged(OutCodes, q) = Sum(Parts(log, OutCodes, q))
  BY Zenon DEF Logged, Parts, Part
<1>3. Sound(DOMAIN R, [code |-> "L"])
  <2>1. [code |-> "L"].code = "L"
    BY Zenon
  <2> QED
    BY <2>1 DEF Sound
<1>4. InCodes \in {InCodes, OutCodes} /\ OutCodes \in {InCodes, OutCodes}
  BY Zenon
<1>5. Sum(Parts(log, InCodes, q)) \in Int
  BY SMTT(30), <1>1, <1>3, <1>4, PartsAppend
<1>6. Sum(Parts(log, OutCodes, q)) \in Int
  BY <1>1, <1>3, <1>4, PartsAppend
<1>7. Held(q) = HeldAt(argstack, calls, unwinding, q)
  BY Zenon DEF Held, HeldAt, Called, CalledOf, Frames
<1> QED
  BY Zenon, <1>2, <1>5, <1>6, <1>7 DEF Net, InCodes, OutCodes

\* No sequence of instructions makes or loses an amount of an asset: what was
\* input or issued is on some stack, on the argument stack or within a
\* contract on one, or was output or retired.
THEOREM AmountsConserved ==
  ASSUME NEW CONSTANT R, Stored(R)
  PROVE  Spec => []Conserved
<1>1. ASSUME AccountInv, status # "failed", NEW a
      PROVE  Logged({"I", "A"}, OfAsset(a)) = Held(OfAsset(a)) + Logged({"O", "X"}, OfAsset(a))
  <2>1. PICK Q : Placed(Q, runlimit, argstack, calls, log)
    BY Zenon, <1>1 DEF AccountInv
  <2>2. PICK I, O, H, N : /\ I = Logged({"I", "A"}, OfAsset(a)) /\ O = Logged({"O", "X"}, OfAsset(a))
                          /\ H = Held(OfAsset(a)) /\ N = Net(log, OfAsset(a))
    BY Zenon
  <2>3. I \in Int /\ O \in Int /\ N = I - O /\ H = HeldAt(argstack, calls, unwinding, OfAsset(a))
    BY Zenon, <2>1, <2>2, LoggedFacts
  <2>4. N = H
    BY Zenon, <1>1, <2>2, <2>3 DEF AccountInv, Balances
  <2>5. I = H + O
    BY <2>3, <2>4
  <2> QED
    BY Zenon, <2>2, <2>5
<1>2. AccountInv => Conserved
  BY Zenon, <1>1 DEF Conserved
<1> QED
  BY <1>2, AccountsHold, PTL

\* An execution that validates has left nothing on its stacks.
Settled ==
  status = "ok" /\ ~StopAfterFinalize => Len(calls) = 1 /\ stack = <<>> /\ argstack = <<>>

\* validate succeeds only when no residue is left; after that nothing moves.
LEMMA SettledStep ==
  ASSUME IInv, Settled, [Next]_vars
  PROVE  Settled'
<1>1. CASE Step
  <2>1. status' = status
    BY Zenon, <1>1
    DEF Step, ValueInstruction, StackInstruction, ContractInstruction, LogInstruction, opNonce, opIssue, opSplit,
        opMerge, opRetire, opDrop, opGet, opPut, opRoll, opBury, opReverse, Permute, DataInstruction, opContract,
        opCall, opExec, opInput, opOutput, Suspend, opYield, opWrap, opLog, opTimeRange, opFinalize
  <2>2. status = "running"
    BY Zenon, <1>1 DEF Step, Stepping
  <2> QED
    BY <2>1, <2>2 DEF Settled
<1>2. CASE Return
  <2>1. status = "running" /\ status # "idle"
    BY <1>2 DEF Return
  <2>2. CASE status' = "ok" /\ ~StopAfterFinalize
    <3>1. ~(Len(calls) > 1) /\ ~Residue /\ UNCHANGED calls /\ UNCHANGED argstack
      BY <1>2, <2>1, <2>2 DEF Return
    <3>2. Len(calls) \in Nat /\ Len(calls) # 0
      BY Zenon, <2>1, SeqFacts DEF IInv, CallsInv
    <3>3. Len(calls) = 1
      <4>1. PICK n : n = Len(calls)
        BY Zenon
      <4>2. n \in Nat /\ n # 0 /\ ~(n > 1)
        BY Zenon, <3>1, <3>2, <4>1
      <4>3. n = 1
        BY <4>2
      <4> QED
        BY Zenon, <4>1, <4>3
    <3> QED
      BY Zenon, <3>1, <3>3 DEF Settled, Residue, stack, contract, Top
  <2> QED
    BY Zenon, <2>2 DEF Settled
<1>3. CASE Panic
  BY <1>3 DEF Panic, Settled
<1>4. ASSUME NEW v, NEW len, Validate(v, len)
      PROVE  Settled'
  BY <1>4 DEF Validate, Settled
<1>5. CASE UNCHANGED vars
  BY Zenon, <1>5 DEF vars, Settled, stack, contract, Top
<1> QED
  BY Zenon, <1>1, <1>2, <1>3, <1>4, <1>5 DEF Next

\* The log of a transaction that validates balances.
THEOREM LogsBalance ==
  ASSUME NEW CONSTANT R, Stored(R)
  PROVE  Spec => []LogBalances
<1>1. Init => Settled
  BY DEF Init, Settled
<1>2. IInv /\ Settled /\ [Next]_vars => Settled'
  BY Zenon, SettledStep
<1>3. ASSUME IInv, AccountInv, Settled, status = "ok", ~StopAfterFinalize, NEW a
      PROVE  Logged({"I", "A"}, OfAsset(a)) = Logged({"O", "X"}, OfAsset(a))
  <2>1. status # "failed" /\ status # "idle"
    BY <1>3
  <2>2. Len(calls) = 1 /\ stack = <<>> /\ argstack = <<>>
    BY Zenon, <1>3 DEF Settled
  <2>3. CallsInv(calls, unwinding) /\ unwinding \in BOOLEAN
    BY Zenon, <1>3, <2>1 DEF IInv
  <2>4. PICK Q : Placed(Q, runlimit, argstack, calls, log)
    BY Zenon, <1>3 DEF AccountInv
  <2>5. PICK q : q = OfAsset(a)
    BY Zenon
  <2>6. HeldAt(argstack, calls, unwinding, q) = 0
    <3>1. Ranked(Q) /\ CallsIn(DOMAIN Q, calls)
      BY Zenon, <2>4 DEF Placed
    <3>2. PICK f : f = Pop(calls, 1)
      BY Zenon
    <3>3. IsSeq(f) /\ CallsIn(DOMAIN Q, f) /\ stack \in Seq(DOMAIN Q)
      BY Zenon, <2>3, <3>1, <3>2, FrontPlaced
    <3>4. PICK y : y.con.stack = stack /\ calls = Append(f, y)
      BY Zenon, <2>3, <3>2, Tops DEF NewTop
    <3>5. y.con.stack \in Seq(DOMAIN Q)
      BY Zenon, <3>3, <3>4
    <3>6. /\ HeldAt(argstack, Append(f, y), FALSE, q) = Total(argstack, q) + (Sum(Frames(f, q)) + Total(y.con.stack, q))
          /\ HeldAt(argstack, Append(f, y), TRUE, q) = Total(argstack, q) + Sum(Frames(f, q))
      BY Zenon, <3>1, <3>3, <3>5, HeldTop
    <3>7. f = <<>>
      <4>1. Len(Append(f, y)) = Len(f) + 1 /\ Len(f) \in Nat
        BY Zenon, <3>3, AppendFacts, SeqFacts
      <4>2. Len(f) = 0
        BY <2>2, <3>4, <4>1
      <4> QED
        BY Zenon, <3>3, <4>2, SeqFacts
    <3>8. Frames(f, q) = <<>>
      BY <3>7 DEF Frames
    <3>9. Total(argstack, q) = 0 /\ Total(y.con.stack, q) = 0 /\ Sum(Frames(f, q)) = 0
      BY Zenon, <2>2, <3>1, <3>4, <3>8, Totals, SumSmall
    <3>10. 0 + (0 + 0) = 0 /\ 0 + 0 = 0
      OBVIOUS
    <3> QED
      BY Zenon, <2>3, <3>4, <3>6, <3>9, <3>10
  <2>7. PICK I, O : I = Logged({"I", "A"}, q) /\ O = Logged({"O", "X"}, q)
    BY Zenon
  <2>8. I \in Int /\ O \in Int /\ Net(log, q) = I - O
    BY Zenon, <2>4, <2>7, LoggedFacts
  <2>9. Net(log, q) = 0
    BY Zenon, <1>3, <2>1, <2>5, <2>6 DEF AccountInv, Balances
  <2>10. I = O
    BY <2>8, <2>9
  <2> QED
    BY Zenon, <2>5, <2>7, <2>10
<1>4. IInv /\ AccountInv /\ Settled => LogBalances
  BY Zenon, <1>3 DEF LogBalances
<1> QED
  BY <1>1, <1>2, <1>4, InvHolds, AccountsHold, PTL DEF Spec
=============================================================================
