---------------------------- MODULE RecordProofs ----------------------------
(***************************************************************************)
(* The theorems about module TxRecord: entryHook's loop, and what NewTx    *)
(* keeps of a transaction.                                                 *)
(***************************************************************************)
EXTENDS TxRecord, TxVMProofs, FiniteSetTheorems

\* The index of entryHook's loop counts: each entry of the code adds one.
LEMMA IndexFacts ==
  ASSUME NEW l, NEW code, NEW i \in Nat
  PROVE  /\ index(l, code, i) \in Nat
         /\ l[i + 1].code = code => index(l, code, i + 1) = index(l, code, i) + 1
         /\ l[i + 1].code # code => index(l, code, i + 1) = index(l, code, i)
<1> DEFINE S(k) == {j \in 1..k : l[j].code = code}
<1>1. IsFiniteSet(1..i)
  BY FS_Interval
<1>2. S(i) \in SUBSET (1..i)
  OBVIOUS
<1>3. IsFiniteSet(S(i)) /\ Cardinality(S(i)) \in Nat
  BY Zenon, <1>1, <1>2, FS_Subset, FS_CardinalityType
<1>4. /\ i + 1 \notin S(i)
      /\ S(i + 1) = IF l[i + 1].code = code THEN S(i) \cup {i + 1} ELSE S(i)
  OBVIOUS
<1>5. index(l, code, i) = Cardinality(S(i)) /\ index(l, code, i + 1) = Cardinality(S(i + 1))
  BY Zenon DEF index
<1> HIDE DEF S
<1>6. Cardinality(S(i) \cup {i + 1}) = Cardinality(S(i)) + 1
  BY Zenon, <1>3, <1>4, FS_AddElement
<1> QED
  BY Zenon, <1>3, <1>4, <1>5, <1>6

\* It never falls, and is larger at an entry of the code than before it.
LEMMA IndexGrows ==
  ASSUME NEW l, NEW code, NEW i \in Nat, NEW j \in Nat, i <= j
  PROVE  /\ index(l, code, i) <= index(l, code, j)
         /\ i < j /\ l[j].code = code => index(l, code, i) < index(l, code, j)
<1> DEFINE S(k) == {m \in 1..k : l[m].code = code}
<1>1. ASSUME NEW a \in Nat, NEW b \in Nat, a <= b
      PROVE  index(l, code, a) <= index(l, code, b)
  <2>1. IsFiniteSet(1..b) /\ S(b) \in SUBSET (1..b)
    BY FS_Interval
  <2>2. IsFiniteSet(S(b))
    BY Zenon, <2>1, FS_Subset
  <2>3. S(a) \in SUBSET S(b)
    BY <1>1
  <2>4. Cardinality(S(a)) <= Cardinality(S(b))
    BY Zenon, <2>2, <2>3, FS_Subset
  <2> QED
    BY Zenon, <2>4 DEF index
<1>2. ASSUME i < j, l[j].code = code
      PROVE  index(l, code, i) < index(l, code, j)
  <2>1. j - 1 \in Nat /\ i <= j - 1 /\ (j - 1) + 1 = j
    BY <1>2
  <2>2. /\ index(l, code, i) \in Nat /\ index(l, code, j - 1) \in Nat
        /\ index(l, code, j) = index(l, code, j - 1) + 1
    BY <1>2, <2>1, IndexFacts
  <2>3. index(l, code, i) <= index(l, code, j - 1)
    BY <1>1, <2>1
  <2> QED
    BY <2>2, <2>3
<1> QED
  BY <1>1, <1>2

\* At most one entry has an index.
LEMMA AtUnique ==
  ASSUME NEW l, IsSeq(l), NEW code, NEW n, NEW i \in at(l, code, n), NEW j \in at(l, code, n)
  PROVE  i = j
<1>1. /\ i \in Nat /\ j \in Nat /\ l[i].code = code /\ l[j].code = code
      /\ index(l, code, i) = n /\ index(l, code, j) = n
  BY SeqFacts DEF at
<1>3. ASSUME NEW a \in Nat, NEW b \in Nat, a < b, l[b].code = code
      PROVE  index(l, code, a) # index(l, code, b)
  <2>1. a <= b
    BY <1>3
  <2>2. index(l, code, a) < index(l, code, b)
    BY Zenon, <1>3, <2>1, IndexGrows
  <2>3. index(l, code, a) \in Nat
    BY Zenon, IndexFacts
  <2> QED
    BY <2>2, <2>3
<1>4. ~(i < j) /\ ~(j < i)
  BY Zenon, <1>1, <1>3
<1> QED
  BY <1>1, <1>4

\* What the hook has recorded before finalize: for each entry of the code, in
\* order, the contents of the contract that it has the ID of.
Kept(records, l, code) ==
  /\ IsSeq(records) /\ Len(records) = index(l, code, Len(l))
  /\ \A n \in DOMAIN records :
       \E i \in at(l, code, n) : \E con : records[n] = Recorded(con) /\ Holds(con, l[i].id[2])

AtAppended(l, x, m, code) ==
  LET k == Len(l)
  IN  /\ IsSeq(m) /\ Len(m) = k + 1 /\ m[k + 1] = x /\ k \in Nat
      /\ x.code = code => index(m, code, k + 1) = index(l, code, k) + 1
      /\ x.code # code => index(m, code, k + 1) = index(l, code, k)
      /\ \A n : \A i \in at(l, code, n) : i \in at(m, code, n) /\ m[i] = l[i]
      /\ x.code = code => k + 1 \in at(m, code, index(l, code, k) + 1)

\* An entry more leaves those before it where they are.
LEMMA AtAppends ==
  ASSUME NEW l, IsSeq(l), NEW x, NEW m, m = Append(l, x), NEW code
  PROVE  AtAppended(l, x, m, code)
<1> DEFINE k == Len(l)
<1>1. /\ IsSeq(m) /\ Len(m) = k + 1 /\ m[k + 1] = x
      /\ \A i \in 1..k : m[i] = l[i]
  BY Zenon, AppendFacts
<1>2. k \in Nat /\ DOMAIN l = 1..k /\ DOMAIN m = 1..(k + 1)
  BY Zenon, <1>1, SeqFacts
<1>3. \A i \in 0..k : index(m, code, i) = index(l, code, i)
  <2> TAKE i \in 0..k
  <2>1. \A j \in 1..i : m[j] = l[j]
    BY <1>1, <1>2
  <2>2. {j \in 1..i : m[j].code = code} = {j \in 1..i : l[j].code = code}
    BY Zenon, <2>1
  <2> QED
    BY Zenon, <2>2 DEF index
<1>4. k \in 0..k /\ k + 1 \in 1..(k + 1)
  BY <1>2
<1>5. /\ index(l, code, k) \in Nat
      /\ x.code = code => index(m, code, k + 1) = index(l, code, k) + 1
      /\ x.code # code => index(m, code, k + 1) = index(l, code, k)
  <2>1. index(m, code, k) = index(l, code, k)
    BY Zenon, <1>3, <1>4
  <2>2. index(l, code, k) \in Nat
    BY Zenon, <1>2, IndexFacts
  <2>3. /\ m[k + 1].code = code => index(m, code, k + 1) = index(m, code, k) + 1
        /\ m[k + 1].code # code => index(m, code, k + 1) = index(m, code, k)
    BY Zenon, <1>2, IndexFacts
  <2> QED
    BY Zenon, <1>1, <2>1, <2>2, <2>3
<1>6. \A n : \A i \in at(l, code, n) : i \in at(m, code, n) /\ m[i] = l[i]
  <2>1. \A i \in 1..k : i \in 0..k /\ i \in 1..(k + 1)
    BY <1>2
  <2> QED
    BY Zenon, <1>1, <1>2, <1>3, <2>1 DEF at
<1>7. ASSUME x.code = code
      PROVE  k + 1 \in at(m, code, index(l, code, k) + 1)
  <2>1. index(m, code, k + 1) = index(l, code, k) + 1
    BY Zenon, <1>5, <1>7
  <2> QED
    BY Zenon, <1>1, <1>2, <1>4, <1>7, <2>1 DEF at
<1> QED
  BY Zenon, <1>1, <1>2, <1>5, <1>6, <1>7 DEF AtAppended

\* An entry of another code changes nothing.
LEMMA KeptOther ==
  ASSUME NEW l, IsSeq(l), NEW code, NEW records, Kept(records, l, code),
         NEW x, x.code # code, NEW m, m = Append(l, x)
  PROVE  Kept(records, m, code)
<1> AtAppended(l, x, m, code)
  BY Zenon, AtAppends
<1>1. index(m, code, Len(m)) = index(l, code, Len(l))
  BY Zenon DEF AtAppended
<1>2. \A n : \A i \in at(l, code, n) : i \in at(m, code, n) /\ m[i] = l[i]
  BY Zenon DEF AtAppended
<1>3. \A n \in DOMAIN records :
        \E i \in at(m, code, n) : \E con : records[n] = Recorded(con) /\ Holds(con, m[i].id[2])
  BY Zenon, <1>2 DEF Kept
<1> QED
  BY Zenon, <1>1, <1>3 DEF Kept

\* An entry of the code, with its contents recorded before it.
LEMMA KeptSame ==
  ASSUME NEW l, IsSeq(l), NEW code, NEW records, Kept(records, l, code),
         NEW x, x.code = code, NEW con, Holds(con, x.id[2]), NEW m, m = Append(l, x),
         NEW rs, rs = Append(records, Recorded(con))
  PROVE  Kept(rs, m, code)
<1> DEFINE k == Len(l)
           c == Len(records)
<1> AtAppended(l, x, m, code)
  BY Zenon, AtAppends
<1>1. /\ k \in Nat /\ Len(m) = k + 1 /\ m[k + 1] = x
      /\ index(m, code, k + 1) = index(l, code, k) + 1
      /\ k + 1 \in at(m, code, index(l, code, k) + 1)
  BY Zenon DEF AtAppended
<1>2. \A n : \A i \in at(l, code, n) : i \in at(m, code, n) /\ m[i] = l[i]
  BY Zenon DEF AtAppended
<1>3. /\ IsSeq(records) /\ c = index(l, code, k) /\ c \in Nat /\ DOMAIN records = 1..c
  BY Zenon, SeqFacts DEF Kept
<1>4. /\ IsSeq(rs) /\ Len(rs) = c + 1 /\ rs[c + 1] = Recorded(con)
      /\ \A n \in 1..c : rs[n] = records[n]
  BY Zenon, <1>3, AppendFacts
<1>5. DOMAIN rs = 1..(c + 1) /\ \A n \in 1..(c + 1) : n \in 1..c \/ n = c + 1
  BY <1>3, <1>4, SeqFacts
<1>6. ASSUME NEW n \in DOMAIN rs
      PROVE  \E i \in at(m, code, n) : \E d : rs[n] = Recorded(d) /\ Holds(d, m[i].id[2])
  <2>1. CASE n = c + 1
    BY Zenon, <1>1, <1>3, <1>4, <2>1
  <2>2. CASE n \in 1..c
    <3>3. PICK i \in at(l, code, n) : \E d : records[n] = Recorded(d) /\ Holds(d, l[i].id[2])
      BY Zenon, <1>3, <2>2 DEF Kept
    <3>1. PICK d : records[n] = Recorded(d) /\ Holds(d, l[i].id[2])
      BY Zenon, <3>3
    <3>2. i \in at(m, code, n) /\ m[i] = l[i] /\ rs[n] = records[n]
      BY Zenon, <1>2, <1>4, <2>2
    <3> QED
      BY Zenon, <3>1, <3>2
  <2> QED
    BY Zenon, <1>5, <1>6, <2>1, <2>2
<1> QED
  BY Zenon, <1>1, <1>3, <1>4, <1>6 DEF Kept

\* One record that finalize has paired: it has the ID and place of its entry.
LEMMA PairedOne ==
  ASSUME NEW l, IsSeq(l), NEW code, NEW records, Kept(records, l, code),
         NEW n \in DOMAIN records
  PROVE  \E i \in at(l, code, n) :
           LET r == paired(records, l, code)[n]
           IN  r.logPos = i /\ r.id = l[i].id /\ Holds(r, l[i].id[2])
<1>7. PICK i \in at(l, code, n) : \E con : records[n] = Recorded(con) /\ Holds(con, l[i].id[2])
  BY Zenon DEF Kept
<1>1. PICK con : records[n] = Recorded(con) /\ Holds(con, l[i].id[2])
  BY Zenon, <1>7
<1>2. \A j \in at(l, code, n) : j = i
  BY Zenon, AtUnique
<1>3. i = CHOOSE j \in at(l, code, n) : TRUE
  BY Zenon, <1>2
<1> DEFINE r == [Recorded(con) EXCEPT !.id = l[i].id, !.logPos = i]
<1>4. paired(records, l, code)[n] = r
  BY Zenon, <1>1, <1>3 DEF paired
<1>5. r.logPos = i /\ r.id = l[i].id /\ r.seed = con.seed /\ r.program = con.program /\ r.stack = con.stack
  BY DEF Recorded
<1> HIDE DEF r
<1>6. Holds(r, l[i].id[2])
  BY Zenon, <1>1, <1>5 DEF Holds
<1> QED
  BY Zenon, <1>4, <1>5, <1>6

\* finalize pairs what is recorded with the log.
LEMMA PairedMatches ==
  ASSUME NEW l, IsSeq(l), NEW code, NEW records, Kept(records, l, code),
         NEW rs, rs = paired(records, l, code)
  PROVE  Matches(rs, l, code)
<1>1. DOMAIN rs = DOMAIN records
  BY Zenon DEF paired
<1>2. \A n \in DOMAIN rs : \E i \in at(l, code, n) :
        rs[n].logPos = i /\ rs[n].id = l[i].id /\ Holds(rs[n], l[i].id[2])
  BY Zenon, <1>1, PairedOne
<1>3. /\ IsSeq(records) /\ Len(records) = index(l, code, Len(l))
      /\ DOMAIN records = 1..Len(records) /\ Len(l) \in Nat /\ DOMAIN l = 1..Len(l)
  BY Zenon, SeqFacts DEF Kept
<1> HIDE DEF Kept
<1>4. ASSUME NEW n \in DOMAIN rs, NEW m \in DOMAIN rs, m < n
      PROVE  rs[m].logPos < rs[n].logPos
  <2>1. PICK i \in at(l, code, n) : rs[n].logPos = i
    BY Zenon, <1>2
  <2>2. PICK j \in at(l, code, m) : rs[m].logPos = j
    BY Zenon, <1>2
  <2>3. /\ i \in 1..Len(l) /\ j \in 1..Len(l) /\ l[i].code = code
        /\ index(l, code, i) = n /\ index(l, code, j) = m
    BY Zenon, <1>3 DEF at
  <2>4. i \in Nat /\ j \in Nat /\ n \in Nat /\ m \in Nat
    BY <1>1, <1>3, <2>3
  <2>5. i <= j => index(l, code, i) <= index(l, code, j)
    BY Zenon, <2>4, IndexGrows
  <2> QED
    BY <1>4, <2>1, <2>2, <2>3, <2>4, <2>5
<1>5. ASSUME NEW i \in DOMAIN l, l[i].code = code
      PROVE  \E n \in DOMAIN rs : rs[n].logPos = i
  <2> DEFINE n == index(l, code, i)
  <2>1. i \in Nat /\ i <= Len(l)
    BY <1>3
  <2>2. n <= index(l, code, Len(l)) /\ index(l, code, Len(l)) \in Nat /\ n \in Nat
    BY Zenon, <1>3, <2>1, IndexGrows, IndexFacts
  <2>3. n # 0
    <3>1. PICK h \in Nat : i = h + 1
      <4>1. i - 1 \in Nat /\ i = (i - 1) + 1
        BY <1>3
      <4> QED
        BY Zenon, <4>1
    <3>2. index(l, code, h + 1) = index(l, code, h) + 1
      BY Zenon, <1>5, <3>1, IndexFacts
    <3>3. index(l, code, h) \in Nat
      BY Zenon, IndexFacts
    <3> QED
      BY <3>1, <3>2, <3>3
  <2>4. n \in DOMAIN rs
    BY <1>1, <1>3, <2>2, <2>3
  <2>5. i \in at(l, code, n)
    BY Zenon, <1>5 DEF at
  <2>6. PICK j \in at(l, code, n) : rs[n].logPos = j
    BY Zenon, <1>2, <2>4
  <2>7. i = j
    BY Zenon, <2>5, <2>6, AtUnique
  <2> QED
    BY Zenon, <2>4, <2>6, <2>7
<1>6. ASSUME NEW n \in DOMAIN rs
      PROVE  /\ rs[n].logPos \in DOMAIN l /\ l[rs[n].logPos].code = code
             /\ rs[n].id = l[rs[n].logPos].id /\ Holds(rs[n], rs[n].id[2])
  BY Zenon, <1>2, <1>6 DEF at
<1> QED
  BY Zenon, <1>4, <1>5, <1>6 DEF Matches

-----------------------------------------------------------------------------
TwoMore(t, s, x, y) ==
  /\ IsSeq(t) /\ Len(t) = Len(s) + 2
  /\ t[Len(s) + 1] = x /\ t[Len(s) + 2] = y

\* A sequence with two elements appended.
LEMMA AppendTwo ==
  ASSUME NEW s, IsSeq(s), NEW x, NEW y, NEW t, t = Append(Append(s, x), y)
  PROVE  TwoMore(t, s, x, y)
<1>1. PICK S : s \in Seq(S)
  BY Zenon DEF IsSeq
<1> DEFINE T == S \cup {x, y}
<1>2. s \in Seq(T) /\ x \in T /\ y \in T
  BY <1>1
<1> HIDE DEF T
<1>3. PICK u : u = Append(s, x)
  BY Zenon
<1>4. u \in Seq(T) /\ Len(u) = Len(s) + 1 /\ u[Len(s) + 1] = x /\ Len(s) \in Nat
  BY <1>2, <1>3
<1>5. t = Append(u, y)
  BY Zenon, <1>3
<1>6. /\ t \in Seq(T) /\ Len(t) = Len(s) + 2
      /\ t[Len(s) + 1] = x /\ t[Len(s) + 2] = y
  BY SMTT(30), <1>2, <1>4, <1>5
<1> QED
  BY Zenon, <1>6 DEF IsSeq, TwoMore

\* What is logged as an output is the current stack, and portable.
LogsRight(x) == x.code = "O" => x.id[2].stack = stack /\ stackPortable(stack)

\* What a step does to the log: nothing, it adds an item or the two of nonce,
\* or it adds the finalize item.
LEMMA LogSteps ==
  ASSUME IsSeq(log), [Next]_vars
  PROVE  \/ UNCHANGED <<log, finalized>>
         \/ UNCHANGED finalized /\ \E x : LogsRight(x) /\ log' = Append(log, x)
         \/ UNCHANGED finalized /\ \E x, y : /\ x.code # "O" /\ y.code # "O"
                                             /\ log' = Append(Append(log, x), y)
         \/ finalized' = TRUE /\ \E x : x.code = "F" /\ log' = Append(log, x)
<1> DEFINE Grown == \/ UNCHANGED <<log, finalized>>
                    \/ UNCHANGED finalized /\ \E x : LogsRight(x) /\ log' = Append(log, x)
                    \/ UNCHANGED finalized /\ \E x, y : /\ x.code # "O" /\ y.code # "O"
                                                        /\ log' = Append(Append(log, x), y)
                    \/ finalized' = TRUE /\ \E x : x.code = "F" /\ log' = Append(log, x)
           Plain == {"N", "R", "A", "X", "I", "L"}
<1>1. \A x : log \o <<x>> = Append(log, x)
  BY Zenon, ConcatFacts
<1>2. \A x, y : log \o <<x, y>> = Append(Append(log, x), y)
  BY DEF IsSeq
<1>3. CASE UNCHANGED <<log, finalized>>
  BY Zenon, <1>3
<1>4. ASSUME NEW x, log' = log \o <<x>>, UNCHANGED finalized,
             x.code \in Plain
      PROVE  Grown
  <2>1. LogsRight(x)
    BY <1>4 DEF LogsRight
  <2> QED
    BY Zenon, <1>1, <1>4, <2>1
<1>5. ASSUME NEW x, NEW y, log' = log \o <<x, y>>, UNCHANGED finalized,
             x.code \in Plain, y.code \in Plain
      PROVE  Grown
  <2>2. x.code # "O" /\ y.code # "O"
    BY <1>5
  <2>1. log' = Append(Append(log, x), y)
    BY Zenon, <1>2, <1>5
  <2> QED
    BY Zenon, <1>5, <2>1, <2>2
<1>6. CASE opFinalize
  <2>1. PICK x : x.code = "F" /\ log' = log \o <<x>>
    BY Zenon, <1>6 DEF opFinalize, Log
  <2> QED
    BY Zenon, <1>1, <1>6, <2>1 DEF opFinalize
<1>17. ASSUME NEW nonce, UNCHANGED finalized,
              log' = log \o <<NonceTuple(caller, contract.seed, nonce), logTimeRange(0, nonce[2])>>
       PROVE  Grown
  <2>1. /\ NonceTuple(caller, contract.seed, nonce).code = "N"
        /\ logTimeRange(0, nonce[2]).code = "R"
    BY Zenon DEF NonceTuple, logTimeRange
  <2>2. "N" \in Plain /\ "R" \in Plain
    BY Zenon
  <2> HIDE DEF Plain, Grown
  <2> QED
    BY Zenon, <1>5, <1>17, <2>1, <2>2
<1>18. ASSUME NEW nonce, UNCHANGED finalized,
              log' = log \o <<NonceTuple(caller, contract.seed, nonce)>>
       PROVE  Grown
  <2>1. NonceTuple(caller, contract.seed, nonce).code \in Plain
    BY Zenon DEF NonceTuple
  <2> QED
    BY Zenon, <1>4, <1>18, <2>1
<1>16. ASSUME NEW prog, opOutput(prog)
       PROVE  Grown
  <2> DEFINE con == Contract(contract.type, contract.seed, prog, stack)
             x == [code |-> "O", caller |-> caller, id |-> SnapshotID(con)]
  <2>1. x.id[2].stack = stack
    BY DEF SnapshotID, VMHash, Contract
  <2>2. stackPortable(stack) /\ log' = log \o <<x>> /\ UNCHANGED finalized
    BY Zenon, <1>16 DEF opOutput, Log
  <2> HIDE DEF x
  <2>3. LogsRight(x) /\ log' = Append(log, x)
    BY Zenon, <1>1, <2>1, <2>2 DEF LogsRight
  <2> QED
    BY Zenon, <2>2, <2>3
<1> HIDE DEF Grown
<1>7. CASE ValueInstruction
  BY Zenon, <1>3, <1>4, <1>17, <1>7 DEF ValueInstruction, opNonce, opIssue, opSplit, opMerge,
                      opRetire, Log, NoLog, Grown
<1>8. CASE StackInstruction
  BY Zenon, <1>3, <1>8 DEF StackInstruction, opDrop, opGet, opPut, opRoll, opBury,
                      opReverse, Permute, NoLog
<1>9. CASE ContractInstruction
  BY Zenon, <1>3, <1>4, <1>9, <1>16 DEF ContractInstruction, opContract, opYield, opWrap,
                      Suspend, opInput, opCall, opExec, Log, NoLog, Grown
<1>10. CASE LogInstruction
  BY Zenon, <1>4, <1>6, <1>10 DEF LogInstruction, opLog, opTimeRange, logTimeRange, Log, Grown
<1>11. ASSUME NEW cost, DataInstruction(cost)
       PROVE  Grown
  BY Zenon, <1>3, <1>11 DEF DataInstruction, NoLog, Grown
<1>12. ASSUME NEW v, NEW len, Validate(v, len)
       PROVE  Grown
  BY Zenon, <1>3, <1>12 DEF Validate, Grown
<1>13. CASE Return
  BY Zenon, <1>3, <1>13 DEF Return, NoLog
<1>14. CASE Panic
  BY Zenon, <1>3, <1>17, <1>18, <1>14 DEF Panic, Grown
<1>15. CASE UNCHANGED vars
  BY Zenon, <1>3, <1>15 DEF vars
<1> QED
  BY Zenon, <1>7, <1>8, <1>9, <1>10, <1>11, <1>12, <1>13, <1>14, <1>15 DEF Next, Step, Grown

-----------------------------------------------------------------------------
\* Until finalize the hooks keep what the log says; finalize makes it match,
\* and nothing touches it afterwards, unless the execution fails.
RecInv ==
  status # "failed" =>
    /\ DOMAIN tx = DOMAIN NoTx
    /\ IF finalized THEN Matches(tx.inputs, log, "I") /\ Matches(tx.outputs, log, "O")
       ELSE Kept(tx.inputs, log, "I") /\ Kept(tx.outputs, log, "O")

\* Every step of NewTx is one of the machine.
LEMMA HooksFollow ==
  ASSUME [NewTx]_recVars
  PROVE  [Next]_vars
<1>1. CASE HookedStep
  BY Zenon, <1>1 DEF HookedStep, Next, Step, ContractInstruction, LogInstruction
<1> QED
  BY Zenon, <1>1 DEF NewTx, PlainStep, HookedPanic, NilMachine, Next, recVars, vars

\* output, with stackHook before it.
LEMMA OutputKept ==
  ASSUME IInv, RecInv, NEW prog, opOutput(prog), hookOutput(prog)
  PROVE  RecInv'
<1> DEFINE con == Contract(contract.type, contract.seed, prog, stack)
           rec == Contract("C", contract.seed, prog, stack)
           x == [code |-> "O", caller |-> caller, id |-> SnapshotID(con)]
<1>1. /\ status = "running" /\ status' = status /\ finalized = FALSE /\ finalized' = FALSE
      /\ IsSeq(log) /\ log' = Append(log, x)
  BY Zenon, ConcatFacts DEF IInv, opOutput, Log, Charge, Stepping
<1>2. x.code = "O" /\ x.code # "I" /\ Holds(rec, x.id[2])
  BY DEF Holds, Contract, SnapshotID, VMHash
<1> HIDE DEF x, con
<1>3. /\ tx'.inputs = tx.inputs /\ tx'.outputs = Append(tx.outputs, Recorded(rec))
      /\ DOMAIN tx' = DOMAIN NoTx
  BY <1>1 DEF RecInv, hookOutput, NoTx
<1> HIDE DEF rec
<1>4. Kept(tx.inputs, log, "I") /\ Kept(tx.outputs, log, "O")
  BY Zenon, <1>1 DEF RecInv
<1>5. Kept(tx'.inputs, log', "I")
  BY Zenon, <1>1, <1>2, <1>3, <1>4, KeptOther
<1>6. Kept(tx'.outputs, log', "O")
  BY Zenon, <1>1, <1>2, <1>3, <1>4, KeptSame
<1> QED
  BY Zenon, <1>1, <1>3, <1>5, <1>6 DEF RecInv

\* input, with stackHook before it.
LEMMA InputKept ==
  ASSUME IInv, RecInv, NEW con, opInput(con), hookInput(con)
  PROVE  RecInv'
<1> DEFINE x == [code |-> "I", seed |-> contract.seed, id |-> SnapshotID(con)]
<1>1. /\ status = "running" /\ status' = status /\ finalized = FALSE /\ finalized' = FALSE
      /\ IsSeq(log) /\ log' = Append(log, x)
  BY Zenon, ConcatFacts DEF IInv, opInput, Log, Charge, Stepping
<1>2. x.code = "I" /\ x.code # "O" /\ Holds(con, x.id[2])
  BY DEF Holds, SnapshotID, VMHash
<1> HIDE DEF x
<1>3. /\ tx'.outputs = tx.outputs /\ tx'.inputs = Append(tx.inputs, Recorded(con))
      /\ DOMAIN tx' = DOMAIN NoTx
  BY <1>1 DEF RecInv, hookInput, NoTx
<1>4. Kept(tx.inputs, log, "I") /\ Kept(tx.outputs, log, "O")
  BY Zenon, <1>1 DEF RecInv
<1>5. Kept(tx'.outputs, log', "O")
  BY Zenon, <1>1, <1>2, <1>3, <1>4, KeptOther
<1>6. Kept(tx'.inputs, log', "I")
  BY Zenon, <1>1, <1>2, <1>3, <1>4, KeptSame
<1> QED
  BY Zenon, <1>1, <1>3, <1>5, <1>6 DEF RecInv

\* finalize, with entryHook in it.
LEMMA FinalizeMatches ==
  ASSUME IInv, RecInv, opFinalize, tx' = entryHook(tx, log')
  PROVE  RecInv'
<1>1. PICK x : x.code = "F" /\ log' = log \o <<x>>
  BY Zenon DEF opFinalize, Log
<1>2. /\ status = "running" /\ finalized = FALSE /\ finalized' = TRUE
      /\ IsSeq(log) /\ log' = Append(log, x)
  BY Zenon, <1>1, ConcatFacts DEF IInv, opFinalize, Log, Charge, Stepping
<1>3. IsSeq(log')
  BY Zenon, <1>2, AppendFacts
<1>4. Kept(tx.inputs, log, "I") /\ Kept(tx.outputs, log, "O")
  BY Zenon, <1>2 DEF RecInv
<1>5. Kept(tx.inputs, log', "I") /\ Kept(tx.outputs, log', "O")
  BY Zenon, <1>1, <1>2, <1>4, KeptOther
<1>6. /\ tx'.inputs = paired(tx.inputs, log', "I") /\ tx'.outputs = paired(tx.outputs, log', "O")
      /\ DOMAIN tx' = DOMAIN NoTx
  BY DEF entryHook, NoTx
<1>7. Matches(tx'.inputs, log', "I") /\ Matches(tx'.outputs, log', "O")
  BY Zenon, <1>3, <1>5, <1>6, PairedMatches
<1> QED
  BY Zenon, <1>2, <1>6, <1>7 DEF RecInv

\* Any other step, and one that fails.
LEMMA PlainKept ==
  ASSUME IInv, RecInv, PlainStep
  PROVE  RecInv'
<1>1. IsSeq(log)
  BY Zenon DEF IInv
<1>2. status # "failed" /\ UNCHANGED tx /\ [Next]_vars
  BY Zenon DEF PlainStep, Next, Step, Validate, Return, Panic, Stepping
<1>3. CASE UNCHANGED <<log, finalized>>
  BY Zenon, <1>2, <1>3 DEF RecInv
<1>4. CASE finalized
  BY Zenon, <1>2, <1>3, <1>4, FrozenStep
<1>5. ASSUME ~finalized, NEW l, IsSeq(l), NEW x, x.code \notin {"I", "O"},
             Kept(tx.inputs, l, "I"), Kept(tx.outputs, l, "O"),
             NEW m, m = Append(l, x)
      PROVE  IsSeq(m) /\ Kept(tx.inputs, m, "I") /\ Kept(tx.outputs, m, "O")
  <2>1. x.code # "I" /\ x.code # "O"
    BY Zenon, <1>5
  <2> QED
    BY Zenon, <1>5, <2>1, KeptOther, AppendFacts
<1>6. ASSUME ~finalized
      PROVE  Kept(tx.inputs, log, "I") /\ Kept(tx.outputs, log, "O")
  BY Zenon, <1>2, <1>6 DEF RecInv
<1>7. ASSUME NEW x, log' = Append(log, x)
      PROVE  x.code \notin {"I", "O", "F"}
  <2>1. /\ log'[Len(log) + 1] = x /\ Len(log) \in Nat /\ IsSeq(log')
        /\ Len(log') = Len(log) + 1
    BY Zenon, <1>1, <1>7, AppendFacts, SeqFacts
  <2>2. Len(log) + 1 \in DOMAIN log' /\ Len(log) + 1 > Len(log)
    BY <2>1, SeqFacts
  <2> QED
    BY Zenon, <2>1, <2>2 DEF PlainStep
<1>8. ASSUME ~finalized, UNCHANGED finalized, NEW x, log' = Append(log, x)
      PROVE  RecInv'
  <2>1. Kept(tx.inputs, log', "I") /\ Kept(tx.outputs, log', "O")
    BY Zenon, <1>1, <1>5, <1>6, <1>7, <1>8
  <2> QED
    BY Zenon, <1>2, <1>8, <2>1 DEF RecInv
<1>9. ASSUME ~finalized, UNCHANGED finalized, NEW x, NEW y,
             log' = Append(Append(log, x), y)
      PROVE  RecInv'
  <2>1. PICK l : l = Append(log, x)
    BY Zenon
  <2>2. Len(log) \in Nat
    BY Zenon, <1>1, SeqFacts
  <2>3. /\ IsSeq(log') /\ Len(log') = Len(log) + 2
        /\ log'[Len(log) + 1] = x /\ log'[Len(log) + 2] = y
    <3>1. TwoMore(log', log, x, y)
      BY Zenon, <1>1, <1>9, AppendTwo
    <3> QED
      BY Zenon, <3>1 DEF TwoMore
  <2>4. DOMAIN log' = 1..Len(log')
    BY Zenon, <2>3, SeqFacts
  <2>5. /\ Len(log) + 1 \in DOMAIN log' /\ Len(log) + 1 > Len(log)
        /\ Len(log) + 2 \in DOMAIN log' /\ Len(log) + 2 > Len(log)
    BY <2>2, <2>3, <2>4
  <2>6. x.code \notin {"I", "O"} /\ y.code \notin {"I", "O"}
    BY Zenon, <2>3, <2>5 DEF PlainStep
  <2>7. IsSeq(l) /\ Kept(tx.inputs, l, "I") /\ Kept(tx.outputs, l, "O")
    BY Zenon, <1>1, <1>5, <1>6, <1>9, <2>1, <2>6
  <2>8. log' = Append(l, y)
    BY Zenon, <1>9, <2>1
  <2>9. Kept(tx.inputs, log', "I") /\ Kept(tx.outputs, log', "O")
    BY Zenon, <1>5, <1>9, <2>6, <2>7, <2>8
  <2> QED
    BY Zenon, <1>2, <1>9, <2>9 DEF RecInv
<1> QED
  BY Zenon, <1>1, <1>2, <1>3, <1>4, <1>7, <1>8, <1>9, LogSteps

\* Every step of NewTx keeps the record.
LEMMA NewTxInv ==
  ASSUME IInv, RecInv, [NewTx]_recVars
  PROVE  RecInv'
<1>1. CASE HookedStep
  BY Zenon, <1>1, OutputKept, InputKept, FinalizeMatches DEF HookedStep
<1>2. CASE HookedPanic
  BY Zenon, <1>2 DEF HookedPanic, Panic, RecInv
<1>3. CASE UNCHANGED recVars
  BY Zenon, <1>3 DEF recVars, vars, RecInv
<1>4. CASE NilMachine
  BY Zenon, <1>4 DEF NilMachine, Validate, RecInv
<1> QED
  BY Zenon, <1>1, <1>2, <1>3, <1>4, PlainKept DEF NewTx

\* Nothing is recorded before the start.
LEMMA InitRecord ==
  ASSUME Init, tx = NoTx
  PROVE  RecInv
<1>1. log = <<>> /\ Len(log) = 0 /\ tx.inputs = <<>> /\ tx.outputs = <<>>
  BY DEF Init, NoTx
<1>2. <<>> \in Seq({}) /\ Len(<<>>) = 0 /\ DOMAIN <<>> = {}
  OBVIOUS
<1>3. \A code : index(log, code, 0) = 0
  <2>1. \A code : {j \in 1..0 : log[j].code = code} = {}
    OBVIOUS
  <2> QED
    BY Zenon, <2>1, FS_EmptySet DEF index
<1>4. \A code : Kept(<<>>, log, code)
  BY Zenon, <1>1, <1>2, <1>3 DEF Kept, IsSeq
<1> QED
  BY Zenon, <1>1, <1>4 DEF RecInv, Init

\* NewTx runs the machine: what is proved of an execution holds of it.
THEOREM RecordRuns == RecordSpec => Spec
<1>1. [NewTx]_recVars => [Next]_vars
  BY Zenon, HooksFollow
<1> QED
  BY <1>1, PTL DEF RecordSpec, Spec

\* The inputs and outputs that NewTx records of a finalized transaction are
\* those of its log, in order, each with the contents that its ID commits to.
THEOREM RecordRight == RecordSpec => []RecordMatchesLog
<1>1. Init /\ tx = NoTx => RecInv
  BY Zenon, InitRecord
<1>2. IInv /\ RecInv /\ [NewTx]_recVars => RecInv'
  BY Zenon, NewTxInv
<1>3. RecInv => RecordMatchesLog
  BY Zenon DEF RecInv, RecordMatchesLog
<1> QED
  BY <1>1, <1>2, <1>3, RecordRuns, InvHolds, PTL DEF RecordSpec
=============================================================================
