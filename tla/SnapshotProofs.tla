--------------------------- MODULE SnapshotProofs ---------------------------
(***************************************************************************)
(* What applying transactions to the state and generating a block do, for  *)
(* every state and every sequence of transactions.                         *)
(***************************************************************************)
EXTENDS Replay, WellFoundedInduction, TLAPS

\* The bodies of the loops of ApplyTxs, GenerateBlock and BlockOnly.
ApplyNext(s, t, tx) == IF t.ok THEN ApplyTx(s, t, tx) ELSE t
PickNext(c, acc, tx) ==
  LET t == ApplyTx(c.snap, acc.trees, tx)
  IN  IF \/ Len(acc.txs) >= MaxBlockTxs
         \/ ~CheckTransactionTime(tx, c.timestampMS)
         \/ acc.runlimit + tx.runlimit > MaxRunlimit
         \/ ~t.ok
      THEN acc
      ELSE [trees |-> t, txs |-> Append(acc.txs, tx),
            runlimit |-> acc.runlimit + tx.runlimit]
SpendNext(acc, tx) == [ok   |-> acc.ok /\ acc.rest - tx.runlimit >= 0,
                       rest |-> acc.rest - tx.runlimit]

\* The loops of the model, in one: c[1] names the loop, c[2] is what its body
\* reads besides.
Turn(c, acc, e) ==
  CASE c[1] = "nonces"    -> AddNonce(c[2], acc, e)
    [] c[1] = "contracts" -> MoveContract(acc, e)
    [] c[1] = "txs"       -> ApplyNext(c[2], acc, e)
    [] c[1] = "picks"     -> PickNext(c[2], acc, e)
    [] c[1] = "spends"    -> SpendNext(acc, e)

\* What the loop makes of base.
Run(c, base, seq) ==
  LET after[n \in 0..Len(seq)] ==
        IF n = 0 THEN base ELSE Turn(c, after[n - 1], seq[n])
  IN  after[Len(seq)]

\* f solves the recursion for the first k turns.
Solves(f, c, base, seq, k) ==
  f = [n \in 0..k |-> IF n = 0 THEN base ELSE Turn(c, f[n - 1], seq[n])]

\* f[n] is the accumulator after n turns.
IsTrace(f, c, base, seq) ==
  /\ DOMAIN f = 0..Len(seq)
  /\ f[0] = base
  /\ \A n \in 1..Len(seq) : f[n] = Turn(c, f[n - 1], seq[n])

NonceRun(s, t, ns) == Run(<<"nonces", s>>, t, ns)
MoveRun(t, cs) == Run(<<"contracts">>, t, cs)
TxRun(s, t, txs) == Run(<<"txs", s>>, t, txs)
PickRun(c, acc, txs) == Run(<<"picks", c>>, acc, txs)
SpendRun(acc, txs) == Run(<<"spends">>, acc, txs)

IsTrees(t) ==
  /\ t = [ok |-> t.ok, contracts |-> t.contracts, nonces |-> t.nonces]
  /\ t.ok \in BOOLEAN

\* What s2 says of the blocks of the chain, it says at least as much as s.
SeesMore(s, s2) ==
  /\ s2.initial = s.initial
  /\ Range(s.refs) \subseteq Range(s2.refs)

-----------------------------------------------------------------------------
\* Induction over the natural numbers, for sets.
LEMMA NatSetInduction ==
  ASSUME NEW S, 0 \in S, \A n \in Nat : n \in S => n + 1 \in S
  PROVE  Nat \subseteq S
<1> DEFINE T == Nat \ S
           R == OpToRel(<, Nat)
<1>1. IsWellFoundedOn(R, Nat)
  BY Zenon, NatLessThanWellFounded
<1>2. \A k, n \in Nat : k < n => <<k, n>> \in R
  BY Zenon DEF OpToRel
<1> HIDE DEF R
<1>3. SUFFICES ASSUME T # {} PROVE FALSE
  BY Zenon
<1>4. PICK n \in T : \A k \in T : ~(<<k, n>> \in R)
  BY Zenon, <1>1, <1>3, WFMin
<1>5. n \in Nat /\ n \notin S /\ n # 0
  BY Zenon, <1>4
<1>6. n - 1 \in Nat /\ n - 1 < n /\ (n - 1) + 1 = n
  BY <1>5
<1>7. n - 1 \notin T
  BY Zenon, <1>2, <1>4, <1>5, <1>6
<1> QED
  BY Zenon, <1>5, <1>6, <1>7

\* The recursion that defines a loop has a solution: the turns one by one.
LEMMA SolutionExists ==
  ASSUME NEW c, NEW base, NEW S, NEW seq \in Seq(S)
  PROVE  \E f : Solves(f, c, base, seq, Len(seq))
<1> DEFINE K == {k \in Nat : \E f : Solves(f, c, base, seq, k)}
<1>1. 0 \in K
  <2> DEFINE f == [n \in 0..0 |-> base]
  <2>1. Solves(f, c, base, seq, 0)
    BY DEF Solves
  <2> QED BY Zenon, <2>1
<1>2. ASSUME NEW k \in Nat, k \in K PROVE k + 1 \in K
  <2>1. PICK f : Solves(f, c, base, seq, k)
    BY Zenon, <1>2
  <2> DEFINE g == [n \in 0..(k + 1) |->
                     IF n <= k THEN f[n] ELSE Turn(c, f[k], seq[k + 1])]
  <2>2. \A n \in 0..(k + 1) :
          g[n] = IF n = 0 THEN base ELSE Turn(c, g[n - 1], seq[n])
    BY <2>1 DEF Solves
  <2>3. Solves(g, c, base, seq, k + 1)
    BY Zenon, <2>2 DEF Solves
  <2> QED
    BY <2>3
<1>3. Len(seq) \in K
  <2> HIDE DEF K
  <2> QED BY <1>1, <1>2, NatSetInduction
<1> QED BY Zenon, <1>3

\* A function that solves the equation of a loop has the states of the loop
\* as its values.
LEMMA SolutionTrace ==
  ASSUME NEW c, NEW base, NEW S, NEW seq \in Seq(S), NEW f,
         Solves(f, c, base, seq, Len(seq))
  PROVE  IsTrace(f, c, base, seq)
BY DEF Solves, IsTrace

\* The states of a loop, turn by turn, from its first to its result.
LEMMA RunTrace ==
  ASSUME NEW c, NEW base, NEW S, NEW seq \in Seq(S)
  PROVE  \E f : IsTrace(f, c, base, seq) /\ f[Len(seq)] = Run(c, base, seq)
<1> DEFINE f == CHOOSE g : Solves(g, c, base, seq, Len(seq))
<1>1. Solves(f, c, base, seq, Len(seq))
  BY Zenon, SolutionExists
<1>2. f[Len(seq)] = Run(c, base, seq)
  BY Zenon DEF Run, Solves
<1> HIDE DEF f
<1>3. IsTrace(f, c, base, seq)
  BY Zenon, <1>1, SolutionTrace
<1> QED BY Zenon, <1>2, <1>3

\* Two loops that agree on the elements of a prefix agree after it.
LEMMA TraceUnique ==
  ASSUME NEW c, NEW base, NEW seq, NEW seq2, NEW f, NEW g,
         IsTrace(f, c, base, seq), IsTrace(g, c, base, seq2),
         Len(seq) \in Nat, Len(seq2) \in Nat, Len(seq) <= Len(seq2),
         \A n \in 1..Len(seq) : seq2[n] = seq[n]
  PROVE  \A n \in 0..Len(seq) : f[n] = g[n]
<1> DEFINE K == {n \in Nat : n <= Len(seq) => f[n] = g[n]}
<1>1. 0 \in K
  BY Zenon DEF IsTrace
<1>2. ASSUME NEW n \in Nat, n \in K PROVE n + 1 \in K
  <2> SUFFICES ASSUME n + 1 <= Len(seq) PROVE f[n + 1] = g[n + 1]
    OBVIOUS
  <2>1. f[n] = g[n] /\ n + 1 \in 1..Len(seq) /\ n + 1 \in 1..Len(seq2)
    BY <1>2
  <2> QED BY <2>1 DEF IsTrace
<1>3. Nat \subseteq K
  <2> HIDE DEF K
  <2> QED BY Zenon, <1>1, <1>2, NatSetInduction
<1> QED BY <1>3

\* A loop over nothing returns what it started with.
LEMMA RunEmpty ==
  ASSUME NEW c, NEW base
  PROVE  Run(c, base, <<>>) = base
<1>1. <<>> \in Seq({}) /\ Len(<<>>) = 0
  OBVIOUS
<1>2. PICK f : IsTrace(f, c, base, <<>>) /\ f[Len(<<>>)] = Run(c, base, <<>>)
  BY Zenon, <1>1, RunTrace
<1> QED BY Zenon, <1>1, <1>2 DEF IsTrace

\* A loop over one element more takes one turn more.
LEMMA RunAppend ==
  ASSUME NEW c, NEW base, NEW S, NEW seq \in Seq(S), NEW e \in S
  PROVE  Run(c, base, Append(seq, e)) = Turn(c, Run(c, base, seq), e)
<1>1. PICK seq2 : seq2 = Append(seq, e)
  BY Zenon
<1>2. /\ seq2 \in Seq(S) /\ Len(seq2) = Len(seq) + 1 /\ Len(seq) \in Nat
      /\ seq2[Len(seq) + 1] = e
  BY <1>1
<1>3. \A n \in 1..Len(seq) : seq2[n] = seq[n]
  BY <1>1
<1>4. PICK f : IsTrace(f, c, base, seq) /\ f[Len(seq)] = Run(c, base, seq)
  BY Zenon, RunTrace
<1>5. PICK g : IsTrace(g, c, base, seq2) /\ g[Len(seq2)] = Run(c, base, seq2)
  BY Zenon, <1>2, RunTrace
<1>6. g[Len(seq)] = Run(c, base, seq)
  <2>1. Len(seq) <= Len(seq2) /\ Len(seq2) \in Nat /\ Len(seq) \in 0..Len(seq)
    BY <1>2
  <2>2. \A n \in 0..Len(seq) : f[n] = g[n]
    BY <1>2, <1>3, <1>4, <1>5, <2>1, TraceUnique
  <2> QED BY Zenon, <1>4, <2>1, <2>2
<1>7. g[Len(seq) + 1] = Turn(c, g[Len(seq)], e)
  BY <1>2, <1>5 DEF IsTrace
<1> QED BY Zenon, <1>1, <1>2, <1>5, <1>6, <1>7
\* The body of each loop.
LEMMA Turns ==
  ASSUME NEW s, NEW acc, NEW e
  PROVE  /\ Turn(<<"nonces", s>>, acc, e) = AddNonce(s, acc, e)
         /\ Turn(<<"contracts">>, acc, e) = MoveContract(acc, e)
         /\ Turn(<<"txs", s>>, acc, e) = ApplyNext(s, acc, e)
         /\ Turn(<<"picks", s>>, acc, e) = PickNext(s, acc, e)
         /\ Turn(<<"spends">>, acc, e) = SpendNext(acc, e)
BY Zenon DEF Turn

\* The elements of a sequence with one appended.
LEMMA RangeAppend ==
  ASSUME NEW S, NEW seq \in Seq(S), NEW e \in S
  PROVE  Range(Append(seq, e)) = Range(seq) \cup {e}
<1>1. PICK s : s = Append(seq, e)
  BY Zenon
<1>2. /\ Len(seq) \in Nat /\ DOMAIN seq = 1..Len(seq) /\ DOMAIN s = 1..(Len(seq) + 1)
      /\ \A i \in 1..Len(seq) : s[i] = seq[i]
      /\ s[Len(seq) + 1] = e
  BY <1>1
<1>3. Range(s) = {s[i] : i \in 1..(Len(seq) + 1)} /\ Range(seq) = {seq[i] : i \in 1..Len(seq)}
  BY Zenon, <1>2 DEF Range
<1>4. \A i \in 1..(Len(seq) + 1) : i \in 1..Len(seq) \/ i = Len(seq) + 1
  BY <1>2
<1>5. 1..Len(seq) \subseteq 1..(Len(seq) + 1) /\ Len(seq) + 1 \in 1..(Len(seq) + 1)
  BY <1>2
<1>6. Range(s) = Range(seq) \cup {e}
  BY Zenon, <1>2, <1>3, <1>4, <1>5
<1> QED BY Zenon, <1>1, <1>6

\* The folds of the model are these loops.
LEMMA ApplyTxLoops ==
  ASSUME NEW s, NEW t, NEW tx
  PROVE  ApplyTx(s, t, tx) =
           LET moved == MoveRun(NonceRun(s, t, tx.nonces), tx.contracts)
           IN  IF s.initial # ZeroID /\ moved.ok THEN moved
                                                 ELSE [t EXCEPT !.ok = FALSE]
<1>1. PICK ns : ns = tx.nonces
  BY Zenon
<1>2. PICK cs : cs = tx.contracts
  BY Zenon
<1> DEFINE nonced == (CHOOSE f : f = [n \in 0..Len(ns) |->
                        IF n = 0 THEN t ELSE AddNonce(s, f[n - 1], ns[n])])[Len(ns)]
           Moved(base) == (CHOOSE f : f = [n \in 0..Len(cs) |->
                             IF n = 0 THEN base ELSE MoveContract(f[n - 1], cs[n])])[Len(cs)]
<1>3. ApplyTx(s, t, tx) = IF s.initial # ZeroID /\ Moved(nonced).ok
                          THEN Moved(nonced) ELSE [t EXCEPT !.ok = FALSE]
  BY <1>1, <1>2 DEF ApplyTx, FoldLeft
<1>4. nonced = NonceRun(s, t, ns)
  <2>1. PICK loop : loop = <<"nonces", s>>
    BY Zenon
  <2>2. \A acc, e : Turn(loop, acc, e) = AddNonce(s, acc, e)
    BY Zenon, <2>1, Turns
  <2>3. \A f : f = [n \in 0..Len(ns) |-> IF n = 0 THEN t ELSE AddNonce(s, f[n - 1], ns[n])]
            <=> f = [n \in 0..Len(ns) |-> IF n = 0 THEN t ELSE Turn(loop, f[n - 1], ns[n])]
    BY <2>2
  <2>4. (CHOOSE f : f = [n \in 0..Len(ns) |-> IF n = 0 THEN t ELSE AddNonce(s, f[n - 1], ns[n])])[Len(ns)]
          = Run(loop, t, ns)
    BY ZenonT(60), <2>3 DEF Run
  <2> QED
    BY Zenon, <2>1, <2>4 DEF NonceRun
<1> HIDE DEF nonced
<1>5. ASSUME NEW base PROVE Moved(base) = MoveRun(base, cs)
  <2>1. PICK loop : loop = <<"contracts">>
    BY Zenon
  <2>2. \A acc, e : Turn(loop, acc, e) = MoveContract(acc, e)
    BY Zenon, <2>1, Turns
  <2>3. \A f : f = [n \in 0..Len(cs) |-> IF n = 0 THEN base ELSE MoveContract(f[n - 1], cs[n])]
            <=> f = [n \in 0..Len(cs) |-> IF n = 0 THEN base ELSE Turn(loop, f[n - 1], cs[n])]
    BY Zenon, <2>2
  <2>4. (CHOOSE f : f = [n \in 0..Len(cs) |-> IF n = 0 THEN base ELSE MoveContract(f[n - 1], cs[n])])[Len(cs)]
          = Run(loop, base, cs)
    BY ZenonT(60), <2>3 DEF Run
  <2> QED
    BY Zenon, <2>1, <2>4 DEF MoveRun
<1> HIDE DEF Moved
<1> QED
  BY Zenon, <1>1, <1>2, <1>3, <1>4, <1>5

\* ApplyTxs is a loop over the transactions.
LEMMA ApplyTxsLoop ==
  ASSUME NEW s, NEW txs
  PROVE  ApplyTxs(s, txs) = TxRun(s, TreesOf(s), txs)
<1>1. PICK loop : loop = <<"txs", s>>
  BY Zenon
<1>2. \A acc, e : Turn(loop, acc, e) = ApplyNext(s, acc, e)
  BY Zenon, <1>1, Turns
<1>3. \A f : f = [n \in 0..Len(txs) |-> IF n = 0 THEN TreesOf(s) ELSE ApplyNext(s, f[n - 1], txs[n])]
          <=> f = [n \in 0..Len(txs) |-> IF n = 0 THEN TreesOf(s) ELSE Turn(loop, f[n - 1], txs[n])]
  BY Zenon, <1>2
<1>4. (CHOOSE f : f = [n \in 0..Len(txs) |-> IF n = 0 THEN TreesOf(s) ELSE ApplyNext(s, f[n - 1], txs[n])])[Len(txs)]
        = Run(loop, TreesOf(s), txs)
  BY ZenonT(60), <1>3 DEF Run
<1>5. ApplyTxs(s, txs) = Run(loop, TreesOf(s), txs)
  BY Zenon, <1>4 DEF ApplyTxs, FoldLeft, ApplyNext
<1> QED
  BY Zenon, <1>1, <1>5 DEF TxRun

\* The turns of each loop, one by one, and one more turn.
LEMMA NonceTrace ==
  ASSUME NEW s, NEW t, NEW S, NEW ns \in Seq(S)
  PROVE  \E f : /\ f[0] = t /\ f[Len(ns)] = NonceRun(s, t, ns)
                /\ \A n \in 1..Len(ns) : f[n] = AddNonce(s, f[n - 1], ns[n])
<1>1. PICK loop : loop = <<"nonces", s>>
  BY Zenon
<1>2. \A acc, e : Turn(loop, acc, e) = AddNonce(s, acc, e)
  BY Zenon, <1>1, Turns
<1>3. PICK f : IsTrace(f, loop, t, ns) /\ f[Len(ns)] = Run(loop, t, ns)
  BY Zenon, RunTrace
<1>4. f[Len(ns)] = NonceRun(s, t, ns)
  BY Zenon, <1>1, <1>3 DEF NonceRun
<1> QED
  BY <1>2, <1>3, <1>4 DEF IsTrace

\* The turns of the loop over the contracts of a transaction.
LEMMA MoveTrace ==
  ASSUME NEW t, NEW S, NEW cs \in Seq(S)
  PROVE  \E f : /\ f[0] = t /\ f[Len(cs)] = MoveRun(t, cs)
                /\ \A n \in 1..Len(cs) : f[n] = MoveContract(f[n - 1], cs[n])
<1>1. PICK loop : loop = <<"contracts">>
  BY Zenon
<1>2. \A acc, e : Turn(loop, acc, e) = MoveContract(acc, e)
  BY Zenon, <1>1, Turns
<1>3. PICK f : IsTrace(f, loop, t, cs) /\ f[Len(cs)] = Run(loop, t, cs)
  BY Zenon, RunTrace
<1>4. f[Len(cs)] = MoveRun(t, cs)
  BY Zenon, <1>1, <1>3 DEF MoveRun
<1> QED
  BY <1>2, <1>3, <1>4 DEF IsTrace

\* The turns of the loop over the transactions of a block.
LEMMA TxTrace ==
  ASSUME NEW s, NEW t, NEW S, NEW txs \in Seq(S)
  PROVE  \E f : /\ f[0] = t /\ f[Len(txs)] = TxRun(s, t, txs)
                /\ \A n \in 1..Len(txs) : f[n] = ApplyNext(s, f[n - 1], txs[n])
<1>1. PICK loop : loop = <<"txs", s>>
  BY Zenon
<1>2. \A acc, e : Turn(loop, acc, e) = ApplyNext(s, acc, e)
  BY Zenon, <1>1, Turns
<1>3. PICK f : IsTrace(f, loop, t, txs) /\ f[Len(txs)] = Run(loop, t, txs)
  BY Zenon, RunTrace
<1>4. f[Len(txs)] = TxRun(s, t, txs)
  BY Zenon, <1>1, <1>3 DEF TxRun
<1> QED
  BY <1>2, <1>3, <1>4 DEF IsTrace

\* The turns of the loop over the pending transactions.
LEMMA PickTrace ==
  ASSUME NEW c, NEW base, NEW S, NEW txs \in Seq(S)
  PROVE  \E f : /\ f[0] = base /\ f[Len(txs)] = PickRun(c, base, txs)
                /\ \A n \in 1..Len(txs) : f[n] = PickNext(c, f[n - 1], txs[n])
<1>1. PICK loop : loop = <<"picks", c>>
  BY Zenon
<1>2. \A acc, e : Turn(loop, acc, e) = PickNext(c, acc, e)
  BY Zenon, <1>1, Turns
<1>3. PICK f : IsTrace(f, loop, base, txs) /\ f[Len(txs)] = Run(loop, base, txs)
  BY Zenon, RunTrace
<1>4. f[Len(txs)] = PickRun(c, base, txs)
  BY Zenon, <1>1, <1>3 DEF PickRun
<1> QED
  BY <1>2, <1>3, <1>4 DEF IsTrace

\* Applying one transaction more.
LEMMA TxAppend ==
  ASSUME NEW s, NEW t, NEW S, NEW txs \in Seq(S), NEW e \in S
  PROVE  TxRun(s, t, Append(txs, e)) = ApplyNext(s, TxRun(s, t, txs), e)
<1>1. PICK loop : loop = <<"txs", s>>
  BY Zenon
<1>2. \A acc : Turn(loop, acc, e) = ApplyNext(s, acc, e)
  BY Zenon, <1>1, Turns
<1>3. Run(loop, t, Append(txs, e)) = Turn(loop, Run(loop, t, txs), e)
  BY RunAppend
<1> QED
  BY Zenon, <1>1, <1>2, <1>3 DEF TxRun

\* Charging the run limit of one transaction more.
LEMMA SpendAppend ==
  ASSUME NEW base, NEW S, NEW txs \in Seq(S), NEW e \in S
  PROVE  SpendRun(base, Append(txs, e)) = SpendNext(SpendRun(base, txs), e)
<1>1. PICK loop : loop = <<"spends">>
  BY Zenon
<1>2. \A acc : Turn(loop, acc, e) = SpendNext(acc, e)
  BY Zenon, <1>1, Turns
<1>3. Run(loop, base, Append(txs, e)) = Turn(loop, Run(loop, base, txs), e)
  BY RunAppend
<1> QED
  BY Zenon, <1>1, <1>2, <1>3 DEF SpendRun

\* What adding one nonce does to each tree, and when it succeeds.
LEMMA AddNonceFields ==
  ASSUME NEW s, NEW t, NEW n, IsTrees(t)
  PROVE  /\ IsTrees(AddNonce(s, t, n))
         /\ AddNonce(s, t, n).contracts = t.contracts
         /\ AddNonce(s, t, n).nonces = t.nonces \cup {NonceCommitment(n)}
         /\ AddNonce(s, t, n).ok <=> /\ t.ok /\ NonceCommitment(n) \notin t.nonces
                                     /\ RefersToBlock(s, n)
<1>1. PICK x : x = t.nonces \cup {NonceCommitment(n)}
  BY Zenon
<1>2. PICK b \in BOOLEAN : b = (/\ t.ok /\ NonceCommitment(n) \notin t.nonces
                               /\ RefersToBlock(s, n))
  BY Zenon
<1>3. AddNonce(s, t, n) = [t EXCEPT !.ok = b, !.nonces = x]
  BY Zenon, <1>1, <1>2 DEF AddNonce
<1>4. AddNonce(s, t, n) = [ok |-> b, contracts |-> t.contracts, nonces |-> x]
  BY Zenon, <1>3 DEF IsTrees
<1>5. /\ IsTrees(AddNonce(s, t, n)) /\ AddNonce(s, t, n).ok = b
      /\ AddNonce(s, t, n).contracts = t.contracts
      /\ AddNonce(s, t, n).nonces = x
  BY <1>4 DEF IsTrees
<1> QED
  BY Zenon, <1>1, <1>2, <1>5

\* A nonce that is accepted is accepted with a longer chain to refer to.
LEMMA AddNonceSeesMore ==
  ASSUME NEW s, NEW s2, NEW t, NEW n, IsTrees(t), SeesMore(s, s2),
         AddNonce(s, t, n).ok
  PROVE  AddNonce(s2, t, n) = AddNonce(s, t, n)
<1>1. PICK a : a = AddNonce(s, t, n)
  BY Zenon
<1>2. PICK b : b = AddNonce(s2, t, n)
  BY Zenon
<1>3. /\ IsTrees(a) /\ a.ok /\ a.contracts = t.contracts
      /\ a.nonces = t.nonces \cup {NonceCommitment(n)}
      /\ t.ok /\ NonceCommitment(n) \notin t.nonces /\ RefersToBlock(s, n)
  BY <1>1, AddNonceFields
<1>4. RefersToBlock(s2, n)
  BY Zenon, <1>3 DEF RefersToBlock, SeesMore
<1>5. /\ IsTrees(b) /\ b.ok /\ b.contracts = t.contracts
      /\ b.nonces = t.nonces \cup {NonceCommitment(n)}
  BY <1>2, <1>3, <1>4, AddNonceFields
<1>6. a = b
  BY Zenon, <1>3, <1>5 DEF IsTrees
<1> QED
  BY Zenon, <1>1, <1>2, <1>6

\* What one input or output does to each tree, and what an input needs.
LEMMA MoveContractFields ==
  ASSUME NEW s, NEW t, NEW c, IsTrees(t)
  PROVE  /\ IsTrees(MoveContract(t, c))
         /\ MoveContract(t, c).nonces = t.nonces
         /\ MoveContract(t, c).ok => t.ok
         /\ c.type = "input" =>
              /\ MoveContract(t, c).contracts = t.contracts \ {c.id}
              /\ MoveContract(t, c).ok => c.id \in t.contracts
         /\ c.type # "input" =>
              MoveContract(t, c).contracts = t.contracts \cup {c.id}
BY Zenon DEF MoveContract, IsTrees

\* The loop over the nonces adds them all; it is ok if they were all new and
\* refer to blocks of the chain.
LEMMA NonceLoop ==
  ASSUME NEW s, NEW t, NEW ns, ns \in Seq(Range(ns)), IsTrees(t),
         NEW r, r = NonceRun(s, t, ns)
  PROVE  /\ IsTrees(r)
         /\ r.contracts = t.contracts
         /\ r.nonces = t.nonces \cup {NonceCommitment(n) : n \in Range(ns)}
         /\ r.ok => /\ t.ok
                    /\ \A n \in Range(ns) : NonceCommitment(n) \notin t.nonces
<1>1. PICK f : /\ f[0] = t /\ f[Len(ns)] = r
               /\ \A n \in 1..Len(ns) : f[n] = AddNonce(s, f[n - 1], ns[n])
  BY NonceTrace
<1>2. /\ Len(ns) \in Nat /\ f[0] = t
      /\ \A n \in 1..Len(ns) : f[n] = AddNonce(s, f[n - 1], ns[n])
  BY <1>1
<1> DEFINE Added(m) == {NonceCommitment(ns[i]) : i \in 1..m}
           P(m) == /\ IsTrees(f[m])
                   /\ f[m].contracts = t.contracts
                   /\ f[m].nonces = t.nonces \cup Added(m)
                   /\ f[m].ok => /\ t.ok
                                 /\ \A i \in 1..m : NonceCommitment(ns[i]) \notin t.nonces
           K == {m \in Nat : m <= Len(ns) => P(m)}
<1>3. 0 \in K
  BY <1>2
<1>4. ASSUME NEW m \in Nat, m \in K PROVE m + 1 \in K
  <2> SUFFICES ASSUME m + 1 <= Len(ns) PROVE P(m + 1)
    OBVIOUS
  <2>1. P(m)
    BY <1>2, <1>4
  <2>2. f[m + 1] = AddNonce(s, f[m], ns[m + 1])
    BY <1>2
  <2>3. /\ IsTrees(f[m + 1])
        /\ f[m + 1].contracts = f[m].contracts
        /\ f[m + 1].nonces = f[m].nonces \cup {NonceCommitment(ns[m + 1])}
        /\ f[m + 1].ok => f[m].ok /\ NonceCommitment(ns[m + 1]) \notin f[m].nonces
    BY <2>1, <2>2, AddNonceFields
  <2>4. Added(m + 1) = Added(m) \cup {NonceCommitment(ns[m + 1])}
    OBVIOUS
  <2>5. \A i \in 1..(m + 1) : i \in 1..m \/ i = m + 1
    OBVIOUS
  <2> QED
    BY Zenon, <2>1, <2>3, <2>4, <2>5
<1>5. Nat \subseteq K
  <2> HIDE DEF K
  <2> QED BY Zenon, <1>3, <1>4, NatSetInduction
<1>6. P(Len(ns))
  BY <1>2, <1>5
<1>7. Range(ns) = {ns[i] : i \in 1..Len(ns)}
  BY DEF Range
<1>8. Added(Len(ns)) = {NonceCommitment(n) : n \in Range(ns)}
  BY Zenon, <1>7
<1> HIDE DEF Added
<1> QED
  BY Zenon, <1>1, <1>6, <1>7, <1>8

\* A loop that succeeds does the same with a longer chain to refer to.
LEMMA NonceLoopSeesMore ==
  ASSUME NEW s, NEW s2, NEW t, NEW ns, ns \in Seq(Range(ns)), IsTrees(t),
         SeesMore(s, s2), NonceRun(s, t, ns).ok
  PROVE  NonceRun(s2, t, ns) = NonceRun(s, t, ns)
<1>1. PICK f : /\ f[0] = t /\ f[Len(ns)] = NonceRun(s, t, ns)
               /\ \A n \in 1..Len(ns) : f[n] = AddNonce(s, f[n - 1], ns[n])
  BY NonceTrace
<1>2. PICK g : /\ g[0] = t /\ g[Len(ns)] = NonceRun(s2, t, ns)
               /\ \A n \in 1..Len(ns) : g[n] = AddNonce(s2, g[n - 1], ns[n])
  BY NonceTrace
<1>3. /\ f[0] = t /\ g[0] = t
      /\ \A n \in 1..Len(ns) : /\ f[n] = AddNonce(s, f[n - 1], ns[n])
                               /\ g[n] = AddNonce(s2, g[n - 1], ns[n])
  BY Zenon, <1>1, <1>2
<1> Len(ns) \in Nat
  OBVIOUS
<1> DEFINE P(m) == IsTrees(f[m]) /\ (f[m].ok => g[m] = f[m])
           K == {m \in Nat : m <= Len(ns) => P(m)}
<1>4. 0 \in K
  BY Zenon, <1>3
<1>5. ASSUME NEW m \in Nat, m \in K PROVE m + 1 \in K
  <2> SUFFICES ASSUME m + 1 <= Len(ns) PROVE P(m + 1)
    OBVIOUS
  <2>1. P(m)
    BY <1>3, <1>5
  <2>2. /\ f[m + 1] = AddNonce(s, f[m], ns[m + 1])
        /\ g[m + 1] = AddNonce(s2, g[m], ns[m + 1])
    BY <1>3
  <2>3. IsTrees(f[m + 1])
    BY <2>1, <2>2, AddNonceFields
  <2>4. f[m + 1].ok => f[m].ok
    BY <2>1, <2>2, AddNonceFields
  <2>5. f[m + 1].ok => g[m + 1] = f[m + 1]
    BY <2>1, <2>2, <2>4, AddNonceSeesMore
  <2> QED
    BY Zenon, <2>3, <2>5
<1>6. Nat \subseteq K
  <2> HIDE DEF K
  <2> QED BY Zenon, <1>4, <1>5, NatSetInduction
<1>7. P(Len(ns))
  BY <1>3, <1>6
<1> QED
  BY Zenon, <1>1, <1>2, <1>7

\* The loop over the contracts leaves the nonces alone and does not undo an
\* error.
LEMMA MoveLoop ==
  ASSUME NEW s, NEW t, NEW cs, cs \in Seq(Range(cs)), IsTrees(t),
         NEW r, r = MoveRun(t, cs)
  PROVE  IsTrees(r) /\ r.nonces = t.nonces /\ (r.ok => t.ok)
<1>1. PICK f : /\ f[0] = t /\ f[Len(cs)] = r
               /\ \A n \in 1..Len(cs) : f[n] = MoveContract(f[n - 1], cs[n])
  BY MoveTrace
<1>2. /\ Len(cs) \in Nat /\ f[0] = t
      /\ \A n \in 1..Len(cs) : f[n] = MoveContract(f[n - 1], cs[n])
  BY <1>1
<1> DEFINE P(m) == IsTrees(f[m]) /\ f[m].nonces = t.nonces /\ (f[m].ok => t.ok)
           K == {m \in Nat : m <= Len(cs) => P(m)}
<1>3. 0 \in K
  BY Zenon, <1>2
<1>4. ASSUME NEW m \in Nat, m \in K PROVE m + 1 \in K
  <2> SUFFICES ASSUME m + 1 <= Len(cs) PROVE P(m + 1)
    OBVIOUS
  <2>1. P(m) /\ f[m + 1] = MoveContract(f[m], cs[m + 1])
    BY <1>2, <1>4
  <2> QED
    BY <2>1, MoveContractFields
<1>5. Nat \subseteq K
  <2> HIDE DEF K
  <2> QED BY Zenon, <1>3, <1>4, NatSetInduction
<1> QED
  BY <1>1, <1>2, <1>5

\* A transaction that applies records its nonces, which are new; one that
\* does not leaves the trees as they were.
LEMMA ApplyTxFields ==
  ASSUME NEW s, NEW t, NEW tx, IsTrees(t), IsTx(tx),
         NEW r, r = ApplyTx(s, t, tx)
  PROVE  /\ IsTrees(r)
         /\ r.ok => /\ t.ok /\ s.initial # ZeroID
                    /\ r = MoveRun(NonceRun(s, t, tx.nonces), tx.contracts)
                    /\ r.nonces = t.nonces \cup {NonceCommitment(n) : n \in Range(tx.nonces)}
                    /\ \A n \in Range(tx.nonces) : NonceCommitment(n) \notin t.nonces
         /\ ~r.ok => r.contracts = t.contracts /\ r.nonces = t.nonces
<1>1. PICK nonced : nonced = NonceRun(s, t, tx.nonces)
  BY Zenon
<1>2. PICK moved : moved = MoveRun(nonced, tx.contracts)
  BY Zenon
<1>3. /\ IsTrees(nonced)
      /\ nonced.nonces = t.nonces \cup {NonceCommitment(n) : n \in Range(tx.nonces)}
      /\ nonced.ok => /\ t.ok
                      /\ \A n \in Range(tx.nonces) : NonceCommitment(n) \notin t.nonces
  BY <1>1, NonceLoop DEF IsTx
<1>4. IsTrees(moved) /\ moved.nonces = nonced.nonces /\ (moved.ok => nonced.ok)
  BY Zenon, <1>2, <1>3, MoveLoop DEF IsTx
<1>5. r = IF s.initial # ZeroID /\ moved.ok THEN moved ELSE [t EXCEPT !.ok = FALSE]
  BY Zenon, <1>1, <1>2, ApplyTxLoops
<1>6. CASE s.initial # ZeroID /\ moved.ok
  <2>1. r = moved
    BY Zenon, <1>5, <1>6
  <2> QED
    BY Zenon, <1>1, <1>2, <1>3, <1>4, <1>6, <2>1
<1>7. CASE ~(s.initial # ZeroID /\ moved.ok)
  <2>1. r = [t EXCEPT !.ok = FALSE]
    BY Zenon, <1>5, <1>7
  <2>2. r = [ok |-> FALSE, contracts |-> t.contracts, nonces |-> t.nonces]
    BY Zenon, <2>1 DEF IsTrees
  <2> QED
    BY <2>2 DEF IsTrees
<1> QED BY Zenon, <1>6, <1>7

\* A transaction that applies does the same with a longer chain to refer to.
LEMMA ApplyTxSeesMore ==
  ASSUME NEW s, NEW s2, NEW t, NEW tx, IsTrees(t), IsTx(tx), SeesMore(s, s2),
         ApplyTx(s, t, tx).ok
  PROVE  ApplyTx(s2, t, tx) = ApplyTx(s, t, tx)
<1>1. PICK nonced : nonced = NonceRun(s, t, tx.nonces)
  BY Zenon
<1>2. PICK moved : moved = MoveRun(nonced, tx.contracts)
  BY Zenon
<1>3. s.initial # ZeroID /\ ApplyTx(s, t, tx) = moved
  BY <1>1, <1>2, ApplyTxFields
<1>4. IsTrees(nonced)
  BY Zenon, <1>1, NonceLoop DEF IsTx
<1>5. moved.ok /\ nonced.ok
  BY Zenon, <1>2, <1>3, <1>4, MoveLoop DEF IsTx
<1>6. NonceRun(s2, t, tx.nonces) = nonced
  BY <1>1, <1>5, NonceLoopSeesMore DEF IsTx
<1>7. MoveRun(nonced, tx.contracts) = moved
  BY Zenon, <1>2
<1>8. s2.initial # ZeroID
  BY Zenon, <1>3 DEF SeesMore
<1> QED
  BY Zenon, <1>3, <1>5, <1>6, <1>7, <1>8, ApplyTxLoops

-----------------------------------------------------------------------------
\* ApplyBlockHeader succeeds when exactly an empty state is given an initial
\* block, and sets these fields.
LEMMA HeaderApplied ==
  ASSUME NEW s, IsState(s), NEW b, s.initial = ZeroID <=> b.height = 1
  PROVE  ApplyBlockHeader(s, b) =
           [ok   |-> TRUE,
            snap |-> State(s.contracts, s.nonces, b,
                           IF s.initial = ZeroID THEN BlockID(b) ELSE s.initial,
                           Append(s.refs, BlockID(b)))]
<1>1. ((s.initial = ZeroID) <=> (b.height = 1)) = TRUE
  BY Zenon
<1>2. PICK i : i = IF s.initial = ZeroID THEN BlockID(b) ELSE s.initial
  BY Zenon
<1>3. PICK r : r = Append(s.refs, BlockID(b))
  BY Zenon
<1>4. [s EXCEPT !.header = b, !.initial = i, !.refs = r]
        = State(s.contracts, s.nonces, b, i, r)
  <2>1. PICK s1 : s1 = [s EXCEPT !.header = b]
    BY Zenon
  <2>2. PICK s2 : s2 = [s1 EXCEPT !.initial = i]
    BY Zenon
  <2>3. s1 = State(s.contracts, s.nonces, b, s.initial, s.refs)
    BY Zenon, <2>1 DEF IsState, State
  <2>4. s2 = State(s.contracts, s.nonces, b, i, s.refs)
    BY Zenon, <2>2, <2>3 DEF State
  <2>5. [s2 EXCEPT !.refs = r] = State(s.contracts, s.nonces, b, i, r)
    BY <2>4 DEF State
  <2> QED
    BY Zenon, <2>1, <2>2, <2>5
<1>5. ApplyBlockHeader(s, b) =
        [ok |-> TRUE, snap |-> [s EXCEPT !.header = b, !.initial = i, !.refs = r]]
  BY Zenon, <1>1, <1>2, <1>3 DEF ApplyBlockHeader
<1> QED
  BY Zenon, <1>2, <1>3, <1>4, <1>5

\* Applying a block, when its header fits and its transactions apply.
LEMMA BlockApplied ==
  ASSUME NEW s, IsState(s), NEW b, s.initial = ZeroID <=> b.height = 1,
         NEW p, p = PruneNonces(s, b.timestampMS),
         NEW i, i = IF s.initial = ZeroID THEN BlockID(b) ELSE s.initial,
         NEW q, q = State(p.contracts, p.nonces, b, i, Append(s.refs, BlockID(b))),
         NEW t, IsTrees(t), t.ok, TxRun(q, TreesOf(p), b.txs) = t
  PROVE  ApplyBlock(s, b) =
           [ok   |-> TRUE,
            snap |-> State(t.contracts, t.nonces, b, i, Append(s.refs, BlockID(b)))]
<1>1. PICK r : r = Append(s.refs, BlockID(b))
  BY Zenon
<1>2. PICK x : x = {nc \in s.nonces : ~(b.timestampMS > nc.expMS)}
  BY Zenon
<1>3. p = State(s.contracts, x, s.header, s.initial, s.refs)
  <2>1. p = [s EXCEPT !.nonces = x]
    BY Zenon, <1>2 DEF PruneNonces
  <2> QED
    BY Zenon, <2>1 DEF IsState, State
<1>4. /\ IsState(p) /\ p.initial = s.initial /\ p.refs = s.refs
      /\ p.contracts = s.contracts
  BY <1>3 DEF IsState, State
<1>5. q.contracts = p.contracts /\ q.nonces = p.nonces
  BY Zenon DEF State
<1>6. ApplyBlockHeader(p, b) = [ok |-> TRUE, snap |-> q]
  BY ZenonT(60), <1>4, HeaderApplied
<1>7. ApplyTxs(q, b.txs) = t
  <2>1. TreesOf(q) = TreesOf(p)
    BY Zenon, <1>5 DEF TreesOf
  <2> QED
    BY Zenon, <2>1, ApplyTxsLoop
<1>8. [q EXCEPT !.contracts = t.contracts, !.nonces = t.nonces]
        = State(t.contracts, t.nonces, b, i, r)
  <2>1. PICK q1 : q1 = [q EXCEPT !.contracts = t.contracts]
    BY Zenon
  <2>2. q1 = State(t.contracts, p.nonces, b, i, r)
    BY Zenon, <1>1, <2>1 DEF State
  <2>3. [q1 EXCEPT !.nonces = t.nonces] = State(t.contracts, t.nonces, b, i, r)
    BY <2>2 DEF State
  <2> QED
    BY Zenon, <2>1, <2>3
<1>9. ApplyBlock(s, b) =
        [ok   |-> TRUE /\ t.ok,
         snap |-> [q EXCEPT !.contracts = t.contracts, !.nonces = t.nonces]]
  <2>1. ApplyBlockHeader(p, b).ok = TRUE /\ ApplyBlockHeader(p, b).snap = q
    BY <1>6
  <2> QED
    BY Zenon, <1>7, <2>1 DEF ApplyBlock
<1>10. (TRUE /\ t.ok) = TRUE
  BY Zenon
<1> QED
  BY Zenon, <1>1, <1>8, <1>9, <1>10

-----------------------------------------------------------------------------
(***************************************************************************)
(* What GenerateBlock makes.                                               *)
(***************************************************************************)
\* Picking so far: transactions that are in time, what they do to the trees
\* of p, on a chain q that has p's blocks too, and the runlimit they spend.
PickInv(P, p, timestampMS, q, acc) ==
  /\ IsTrees(acc.trees) /\ acc.trees.ok
  /\ acc.txs \in Seq(P)
  /\ \A tx \in Range(acc.txs) : CheckTransactionTime(tx, timestampMS)
  /\ acc.runlimit \in Nat
  /\ TxRun(q, TreesOf(p), acc.txs) = acc.trees
  /\ \A n \in Nat : n >= acc.runlimit =>
       SpendRun([ok |-> TRUE, rest |-> n], acc.txs) =
         [ok |-> TRUE, rest |-> n - acc.runlimit]

\* PickTxs is a loop over the pending transactions.
LEMMA PickTxsLoop ==
  ASSUME NEW c, NEW txs,
         NEW none, none = [trees |-> TreesOf(c.snap), txs |-> <<>>, runlimit |-> 0]
  PROVE  PickTxs(c.snap, c.timestampMS, txs) = PickRun(c, none, txs)
<1>1. PICK loop : loop = <<"picks", c>>
  BY Zenon
<1>2. \A acc, e : Turn(loop, acc, e) = PickNext(c, acc, e)
  BY Zenon, <1>1, Turns
<1>3. \A f : f = [n \in 0..Len(txs) |-> IF n = 0 THEN none ELSE PickNext(c, f[n - 1], txs[n])]
          <=> f = [n \in 0..Len(txs) |-> IF n = 0 THEN none ELSE Turn(loop, f[n - 1], txs[n])]
  BY <1>2
<1>4. (CHOOSE f : f = [n \in 0..Len(txs) |-> IF n = 0 THEN none ELSE PickNext(c, f[n - 1], txs[n])])[Len(txs)]
        = Run(loop, none, txs)
  BY ZenonT(60), <1>3 DEF Run
<1> DEFINE Loop(z) == (CHOOSE f : f = [n \in 0..Len(txs) |-> IF n = 0 THEN z ELSE PickNext(c, f[n - 1], txs[n])])[Len(txs)]
<1>5. PickTxs(c.snap, c.timestampMS, txs) = Run(loop, none, txs)
  <2>1. PickTxs(c.snap, c.timestampMS, txs) = Loop([trees |-> TreesOf(c.snap), txs |-> <<>>, runlimit |-> 0])
    BY Zenon DEF PickTxs, FoldLeft, PickNext
  <2>2. Loop(none) = Run(loop, none, txs)
    BY Zenon, <1>4
  <2> HIDE DEF Loop
  <2> QED
    BY Zenon, <2>1, <2>2
<1> QED
  BY Zenon, <1>1, <1>5 DEF PickRun

\* BlockOnly is a test of the versions and a loop that charges run limits.
LEMMA BlockOnlyLoop ==
  ASSUME NEW b, NEW all, all = [ok |-> TRUE, rest |-> b.runlimit]
  PROVE  BlockOnly(b) <=>
           /\ b.version = 3 => \A i \in DOMAIN b.txs : b.txs[i].version = 3
           /\ SpendRun(all, b.txs).ok
<1>1. PICK loop : loop = <<"spends">>
  BY Zenon
<1>2. \A acc, e : Turn(loop, acc, e) = SpendNext(acc, e)
  BY Zenon, <1>1, Turns
<1>3. \A f : f = [n \in 0..Len(b.txs) |-> IF n = 0 THEN all ELSE SpendNext(f[n - 1], b.txs[n])]
          <=> f = [n \in 0..Len(b.txs) |-> IF n = 0 THEN all ELSE Turn(loop, f[n - 1], b.txs[n])]
  BY <1>2
<1>4. (CHOOSE f : f = [n \in 0..Len(b.txs) |-> IF n = 0 THEN all ELSE SpendNext(f[n - 1], b.txs[n])])[Len(b.txs)]
        = Run(loop, all, b.txs)
  BY ZenonT(60), <1>3 DEF Run
<1> QED
  BY <1>1, <1>4 DEF BlockOnly, FoldLeft, SpendNext, SpendRun

\* One turn of GenerateBlock's loop.
LEMMA PickKeeps ==
  ASSUME NEW c, NEW q, SeesMore(c.snap, q), NEW acc,
         NEW P, IsPool(P), NEW tx \in P,
         PickInv(P, c.snap, c.timestampMS, q, acc)
  PROVE  PickInv(P, c.snap, c.timestampMS, q, PickNext(c, acc, tx))
<1>1. PICK p : p = c.snap
  BY Zenon
<1>2. PICK ts : ts = c.timestampMS
  BY Zenon
<1>3. PICK t : t = ApplyTx(p, acc.trees, tx)
  BY Zenon
<1>4. PICK new : new = [trees |-> t, txs |-> Append(acc.txs, tx),
                        runlimit |-> acc.runlimit + tx.runlimit]
  BY Zenon
<1>5. \/ PickNext(c, acc, tx) = acc
      \/ /\ PickNext(c, acc, tx) = new
         /\ t.ok /\ CheckTransactionTime(tx, ts)
  BY Zenon, <1>1, <1>2, <1>3, <1>4 DEF PickNext
<1>6. IsTx(tx)
  BY Zenon DEF IsPool
<1>7. ASSUME t.ok, CheckTransactionTime(tx, ts)
      PROVE  PickInv(P, p, ts, q, new)
  <2>1. PICK trees : trees = acc.trees
    BY Zenon
  <2>2. PICK s : s = acc.txs
    BY Zenon
  <2>3. /\ IsTrees(trees) /\ trees.ok
        /\ s \in Seq(P)
        /\ \A u \in Range(s) : CheckTransactionTime(u, ts)
        /\ acc.runlimit \in Nat
        /\ TxRun(q, TreesOf(p), s) = trees
    BY Zenon, <1>1, <1>2, <2>1, <2>2 DEF PickInv
  <2>4. /\ new.trees = t /\ new.txs = Append(s, tx)
        /\ new.runlimit = acc.runlimit + tx.runlimit
    BY Zenon, <1>4, <2>2
  <2>5. IsTrees(t)
    BY <1>3, <1>6, <2>1, <2>3, ApplyTxFields
  <2>6. new.txs \in Seq(P) /\ Range(new.txs) = Range(s) \cup {tx}
    BY <2>3, <2>4, RangeAppend
  <2>7. new.runlimit \in Nat
    BY <1>6, <2>3, <2>4 DEF IsTx
  <2>8. TxRun(q, TreesOf(p), new.txs) = t
    <3>1. TxRun(q, TreesOf(p), Append(s, tx)) = ApplyNext(q, trees, tx)
      BY <2>3, TxAppend
    <3>2. ApplyTx(q, trees, tx) = t
      BY <1>1, <1>3, <1>6, <1>7, <2>1, <2>3, ApplyTxSeesMore
    <3> QED
      BY Zenon, <2>3, <2>4, <3>1, <3>2 DEF ApplyNext
  <2>9. ASSUME NEW n \in Nat, n >= new.runlimit
        PROVE  SpendRun([ok |-> TRUE, rest |-> n], new.txs) =
                 [ok |-> TRUE, rest |-> n - new.runlimit]
    <3>1. tx.runlimit \in Nat /\ n >= acc.runlimit
      BY <1>6, <2>3, <2>4, <2>9 DEF IsTx
    <3>2. SpendRun([ok |-> TRUE, rest |-> n], s) =
            [ok |-> TRUE, rest |-> n - acc.runlimit]
      BY Zenon, <2>2, <3>1 DEF PickInv
    <3>3. PICK all : all = [ok |-> TRUE, rest |-> n]
      BY Zenon
    <3>4. PICK left : left = n - acc.runlimit
      BY Zenon
    <3>5. PICK r : r = [ok |-> TRUE, rest |-> left]
      BY Zenon
    <3>6. SpendRun(all, Append(s, tx)) = SpendNext(SpendRun(all, s), tx)
      BY <2>3, SpendAppend
    <3>7. SpendNext(r, tx) = [ok |-> TRUE, rest |-> left - tx.runlimit]
      <4>1. r.ok = TRUE /\ r.rest = left /\ left - tx.runlimit >= 0
        BY <2>3, <2>4, <2>9, <3>1, <3>4, <3>5
      <4>2. (r.ok /\ r.rest - tx.runlimit >= 0) = TRUE
        BY Zenon, <4>1
      <4> QED
        BY Zenon, <4>1, <4>2 DEF SpendNext
    <3>8. left - tx.runlimit = n - new.runlimit
      BY <2>3, <2>4, <3>1, <3>4
    <3> QED
      BY Zenon, <2>4, <3>2, <3>3, <3>4, <3>5, <3>6, <3>7, <3>8
  <2> QED
    BY Zenon, <1>7, <2>3, <2>4, <2>5, <2>6, <2>7, <2>8, <2>9 DEF PickInv
<1> QED
  BY Zenon, <1>1, <1>2, <1>5, <1>7

\* What GenerateBlock's loop picks.
LEMMA PickLoop ==
  ASSUME NEW c, NEW q, SeesMore(c.snap, q), NEW P, IsPool(P),
         NEW txs \in Seq(P)
  PROVE  PickInv(P, c.snap, c.timestampMS, q, PickTxs(c.snap, c.timestampMS, txs))
<1> DEFINE Inv(acc) == PickInv(P, c.snap, c.timestampMS, q, acc)
<1>1. PICK none : none = [trees |-> TreesOf(c.snap), txs |-> <<>>, runlimit |-> 0]
  BY Zenon
<1>2. Len(txs) \in Nat
  OBVIOUS
<1>3. \A n \in 1..Len(txs) : txs[n] \in P
  OBVIOUS
<1>4. PICK f : /\ f[0] = none /\ f[Len(txs)] = PickRun(c, none, txs)
               /\ \A n \in 1..Len(txs) : f[n] = PickNext(c, f[n - 1], txs[n])
  BY PickTrace
<1>5. f[0] = none /\ \A n \in 1..Len(txs) : f[n] = PickNext(c, f[n - 1], txs[n])
  BY Zenon, <1>4
<1>6. Inv(none)
  <2>1. /\ none.trees = TreesOf(c.snap) /\ none.txs = <<>> /\ none.runlimit = 0
    BY Zenon, <1>1
  <2>2. IsTrees(TreesOf(c.snap)) /\ TreesOf(c.snap).ok
    BY Zenon DEF IsTrees, TreesOf
  <2>3. <<>> \in Seq(P) /\ Range(<<>>) = {}
    BY DEF Range
  <2>4. TxRun(q, TreesOf(c.snap), <<>>) = TreesOf(c.snap)
    BY Zenon, RunEmpty DEF TxRun
  <2>5. ASSUME NEW n \in Nat
        PROVE  SpendRun([ok |-> TRUE, rest |-> n], <<>>) =
                 [ok |-> TRUE, rest |-> n - 0]
    <3>1. PICK all : all = [ok |-> TRUE, rest |-> n]
      BY Zenon
    <3>2. SpendRun(all, <<>>) = all
      BY Zenon, RunEmpty DEF SpendRun
    <3> QED
      BY <3>1, <3>2
  <2>6. ASSUME NEW n \in Nat
        PROVE  SpendRun([ok |-> TRUE, rest |-> n], none.txs) =
                 [ok |-> TRUE, rest |-> n - none.runlimit]
    BY Zenon, <2>1, <2>5
  <2>7. /\ none.txs \in Seq(P) /\ Range(none.txs) = {}
        /\ none.runlimit \in Nat
        /\ TxRun(q, TreesOf(c.snap), none.txs) = none.trees
    BY <2>1, <2>3, <2>4
  <2> QED
    BY Zenon, <2>1, <2>2, <2>6, <2>7 DEF PickInv
<1> HIDE DEF Inv
<1> DEFINE K == {m \in Nat : m <= Len(txs) => Inv(f[m])}
<1>7. 0 \in K
  BY Zenon, <1>5, <1>6
<1>8. ASSUME NEW m \in Nat, m \in K PROVE m + 1 \in K
  <2> SUFFICES ASSUME m + 1 <= Len(txs) PROVE Inv(f[m + 1])
    OBVIOUS
  <2>1. Inv(f[m]) /\ f[m + 1] = PickNext(c, f[m], txs[m + 1]) /\ txs[m + 1] \in P
    BY <1>2, <1>3, <1>5, <1>8
  <2> QED
    BY Zenon, <2>1, PickKeeps DEF Inv
<1>9. Nat \subseteq K
  <2> HIDE DEF K
  <2> QED BY Zenon, <1>7, <1>8, NatSetInduction
<1>10. Inv(f[Len(txs)])
  BY <1>2, <1>9
<1> QED
  BY Zenon, <1>1, <1>4, <1>10, PickTxsLoop DEF Inv

\* A generator at the state s makes a block that is valid after s, and the
\* state it computes is the one that replaying the block computes.
LEMMA GenerateReplays ==
  ASSUME NEW s, IsState(s), s.initial # ZeroID, NEW S, s.refs \in Seq(S),
         s.header.height \in Nat \ {0}, s.header.timestampMS \in Nat,
         s.header.version = 3, s.header.refsCount \in Nat,
         NEW ts \in Nat, ts > s.header.timestampMS,
         NEW P, IsPool(P), NEW txs \in Seq(P),
         NEW m, m = GenerateBlock(s, s.header, ts, txs)
  PROVE  /\ Replays(s, m.block, m.snap) /\ RightTxs(P, m.block)
         /\ m.snap = State(m.block.contractsRoot, m.block.noncesRoot, m.block,
                           s.initial, Append(s.refs, BlockID(m.block)))
<1>2. PICK p : p = PruneNonces(s, ts)
  BY Zenon
<1>3. PICK k : k = PickTxs(p, ts, txs)
  BY Zenon
<1>4. PICK b : b = m.block
  BY Zenon
<1>5. PICK prev : prev = s.header
  BY Zenon
<1>6. /\ b.version = 3 /\ b.height = prev.height + 1 /\ b.prev = BlockID(prev)
      /\ b.timestampMS = ts
      /\ b.refsCount = IF prev.refsCount < MaxBlockWindow
                       THEN prev.refsCount + 1 ELSE MaxBlockWindow
      /\ b.runlimit = k.runlimit /\ b.txs = k.txs
      /\ b.contractsRoot = k.trees.contracts /\ b.noncesRoot = k.trees.nonces
      /\ m.snap = ApplyBlockHeader([p EXCEPT !.contracts = k.trees.contracts,
                                             !.nonces = k.trees.nonces], b).snap
  BY Zenon, <1>2, <1>3, <1>4, <1>5 DEF GenerateBlock
<1>7. PICK r : r = Append(s.refs, BlockID(b))
  BY Zenon
<1>8. PICK q : q = State(p.contracts, p.nonces, b, s.initial, r)
  BY Zenon
<1>9. PICK x : p = State(s.contracts, x, prev, s.initial, s.refs)
  <2>1. PICK y : y = {nc \in s.nonces : ~(ts > nc.expMS)}
    BY Zenon
  <2>2. p = [s EXCEPT !.nonces = y]
    BY Zenon, <1>2, <2>1 DEF PruneNonces
  <2> QED
    BY Zenon, <1>5, <2>2 DEF IsState, State
<1>10. p.initial = s.initial /\ p.refs = s.refs
  BY Zenon, <1>9 DEF State
<1>11. SeesMore(p, q)
  <2>1. q.initial = s.initial /\ q.refs = r
    BY Zenon, <1>8 DEF State
  <2>2. PICK id : id = BlockID(b)
    BY Zenon
  <2>3. Range(s.refs) \subseteq Range(r)
    <3>1. s.refs \in Seq(S \cup {id}) /\ id \in S \cup {id}
      OBVIOUS
    <3>2. Range(Append(s.refs, id)) = Range(s.refs) \cup {id}
      BY <3>1, RangeAppend
    <3> QED
      BY Zenon, <1>7, <2>2, <3>2
  <2> QED
    BY Zenon, <1>10, <2>1, <2>3 DEF SeesMore
<1>12. PickInv(P, p, ts, q, k)
  <2>1. PICK c : c.snap = p /\ c.timestampMS = ts
    <3>1. [snap |-> p, timestampMS |-> ts].snap = p
      BY Zenon
    <3>2. [snap |-> p, timestampMS |-> ts].timestampMS = ts
      BY Zenon
    <3> QED BY Zenon, <3>1, <3>2
  <2> QED
    BY Zenon, <1>3, <1>11, <2>1, PickLoop
<1>13. PICK t : t = k.trees
  BY Zenon
<1>14. /\ IsTrees(t) /\ t.ok /\ TxRun(q, TreesOf(p), b.txs) = t
       /\ RightTxs(P, b)
  BY Zenon, <1>6, <1>12, <1>13 DEF PickInv, RightTxs
<1>15. ts \in Nat /\ ts > prev.timestampMS /\ b.height > 1
  <2>1. prev.height \in Nat \ {0} /\ ts > prev.timestampMS
    BY Zenon, <1>5
  <2>2. b.height = prev.height + 1
    BY Zenon, <1>6
  <2> QED
    BY <2>1, <2>2
<1>16. b.refsCount \in Nat /\ b.refsCount <= prev.refsCount + 1
  BY <1>5, <1>6, GeneratorAssumption
<1>17. BlockOnly(b)
  <2>1. \A i \in DOMAIN b.txs : b.txs[i].version = 3
    BY <1>14 DEF RightTxs, IsPool
  <2>2. k.runlimit \in Nat /\ k.runlimit >= k.runlimit
    BY <1>12 DEF PickInv
  <2>3. SpendRun([ok |-> TRUE, rest |-> b.runlimit], b.txs) =
          [ok |-> TRUE, rest |-> k.runlimit - k.runlimit]
    BY Zenon, <1>6, <1>12, <2>2 DEF PickInv
  <2>4. SpendRun([ok |-> TRUE, rest |-> b.runlimit], b.txs).ok
    BY <2>3
  <2> QED
    BY Zenon, <2>1, <2>4, BlockOnlyLoop
<1>18. ValidateBlock(b, prev)
  <2>1. prev # NilHeader
    BY <1>5 DEF NilHeader
  <2>2. BlockPrev(b, prev)
    BY <1>5, <1>6, <1>15, <1>16 DEF BlockPrev
  <2> QED
    BY Zenon, <1>17, <2>1, <2>2 DEF ValidateBlock
<1>19. PICK s2 : s2 = State(t.contracts, t.nonces, b, s.initial, r)
  BY Zenon
<1>20. s.initial = ZeroID <=> b.height = 1
  BY <1>15
<1>21. ApplyBlock(s, b) = [ok |-> TRUE, snap |-> s2]
  <2>1. PICK i : i = s.initial /\ i = IF s.initial = ZeroID THEN BlockID(b) ELSE s.initial
    BY Zenon
  <2>2. p = PruneNonces(s, b.timestampMS)
    BY Zenon, <1>2, <1>6
  <2>3. q = State(p.contracts, p.nonces, b, i, Append(s.refs, BlockID(b)))
    BY Zenon, <1>7, <1>8, <2>1
  <2>4. ApplyBlock(s, b) = [ok |-> TRUE, snap |-> State(t.contracts, t.nonces, b, i,
                                                   Append(s.refs, BlockID(b)))]
    <3>1. i = IF s.initial = ZeroID THEN BlockID(b) ELSE s.initial
      BY Zenon, <2>1
    <3>2. IsTrees(t) /\ t.ok /\ TxRun(q, TreesOf(p), b.txs) = t
      BY Zenon, <1>14
    <3> QED
      BY <1>20, <2>2, <2>3, <3>1, <3>2, BlockApplied
  <2> QED
    BY Zenon, <1>7, <1>19, <2>1, <2>4
<1>22. m.snap = s2
  <2>1. PICK p1 : p1 = [p EXCEPT !.contracts = t.contracts]
    BY Zenon
  <2>2. PICK p2 : p2 = [p1 EXCEPT !.nonces = t.nonces]
    BY Zenon
  <2>3. p1 = State(t.contracts, x, prev, s.initial, s.refs)
    BY Zenon, <1>9, <2>1 DEF State
  <2>4. p2 = State(t.contracts, t.nonces, prev, s.initial, s.refs)
    BY Zenon, <2>2, <2>3 DEF State
  <2>5. /\ IsState(p2) /\ p2.initial = s.initial /\ p2.refs = s.refs
        /\ p2.contracts = t.contracts /\ p2.nonces = t.nonces
    BY Zenon, <2>4 DEF IsState, State
  <2>6. ApplyBlockHeader(p2, b) =
          [ok |-> TRUE, snap |-> State(t.contracts, t.nonces, b,
             IF s.initial = ZeroID THEN BlockID(b) ELSE s.initial, r)]
    BY Zenon, <1>7, <1>20, <2>5, HeaderApplied
  <2>7. ApplyBlockHeader(p2, b).snap = s2
    BY <1>19, <2>6
  <2> QED
    BY Zenon, <1>6, <1>13, <2>1, <2>2, <2>7
<1>23. Replays(s, b, s2)
  BY Zenon, <1>5, <1>6, <1>16, <1>18, <1>21 DEF Replays
<1> QED
  BY <1>4, <1>6, <1>7, <1>13, <1>14, <1>19, <1>22, <1>23

\* The block that starts a chain is valid and brings the empty state to the
\* one it commits to.
LEMMA InitialReplays ==
  ASSUME NEW ts, NEW P, NEW b, b = NewInitialBlock(ts)
  PROVE  /\ Replays(Empty, b, State({}, {}, b, BlockID(b),
                                    Append(Empty.refs, BlockID(b))))
         /\ RightTxs(P, b)
<1>1. /\ b.version = 3 /\ b.height = 1 /\ b.refsCount = 0 /\ b.runlimit = 0
      /\ b.txs = <<>>
  BY Zenon DEF NewInitialBlock
<1>2. RightTxs(P, b)
  BY <1>1 DEF RightTxs, Range
<1>3. PICK e : e = Empty
  BY Zenon
<1>4. ValidateBlock(b, e.header)
  <2>1. PICK all : all = [ok |-> TRUE, rest |-> b.runlimit]
    BY Zenon
  <2>2. SpendRun(all, b.txs) = all
    BY Zenon, <1>1, RunEmpty DEF SpendRun
  <2>3. all.ok /\ \A i \in DOMAIN b.txs : b.txs[i].version = 3
    BY <1>1, <2>1
  <2>4. BlockOnly(b)
    BY Zenon, <2>1, <2>2, <2>3, BlockOnlyLoop
  <2> QED
    BY <1>1, <2>4 DEF ValidateBlock
<1>5. /\ IsState(e) /\ e.initial = ZeroID
      /\ e.contracts = {} /\ e.nonces = {}
  BY Zenon, <1>3 DEF IsState, State, Empty
<1>6. PICK p : p = PruneNonces(e, b.timestampMS)
  BY Zenon
<1>7. p.contracts = {} /\ p.nonces = {}
  <2>1. PICK x : x = {nc \in e.nonces : ~(b.timestampMS > nc.expMS)}
    BY Zenon
  <2>2. x = {}
    BY Zenon, <1>5, <2>1
  <2>3. p = [e EXCEPT !.nonces = x]
    BY Zenon, <1>6, <2>1 DEF PruneNonces
  <2> QED
    BY Zenon, <1>5, <2>2, <2>3 DEF IsState, State
<1>8. PICK i : i = BlockID(b)
  BY Zenon
<1>9. PICK q : q = State(p.contracts, p.nonces, b, i, Append(e.refs, BlockID(b)))
  BY Zenon
<1>10. PICK t : t = TreesOf(p)
  BY Zenon
<1>11. t.contracts = {} /\ t.nonces = {}
  BY Zenon, <1>7, <1>10 DEF TreesOf
<1>12. ApplyBlock(e, b) = [ok |-> TRUE, snap |-> State(t.contracts, t.nonces, b, i,
                                                   Append(e.refs, BlockID(b)))]
  <2>1. e.initial = ZeroID <=> b.height = 1
    BY Zenon, <1>1, <1>5
  <2>2. i = IF e.initial = ZeroID THEN BlockID(b) ELSE e.initial
    BY Zenon, <1>5, <1>8
  <2>3. IsTrees(t) /\ t.ok
    BY Zenon, <1>10 DEF IsTrees, TreesOf
  <2>4. TxRun(q, TreesOf(p), b.txs) = t
    BY Zenon, <1>1, <1>10, RunEmpty DEF TxRun
  <2>5. IsTrees(t) /\ t.ok /\ TxRun(q, TreesOf(p), b.txs) = t
    BY Zenon, <2>3, <2>4
  <2>6. IsState(e)
    BY Zenon, <1>5
  <2> QED
    BY <1>6, <1>9, <2>1, <2>2, <2>5, <2>6, BlockApplied
<1> QED
  BY <1>1, <1>2, <1>3, <1>4, <1>8, <1>11, <1>12 DEF Replays

\* Generated blocks replay, in the form in which the proofs about Chain use
\* it.
THEOREM GeneratorReplays == GeneratedBlocksReplay /\ InitialBlockReplays
<1>1. GeneratedBlocksReplay
  <2> USE DEF GeneratedBlocksReplay
  <2> TAKE s, S, ts, P, txs, m
  <2>1. HAVE /\ IsState(s) /\ s.initial # ZeroID /\ s.refs \in Seq(S)
             /\ s.header.height \in Nat \ {0} /\ s.header.timestampMS \in Nat
             /\ s.header.version = 3 /\ s.header.refsCount \in Nat
             /\ ts \in Nat /\ ts > s.header.timestampMS
             /\ IsPool(P) /\ txs \in Seq(P)
             /\ m = GenerateBlock(s, s.header, ts, txs)
  <2> QED
    BY <2>1, GenerateReplays
<1>2. InitialBlockReplays
  BY Zenon, InitialReplays DEF InitialBlockReplays
<1> QED
  BY Zenon, <1>1, <1>2

-----------------------------------------------------------------------------
(***************************************************************************)
(* Transactions that exclude each other are not both applied.              *)
(***************************************************************************)
\* The trees C and N at time ts, after the transactions A: contracts come
\* from outputs, what was spent stays spent, and a nonce is remembered until
\* it has expired.
Applied(A, C, N, ts) ==
  /\ \A c \in C : \E Z \in A : c \in Outputs(Z)
  /\ \A Y \in A : \A c \in Inputs(Y) \ Outputs(Y) :
       c \notin C /\ \E Z \in A : c \in Outputs(Z)
  /\ \A Y \in A : \A n \in Range(Y.nonces) :
       NonceCommitment(n) \in N \/ ts > n.expMS

\* None of txs is one of A, and none is there twice.
FirstTime(A, txs) ==
  /\ \A i \in 1..Len(txs) : txs[i] \notin A
  /\ \A i, j \in 1..Len(txs) : txs[i] = txs[j] => i = j

\* The loop over the inputs and outputs of a transaction: a contract that is
\* spent and not made was there before, and is gone.
LEMMA MoveLoopSpends ==
  ASSUME NEW t, NEW tx, IsTx(tx), IsTrees(t),
         NEW r, r = MoveRun(t, tx.contracts), r.ok
  PROVE  /\ \A c \in r.contracts : c \in t.contracts \/ c \in Outputs(tx)
         /\ \A c \in Inputs(tx) \ Outputs(tx) : c \in t.contracts /\ c \notin r.contracts
<1>1. PICK cs : cs = tx.contracts
  BY Zenon
<1>2. cs \in Seq(Range(cs)) /\ Len(cs) \in Nat /\ DOMAIN cs = 1..Len(cs)
  BY <1>1 DEF IsTx
<1>3. PICK f : /\ f[0] = t /\ f[Len(cs)] = r
               /\ \A n \in 1..Len(cs) : f[n] = MoveContract(f[n - 1], cs[n])
  BY <1>1, <1>2, MoveTrace
<1>4. PICK O : O = Outputs(tx)
  BY Zenon
<1>5. \A i \in 1..Len(cs) : cs[i].type # "input" => cs[i].id \in O
  BY Zenon, <1>1, <1>2, <1>4 DEF Outputs, Range
<1> DEFINE P(m) ==
      /\ IsTrees(f[m])
      /\ \A c \in f[m].contracts : c \in t.contracts \/ c \in O
      /\ f[m].ok =>
           \A i \in 1..m : cs[i].type = "input" /\ cs[i].id \notin O =>
             cs[i].id \in t.contracts /\ cs[i].id \notin f[m].contracts
           K == {m \in Nat : m <= Len(cs) => P(m)}
<1>6. 0 \in K
  BY <1>3
<1>7. ASSUME NEW m \in Nat, m \in K PROVE m + 1 \in K
  <2> SUFFICES ASSUME m + 1 <= Len(cs) PROVE P(m + 1)
    OBVIOUS
  <2>1. P(m)
    BY <1>2, <1>7
  <2>2. f[m + 1] = MoveContract(f[m], cs[m + 1]) /\ m + 1 \in 1..Len(cs)
    BY <1>2, <1>3
  <2>3. PICK c : c = cs[m + 1]
    BY Zenon
  <2>4. /\ IsTrees(f[m + 1])
        /\ f[m + 1].ok => f[m].ok
        /\ c.type = "input" => /\ f[m + 1].contracts = f[m].contracts \ {c.id}
                               /\ f[m + 1].ok => c.id \in f[m].contracts
        /\ c.type # "input" => f[m + 1].contracts = f[m].contracts \cup {c.id}
    BY <2>1, <2>2, <2>3, MoveContractFields
  <2>5. c.type # "input" => c.id \in O
    BY Zenon, <1>5, <2>2, <2>3
  <2>6. \A i \in 1..(m + 1) : i \in 1..m \/ i = m + 1
    OBVIOUS
  <2>7. \A d \in f[m + 1].contracts : d \in t.contracts \/ d \in O
    BY Zenon, <2>1, <2>4, <2>5
  <2>8. ASSUME f[m + 1].ok, NEW i \in 1..(m + 1), cs[i].type = "input",
               cs[i].id \notin O
        PROVE  cs[i].id \in t.contracts /\ cs[i].id \notin f[m + 1].contracts
    <3>1. CASE i \in 1..m
      BY Zenon, <2>1, <2>4, <2>5, <2>8, <3>1
    <3>2. CASE i = m + 1
      BY Zenon, <2>1, <2>3, <2>4, <2>8, <3>2
    <3> QED BY Zenon, <2>6, <3>1, <3>2
  <2> QED
    BY Zenon, <2>4, <2>7, <2>8
<1>8. Nat \subseteq K
  <2> HIDE DEF K
  <2> QED BY Zenon, <1>6, <1>7, NatSetInduction
<1>9. P(Len(cs))
  BY <1>2, <1>8
<1>10. \A c \in Inputs(tx) \ O : \E i \in 1..Len(cs) : cs[i].type = "input" /\ cs[i].id = c
  BY Zenon, <1>1, <1>2 DEF Inputs, Range
<1> QED
  BY <1>3, <1>4, <1>9, <1>10

\* A transaction that applies in time conflicts with none before it.
LEMMA NoConflict ==
  ASSUME NEW P, IsPool(P), NEW A \in SUBSET P, NEW X \in P, NEW C, NEW N,
         NEW ts \in Nat, Applied(A, C, N, ts), CheckTransactionTime(X, ts),
         \A n \in Range(X.nonces) : NonceCommitment(n) \notin N,
         \A c \in Inputs(X) \ Outputs(X) : c \in C,
         NEW Y \in A
  PROVE  ~Conflict(Y, X)
<1> SUFFICES ASSUME Conflict(Y, X) PROVE FALSE
  BY Zenon
<1>1. CASE \E n \in Range(Y.nonces), m \in Range(X.nonces) :
             /\ NonceCommitment(n) = NonceCommitment(m)
             /\ Covered(Y, n) /\ Covered(X, m)
  <2>1. PICK n \in Range(Y.nonces), m \in Range(X.nonces) :
             /\ NonceCommitment(n) = NonceCommitment(m)
             /\ Covered(X, m)
    BY Zenon, <1>1
  <2>2. n.expMS = m.expMS /\ m.expMS \in Int
    BY Zenon, <2>1 DEF NonceCommitment, IsPool, IsTx
  <2>3. NonceCommitment(n) \notin N
    BY Zenon, <2>1
  <2>4. ts > m.expMS
    BY Zenon, <2>2, <2>3 DEF Applied
  <2>5. PICK r \in Range(X.timeranges) : 0 < r.maxMS /\ r.maxMS <= m.expMS
    BY Zenon, <2>1 DEF Covered
  <2>6. r.maxMS \in Int
    BY Zenon DEF IsPool, IsTx
  <2>7. ~(r.maxMS > 0 /\ ts > r.maxMS)
    BY Zenon DEF CheckTransactionTime, Range
  <2> QED
    BY <2>2, <2>4, <2>5, <2>6, <2>7
<1>2. CASE \E c \in Inputs(Y) \ Outputs(Y) : c \in Inputs(X) \ Outputs(X)
  BY Zenon, <1>2 DEF Applied
<1> QED
  BY Zenon, <1>1, <1>2 DEF Conflict


\* A transaction that applies in time was not applied before.
LEMMA TxOnce ==
  ASSUME NEW P, IsPool(P), Anchored(P), NEW A \in SUBSET P, NEW X \in P,
         NEW s, NEW t, IsTrees(t), NEW ts \in Nat,
         Applied(A, t.contracts, t.nonces, ts), CheckTransactionTime(X, ts),
         NEW r, r = ApplyTx(s, t, X), r.ok
  PROVE  X \notin A /\ Applied(A \cup {X}, r.contracts, r.nonces, ts)
<1>1. IsTx(X)
  BY Zenon DEF IsPool
<1>2. PICK nonced : nonced = NonceRun(s, t, X.nonces)
  BY Zenon
<1>3. IsTrees(nonced) /\ nonced.contracts = t.contracts
  BY <1>1, <1>2, NonceLoop DEF IsTx
<1>4. /\ r = MoveRun(nonced, X.contracts)
      /\ r.nonces = t.nonces \cup {NonceCommitment(n) : n \in Range(X.nonces)}
      /\ \A n \in Range(X.nonces) : NonceCommitment(n) \notin t.nonces
  BY <1>1, <1>2, ApplyTxFields
<1>5. /\ \A c \in r.contracts : c \in t.contracts \/ c \in Outputs(X)
      /\ \A c \in Inputs(X) \ Outputs(X) : c \in t.contracts /\ c \notin r.contracts
  BY Zenon, <1>1, <1>3, <1>4, MoveLoopSpends
<1>6. \A Y \in A : ~Conflict(Y, X)
  BY Zenon, <1>4, <1>5, NoConflict
<1>7. X \notin A
  BY Zenon, <1>6 DEF Anchored
<1>8. \A Y \in A : Outputs(Y) \cap Outputs(X) = {}
  BY Zenon, <1>6 DEF Anchored
<1>9. \A c \in r.contracts : \E Z \in A \cup {X} : c \in Outputs(Z)
  BY Zenon, <1>5 DEF Applied
<1>10. ASSUME NEW Y \in A \cup {X}, NEW c \in Inputs(Y) \ Outputs(Y)
       PROVE  c \notin r.contracts /\ \E Z \in A \cup {X} : c \in Outputs(Z)
  <2>1. CASE Y = X
    BY Zenon, <1>5, <1>10, <2>1 DEF Applied
  <2>2. CASE Y \in A
    <3>1. c \notin t.contracts /\ \E Z \in A : c \in Outputs(Z)
      BY Zenon, <1>10, <2>2 DEF Applied
    <3>2. c \notin Outputs(X)
      BY Zenon, <1>8, <3>1
    <3> QED
      BY Zenon, <1>5, <3>1, <3>2
  <2> QED BY Zenon, <2>1, <2>2
<1>11. ASSUME NEW Y \in A \cup {X}, NEW n \in Range(Y.nonces)
       PROVE  NonceCommitment(n) \in r.nonces \/ ts > n.expMS
  BY Zenon, <1>4, <1>11 DEF Applied
<1> QED
  BY Zenon, <1>7, <1>9, <1>10, <1>11 DEF Applied

\* The transactions of one block: none was applied before, none twice.
LEMMA TxsOnce ==
  ASSUME NEW P, IsPool(P), Anchored(P), NEW A \in SUBSET P,
         NEW s, NEW t, IsTrees(t), NEW ts \in Nat,
         Applied(A, t.contracts, t.nonces, ts), NEW txs \in Seq(P),
         \A tx \in Range(txs) : CheckTransactionTime(tx, ts),
         NEW r, r = TxRun(s, t, txs), r.ok
  PROVE  /\ Applied(A \cup Range(txs), r.contracts, r.nonces, ts)
         /\ FirstTime(A, txs)
<1>1. PICK f : /\ f[0] = t /\ f[Len(txs)] = r
               /\ \A n \in 1..Len(txs) : f[n] = ApplyNext(s, f[n - 1], txs[n])
  BY TxTrace
<1>2. Len(txs) \in Nat /\ \A n \in 1..Len(txs) : txs[n] \in P
  OBVIOUS
<1> DEFINE B(m) == A \cup {txs[i] : i \in 1..m}
           P1(m) ==
             /\ IsTrees(f[m])
             /\ f[m].ok => /\ Applied(B(m), f[m].contracts, f[m].nonces, ts)
                           /\ \A i \in 1..m : txs[i] \notin A
                           /\ \A i, j \in 1..m : txs[i] = txs[j] => i = j
           K == {m \in Nat : m <= Len(txs) => P1(m)}
<1>3. 0 \in K
  <2>1. B(0) = A
    OBVIOUS
  <2>2. P1(0)
    <3> HIDE DEF B
    <3> QED BY <1>1, <2>1
  <2> HIDE DEF P1
  <2> QED
    BY Zenon, <2>2
<1>4. ASSUME NEW m \in Nat, m \in K PROVE m + 1 \in K
  <2> SUFFICES ASSUME m + 1 <= Len(txs) PROVE P1(m + 1)
    OBVIOUS
  <2>1. P1(m)
    BY <1>2, <1>4
  <2>2. PICK X : X = txs[m + 1]
    BY Zenon
  <2>3. f[m + 1] = ApplyNext(s, f[m], X) /\ m + 1 \in 1..Len(txs)
    BY <1>1, <1>2, <2>2
  <2>4. X \in P /\ CheckTransactionTime(X, ts)
    BY <1>2, <2>2, <2>3 DEF Range
  <2>5. B(m) \in SUBSET P
    BY <1>2
  <2>6. B(m + 1) = B(m) \cup {X}
    BY <2>2
  <2>7. \A i \in 1..(m + 1) : i \in 1..m \/ i = m + 1
    OBVIOUS
  <2>8. CASE ~f[m].ok
    BY Zenon, <2>1, <2>3, <2>8 DEF ApplyNext
  <2>9. CASE f[m].ok
    <3>1. f[m + 1] = ApplyTx(s, f[m], X)
      BY Zenon, <2>3, <2>9 DEF ApplyNext
    <3>2. IsTrees(f[m + 1])
      BY Zenon, <2>1, <2>4, <3>1, ApplyTxFields DEF IsPool
    <3>3. Applied(B(m), f[m].contracts, f[m].nonces, ts)
      BY Zenon, <2>1, <2>9
    <3>4. ASSUME f[m + 1].ok
          PROVE  /\ X \notin B(m)
                 /\ Applied(B(m + 1), f[m + 1].contracts, f[m + 1].nonces, ts)
      <4>1. PICK D : D = B(m)
        BY Zenon
      <4>2. PICK u : u = f[m]
        BY Zenon
      <4>3. PICK v : v = f[m + 1]
        BY Zenon
      <4> HIDE DEF B
      <4>4. /\ D \in SUBSET P /\ IsTrees(u) /\ v.ok
            /\ Applied(D, u.contracts, u.nonces, ts)
            /\ v = ApplyTx(s, u, X)
        BY Zenon, <2>1, <2>5, <3>1, <3>3, <3>4, <4>1, <4>2, <4>3
      <4>5. X \notin D /\ Applied(D \cup {X}, v.contracts, v.nonces, ts)
        BY <2>4, <4>4, TxOnce
      <4> QED
        BY Zenon, <2>6, <4>1, <4>3, <4>5
    <3>5. ASSUME f[m + 1].ok
          PROVE  /\ \A i \in 1..(m + 1) : txs[i] \notin A
                 /\ \A i, j \in 1..(m + 1) : txs[i] = txs[j] => i = j
      BY Zenon, <2>1, <2>2, <2>7, <2>9, <3>4, <3>5
    <3> QED
      BY Zenon, <3>2, <3>4, <3>5
  <2> QED BY Zenon, <2>8, <2>9
<1>5. Nat \subseteq K
  <2> HIDE DEF K
  <2> QED BY Zenon, <1>3, <1>4, NatSetInduction
<1>6. P1(Len(txs))
  <2> HIDE DEF P1
  <2> QED BY <1>2, <1>5
<1>7. B(Len(txs)) = A \cup Range(txs)
  BY DEF Range
<1> HIDE DEF B
<1> QED
  BY Zenon, <1>1, <1>6, <1>7 DEF FirstTime

\* The same of a block that applies, which first forgets expired nonces.
LEMMA BlockOnce ==
  ASSUME NEW P, IsPool(P), Anchored(P), NEW A \in SUBSET P,
         NEW s, IsState(s), NEW ts0 \in Nat,
         Applied(A, s.contracts, s.nonces, ts0),
         NEW b, b.timestampMS \in Nat, ts0 <= b.timestampMS, RightTxs(P, b),
         NEW s2, ApplyBlock(s, b) = [ok |-> TRUE, snap |-> s2]
  PROVE  /\ Applied(A \cup Range(b.txs), s2.contracts, s2.nonces, b.timestampMS)
         /\ FirstTime(A, b.txs)
<1>1. PICK ts \in Nat : ts = b.timestampMS
  BY Zenon
<1>2. PICK p : p = PruneNonces(s, ts)
  BY Zenon
<1>3. PICK x : x = {nc \in s.nonces : ~(ts > nc.expMS)}
  BY Zenon
<1>4. p = State(s.contracts, x, s.header, s.initial, s.refs)
  <2>1. p = [s EXCEPT !.nonces = x]
    BY Zenon, <1>2, <1>3 DEF PruneNonces
  <2> QED
    BY Zenon, <2>1 DEF IsState, State
<1>5. PICK headed : headed = ApplyBlockHeader(p, b)
  BY Zenon
<1>6. PICK q : q = headed.snap
  BY Zenon
<1>7. PICK t : t = ApplyTxs(q, b.txs)
  BY Zenon
<1>8. ApplyBlock(s, b) =
        [ok   |-> headed.ok /\ t.ok,
         snap |-> [q EXCEPT !.contracts = t.contracts, !.nonces = t.nonces]]
  BY Zenon, <1>1, <1>2, <1>5, <1>6, <1>7 DEF ApplyBlock
<1>9. /\ headed.ok /\ t.ok
      /\ s2 = [q EXCEPT !.contracts = t.contracts, !.nonces = t.nonces]
  <2>1. PICK y : y = (headed.ok /\ t.ok)
    BY Zenon
  <2>2. PICK z : z = [q EXCEPT !.contracts = t.contracts, !.nonces = t.nonces]
    BY Zenon
  <2>3. [ok |-> TRUE, snap |-> s2] = [ok |-> y, snap |-> z]
    BY Zenon, <1>8, <2>1, <2>2
  <2>4. y = TRUE /\ s2 = z
    BY Zenon, <2>3
  <2> QED
    BY Zenon, <2>1, <2>2, <2>4
<1>10. PICK i, refs : q = State(s.contracts, x, b, i, refs)
  <2>1. IsState(p) /\ p.contracts = s.contracts /\ p.nonces = x
    BY Zenon, <1>4 DEF State, IsState
  <2>2. headed.ok = ((p.initial = ZeroID) <=> (b.height = 1))
    BY Zenon, <1>5 DEF ApplyBlockHeader
  <2>3. p.initial = ZeroID <=> b.height = 1
    BY Zenon, <1>9, <2>2
  <2>4. headed =
          [ok   |-> TRUE,
           snap |-> State(p.contracts, p.nonces, b,
                          IF p.initial = ZeroID THEN BlockID(b) ELSE p.initial,
                          Append(p.refs, BlockID(b)))]
    BY Zenon, <1>5, <2>1, <2>3, HeaderApplied
  <2> QED
    BY Zenon, <1>6, <2>1, <2>4
<1>11. s2.contracts = t.contracts /\ s2.nonces = t.nonces
  BY Zenon, <1>9, <1>10 DEF State
<1>12. PICK t0 : t0 = TreesOf(q)
  BY Zenon
<1>13. IsTrees(t0) /\ t0.contracts = s.contracts /\ t0.nonces = x
  BY Zenon, <1>10, <1>12 DEF TreesOf, IsTrees, State
<1>14. t = TxRun(q, t0, b.txs)
  BY Zenon, <1>7, <1>12, ApplyTxsLoop
<1>15. Applied(A, t0.contracts, t0.nonces, ts)
  <2>1. ASSUME NEW Y \in A, NEW n \in Range(Y.nonces)
        PROVE  NonceCommitment(n) \in x \/ ts > n.expMS
    <3>1. Y \in P /\ n.expMS \in Int
      BY Zenon DEF IsPool, IsTx
    <3>2. CASE ts0 > n.expMS
      BY <1>1, <3>1, <3>2
    <3>3. CASE NonceCommitment(n) \in s.nonces
      <4>1. NonceCommitment(n).expMS = n.expMS
        BY Zenon DEF NonceCommitment
      <4> QED
        BY Zenon, <1>3, <3>3, <4>1
    <3> QED
      BY Zenon, <3>2, <3>3 DEF Applied
  <2> QED
    BY Zenon, <1>13, <2>1 DEF Applied
<1>16. PICK txs : txs = b.txs
  BY Zenon
<1>17. txs \in Seq(P) /\ \A tx \in Range(txs) : CheckTransactionTime(tx, ts)
  BY Zenon, <1>1, <1>16 DEF RightTxs
<1>18. t = TxRun(q, t0, txs) /\ t.ok /\ IsTrees(t0)
  BY Zenon, <1>9, <1>13, <1>14, <1>16
<1>19. /\ Applied(A \cup Range(txs), t.contracts, t.nonces, ts)
       /\ FirstTime(A, txs)
  BY Zenon, <1>15, <1>17, <1>18, TxsOnce
<1> QED
  BY Zenon, <1>1, <1>11, <1>16, <1>19

\* The blocks bl, of heights 1..n, replay one after the other.
ChainReplays(P, n, bl) ==
  /\ DOMAIN bl = 1..n
  /\ \A h \in 1..n : /\ bl[h].height = h /\ bl[h].timestampMS \in Nat
                     /\ IsState(StateAt(bl, h))
                     /\ Replays(StateAt(bl, h - 1), bl[h], StateAt(bl, h))
                     /\ RightTxs(P, bl[h])

NoneTwice(bl) ==
  \A h, k \in DOMAIN bl :
    \A i \in DOMAIN bl[h].txs, j \in DOMAIN bl[k].txs :
      bl[h].txs[i] = bl[k].txs[j] => h = k /\ i = j

\* A chain of blocks that replay has no transaction twice.
LEMMA ChainOnce ==
  ASSUME NEW P, IsPool(P), Anchored(P), NEW n \in Nat, NEW bl,
         ChainReplays(P, n, bl)
  PROVE  NoneTwice(bl)
<1> DEFINE All(h) == UNION {Range(bl[k].txs) : k \in 1..h}
           St(h) == StateAt(bl, h)
           Ts(h) == IF h = 0 THEN 0 ELSE bl[h].timestampMS
           Once(m) == \A h, k \in 1..m :
             \A i \in 1..Len(bl[h].txs), j \in 1..Len(bl[k].txs) :
               bl[h].txs[i] = bl[k].txs[j] => h = k /\ i = j
           Q(m) == /\ All(m) \subseteq P
                   /\ Applied(All(m), St(m).contracts, St(m).nonces, Ts(m))
                   /\ Once(m)
           K == {m \in Nat : m <= n => Q(m)}
<1> DOMAIN bl = 1..n
  BY Zenon DEF ChainReplays
<1>1. \A h \in 1..n : /\ Len(bl[h].txs) \in Nat
                      /\ DOMAIN bl[h].txs = 1..Len(bl[h].txs)
                      /\ Range(bl[h].txs) = {bl[h].txs[i] : i \in 1..Len(bl[h].txs)}
                      /\ Range(bl[h].txs) \subseteq P
  BY DEF ChainReplays, RightTxs, Range
<1>2. Q(0)
  <2>1. All(0) = {}
    OBVIOUS
  <2>2. St(0).contracts = {}
    BY Zenon DEF StateAt, Empty
  <2> HIDE DEF All, St
  <2> QED
    BY <2>1, <2>2 DEF Applied
<1>3. 0 \in K
  <2> HIDE DEF Q
  <2> QED BY Zenon, <1>2
<1>4. ASSUME NEW m \in Nat, m \in K PROVE m + 1 \in K
  <2>1. SUFFICES ASSUME m + 1 <= n PROVE Q(m + 1)
    <3> HIDE DEF Q
    <3> QED OBVIOUS
  <2>2. Q(m)
    <3> HIDE DEF Q
    <3> QED BY <1>4, <2>1
  <2>3. PICK b : b = bl[m + 1]
    BY Zenon
  <2>4. m + 1 \in 1..n /\ (m # 0 => m \in 1..n)
    BY <2>1
  <2>5. /\ b.height = m + 1 /\ b.timestampMS \in Nat
        /\ RightTxs(P, b) /\ Replays(St(m), b, St(m + 1))
    <3>1. (m + 1) - 1 = m
      OBVIOUS
    <3> QED
      BY Zenon, <2>3, <2>4, <3>1 DEF ChainReplays
  <2>6. IsState(St(m))
    <3>1. CASE m = 0
      BY Zenon, <3>1 DEF StateAt, IsState, State, Empty
    <3>2. CASE m # 0
      BY Zenon, <2>4, <3>2 DEF ChainReplays
    <3> QED BY Zenon, <3>1, <3>2
  <2>7. Ts(m) \in Nat /\ Ts(m) <= b.timestampMS
    <3>1. CASE m = 0
      BY <2>5, <3>1
    <3>2. CASE m # 0
      <4>1. St(m).header = bl[m]
        BY Zenon, <3>2 DEF StateAt
      <4>2. BlockPrev(b, bl[m])
        BY <2>5, <3>2, <4>1 DEF Replays, ValidateBlock
      <4>3. bl[m].timestampMS \in Nat /\ b.timestampMS > bl[m].timestampMS
        BY Zenon, <2>4, <3>2, <4>2 DEF BlockPrev, ChainReplays
      <4> QED
        BY <2>5, <3>2, <4>3
    <3> QED BY Zenon, <3>1, <3>2
  <2>8. PICK A : A = All(m)
    BY Zenon
  <2>9. PICK s : s = St(m)
    BY Zenon
  <2>10. PICK s2 : s2 = St(m + 1)
    BY Zenon
  <2>11. PICK ts0 : ts0 = Ts(m)
    BY Zenon
  <2>12. /\ A \in SUBSET P /\ IsState(s) /\ ts0 \in Nat /\ ts0 <= b.timestampMS
         /\ Applied(A, s.contracts, s.nonces, ts0)
         /\ ApplyBlock(s, b) = [ok |-> TRUE, snap |-> s2]
    <3> HIDE DEF All, St, Ts
    <3> QED
      BY Zenon, <2>2, <2>5, <2>6, <2>7, <2>8, <2>9, <2>10, <2>11 DEF Replays
  <2>13. /\ Applied(A \cup Range(b.txs), s2.contracts, s2.nonces, b.timestampMS)
         /\ FirstTime(A, b.txs)
    BY Zenon, <2>5, <2>12, BlockOnce
  <2>14. \A k \in 1..(m + 1) : k \in 1..m \/ k = m + 1
    OBVIOUS
  <2>15. All(m + 1) = A \cup Range(b.txs)
    BY <2>3, <2>8, <2>14
  <2>16. All(m + 1) \subseteq P
    BY Zenon, <1>1, <2>3, <2>4, <2>12, <2>15
  <2>17. Applied(All(m + 1), St(m + 1).contracts, St(m + 1).nonces, Ts(m + 1))
    <3>1. Ts(m + 1) = b.timestampMS
      BY <2>3
    <3> HIDE DEF All, St, Ts
    <3> QED
      BY Zenon, <2>10, <2>13, <2>15, <3>1
  <2>18. ASSUME NEW h \in 1..m, NEW i \in 1..Len(bl[h].txs)
         PROVE  bl[h].txs[i] \in A
    <3>1. h \in 1..n
      BY <2>4
    <3>2. bl[h].txs[i] \in Range(bl[h].txs)
      BY Zenon, <1>1, <3>1
    <3> QED BY Zenon, <2>8, <3>2
  <2>19. Once(m + 1)
    <3> SUFFICES ASSUME NEW h \in 1..(m + 1), NEW k \in 1..(m + 1),
                        NEW i \in 1..Len(bl[h].txs), NEW j \in 1..Len(bl[k].txs),
                        bl[h].txs[i] = bl[k].txs[j]
                 PROVE  h = k /\ i = j
      BY Zenon
    <3>1. CASE h \in 1..m /\ k \in 1..m
      BY <2>2, <3>1
    <3>2. CASE h = m + 1 /\ k = m + 1
      BY Zenon, <2>3, <2>13, <3>2 DEF FirstTime
    <3>3. CASE h \in 1..m /\ k = m + 1
      BY Zenon, <2>3, <2>13, <2>18, <3>3 DEF FirstTime
    <3>4. CASE h = m + 1 /\ k \in 1..m
      BY Zenon, <2>3, <2>13, <2>18, <3>4 DEF FirstTime
    <3> QED BY Zenon, <2>14, <3>1, <3>2, <3>3, <3>4
  <2> HIDE DEF All, St, Ts, Once
  <2> QED
    BY Zenon, <2>16, <2>17, <2>19
<1>5. Nat \subseteq K
  <2> HIDE DEF K
  <2> QED BY Zenon, <1>3, <1>4, NatSetInduction
<1>6. Once(n)
  <2>1. Q(n)
    <3> HIDE DEF Q
    <3> QED BY <1>5
  <2> HIDE DEF All, St, Ts, Once
  <2> QED BY Zenon, <2>1
<1> QED
  <2> USE DEF NoneTwice
  <2> TAKE h \in DOMAIN bl, k \in DOMAIN bl
  <2> TAKE i \in DOMAIN bl[h].txs, j \in DOMAIN bl[k].txs
  <2>1. h \in 1..n /\ k \in 1..n
    BY Zenon
  <2>2. i \in 1..Len(bl[h].txs) /\ j \in 1..Len(bl[k].txs)
    <3>1. /\ DOMAIN bl[h].txs = 1..Len(bl[h].txs)
          /\ DOMAIN bl[k].txs = 1..Len(bl[k].txs)
      BY Zenon, <1>1, <2>1
    <3> QED BY Zenon, <3>1
  <2>3. \A x \in 1..Len(bl[h].txs), y \in 1..Len(bl[k].txs) :
          bl[h].txs[x] = bl[k].txs[y] => h = k /\ x = y
    BY Zenon, <1>6, <2>1
  <2> QED
    BY Zenon, <2>2, <2>3
=============================================================================
