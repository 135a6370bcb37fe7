----------------------------- MODULE TxVMProofs -----------------------------
(***************************************************************************)
(* The theorems about module TxVM, for every program, run limit and cost.  *)
(***************************************************************************)
EXTENDS TxVM, TLAPS

IsSeq(s) == \E S : s \in Seq(S)

\* The current contract is plain unless it is unwinding.
PlainCalls(c, u) ==
  \A i \in DOMAIN c :
    \/ c[i].con.type = "C"
    \/ u /\ i = Len(c) /\ c[i].con.type = "W"

RightCallers(c) ==
  \A i \in DOMAIN c :
    c[i].caller = IF i = 1 THEN emptySeed ELSE c[i - 1].con.seed

CallsInv(c, u) ==
  IsSeq(c) /\ c # <<>> /\ PlainCalls(c, u) /\ RightCallers(c)

SealedLog(l, f, id) ==
  /\ f => id = l
  /\ \A i \in DOMAIN l : l[i].code = "F" <=> f /\ i = Len(l)

IInv ==
  /\ status \in {"idle", "running", "ok", "failed"}
  /\ runlimit \in 0..Runlimit
  /\ unwinding \in BOOLEAN /\ finalized \in BOOLEAN
  /\ IF status = "idle" THEN calls = <<>> ELSE CallsInv(calls, unwinding)
  /\ IsSeq(log) /\ SealedLog(log, finalized, txid)

-----------------------------------------------------------------------------
(***************************************************************************)
(* Sequences.                                                              *)
(***************************************************************************)
LEMMA SeqFacts ==
  ASSUME NEW s, IsSeq(s)
  PROVE  /\ Len(s) \in Nat /\ DOMAIN s = 1..Len(s)
         /\ s = <<>> <=> Len(s) = 0
BY DEF IsSeq

\* A sequence with an element appended.
LEMMA AppendFacts ==
  ASSUME NEW s, IsSeq(s), NEW x
  PROVE  /\ IsSeq(Append(s, x)) /\ Len(Append(s, x)) = Len(s) + 1
         /\ \A i \in 1..Len(s) : Append(s, x)[i] = s[i]
         /\ Append(s, x)[Len(s) + 1] = x
<1>1. PICK S : s \in Seq(S)
  BY Zenon DEF IsSeq
<1>2. s \in Seq(S \cup {x}) /\ x \in S \cup {x}
  BY <1>1
<1>3. Append(s, x) \in Seq(S \cup {x})
  BY <1>2
<1> QED
  BY <1>2, <1>3 DEF IsSeq

\* Concatenating one element is appending it.
LEMMA ConcatFacts ==
  ASSUME NEW s, IsSeq(s), NEW x
  PROVE  s \o <<x>> = Append(s, x)
BY DEF IsSeq

\* A sequence with its last element replaced.
LEMMA LastFacts ==
  ASSUME NEW s, IsSeq(s), s # <<>>, NEW x, NEW t,
         t = [s EXCEPT ![Len(s)] = x]
  PROVE  /\ IsSeq(t) /\ Len(t) = Len(s) /\ t # <<>>
         /\ \A i \in 1..(Len(s) - 1) : t[i] = s[i]
         /\ t[Len(s)] = x
<1>1. PICK S : s \in Seq(S)
  BY Zenon DEF IsSeq
<1>2. s \in Seq(S \cup {x}) /\ x \in S \cup {x} /\ Len(s) \in 1..Len(s)
  BY <1>1
<1>3. t \in Seq(S \cup {x}) /\ Len(t) = Len(s)
  BY <1>2
<1>4. /\ \A i \in 1..(Len(s) - 1) : t[i] = s[i]
      /\ t[Len(s)] = x
  BY <1>2
<1>5. t # <<>>
  BY <1>2, <1>3
<1>6. IsSeq(t)
  BY Zenon, <1>3 DEF IsSeq
<1> QED
  BY Zenon, <1>3, <1>4, <1>5, <1>6

\* A sequence without its last element.
LEMMA PopFacts ==
  ASSUME NEW s, IsSeq(s), Len(s) > 1
  PROVE  /\ IsSeq(Pop(s, 1)) /\ Len(Pop(s, 1)) = Len(s) - 1
         /\ \A i \in 1..(Len(s) - 1) : Pop(s, 1)[i] = s[i]
<1>1. PICK S : s \in Seq(S)
  BY Zenon DEF IsSeq
<1> DEFINE t == SubSeq(s, 1, Len(s) - 1)
<1>2. t \in Seq(S) /\ Len(t) = Len(s) - 1
  BY <1>1
<1>3. \A i \in 1..(Len(s) - 1) : t[i] = s[i]
  BY <1>1
<1>4. IsSeq(t)
  BY Zenon, <1>2 DEF IsSeq
<1> QED
  BY Zenon, <1>2, <1>3, <1>4 DEF Pop

-----------------------------------------------------------------------------
(***************************************************************************)
(* The calls.  A step changes the current frame, or calls, or returns.     *)
(***************************************************************************)
LEMMA UpTo ==
  ASSUME NEW k \in Nat \ {0}, NEW i \in 1..k
  PROVE  /\ i = k \/ i \in 1..(k - 1)
         /\ i # 1 => i - 1 \in 1..(k - 1)
OBVIOUS

\* The current frame may change its contract for one with the same seed.
LEMMA TopChanges ==
  ASSUME CallsInv(calls, unwinding),
         NEW con, NEW n, NEW u,
         con.seed = contract.seed,
         con.type = "C" \/ (u /\ con.type = "W"),
         ~unwinding \/ u
  PROVE  /\ CallsInv(WithTop(Frame(con, caller, n)), u)
         /\ Len(WithTop(Frame(con, caller, n))) = Len(calls)
<1> DEFINE k == Len(calls)
           f == Frame(con, caller, n)
           c == [calls EXCEPT ![Len(calls)] = f]
<1>1. f.con = con /\ f.caller = calls[k].caller
  BY Zenon DEF Frame, caller, Top
<1>2. IsSeq(calls) /\ calls # <<>>
  BY Zenon DEF CallsInv
<1> HIDE DEF f
<1>3. /\ IsSeq(c) /\ Len(c) = k /\ c # <<>>
      /\ \A i \in 1..(k - 1) : c[i] = calls[i]
      /\ c[k] = f
  BY Zenon, <1>2, LastFacts
<1> HIDE DEF c
<1>4. k \in Nat \ {0} /\ DOMAIN calls = 1..k /\ DOMAIN c = 1..k
  BY Zenon, <1>2, <1>3, SeqFacts
<1>5. PlainCalls(c, u)
  <2>1. PlainCalls(calls, unwinding)
    BY Zenon DEF CallsInv
  <2>2. \A i \in 1..k : c[i].con = calls[i].con \/ (i = k /\ c[i].con = con)
    BY Zenon, <1>1, <1>3, <1>4, UpTo
  <2> QED
    BY Zenon, <1>3, <1>4, <2>1, <2>2 DEF PlainCalls
<1>6. RightCallers(c)
  <2>1. RightCallers(calls) /\ con.seed = calls[k].con.seed
    BY Zenon DEF CallsInv, contract, Top
  <2>2. \A i \in 1..k : c[i].caller = calls[i].caller
    BY Zenon, <1>1, <1>3, <1>4, UpTo
  <2>3. \A i \in 1..k : i # 1 => c[i - 1].con.seed = calls[i - 1].con.seed
    BY Zenon, <1>3, <1>4, UpTo
  <2> QED
    BY Zenon, <1>4, <2>1, <2>2, <2>3 DEF RightCallers
<1>7. CallsInv(c, u) /\ Len(c) = Len(calls)
  BY Zenon, <1>3, <1>5, <1>6 DEF CallsInv
<1> QED
  BY Zenon, <1>7 DEF c, f, WithTop

\* While it runs, the current contract is a plain one.
LEMMA CurrentIsPlain ==
  ASSUME CallsInv(calls, unwinding), ~unwinding
  PROVE  contract.type = "C"
BY SeqFacts DEF CallsInv, PlainCalls, contract, Top

\* The current stack may change.
LEMMA StackChanges ==
  ASSUME CallsInv(calls, unwinding), ~unwinding, NEW s
  PROVE  CallsInv(WithStack(s), unwinding) /\ Len(WithStack(s)) = Len(calls)
<1>1. contract.type = "C"
  BY Zenon, CurrentIsPlain
<1> DEFINE con == Contract(contract.type, contract.seed, contract.program, s)
<1>2. con.seed = contract.seed /\ con.type = "C"
  BY Zenon, <1>1 DEF Contract
<1> QED
  BY Zenon, <1>2, TopChanges DEF WithStack, WithContract

\* A call adds a frame whose caller is the current contract.
LEMMA CallAdds ==
  ASSUME CallsInv(calls, unwinding), ~unwinding, NEW s, NEW con, NEW c,
         con.type = "C",
         c = Append(WithStack(s), Frame(con, contract.seed, 0))
  PROVE  CallsInv(c, unwinding)
<1> DEFINE k == Len(calls)
           w == WithStack(s)
<1>1. CallsInv(w, unwinding) /\ Len(w) = k
  BY Zenon, StackChanges
<1>2. /\ IsSeq(c) /\ Len(c) = k + 1
      /\ \A i \in 1..k : c[i] = w[i]
      /\ c[k + 1] = Frame(con, contract.seed, 0)
  BY <1>1, AppendFacts DEF CallsInv
<1>3. /\ k \in Nat \ {0} /\ DOMAIN w = 1..k /\ DOMAIN c = 1..(k + 1)
      /\ c # <<>>
  BY <1>1, <1>2, SeqFacts DEF CallsInv
<1>4. w[k].con.seed = contract.seed
  BY LastFacts
  DEF CallsInv, WithStack, WithContract, WithTop, Frame, Contract
<1>5. c[k + 1].con = con /\ c[k + 1].caller = contract.seed
  BY <1>2 DEF Frame
<1>6. PlainCalls(c, unwinding)
  BY <1>1, <1>2, <1>3, <1>5 DEF CallsInv, PlainCalls
<1>7. RightCallers(c)
  BY <1>1, <1>2, <1>3, <1>4, <1>5 DEF CallsInv, RightCallers
<1> QED
  BY Zenon, <1>2, <1>3, <1>6, <1>7 DEF CallsInv

\* A return removes the current frame.
LEMMA ReturnPops ==
  ASSUME CallsInv(calls, unwinding), Len(calls) > 1
  PROVE  CallsInv(Pop(calls, 1), FALSE)
<1> DEFINE c == Pop(calls, 1)
           k == Len(calls) - 1
<1>1. /\ IsSeq(c) /\ Len(c) = k
      /\ \A i \in 1..k : c[i] = calls[i]
  BY Zenon, PopFacts DEF CallsInv
<1> HIDE DEF c
<1>2. /\ DOMAIN calls = 1..(k + 1) /\ DOMAIN c = 1..k
      /\ Len(calls) = k + 1 /\ k \in Nat \ {0} /\ c # <<>>
  BY <1>1, SeqFacts DEF CallsInv
<1> HIDE DEF k
<1>3. PlainCalls(c, FALSE)
  BY <1>1, <1>2 DEF CallsInv, PlainCalls
<1>4. RightCallers(c)
  BY <1>1, <1>2 DEF CallsInv, RightCallers
<1>5. CallsInv(c, FALSE)
  BY Zenon, <1>1, <1>2, <1>3, <1>4 DEF CallsInv
<1> QED
  BY Zenon, <1>5 DEF c

(***************************************************************************)
(* The log.                                                                *)
(***************************************************************************)
LEMMA SealedAppends ==
  ASSUME NEW s, NEW id, IsSeq(s), SealedLog(s, FALSE, id), NEW x, NEW f \in BOOLEAN,
         x.code = "F" <=> f,
         NEW l, l = Append(s, x)
  PROVE  IsSeq(l) /\ SealedLog(l, f, IF f THEN l ELSE id)
<1>1. /\ IsSeq(l) /\ Len(l) = Len(s) + 1
      /\ \A i \in 1..Len(s) : l[i] = s[i]
      /\ l[Len(s) + 1] = x
  BY AppendFacts
<1>2. /\ DOMAIN l = 1..(Len(s) + 1) /\ DOMAIN s = 1..Len(s)
      /\ Len(s) \in Nat
  BY Zenon, <1>1, SeqFacts
<1>3. \A i \in 1..Len(s) : l[i].code # "F"
  BY Zenon, <1>1, <1>2 DEF SealedLog
<1> QED
  BY <1>1, <1>2, <1>3 DEF SealedLog

-----------------------------------------------------------------------------
(***************************************************************************)
(* What the parts of an instruction do to the invariant.                   *)
(***************************************************************************)
LogKept ==
  finalized' \in BOOLEAN /\ IsSeq(log') /\ SealedLog(log', finalized', txid')
CallsKept == unwinding' \in BOOLEAN /\ CallsInv(calls', unwinding')

\* An instruction that can pay its cost.
LEMMA Charged ==
  ASSUME IInv, NEW cost \in Nat, Charge(cost)
  PROVE  /\ runlimit' \in 0..Runlimit
         /\ status = "running" /\ unwinding \in BOOLEAN /\ ~unwinding
         /\ CallsInv(calls, unwinding)
BY TxVMAssumptions DEF IInv, Charge, Stepping

\* An instruction that logs nothing.
LEMMA Quiet ==
  ASSUME IInv, NoLog
  PROVE  LogKept
BY Zenon DEF IInv, NoLog, LogKept

\* An instruction that logs a plain item.
LEMMA LogGrows ==
  ASSUME IInv, NEW x, x.code # "F", Log(<<x>>), UNCHANGED <<finalized, txid>>
  PROVE  LogKept
<1>1. finalized = FALSE /\ IsSeq(log) /\ SealedLog(log, FALSE, txid)
  BY Zenon DEF IInv, Log
<1>2. log' = Append(log, x)
  BY Zenon, <1>1, ConcatFacts DEF Log
<1>3. FALSE \in BOOLEAN /\ (x.code = "F" <=> FALSE)
  BY Zenon
<1>4. IsSeq(log') /\ SealedLog(log', FALSE, IF FALSE THEN log' ELSE txid)
  BY Zenon, <1>1, <1>2, <1>3, SealedAppends
<1> QED
  BY Zenon, <1>1, <1>4 DEF LogKept

\* An instruction that replaces the top of the stack.
LEMMA Replaced ==
  ASSUME unwinding \in BOOLEAN, CallsInv(calls, unwinding), ~unwinding, NEW n, NEW items,
         Replace(n, items), UNCHANGED unwinding
  PROVE  CallsKept
<1>1. calls' = WithStack(Pop(stack, n) \o items)
  BY Zenon DEF Replace
<1>2. CallsInv(calls', unwinding)
  BY Zenon, <1>1, StackChanges
<1> QED
  BY Zenon, <1>2 DEF CallsKept

\* The invariant after a step, from its parts.
LEMMA Assemble ==
  ASSUME IInv, status' \in {"running", "ok", "failed"}, runlimit' \in 0..Runlimit,
         CallsKept, LogKept
  PROVE  IInv'
BY Zenon DEF IInv, CallsKept, LogKept

(***************************************************************************)
(* The instructions.                                                       *)
(***************************************************************************)
LEMMA NonceLogged ==
  ASSUME IInv, NEW nonce, ~finalized, UNCHANGED <<finalized, txid>>,
         NEW a, a = NonceTuple(caller, contract.seed, nonce),
         NEW b, b = logTimeRange(0, nonce[2]),
         log' = log \o <<a>> \/ log' = log \o <<a, b>>
  PROVE  LogKept
<1>1. FALSE \in BOOLEAN /\ (a.code = "F" <=> FALSE) /\ (b.code = "F" <=> FALSE)
  BY Zenon DEF NonceTuple, logTimeRange
<1>2. finalized = FALSE /\ IsSeq(log) /\ SealedLog(log, FALSE, txid)
  BY Zenon DEF IInv
<1>3. PICK l : l = Append(log, a)
  BY Zenon
<1>4. IsSeq(l) /\ SealedLog(l, FALSE, IF FALSE THEN l ELSE txid)
  BY Zenon, <1>1, <1>2, <1>3, SealedAppends
<1>5. CASE log' = log \o <<a>>
  <2>1. log' = l
    BY Zenon, <1>2, <1>3, <1>5, ConcatFacts
  <2> QED
    BY Zenon, <1>2, <1>4, <2>1 DEF LogKept
<1>6. CASE log' = log \o <<a, b>>
  <2>1. log' = Append(l, b)
    BY <1>2, <1>3, <1>6 DEF IsSeq
  <2>2. SealedLog(l, FALSE, txid)
    BY Zenon, <1>4
  <2>3. IsSeq(log') /\ SealedLog(log', FALSE, IF FALSE THEN log' ELSE txid)
    BY Zenon, <1>1, <1>4, <2>1, <2>2, SealedAppends
  <2> QED
    BY Zenon, <1>2, <2>3 DEF LogKept
<1> QED
  BY Zenon, <1>5, <1>6

\* nonce.
LEMMA NonceInv ==
  ASSUME IInv, NEW nonce, opNonce(nonce)
  PROVE  IInv'
<1>1. 2 * DataCost + EntryCost \in Nat
  BY TxVMAssumptions
<1>2. /\ runlimit' \in 0..Runlimit
      /\ status = "running" /\ unwinding \in BOOLEAN /\ ~unwinding
      /\ CallsInv(calls, unwinding)
  BY Zenon, <1>1, Charged DEF opNonce
<1>3. CallsKept
  BY Zenon, <1>2, Replaced DEF opNonce
<1>4. LogKept
  BY Zenon, NonceLogged DEF opNonce, Log
<1> QED
  BY Zenon, <1>2, <1>3, <1>4, Assemble DEF opNonce

\* finalize.
LEMMA FinalizeInv ==
  ASSUME IInv, opFinalize
  PROVE  IInv'
<1>1. /\ runlimit' \in 0..Runlimit
      /\ status = "running" /\ unwinding \in BOOLEAN /\ ~unwinding
      /\ CallsInv(calls, unwinding)
  BY Zenon, Charged, TxVMAssumptions DEF opFinalize
<1>2. CallsKept
  BY Zenon, <1>1, Replaced DEF opFinalize
<1>3. ~finalized /\ finalized' = TRUE /\ txid' = log'
  BY Zenon DEF opFinalize, Log
<1>4. IsSeq(log) /\ SealedLog(log, FALSE, txid)
  BY Zenon, <1>3 DEF IInv
<1>5. PICK x : x.code = "F" /\ log' = log \o <<x>>
  BY Zenon DEF opFinalize, Log
<1>6. log' = Append(log, x)
  BY Zenon, <1>4, <1>5, ConcatFacts
<1>7. IsSeq(log') /\ SealedLog(log', TRUE, IF TRUE THEN log' ELSE txid)
  BY Zenon, <1>4, <1>5, <1>6, SealedAppends
<1>8. LogKept
  BY Zenon, <1>3, <1>7 DEF LogKept
<1> QED
  BY Zenon, <1>1, <1>2, <1>8, Assemble DEF opFinalize

\* Any instruction that replaces the top of the stack.
LEMMA ReplaceInv ==
  ASSUME IInv, NEW cost \in Nat, Charge(cost), NEW n, NEW items,
         Replace(n, items), UNCHANGED <<status, unwinding>>, LogKept
  PROVE  IInv'
<1>1. /\ runlimit' \in 0..Runlimit
      /\ status = "running" /\ unwinding \in BOOLEAN /\ ~unwinding
      /\ CallsInv(calls, unwinding)
  BY Zenon, Charged
<1>2. UNCHANGED unwinding /\ status' = "running"
  BY Zenon, <1>1
<1>3. CallsKept
  BY Zenon, <1>1, <1>2, Replaced
<1> QED
  BY Zenon, <1>1, <1>2, <1>3, Assemble

\* The instructions on values.
LEMMA ValueInv ==
  ASSUME IInv, ValueInstruction
  PROVE  IInv'
<1> USE TxVMAssumptions
<1>1. CASE \E nonce \in Nonces : opNonce(nonce)
  BY Zenon, <1>1, NonceInv
<1>2. ASSUME NEW tag, NEW amount, opIssue(tag, amount)
      PROVE  IInv'
  <2>1. LogKept
    BY Zenon, <1>2, LogGrows DEF opIssue
  <2> QED
    BY <1>2, <2>1, ReplaceInv DEF opIssue
<1>3. ASSUME NEW amount, opSplit(amount)
      PROVE  IInv'
  BY <1>3, Quiet, ReplaceInv DEF opSplit
<1>4. CASE opMerge
  BY Zenon, <1>4, Quiet, ReplaceInv DEF opMerge
<1>5. CASE opRetire
  <2>1. LogKept
    BY Zenon, <1>5, LogGrows DEF opRetire
  <2> QED
    BY Zenon, <1>5, <2>1, ReplaceInv DEF opRetire
<1> QED
  BY Zenon, <1>1, <1>2, <1>3, <1>4, <1>5 DEF ValueInstruction

\* An instruction that permutes the top of the stack.
LEMMA PermuteInv ==
  ASSUME IInv, NEW n \in Nat, NEW s, Permute(n, s)
  PROVE  IInv'
<1>1. /\ runlimit' \in 0..Runlimit
      /\ status = "running" /\ unwinding \in BOOLEAN /\ ~unwinding
      /\ CallsInv(calls, unwinding)
  BY Zenon, Charged DEF Permute
<1>2. CallsInv(WithStack(s), unwinding)
  BY Zenon, <1>1, StackChanges
<1>3. CallsKept
  BY Zenon, <1>1, <1>2 DEF Permute, CallsKept
<1>4. LogKept
  BY Zenon, Quiet DEF Permute
<1> QED
  BY Zenon, <1>1, <1>3, <1>4, Assemble DEF Permute

\* The instructions on the stacks.
LEMMA StackInv ==
  ASSUME IInv, StackInstruction
  PROVE  IInv'
<1>1. CASE opDrop
  BY Zenon, <1>1, Quiet, ReplaceInv DEF opDrop
<1>2. CASE opGet
  BY Zenon, <1>2, Quiet, ReplaceInv DEF opGet
<1>3. CASE opPut
  BY Zenon, <1>3, Quiet, ReplaceInv DEF opPut
<1>4. ASSUME NEW n \in 0..Depth, opRoll(n) \/ opBury(n) \/ opReverse(n)
      PROVE  IInv'
  <2>1. n \in Nat
    OBVIOUS
  <2>2. \E s : Permute(n, s)
    BY Zenon, <1>4 DEF opRoll, opBury, opReverse
  <2> QED
    BY Zenon, <2>1, <2>2, PermuteInv
<1> QED
  BY Zenon, <1>1, <1>2, <1>3, <1>4 DEF StackInstruction

\* Any instruction that suspends the current contract.
LEMMA SuspendInv ==
  ASSUME IInv, NEW con, con.seed = contract.seed, con.type \in {"C", "W"},
         NEW cost \in Nat, Charge(cost), calls' = WithContract(con),
         unwinding' = TRUE, UNCHANGED status, LogKept
  PROVE  IInv'
<1>1. /\ runlimit' \in 0..Runlimit
      /\ status = "running" /\ unwinding \in BOOLEAN /\ ~unwinding
      /\ CallsInv(calls, unwinding)
  BY Zenon, Charged
<1>2. con.type = "C" \/ (TRUE /\ con.type = "W")
  BY Zenon
<1>3. CallsInv(WithTop(Frame(con, caller, Top.execs)), TRUE)
  BY Zenon, <1>1, <1>2, TopChanges
<1>4. CallsKept
  BY Zenon, <1>3 DEF WithContract, CallsKept
<1> QED
  BY Zenon, <1>1, <1>4, Assemble

\* call.
LEMMA CallInv ==
  ASSUME IInv, opCall
  PROVE  IInv'
<1>1. /\ runlimit' \in 0..Runlimit
      /\ status = "running" /\ unwinding \in BOOLEAN /\ ~unwinding
      /\ CallsInv(calls, unwinding)
  BY Zenon, Charged DEF opCall
<1>2. PICK con, s :
        /\ con.type = "C"
        /\ calls' = Append(WithStack(s), Frame(con, contract.seed, 0))
  <2> DEFINE item == Peek(stack, 0)
             con == Contract("C", item.seed, item.program, item.stack)
  <2>1. con.type = "C"
    BY Zenon DEF Contract
  <2>2. calls' = Append(WithStack(Pop(stack, 1)), Frame(con, contract.seed, 0))
    BY Zenon DEF opCall
  <2> HIDE DEF con
  <2> QED
    BY Zenon, <2>1, <2>2
<1>3. CallsInv(calls', unwinding)
  BY Zenon, <1>1, <1>2, CallAdds
<1>4. CallsKept
  BY Zenon, <1>1, <1>3 DEF opCall, CallsKept
<1>5. LogKept
  BY Zenon, Quiet DEF opCall
<1> QED
  BY Zenon, <1>1, <1>4, <1>5, Assemble DEF opCall

\* exec.
LEMMA ExecInv ==
  ASSUME IInv, opExec
  PROVE  IInv'
<1>1. /\ runlimit' \in 0..Runlimit
      /\ status = "running" /\ unwinding \in BOOLEAN /\ ~unwinding
      /\ CallsInv(calls, unwinding)
  BY Zenon, Charged DEF opExec
<1>2. contract.type = "C"
  BY Zenon, <1>1, CurrentIsPlain
<1>3. CallsInv(WithTop(Frame(contract, caller, Top.execs + 1)), unwinding)
  BY Zenon, <1>1, <1>2, TopChanges
<1>4. CallsKept
  BY Zenon, <1>1, <1>3 DEF opExec, CallsKept
<1>5. LogKept
  BY Zenon, Quiet DEF opExec
<1> QED
  BY Zenon, <1>1, <1>4, <1>5, Assemble DEF opExec

\* The instructions on contracts.
LEMMA ContractInv ==
  ASSUME IInv, ContractInstruction
  PROVE  IInv'
<1> USE TxVMAssumptions
<1>1. ASSUME NEW prog, opContract(prog)
      PROVE  IInv'
  BY Zenon, <1>1, Quiet, ReplaceInv DEF opContract
<1>2. ASSUME NEW prog, opOutput(prog)
      PROVE  IInv'
  <2> DEFINE con == Contract(contract.type, contract.seed, prog, stack)
  <2>1. LogKept
    BY Zenon, <1>2, LogGrows DEF opOutput
  <2>2. 2 * DataCost \in Nat /\ Charge(2 * DataCost)
    BY <1>2 DEF opOutput
  <2>3. contract.type = "C"
    BY Zenon, <2>2, Charged, CurrentIsPlain
  <2>4. con.seed = contract.seed /\ con.type \in {"C", "W"}
    BY Zenon, <2>3 DEF Contract
  <2>5. calls' = WithContract(con) /\ unwinding' = TRUE /\ UNCHANGED status
    BY Zenon, <1>2 DEF opOutput
  <2> HIDE DEF con
  <2> QED
    BY Zenon, <2>1, <2>2, <2>4, <2>5, SuspendInv
<1>3. ASSUME NEW con, con.seed = contract.seed, con.type \in {"C", "W"},
             Suspend(con)
      PROVE  IInv'
  <2>1. LogKept
    BY Zenon, <1>3, Quiet DEF Suspend
  <2>2. /\ 0 \in Nat /\ Charge(0) /\ calls' = WithContract(con)
        /\ unwinding' = TRUE /\ UNCHANGED status
    BY Zenon, <1>3 DEF Suspend
  <2> QED
    BY Zenon, <1>3, <2>1, <2>2, SuspendInv
<1>4. ASSUME NEW prog, opYield(prog) \/ opWrap(prog)
      PROVE  IInv'
  <2>1. contract.type = "C"
    BY Zenon, <1>4, Charged, CurrentIsPlain DEF opYield, opWrap, Suspend
  <2>2. PICK type \in {"C", "W"} :
          Suspend(Contract(type, contract.seed, prog, stack))
    BY Zenon, <1>4, <2>1 DEF opYield, opWrap
  <2> DEFINE con == Contract(type, contract.seed, prog, stack)
  <2>3. con.seed = contract.seed /\ con.type \in {"C", "W"}
    BY Zenon DEF Contract
  <2> QED
    BY Zenon, <2>2, <2>3, <1>3
<1>5. ASSUME NEW con, opInput(con)
      PROVE  IInv'
  <2>1. LogKept
    BY Zenon, <1>5, LogGrows DEF opInput
  <2> QED
    BY <1>5, <2>1, ReplaceInv DEF opInput
<1> QED
  BY Zenon, <1>1, <1>2, <1>4, <1>5, CallInv, ExecInv DEF ContractInstruction

\* The instructions that only log.
LEMMA LogInv ==
  ASSUME IInv, LogInstruction
  PROVE  IInv'
<1> USE TxVMAssumptions
<1>1. ASSUME NEW x, x.code # "F", Charge(DataCost), Log(<<x>>),
             UNCHANGED <<status, calls, unwinding, finalized, txid>>
      PROVE  IInv'
  <2>1. LogKept
    BY Zenon, <1>1, LogGrows
  <2>2. /\ runlimit' \in 0..Runlimit
        /\ status = "running" /\ unwinding \in BOOLEAN
        /\ CallsInv(calls, unwinding)
    BY Zenon, <1>1, Charged
  <2>3. CallsKept /\ status' = "running"
    BY Zenon, <1>1, <2>2 DEF CallsKept
  <2> QED
    BY Zenon, <2>1, <2>2, <2>3, Assemble
<1>2. CASE opLog
  BY Zenon, <1>1, <1>2 DEF opLog
<1>3. ASSUME NEW min, NEW max, opTimeRange(min, max)
      PROVE  IInv'
  BY Zenon, <1>1, <1>3 DEF opTimeRange, logTimeRange
<1> QED
  BY Zenon, <1>2, <1>3, FinalizeInv DEF LogInstruction

\* The instructions on plain data.
LEMMA DataInv ==
  ASSUME IInv, NEW cost \in Nat, DataInstruction(cost)
  PROVE  IInv'
<1>1. runlimit' \in 0..Runlimit /\ status = "running"
  BY Zenon, Charged DEF DataInstruction
<1>2. CallsKept
  BY Zenon, <1>1 DEF IInv, DataInstruction, CallsKept
<1>3. LogKept
  BY Zenon, Quiet DEF DataInstruction
<1> QED
  BY Zenon, <1>1, <1>2, <1>3, Assemble DEF DataInstruction

(***************************************************************************)
(* Before the first instruction, between programs, and the end.            *)
(***************************************************************************)
LEMMA InitInv ==
  ASSUME Init
  PROVE  IInv
<1>1. log \in Seq({}) /\ DOMAIN log = {}
  BY DEF Init
<1>2. IsSeq(log)
  BY Zenon, <1>1 DEF IsSeq
<1>3. SealedLog(log, finalized, txid)
  BY Zenon, <1>1 DEF Init, SealedLog
<1>4. runlimit \in 0..Runlimit
  BY TxVMAssumptions DEF Init
<1> QED
  BY Zenon, <1>2, <1>3, <1>4 DEF Init, IInv

\* The start of an execution.
LEMMA ValidateInv ==
  ASSUME IInv, NEW v, NEW len, Validate(v, len)
  PROVE  IInv'
<1> DEFINE f == Frame(Contract("C", emptySeed, "tx", <<>>), emptySeed, 0)
<1>1. calls' = <<f>> /\ f.con.type = "C" /\ f.caller = emptySeed
  BY Zenon DEF Validate, Frame, Contract
<1> HIDE DEF f
<1>2. /\ calls' \in Seq({f}) /\ calls' # <<>> /\ DOMAIN calls' = {1}
      /\ calls'[1] = f
  BY <1>1
<1>3. IsSeq(calls')
  BY Zenon, <1>2 DEF IsSeq
<1>4. CallsInv(calls', unwinding')
  BY Zenon, <1>1, <1>2, <1>3 DEF CallsInv, PlainCalls, RightCallers
<1> QED
  BY Zenon, <1>4 DEF IInv, Validate

\* The end of a program.
LEMMA ReturnInv ==
  ASSUME IInv, Return
  PROVE  IInv'
<1>1. /\ status = "running" /\ unwinding \in BOOLEAN /\ runlimit \in 0..Runlimit
      /\ CallsInv(calls, unwinding)
  BY Zenon DEF IInv, Return
<1>2. LogKept
  BY Zenon, Quiet DEF Return
<1>3. UNCHANGED runlimit /\ status' \in {"running", "ok", "failed"}
  BY Zenon, <1>1 DEF Return
<1>4. CASE Top.execs > 0
  <2>1. contract.type = "C" \/ (unwinding /\ contract.type = "W")
    BY <1>1, SeqFacts DEF CallsInv, PlainCalls, contract, Top
  <2>2. CallsInv(WithTop(Frame(contract, caller, Top.execs - 1)), unwinding)
    BY Zenon, <1>1, <2>1, TopChanges
  <2>3. CallsKept
    BY Zenon, <1>1, <1>4, <2>2 DEF Return, CallsKept
  <2> QED
    BY Zenon, <1>1, <1>2, <1>3, <2>3, Assemble
<1>5. CASE Len(calls) > 1 /\ calls' = Pop(calls, 1) /\ unwinding' = FALSE
  <2>1. CallsInv(Pop(calls, 1), FALSE)
    BY Zenon, <1>1, <1>5, ReturnPops
  <2>2. CallsKept
    BY Zenon, <1>5, <2>1 DEF CallsKept
  <2> QED
    BY Zenon, <1>1, <1>2, <1>3, <2>2, Assemble
<1>6. CASE UNCHANGED <<calls, unwinding>>
  <2>1. CallsKept
    BY Zenon, <1>1, <1>6 DEF CallsKept
  <2> QED
    BY Zenon, <1>1, <1>2, <1>3, <2>1, Assemble
<1> QED
  BY Zenon, <1>4, <1>5, <1>6 DEF Return

\* A panic ends the execution.
LEMMA PanicInv ==
  ASSUME IInv, Panic
  PROVE  IInv'
<1>1. /\ status = "running" /\ status' = "failed"
      /\ UNCHANGED <<runlimit, calls, unwinding, finalized, txid>>
  BY Zenon DEF Panic, Stepping
<1>2. CASE UNCHANGED log
  BY Zenon, <1>1, <1>2 DEF IInv
<1>3. CASE ~UNCHANGED log
  <2>1. LogKept
    BY Zenon, <1>1, <1>3, NonceLogged DEF Panic
  <2>2. CallsKept
    BY Zenon, <1>1 DEF IInv, CallsKept
  <2> QED
    BY Zenon, <1>1, <2>1, <2>2, Assemble DEF IInv
<1> QED
  BY Zenon, <1>2, <1>3

-----------------------------------------------------------------------------
(***************************************************************************)
(* The theorems.                                                           *)
(***************************************************************************)
LEMMA NextInv ==
  ASSUME IInv, [Next]_vars
  PROVE  IInv'
<1>1. CASE Step
  <2>1. ASSUME NEW cost \in {0, DataCost}, DataInstruction(cost)
        PROVE  IInv'
    <3>1. cost \in Nat
      BY TxVMAssumptions
    <3> QED
      BY Zenon, <2>1, <3>1, DataInv
  <2> QED
    BY Zenon, <1>1, <2>1, ValueInv, StackInv, ContractInv, LogInv DEF Step
<1>2. CASE UNCHANGED vars
  BY Zenon, <1>2 DEF vars, IInv, CallsInv, PlainCalls, RightCallers, SealedLog, IsSeq
<1> QED
  BY Zenon, <1>1, <1>2, ValidateInv, ReturnInv, PanicInv DEF Next

\* The inductive invariant: every step of Validate keeps the calls and the log
\* well formed.
THEOREM InvHolds == Spec => []IInv
<1>1. Init => IInv
  BY Zenon, InitInv
<1>2. IInv /\ [Next]_vars => IInv'
  BY Zenon, NextInv
<1> QED
  BY <1>1, <1>2, PTL DEF Spec

\* No instruction that succeeds overdraws the run limit, and the current
\* contract is a plain one unless it has just wrapped itself.
THEOREM TypeCorrect == Spec => []TypeOK
<1>1. IInv => TypeOK
  BY DEF IInv, TypeOK, CallsInv, PlainCalls
<1> QED
  BY <1>1, InvHolds, PTL

\* The transaction's ID is that of the whole log, whatever the program does
\* after finalize, and finalize is the last item.
THEOREM IDSealsLog == Spec => []TxIDIsLog
<1>1. IInv => TxIDIsLog
  BY Zenon DEF IInv, TxIDIsLog, SealedLog
<1> QED
  BY <1>1, InvHolds, PTL

\* A contract sees the seed of the contract that called it.
THEOREM CallersRight == Spec => []CallersAreRight
<1>1. IInv => CallersAreRight
  BY DEF IInv, CallersAreRight, CallsInv, RightCallers
<1> QED
  BY <1>1, InvHolds, PTL

\* No step of a finalized execution touches the log or the transaction's ID.
LEMMA FrozenStep ==
  ASSUME [Next]_vars, finalized
  PROVE  UNCHANGED <<log, finalized, txid>>
<1>1. CASE ValueInstruction
  BY Zenon, <1>1 DEF ValueInstruction, opNonce, opIssue, opSplit, opMerge,
                    opRetire, Log, NoLog
<1>2. CASE StackInstruction
  BY Zenon, <1>2 DEF StackInstruction, opDrop, opGet, opPut, opRoll, opBury,
                    opReverse, Permute, NoLog
<1>3. CASE ContractInstruction
  BY Zenon, <1>3 DEF ContractInstruction, opContract, opOutput, opYield, opWrap,
                    Suspend, opInput, opCall, opExec, Log, NoLog
<1>4. CASE LogInstruction
  BY Zenon, <1>4 DEF LogInstruction, opLog, opTimeRange, opFinalize, Log
<1>5. ASSUME NEW cost, DataInstruction(cost)
      PROVE  UNCHANGED <<log, finalized, txid>>
  BY Zenon, <1>5 DEF DataInstruction, NoLog
<1>6. ASSUME NEW v, NEW len, Validate(v, len)
      PROVE  UNCHANGED <<log, finalized, txid>>
  BY Zenon, <1>6 DEF Validate
<1>7. CASE Return
  BY Zenon, <1>7 DEF Return, NoLog
<1>8. CASE Panic
  BY Zenon, <1>8 DEF Panic
<1>9. CASE UNCHANGED vars
  BY Zenon, <1>9 DEF vars
<1> QED
  BY Zenon, <1>1, <1>2, <1>3, <1>4, <1>5, <1>6, <1>7, <1>8, <1>9
  DEF Next, Step

\* After finalize neither the log nor the transaction's ID changes.
THEOREM Frozen == Spec => LogFrozen
<1>1. ASSUME [Next]_vars, finalized
      PROVE  UNCHANGED <<log, finalized, txid>>
  BY Zenon, <1>1, FrozenStep
<1> QED
  BY <1>1, PTL DEF Spec, LogFrozen
=============================================================================
