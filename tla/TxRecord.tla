------------------------------ MODULE TxRecord ------------------------------
(***************************************************************************)
(* bc.NewTx: an execution of TxVM with the hooks that record it in a Tx.   *)
(* stackHook runs before an instruction and takes the contents of the      *)
(* contract that input or output is about to log; entryHook runs in        *)
(* finalize, goes through the log and gives the first recorded input the   *)
(* ID of the first input logged, and so on.  LogPos counts from 1.         *)
(***************************************************************************)
EXTENDS TxVM, FiniteSets

VARIABLE tx

NoTx == [inputs |-> <<>>, outputs |-> <<>>, contracts |-> <<>>, timeranges |-> <<>>, nonces |-> <<>>,
         issuances |-> <<>>, retirements |-> <<>>, anchor |-> <<>>]

recVars == <<vars, tx>>

\* What stackHook takes: the seed and program, and the stack as inspected.
Recorded(con) == [seed |-> con.seed, program |-> con.program, stack |-> con.stack, id |-> <<>>, logPos |-> 0]

hookOutput(prog) == tx' = [tx EXCEPT !.outputs = Append(@, Recorded(Contract("C", contract.seed, prog, stack)))]
hookInput(con) == tx' = [tx EXCEPT !.inputs = Append(@, Recorded(con))]

\* The loop's index among the entries of a code, after the entry at i.
index(l, code, i) == Cardinality({j \in 1..i : l[j].code = code})
at(l, code, n) == {i \in DOMAIN l : l[i].code = code /\ index(l, code, i) = n}

\* Fault: one index runs for inputs and outputs.
paired_OneIndex(records, l, code) ==
  LET both(i) == index(l, "I", i) + index(l, "O", i)
      places(n) == {i \in DOMAIN l : l[i].code = code /\ both(i) = n}
  IN  [n \in DOMAIN records |->
         IF places(n) = {} THEN records[n]
         ELSE LET i == CHOOSE i \in places(n) : TRUE
              IN  [records[n] EXCEPT !.id = l[i].id, !.logPos = i]]

\* The n-th entry of the code gives the n-th record its ID and place.
paired(records, l, code) ==
  [n \in DOMAIN records |->
     IF at(l, code, n) = {} THEN records[n]
     ELSE LET i == CHOOSE i \in at(l, code, n) : TRUE
          IN  [records[n] EXCEPT !.id = l[i].id, !.logPos = i]]

\* The entries of some codes, in order.
entries(l, codes) == SelectSeq([i \in DOMAIN l |-> [e |-> l[i], pos |-> i]], LAMBDA x : x.e.code \in codes)

contractsIn(l) ==
  LET es == entries(l, {"I", "O"}) IN [n \in DOMAIN es |-> [type |-> es[n].e.code, id |-> es[n].e.id]]
timerangesIn(l) ==
  LET es == entries(l, {"R"}) IN [n \in DOMAIN es |-> [min |-> es[n].e.min, max |-> es[n].e.max]]
noncesIn(l) ==
  LET es == entries(l, {"N"})
  IN  [n \in DOMAIN es |->
         [id |-> VMHash("Nonce", es[n].e), block |-> es[n].e.nonce[1], exp |-> es[n].e.nonce[2]]]
amountsIn(l, code) ==
  LET es == entries(l, {code})
  IN  [n \in DOMAIN es |->
         [amount |-> es[n].e.amount, assetID |-> es[n].e.assetID, anchor |-> es[n].e.anchor, logPos |-> es[n].pos]]

entryHook(t, l) ==
  [inputs |-> paired(t.inputs, l, "I"), outputs |-> paired(t.outputs, l, "O"),
   contracts |-> contractsIn(l), timeranges |-> timerangesIn(l), nonces |-> noncesIn(l),
   issuances |-> amountsIn(l, "A"), retirements |-> amountsIn(l, "X"), anchor |-> l[Len(l)].anchor]

-----------------------------------------------------------------------------
\* stackHook, entryHook, and the instructions they pass by.  Of an instruction
\* that panics, stackHook may have kept something.
HookedStep ==
  /\ Stepping
  /\ \/ Uses("output") /\ \E prog \in Programs : opOutput(prog) /\ hookOutput(prog)
     \/ Uses("input") /\ \E con \in Snapshots : opInput(con) /\ hookInput(con)
     \/ Uses("finalize") /\ opFinalize /\ tx' = entryHook(tx, log')

PlainStep ==
  /\ Next /\ UNCHANGED tx
  /\ status = "idle" => version' >= 3
  /\ \A i \in DOMAIN log' : i > Len(log) => log'[i].code \notin {"I", "O", "F"}

HookedPanic ==
  /\ Panic /\ UNCHANGED log
  /\ \/ Uses("output") /\ \E prog \in Programs : hookOutput(prog)
     \/ Uses("input") /\ \E con \in Snapshots : hookInput(con)

\* For a version below 3 Validate returns no machine.  NewTx reads Finalized
\* of the nil machine before it looks at the error, and panics: it returns
\* neither a Tx nor ErrVersion.
Crashed == [panic |-> TRUE]
NilMachine ==
  /\ \E v \in Versions, len \in Lengths : v < 3 /\ Validate(v, len)
  /\ tx' = Crashed

NewTx == HookedStep \/ PlainStep \/ HookedPanic \/ NilMachine

RecordSpec == Init /\ tx = NoTx /\ [][NewTx]_recVars

-----------------------------------------------------------------------------
(***************************************************************************)
(* The contents recorded for each input and output of a finalized          *)
(* transaction are those that its ID in the log is the hash of, at the     *)
(* place in the log it names, whatever calls the contracts made between    *)
(* the hook and the log, and however inputs and outputs alternate; and     *)
(* every one in the log is recorded, in its order.                         *)
(***************************************************************************)
Holds(r, con) == r.seed = con.seed /\ r.program = con.program /\ r.stack = con.stack

Matches(records, l, code) ==
  /\ \A n \in DOMAIN records :
       LET r == records[n]
       IN  /\ r.logPos \in DOMAIN l /\ l[r.logPos].code = code
           /\ r.id = l[r.logPos].id /\ Holds(r, r.id[2])
           /\ \A m \in DOMAIN records : m < n => records[m].logPos < r.logPos
  /\ \A i \in DOMAIN l : l[i].code = code => \E n \in DOMAIN records : records[n].logPos = i

RecordMatchesLog ==
  finalized /\ status # "failed" => Matches(tx.inputs, log, "I") /\ Matches(tx.outputs, log, "O")
=============================================================================
