-------------------------------- MODULE TxVM --------------------------------
(***************************************************************************)
(* The transaction virtual machine (protocol/txvm): one execution of       *)
(* Validate on an arbitrary program.                                       *)
(*                                                                         *)
(* What is kept.  The stacks of values and contracts, the calls and their  *)
(* unwinding, the log, finalize, the run limit.                            *)
(*                                                                         *)
(* What is abstracted.  The program: the next instruction is any, so an    *)
(* execution of the model is an execution of some program, and a program   *)
(* may end anywhere.  Plain data: a program can make, copy and drop        *)
(* integers, byte strings and tuples at will, so they are left out of the  *)
(* stacks, and what an instruction pops as data is a parameter of its      *)
(* action.  Every panic is the one action Panic.  Hashes are ideal:        *)
(* VMHash(f, x) is the tuple that starts with f.  Costs: an entry costs    *)
(* EntryCost (128 in the code), and a log item or byte string costs        *)
(* DataCost (1 and its length in the code).                                *)
(***************************************************************************)
EXTENDS Integers, Sequences

CONSTANTS
  Programs,          \* byte strings popped as programs
  Tags,              \* byte strings popped as asset tags
  Amounts,           \* integers popped by issue and split
  Nonces,            \* pairs of a block ID and a time popped by nonce
  Snapshots,         \* contracts whose inspected tuple input may pop
  Versions,          \* transaction versions
  Lengths,           \* lengths of transaction programs
  Runlimit,
  EntryCost,
  DataCost,
  MaxInt,            \* 2^63 - 1
  StopAfterFinalize,
  Instructions,      \* bound: the instructions that programs of a version use
  MaxLog,            \* bound: items that programs of a version log
  MaxNesting         \* bound: how deep contracts nest

ASSUME TxVMAssumptions ==
  /\ Runlimit \in Nat /\ EntryCost \in Nat /\ DataCost \in Nat
  /\ MaxInt \in Nat /\ MaxNesting \in Nat /\ Amounts \subseteq Int
  /\ StopAfterFinalize \in BOOLEAN

VARIABLES
  status,            \* "idle", "running", "ok", "failed"
  version,
  runlimit,
  argstack,
  calls,             \* the contracts being called, the current one last
  unwinding,
  log,
  finalized,
  txid

vars == <<status, version, runlimit, argstack, calls, unwinding, log,
          finalized, txid>>

-----------------------------------------------------------------------------
(***************************************************************************)
(* Items.  The top of a stack is its last element.                         *)
(***************************************************************************)
emptySeed == <<"empty">>
zeroAssetID == <<"zero">>

VMHash(f, x) == <<f, x>>
ContractSeed(prog) == VMHash("ContractSeed", prog)
AssetID(seed, tag) == VMHash("AssetID", <<seed, tag>>)
NonceTuple(caller, seed, nonce) ==
  [code |-> "N", caller |-> caller, seed |-> seed, nonce |-> nonce]

Value(amount, assetID, anchor) ==
  [type |-> "V", amount |-> amount, assetID |-> assetID, anchor |-> anchor]
Contract(typecode, seed, program, stack) ==
  [type |-> typecode, seed |-> seed, program |-> program, stack |-> stack]

IsValue(item) == item.type = "V"
IsContract(item) == item.type \in {"C", "W"}
isZero(item) == IsValue(item) /\ item.amount = 0
isDroppable(item) == isZero(item)
isPortable(item) == item.type \in {"V", "W"}
stackPortable(stack) == \A i \in DOMAIN stack : isPortable(stack[i])

\* The ID of a contract is a hash of its inspected tuple, which has all of it.
SnapshotID(con) == VMHash("SnapshotID", con)

Pop(stack, n) == SubSeq(stack, 1, Len(stack) - n)
Peek(stack, n) == stack[Len(stack) - n]

Roll(stack, n) ==
  LET i == Len(stack) - n
  IN  SubSeq(stack, 1, i - 1) \o SubSeq(stack, i + 1, Len(stack)) \o <<stack[i]>>

Bury(stack, n) ==
  LET i == Len(stack) - 1 - n
  IN  SubSeq(stack, 1, i) \o <<Peek(stack, 0)>>
      \o SubSeq(stack, i + 1, Len(stack) - 1)

ReverseTop(stack, n) ==
  LET i == Len(stack) - n
  IN  SubSeq(stack, 1, i) \o [k \in 1..n |-> stack[Len(stack) + 1 - k]]

-----------------------------------------------------------------------------
(***************************************************************************)
(* The machine.                                                            *)
(***************************************************************************)
Top == calls[Len(calls)]
contract == Top.con
stack == contract.stack
caller == Top.caller

Depth == Len(stack)
ValueAt(n) == Depth > n /\ IsValue(Peek(stack, n))

Frame(con, clr, execs) == [con |-> con, caller |-> clr, execs |-> execs]
WithTop(frame) == [calls EXCEPT ![Len(calls)] = frame]
WithContract(con) == WithTop(Frame(con, caller, Top.execs))
WithStack(s) ==
  WithContract(Contract(contract.type, contract.seed, contract.program, s))
Replace(n, items) == calls' = WithStack(Pop(stack, n) \o items)

\* exec's loop takes another step.
Stepping ==
  /\ status = "running"
  /\ ~unwinding
  /\ ~(finalized /\ StopAfterFinalize)

\* Fault: nobody looks whether the limit is exhausted.
Charge_Overdraws(cost) == Stepping /\ runlimit' = runlimit - 1 - cost

\* An instruction costs 1, and cost more; one that cannot pay panics.
Charge(cost) ==
  /\ Stepping
  /\ runlimit >= 1 + cost
  /\ runlimit' = runlimit - 1 - cost

\* Fault: the log stays open.
Log_Open(items) == Len(log \o items) <= MaxLog[version] /\ log' = log \o items

\* vm.log panics after finalize.
Log(items) ==
  /\ ~finalized
  /\ Len(log \o items) <= MaxLog[version]
  /\ log' = log \o items

NoLog == UNCHANGED <<log, finalized, txid>>

Init ==
  /\ status = "idle" /\ version = 0 /\ runlimit = Runlimit
  /\ argstack = <<>> /\ calls = <<>> /\ unwinding = FALSE
  /\ log = <<>> /\ finalized = FALSE /\ txid = <<>>

\* Validate, up to its first step.
Validate(v, len) ==
  /\ status = "idle"
  /\ version' = v
  /\ status' = IF v < 3 \/ len > runlimit THEN "failed" ELSE "running"
  /\ calls' = <<Frame(Contract("C", emptySeed, "tx", <<>>), emptySeed, 0)>>
  /\ UNCHANGED <<runlimit, argstack, unwinding, log, finalized, txid>>

\* Values.

logTimeRange(min, max) ==
  [code |-> "R", seed |-> contract.seed, min |-> min, max |-> max]

opNonce(nonce) ==
  LET tuple == NonceTuple(caller, contract.seed, nonce)
  IN  /\ Charge(2 * DataCost + EntryCost)
      /\ Log(<<tuple, logTimeRange(0, nonce[2])>>)
      /\ Replace(0, <<Value(0, zeroAssetID, VMHash("Nonce", tuple))>>)
      /\ UNCHANGED <<status, version, argstack, unwinding, finalized, txid>>

opIssue(tag, amount) ==
  LET assetID == AssetID(contract.seed, tag)
      anchor == Peek(stack, 0).anchor
  IN  /\ Charge(DataCost + EntryCost)
      /\ amount >= 0
      /\ ValueAt(0) /\ isZero(Peek(stack, 0))
      /\ Log(<<[code |-> "A", caller |-> caller, amount |-> amount,
                assetID |-> assetID, anchor |-> anchor]>>)
      /\ Replace(1, <<Value(amount, assetID, anchor)>>)
      /\ UNCHANGED <<status, version, argstack, unwinding, finalized, txid>>

\* Fault: both parts get one anchor.
opSplit_OneAnchor(amount) ==
  LET a == Peek(stack, 0)
      anchor == VMHash("Split1", a.anchor)
  IN  /\ Charge(2 * EntryCost)
      /\ amount >= 0
      /\ ValueAt(0) /\ amount <= a.amount
      /\ Replace(1, <<Value(a.amount - amount, a.assetID, anchor),
                      Value(amount, a.assetID, anchor)>>)
      /\ UNCHANGED <<status, version, argstack, unwinding>> /\ NoLog

opSplit(amount) ==
  LET a == Peek(stack, 0)
  IN  /\ Charge(2 * EntryCost)
      /\ amount >= 0
      /\ ValueAt(0) /\ amount <= a.amount
      /\ Replace(1, <<Value(a.amount - amount, a.assetID,
                            VMHash("Split1", a.anchor)),
                      Value(amount, a.assetID, VMHash("Split2", a.anchor))>>)
      /\ UNCHANGED <<status, version, argstack, unwinding>> /\ NoLog

\* Fault: any two values merge.
opMerge_AnyAssets ==
  LET a == Peek(stack, 0)
      b == Peek(stack, 1)
      sum == a.amount + b.amount
  IN  /\ Charge(EntryCost)
      /\ ValueAt(0) /\ ValueAt(1)
      /\ sum \in (-MaxInt - 1)..MaxInt
      /\ Replace(2, <<Value(sum, a.assetID,
                            VMHash("Merge", <<a.anchor, b.anchor>>))>>)
      /\ UNCHANGED <<status, version, argstack, unwinding>> /\ NoLog

opMerge ==
  LET a == Peek(stack, 0)
      b == Peek(stack, 1)
      sum == a.amount + b.amount
  IN  /\ Charge(EntryCost)
      /\ ValueAt(0) /\ ValueAt(1)
      /\ a.assetID = b.assetID
      /\ sum \in (-MaxInt - 1)..MaxInt
      /\ Replace(2, <<Value(sum, a.assetID,
                            VMHash("Merge", <<a.anchor, b.anchor>>))>>)
      /\ UNCHANGED <<status, version, argstack, unwinding>> /\ NoLog

opRetire ==
  LET a == Peek(stack, 0)
  IN  /\ Charge(DataCost)
      /\ ValueAt(0)
      /\ Log(<<[code |-> "X", seed |-> contract.seed, amount |-> a.amount,
                assetID |-> a.assetID, anchor |-> a.anchor]>>)
      /\ Replace(1, <<>>)
      /\ UNCHANGED <<status, version, argstack, unwinding, finalized, txid>>

\* Stacks.

opDrop ==
  /\ Charge(0)
  /\ Depth > 0 /\ isDroppable(Peek(stack, 0))
  /\ Replace(1, <<>>)
  /\ UNCHANGED <<status, version, argstack, unwinding>> /\ NoLog

\* Fault: moving items is free.
Permute_Free(n, s) ==
  /\ Stepping
  /\ calls' = WithStack(s)
  /\ UNCHANGED <<status, version, runlimit, argstack, unwinding>> /\ NoLog

Permute(n, s) ==
  /\ Charge(n)
  /\ calls' = WithStack(s)
  /\ UNCHANGED <<status, version, argstack, unwinding>> /\ NoLog

opRoll(n) == n < Depth /\ Permute(n, Roll(stack, n))
opBury(n) == n < Depth /\ Permute(n, Bury(stack, n))
opReverse(n) == n <= Depth /\ Permute(n, ReverseTop(stack, n))

opGet ==
  /\ Charge(0)
  /\ argstack # <<>>
  /\ Replace(0, <<Peek(argstack, 0)>>)
  /\ argstack' = Pop(argstack, 1)
  /\ UNCHANGED <<status, version, unwinding>> /\ NoLog

opPut ==
  /\ Charge(0)
  /\ Depth > 0
  /\ argstack' = Append(argstack, Peek(stack, 0))
  /\ Replace(1, <<>>)
  /\ UNCHANGED <<status, version, unwinding>> /\ NoLog

\* The instructions that pop and push nothing but data and log nothing:
\* arithmetic, booleans, strings, tuples, hashes, checksig, jumpif, and those
\* that look at an item, a contract or the log.
DataInstruction(cost) ==
  /\ Charge(cost)
  /\ UNCHANGED <<status, version, argstack, calls, unwinding>> /\ NoLog

\* Contracts.

opContract(prog) ==
  /\ Charge(EntryCost)
  /\ Replace(0, <<Contract("C", ContractSeed(prog), prog, <<>>)>>)
  /\ UNCHANGED <<status, version, argstack, unwinding>> /\ NoLog

\* Fault: the callee sees its caller's caller.
opCall_SameCaller ==
  LET con == Peek(stack, 0)
  IN  /\ Charge(0)
      /\ Depth > 0 /\ IsContract(con)
      /\ calls' = Append(WithStack(Pop(stack, 1)),
                         Frame(Contract("C", con.seed, con.program, con.stack),
                               caller, 0))
      /\ UNCHANGED <<status, version, argstack, unwinding>> /\ NoLog

\* Up to the first step of the called contract; Return has the rest.
opCall ==
  LET con == Peek(stack, 0)
  IN  /\ Charge(0)
      /\ Depth > 0 /\ IsContract(con)
      /\ calls' = Append(WithStack(Pop(stack, 1)),
                         Frame(Contract("C", con.seed, con.program, con.stack),
                               contract.seed, 0))
      /\ UNCHANGED <<status, version, argstack, unwinding>> /\ NoLog

opExec ==
  /\ Charge(0)
  /\ calls' = WithTop(Frame(contract, caller, Top.execs + 1))
  /\ UNCHANGED <<status, version, argstack, unwinding>> /\ NoLog

opInput(con) ==
  /\ Charge(DataCost + EntryCost)
  /\ Log(<<[code |-> "I", seed |-> contract.seed, id |-> SnapshotID(con)]>>)
  /\ Replace(0, <<con>>)
  /\ UNCHANGED <<status, version, argstack, unwinding, finalized, txid>>

opOutput(prog) ==
  LET con == Contract(contract.type, contract.seed, prog, stack)
  IN  /\ Charge(2 * DataCost)
      /\ stackPortable(stack)
      /\ Log(<<[code |-> "O", caller |-> caller, id |-> SnapshotID(con)]>>)
      /\ calls' = WithContract(con)
      /\ unwinding' = TRUE
      /\ UNCHANGED <<status, version, argstack, finalized, txid>>

Suspend(con) ==
  /\ Charge(0)
  /\ calls' = WithContract(con)
  /\ argstack' = Append(argstack, con)
  /\ unwinding' = TRUE
  /\ UNCHANGED <<status, version>> /\ NoLog

opYield(prog) == Suspend(Contract(contract.type, contract.seed, prog, stack))

\* Fault: a contract wraps itself with whatever it holds.
opWrap_Anything(prog) == Suspend(Contract("W", contract.seed, prog, stack))

opWrap(prog) ==
  /\ stackPortable(stack)
  /\ Suspend(Contract("W", contract.seed, prog, stack))

\* The log.

opLog ==
  /\ Charge(DataCost)
  /\ Log(<<[code |-> "L", seed |-> contract.seed]>>)
  /\ UNCHANGED <<status, version, argstack, calls, unwinding, finalized, txid>>

opTimeRange(min, max) ==
  /\ Charge(DataCost)
  /\ Log(<<logTimeRange(min, max)>>)
  /\ UNCHANGED <<status, version, argstack, calls, unwinding, finalized, txid>>

\* The transaction ID is the Merkle root of the log: ideally, the log.
opFinalize ==
  LET anchor == Peek(stack, 0).anchor
  IN  /\ Charge(DataCost)
      /\ ValueAt(0) /\ isZero(Peek(stack, 0))
      /\ Log(<<[code |-> "F", seed |-> contract.seed, version |-> version,
                anchor |-> anchor]>>)
      /\ finalized' = TRUE
      /\ txid' = log'
      /\ Replace(1, <<>>)
      /\ UNCHANGED <<status, version, argstack, unwinding>>

\* Fault: validate looks at the argument stack only.
Residue_Arguments == argstack # <<>>

Residue == stack # <<>> \/ argstack # <<>>

\* The end of a program, or of exec's loop: back in opExec, in opCall or in
\* validate.
Return ==
  /\ status = "running"
  /\ IF Top.execs > 0 THEN
       /\ calls' = WithTop(Frame(contract, caller, Top.execs - 1))
       /\ UNCHANGED <<status, unwinding>>
     ELSE IF Len(calls) > 1 THEN
       IF ~unwinding /\ stack # <<>>
       THEN status' = "failed" /\ UNCHANGED <<calls, unwinding>>
       ELSE /\ calls' = Pop(calls, 1)
            /\ unwinding' = FALSE
            /\ UNCHANGED status
     ELSE
       /\ status' = IF ~StopAfterFinalize /\ Residue THEN "failed" ELSE "ok"
       /\ UNCHANGED <<calls, unwinding>>
  /\ UNCHANGED <<version, runlimit, argstack>> /\ NoLog

\* Any instruction may panic, and validate returns the error.  The only one
\* that panics after it has logged is nonce, when it can pay for the nonce but
\* not for the time range, or for both but not for the value.  The run limit
\* and the stacks that a failed execution leaves are not used.
Panic ==
  /\ Stepping
  /\ status' = "failed"
  /\ \/ UNCHANGED log
     \/ \E nonce \in Nonces :
          LET tuple == NonceTuple(caller, contract.seed, nonce)
          IN  /\ ~finalized
              /\ \/ /\ runlimit \in (1 + DataCost)..(2 * DataCost)
                    /\ log' = log \o <<tuple>>
                 \/ /\ runlimit \in (1 + 2 * DataCost)..(2 * DataCost + EntryCost)
                    /\ log' = log \o <<tuple, logTimeRange(0, nonce[2])>>
  /\ UNCHANGED <<version, runlimit, argstack, calls, unwinding, finalized, txid>>

Uses(name) == name \in Instructions[version]

ValueInstruction ==
  \/ Uses("nonce") /\ \E nonce \in Nonces : opNonce(nonce)
  \/ Uses("issue") /\ \E tag \in Tags, amount \in Amounts : opIssue(tag, amount)
  \/ Uses("split") /\ \E amount \in Amounts : opSplit(amount)
  \/ Uses("merge") /\ opMerge
  \/ Uses("retire") /\ opRetire

StackInstruction ==
  \/ Uses("drop") /\ opDrop
  \/ Uses("get") /\ opGet
  \/ Uses("put") /\ opPut
  \/ Uses("roll") /\ \E n \in 0..Depth : opRoll(n) \/ opBury(n) \/ opReverse(n)

ContractInstruction ==
  \/ \E prog \in Programs :
       \/ Uses("contract") /\ opContract(prog)
       \/ Uses("output") /\ opOutput(prog)
       \/ Uses("yield") /\ opYield(prog)
       \/ Uses("wrap") /\ opWrap(prog)
  \/ Uses("input") /\ \E con \in Snapshots : opInput(con)
  \/ Uses("call") /\ opCall
  \/ Uses("exec") /\ opExec

LogInstruction ==
  \/ Uses("log") /\ opLog
  \/ Uses("timerange") /\ \E nonce \in Nonces : opTimeRange(0, nonce[2])
  \/ Uses("finalize") /\ opFinalize

Step ==
  /\ Stepping
  /\ \/ ValueInstruction \/ StackInstruction \/ ContractInstruction
     \/ LogInstruction
     \/ Uses("data") /\ \E cost \in {0, DataCost} : DataInstruction(cost)

Next ==
  \/ \E v \in Versions, len \in Lengths : Validate(v, len)
  \/ Step \/ Return \/ Panic

Spec == Init /\ [][Next]_vars

\* Validate is a plain loop: while an instruction is left, it takes a step.
FairSpec == Spec /\ WF_vars(Next)

-----------------------------------------------------------------------------
(***************************************************************************)
(* Properties.                                                             *)
(***************************************************************************)

\* Types, and: an instruction that succeeds never overdraws the run limit
\* (charge), and while the machine runs there is a current contract, which is
\* a plain one unless it has just wrapped itself (opCall, opWrap).
TypeOK ==
  /\ status \in {"idle", "running", "ok", "failed"}
  /\ runlimit \in 0..Runlimit
  /\ unwinding \in BOOLEAN /\ finalized \in BOOLEAN
  /\ status # "idle" => calls # <<>>
  /\ \A i \in DOMAIN calls :
       \/ calls[i].con.type = "C"
       \/ unwinding /\ i = Len(calls) /\ calls[i].con.type = "W"

\* The ID that finalize computes stays the ID of the whole log: nothing is
\* logged after it, the log has one finalize item and that is the last.
\* (opFinalize, and the guard of vm.log that every logging instruction runs.)
TxIDIsLog ==
  /\ finalized => txid = log
  /\ \A i \in DOMAIN log : log[i].code = "F" <=> finalized /\ i = Len(log)

\* Whoever is called sees the seed of the contract that called it, however
\* deep the calls and whatever yielded or was wrapped in between (opCall).
CallersAreRight ==
  \A i \in DOMAIN calls :
    calls[i].caller = IF i = 1 THEN emptySeed ELSE calls[i - 1].con.seed

\* After finalize neither the log nor the transaction's ID changes, so the ID
\* that StopAfterFinalize computes for an unsigned transaction is the one the
\* signed transaction has.
LogFrozen == [][finalized => UNCHANGED <<log, finalized, txid>>]_vars

\* Every execution ends: each instruction, the cheapest too, uses up some of
\* the run limit (step's charge).
Terminates == <>(status \in {"ok", "failed"})
=============================================================================
